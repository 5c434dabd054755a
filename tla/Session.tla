--------------------------------- MODULE Session --------------------------------
(***************************************************************************)
(* One input session (session/session.cc) over its converter (engine/      *)
(* engine_converter.cc) and the document of the application: what is being *)
(* typed, what is being converted, what has been committed, and the undo   *)
(* contexts, copies of the whole context that a commit leaves behind.      *)
(*                                                                         *)
(* The commands are those that the desktop clients (win32/, mac/, unix/)   *)
(* send: no password fields, no zero-query suggestion.  Text is reduced to *)
(* its length in the composer and in the segments; a character of the      *)
(* document is either one that a conversion committed or any other one.    *)
(* The input and display modes are left out.                               *)
(***************************************************************************)
EXTENDS Integers, Sequences, SequencesExt

CONSTANTS MaxText,   \* bound of the characters in the document and the composer
          UndoMax,   \* kMultipleUndoMaxSize
          OffKeys    \* kinds of keys a client tests while its input method is off

ASSUME SessionAssumption ==
    /\ MaxText \in Nat /\ UndoMax \in Nat \ {0}
    /\ OffKeys \subseteq {"command", "plain"}

Size == 0 .. MaxText
States == {"DIRECT", "PRECOMPOSITION", "COMPOSITION", "CONVERSION"}
ConverterStates == {"COMPOSITION", "SUGGESTION", "PREDICTION", "CONVERSION"}
Document == Seq({"converted", "other"})

\* ImeContext: the state of the session, the state of the converter, the length
\* of the composer's text and of the text held in the converter's segments, the
\* length of the source text of a reverse conversion, the length of the result
\* that was copied "for Undo".
Context == [state : States, conv : ConverterStates, typed : Size, held : Size,
            source : Size, out : Size]

VARIABLES ctx,    \* context_
          undo,   \* undo_contexts_; each with the document before the commit that
                  \* left it and with its result (history)
          doc     \* the committed text, up to the caret

vars == <<ctx, undo, doc>>

Fresh == [state |-> "DIRECT", conv |-> "COMPOSITION", typed |-> 0, held |-> 0,
          source |-> 0, out |-> 0]

Init == ctx = Fresh /\ undo = <<>> /\ doc = <<>>

Committed(n) == [i \in 1 .. n |-> "converted"]
Direct(n) == [i \in 1 .. n |-> "other"]
Room(n) == Len(doc) + ctx.typed + n <= MaxText
Fits(n) == Len(doc) + n <= MaxText
In(states) == ctx.state \in states
Active == ctx.conv # "COMPOSITION"

-----------------------------------------------------------------------------
(* The calls of the converter and of the composer.                          *)

\* EngineConverter::Reset, ResetState and Cancel.
ResetConverter(c) == [c EXCEPT !.conv = "COMPOSITION", !.held = 0]

\* Mutant: the converter keeps its conversion when the session cancels it.
CancelConverterNot(c) == c

CancelConverter(c) == ResetConverter(c)

\* SetSessionState to DIRECT or PRECOMPOSITION, which resets the composer.
Emptied(c, s) == [c EXCEPT !.state = s, !.typed = 0, !.source = 0]

Closed(c, s) == Emptied(ResetConverter(c), s)

\* Session::Suggest: candidates are found for what has been typed, or are not.
Suggested(c) ==
    {ResetConverter(c), [c EXCEPT !.conv = "SUGGESTION", !.held = c.typed]}

\* EngineConverter::Convert and Predict, and the state the session enters then.
Converting(c, conv) ==
    [c EXCEPT !.state = "CONVERSION", !.conv = conv, !.held = c.typed]

\* PushUndoContext before n characters are committed: a copy of the context;
\* the oldest one is dropped.
Entry(n) == [ctx |-> ctx, doc |-> doc, after |-> doc \o Committed(n)]

Pushed(n) ==
    LET all == Append(undo, Entry(n))
    IN  SubSeq(all, 1 + (IF Len(all) > UndoMax THEN Len(all) - UndoMax ELSE 0),
               Len(all))

\* What CommitInternal commits: the preedit, or what the converter holds.
Committing ==
    IF In({"COMPOSITION"}) THEN ctx.typed
    ELSE IF In({"CONVERSION"}) THEN ctx.held ELSE 0

-----------------------------------------------------------------------------
(* Keys and commands that edit what is being typed.                         *)

\* A key inserts a character.  In a conversion what is converted is committed
\* first; text of direct-input keys only is committed at once; a punctuation
\* key may start the conversion.  Keys that select a candidate change nothing
\* here.
InsertCharacter ==
    /\ ~In({"DIRECT"}) /\ Room(1)
    /\ undo' = <<>>
    /\ LET first == IF In({"CONVERSION"}) THEN ctx.held ELSE 0
           base == IF In({"CONVERSION"})
                   THEN [Closed(ctx, "PRECOMPOSITION") EXCEPT !.out = first]
                   ELSE ctx
           more == [base EXCEPT !.state = "COMPOSITION", !.typed = @ + 1]
       IN  \/ /\ ctx' \in Suggested(more) \cup {Converting(more, "CONVERSION")}
              /\ doc' = doc \o Committed(first)
           \/ /\ ctx' = Closed(base, "PRECOMPOSITION")
              /\ doc' = doc \o Committed(first) \o Committed(more.typed)

\* Backspace and Delete.  The last character takes the session back to
\* precomposition.
Delete ==
    /\ In({"COMPOSITION"}) /\ ctx.typed > 0
    /\ undo' = <<>>
    /\ IF ctx.typed = 1
       THEN ctx' = Closed(ctx, "PRECOMPOSITION")
       ELSE ctx' \in Suggested([ctx EXCEPT !.typed = @ - 1])
    /\ UNCHANGED doc

\* MoveCursorLeft, Right, ToBeginning, ToEnd and MoveCursorTo.
MoveCursor ==
    /\ In({"COMPOSITION"})
    /\ undo' = <<>>
    /\ ctx' \in Suggested(ctx)
    /\ UNCHANGED doc

\* TryCancelConvertReverse commits the source text of a reverse conversion.
EditCancel ==
    /\ In({"COMPOSITION"})
    /\ ctx' = Closed(ctx, "PRECOMPOSITION")
    /\ Fits(ctx.source)
    /\ doc' = doc \o Direct(ctx.source)
    /\ UNCHANGED undo

EditCancelAndIMEOff ==
    /\ ~In({"DIRECT"})
    /\ ctx' = Closed(ctx, "DIRECT")
    /\ undo' = <<>>
    /\ Fits(ctx.source)
    /\ doc' = doc \o Direct(ctx.source)

\* REVERT: a key of the precomposition is echoed back (a Backspace then takes a
\* character of the document), the command drops what is typed.
Revert ==
    /\ ~In({"DIRECT"})
    /\ undo' = <<>>
    /\ ctx' = IF In({"PRECOMPOSITION"}) THEN ResetConverter(ctx)
              ELSE Closed(ctx, "PRECOMPOSITION")
    /\ doc' \in {doc} \cup (IF In({"PRECOMPOSITION"}) /\ doc # <<>>
                            THEN {Front(doc)} ELSE {})

-----------------------------------------------------------------------------
(* Conversion.                                                              *)

Convert ==
    /\ In({"COMPOSITION"})
    /\ ctx' = Converting(ctx, "CONVERSION")
    /\ UNCHANGED <<undo, doc>>

\* Predict finds nothing and resets the converter, or shows its candidates.
\* In a conversion the key moves to the next candidate.
PredictAndConvert ==
    /\ In({"COMPOSITION"})
    /\ ctx' \in {ResetConverter(ctx), Converting(ctx, "PREDICTION")}
    /\ UNCHANGED <<undo, doc>>

\* SELECT_CANDIDATE and HIGHLIGHT_CANDIDATE: a suggestion that gets the focus
\* becomes a prediction.
SelectCandidate ==
    /\ In({"COMPOSITION", "CONVERSION"}) /\ Active
    /\ ctx' = [ctx EXCEPT !.state = "CONVERSION",
                          !.conv = IF @ = "SUGGESTION" THEN "PREDICTION" ELSE @]
    /\ UNCHANGED <<undo, doc>>

\* ConvertToHiragana, FullKatakana, ..., SwitchKanaType, ConvertToHalfWidth: a
\* prediction is cancelled, and what is not converted is, as one segment.
ConvertToTransliteration ==
    /\ In({"COMPOSITION", "CONVERSION"}) /\ ctx.typed > 0
    /\ ctx' = IF ctx.conv = "CONVERSION" THEN [ctx EXCEPT !.state = "CONVERSION"]
              ELSE Converting(ctx, "CONVERSION")
    /\ UNCHANGED <<undo, doc>>

\* CANCEL in a conversion, also after DELETE_CANDIDATE_FROM_HISTORY.
ConvertCancel ==
    /\ In({"CONVERSION"})
    /\ LET back == CancelConverter([ctx EXCEPT !.state = "COMPOSITION"])
       IN  ctx' \in {back} \cup Suggested(back)
    /\ UNCHANGED <<undo, doc>>

\* The selected text of the document becomes the preedit, already converted.
ConvertReverse ==
    /\ In({"DIRECT", "PRECOMPOSITION"})
    /\ \E n \in (1 .. Len(doc)) \cap Size :
        /\ ctx' = [Converting([ctx EXCEPT !.typed = n], "CONVERSION")
                       EXCEPT !.source = n]
        /\ doc' = SubSeq(doc, 1, Len(doc) - n)
    /\ undo' = <<>>

-----------------------------------------------------------------------------
(* Commits.                                                                 *)

\* CommitInternal.
Commit ==
    /\ In({"COMPOSITION", "CONVERSION"}) /\ Fits(Committing)
    /\ undo' = Pushed(Committing)
    /\ ctx' = [Closed(ctx, "PRECOMPOSITION") EXCEPT !.out = Committing]
    /\ doc' = doc \o Committed(Committing)

\* Mutant: the output of a partial commit is not copied for the undo.
CommitHeadForgetful(n) ==
    /\ undo' = Pushed(n)
    /\ doc' = doc \o Committed(n)
    /\ ctx' = [ctx EXCEPT !.typed = @ - n, !.held = @ - n]

\* Mutant: the key characters of what was committed stay in the composer.
CommitHeadKeepingKeys(n) ==
    /\ undo' = Pushed(n)
    /\ doc' = doc \o Committed(n)
    /\ ctx' = [ctx EXCEPT !.held = @ - n, !.out = n]

\* The first n characters of a conversion are committed: its first segment, or
\* the segments up to the focused one.  The others stay converted.
CommitHead(n) ==
    /\ undo' = Pushed(n)
    /\ doc' = doc \o Committed(n)
    /\ ctx' = [ctx EXCEPT !.typed = @ - n, !.held = @ - n, !.out = n]

\* CommitSegment and CommitCandidate in a conversion; all that is held is
\* committed as Commit does.
CommitSegments ==
    /\ In({"CONVERSION"}) /\ ctx.conv = "CONVERSION"
    /\ \E n \in 1 .. ctx.held - 1 : Fits(n) /\ CommitHead(n)

\* CommitCandidate and CommitFirstSuggestion on a suggestion.  An id that the
\* converter does not know commits nothing, but is pushed already.
CommitSuggestion ==
    /\ In({"COMPOSITION"}) /\ Active /\ Fits(ctx.held)
    /\ \/ /\ undo' = Pushed(ctx.held)
          /\ ctx' = [Closed(ctx, "PRECOMPOSITION") EXCEPT !.out = ctx.held]
          /\ doc' = doc \o Committed(ctx.held)
       \/ /\ undo' = Pushed(0)
          /\ ctx' = [ctx EXCEPT !.out = 0]
          /\ UNCHANGED doc

\* CommitStringDirectly: a symbol of the palette, a macron vowel.  What is being
\* typed is dropped, the undo contexts stay.
InsertText ==
    /\ Fits(1)
    /\ ctx' = IF In({"DIRECT"}) THEN ResetConverter(ctx)
              ELSE Closed(ctx, "PRECOMPOSITION")
    /\ doc' = doc \o Direct(1)
    /\ UNCHANGED undo

\* InsertOdorijiDefault: a result of its own, beside what is being typed.
InsertOdorijiDefault ==
    /\ Fits(1)
    /\ doc' = doc \o Direct(1)
    /\ UNCHANGED <<ctx, undo>>

CommitRawText ==
    /\ ctx.typed > 0 /\ Fits(ctx.typed)
    /\ ctx' = Closed(ctx, "PRECOMPOSITION")
    /\ doc' = doc \o Direct(ctx.typed)
    /\ UNCHANGED undo

-----------------------------------------------------------------------------
(* On, off and undo.                                                        *)

\* IMEOn and TURN_ON_IME clear the undo contexts, the composition modes that
\* switch the session on (EnsureIMEIsOn) do not.
IMEOn ==
    /\ In({"DIRECT"})
    /\ ctx' = Emptied(ctx, "PRECOMPOSITION")
    /\ undo' \in {<<>>, undo}
    /\ UNCHANGED doc

\* IMEOff and TURN_OFF_IME: the undo contexts are cleared before the commit,
\* which leaves one.  A key that reports the input method off does the same on
\* a copy of the command: nothing reaches the document, and the key's own
\* character may.
IMEOff ==
    /\ ~In({"DIRECT"})
    /\ undo' = IF In({"PRECOMPOSITION"}) THEN <<>>
               ELSE <<Entry(Committing)>>
    /\ ctx' = [Closed(ctx, "DIRECT") EXCEPT
                   !.out = IF In({"PRECOMPOSITION"}) THEN @ ELSE Committing]
    /\ \/ Fits(Committing) /\ doc' = doc \o Committed(Committing)
       \/ Fits(1) /\ doc' \in {doc, doc \o Direct(1)}

\* UNDO: the client deletes the last result, the session goes back to the
\* context before it.
Undo ==
    /\ ~In({"DIRECT"}) /\ undo # <<>>
    /\ ctx' = Last(undo).ctx
    /\ undo' = Front(undo)
    /\ doc' = SubSeq(doc, 1, Len(doc) - ctx.out)

\* The launch of a dialog, and the configuration that is loaded after it.
LaunchTool ==
    /\ ctx' = Closed(ctx, IF In({"DIRECT"}) THEN "DIRECT" ELSE "PRECOMPOSITION")
    /\ undo' = <<>>
    /\ UNCHANGED doc

SetConfig == undo' = <<>> /\ UNCHANGED <<ctx, doc>>

\* A key that the session echoes back, and one that the client does not send
\* since the input method is off: the application handles it.
EchoBack ==
    /\ In({"DIRECT", "PRECOMPOSITION"})
    /\ ctx' = ResetConverter(ctx)
    /\ undo' \in IF In({"DIRECT"}) THEN {undo, <<>>} ELSE {<<>>}
    /\ doc' \in (IF Fits(1) THEN {doc \o Direct(1)} ELSE {})
               \cup (IF doc # <<>> THEN {Front(doc)} ELSE {})

\* TestSendKey of a key that reports the input method off, while the session is
\* on: a direct-mode command changes nothing, any other key is echoed back.
TestSendKeyOff ==
    /\ ~In({"DIRECT"})
    /\ \E key \in OffKeys :
        ctx' = IF key = "command" THEN ctx ELSE ResetConverter(ctx)
    /\ UNCHANGED <<undo, doc>>

Next ==
    \/ InsertCharacter \/ Delete \/ MoveCursor \/ EditCancel
    \/ EditCancelAndIMEOff \/ Revert
    \/ Convert \/ PredictAndConvert \/ SelectCandidate
    \/ ConvertToTransliteration \/ ConvertCancel \/ ConvertReverse
    \/ Commit \/ CommitSegments \/ CommitSuggestion
    \/ InsertText \/ InsertOdorijiDefault \/ CommitRawText
    \/ IMEOn \/ IMEOff \/ Undo \/ LaunchTool \/ SetConfig \/ EchoBack
    \/ TestSendKeyOff

Spec == Init /\ [][Next]_vars

-----------------------------------------------------------------------------
(* What must hold.                                                          *)

Saved == [ctx : Context, doc : Document, after : Document]

TypeOK == ctx \in Context /\ undo \in Seq(Saved) /\ doc \in Document

\* The session and its converter are always in states that fit: nothing is
\* typed or converted unless the session composes or converts, a conversion has
\* candidates, and the converter holds as much text as was typed.  These are
\* the states that the converter's DCHECKs ask of its caller.
Agree(c) ==
    /\ c.state \in {"DIRECT", "PRECOMPOSITION"} =>
           c.conv = "COMPOSITION" /\ c.typed = 0 /\ c.held = 0
    /\ c.state = "COMPOSITION" =>
           /\ c.typed > 0
           /\ \/ c.conv = "COMPOSITION" /\ c.held = 0
              \/ c.conv = "SUGGESTION" /\ c.held = c.typed
    /\ c.state = "CONVERSION" =>
           /\ c.conv \in {"PREDICTION", "CONVERSION"}
           /\ c.typed > 0 /\ c.held = c.typed

\* The context in use and every context an undo can bring back are such.
ModesAgree ==
    /\ TypeOK
    /\ Agree(ctx)
    /\ \A i \in DOMAIN undo : Agree(undo[i].ctx)

\* A commit moves text from the composer to the end of the document: nothing
\* that was typed is lost, nothing is committed twice.
Shown == Len(doc) + ctx.typed
CommitKeepsText ==
    [][Commit \/ CommitSegments \/ CommitSuggestion \/ CommitRawText
       => Shown' = Shown /\ IsPrefix(doc, doc')]_vars

\* An undo that finds the document as the commit left it puts document and
\* preedit back to what they were before that commit: the length of the result
\* that the client is told to delete belongs to the context that is brought back,
\* over any number of commits and undos.
Restored == doc' = Last(undo).doc /\ ctx'.typed = Last(undo).ctx.typed
Untouched == doc = Last(undo).after
UndoTakesBackCommit == [][Undo /\ Untouched => Restored]_vars

\* The comment at ClearUndoContext (session.h:355) asks that it be called
\* whenever something else changes the preedit: an undo that is still possible
\* would then always restore what was there.
UndoAlwaysRestores == [][Undo => Restored]_vars
=============================================================================
