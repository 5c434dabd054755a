----------------------------- MODULE Session_proofs -----------------------------
(***************************************************************************)
(* Proofs, for documents of every length and any number of undo contexts:  *)
(* the session and its converter always agree (ModesAgree), a commit keeps *)
(* the text (CommitKeepsText), and an undo takes the last commit back      *)
(* (UndoTakesBackCommit).                                                  *)
(***************************************************************************)
EXTENDS Session, TLAPS

\* Contexts and undo contexts in which session and converter agree.
Good == {c \in Context : Agree(c)}
GoodSaved == {s \in Saved : s.ctx \in Good}

IInv == ctx \in Good /\ undo \in Seq(GoodSaved) /\ doc \in Document

LEMMA SizeNat ==
  /\ MaxText \in Nat /\ UndoMax \in Nat /\ UndoMax > 0
  /\ 0 \in Size
  BY SessionAssumption DEF Size

-----------------------------------------------------------------------------
(* The operations on a context.                                             *)

\* What the operations make of a context, field by field.
LEMMA ResetForm ==
  ASSUME NEW c \in Context
  PROVE  /\ ResetConverter(c) \in Context
         /\ ResetConverter(c).state = c.state
         /\ ResetConverter(c).conv = "COMPOSITION"
         /\ ResetConverter(c).typed = c.typed
         /\ ResetConverter(c).held = 0
  BY SizeNat DEF ResetConverter, Context, ConverterStates

LEMMA EmptiedForm ==
  ASSUME NEW c \in Context, NEW s \in States
  PROVE  /\ Emptied(c, s) \in Context
         /\ Emptied(c, s).state = s
         /\ Emptied(c, s).conv = c.conv
         /\ Emptied(c, s).typed = 0
         /\ Emptied(c, s).held = c.held
  <1>1. [c EXCEPT !.state = s, !.typed = 0] \in Context
    BY SizeNat DEF Context
  <1>2. QED
    BY <1>1, SizeNat DEF Emptied, Context

LEMMA ClosedForm ==
  ASSUME NEW c \in Context, NEW s \in States
  PROVE  /\ Closed(c, s) \in Context
         /\ Closed(c, s).state = s
         /\ Closed(c, s).conv = "COMPOSITION"
         /\ Closed(c, s).typed = 0
         /\ Closed(c, s).held = 0
  BY ResetForm, EmptiedForm DEF Closed

LEMMA OutForm ==
  ASSUME NEW c \in Context, NEW n \in Size
  PROVE  /\ [c EXCEPT !.out = n] \in Context
         /\ Agree(c) => Agree([c EXCEPT !.out = n])
         /\ [c EXCEPT !.out = n].typed = c.typed
  BY DEF Context, Agree

\* A session that is closed has nothing typed and nothing converted.
LEMMA ClosedGood ==
  ASSUME NEW c \in Context, NEW s \in {"DIRECT", "PRECOMPOSITION"}
  PROVE  /\ Closed(c, s) \in Good
         /\ \A n \in Size : [Closed(c, s) EXCEPT !.out = n] \in Good
  <1>1. Closed(c, s) \in Good
    BY ClosedForm DEF Good, States, Agree
  <1>2. QED
    BY <1>1, OutForm DEF Good

LEMMA EmptiedGood ==
  ASSUME NEW c \in Good, c.state = "DIRECT"
  PROVE  Emptied(c, "PRECOMPOSITION") \in Good
  BY EmptiedForm DEF Good, States, Agree

LEMMA ResetGood ==
  ASSUME NEW c \in Good, c.state # "CONVERSION"
  PROVE  ResetConverter(c) \in Good
  BY ResetForm DEF Good, Agree

\* A composition with text in it may have suggestions or none.
LEMMA SuggestedGood ==
  ASSUME NEW c \in Context, c.state = "COMPOSITION", c.typed > 0
  PROVE  Suggested(c) \subseteq Good
  <1>1. ResetConverter(c) \in Good
    BY ResetForm DEF Good, Agree
  <1>2. [c EXCEPT !.conv = "SUGGESTION", !.held = c.typed] \in Good
    BY SizeNat DEF Good, Context, States, ConverterStates, Size, Agree
  <1>3. QED
    BY <1>1, <1>2 DEF Suggested

LEMMA ConvertingGood ==
  ASSUME NEW c \in Context, c.typed > 0, NEW v \in {"PREDICTION", "CONVERSION"}
  PROVE  Converting(c, v) \in Good
  BY SizeNat DEF Converting, Good, Context, States, ConverterStates, Size, Agree

\* What CommitInternal commits is of bounded size.
LEMMA CommittingSize == ASSUME ctx \in Context PROVE Committing \in Size
  BY SizeNat DEF Committing, In, Context, Size

-----------------------------------------------------------------------------
(* The operations on the document and on the undo contexts.                 *)

LEMMA DocumentGrows ==
  ASSUME doc \in Document, NEW n \in Nat
  PROVE  /\ doc \o Committed(n) \in Document
         /\ doc \o Direct(n) \in Document
  <1>1. Committed(n) \in Document /\ Direct(n) \in Document
    BY DEF Committed, Direct, Document
  <1>2. QED
    BY <1>1 DEF Document

LEMMA DocumentShrinks ==
  ASSUME doc \in Document, NEW n \in Int, n <= Len(doc)
  PROVE  SubSeq(doc, 1, n) \in Document
  BY DEF Document

LEMMA EntryGood ==
  ASSUME IInv, NEW n \in Nat
  PROVE  Entry(n) \in GoodSaved
  BY DocumentGrows DEF IInv, Entry, GoodSaved, Saved, Good

LEMMA PushedGood ==
  ASSUME IInv, NEW n \in Nat
  PROVE  Pushed(n) \in Seq(GoodSaved)
  <1> DEFINE all == Append(undo, Entry(n))
             first == 1 + (IF Len(all) > UndoMax THEN Len(all) - UndoMax ELSE 0)
  <1>1. all \in Seq(GoodSaved)
    BY EntryGood DEF IInv
  <1>2. first \in Nat /\ first >= 1
    BY <1>1, SizeNat
  <1>3. SubSeq(all, first, Len(all)) \in Seq(GoodSaved)
    <2> HIDE DEF all, first
    <2>1. QED
      BY <1>1, <1>2
  <1>4. QED
    BY <1>3 DEF Pushed

LEMMA LastGood ==
  ASSUME IInv, undo # <<>>
  PROVE  Last(undo) \in GoodSaved /\ Front(undo) \in Seq(GoodSaved)
  BY DEF IInv, Last, Front

-----------------------------------------------------------------------------
LEMMA InitGood == Init => IInv
  <1>1. Fresh \in Good
    BY SizeNat DEF Fresh, Good, Context, States, ConverterStates, Size, Agree
  <1>2. QED
    BY <1>1 DEF Init, IInv, Document

LEMMA EmptyGood == <<>> \in Seq(GoodSaved)
  OBVIOUS

LEMMA ContextGood == IInv => ctx \in Context /\ Agree(ctx)
  BY DEF IInv, Good

\* Keys and commands that edit what is being typed.
LEMMA InsertStep == ASSUME IInv, InsertCharacter PROVE IInv'
  <1> DEFINE first == IF In({"CONVERSION"}) THEN ctx.held ELSE 0
             base == IF In({"CONVERSION"})
                     THEN [Closed(ctx, "PRECOMPOSITION") EXCEPT !.out = first]
                     ELSE ctx
             more == [base EXCEPT !.state = "COMPOSITION", !.typed = @ + 1]
  <1>1. ctx \in Context /\ first \in Size
    BY ContextGood, SizeNat DEF Context, Size
  <1>2. base \in Context /\ base.typed <= ctx.typed
    <2>1. CASE In({"CONVERSION"})
      BY <1>1, <2>1, SizeNat, ClosedForm, OutForm DEF States, Context, Size
    <2>2. CASE ~ In({"CONVERSION"})
      BY <1>1, <2>2 DEF Context, Size
    <2>3. QED
      BY <2>1, <2>2
  <1> HIDE DEF base
  <1>3. /\ more \in Context
        /\ more.state = "COMPOSITION"
        /\ more.typed \in Nat /\ more.typed > 0
    <2>1. Len(doc) \in Nat /\ Len(doc) + ctx.typed + 1 <= MaxText
      BY DEF IInv, InsertCharacter, Room, Document
    <2>2. ctx.typed \in Nat /\ base.typed \in Nat /\ base.typed + 1 \in Size
      BY <1>1, <1>2, <2>1, SizeNat DEF Context, Size
    <2>3. QED
      <3> DEFINE k == base.typed + 1
      <3>1. more = [base EXCEPT !.state = "COMPOSITION", !.typed = k]
        BY <1>2
      <3>2. k \in Size /\ k > 0 /\ k \in Nat
        BY <2>2
      <3> HIDE DEF k, more
      <3>3. QED
        BY <1>2, <3>1, <3>2 DEF Context, States
  <1>4. doc \o Committed(first) \in Document
    BY <1>1, SizeNat, DocumentGrows DEF IInv, Size
  <1>5. /\ undo' = <<>>
        /\ \/ /\ ctx' \in Suggested(more) \cup {Converting(more, "CONVERSION")}
              /\ doc' = doc \o Committed(first)
           \/ /\ ctx' = Closed(base, "PRECOMPOSITION")
              /\ doc' = doc \o Committed(first) \o Committed(more.typed)
    BY DEF InsertCharacter, base
  <1>6. CASE /\ ctx' \in Suggested(more) \cup {Converting(more, "CONVERSION")}
             /\ doc' = doc \o Committed(first)
    <2>1. ctx' \in Good
      BY <1>3, <1>6, SuggestedGood, ConvertingGood
    <2>2. QED
      BY <1>4, <1>5, <1>6, <2>1, EmptyGood DEF IInv
  <1>7. CASE /\ ctx' = Closed(base, "PRECOMPOSITION")
             /\ doc' = doc \o Committed(first) \o Committed(more.typed)
    <2>1. Committed(more.typed) \in Document
      BY <1>3 DEF Committed, Document
    <2>2. doc' \in Document
      BY <1>4, <1>7, <2>1 DEF Document
    <2>3. ctx' \in Good
      BY <1>2, <1>7, ClosedGood
    <2>4. QED
      BY <1>5, <2>2, <2>3, EmptyGood DEF IInv
  <1>8. QED
    BY <1>5, <1>6, <1>7

LEMMA EditStep ==
  ASSUME IInv, Delete \/ MoveCursor
  PROVE  IInv'
  <1>1. undo' \in Seq(GoodSaved) /\ doc' \in Document
    BY EmptyGood DEF Delete, MoveCursor, IInv
  <1>2. /\ ctx \in Context /\ Agree(ctx) /\ ctx.state = "COMPOSITION"
    BY ContextGood DEF Delete, MoveCursor, In
  <1>3. ctx.typed \in Nat /\ ctx.typed > 0
    BY <1>2 DEF Agree, Context, Size
  <1>4. CASE MoveCursor
    BY <1>1, <1>2, <1>3, <1>4, SuggestedGood DEF MoveCursor, IInv
  <1>5. CASE Delete /\ ctx.typed = 1
    BY <1>1, <1>2, <1>5, ClosedGood DEF Delete, IInv
  <1>6. CASE Delete /\ ctx.typed # 1
    <2> DEFINE less == [ctx EXCEPT !.typed = @ - 1]
    <2>1. less \in Context /\ less.state = "COMPOSITION" /\ less.typed > 0
      BY <1>2, <1>3, <1>6, SizeNat DEF Context, Size
    <2>2. ctx' \in Suggested(less)
      BY <1>6 DEF Delete
    <2> HIDE DEF less
    <2>3. QED
      BY <1>1, <2>1, <2>2, SuggestedGood DEF IInv
  <1>7. QED
    BY <1>4, <1>5, <1>6

LEMMA CancelStep ==
  ASSUME IInv, EditCancel \/ EditCancelAndIMEOff \/ Revert
  PROVE  IInv'
  <1>1. ctx \in Context /\ Agree(ctx) /\ ctx.source \in Nat
    BY ContextGood DEF Context, Size
  <1>2. undo' \in Seq(GoodSaved)
    BY EmptyGood DEF EditCancel, EditCancelAndIMEOff, Revert, IInv
  <1>3. CASE EditCancel \/ EditCancelAndIMEOff
    BY <1>1, <1>2, <1>3, ClosedGood, DocumentGrows
       DEF EditCancel, EditCancelAndIMEOff, IInv
  <1>4. CASE Revert
    <2>1. doc' \in Document
      BY <1>4, DocumentShrinks DEF Revert, IInv, Front, Document
    <2>2. ctx' \in Good
      BY <1>1, <1>4, ResetGood, ClosedGood DEF Revert, In, IInv
    <2>3. QED
      BY <1>2, <2>1, <2>2 DEF IInv
  <1>5. QED
    BY <1>3, <1>4

\* Conversion.
LEMMA ConversionStep ==
  ASSUME IInv, \/ Convert \/ PredictAndConvert \/ SelectCandidate
               \/ ConvertToTransliteration \/ ConvertCancel
  PROVE  IInv'
  <1>1. ctx \in Context /\ Agree(ctx) /\ ctx.typed \in Nat /\ ctx.held \in Nat
    BY ContextGood DEF Context, Size
  <1>2. undo' \in Seq(GoodSaved) /\ doc' \in Document
    BY DEF Convert, PredictAndConvert, SelectCandidate, ConvertToTransliteration,
           ConvertCancel, IInv
  <1>3. ctx.typed > 0
    BY <1>1 DEF Convert, PredictAndConvert, SelectCandidate, ConvertToTransliteration,
                ConvertCancel, In, Agree
  <1>4. CASE Convert
    BY <1>1, <1>2, <1>3, <1>4, ConvertingGood DEF Convert, IInv
  <1>5. CASE PredictAndConvert
    BY <1>1, <1>2, <1>3, <1>5, ConvertingGood, ResetGood DEF PredictAndConvert, In, IInv
  <1>6. CASE SelectCandidate
    <2>1. ctx' \in Good
      BY <1>1, <1>3, <1>6
         DEF SelectCandidate, In, Active, Agree, Good, Context, States, ConverterStates
    <2>2. QED
      BY <1>2, <2>1 DEF IInv
  <1>7. CASE ConvertToTransliteration
    <2>1. CASE ctx.conv = "CONVERSION"
      <3>1. ctx' \in Good
        BY <1>1, <1>3, <1>7, <2>1
           DEF ConvertToTransliteration, In, Agree, Good, Context, States
      <3>2. QED
        BY <1>2, <3>1 DEF IInv
    <2>2. CASE ctx.conv # "CONVERSION"
      BY <1>1, <1>2, <1>3, <1>7, <2>2, ConvertingGood
         DEF ConvertToTransliteration, IInv
    <2>3. QED
      BY <2>1, <2>2
  <1>8. CASE ConvertCancel
    <2> DEFINE back == CancelConverter([ctx EXCEPT !.state = "COMPOSITION"])
    <2>1. back \in Good /\ back.state = "COMPOSITION" /\ back.typed > 0
      <3> DEFINE c == [ctx EXCEPT !.state = "COMPOSITION"]
      <3>1. c \in Context /\ c.state = "COMPOSITION" /\ c.typed > 0
        BY <1>1, <1>3 DEF Context, States
      <3> HIDE DEF c
      <3>2. ResetConverter(c) \in Good /\ ResetConverter(c).state = "COMPOSITION"
            /\ ResetConverter(c).typed > 0
        BY <3>1, ResetForm DEF Good, Agree
      <3>3. QED
        BY <3>2 DEF CancelConverter, c
    <2>2. ctx' \in {back} \cup Suggested(back)
      BY <1>8 DEF ConvertCancel
    <2> HIDE DEF back
    <2>3. ctx' \in Good
      BY <2>1, <2>2, SuggestedGood DEF Good
    <2>4. QED
      BY <1>2, <2>3 DEF IInv
  <1>9. QED
    BY <1>4, <1>5, <1>6, <1>7, <1>8

LEMMA ReverseStep == ASSUME IInv, ConvertReverse PROVE IInv'
  <1>1. PICK n \in (1 .. Len(doc)) \cap Size :
            /\ ctx' = [Converting([ctx EXCEPT !.typed = n], "CONVERSION")
                           EXCEPT !.source = n]
            /\ doc' = SubSeq(doc, 1, Len(doc) - n)
    BY DEF ConvertReverse
  <1>2. doc' \in Document
    BY <1>1, DocumentShrinks DEF IInv, Document
  <1> DEFINE c == [ctx EXCEPT !.typed = n]
  <1>3. c \in Context /\ c.typed > 0
    BY <1>1, ContextGood DEF Context
  <1>4. ctx' = [Converting(c, "CONVERSION") EXCEPT !.source = n]
    BY <1>1
  <1> HIDE DEF c
  <1>5. Converting(c, "CONVERSION") \in Good
    BY <1>3, ConvertingGood
  <1>6. ctx' \in Good
    BY <1>1, <1>4, <1>5 DEF Good, Context, Agree
  <1>7. QED
    BY <1>2, <1>6, EmptyGood DEF ConvertReverse, IInv

\* Commits.
LEMMA CommitStep == ASSUME IInv, Commit PROVE IInv'
  <1>1. ctx \in Context /\ Committing \in Size /\ Committing \in Nat
    BY ContextGood, CommittingSize DEF Size
  <1>2. ctx' \in Good
    BY <1>1, ClosedGood DEF Commit
  <1>3. undo' \in Seq(GoodSaved)
    BY <1>1, PushedGood DEF Commit
  <1>4. doc' \in Document
    BY <1>1, DocumentGrows DEF Commit, IInv
  <1>5. QED
    BY <1>2, <1>3, <1>4 DEF IInv

LEMMA SegmentsStep == ASSUME IInv, CommitSegments PROVE IInv'
  <1>1. /\ ctx \in Context /\ Agree(ctx)
        /\ ctx.typed \in Size /\ ctx.held \in Size
        /\ ctx.typed = ctx.held
        /\ ctx.state = "CONVERSION" /\ ctx.conv = "CONVERSION"
    BY ContextGood DEF CommitSegments, In, Agree, Context
  <1>2. PICK n \in 1 .. ctx.held - 1 : CommitHead(n)
    BY DEF CommitSegments
  <1>3. n \in Nat /\ n \in Size /\ ctx.held - n \in Size /\ ctx.held - n > 0
    BY <1>1, <1>2, SizeNat DEF Size
  <1>4. ctx' = [ctx EXCEPT !.typed = ctx.held - n, !.held = ctx.held - n, !.out = n]
    BY <1>1, <1>2 DEF CommitHead
  <1>5. ctx' \in Good
    BY <1>1, <1>3, <1>4 DEF Good, Context, Agree
  <1>6. undo' \in Seq(GoodSaved)
    BY <1>2, <1>3, PushedGood DEF CommitHead
  <1>7. doc' \in Document
    BY <1>2, <1>3, DocumentGrows DEF CommitHead, IInv
  <1>8. QED
    BY <1>5, <1>6, <1>7 DEF IInv

LEMMA SuggestionStep == ASSUME IInv, CommitSuggestion PROVE IInv'
  <1>1. /\ ctx \in Context /\ Agree(ctx)
        /\ ctx.held \in Size /\ ctx.held \in Nat
    BY ContextGood DEF Context, Size
  <1>2. undo' \in Seq(GoodSaved)
    BY <1>1, PushedGood DEF CommitSuggestion
  <1>3. doc' \in Document
    BY <1>1, DocumentGrows DEF CommitSuggestion, IInv
  <1>4. ctx' \in Good
    BY <1>1, SizeNat, ClosedGood, OutForm DEF CommitSuggestion, Good
  <1>5. QED
    BY <1>2, <1>3, <1>4 DEF IInv

LEMMA DirectStep ==
  ASSUME IInv, InsertText \/ InsertOdorijiDefault \/ CommitRawText
  PROVE  IInv'
  <1>1. ctx \in Context /\ ctx \in Good /\ ctx.typed \in Nat
    BY ContextGood DEF Context, Size, IInv
  <1>2. undo' \in Seq(GoodSaved)
    BY DEF InsertText, InsertOdorijiDefault, CommitRawText, IInv
  <1>3. doc' \in Document
    BY <1>1, DocumentGrows DEF InsertText, InsertOdorijiDefault, CommitRawText, IInv
  <1>4. ctx' \in Good
    BY <1>1, ResetGood, ClosedGood
       DEF InsertText, InsertOdorijiDefault, CommitRawText, In
  <1>5. QED
    BY <1>2, <1>3, <1>4 DEF IInv

\* On, off and undo.
LEMMA OnOffStep == ASSUME IInv, IMEOn \/ IMEOff PROVE IInv'
  <1>1. ctx \in Context /\ ctx \in Good /\ Committing \in Size /\ Committing \in Nat
    BY ContextGood, CommittingSize DEF Size, IInv
  <1>2. CASE IMEOn
    BY <1>1, <1>2, EmptiedGood, EmptyGood DEF IMEOn, In, IInv
  <1>3. CASE IMEOff
    <2>1. undo' \in Seq(GoodSaved)
      <3>1. Entry(Committing) \in GoodSaved
        BY <1>1, EntryGood
      <3>2. QED
        BY <1>3, <3>1, EmptyGood DEF IMEOff
    <2>2. doc' \in Document
      BY <1>1, <1>3, DocumentGrows DEF IMEOff, IInv
    <2>3. ctx' \in Good
      <3>1. Closed(ctx, "DIRECT") \in Good
            /\ \A n \in Size : [Closed(ctx, "DIRECT") EXCEPT !.out = n] \in Good
        BY <1>1, ClosedGood
      <3>2. Closed(ctx, "DIRECT").out \in Size
        BY <3>1 DEF Good, Context
      <3>3. QED
        BY <1>1, <1>3, <3>1, <3>2 DEF IMEOff
    <2>4. QED
      BY <2>1, <2>2, <2>3 DEF IInv
  <1>4. QED
    BY <1>2, <1>3

LEMMA UndoStep == ASSUME IInv, Undo PROVE IInv'
  <1>1. undo # <<>>
    BY DEF Undo
  <1>2. ctx' \in Good /\ undo' \in Seq(GoodSaved)
    BY <1>1, LastGood DEF Undo, GoodSaved
  <1>3. Len(doc) - ctx.out \in Int /\ Len(doc) - ctx.out <= Len(doc)
    BY ContextGood, SizeNat DEF Context, Size, IInv, Document
  <1>4. doc' \in Document
    BY <1>3, DocumentShrinks DEF Undo, IInv
  <1>5. QED
    BY <1>2, <1>4 DEF IInv

LEMMA OtherStep ==
  ASSUME IInv, OffKeys \subseteq {"command"},
         LaunchTool \/ SetConfig \/ EchoBack \/ TestSendKeyOff
  PROVE  IInv'
  <1>1. ctx \in Context /\ ctx \in Good
    BY ContextGood DEF IInv
  <1>2. undo' \in Seq(GoodSaved)
    BY EmptyGood DEF LaunchTool, SetConfig, EchoBack, TestSendKeyOff, IInv
  <1>3. doc' \in Document
    <2>1. doc \in Document /\ doc \o Direct(1) \in Document
      BY DocumentGrows DEF IInv
    <2>2. Front(doc) \in Document
      BY DocumentShrinks DEF IInv, Front, Document
    <2>3. QED
      BY <2>1, <2>2 DEF LaunchTool, SetConfig, EchoBack, TestSendKeyOff
  <1>4. ctx' \in Good
    BY <1>1, ClosedGood, ResetGood
       DEF LaunchTool, SetConfig, EchoBack, TestSendKeyOff, In
  <1>5. QED
    BY <1>2, <1>3, <1>4 DEF IInv

LEMMA GoodStep ==
  ASSUME OffKeys \subseteq {"command"}
  PROVE  IInv /\ [Next]_vars => IInv'
  <1> SUFFICES ASSUME IInv, [Next]_vars PROVE IInv'
    OBVIOUS
  <1>1. CASE UNCHANGED vars
    BY <1>1 DEF vars, IInv
  <1>2. CASE Next
    BY <1>2, InsertStep, EditStep, CancelStep, ConversionStep, ReverseStep, CommitStep,
       SegmentsStep, SuggestionStep, DirectStep, OnOffStep, UndoStep, OtherStep
       DEF Next
  <1>3. QED
    BY <1>1, <1>2

LEMMA GoodModes == IInv => ModesAgree
  BY DEF IInv, ModesAgree, TypeOK, Good, GoodSaved

\* Session, converter and composer agree in every reachable state, and an undo
\* never brings back a context in which they do not: none of the commands, in
\* any order, leaves a conversion without a session that converts or the other
\* way round (session.cc, engine_converter.cc).  The key that a client tests
\* while its input method is off has to be a direct-mode command.
THEOREM ModesCorrect ==
  ASSUME OffKeys \subseteq {"command"}
  PROVE  Spec => []ModesAgree
  <1>1. Init => IInv
    BY InitGood
  <1>2. IInv /\ [Next]_vars => IInv'
    BY GoodStep
  <1>3. IInv => ModesAgree
    BY GoodModes
  <1>4. QED
    BY <1>1, <1>2, <1>3, PTL DEF Spec

-----------------------------------------------------------------------------
(* Commits and undos.                                                       *)

\* The length of what the commit of the i-th undo context committed: it is in the
\* context that an undo would then be given in.
Out(i) == IF i = Len(undo) THEN ctx.out ELSE undo[i + 1].ctx.out

Chain == \A i \in 1 .. Len(undo) : undo[i].after = undo[i].doc \o Committed(Out(i))

LEMMA PrefixCut ==
  ASSUME NEW s \in Document, NEW t \in Document
  PROVE  /\ s \o t \in Document
         /\ Len(s \o t) = Len(s) + Len(t)
         /\ SubSeq(s \o t, 1, Len(s)) = s
         /\ IsPrefix(s, s \o t)
  <1>1. s \o t \in Document /\ Len(s \o t) = Len(s) + Len(t) /\ Len(s) \in Nat /\ Len(t) \in Nat
    BY DEF Document
  <1>2. \A i \in 1 .. Len(s) : (s \o t)[i] = s[i]
    BY DEF Document
  <1>3. SubSeq(s \o t, 1, Len(s)) = s
    BY <1>1, <1>2 DEF Document
  <1>4. SubSeq(s, 1, Len(s)) = s
    BY DEF Document
  <1>5. QED
    BY <1>1, <1>3, <1>4 DEF IsPrefix

LEMMA Lengths ==
  ASSUME NEW n \in Nat
  PROVE  /\ Committed(n) \in Document /\ Len(Committed(n)) = n
         /\ Direct(n) \in Document /\ Len(Direct(n)) = n
  BY DEF Committed, Direct, Document

\* The operations that leave the length of the last result alone.
LEMMA OutKept ==
  ASSUME NEW c \in Context
  PROVE  /\ ResetConverter(c).out = c.out
         /\ \A s \in States : Emptied(c, s).out = c.out /\ Closed(c, s).out = c.out
         /\ \A v \in ConverterStates : Converting(c, v).out = c.out
         /\ \A d \in Suggested(c) : d.out = c.out
  <1>1. ResetConverter(c).out = c.out /\ ResetConverter(c) \in Context
    BY ResetForm DEF ResetConverter, Context
  <1>2. ASSUME NEW b \in Context, NEW s \in States
        PROVE  Emptied(b, s).out = b.out
    BY <1>2 DEF Emptied, Context
  <1>3. \A v \in ConverterStates : Converting(c, v).out = c.out
    BY DEF Converting, Context
  <1>4. \A d \in Suggested(c) : d.out = c.out
    BY <1>1 DEF Suggested, Context
  <1>5. QED
    BY <1>1, <1>2, <1>3, <1>4 DEF Closed

LEMMA NoUndoChain == ASSUME undo' = <<>> PROVE Chain'
  BY DEF Chain

LEMMA SameChain == ASSUME Chain, undo' = undo, ctx'.out = ctx.out PROVE Chain'
  BY DEF Chain, Out

\* A commit of n characters.
LEMMA PushedChain ==
  ASSUME IInv, Chain, NEW n \in Nat, undo' = Pushed(n), ctx'.out = n
  PROVE  Chain'
  <1> DEFINE all == Append(undo, Entry(n))
             first == 1 + (IF Len(all) > UndoMax THEN Len(all) - UndoMax ELSE 0)
  <1>1. /\ undo \in Seq(GoodSaved) /\ all \in Seq(GoodSaved)
        /\ Len(undo) \in Nat /\ Len(all) = Len(undo) + 1
        /\ \A i \in 1 .. Len(undo) : all[i] = undo[i]
        /\ all[Len(all)] = Entry(n)
    BY EntryGood DEF IInv
  <1>2. first \in 1 .. Len(all)
    BY <1>1, SizeNat
  <1>3. undo' = SubSeq(all, first, Len(all))
    BY DEF Pushed
  <1> HIDE DEF all, first
  <1>4. /\ Len(undo') = Len(all) - first + 1
        /\ \A i \in 1 .. Len(undo') : undo'[i] = all[first + i - 1]
    BY <1>1, <1>2, <1>3
  <1>5. SUFFICES ASSUME NEW i \in 1 .. Len(undo')
                 PROVE  undo'[i].after = undo'[i].doc \o Committed(Out(i)')
    BY DEF Chain, Committed
  <1>6. CASE i = Len(undo')
    <2>1. undo'[i] = Entry(n) /\ Out(i)' = n
      BY <1>1, <1>2, <1>4, <1>6 DEF Out
    <2>2. QED
      BY <2>1 DEF Entry
  <1>7. CASE i # Len(undo')
    <2> DEFINE j == first + i - 1
    <2>1. /\ j \in 1 .. Len(undo) /\ undo'[i] = undo[j]
          /\ i + 1 \in 1 .. Len(undo') /\ undo'[i + 1] = all[j + 1]
          /\ Out(i)' = all[j + 1].ctx.out
      <3>1. /\ j \in 1 .. Len(undo) /\ i + 1 \in 1 .. Len(undo')
            /\ first + (i + 1) - 1 = j + 1
        BY <1>1, <1>2, <1>4, <1>7
      <3>2. undo'[i] = all[j] /\ undo'[i + 1] = all[j + 1]
        BY <1>4, <3>1
      <3>3. Out(i)' = undo'[i + 1].ctx.out
        BY <1>7 DEF Out
      <3> HIDE DEF j
      <3>4. QED
        BY <1>1, <3>1, <3>2, <3>3
    <2>2. Out(i)' = Out(j)
      <3>1. CASE j = Len(undo)
        BY <1>1, <2>1, <3>1 DEF Entry, Out
      <3>2. CASE j # Len(undo)
        <4> HIDE DEF j
        <4>1. j + 1 \in 1 .. Len(undo) /\ all[j + 1] = undo[j + 1]
          BY <1>1, <2>1, <3>2
        <4>2. QED
          BY <2>1, <3>2, <4>1 DEF Out
      <3>3. QED
        BY <3>1, <3>2
    <2>3. QED
      BY <2>1, <2>2 DEF Chain
  <1>8. QED
    BY <1>6, <1>7

LEMMA ChainStep == ASSUME IInv, Chain, [Next]_vars PROVE Chain'
  <1>1. ctx \in Context /\ ctx.held \in Nat /\ Committing \in Nat /\ Committing \in Size
    BY ContextGood, CommittingSize DEF Context, Size
  <1>2. CASE InsertCharacter \/ Delete \/ MoveCursor \/ EditCancelAndIMEOff \/ Revert
             \/ ConvertReverse \/ LaunchTool
    BY <1>2, NoUndoChain
       DEF InsertCharacter, Delete, MoveCursor, EditCancelAndIMEOff, Revert,
           ConvertReverse, LaunchTool
  <1>3. CASE EditCancel \/ CommitRawText \/ InsertText \/ InsertOdorijiDefault
    <2>1. undo' = undo
      BY <1>3 DEF EditCancel, CommitRawText, InsertText, InsertOdorijiDefault
    <2>2. ctx'.out = ctx.out
      BY <1>1, <1>3, OutKept
         DEF EditCancel, CommitRawText, InsertText, InsertOdorijiDefault, States
    <2>3. QED
      BY <2>1, <2>2, SameChain
  <1>4. CASE Convert \/ PredictAndConvert \/ SelectCandidate \/ ConvertToTransliteration
    <2>1. undo' = undo
      BY <1>4 DEF Convert, PredictAndConvert, SelectCandidate, ConvertToTransliteration
    <2>2. ctx'.out = ctx.out
      <3>1. CASE Convert \/ PredictAndConvert
        BY <1>1, <3>1, OutKept DEF Convert, PredictAndConvert, ConverterStates
      <3>2. CASE SelectCandidate
        BY <1>1, <3>2 DEF SelectCandidate, Context
      <3>3. CASE ConvertToTransliteration
        BY <1>1, <3>3, OutKept DEF ConvertToTransliteration, Context, ConverterStates
      <3>4. QED
        BY <1>4, <3>1, <3>2, <3>3
    <2>3. QED
      BY <2>1, <2>2, SameChain
  <1>5. CASE ConvertCancel
    <2> DEFINE open == [ctx EXCEPT !.state = "COMPOSITION"]
               back == CancelConverter(open)
    <2>1. open \in Context /\ open.out = ctx.out
      BY <1>1 DEF Context, States
    <2>2. back \in Context /\ back.out = ctx.out
      <3> HIDE DEF open
      <3>1. QED
        BY <2>1, ResetForm, OutKept DEF CancelConverter
    <2>3. ctx' \in {back} \cup Suggested(back) /\ undo' = undo
      BY <1>5 DEF ConvertCancel
    <2> HIDE DEF back
    <2>4. ctx'.out = ctx.out
      BY <2>2, <2>3, OutKept
    <2>5. QED
      BY <2>3, <2>4, SameChain
  <1>6. CASE Commit
    <2>1. undo' = Pushed(Committing) /\ ctx'.out = Committing
      <3>1. Closed(ctx, "PRECOMPOSITION") \in Context
        BY <1>1, ClosedForm DEF States
      <3>2. QED
        BY <1>6, <3>1 DEF Commit, Context
    <2>2. QED
      BY <1>1, <2>1, PushedChain
  <1>7. CASE CommitSegments
    <2>1. PICK n \in 1 .. ctx.held - 1 : CommitHead(n)
      BY <1>7 DEF CommitSegments
    <2>2. undo' = Pushed(n) /\ ctx'.out = n /\ n \in Nat
      BY <1>1, <2>1 DEF CommitHead, Context
    <2>3. QED
      BY <2>2, PushedChain
  <1>8. CASE CommitSuggestion
    <2>1. PICK n \in {ctx.held, 0} : undo' = Pushed(n) /\ ctx'.out = n
      <3>1. Closed(ctx, "PRECOMPOSITION") \in Context
        BY <1>1, ClosedForm DEF States
      <3>2. QED
        BY <1>1, <1>8, <3>1 DEF CommitSuggestion, Context
    <2>2. QED
      BY <1>1, <2>1, PushedChain
  <1>9. CASE IMEOn \/ SetConfig \/ EchoBack
    <2>1. undo' = <<>> \/ undo' = undo
      BY <1>9 DEF IMEOn, SetConfig, EchoBack
    <2>2. ctx'.out = ctx.out
      BY <1>1, <1>9, OutKept DEF IMEOn, SetConfig, EchoBack, States
    <2>3. QED
      BY <2>1, <2>2, NoUndoChain, SameChain
  <1>10. CASE IMEOff
    <2>1. CASE In({"PRECOMPOSITION"})
      BY <1>10, <2>1, NoUndoChain DEF IMEOff
    <2>2. CASE ~In({"PRECOMPOSITION"})
      <3>1. Closed(ctx, "DIRECT") \in Context
        BY <1>1, ClosedForm DEF States
      <3>2. undo' = <<Entry(Committing)>> /\ ctx'.out = Committing
        BY <1>10, <2>2, <3>1 DEF IMEOff, Context
      <3>3. QED
        <4>1. Len(undo') = 1 /\ undo'[1] = Entry(Committing)
          BY <3>2
        <4>2. Out(1)' = Committing
          BY <3>2, <4>1 DEF Out
        <4>3. undo'[1].after = undo'[1].doc \o Committed(Out(1)')
          BY <4>1, <4>2 DEF Entry
        <4>4. \A i \in 1 .. Len(undo') : i = 1
          BY <4>1
        <4>5. QED
          BY <4>3, <4>4 DEF Chain, Committed
    <2>3. QED
      BY <2>1, <2>2
  <1>11. CASE Undo
    <2>1. /\ undo \in Seq(GoodSaved) /\ undo # <<>>
          /\ undo' = SubSeq(undo, 1, Len(undo) - 1)
          /\ ctx' = undo[Len(undo)].ctx
      BY <1>11 DEF Undo, Front, Last, IInv
    <2>2. /\ Len(undo') = Len(undo) - 1 /\ Len(undo) \in Nat
          /\ \A i \in 1 .. Len(undo') : undo'[i] = undo[i]
      <3>1. Len(undo) \in Nat /\ Len(undo) >= 1
        BY <2>1
      <3> DEFINE m == Len(undo) - 1
      <3>2. m \in Nat /\ m <= Len(undo) /\ undo' = SubSeq(undo, 1, m)
        BY <2>1, <3>1
      <3> HIDE DEF m
      <3>3. Len(undo') = m /\ \A i \in 1 .. m : undo'[i] = undo[i]
        BY <2>1, <3>1, <3>2
      <3>4. QED
        BY <3>1, <3>3 DEF m
    <2>3. SUFFICES ASSUME NEW i \in 1 .. Len(undo')
                   PROVE  undo'[i].after = undo'[i].doc \o Committed(Out(i)')
      BY DEF Chain, Committed
    <2>4. i \in 1 .. Len(undo) /\ i + 1 \in 1 .. Len(undo) /\ i # Len(undo)
      BY <2>2
    <2>5. Out(i)' = Out(i)
      <3>1. CASE i = Len(undo')
        <4>1. Out(i)' = undo[i + 1].ctx.out
          BY <2>1, <2>2, <3>1 DEF Out
        <4>2. QED
          BY <2>4, <4>1 DEF Out
      <3>2. CASE i # Len(undo')
        <4>1. i + 1 \in 1 .. Len(undo')
          BY <2>2, <3>2
        <4>2. QED
          BY <2>2, <2>4, <3>2, <4>1 DEF Out
      <3>3. QED
        BY <3>1, <3>2
    <2>6. QED
      BY <2>2, <2>4, <2>5 DEF Chain
  <1>12. CASE TestSendKeyOff
    <2>1. undo' = undo /\ ctx'.out = ctx.out
      BY <1>1, <1>12, OutKept DEF TestSendKeyOff
    <2>2. QED
      BY <2>1, SameChain
  <1>13. CASE UNCHANGED vars
    BY <1>13, SameChain DEF vars
  <1>14. QED
    BY <1>2, <1>3, <1>4, <1>5, <1>6, <1>7, <1>8, <1>9, <1>10, <1>11, <1>12, <1>13 DEF Next

\* An undo that finds the document as the commit left it restores it.
LEMMA UndoRestores == ASSUME IInv, Chain, Undo, Untouched PROVE Restored
  <1> DEFINE u == undo[Len(undo)]
  <1>1. /\ u \in GoodSaved /\ Len(undo) \in 1 .. Len(undo)
        /\ doc = u.after /\ ctx' = u.ctx /\ doc' = SubSeq(doc, 1, Len(doc) - ctx.out)
    BY DEF Undo, Untouched, Last, IInv
  <1>2. u.doc \in Document /\ ctx.out \in Nat
    BY <1>1, ContextGood DEF GoodSaved, Saved, Context, Size
  <1>3. doc = u.doc \o Committed(ctx.out)
    BY <1>1 DEF Chain, Out
  <1> HIDE DEF u
  <1>4. doc' = u.doc
    <2>1. Committed(ctx.out) \in Document /\ Len(Committed(ctx.out)) = ctx.out
      BY <1>2, Lengths
    <2>2. /\ Len(doc) = Len(u.doc) + ctx.out
          /\ SubSeq(doc, 1, Len(u.doc)) = u.doc
      BY <1>2, <1>3, <2>1, PrefixCut
    <2>3. Len(doc) - ctx.out = Len(u.doc)
      BY <1>2, <2>2 DEF Document
    <2>4. QED
      BY <1>1, <2>2, <2>3
  <1>5. QED
    BY <1>1, <1>4 DEF Restored, Last, u

\* Over any number of commits and undos, with the oldest contexts dropped and with
\* commits that fail between them, the length of the result that the client is told
\* to delete is that of the commit that is taken back (session.cc, "for Undo").
THEOREM UndoCorrect ==
  ASSUME OffKeys \subseteq {"command"}
  PROVE  Spec => UndoTakesBackCommit
  <1>1. Init => IInv /\ Chain
    BY InitGood DEF Init, Chain
  <1>2. IInv /\ Chain /\ [Next]_vars => IInv' /\ Chain'
    BY GoodStep, ChainStep
  <1>3. IInv /\ Chain => [Undo /\ Untouched => Restored]_vars
    BY UndoRestores
  <1>4. QED
    BY <1>1, <1>2, <1>3, PTL DEF Spec, UndoTakesBackCommit

\* What a commit adds to the document is what it takes from the composer.
LEMMA CommitMoves ==
  ASSUME IInv, Commit \/ CommitSegments \/ CommitSuggestion \/ CommitRawText
  PROVE  Shown' = Shown /\ IsPrefix(doc, doc')
  <1>1. /\ ctx \in Context /\ Agree(ctx) /\ doc \in Document
        /\ ctx.typed \in Nat /\ ctx.held \in Nat /\ Len(doc) \in Nat
    BY ContextGood DEF IInv, Context, Size, Document
  <1>2. ASSUME NEW n \in Nat, doc' = doc \o Committed(n) \/ doc' = doc \o Direct(n),
               ctx'.typed = ctx.typed - n
        PROVE  Shown' = Shown /\ IsPrefix(doc, doc')
    <2>1. Len(doc') = Len(doc) + n /\ IsPrefix(doc, doc')
      <3>1. PICK t \in Document : Len(t) = n /\ doc' = doc \o t
        <4>1. /\ Committed(n) \in Document /\ Len(Committed(n)) = n
              /\ Direct(n) \in Document /\ Len(Direct(n)) = n
          BY <1>2, Lengths
        <4>2. QED
          BY <1>2, <4>1
      <3>2. QED
        BY <1>1, <3>1, PrefixCut
    <2>2. QED
      BY <1>1, <1>2, <2>1 DEF Shown
  <1>3. Closed(ctx, "PRECOMPOSITION") \in Context /\ Closed(ctx, "PRECOMPOSITION").typed = 0
    BY <1>1, ClosedForm DEF States
  <1>4. CASE Commit
    <2>1. Committing = ctx.typed
      BY <1>1, <1>4 DEF Commit, Committing, In, Agree
    <2>2. ctx'.typed = 0 /\ doc' = doc \o Committed(Committing)
      BY <1>3, <1>4 DEF Commit, Context
    <2>3. QED
      <3>1. ctx'.typed = ctx.typed - ctx.typed
        BY <1>1, <2>2
      <3>2. QED
        BY <1>1, <1>2, <2>1, <2>2, <3>1
  <1>5. CASE CommitSegments
    <2>1. PICK n \in 1 .. ctx.held - 1 : CommitHead(n)
      BY <1>5 DEF CommitSegments
    <2>2. doc' = doc \o Committed(n) /\ ctx'.typed = ctx.typed - n /\ n \in Nat
      BY <1>1, <2>1 DEF CommitHead, Context
    <2>3. QED
      BY <1>2, <2>2
  <1>6. CASE CommitSuggestion
    <2>1. ctx.held = ctx.typed
      BY <1>1, <1>6 DEF CommitSuggestion, In, Active, Agree
    <2>2. \/ ctx'.typed = 0 /\ doc' = doc \o Committed(ctx.held)
          \/ ctx'.typed = ctx.typed /\ doc' = doc
      BY <1>1, <1>3, <1>6 DEF CommitSuggestion, Context
    <2>3. doc' = doc => IsPrefix(doc, doc')
      BY <1>1 DEF IsPrefix
    <2>4. CASE ctx'.typed = 0 /\ doc' = doc \o Committed(ctx.held)
      <3>1. ctx'.typed = ctx.typed - ctx.held
        BY <1>1, <2>1, <2>4
      <3>2. QED
        BY <1>1, <1>2, <2>4, <3>1
    <2>5. CASE ctx'.typed = ctx.typed /\ doc' = doc
      BY <2>3, <2>5 DEF Shown
    <2>6. QED
      BY <2>2, <2>4, <2>5
  <1>7. CASE CommitRawText
    <2>1. ctx'.typed = 0 /\ doc' = doc \o Direct(ctx.typed)
      BY <1>3, <1>7 DEF CommitRawText
    <2>2. ctx'.typed = ctx.typed - ctx.typed
      BY <1>1, <2>1
    <2>3. QED
      BY <1>1, <1>2, <2>1, <2>2
  <1>8. QED
    BY <1>4, <1>5, <1>6, <1>7

\* No commit, of all or of a part, loses text or puts it into the document twice.
THEOREM CommitCorrect ==
  ASSUME OffKeys \subseteq {"command"}
  PROVE  Spec => CommitKeepsText
  <1>1. Init => IInv
    BY InitGood
  <1>2. IInv /\ [Next]_vars => IInv'
    BY GoodStep
  <1>3. IInv => [Commit \/ CommitSegments \/ CommitSuggestion \/ CommitRawText
                 => Shown' = Shown /\ IsPrefix(doc, doc')]_vars
    BY CommitMoves
  <1>4. QED
    BY <1>1, <1>2, <1>3, PTL DEF Spec, CommitKeepsText
=============================================================================
