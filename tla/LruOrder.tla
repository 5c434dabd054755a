-------------------------------- MODULE LruOrder --------------------------------
(***************************************************************************)
(* What LruCache of storage/lru_cache.h promises to its users, the session *)
(* table and the user history: a map of at most Room keys, ordered         *)
(* by their last use, that gives up the key not used for longest.          *)
(***************************************************************************)
EXTENDS Integers, SequencesExt

CONSTANTS Key, Value,
          Room    \* elements that the blocks hold, at most max_elements_

VARIABLES order,  \* the keys from the most to the least recently used
          value   \* value[k]: what was inserted last under a key of order

vars == <<order, value>>

Others(k) ==
    IF k \in ToSet(order)
    THEN RemoveAt(order, CHOOSE i \in DOMAIN order : order[i] = k)
    ELSE order

Init == order = <<>> /\ value = <<>>

\* The key comes first; the last of the others goes when there is no room.
Insert(k, v) ==
    LET others == Others(k)
        kept == IF Len(others) = Room THEN Front(others) ELSE others
    IN  /\ order' = <<k>> \o kept
        /\ value' = [x \in ToSet(kept) \cup {k} |-> IF x = k THEN v ELSE value[x]]

MutableLookup(k) ==
    /\ order' = IF k \in ToSet(order) THEN <<k>> \o Others(k) ELSE order
    /\ UNCHANGED value

Erase(k) ==
    /\ order' = Others(k)
    /\ value' = [x \in ToSet(order) \ {k} |-> value[x]]

Clear == order' = <<>> /\ value' = <<>>

Next ==
    \/ \E k \in Key, v \in Value : Insert(k, v)
    \/ \E k \in Key : MutableLookup(k) \/ Erase(k)
    \/ Clear

Spec == Init /\ [][Next]_vars
=============================================================================
