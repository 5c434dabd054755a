-------------------------------- MODULE LruCache --------------------------------
(***************************************************************************)
(* storage/lru_cache.h, pointer by pointer: a hash table into elements     *)
(* that lie in blocks of growing size, each element either on a singly     *)
(* linked free list or on the doubly linked LRU list.  The helpers are     *)
(* functions from caches to caches, composed as the code calls them; an    *)
(* operation is one action, since the class is used by one thread or under *)
(* its owner's mutex.                                                      *)
(***************************************************************************)
EXTENDS Integers, Sequences

CONSTANTS Key, Value,
          MaxElements,   \* max_elements_
          MaxBlocks,     \* how many entries blocks_ has
          SmallCache,    \* up to this size one block holds everything
          FirstBlock,    \* the size of the first block beyond that
          null

Element == 1 .. MaxElements
Pointer == Element \cup {null}

ASSUME LruCacheAssumption ==
    /\ MaxElements \in Nat \ {0} /\ MaxBlocks \in Nat \ {0}
    /\ SmallCache \in Nat /\ FirstBlock \in Nat \ {0}
    /\ null \notin Element \cup Key

VARIABLE cache

LruTypeOK ==
    cache \in [table : [Key -> Pointer],
               next : [Element -> Pointer], prev : [Element -> Pointer],
               key : [Element -> Key \cup {null}],
               value : [Element -> Value \cup {null}],
               free : Pointer, head : Pointer, tail : Pointer,
               blocks : 0 .. MaxBlocks, capacity : 0 .. MaxElements, size : Nat]

\* The least doubling of FirstBlock whose MaxBlocks-fold doubling has room for all.
InitialBlock ==
    IF MaxElements <= SmallCache THEN MaxElements
    ELSE LET Roomy(n) == FirstBlock * 2 ^ n * 2 ^ MaxBlocks >= MaxElements
         IN  FirstBlock * 2 ^ (CHOOSE n \in 0 .. MaxElements :
                                  Roomy(n) /\ \A i \in 0 .. n - 1 : ~Roomy(i))

\* 64, or so much less than MaxElements as there are doublings, against a SmallCache
\* of 128.
ASSUME InitialBlockAssumption == InitialBlock \in 1 .. MaxElements

LruInit ==
    cache = [table |-> [k \in Key |-> null],
             next |-> [e \in Element |-> null], prev |-> [e \in Element |-> null],
             key |-> [e \in Element |-> null], value |-> [e \in Element |-> null],
             free |-> null, head |-> null, tail |-> null,
             blocks |-> 0, capacity |-> 0, size |-> InitialBlock]

-----------------------------------------------------------------------------
(* Elements and blocks.                                                    *)

\* Writes through a pointer that may be null.
Set(links, p, q) == IF p = null THEN links ELSE [links EXCEPT ![p] = q]

PushFreeList(c, e) ==
    [c EXCEPT !.prev[e] = null, !.next[e] = c.free, !.free = e]

\* The size of the block after the one just added.
NextSize(size, blocks, capacity) ==
    LET left == MaxElements - capacity
        share == left \div (MaxBlocks - blocks)
        grown == IF 2 * size > share THEN share ELSE 2 * size
    IN  IF MaxBlocks = blocks THEN size
        ELSE IF capacity + grown > MaxElements THEN left ELSE grown

\* The new elements go to the free list, which is empty, one before the other; a
\* block may be of size 0.
AddBlock(c) ==
    IF c.blocks < MaxBlocks /\ c.capacity < MaxElements
    THEN LET new == c.capacity + 1 .. c.capacity + c.size
         IN  [c EXCEPT
                !.next = [e \in Element |->
                            IF e \notin new THEN c.next[e]
                            ELSE IF e - 1 \in new THEN e - 1 ELSE c.free],
                !.prev = [e \in Element |-> IF e \in new THEN null ELSE c.prev[e]],
                !.free = IF c.size = 0 THEN c.free ELSE c.capacity + c.size,
                !.blocks = c.blocks + 1,
                !.capacity = c.capacity + c.size,
                !.size = NextSize(c.size, c.blocks + 1, c.capacity + c.size)]
    ELSE c

\* NextFreeElement up to the pop, whose result is the head of the free list.
Provide(c) == IF c.free = null THEN AddBlock(c) ELSE c

PopFreeList(c) ==
    IF c.free = null THEN c
    ELSE [c EXCEPT !.free = c.next[c.free],
                   !.prev = Set(c.prev, c.next[c.free], null),
                   !.next[c.free] = null]

-----------------------------------------------------------------------------
(* The LRU list.                                                           *)

\* Mutant: the tail stays where it was.
RemoveFromLRUButTail(c, e) ==
    [c EXCEPT !.head = IF c.head = e THEN c.next[e] ELSE c.head,
              !.next = [Set(c.next, c.prev[e], c.next[e]) EXCEPT ![e] = null],
              !.prev = [Set(c.prev, c.next[e], c.prev[e]) EXCEPT ![e] = null]]

RemoveFromLRU(c, e) ==
    [c EXCEPT !.head = IF c.head = e THEN c.next[e] ELSE c.head,
              !.tail = IF c.tail = e THEN c.prev[e] ELSE c.tail,
              !.next = [Set(c.next, c.prev[e], c.next[e]) EXCEPT ![e] = null],
              !.prev = [Set(c.prev, c.next[e], c.prev[e]) EXCEPT ![e] = null]]

PushLRUHead(c, e) ==
    LET d == RemoveFromLRU(c, e)
    IN  IF c.head = e THEN c
        ELSE [d EXCEPT !.next[e] = d.head,
                       !.prev = Set(d.prev, d.head, e),
                       !.head = e,
                       !.tail = IF d.tail = null THEN e ELSE d.tail]

Evict(c, e) == PushFreeList(RemoveFromLRU([c EXCEPT !.table[c.key[e]] = null], e), e)

-----------------------------------------------------------------------------
(* The operations.                                                         *)

\* Of a free element the value that it had before is overwritten.
Insert(k, v) ==
    LET found == IF cache.table[k] = null THEN cache ELSE Evict(cache, cache.table[k])
        roomy == Provide(found)
        ready == IF roomy.free # null THEN roomy ELSE Provide(Evict(roomy, roomy.tail))
        e == ready.free
    IN  cache' = PushLRUHead([PopFreeList(ready) EXCEPT
                                !.key[e] = k, !.value[e] = v, !.table[k] = e], e)

MutableLookup(k) ==
    /\ cache.table[k] # null
    /\ cache' = PushLRUHead(cache, cache.table[k])

Erase(k) ==
    /\ cache.table[k] # null
    /\ cache' = Evict(cache, cache.table[k])

\* Mutant: the iterator reads the next element after the body has changed it.
FreeAllLosingNext(c) == IF c.head = null THEN c ELSE PushFreeList(c, c.head)

\* Clear's loop: the iterator has read the next element before the body pushes this
\* one, so that the elements follow each other in the free list in reverse.
FreeAll(c) ==
    LET Loop[n \in Nat] ==
          IF n = 0 THEN [at |-> c.head, cache |-> c]
          ELSE LET l == Loop[n - 1]
               IN  IF l.at = null THEN l
                   ELSE [at |-> l.cache.next[l.at], cache |-> PushFreeList(l.cache, l.at)]
    IN  Loop[MaxElements].cache

Clear ==
    cache' = [FreeAll([cache EXCEPT !.table = [k \in Key |-> null]])
              EXCEPT !.head = null, !.tail = null]

LruNext ==
    \/ \E k \in Key, v \in Value : Insert(k, v)
    \/ \E k \in Key : MutableLookup(k) \/ Erase(k)
    \/ Clear

LruSpec == LruInit /\ [][LruNext]_cache

-----------------------------------------------------------------------------
(* Properties.                                                             *)

\* The elements met from p on along the next pointers, at most all of them.
Chain(p) ==
    LET Walk[n \in Nat] ==
          IF n = 0 THEN [at |-> p, seen |-> {}]
          ELSE LET l == Walk[n - 1]
               IN  IF l.at = null THEN l
                   ELSE [at |-> cache.next[l.at], seen |-> l.seen \cup {l.at}]
    IN  Walk[MaxElements].seen

\* Every element of the blocks is either free or in use, the table names exactly
\* those in use, the list reads the same in both directions, and no element is
\* lost: the CHECKs of PopFreeList, Evict and Insert, which would end the process,
\* do not fail.
ListsAgree ==
    LET used == Chain(cache.head)
        free == Chain(cache.free)
    IN  /\ LruTypeOK
        /\ used \cap free = {}
        /\ used \cup free = 1 .. cache.capacity
        /\ \A k \in Key : cache.table[k] # null =>
              cache.table[k] \in used /\ cache.key[cache.table[k]] = k
        /\ \A e \in used : cache.table[cache.key[e]] = e
        /\ \A e \in used :
              /\ cache.next[e] = null <=> cache.tail = e
              /\ cache.next[e] # null => cache.prev[cache.next[e]] = e
        /\ cache.head # null => cache.prev[cache.head] = null
        /\ \A e \in free : cache.prev[e] = null

\* The list of keys in use, from the head to the tail.
Order ==
    LET Walk[n \in Nat] ==
          IF n = 0 THEN [at |-> cache.head, keys |-> <<>>]
          ELSE LET l == Walk[n - 1]
               IN  IF l.at = null THEN l
                   ELSE [at |-> cache.next[l.at], keys |-> Append(l.keys, cache.key[l.at])]
    IN  Walk[MaxElements].keys

\* The capacity and the size of the next block after n calls of AddBlock, and the
\* elements that all the blocks hold: MaxElements, or a few less when they were to
\* double until the last one.
Grown[n \in Nat] ==
    IF n = 0 THEN [capacity |-> 0, size |-> InitialBlock]
    ELSE LET g == Grown[n - 1]
         IN  IF n <= MaxBlocks /\ g.capacity < MaxElements
             THEN [capacity |-> g.capacity + g.size,
                   size |-> NextSize(g.size, n, g.capacity + g.size)]
             ELSE g
Room == Grown[MaxBlocks].capacity

Abstract == INSTANCE LruOrder
    WITH order <- Order,
         value <- [k \in {x \in Key : cache.table[x] # null} |->
                      cache.value[cache.table[k]]]

\* The pointers implement the order: whatever is inserted, looked up, erased or
\* cleared, the key given up is the one not used for longest, and only when all the
\* elements that the blocks hold are in use, although the blocks grow by and by.
ImplementsOrder == Abstract!Spec
=============================================================================
