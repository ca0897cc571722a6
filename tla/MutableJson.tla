----------------------------- MODULE MutableJson -----------------------------
(***************************************************************************)
(* The arrays and objects of yyjson.h a program can change: the part of    *)
(* that header which is compiled into the server and which no handler      *)
(* calls yet (what the handlers read documents with is in Json).           *)
(*                                                                         *)
(* The elements of a container are a ring: every cell has the next one,    *)
(* and uni.ptr of the container has the last.  In an object keys and       *)
(* values alternate, and uni.ptr has the last key.  An empty container     *)
(* still points where its last element was.                                *)
(*                                                                         *)
(* One container is created and changed by any calls.  `said' is what it   *)
(* should contain: each call on a sequence, without cells.                 *)
(***************************************************************************)
EXTENDS Integers, Sequences, FiniteSets

LOCAL INSTANCE SequencesExt

CONSTANTS
    MostValues, \* elements put into an array, at most
    MostPairs,  \* pairs put into an object, at most
    Names       \* the names of its keys

ASSUME MutAssumption == MostValues \in Nat /\ MostPairs \in Nat

Nil == 0    \* NULL, and the next of a cell that was in no container

Cells == 1 .. IF MostValues > 2 * MostPairs THEN MostValues ELSE 2 * MostPairs

VARIABLES
    ctn,    \* the container: [type, len, ptr]
    next,   \* of every cell
    uni,    \* its payload: of a value its own number, of a key its name
    walk,   \* an iterator: [idx, max, cur, pre]
    element, \* it is at none, at one, or where one was removed
    said,   \* what the container should contain
    right,  \* the last call returned what it should
    astray  \* idx of the iterator is no longer the index of cur

mut_vars == <<ctn, next, uni, walk, element, said, right, astray>>

IsArray  == ctn.type = "arr"
IsObject == ctn.type = "obj"
Stride   == IF IsArray THEN 1 ELSE 2

NoWalk == [idx |-> 0, max |-> 0, cur |-> Nil, pre |-> Nil]

-----------------------------------------------------------------------------
(* Walking the ring.                                                       *)

\* n links on.
Hop(from, n) ==
    LET hop[i \in 0 .. n] ==
            IF i = 0 \/ from = Nil THEN from
            ELSE IF hop[i - 1] = Nil THEN Nil ELSE next[hop[i - 1]]
    IN  hop[n]

KeyAfter(nx, key) == nx[nx[key]]

\* The n-th key after the last, of which the len-th is the last again.
KeyAt(n) == Hop(ctn.ptr, 2 * n)

MutArrGet(idx) == IF idx < ctn.len THEN Hop(ctn.ptr, idx + 1) ELSE Nil
MutArrFirst    == IF ctn.len > 0 THEN next[ctn.ptr] ELSE Nil
MutArrLast     == IF ctn.len > 0 THEN ctn.ptr ELSE Nil

\* The value of the first key of that name.
MutObjGet(name) ==
    LET named == {n \in 1 .. ctn.len : uni[KeyAt(n)] = name}
    IN  IF named = {} THEN Nil
        ELSE next[KeyAt(CHOOSE n \in named : \A m \in named : n <= m)]

-----------------------------------------------------------------------------
(* What should be.  An array is the sequence of its payloads, an object    *)
(* that of pairs of a name and a payload.                                  *)

Named(name) == SelectSeq(said, LAMBDA pair : pair[1] = name)
NotNamed(name) == SelectSeq(said, LAMBDA pair : pair[1] # name)

Payload(cell) == IF cell = Nil THEN Nil ELSE uni[cell]
FirstOf(pairs) == IF pairs = <<>> THEN Nil ELSE Head(pairs)[2]

\* The first pair of that name gets the payload, and the others go.
Given(name, payload) ==
    LET first == CHOOSE i \in DOMAIN said :
                     said[i][1] = name /\ \A j \in 1 .. i - 1 : said[j][1] # name
    IN  IF Named(name) = <<>> THEN Append(said, <<name, payload>>)
        ELSE SubSeq(said, 1, first - 1) \o <<<<name, payload>>>>
             \o SelectSeq(SubSeq(said, first + 1, Len(said)), LAMBDA pair : pair[1] # name)

Rotated(idx) == SubSeq(said, idx + 1, Len(said)) \o SubSeq(said, 1, idx)

\* A call that changes the container ends every iteration over it.
Done(contents, as_said) ==
    /\ said' = contents
    /\ right' = as_said
    /\ walk' = NoWalk /\ element' = "none"
    /\ UNCHANGED astray

-----------------------------------------------------------------------------
(* New containers and new cells.                                           *)

\* The first size cells, each linked to the one behind it.
Consecutive(size) == [c \in Cells |-> CASE c < size -> c + 1 [] c = size -> 1 [] OTHER -> Nil]

\* yyjson_mut_arr and every yyjson_mut_arr_with_*.
ArrWith(count) ==
    /\ ctn = [type |-> "arr", len |-> count, ptr |-> count]
    /\ next = Consecutive(count)
    /\ uni = [c \in Cells |-> c]
    /\ said = [i \in 1 .. count |-> i]

\* yyjson_mut_obj, yyjson_mut_obj_with_str and _kv.
ObjWith(count, names) ==
    /\ ctn = [type |-> "obj", len |-> count, ptr |-> IF count = 0 THEN Nil ELSE 2 * count - 1]
    /\ next = Consecutive(2 * count)
    /\ uni = [c \in Cells |-> IF c < 2 * count /\ c % 2 = 1 THEN names[(c + 1) \div 2] ELSE c]
    /\ said = [i \in 1 .. count |-> <<names[i], 2 * i>>]

MutFirst == walk = NoWalk /\ element = "none" /\ right = TRUE /\ astray = FALSE

MutInit ==
    /\ \/ \E count \in 0 .. MostValues : ArrWith(count)
       \/ \E count \in 0 .. MostPairs : \E names \in [1 .. count -> Names] : ObjWith(count, names)
    /\ MutFirst

\* The cells the pool gives out next.
Fresh(cell) ==
    /\ next[cell] = Nil
    /\ \A c \in Cells : c < cell => next[c] # Nil

FreshValue(val) == val <= MostValues /\ Fresh(val)

\* A key with its value behind it.
FreshPair(key, val) ==
    /\ val = key + 1 /\ key % 2 = 1 /\ val <= 2 * MostPairs
    /\ next[key] = Nil /\ next[val] = Nil
    /\ \A c \in Cells : c < key /\ c % 2 = 1 => next[c] # Nil \/ next[c + 1] # Nil

-----------------------------------------------------------------------------
(* Arrays.                                                                 *)

Alone(val) == [next EXCEPT ![val] = val]

Linked(prev, val) == [next EXCEPT ![prev] = val, ![val] = next[prev]]

MutArrInsert(val, idx) ==
    /\ IsArray /\ FreshValue(val) /\ idx <= ctn.len
    /\ next' = IF ctn.len = 0 THEN Alone(val)
               ELSE Linked(IF idx = ctn.len THEN ctn.ptr ELSE Hop(ctn.ptr, idx), val)
    /\ ctn' = [ctn EXCEPT !.len = @ + 1,
                          !.ptr = IF idx = ctn.len THEN val ELSE @]
    /\ Done(InsertAt(said, idx + 1, uni[val]), TRUE)
    /\ UNCHANGED uni

MutArrAppend(val) ==
    /\ IsArray /\ FreshValue(val)
    /\ next' = IF ctn.len = 0 THEN Alone(val) ELSE Linked(ctn.ptr, val)
    /\ ctn' = [ctn EXCEPT !.len = @ + 1, !.ptr = val]
    /\ Done(Append(said, uni[val]), TRUE)
    /\ UNCHANGED uni

MutArrPrepend(val) ==
    /\ IsArray /\ FreshValue(val)
    /\ next' = IF ctn.len = 0 THEN Alone(val) ELSE Linked(ctn.ptr, val)
    /\ ctn' = [ctn EXCEPT !.len = @ + 1, !.ptr = IF ctn.len = 0 THEN val ELSE @]
    /\ Done(<<uni[val]>> \o said, TRUE)
    /\ UNCHANGED uni

\* Every yyjson_mut_arr_add_*: a new value of a type, appended.
MutArrAdd == \E val \in Cells : MutArrAppend(val)

MutArrReplace(idx, val) ==
    LET prev == Hop(ctn.ptr, idx)
        old  == next[prev]
    IN  /\ IsArray /\ FreshValue(val) /\ idx < ctn.len
        /\ next' = IF ctn.len = 1 THEN Alone(val)
                   ELSE [next EXCEPT ![prev] = val, ![val] = next[old]]
        /\ ctn' = [ctn EXCEPT !.ptr = IF ctn.len = 1 \/ old = @ THEN val ELSE @]
        /\ Done(ReplaceAt(said, idx + 1, uni[val]),
                Payload(IF ctn.len = 1 THEN ctn.ptr ELSE old) = said[idx + 1])
        /\ UNCHANGED uni

MutArrRemove(idx) ==
    LET prev == Hop(ctn.ptr, idx)
        old  == next[prev]
    IN  /\ IsArray /\ idx < ctn.len
        /\ next' = IF ctn.len = 1 THEN next ELSE [next EXCEPT ![prev] = next[old]]
        /\ ctn' = [ctn EXCEPT !.len = @ - 1,
                              !.ptr = IF ctn.len > 1 /\ old = @ THEN prev ELSE @]
        /\ Done(RemoveAt(said, idx + 1),
                Payload(IF ctn.len = 1 THEN ctn.ptr ELSE old) = said[idx + 1])
        /\ UNCHANGED uni

MutArrRemoveFirst ==
    LET old == IF ctn.len > 1 THEN next[ctn.ptr] ELSE ctn.ptr
    IN  /\ IsArray /\ ctn.len > 0
        /\ next' = IF ctn.len = 1 THEN next ELSE [next EXCEPT ![ctn.ptr] = next[old]]
        /\ ctn' = [ctn EXCEPT !.len = @ - 1]
        /\ Done(Tail(said), Payload(old) = Head(said))
        /\ UNCHANGED uni

\* Mutant: the container still points to the one removed.
MutArrRemoveLast_stays ==
    LET prev == Hop(ctn.ptr, ctn.len - 1)
    IN  /\ IsArray /\ ctn.len > 0
        /\ next' = IF ctn.len = 1 THEN next ELSE [next EXCEPT ![prev] = next[ctn.ptr]]
        /\ ctn' = [ctn EXCEPT !.len = @ - 1]
        /\ Done(Front(said), Payload(ctn.ptr) = Last(said))
        /\ UNCHANGED uni

MutArrRemoveLast ==
    LET prev == Hop(ctn.ptr, ctn.len - 1)
    IN  /\ IsArray /\ ctn.len > 0
        /\ next' = IF ctn.len = 1 THEN next ELSE [next EXCEPT ![prev] = next[ctn.ptr]]
        /\ ctn' = [ctn EXCEPT !.len = @ - 1, !.ptr = IF ctn.len > 1 THEN prev ELSE @]
        /\ Done(Front(said), Payload(ctn.ptr) = Last(said))
        /\ UNCHANGED uni

\* n elements from idx on; none, and all, without touching the ring.
MutArrRemoveRange(idx, n) ==
    LET prev == Hop(ctn.ptr, idx)
    IN  /\ IsArray /\ idx + n <= ctn.len
        /\ ctn' = [ctn EXCEPT !.len = @ - n,
                              !.ptr = IF n \notin {0, ctn.len} /\ idx + n = ctn.len
                                      THEN prev ELSE @]
        /\ next' = IF n \in {0, ctn.len} THEN next
                   ELSE [next EXCEPT ![prev] = Hop(next[prev], n)]
        /\ Done(SubSeq(said, 1, idx) \o SubSeq(said, idx + n + 1, Len(said)), TRUE)
        /\ UNCHANGED uni

MutArrClear ==
    /\ IsArray
    /\ ctn' = [ctn EXCEPT !.len = 0]
    /\ Done(<<>>, TRUE)
    /\ UNCHANGED <<next, uni>>

MutArrRotate(idx) ==
    /\ IsArray /\ idx < ctn.len
    /\ ctn' = [ctn EXCEPT !.ptr = Hop(@, idx)]
    /\ Done(Rotated(idx), TRUE)
    /\ UNCHANGED <<next, uni>>

-----------------------------------------------------------------------------
(* Iterators.  A caller removes an element at most once.                   *)

IterStart == [idx |-> 0, max |-> ctn.len, cur |-> IF ctn.len = 0 THEN Nil ELSE ctn.ptr, pre |-> Nil]

MutIterInit ==
    /\ walk' = IterStart
    /\ element' = "none"
    /\ UNCHANGED <<ctn, next, uni, said, right, astray>>

\* An array's iterator goes on from behind the element that followed the
\* removed one, if there is one.
MutIterNext ==
    LET cur == IF IsArray THEN next[walk.cur] ELSE KeyAfter(next, walk.cur)
    IN  /\ walk.idx < walk.max
        /\ walk' = [walk EXCEPT !.idx = @ + 1, !.pre = walk.cur, !.cur = cur]
        /\ element' = "one"
        /\ right' = (IF IsArray THEN uni[cur] = said[walk.idx + 1]
                     ELSE <<uni[cur], uni[next[cur]]>> = said[walk.idx + 1])
        /\ astray' = (IsArray /\ element = "removed")
        /\ UNCHANGED <<ctn, next, uni, said>>

MutArrIterRemove ==
    LET after == next[walk.cur]
    IN  /\ IsArray /\ element = "one"
        /\ ctn' = [ctn EXCEPT !.len = walk.max - 1,
                              !.ptr = IF walk.idx = walk.max THEN walk.pre ELSE @]
        /\ next' = [next EXCEPT ![walk.pre] = after]
        /\ walk' = [walk EXCEPT !.idx = @ - 1, !.max = @ - 1, !.cur = after]
        /\ element' = "removed"
        /\ said' = RemoveAt(said, walk.idx)
        /\ right' = (Payload(walk.cur) = said[walk.idx])
        /\ UNCHANGED <<uni, astray>>

\* What an iteration that removes has in hand: the iterator, the ring, the
\* last key.
Hand == [walk |-> walk, next |-> next, ptr |-> ctn.ptr]

Advance(hand) ==
    [hand EXCEPT !.walk.idx = @ + 1,
                 !.walk.pre = hand.walk.cur,
                 !.walk.cur = KeyAfter(hand.next, hand.walk.cur)]

\* yyjson_mut_obj_iter_remove.
Drop(hand) ==
    LET pre == hand.walk.pre
    IN  [hand EXCEPT !.walk = [idx |-> @.idx - 1, max |-> @.max - 1, cur |-> pre, pre |-> pre],
                     !.next[hand.next[pre]] = KeyAfter(hand.next, hand.walk.cur),
                     !.ptr = IF hand.walk.idx = hand.walk.max THEN pre ELSE @]

MutObjIterRemove ==
    LET hand == Drop(Hand)
    IN  /\ IsObject /\ element = "one"
        /\ walk' = hand.walk
        /\ next' = hand.next
        /\ ctn' = [ctn EXCEPT !.len = hand.walk.max, !.ptr = hand.ptr]
        /\ element' = "removed"
        /\ said' = RemoveAt(said, walk.idx)
        /\ right' = (Payload(next[walk.cur]) = said[walk.idx][2])
        /\ UNCHANGED <<uni, astray>>

\* The search goes once around, from where the iterator is.  Over the end,
\* idx is one less than the place of the key.
MutObjIterGet(name) ==
    LET steps == {n \in 1 .. walk.max : uni[Hop(walk.cur, 2 * n)] = name}
        n     == CHOOSE s \in steps : \A t \in steps : s <= t
        place == walk.idx + n
        cur   == Hop(walk.cur, 2 * n)
        over  == place > walk.max
        ahead == SelectSeq(SubSeq(said, walk.idx + 1, Len(said)) \o SubSeq(said, 1, walk.idx),
                           LAMBDA pair : pair[1] = name)
    IN  /\ IsObject /\ walk.max > 0
        /\ right' = (FirstOf(ahead) = IF steps = {} THEN Nil ELSE uni[next[cur]])
        /\ IF steps = {} THEN UNCHANGED <<walk, element, astray>>
           ELSE /\ walk' = [walk EXCEPT !.idx = IF over THEN place - (walk.max + 1) ELSE place,
                                        !.pre = Hop(walk.cur, 2 * (n - 1)),
                                        !.cur = cur]
                /\ element' = "one"
                /\ astray' = over
        /\ UNCHANGED <<ctn, next, uni, said>>

-----------------------------------------------------------------------------
(* Objects.                                                                *)

\* A pair behind the last key of this ring, or alone.
Added(nx, ptr, len, key, val) ==
    IF len = 0 THEN [nx EXCEPT ![key] = val, ![val] = key]
    ELSE [nx EXCEPT ![nx[ptr]] = key, ![key] = val, ![val] = KeyAfter(nx, ptr)]

MutObjAdd(key, val, name) ==
    /\ IsObject /\ FreshPair(key, val)
    /\ uni' = [uni EXCEPT ![key] = name]
    /\ next' = Added(next, ctn.ptr, ctn.len, key, val)
    /\ ctn' = [ctn EXCEPT !.len = @ + 1, !.ptr = key]
    /\ Done(Append(said, <<name, uni[val]>>), TRUE)

\* Every yyjson_mut_obj_add_*: a key and a value in new cells.
MutObjAddNew == \E key, val \in Cells : \E name \in Names : MutObjAdd(key, val, name)

\* The ring is turned so that the pair comes behind, and turned back.
MutObjInsert(key, val, name, idx) ==
    /\ IsObject /\ FreshPair(key, val) /\ idx <= ctn.len
    /\ uni' = [uni EXCEPT ![key] = name]
    /\ next' = Added(next, IF idx < ctn.len THEN KeyAt(idx) ELSE ctn.ptr, ctn.len, key, val)
    /\ ctn' = [ctn EXCEPT !.len = @ + 1, !.ptr = IF idx < ctn.len THEN @ ELSE key]
    /\ Done(InsertAt(said, idx + 1, <<name, uni[val]>>), TRUE)

\* unsafe_yyjson_mut_obj_remove: every pair of that name.  kept counts those
\* passed, gone is the value of the first removed.
Searched(name) ==
    LET search[n \in 0 .. ctn.len] ==
          IF n = 0
          THEN [pre |-> ctn.ptr, cur |-> KeyAt(1), kept |-> 0, left |-> ctn.len,
                gone |-> Nil, next |-> next, ptr |-> ctn.ptr]
          ELSE LET s     == search[n - 1]
                   after == KeyAfter(s.next, s.cur)
               IN  IF uni[s.cur] # name
                   THEN [s EXCEPT !.pre = s.cur, !.cur = after, !.kept = @ + 1]
                   ELSE [s EXCEPT !.cur = after,
                                  !.gone = IF @ = Nil THEN s.next[s.cur] ELSE @,
                                  !.next[s.next[s.pre]] = after,
                                  !.ptr = IF s.kept + 1 = s.left THEN s.pre ELSE @,
                                  !.left = @ - 1]
    IN  search[ctn.len]

MutObjRemove(name) ==
    LET s == Searched(name)
    IN  /\ IsObject
        /\ next' = s.next
        /\ ctn' = [ctn EXCEPT !.len = s.left, !.ptr = s.ptr]
        /\ Done(NotNamed(name), Payload(s.gone) = FirstOf(Named(name)))
        /\ UNCHANGED uni

\* An iteration over the whole object that gives val, unless it is Nil, to
\* the first key of that name and drops the others.
Swept(name, val) ==
    LET sweep[n \in 0 .. ctn.len] ==
          IF n = 0 THEN [hand |-> [Hand EXCEPT !.walk = IterStart], put |-> FALSE, gone |-> Nil]
          ELSE LET s    == sweep[n - 1]
                   hand == Advance(s.hand)
                   key  == hand.walk.cur
               IN  IF uni[key] # name THEN [s EXCEPT !.hand = hand]
                   ELSE IF val # Nil /\ ~s.put
                   THEN [s EXCEPT !.put = TRUE,
                                  !.hand = [hand EXCEPT !.next[val] = KeyAfter(hand.next, key),
                                                        !.next[key] = val]]
                   ELSE [s EXCEPT !.hand = Drop(hand),
                                  !.gone = IF @ = Nil THEN hand.next[key] ELSE @]
    IN  sweep[ctn.len]

\* yyjson_mut_obj_remove_str and _strn.
MutObjRemoveStr(name) ==
    LET s == Swept(name, Nil)
    IN  /\ IsObject /\ ctn.len > 0
        /\ next' = s.hand.next
        /\ ctn' = [ctn EXCEPT !.len = s.hand.walk.max, !.ptr = s.hand.ptr]
        /\ Done(NotNamed(name), Payload(s.gone) = FirstOf(Named(name)))
        /\ UNCHANGED uni

\* A value that finds no key of that name is added under the key given.
MutObjPut(key, val, name) ==
    LET s == Swept(name, val)
        len == s.hand.walk.max
    IN  /\ IsObject /\ FreshPair(key, val)
        /\ uni' = IF s.put THEN uni ELSE [uni EXCEPT ![key] = name]
        /\ next' = IF s.put THEN s.hand.next ELSE Added(s.hand.next, s.hand.ptr, len, key, val)
        /\ ctn' = IF s.put THEN [ctn EXCEPT !.len = len, !.ptr = s.hand.ptr]
                  ELSE [ctn EXCEPT !.len = len + 1, !.ptr = key]
        /\ Done(Given(name, uni[val]), TRUE)

\* Without a value: what has that name goes.
MutObjPutNothing(name) ==
    LET s == Swept(name, Nil)
    IN  /\ IsObject /\ ctn.len > 0
        /\ next' = s.hand.next
        /\ ctn' = [ctn EXCEPT !.len = s.hand.walk.max, !.ptr = s.hand.ptr]
        /\ Done(NotNamed(name), TRUE)
        /\ UNCHANGED uni

\* The payload of the value given is copied to the first of that name.
MutObjReplace(name, val) ==
    LET old == MutObjGet(name)
        i   == CHOOSE j \in DOMAIN said :
                   said[j][1] = name /\ \A k \in 1 .. j - 1 : said[k][1] # name
    IN  /\ IsObject /\ val % 2 = 0 /\ FreshPair(val - 1, val)
        /\ uni' = IF old = Nil THEN uni ELSE [uni EXCEPT ![old] = uni[val]]
        /\ Done(IF Named(name) = <<>> THEN said ELSE [said EXCEPT ![i] = <<name, uni[val]>>],
                (old # Nil) = (Named(name) # <<>>))
        /\ UNCHANGED <<ctn, next>>

MutObjClear ==
    /\ IsObject
    /\ ctn' = [ctn EXCEPT !.len = 0]
    /\ Done(<<>>, TRUE)
    /\ UNCHANGED <<next, uni>>

MutObjRotate(idx) ==
    /\ IsObject /\ idx < ctn.len
    /\ ctn' = [ctn EXCEPT !.ptr = KeyAt(idx)]
    /\ Done(Rotated(idx), TRUE)
    /\ UNCHANGED <<next, uni>>

\* Every key of that name.
MutObjRename(name, new) ==
    LET keys == {KeyAt(n) : n \in {m \in 1 .. ctn.len : uni[KeyAt(m)] = name}}
    IN  /\ IsObject /\ ctn.len > 0
        /\ uni' = [c \in Cells |-> IF c \in keys THEN new ELSE uni[c]]
        /\ Done([i \in DOMAIN said |-> IF said[i][1] = name THEN <<new, said[i][2]>> ELSE said[i]],
                (keys # {}) = (Named(name) # <<>>))
        /\ UNCHANGED <<ctn, next>>

-----------------------------------------------------------------------------
(* An iterator that is astray is not used any more, nor what it leaves.    *)

ArrNext ==
    \/ MutArrAdd
    \/ \E val \in Cells : MutArrPrepend(val)
    \/ \E val \in Cells, idx \in 0 .. ctn.len : MutArrInsert(val, idx) \/ MutArrReplace(idx, val)
    \/ \E idx \in 0 .. ctn.len - 1 : MutArrRemove(idx) \/ MutArrRotate(idx)
    \/ MutArrRemoveFirst \/ MutArrRemoveLast \/ MutArrClear
    \/ \E idx, n \in 0 .. ctn.len : MutArrRemoveRange(idx, n)
    \/ MutArrIterRemove

ObjNext ==
    \/ MutObjAddNew
    \/ \E key, val \in Cells, name \in Names, idx \in 0 .. ctn.len : MutObjInsert(key, val, name, idx)
    \/ \E key, val \in Cells, name \in Names : MutObjPut(key, val, name)
    \/ \E name \in Names : MutObjRemove(name) \/ MutObjRemoveStr(name) \/ MutObjPutNothing(name)
    \/ \E name \in Names, val \in Cells : MutObjReplace(name, val)
    \/ \E idx \in 0 .. ctn.len - 1 : MutObjRotate(idx)
    \/ \E name, new \in Names : MutObjRename(name, new)
    \/ MutObjClear \/ MutObjIterRemove
    \/ \E name \in Names : MutObjIterGet(name)

MutNext == ~astray /\ (ArrNext \/ ObjNext \/ MutIterInit \/ MutIterNext)

-----------------------------------------------------------------------------
(* Properties.                                                             *)

MutTypeOK ==
    /\ ctn.type \in {"arr", "obj"}
    /\ ctn.len \in 0 .. IF IsArray THEN MostValues ELSE MostPairs
    /\ ctn.ptr \in Cells \union {Nil} /\ (ctn.len > 0 => ctn.ptr # Nil)
    /\ \A c \in Cells : next[c] \in Cells \union {Nil} /\ uni[c] \in Cells \union Names
    /\ walk.idx <= walk.max
    /\ element \in {"none", "one", "removed"} /\ right \in BOOLEAN /\ astray \in BOOLEAN

\* The ring has the cells of len elements, each once, and ends where the
\* container points: unless an iterator went astray, no call leaves out a
\* cell, or one that was removed in (yyjson_mut_arr_* and yyjson_mut_obj_*).
RingWhole ==
    ~astray /\ ctn.len > 0 =>
        LET size == Stride * ctn.len
        IN  /\ Cardinality({Hop(ctn.ptr, n) : n \in 1 .. size}) = size
            /\ Hop(ctn.ptr, size) = ctn.ptr

\* What reading finds in a container, by index, by name, first and last, is
\* what all the calls so far should have made of it.
AsSaid ==
    ~astray =>
        IF IsArray
        THEN /\ ctn.len = Len(said)
             /\ \A i \in DOMAIN said : uni[MutArrGet(i - 1)] = said[i]
             /\ MutArrGet(ctn.len) = Nil
             /\ ctn.len > 0 => uni[MutArrFirst] = Head(said) /\ uni[MutArrLast] = Last(said)
        ELSE /\ ctn.len = Len(said)
             /\ \A i \in DOMAIN said :
                   <<uni[KeyAt(i)], uni[next[KeyAt(i)]]>> = said[i]
             /\ \A name \in Names : Payload(MutObjGet(name)) = FirstOf(Named(name))

\* A call returns what it removed or looked for, and an iterator every
\* element in turn, also when elements are removed on the way: from objects
\* always, from arrays if the iteration ends there.
Returned == ~astray => right

\* The calls do to the ring what they do to the sequence, but for what an
\* iterator that is astray has done (yyjson_mut_arr_iter_remove goes on behind
\* the element that follows, and the loop the header gives for it at 2336-2346
\* relies on more).
DocumentsOK == RingWhole /\ AsSaid /\ Returned
=============================================================================
