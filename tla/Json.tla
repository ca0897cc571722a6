-------------------------------- MODULE Json --------------------------------
(***************************************************************************)
(* What the policy server uses of yyjson.h to read a document: the file of *)
(* settings and the bodies of requests.  The reader puts the values of a   *)
(* document one behind the other, a container in front of what it          *)
(* contains.  A cell has a tag (type, subtype, len) and a payload uni; the *)
(* payload of a container says how many cells further its next sibling is. *)
(*                                                                         *)
(* A document is the sequence of its cells, a yyjson_val* a place in it,   *)
(* and 0 is NULL.  The reader itself is vendored (lib/external/yyjson.c):  *)
(* Laid says what read_root_minify and read_root_pretty lay out for a text,*)
(* given as the list of the values in the order in which they are written, *)
(* each with its depth.                                                    *)
(***************************************************************************)
EXTENDS Integers, Sequences, FiniteSets

Null == 0   \* of yyjson_val* and of char*

Containers == {"arr", "obj"}
IntMax     == 2147483647
Numerals   == -IntMax - 1 .. IntMax

-----------------------------------------------------------------------------
(* The reader (yyjson.c).  Item: [depth, type, sub, uni].                  *)

Item(depth, type, sub, uni) == [depth |-> depth, type |-> type, sub |-> sub, uni |-> uni]

\* How many cells item i and all that is in it take.
Extent(items, i) ==
    Cardinality({j \in i .. Len(items) :
                    \A k \in i + 1 .. j : items[k].depth > items[i].depth})

Children(items, i) ==
    {j \in i + 1 .. i + Extent(items, i) - 1 : items[j].depth = items[i].depth + 1}

\* The names among the children of an object.
NamesOf(items, i) ==
    LET in == Children(items, i)
    IN  {j \in in : Cardinality({k \in in : k < j}) % 2 = 0}

\* What the reader accepts.  There is one value with all others in it, and only
\* containers have values in them.  In an object names, which are strings, and
\* values take turns.  Numbers are taken to be those of an int.
IsText(items) ==
    /\ Len(items) \in Nat /\ items = [i \in 1 .. Len(items) |-> items[i]]
    /\ \A i \in 1 .. Len(items) :
          /\ items[i].depth \in Nat /\ (items[i].depth = 0 <=> i = 1)
          /\ i > 1 /\ items[i].depth > items[i - 1].depth =>
                items[i].depth = items[i - 1].depth + 1 /\ items[i - 1].type \in Containers
          /\ items[i].type = "obj" =>
                /\ Cardinality(Children(items, i)) % 2 = 0
                /\ \A j \in NamesOf(items, i) : items[j].type = "str"
          /\ items[i].type = "num" =>
                items[i].sub \in {"uint", "sint", "real"} /\ items[i].uni \in Numerals

\* The len of an object is the number of its members, of a string that of its
\* characters: here names are members of a set, and count as one character.
Laid(items) ==
    [i \in 1 .. Len(items) |->
        [type |-> items[i].type,
         sub  |-> items[i].sub,
         len  |-> CASE items[i].type = "arr" -> Cardinality(Children(items, i))
                    [] items[i].type = "obj" -> Cardinality(Children(items, i)) \div 2
                    [] items[i].type = "str" -> 1
                    [] OTHER -> 0,
         uni  |-> IF items[i].type \in Containers THEN Extent(items, i) ELSE items[i].uni]]

-----------------------------------------------------------------------------
(* Values.                                                                 *)

Root(doc) == IF doc = <<>> THEN Null ELSE 1

IsStr(doc, val) == val # Null /\ doc[val].type = "str"
IsArr(doc, val) == val # Null /\ doc[val].type = "arr"
IsObj(doc, val) == val # Null /\ doc[val].type = "obj"
IsCtn(doc, val) == val # Null /\ doc[val].type \in Containers
IsInt(doc, val) == val # Null /\ doc[val].type = "num" /\ doc[val].sub \in {"uint", "sint"}

GetLen(doc, val) == IF val = Null THEN 0 ELSE doc[val].len
GetStr(doc, val) == IF IsStr(doc, val) THEN doc[val].uni ELSE Null

\* A value that is no integer reads 0: true, "1" and 1.0 do.
GetInt(doc, val) == IF IsInt(doc, val) THEN doc[val].uni ELSE 0

First(val) == val + 1

NextOf(doc, val) ==
    val + (IF IsCtn(doc, val) THEN doc[val].uni ELSE 1)

-----------------------------------------------------------------------------
(* What a text says, by the depths and without the layout.  0: nothing.    *)

\* The value of the first member of item i of that name.
Said(items, i, name) ==
    LET named == IF i = 0 \/ items[i].type # "obj" THEN {}
                 ELSE {j \in NamesOf(items, i) : items[j].uni = name}
    IN  IF named = {} THEN 0 ELSE (CHOOSE j \in named : \A k \in named : j <= k) + 1

Elements(items, i) == IF i = 0 \/ items[i].type # "arr" THEN {} ELSE Children(items, i)

SaidInt(items, i) ==
    IF i # 0 /\ items[i].type = "num" /\ items[i].sub # "real" THEN items[i].uni ELSE 0

SaidStr(items, i) == IF i # 0 /\ items[i].type = "str" THEN items[i].uni ELSE Null

-----------------------------------------------------------------------------
(* Arrays and objects.                                                     *)

\* Mutant: taken for granted.
ArrIsFlat_always(doc, arr) == TRUE

\* No element of it has elements.
ArrIsFlat(doc, arr) ==
    doc[arr].uni = doc[arr].len + 1

ArrGet(doc, arr, idx) ==
    IF ~IsArr(doc, arr) \/ idx >= GetLen(doc, arr) THEN Null
    ELSE IF ArrIsFlat(doc, arr) THEN First(arr) + idx
    ELSE LET val[n \in 0 .. idx] == IF n = 0 THEN First(arr) ELSE NextOf(doc, val[n - 1])
         IN  val[idx]

\* The first member of that name counts.
ObjGet(doc, obj, name) ==
    IF ~IsObj(doc, obj) THEN Null
    ELSE LET size == GetLen(doc, obj)
             key[n \in 1 .. size] ==
                 IF n = 1 THEN First(obj) ELSE NextOf(doc, key[n - 1] + 1)
             named == {n \in 1 .. size : doc[key[n]].uni = name}
         IN  IF named = {} THEN Null
             ELSE key[CHOOSE n \in named : \A m \in named : n <= m] + 1

-----------------------------------------------------------------------------
(* The iterator over the members of an object.                             *)

NoIter == [idx |-> 0, max |-> 0, cur |-> Null]

IterInit(doc, obj) ==
    IF IsObj(doc, obj)
    THEN [idx |-> 0, max |-> GetLen(doc, obj), cur |-> First(obj)]
    ELSE NoIter

HasNext(iter) == iter.idx < iter.max

\* yyjson_obj_iter_next returns iter.cur and moves on.
IterNext(doc, iter) ==
    [iter EXCEPT !.idx = @ + 1, !.cur = NextOf(doc, @ + 1)]

IterVal(key) == IF key = Null THEN Null ELSE key + 1
=============================================================================
