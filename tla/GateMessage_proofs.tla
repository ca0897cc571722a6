-------------------------- MODULE GateMessage_proofs --------------------------
(***************************************************************************)
(* Proofs about GateMessage, for any lists of classifiers and any limit    *)
(* that the classifier buffer has room for; and, behind them, about        *)
(* GateEncoding, for any policies, handlers and stack contents.            *)
(***************************************************************************)
EXTENDS GateMessage, GateEncoding, SequenceTheorems, TLAPS

\* The objects lie end to end from one place to another.
Tight(objs, from, to) ==
    /\ objs \in Seq(Objects)
    /\ from \in Nat /\ to \in Nat /\ from <= to
    /\ Len(objs) = 0 => from = to
    /\ Len(objs) > 0 => objs[1].at = from /\ End(objs[Len(objs)]) = to
    /\ Adjacent(objs, 1, Len(objs))
    /\ \A k \in 1 .. Len(objs) : End(objs[k]) <= to

LEMMA ObjType ==
  ASSUME NEW id \in Ids, id # "decision", NEW at \in Nat
  PROVE  /\ Obj(id, at) \in Objects /\ Obj(id, at).at = at /\ Obj(id, at).id = id
         /\ Obj(id, at).length = Declared[id]
         /\ End(Obj(id, at)) = at + Declared[id]
         /\ Declared[id] \in Nat /\ Declared[id] <= 92 /\ Declared[id] % 4 = 0
<1>1. Declared[id] \in {8, 16, 20, 24, 40, 64, 92}
  BY DEF Declared, Ids
<1>2. Declared[id] \in Nat /\ Declared[id] <= 92 /\ Declared[id] % 4 = 0
  BY <1>1
<1>3. QED
  BY <1>2 DEF Obj, Objects, End

\* The handler counts what the encoder declares.
LEMMA CountedDeclared ==
  ASSUME NEW id \in Profiles \cup Classifiers
  PROVE  Counted[id] = Declared[id]
<1>1. id \in {"flow_spec", "scn", "legacy", "extended", "ipv6"} /\ id \in Ids \ {"decision"}
  BY DEF Profiles, Classifiers, Ids
<1>2. QED
  BY <1>1 DEF Counted, Declared

LEMMA ObjectsOf ==
  ASSUME NEW objs \in Seq(Objects)
  PROVE  /\ Len(objs) \in Nat
         /\ \A k \in 1 .. Len(objs) :
               /\ objs[k] \in Objects /\ objs[k].at \in Nat /\ objs[k].length \in Nat
               /\ End(objs[k]) \in Nat /\ objs[k].at <= End(objs[k])
<1>1. \A k \in 1 .. Len(objs) : objs[k] \in Objects
  BY ElementOfSeq
<1>2. Len(objs) \in Nat
  BY LenProperties
<1>3. QED
  BY <1>1, <1>2 DEF Objects, End

LEMMA TightOne ==
  ASSUME NEW o \in Objects
  PROVE  Tight(<<o>>, o.at, End(o))
<1>1. o.at \in Nat /\ End(o) \in Nat /\ o.at <= End(o)
  BY DEF Objects, End
<1>2. <<o>> \in Seq(Objects) /\ Len(<<o>>) = 1 /\ <<o>>[1] = o
  OBVIOUS
<1>3. QED
  BY <1>1, <1>2 DEF Tight, Adjacent

LEMMA TightNone == ASSUME NEW at \in Nat PROVE Tight(<<>>, at, at)
BY EmptySeq DEF Tight, Adjacent

LEMMA Words ==
  ASSUME NEW a \in Nat, NEW b \in Nat, a % 4 = 0, b % 4 = 0
  PROVE  (a + b) % 4 = 0
OBVIOUS

LEMMA ConcatFour ==
  ASSUME NEW a \in Seq(Objects), NEW b \in Seq(Objects), NEW c \in Seq(Objects),
         NEW d \in Seq(Objects)
  PROVE  ((a \o b) \o c) \o d = a \o (b \o (c \o d))
<1>1. c \o d \in Seq(Objects) /\ a \o b \in Seq(Objects)
  BY ConcatProperties
<1>2. ((a \o b) \o c) \o d = (a \o b) \o (c \o d)
  BY <1>1, ConcatAssociative, SMTT(40)
<1>3. (a \o b) \o (c \o d) = a \o (b \o (c \o d))
  BY <1>1, ConcatAssociative, SMTT(40)
<1>4. QED
  BY <1>2, <1>3

LEMMA ConcatPoints ==
  ASSUME NEW a \in Seq(Objects), NEW b \in Seq(Objects)
  PROVE  /\ Len(a \o b) = Len(a) + Len(b) /\ Len(a) \in Nat /\ Len(b) \in Nat
         /\ \A k \in 1 .. Len(a) : (a \o b)[k] = a[k]
         /\ \A k \in 1 .. Len(b) : (a \o b)[Len(a) + k] = b[k]
BY ConcatProperties, LenProperties

\* concat keeps objects end to end.
LEMMA TightConcat ==
  ASSUME NEW a, NEW b, NEW from, NEW mid, NEW to,
         Tight(a, from, mid), Tight(b, mid, to)
  PROVE  Tight(a \o b, from, to)
<1> DEFINE c == a \o b
<1>1. a \in Seq(Objects) /\ b \in Seq(Objects) /\ from \in Nat /\ mid \in Nat /\ to \in Nat
      /\ from <= mid /\ mid <= to
  BY DEF Tight
<1>2. /\ c \in Seq(Objects) /\ Len(c) = Len(a) + Len(b)
      /\ Len(a) \in Nat /\ Len(b) \in Nat
      /\ \A k \in 1 .. Len(a) : c[k] = a[k]
      /\ \A k \in 1 .. Len(b) : c[Len(a) + k] = b[k]
  BY <1>1, ConcatProperties, LenProperties
<1> HIDE DEF c
<1>3. \A k \in Len(a) + 1 .. Len(c) : k - Len(a) \in 1 .. Len(b) /\ c[k] = b[k - Len(a)]
  <2> TAKE k \in Len(a) + 1 .. Len(c)
  <2>1. k - Len(a) \in 1 .. Len(b) /\ Len(a) + (k - Len(a)) = k
    BY <1>2
  <2>2. QED
    BY <1>2, <2>1
<1>4. \A k \in 1 .. Len(c) : k \in 1 .. Len(a) \/ k \in Len(a) + 1 .. Len(c)
  <2>1. Len(c) \in Nat /\ Len(a) \in Nat
    BY <1>2
  <2>2. QED
    BY <2>1
<1>5. \A k \in 1 .. Len(c) : End(c[k]) <= to
  <2>1. \A k \in 1 .. Len(a) : End(a[k]) \in Nat /\ End(a[k]) <= mid
    BY <1>1, ObjectsOf DEF Tight
  <2>2. \A k \in 1 .. Len(b) : End(b[k]) <= to
    BY DEF Tight
  <2>3. \A k \in 1 .. Len(a) : End(c[k]) <= to
    BY <1>1, <1>2, <2>1
  <2>4. \A k \in Len(a) + 1 .. Len(c) : End(c[k]) <= to
    BY <1>3, <2>2
  <2>5. QED
    BY <1>4, <2>3, <2>4
<1>6. ASSUME NEW k \in 1 .. Len(c) - 1
      PROVE  c[k + 1].at = End(c[k])
  <2>1. CASE k < Len(a)
    <3>1. k \in 1 .. Len(a) - 1 /\ k \in 1 .. Len(a) /\ k + 1 \in 1 .. Len(a)
      BY <1>2, <2>1
    <3>2. a[k + 1].at = End(a[k])
      BY <3>1 DEF Tight, Adjacent
    <3>3. QED
      BY <1>2, <3>1, <3>2
  <2>2. CASE k = Len(a)
    <3>1. Len(a) > 0 /\ Len(b) > 0 /\ k \in 1 .. Len(a) /\ 1 \in 1 .. Len(b)
      BY <1>2, <2>2
    <3>2. c[k] = a[Len(a)] /\ c[k + 1] = b[1]
      BY <1>2, <2>2, <3>1
    <3>3. End(a[Len(a)]) = mid /\ b[1].at = mid
      BY <3>1 DEF Tight
    <3>4. QED
      BY <3>2, <3>3
  <2>3. CASE k > Len(a)
    <3> DEFINE j == k - Len(a)
    <3>1. /\ j \in 1 .. Len(b) - 1 /\ k \in Len(a) + 1 .. Len(c)
          /\ k + 1 \in Len(a) + 1 .. Len(c) /\ (k + 1) - Len(a) = j + 1
      BY <1>2, <2>3
    <3>2. b[j + 1].at = End(b[j])
      BY <3>1 DEF Tight, Adjacent
    <3>3. c[k] = b[j] /\ c[k + 1] = b[j + 1]
      BY <1>3, <3>1
    <3>4. QED
      BY <3>2, <3>3
  <2>4. QED
    BY <1>2, <2>1, <2>2, <2>3
<1>7. Len(c) = 0 => from = to
  <2>1. Len(c) = 0 => Len(a) = 0 /\ Len(b) = 0
    BY <1>2
  <2>2. QED
    BY <2>1 DEF Tight
<1>8. ASSUME Len(c) > 0
      PROVE  c[1].at = from /\ End(c[Len(c)]) = to
  <2>1. CASE Len(a) > 0 /\ Len(b) > 0
    <3>1. c[1] = a[1] /\ c[Len(c)] = b[Len(b)]
      BY <1>2, <2>1
    <3>2. QED
      BY <2>1, <3>1 DEF Tight
  <2>2. CASE Len(a) > 0 /\ Len(b) = 0
    <3>1. c[1] = a[1] /\ c[Len(c)] = a[Len(a)]
      BY <1>2, <2>2
    <3>2. QED
      BY <2>2, <3>1 DEF Tight
  <2>3. CASE Len(a) = 0
    <3>1. Len(b) > 0 /\ c[1] = b[1] /\ c[Len(c)] = b[Len(b)]
      BY <1>2, <1>8, <2>3
    <3>2. QED
      BY <2>3, <3>1 DEF Tight
  <2>4. QED
    BY <1>2, <2>1, <2>2, <2>3
<1>9. Tight(c, from, to)
  BY <1>1, <1>2, <1>5, <1>6, <1>7, <1>8 DEF Tight, Adjacent
<1>10. QED
  BY <1>9 DEF c

LEMMA MovedFacts ==
  ASSUME NEW o \in Objects, NEW by \in Nat
  PROVE  /\ Moved(o, by) \in Objects
         /\ Moved(o, by).id = o.id /\ Moved(o, by).length = o.length
         /\ Moved(o, by).at = o.at + by /\ End(Moved(o, by)) = End(o) + by
<1>1. o.id \in Ids /\ o.length \in Nat /\ o.at \in Nat
  BY DEF Objects
<1>2. /\ Moved(o, by).id = o.id /\ Moved(o, by).length = o.length
      /\ Moved(o, by).at = o.at + by
  BY DEF Moved, Objects
<1>3. Moved(o, by) \in Objects
  BY <1>1 DEF Moved, Objects
<1>4. QED
  BY <1>1, <1>2, <1>3 DEF End

LEMMA ShiftFacts ==
  ASSUME NEW objs \in Seq(Objects), NEW by \in Nat
  PROVE  /\ Shift(objs, by) \in Seq(Objects) /\ Len(Shift(objs, by)) = Len(objs)
         /\ \A k \in 1 .. Len(objs) :
               /\ Shift(objs, by)[k].id = objs[k].id
               /\ Shift(objs, by)[k].length = objs[k].length
               /\ Shift(objs, by)[k].at = objs[k].at + by
               /\ End(Shift(objs, by)[k]) = End(objs[k]) + by
<1>1. Len(objs) \in Nat /\ \A k \in 1 .. Len(objs) : objs[k] \in Objects
  BY ObjectsOf
<1>2. \A k \in 1 .. Len(objs) :
         Shift(objs, by)[k] = Moved(objs[k], by) /\ Moved(objs[k], by) \in Objects
  BY <1>1, MovedFacts DEF Shift
<1>3. Shift(objs, by) \in Seq(Objects) /\ Len(Shift(objs, by)) = Len(objs)
  <2>1. Shift(objs, by) \in [1 .. Len(objs) -> Objects]
    BY <1>1, MovedFacts DEF Shift
  <2>2. QED
    BY <1>1, <2>1, IsASeq, LenProperties
<1>4. ASSUME NEW k \in 1 .. Len(objs)
      PROVE  /\ Shift(objs, by)[k].id = objs[k].id
             /\ Shift(objs, by)[k].length = objs[k].length
             /\ Shift(objs, by)[k].at = objs[k].at + by
             /\ End(Shift(objs, by)[k]) = End(objs[k]) + by
  <2>1. objs[k] \in Objects /\ Shift(objs, by)[k] = Moved(objs[k], by)
    BY <1>1, <1>2
  <2>2. /\ Moved(objs[k], by).id = objs[k].id /\ Moved(objs[k], by).length = objs[k].length
        /\ Moved(objs[k], by).at = objs[k].at + by
        /\ End(Moved(objs[k], by)) = End(objs[k]) + by
    BY <2>1, MovedFacts
  <2>3. QED
    BY <2>1, <2>2, Zenon
<1>5. QED
  BY <1>3, <1>4

LEMMA TightShift ==
  ASSUME NEW objs, NEW from, NEW to, Tight(objs, from, to), NEW by \in Nat
  PROVE  Tight(Shift(objs, by), from + by, to + by)
<1> DEFINE s == Shift(objs, by)
<1>1. objs \in Seq(Objects) /\ from \in Nat /\ to \in Nat /\ from <= to
  BY DEF Tight
<1>2. /\ s \in Seq(Objects) /\ Len(s) = Len(objs) /\ Len(objs) \in Nat
      /\ \A k \in 1 .. Len(objs) : s[k].at = objs[k].at + by /\ End(s[k]) = End(objs[k]) + by
      /\ \A k \in 1 .. Len(objs) : objs[k].at \in Nat /\ End(objs[k]) \in Nat
  BY <1>1, ShiftFacts, ObjectsOf
<1> HIDE DEF s
<1>3. \A k \in 1 .. Len(s) - 1 : s[k + 1].at = End(s[k])
  <2> TAKE k \in 1 .. Len(s) - 1
  <2>1. k \in 1 .. Len(objs) - 1 /\ k \in 1 .. Len(objs) /\ k + 1 \in 1 .. Len(objs)
    BY <1>2
  <2>2. objs[k + 1].at = End(objs[k])
    BY <2>1 DEF Tight, Adjacent
  <2>3. QED
    BY <1>2, <2>1, <2>2
<1>4. \A k \in 1 .. Len(s) : End(s[k]) <= to + by
  BY <1>1, <1>2 DEF Tight
<1>5. Len(s) > 0 => s[1].at = from + by /\ End(s[Len(s)]) = to + by
  BY <1>2 DEF Tight
<1>6. Len(s) = 0 => from + by = to + by
  BY <1>2 DEF Tight
<1>7. Tight(s, from + by, to + by)
  BY <1>1, <1>2, <1>3, <1>4, <1>5, <1>6 DEF Tight, Adjacent
<1>8. QED
  BY <1>7 DEF s

-----------------------------------------------------------------------------
(* The inductive invariant.                                                *)

Address    == Declared[request.subscriber]
GateIdSize == IF GateIdPacked THEN 8 ELSE 0

\* What gctl_read_policy has put into its buffers.
ReadInv ==
    /\ Tight(classifiers, 0, classifier_size)
    /\ classifier_size <= 64 * Len(classifiers)
    /\ classifier_size % 4 = 0
    /\ Len(classifiers) <= MaxClassifiers
    /\ pc = "classifiers" =>
          /\ request.op = "set"
          /\ Len(request.classifiers) <= MaxClassifiers
          /\ Len(classifiers) <= Len(request.classifiers)
          /\ Tight(envelope, 0, envelope_size)
          /\ envelope_size % 4 = 0

\* What it is joined to; for a request without a policy, nothing.
DataInv ==
    /\ Tight(data, 0, len)
    /\ len % 4 = 0
    /\ request.op # "set" => len = 0
    /\ pc = "idle" => len = 0 /\ classifier_size = 0 /\ Len(classifiers) = 0
    /\ pc = "read" => len = 0 /\ classifier_size = 0 /\ Len(classifiers) = 0

\* The sizes of ps_proxy are those of what it is going to pack.
SizeInv ==
    pc \in {"control", "gate", "wrap", "sent"} =>
        /\ size.dec = Address + GateIdSize + len + 20
        /\ size.msg = size.dec + 32

\* Behind the common objects lies the decision's own content, up to ptr.
Packed(end) ==
    /\ ptr = end
    /\ \E inner \in Seq(Objects) :
          /\ decision = Front \o inner
          /\ Len(inner) > 0
          /\ Tight(inner, 28, ptr)

PackInv ==
    /\ pc = "gate" => Packed(44 + Address)
    /\ pc \in {"wrap", "sent"} => Packed(44 + Address + GateIdSize + len)
    /\ pc = "sent" => message = [length |-> size.msg, objects |-> Shift(decision, Header)]

IInv == TypeOK /\ ReadInv /\ DataInv /\ SizeInv /\ PackInv

LEMMA AddressNat ==
  ASSUME TypeOK
  PROVE  /\ request.subscriber \in Ids /\ request.subscriber # "decision"
         /\ Address \in Nat /\ Address % 4 = 0
         /\ GateIdSize \in {0, 8} /\ len \in Nat /\ ptr \in Nat
         /\ size.dec \in Nat /\ size.msg \in Nat
<1>1. request.subscriber \in Ids /\ request.subscriber # "decision"
  BY DEF TypeOK, Ids, Subscribers
<1>2. QED
  BY <1>1, ObjType DEF TypeOK, Address, GateIdSize

\* Once packed, the decision ends where its length says.
LEMMA Filled ==
  ASSUME IInv
  PROVE  /\ pc = "gate" => ptr <= size.msg - Header
         /\ pc \in {"wrap", "sent"} =>
               ptr = 24 + size.dec /\ ptr = size.msg - Header /\ size.msg = 32 + size.dec
<1>1. /\ Address \in Nat /\ GateIdSize \in Nat /\ len \in Nat /\ ptr \in Nat
      /\ size.dec \in Nat /\ size.msg \in Nat
  <2>1. TypeOK
    BY DEF IInv
  <2>2. QED
    BY <2>1, AddressNat
<1>2. ASSUME pc = "gate"
      PROVE  ptr <= size.msg - Header
  <2>1. size.dec = Address + GateIdSize + len + 20 /\ size.msg = size.dec + 32
    BY <1>2 DEF IInv, SizeInv
  <2>2. ptr = 44 + Address
    BY <1>2 DEF IInv, PackInv, Packed
  <2>3. QED
    BY <1>1, <2>1, <2>2 DEF Header
<1>3. ASSUME pc \in {"wrap", "sent"}
      PROVE  ptr = 24 + size.dec /\ ptr = size.msg - Header /\ size.msg = 32 + size.dec
  <2>1. size.dec = Address + GateIdSize + len + 20 /\ size.msg = size.dec + 32
    BY <1>3 DEF IInv, SizeInv
  <2>2. ptr = 44 + Address + GateIdSize + len
    BY <1>3 DEF IInv, PackInv, Packed
  <2>3. QED
    BY <1>1, <2>1, <2>2 DEF Header
<1>4. QED
  BY <1>2, <1>3

LEMMA IInvInit == Init => IInv
<1> SUFFICES ASSUME Init PROVE IInv
  OBVIOUS
<1>1. <<>> \in Seq(Objects) /\ <<>> \in Seq(Classifiers \cup {"none"}) /\ Tight(<<>>, 0, 0)
      /\ Len(<<>>) = 0
  BY TightNone, EmptySeq
<1>2. TypeOK
  BY <1>1, RoomAssumption
     DEF Init, TypeOK, NoRequest, NoSize, NoMessage, Profiles, Subscribers
<1>3. ReadInv /\ DataInv
  BY <1>1, RoomAssumption DEF Init, ReadInv, DataInv
<1>4. SizeInv /\ PackInv
  BY DEF Init, SizeInv, PackInv
<1>5. QED
  BY <1>2, <1>3, <1>4 DEF IInv

LEMMA AskStep ==
  ASSUME IInv, Ask
  PROVE  IInv'
<1> USE DEF Ask, IInv
<1>1. /\ request'.op \in {"set", "info", "delete", "none"}
      /\ request'.profile \in Profiles \cup {"none"}
      /\ request'.classifiers \in Seq(Classifiers \cup {"none"})
      /\ request'.subscriber \in Subscribers
      /\ request'.gate \in BOOLEAN
  <2>1. CASE request' \in [op : {"set"}, profile : Profiles \cup {"none"},
               classifiers : Lists, subscriber : Subscribers, gate : BOOLEAN]
    <3>1. request'.classifiers \in Lists
      BY <2>1
    <3>2. Classifiers \cup {"none"} = {"legacy", "extended", "ipv6", "none"}
      BY DEF Classifiers
    <3>3. request'.classifiers \in Seq(Classifiers \cup {"none"})
      BY <3>1, <3>2, ListsAssumption
    <3>4. QED
      BY <2>1, <3>3
  <2>2. CASE request' \in [op : {"info", "delete"}, profile : {"none"},
               classifiers : {<<>>}, subscriber : Subscribers, gate : BOOLEAN]
    <3>1. request'.classifiers = <<>>
      BY <2>2
    <3>2. request'.classifiers \in Seq(Classifiers \cup {"none"})
      BY <3>1, EmptySeq
    <3>3. QED
      BY <2>2, <3>2
  <2>3. QED
    BY <2>1, <2>2 DEF Requests
<1>2. /\ pc' = "read" /\ envelope' = envelope /\ envelope_size' = envelope_size
      /\ classifiers' = classifiers /\ classifier_size' = classifier_size
      /\ data' = data /\ len' = len /\ size' = size /\ decision' = decision
      /\ ptr' = ptr /\ message' = message
  BY DEF policy, packet
<1>3. TypeOK'
  BY <1>1, <1>2 DEF TypeOK
<1>4. ReadInv' /\ DataInv'
  BY <1>2 DEF ReadInv, DataInv
<1>5. SizeInv' /\ PackInv'
  BY <1>2 DEF SizeInv, PackInv
<1>6. QED
  BY <1>3, <1>4, <1>5

LEMMA ReadProfileStep ==
  ASSUME IInv, ReadProfile
  PROVE  IInv'
<1> USE DEF ReadProfile, IInv
<1>1. /\ pc = "read" /\ pc' \in {"failed", "classifiers"} /\ request' = request
      /\ classifiers' = classifiers /\ classifier_size' = classifier_size
      /\ data' = data /\ len' = len /\ size' = size /\ decision' = decision
      /\ ptr' = ptr /\ message' = message /\ request.op = "set"
  BY DEF packet
<1>2. CASE pc' = "failed"
  <2>1. envelope' = envelope /\ envelope_size' = envelope_size
    BY <1>2
  <2>2. TypeOK'
    BY <1>1, <1>2, <2>1 DEF TypeOK
  <2>3. ReadInv' /\ DataInv' /\ SizeInv' /\ PackInv'
    BY <1>1, <1>2 DEF ReadInv, DataInv, SizeInv, PackInv
  <2>4. QED
    BY <2>2, <2>3
<1>3. CASE pc' = "classifiers"
  <2> DEFINE o == Obj(request.profile, 0)
  <2>1. /\ envelope' = <<o>> /\ envelope_size' = Declared[request.profile]
        /\ request.profile \in Profiles /\ Len(request.classifiers) \in 1 .. MaxClassifiers
    BY <1>3, CountedDeclared DEF TypeOK
  <2>2. request.profile \in Ids /\ request.profile # "decision"
    BY <2>1 DEF Profiles, Ids
  <2>3. /\ o \in Objects /\ o.at = 0 /\ End(o) = Declared[request.profile]
        /\ Declared[request.profile] \in Nat /\ Declared[request.profile] % 4 = 0
    <3>1. 0 \in Nat
      OBVIOUS
    <3>2. /\ Obj(request.profile, 0) \in Objects /\ Obj(request.profile, 0).at = 0
          /\ End(Obj(request.profile, 0)) = 0 + Declared[request.profile]
          /\ Declared[request.profile] \in Nat /\ Declared[request.profile] % 4 = 0
      BY <2>2, <3>1, ObjType, SMTT(30)
    <3>3. QED
      BY <3>2
  <2> HIDE DEF o
  <2>4. Tight(envelope', 0, envelope_size') /\ envelope' \in Seq(Objects)
    BY <2>1, <2>3, TightOne DEF Tight
  <2>5. TypeOK'
    BY <1>1, <1>3, <2>1, <2>3, <2>4 DEF TypeOK
  <2>6. ReadInv'
    BY <1>1, <1>3, <2>1, <2>3, <2>4 DEF ReadInv, DataInv
  <2>7. DataInv' /\ SizeInv' /\ PackInv'
    BY <1>1, <1>3 DEF DataInv, SizeInv, PackInv
  <2>8. QED
    BY <2>5, <2>6, <2>7
<1>4. QED
  BY <1>1, <1>2, <1>3

LEMMA ReadClassifierStep ==
  ASSUME IInv, ReadClassifier
  PROVE  IInv'
<1> USE DEF ReadClassifier, IInv
<1> DEFINE k == request.classifiers[Len(classifiers) + 1]
<1>1. /\ pc = "classifiers" /\ pc' \in {"failed", "classifiers"} /\ request' = request
      /\ envelope' = envelope /\ envelope_size' = envelope_size
      /\ data' = data /\ len' = len /\ size' = size /\ decision' = decision
      /\ ptr' = ptr /\ message' = message
  BY DEF packet
<1>2. CASE k = "none"
  <2>1. pc' = "failed" /\ classifiers' = classifiers /\ classifier_size' = classifier_size
    BY <1>2
  <2>2. TypeOK'
    BY <1>1, <2>1 DEF TypeOK
  <2>3. ReadInv' /\ DataInv' /\ SizeInv' /\ PackInv'
    BY <1>1, <2>1 DEF ReadInv, DataInv, SizeInv, PackInv
  <2>4. QED
    BY <2>2, <2>3
<1>3. CASE k # "none"
  <2> DEFINE o == Obj(k, classifier_size)
  <2>1. /\ pc' = pc /\ classifiers' = Append(classifiers, o)
        /\ classifier_size' = classifier_size + Counted[k]
    BY <1>3
  <2>2. classifiers \in Seq(Objects) /\ Len(classifiers) \in Nat /\ classifier_size \in Nat
        /\ Len(request.classifiers) \in Nat
    BY LenProperties DEF TypeOK
  <2>3. k \in Classifiers
    <3>1. Len(classifiers) + 1 \in 1 .. Len(request.classifiers)
      BY <2>2
    <3>2. k \in Classifiers \cup {"none"}
      BY <3>1, ElementOfSeq DEF TypeOK
    <3>3. QED
      BY <1>3, <3>2
  <2>4. /\ pc' = pc /\ classifiers' = Append(classifiers, o)
        /\ classifier_size' = classifier_size + Declared[k]
    BY <2>1, <2>3, CountedDeclared
  <2>5. k \in Ids /\ k # "decision"
    BY <2>3 DEF Classifiers, Ids
  <2>6. Declared[k] \in {24, 40, 64}
    BY <2>3, <2>5 DEF Declared, Classifiers
  <2> HIDE DEF k, ReadClassifier
  <2>7. o \in Objects /\ o.at = classifier_size /\ End(o) = classifier_size + Declared[k]
    BY <2>2, <2>5, ObjType, SMTT(30)
  <2> HIDE DEF o
  <2>8. Append(classifiers, o) = classifiers \o <<o>>
    BY <2>2, <2>7
  <2>9. Tight(classifiers', 0, classifier_size')
    <3>1. Tight(classifiers, 0, classifier_size)
      BY DEF ReadInv
    <3>2. Tight(<<o>>, classifier_size, classifier_size')
      BY <2>4, <2>7, TightOne
    <3>3. QED
      BY <2>4, <2>8, <3>1, <3>2, TightConcat
  <2>10. Len(classifiers') = Len(classifiers) + 1
    BY <2>4, <2>2, <2>7, AppendProperties
  <2>11. /\ classifier_size' <= 64 * Len(classifiers') /\ classifier_size' % 4 = 0
         /\ Len(classifiers') <= Len(request.classifiers)
         /\ Len(classifiers') <= MaxClassifiers
    <3>1. /\ classifier_size <= 64 * Len(classifiers) /\ classifier_size % 4 = 0
          /\ Len(classifiers) < Len(request.classifiers)
          /\ Len(request.classifiers) <= MaxClassifiers /\ MaxClassifiers \in Nat
      BY <1>1, RoomAssumption DEF ReadInv, ReadClassifier
    <3>2. classifier_size' <= 64 * Len(classifiers) + 64
      <4>1. Declared[k] \in Nat /\ Declared[k] <= 64 /\ 64 * Len(classifiers) \in Nat
        BY <2>2, <2>6
      <4>2. /\ classifier_size \in Nat /\ classifier_size <= 64 * Len(classifiers)
            /\ classifier_size' = classifier_size + Declared[k]
        BY <2>4, <2>2, <3>1
      <4> HIDE DEF ReadClassifier
      <4>3. QED
        BY <4>1, <4>2
    <3>3. 64 * Len(classifiers') = 64 * Len(classifiers) + 64
      BY <2>2, <2>10
    <3>4. classifier_size' <= 64 * Len(classifiers')
      BY <3>2, <3>3
    <3>5. classifier_size' % 4 = 0
      <4>1. Declared[k] \in Nat /\ Declared[k] % 4 = 0
        BY <2>6
      <4>2. /\ classifier_size \in Nat /\ classifier_size % 4 = 0
            /\ classifier_size' = classifier_size + Declared[k]
        BY <2>4, <2>2, <3>1
      <4>3. QED
        BY <4>1, <4>2, Words
    <3>6. Len(classifiers') <= Len(request.classifiers) /\ Len(classifiers') <= MaxClassifiers
      BY <2>2, <2>10, <3>1
    <3>7. QED
      BY <1>1, <3>4, <3>5, <3>6
  <2>12. ReadInv'
    BY <1>1, <2>9, <2>11 DEF ReadInv
  <2>13. classifier_size' \in 0 .. ClassifierRoom
    <3>1. classifier_size' \in Nat /\ Len(classifiers') \in Nat
      BY <2>4, <2>2, <2>6, <2>10
    <3>2. 64 * Len(classifiers') <= MaxClassifiers * 64
      BY <2>11, <3>1, RoomAssumption
    <3>3. QED
      BY <2>11, <3>1, <3>2, RoomAssumption
  <2>14. TypeOK'
    BY <1>1, <2>4, <2>9, <2>13 DEF TypeOK, Tight
  <2>15. DataInv' /\ SizeInv' /\ PackInv'
    BY <1>1, <2>4 DEF DataInv, SizeInv, PackInv
  <2>16. QED
    BY <2>12, <2>14, <2>15
<1>4. QED
  BY <1>2, <1>3

LEMMA JoinStep ==
  ASSUME IInv, Join
  PROVE  IInv'
<1> USE DEF Join, IInv
<1> DEFINE o == Obj("gate_spec", 0)
           a == Shift(envelope, 16)
           b == Shift(classifiers, 16 + envelope_size)
<1>1. /\ pc = "classifiers" /\ pc' = "lookup" /\ request' = request
      /\ envelope' = envelope /\ envelope_size' = envelope_size
      /\ classifiers' = classifiers /\ classifier_size' = classifier_size
      /\ size' = size /\ decision' = decision /\ ptr' = ptr /\ message' = message
      /\ data' = <<o>> \o a \o b /\ len' = 16 + envelope_size + classifier_size
  BY DEF packet
<1> HIDE DEF Join
<1>2. /\ envelope_size \in Nat /\ classifier_size \in Nat
      /\ Tight(envelope, 0, envelope_size) /\ Tight(classifiers, 0, classifier_size)
  BY <1>1 DEF TypeOK, ReadInv
<1>3. Tight(<<o>>, 0, 16)
  <2>1. "gate_spec" \in Ids /\ "gate_spec" # "decision" /\ Declared["gate_spec"] = 16
    BY DEF Ids, Declared
  <2>2. o \in Objects /\ o.at = 0 /\ End(o) = 0 + 16
    BY <2>1, ObjType
  <2>3. QED
    BY <2>2, TightOne
<1>4. Tight(a, 16, 16 + envelope_size)
  <2>1. Tight(a, 0 + 16, envelope_size + 16)
    BY <1>2, TightShift
  <2>2. 0 + 16 = 16 /\ envelope_size + 16 = 16 + envelope_size
    BY <1>2
  <2>3. QED
    BY <2>1, <2>2
<1>5. Tight(b, 16 + envelope_size, len')
  <2>1. Tight(b, 0 + (16 + envelope_size), classifier_size + (16 + envelope_size))
    <3>1. 16 + envelope_size \in Nat
      BY <1>2
    <3>2. QED
      BY <1>2, <3>1, TightShift
  <2>2. /\ 0 + (16 + envelope_size) = 16 + envelope_size
        /\ classifier_size + (16 + envelope_size) = len'
    BY <1>1, <1>2
  <2>3. QED
    BY <2>1, <2>2
<1> HIDE DEF o, a, b
<1>6. Tight(<<o>> \o a, 0, 16 + envelope_size)
  BY <1>3, <1>4, TightConcat
<1>7. Tight(data', 0, len')
  BY <1>1, <1>5, <1>6, TightConcat
<1>8. len' \in Nat /\ len' % 4 = 0
  <2>1. envelope_size % 4 = 0 /\ classifier_size % 4 = 0
    BY <1>1 DEF ReadInv
  <2>2. envelope_size + classifier_size \in Nat /\ (envelope_size + classifier_size) % 4 = 0
    BY <1>2, <2>1, Words
  <2>3. 16 \in Nat /\ 16 % 4 = 0 /\ len' = 16 + (envelope_size + classifier_size)
    BY <1>1, <1>2
  <2>4. QED
    BY <2>2, <2>3, Words
<1>9. TypeOK'
  BY <1>1, <1>7, <1>8 DEF TypeOK, Tight
<1>10. ReadInv' /\ DataInv' /\ SizeInv' /\ PackInv'
  BY <1>1, <1>7, <1>8 DEF ReadInv, DataInv, SizeInv, PackInv
<1>11. QED
  BY <1>9, <1>10

LEMMA FindStep ==
  ASSUME IInv, NoPolicy \/ Lookup
  PROVE  IInv'
<1> USE DEF IInv
<1>1. /\ pc \in {"read", "lookup"} /\ pc' \in {"lookup", "size", "failed"}
      /\ request' = request
      /\ envelope' = envelope /\ envelope_size' = envelope_size
      /\ classifiers' = classifiers /\ classifier_size' = classifier_size
      /\ data' = data /\ len' = len
      /\ size' = size /\ decision' = decision /\ ptr' = ptr /\ message' = message
  BY DEF NoPolicy, Lookup, policy, packet
<1>2. TypeOK'
  BY <1>1 DEF TypeOK
<1>3. ReadInv' /\ DataInv' /\ SizeInv' /\ PackInv'
  BY <1>1 DEF ReadInv, DataInv, SizeInv, PackInv
<1>4. QED
  BY <1>2, <1>3

LEMMA MeasureStep ==
  ASSUME IInv, Measure
  PROVE  IInv'
<1> USE DEF IInv
<1>1. /\ pc = "size" /\ pc' = "control" /\ request' = request
      /\ envelope' = envelope /\ envelope_size' = envelope_size
      /\ classifiers' = classifiers /\ classifier_size' = classifier_size
      /\ data' = data /\ len' = len
      /\ decision' = decision /\ ptr' = ptr /\ message' = message
  BY DEF Measure, policy
<1>2. Address \in Nat /\ len \in Nat /\ (request.op # "set" => len = 0)
  BY AddressNat DEF DataInv
<1>3. /\ size'.ctl \in Nat /\ size' = [ctl |-> size'.ctl, dec |-> size'.dec, msg |-> size'.msg]
      /\ size'.dec = Address + GateIdSize + len + 20
      /\ size'.msg = size'.dec + 32
  <2>1. CASE request.op = "set"
    BY <1>2, <2>1 DEF Measure, Address, GateIdSize, GateIdPacked
  <2>2. CASE request.op # "set"
    BY <1>2, <2>2 DEF Measure, Address, GateIdSize, GateIdPacked
  <2>3. QED
    BY <2>1, <2>2
<1>4. size' \in [ctl : Nat, dec : Nat, msg : Nat]
  <2>1. size'.dec \in Nat /\ size'.msg \in Nat
    BY <1>2, <1>3 DEF GateIdSize
  <2>2. QED
    BY <1>3, <2>1
<1>5. TypeOK'
  BY <1>1, <1>4 DEF TypeOK
<1>6. SizeInv'
  BY <1>1, <1>3 DEF SizeInv, Address, GateIdSize, GateIdPacked
<1>7. ReadInv' /\ DataInv' /\ PackInv'
  BY <1>1 DEF ReadInv, DataInv, PackInv
<1>8. QED
  BY <1>5, <1>6, <1>7

LEMMA FrontFacts ==
  ASSUME TypeOK
  PROVE  /\ Front \in Seq(Objects) /\ Len(Front) = 4
         /\ Front[1].at = 0 /\ Front[2].at = 8 /\ Front[3].at = 16 /\ Front[4].at = 24
         /\ End(Front[1]) = 8 /\ End(Front[2]) = 16 /\ End(Front[3]) = 24
         /\ Front[4].id = "decision" /\ End(Front[4]) = 24 + size.dec
<1> DEFINE o == [id |-> "decision", length |-> size.dec, at |-> 24]
<1>1. size.dec \in Nat
  BY DEF TypeOK
<1>2. o \in Objects /\ o.at = 24 /\ o.id = "decision" /\ End(o) = 24 + size.dec
  BY <1>1 DEF Objects, Ids, End
<1>3. /\ "handle" \in Ids /\ "context" \in Ids /\ "flags" \in Ids
      /\ "handle" # "decision" /\ "context" # "decision" /\ "flags" # "decision"
      /\ Declared["handle"] = 8 /\ Declared["context"] = 8 /\ Declared["flags"] = 8
  BY DEF Ids, Declared
<1>4. /\ Obj("handle", 0) \in Objects /\ Obj("handle", 0).at = 0 /\ End(Obj("handle", 0)) = 8
      /\ Obj("context", 8) \in Objects /\ Obj("context", 8).at = 8 /\ End(Obj("context", 8)) = 16
      /\ Obj("flags", 16) \in Objects /\ Obj("flags", 16).at = 16 /\ End(Obj("flags", 16)) = 24
  BY <1>3, ObjType, SMTT(30)
<1>5. Front = <<Obj("handle", 0), Obj("context", 8), Obj("flags", 16), o>>
  BY DEF Front
<1> HIDE DEF o
<1>6. QED
  BY <1>2, <1>4, <1>5

LEMMA PackControlStep ==
  ASSUME IInv, PackControl
  PROVE  IInv'
<1> USE DEF IInv
<1> DEFINE c == Obj("command", 28)
           a == Obj("application", 36)
           s == Obj(request.subscriber, 44)
           inner == <<c, a, s>>
<1>1. /\ pc = "control" /\ pc' = "gate" /\ request' = request
      /\ envelope' = envelope /\ envelope_size' = envelope_size
      /\ classifiers' = classifiers /\ classifier_size' = classifier_size
      /\ data' = data /\ len' = len /\ size' = size /\ message' = message
      /\ decision' = Front \o inner /\ ptr' = 44 + Address
  BY DEF PackControl, policy, Address
<1>2. /\ c \in Objects /\ c.at = 28 /\ End(c) = 36
      /\ a \in Objects /\ a.at = 36 /\ End(a) = 44
      /\ s \in Objects /\ s.at = 44 /\ End(s) = 44 + Address
      /\ 44 + Address \in Nat
  <2>1. /\ "command" \in Ids /\ "application" \in Ids
        /\ "command" # "decision" /\ "application" # "decision"
        /\ Declared["command"] = 8 /\ Declared["application"] = 8
    BY DEF Ids, Declared
  <2>2. /\ c \in Objects /\ c.at = 28 /\ End(c) = 28 + 8
        /\ a \in Objects /\ a.at = 36 /\ End(a) = 36 + 8
    BY <2>1, ObjType
  <2>3. s \in Objects /\ s.at = 44 /\ End(s) = 44 + Address
    <3>1. request.subscriber \in Ids /\ request.subscriber # "decision" /\ 44 \in Nat
      BY AddressNat
    <3>2. QED
      BY <3>1, ObjType DEF Address
  <2>4. 44 + Address \in Nat
    BY AddressNat
  <2>5. QED
    BY <2>2, <2>3, <2>4
<1> HIDE DEF c, a, s
<1>3. inner \in Seq(Objects) /\ Len(inner) = 3 /\ inner[1] = c /\ inner[2] = a /\ inner[3] = s
  BY <1>2
<1> HIDE DEF inner
<1>6. Tight(inner, 28, ptr') /\ inner \in Seq(Objects) /\ Len(inner) > 0
  <2>1. \A k \in 1 .. 3 : k = 1 \/ k = 2 \/ k = 3
    OBVIOUS
  <2>2. Adjacent(inner, 1, 3)
    <3>1. \A k \in 1 .. 3 - 1 : k = 1 \/ k = 2
      OBVIOUS
    <3>2. QED
      BY <1>2, <1>3, <3>1 DEF Adjacent
  <2>3. \A k \in 1 .. 3 : End(inner[k]) <= 44 + Address
    BY <1>2, <1>3, <2>1, AddressNat, SMTT(30)
  <2>4. 28 <= 44 + Address
    BY AddressNat
  <2>5. QED
    BY <1>1, <1>2, <1>3, <2>2, <2>3, <2>4 DEF Tight
<1>7. Front' = Front
  BY <1>1 DEF Front
<1>8. decision' \in Seq(Objects)
  BY <1>1, <1>6, FrontFacts, ConcatProperties
<1>9. TypeOK'
  BY <1>1, <1>2, <1>8 DEF TypeOK
<1>10. PackInv'
  <2>1. Packed(44 + Address)'
    BY <1>1, <1>6, <1>7 DEF Packed, Address
  <2>2. QED
    BY <1>1, <2>1 DEF PackInv
<1>11. SizeInv'
  BY <1>1 DEF SizeInv, Address, GateIdSize, GateIdPacked
<1>12. ReadInv' /\ DataInv'
  BY <1>1 DEF ReadInv, DataInv
<1>13. QED
  BY <1>9, <1>10, <1>11, <1>12

LEMMA PackGateStep ==
  ASSUME IInv, PackGate
  PROVE  IInv'
<1> USE DEF IInv
<1> DEFINE gid  == IF GateIdPacked THEN <<Obj("gate_id", ptr)>> ELSE <<>>
           next == ptr + GateIdSize
           rest == gid \o Shift(data, next)
<1>1. /\ pc = "gate" /\ pc' = "wrap" /\ request' = request
      /\ envelope' = envelope /\ envelope_size' = envelope_size
      /\ classifiers' = classifiers /\ classifier_size' = classifier_size
      /\ data' = data /\ len' = len /\ size' = size /\ message' = message
      /\ decision' = decision \o gid \o Shift(data, next) /\ ptr' = next + len
  <2>1. ptr \in Nat
    BY AddressNat
  <2>2. next = IF GateIdPacked THEN ptr + 8 ELSE ptr
    BY <2>1 DEF GateIdSize
  <2>3. QED
    BY <2>2 DEF PackGate, policy
<1>2. /\ ptr \in Nat /\ next \in Nat /\ len \in Nat /\ Address \in Nat
      /\ GateIdSize \in Nat /\ Tight(data, 0, len)
  BY AddressNat DEF DataInv
<1>3. PICK inner \in Seq(Objects) :
         decision = Front \o inner /\ Len(inner) > 0 /\ Tight(inner, 28, ptr)
  BY <1>1 DEF PackInv, Packed
<1>4. ptr = 44 + Address
  BY <1>1 DEF PackInv, Packed
<1>5. Tight(gid, ptr, next)
  <2>1. CASE GateIdPacked
    <3>1. "gate_id" \in Ids /\ "gate_id" # "decision" /\ Declared["gate_id"] = 8
      BY DEF Ids, Declared
    <3>2. /\ Obj("gate_id", ptr) \in Objects /\ Obj("gate_id", ptr).at = ptr
          /\ End(Obj("gate_id", ptr)) = next
      BY <1>2, <2>1, <3>1, ObjType DEF GateIdSize
    <3>3. QED
      BY <2>1, <3>2, TightOne
  <2>2. CASE ~GateIdPacked
    <3>1. next = ptr
      BY <1>2, <2>2 DEF GateIdSize
    <3>2. QED
      BY <1>2, <2>2, <3>1, TightNone
  <2>3. QED
    BY <2>1, <2>2
<1>6. Tight(Shift(data, next), next, next + len)
  <2>1. Tight(Shift(data, next), 0 + next, len + next)
    BY <1>2, TightShift
  <2>2. 0 + next = next /\ len + next = next + len
    BY <1>2
  <2>3. QED
    BY <2>1, <2>2
<1>7. /\ gid \in Seq(Objects) /\ Shift(data, next) \in Seq(Objects)
      /\ Tight(rest, ptr, next + len) /\ rest \in Seq(Objects)
  <2>1. Tight(rest, ptr, next + len)
    BY <1>5, <1>6, TightConcat
  <2>2. QED
    BY <1>5, <1>6, <2>1 DEF Tight
<1> HIDE DEF gid, rest
<1>8. Tight(inner \o rest, 28, ptr')
  BY <1>1, <1>3, <1>7, TightConcat
<1>9. decision' = Front \o (inner \o rest)
  <2>1. Front \in Seq(Objects) /\ inner \in Seq(Objects) /\ rest = gid \o Shift(data, next)
    BY <1>3, FrontFacts DEF rest
  <2> HIDE DEF next
  <2>2. ((Front \o inner) \o gid) \o Shift(data, next)
          = Front \o (inner \o (gid \o Shift(data, next)))
    <3>1. Shift(data, next) \in Seq(Objects) /\ gid \in Seq(Objects)
      BY <1>7
    <3>2. \A a, b, c, d \in Seq(Objects) : ((a \o b) \o c) \o d = a \o (b \o (c \o d))
      BY ConcatFour
    <3>3. Front \in Seq(Objects) /\ inner \in Seq(Objects)
      BY <2>1
    <3>4. \A c, d \in Seq(Objects) :
             ((Front \o inner) \o c) \o d = Front \o (inner \o (c \o d))
      BY <3>2, <3>3, Zenon
    <3>5. \A d \in Seq(Objects) :
             ((Front \o inner) \o gid) \o d = Front \o (inner \o (gid \o d))
      BY <3>1, <3>4, Zenon
    <3>6. QED
      BY <3>1, <3>5, Zenon
  <2>3. QED
    BY <1>1, <1>3, <2>1, <2>2
<1>10. inner \o rest \in Seq(Objects) /\ Len(inner \o rest) > 0
  BY <1>3, <1>7, ConcatProperties, LenProperties
<1>11. Front' = Front
  BY <1>1 DEF Front
<1>12. decision' \in Seq(Objects)
  BY <1>9, <1>10, FrontFacts, ConcatProperties
<1>13. ptr' = 44 + Address + GateIdSize + len /\ ptr' \in Nat
  BY <1>1, <1>2, <1>4
<1>14. TypeOK'
  BY <1>1, <1>12, <1>13 DEF TypeOK
<1>15. PackInv'
  <2>1. Packed(44 + Address + GateIdSize + len)'
    BY <1>1, <1>8, <1>9, <1>10, <1>11, <1>13 DEF Packed, Address, GateIdSize, GateIdPacked
  <2>2. QED
    BY <1>1, <2>1 DEF PackInv
<1>16. SizeInv'
  BY <1>1 DEF SizeInv, Address, GateIdSize, GateIdPacked
<1>17. ReadInv' /\ DataInv'
  BY <1>1 DEF ReadInv, DataInv
<1>18. QED
  BY <1>14, <1>15, <1>16, <1>17

LEMMA WrapStep ==
  ASSUME IInv, Wrap
  PROVE  IInv'
<1> USE DEF IInv
<1>1. /\ pc = "wrap" /\ pc' = "sent" /\ request' = request
      /\ envelope' = envelope /\ envelope_size' = envelope_size
      /\ classifiers' = classifiers /\ classifier_size' = classifier_size
      /\ data' = data /\ len' = len /\ size' = size /\ decision' = decision /\ ptr' = ptr
      /\ message' = [length |-> size.msg, objects |-> Shift(decision, Header)]
  BY DEF Wrap, policy
<1>2. Shift(decision, Header) \in Seq(Objects) /\ size.msg \in Nat
  BY ShiftFacts DEF TypeOK, Header
<1>3. TypeOK'
  BY <1>1, <1>2 DEF TypeOK
<1>4. PackInv'
  <2>1. Front' = Front
    BY <1>1 DEF Front
  <2>2. Packed(44 + Address + GateIdSize + len)
    BY <1>1 DEF PackInv
  <2>3. Packed(44 + Address + GateIdSize + len)'
    BY <1>1, <2>1, <2>2 DEF Packed, Address, GateIdSize, GateIdPacked
  <2>4. QED
    BY <1>1, <2>3 DEF PackInv
<1>5. SizeInv'
  BY <1>1 DEF SizeInv, Address, GateIdSize, GateIdPacked
<1>6. ReadInv' /\ DataInv'
  BY <1>1 DEF ReadInv, DataInv
<1>7. QED
  BY <1>3, <1>4, <1>5, <1>6

LEMMA AnswerStep ==
  ASSUME IInv, Answer
  PROVE  IInv'
<1>1. /\ pc' = "idle" /\ request' = NoRequest /\ envelope' = <<>> /\ envelope_size' = 0
      /\ classifiers' = <<>> /\ classifier_size' = 0 /\ data' = <<>> /\ len' = 0
      /\ size' = NoSize /\ decision' = <<>> /\ ptr' = 0 /\ message' = NoMessage
  BY DEF Answer
<1>2. <<>> \in Seq(Objects) /\ <<>> \in Seq(Classifiers \cup {"none"}) /\ Tight(<<>>, 0, 0)
      /\ Len(<<>>) = 0
  BY TightNone, EmptySeq
<1>3. TypeOK'
  BY <1>1, <1>2, RoomAssumption
     DEF TypeOK, NoRequest, NoSize, NoMessage, Profiles, Subscribers
<1>4. ReadInv' /\ DataInv'
  BY <1>1, <1>2, RoomAssumption DEF ReadInv, DataInv
<1>5. SizeInv' /\ PackInv'
  BY <1>1 DEF SizeInv, PackInv
<1>6. QED
  BY <1>3, <1>4, <1>5 DEF IInv

-----------------------------------------------------------------------------
(* The theorems.                                                           *)

LEMMA IInvStep == IInv /\ [Next]_vars => IInv'
<1> SUFFICES ASSUME IInv, [Next]_vars PROVE IInv'
  OBVIOUS
<1>1. CASE UNCHANGED vars
  <2>1. /\ pc' = pc /\ request' = request
        /\ envelope' = envelope /\ envelope_size' = envelope_size
        /\ classifiers' = classifiers /\ classifier_size' = classifier_size
        /\ data' = data /\ len' = len /\ size' = size /\ decision' = decision
        /\ ptr' = ptr /\ message' = message
    BY <1>1 DEF vars
  <2>2. TypeOK' /\ ReadInv' /\ DataInv' /\ SizeInv'
    BY <2>1 DEF IInv, TypeOK, ReadInv, DataInv, SizeInv, Address, GateIdSize, GateIdPacked
  <2>3. PackInv'
    BY <2>1 DEF IInv, PackInv, Packed, Front, Address, GateIdSize, GateIdPacked
  <2>4. QED
    BY <2>2, <2>3 DEF IInv
<1>2. CASE Ask
  BY <1>2, AskStep
<1>3. CASE ReadProfile
  BY <1>3, ReadProfileStep
<1>4. CASE ReadClassifier
  BY <1>4, ReadClassifierStep
<1>5. CASE Join
  BY <1>5, JoinStep
<1>6. CASE NoPolicy \/ Lookup
  BY <1>6, FindStep
<1>7. CASE Measure
  BY <1>7, MeasureStep
<1>8. CASE PackControl
  BY <1>8, PackControlStep
<1>9. CASE PackGate
  BY <1>9, PackGateStep
<1>10. CASE Wrap
  BY <1>10, WrapStep
<1>11. CASE Answer
  BY <1>11, AnswerStep
<1>12. QED
  BY <1>1, <1>2, <1>3, <1>4, <1>5, <1>6, <1>7, <1>8, <1>9, <1>10, <1>11 DEF Next

LEMMA Invariant == Spec => []IInv
<1>1. QED
  BY IInvInit, IInvStep, PTL DEF Spec

\* The buffers of gctl_04 and ps_proxy hold well-formed objects, and the one
\* for the classifiers is never written past its end.
THEOREM TypeCorrect == Spec => []TypeOK
<1>1. IInv => TypeOK
  BY DEF IInv
<1>2. QED
  BY <1>1, Invariant, PTL

\* What ps_proxy and gctl_04 pack fits what they have measured.
THEOREM SizesFit == Spec => []Fits
<1>1. IInv => Fits
  <2> SUFFICES ASSUME IInv PROVE Fits
    OBVIOUS
  <2> USE DEF IInv
  <2>1. \A k \in 1 .. Len(classifiers) : End(classifiers[k]) <= ClassifierRoom
    <3>1. \A k \in 1 .. Len(classifiers) :
             End(classifiers[k]) \in Nat /\ End(classifiers[k]) <= classifier_size
      BY ObjectsOf DEF ReadInv, Tight
    <3>2. classifier_size \in Nat /\ classifier_size <= ClassifierRoom /\ ClassifierRoom \in Nat
      BY RoomAssumption DEF TypeOK
    <3>3. QED
      BY <3>1, <3>2
  <2>2. \A k \in 1 .. Len(data) : End(data[k]) <= len
    BY DEF DataInv, Tight
  <2>3. pc \in {"gate", "wrap", "sent"} => ptr <= size.msg - Header
    <3>1. ptr \in Nat /\ (pc \in {"wrap", "sent"} => ptr = size.msg - Header)
      BY Filled, AddressNat
    <3>2. pc = "gate" => ptr <= size.msg - Header
      BY Filled
    <3>3. QED
      BY <3>1, <3>2
  <2>4. ASSUME pc \in {"wrap", "sent"}, NEW k \in 1 .. Len(decision)
        PROVE  End(decision[k]) <= ptr
    <3>1. PICK inner \in Seq(Objects) : decision = Front \o inner /\ Tight(inner, 28, ptr)
      BY <2>4 DEF PackInv, Packed
    <3>2. /\ Len(decision) = 4 + Len(inner) /\ Len(inner) \in Nat
          /\ \A j \in 1 .. 4 : decision[j] = Front[j]
          /\ \A j \in 1 .. Len(inner) : decision[4 + j] = inner[j]
      <4>1. Front \in Seq(Objects) /\ Len(Front) = 4
        BY FrontFacts
      <4>2. /\ Len(decision) = Len(Front) + Len(inner) /\ Len(inner) \in Nat
            /\ \A j \in 1 .. Len(Front) : decision[j] = Front[j]
            /\ \A j \in 1 .. Len(inner) : decision[Len(Front) + j] = inner[j]
        BY <3>1, <4>1, ConcatPoints, Zenon
      <4>3. QED
        BY <4>1, <4>2
    <3>3. ptr = 24 + size.dec /\ ptr \in Nat /\ size.dec \in Nat
      BY <2>4, Filled, AddressNat
    <3>4. CASE k \in 1 .. 4
      <4>1. decision[k] = Front[k]
        BY <3>2, <3>4
      <4>2. End(Front[k]) \in {8, 16, 24, 24 + size.dec}
        BY <3>4, FrontFacts
      <4>3. End(Front[k]) <= ptr
        BY <3>3, <4>2
      <4>4. QED
        BY <4>1, <4>3
    <3>5. CASE k \notin 1 .. 4
      <4>1. k - 4 \in 1 .. Len(inner) /\ k = 4 + (k - 4)
        BY <2>4, <3>2, <3>5
      <4>2. decision[k] = inner[k - 4]
        BY <3>2, <4>1
      <4>3. QED
        BY <3>1, <4>1, <4>2 DEF Tight
    <3>6. QED
      BY <3>4, <3>5
  <2>5. QED
    BY <2>1, <2>2, <2>3, <2>4 DEF Fits
<1>2. QED
  BY <1>1, Invariant, PTL

\* A message that is sent is a row of objects its reader can find.
THEOREM MessageTiled == Spec => []Tiled
<1>1. IInv => Tiled
  <2> SUFFICES ASSUME IInv, pc = "sent"
               PROVE  LET objs == message.objects
                          n    == Len(objs)
                      IN  /\ objs[1].at = Header
                          /\ Adjacent(objs, 1, 4)
                          /\ objs[4].id = "decision"
                          /\ End(objs[4]) = message.length
                          /\ objs[5].at = objs[4].at + ObjectHeader
                          /\ Adjacent(objs, 5, n)
                          /\ End(objs[n]) = message.length
                          /\ message.length % 4 = 0
    BY DEF Tiled
  <2> DEFINE s == Shift(decision, Header)
  <2>1. TypeOK
    BY DEF IInv
  <2>2. message.objects = s /\ message.length = size.msg
    BY DEF IInv, PackInv
  <2>3. PICK inner \in Seq(Objects) :
           decision = Front \o inner /\ Len(inner) > 0 /\ Tight(inner, 28, ptr)
    BY DEF IInv, PackInv, Packed
  <2>4. /\ ptr = 24 + size.dec /\ size.msg = 32 + size.dec /\ size.dec \in Nat
        /\ ptr \in Nat /\ size.msg \in Nat
    BY <2>1, Filled, AddressNat
  <2>5. Front \in Seq(Objects) /\ Len(Front) = 4
    BY <2>1, FrontFacts
  <2>6. /\ Len(decision) = Len(Front) + Len(inner) /\ Len(inner) \in Nat
        /\ \A k \in 1 .. Len(Front) : decision[k] = Front[k]
        /\ \A k \in 1 .. Len(inner) : decision[Len(Front) + k] = inner[k]
    BY <2>3, <2>5, ConcatPoints, Zenon
  <2>7. decision \in Seq(Objects) /\ Header \in Nat
    BY <2>1 DEF TypeOK, Header
  <2>8. /\ Len(s) = Len(decision)
        /\ \A k \in 1 .. Len(decision) :
              /\ s[k].id = decision[k].id /\ s[k].at = decision[k].at + Header
              /\ End(s[k]) = End(decision[k]) + Header
              /\ decision[k].at \in Nat /\ End(decision[k]) \in Nat
    BY <2>7, ShiftFacts, ObjectsOf
  <2> HIDE DEF s
  <2>9. \A k \in 1 .. 4 :
           /\ k \in 1 .. Len(decision) /\ s[k].id = Front[k].id
           /\ s[k].at = Front[k].at + 8 /\ End(s[k]) = End(Front[k]) + 8
    <3> TAKE k \in 1 .. 4
    <3>1. k \in 1 .. Len(Front) /\ k \in 1 .. Len(decision)
      BY <2>5, <2>6
    <3>2. decision[k] = Front[k]
      BY <2>6, <3>1
    <3>3. s[k].id = decision[k].id /\ s[k].at = decision[k].at + 8 /\ End(s[k]) = End(decision[k]) + 8
      BY <2>8, <3>1 DEF Header
    <3>4. QED
      BY <3>1, <3>2, <3>3
  <2>10. \A k \in 1 .. Len(inner) :
           /\ 4 + k \in 1 .. Len(decision)
           /\ s[4 + k].at = inner[k].at + 8 /\ End(s[4 + k]) = End(inner[k]) + 8
    <3> TAKE k \in 1 .. Len(inner)
    <3>1. 4 + k \in 1 .. Len(decision)
      BY <2>5, <2>6
    <3>2. decision[4 + k] = inner[k]
      BY <2>5, <2>6
    <3>3. s[4 + k].at = decision[4 + k].at + 8 /\ End(s[4 + k]) = End(decision[4 + k]) + 8
      BY <2>8, <3>1 DEF Header
    <3>4. QED
      BY <3>1, <3>2, <3>3
  <2>11. /\ s[1].at = 8 /\ s[2].at = 16 /\ s[3].at = 24 /\ s[4].at = 32
         /\ End(s[1]) = 16 /\ End(s[2]) = 24 /\ End(s[3]) = 32
         /\ s[4].id = "decision" /\ End(s[4]) = size.msg
    <3>1. /\ Front[1].at = 0 /\ Front[2].at = 8 /\ Front[3].at = 16 /\ Front[4].at = 24
          /\ End(Front[1]) = 8 /\ End(Front[2]) = 16 /\ End(Front[3]) = 24
          /\ Front[4].id = "decision" /\ End(Front[4]) = 24 + size.dec
      BY <2>1, FrontFacts
    <3>2. 1 \in 1 .. 4 /\ 2 \in 1 .. 4 /\ 3 \in 1 .. 4 /\ 4 \in 1 .. 4
      OBVIOUS
    <3>3. s[1].at = 0 + 8 /\ s[2].at = 8 + 8 /\ s[3].at = 16 + 8 /\ s[4].at = 24 + 8
      BY <2>9, <3>1, <3>2
    <3>4. /\ End(s[1]) = 8 + 8 /\ End(s[2]) = 16 + 8 /\ End(s[3]) = 24 + 8
          /\ s[4].id = "decision" /\ End(s[4]) = (24 + size.dec) + 8
      BY <2>9, <3>1, <3>2
    <3>5. QED
      BY <2>4, <3>3, <3>4
  <2>12. Adjacent(s, 1, 4)
    <3>1. \A k \in 1 .. 4 - 1 : k = 1 \/ k = 2 \/ k = 3
      OBVIOUS
    <3>2. QED
      BY <2>11, <3>1 DEF Adjacent
  <2>13. s[5].at = s[4].at + ObjectHeader
    <3>1. 1 \in 1 .. Len(inner) /\ inner[1].at = 28
      BY <2>3, <2>6 DEF Tight
    <3>2. QED
      BY <2>10, <2>11, <3>1 DEF ObjectHeader
  <2>14. Adjacent(s, 5, Len(s))
    <3>1. ASSUME NEW k \in 5 .. Len(s) - 1
          PROVE  s[k + 1].at = End(s[k])
      <4> DEFINE j == k - 4
      <4>1. /\ j \in 1 .. Len(inner) - 1 /\ j \in 1 .. Len(inner) /\ j + 1 \in 1 .. Len(inner)
            /\ k = 4 + j /\ k + 1 = 4 + (j + 1)
        BY <2>5, <2>6, <2>8
      <4> HIDE DEF j
      <4>2. inner[j + 1].at = End(inner[j])
        BY <2>3, <4>1 DEF Tight, Adjacent
      <4>3. QED
        BY <2>10, <4>1, <4>2
    <3>2. QED
      BY <3>1 DEF Adjacent
  <2>15. End(s[Len(s)]) = size.msg
    <3>1. Len(inner) \in 1 .. Len(inner) /\ Len(s) = 4 + Len(inner)
      BY <2>3, <2>5, <2>6, <2>8
    <3>2. End(inner[Len(inner)]) = ptr
      BY <2>3 DEF Tight
    <3>3. s[Len(s)] = s[4 + Len(inner)]
      BY <3>1
    <3>4. End(s[4 + Len(inner)]) = ptr + 8
      BY <2>10, <3>1, <3>2
    <3>5. QED
      BY <2>4, <3>3, <3>4
  <2>16. size.msg % 4 = 0
    <3>1. /\ Address \in Nat /\ Address % 4 = 0 /\ GateIdSize \in {0, 8} /\ len \in Nat
      BY <2>1, AddressNat
    <3>2. len % 4 = 0 /\ size.msg = Address + GateIdSize + len + 52
      <4>1. len % 4 = 0 /\ size.dec = Address + GateIdSize + len + 20
        BY DEF IInv, DataInv, SizeInv
      <4>2. QED
        BY <2>4, <3>1, <4>1
    <3>3. Address + len \in Nat /\ (Address + len) % 4 = 0
      BY <3>1, <3>2, Words
    <3>4. GateIdSize + 52 \in Nat /\ (GateIdSize + 52) % 4 = 0
      BY <3>1
    <3>5. size.msg = (Address + len) + (GateIdSize + 52)
      BY <3>1, <3>2
    <3>6. QED
      BY <3>3, <3>4, <3>5, Words
  <2>17. QED
    BY <2>2, <2>11, <2>12, <2>13, <2>14, <2>15, <2>16 DEF Header
<1>2. QED
  BY <1>1, Invariant, PTL

-----------------------------------------------------------------------------
(***************************************************************************)
(* What is sent, by the names of its objects, in order.                    *)
(***************************************************************************)

Names(objs) == [k \in 1 .. Len(objs) |-> objs[k].id]

\* What gctl_04 joins, and what ps_proxy puts in front of it.
PolicyNames  == IF request.op = "set"
                THEN <<"gate_spec", request.profile>> \o request.classifiers ELSE <<>>
GateIdNames  == IF request.op = "set" /\ ~request.gate THEN <<>> ELSE <<"gate_id">>
ControlNames == <<"handle", "context", "flags", "decision", "command", "application",
                  request.subscriber>>

NamesInv ==
    /\ pc \notin {"idle", "read", "failed"} /\ request.op = "set" =>
          Len(request.classifiers) \in 1 .. MaxClassifiers
    /\ pc \in {"idle", "read"} => data = <<>> /\ classifiers = <<>>
    /\ pc = "classifiers" =>
          /\ Names(envelope) = <<request.profile>>
          /\ \A k \in 1 .. Len(classifiers) : classifiers[k].id = request.classifiers[k]
    /\ pc \in {"lookup", "size", "control", "gate"} => Names(data) = PolicyNames
    /\ pc = "gate" => Names(decision) = ControlNames
    /\ pc = "wrap" => Names(decision) = Wanted
    /\ pc = "sent" => Names(message.objects) = Wanted

LEMMA NamesSeq ==
  ASSUME NEW a \in Seq(Objects)
  PROVE  /\ Names(a) \in Seq(Ids) /\ Len(Names(a)) = Len(a) /\ Len(a) \in Nat
         /\ \A k \in 1 .. Len(a) : Names(a)[k] = a[k].id
<1>1. Len(a) \in Nat /\ \A k \in 1 .. Len(a) : a[k].id \in Ids
  BY ObjectsOf DEF Objects
<1>2. Names(a) \in [1 .. Len(a) -> Ids]
  BY <1>1 DEF Names
<1>3. QED
  BY <1>1, <1>2, IsASeq, LenProperties DEF Names

LEMMA NamesJoin ==
  ASSUME NEW a \in Seq(Objects), NEW b \in Seq(Objects)
  PROVE  Names(a \o b) = Names(a) \o Names(b)
<1> DEFINE c == a \o b
           x == Names(c)
           y == Names(a) \o Names(b)
<1>1. /\ c \in Seq(Objects) /\ Len(c) = Len(a) + Len(b)
      /\ \A k \in 1 .. Len(a) + Len(b) : c[k] = IF k <= Len(a) THEN a[k] ELSE b[k - Len(a)]
  BY ConcatProperties
<1>2. /\ Names(a) \in Seq(Ids) /\ Len(Names(a)) = Len(a) /\ Len(a) \in Nat
      /\ \A k \in 1 .. Len(a) : Names(a)[k] = a[k].id
  BY NamesSeq
<1>3. /\ Names(b) \in Seq(Ids) /\ Len(Names(b)) = Len(b) /\ Len(b) \in Nat
      /\ \A k \in 1 .. Len(b) : Names(b)[k] = b[k].id
  BY NamesSeq
<1>4. /\ x \in Seq(Ids) /\ Len(x) = Len(c)
      /\ \A k \in 1 .. Len(c) : x[k] = c[k].id
  BY <1>1, NamesSeq
<1>5. /\ y \in Seq(Ids) /\ Len(y) = Len(a) + Len(b)
      /\ \A k \in 1 .. Len(a) + Len(b) :
            y[k] = IF k <= Len(a) THEN Names(a)[k] ELSE Names(b)[k - Len(a)]
  <2> DEFINE na == Names(a)
             nb == Names(b)
  <2> HIDE DEF na, nb
  <2>1. na \in Seq(Ids) /\ nb \in Seq(Ids) /\ Len(na) = Len(a) /\ Len(nb) = Len(b)
    BY <1>2, <1>3 DEF na, nb
  <2>2. /\ na \o nb \in Seq(Ids) /\ Len(na \o nb) = Len(na) + Len(nb)
        /\ \A k \in 1 .. Len(na) + Len(nb) :
              (na \o nb)[k] = IF k <= Len(na) THEN na[k] ELSE nb[k - Len(na)]
    BY <2>1, ConcatProperties, Zenon
  <2>3. QED
    BY <2>1, <2>2, Zenon DEF na, nb
<1> HIDE DEF c, x, y
<1>6. ASSUME NEW k \in 1 .. Len(x) PROVE x[k] = y[k]
  <2>1. k \in 1 .. Len(a) + Len(b) /\ x[k] = c[k].id
    BY <1>1, <1>4
  <2>2. CASE k <= Len(a)
    BY <1>1, <1>2, <1>5, <2>1, <2>2
  <2>3. CASE ~(k <= Len(a))
    <3>1. k - Len(a) \in 1 .. Len(b)
      BY <1>2, <1>3, <2>1, <2>3
    <3>2. y[k] = Names(b)[k - Len(a)] /\ c[k] = b[k - Len(a)]
      BY <1>1, <1>5, <2>1, <2>3
    <3>3. Names(b)[k - Len(a)] = b[k - Len(a)].id
      BY <1>3, <3>1
    <3>4. QED
      BY <2>1, <3>2, <3>3
  <2>4. QED
    BY <2>2, <2>3
<1>7. Len(x) = Len(y)
  BY <1>1, <1>4, <1>5
<1>8. x = y
  BY <1>4, <1>5, <1>6, <1>7, SeqEqual
<1>9. QED
  BY <1>8 DEF x, y, c

\* concat moves objects and does not rename them.
LEMMA NamesShift ==
  ASSUME NEW a \in Seq(Objects), NEW by \in Nat
  PROVE  Names(Shift(a, by)) = Names(a)
<1>1. /\ Len(Shift(a, by)) = Len(a)
      /\ \A k \in 1 .. Len(a) : Shift(a, by)[k].id = a[k].id
  BY ShiftFacts
<1>2. QED
  BY <1>1 DEF Names

\* Two sequences that are written out.
LEMMA Pair ==
  ASSUME NEW x, NEW y PROVE <<x>> \o <<y>> = <<x, y>>
<1> DEFINE S == {x, y}
           s == <<x>>
           t == <<y>>
           u == <<x, y>>
           v == s \o t
<1>1. s \in Seq(S) /\ Len(s) = 1 /\ t \in Seq(S) /\ Len(t) = 1 /\ u \in Seq(S) /\ Len(u) = 2
  OBVIOUS
<1>2. s[1] = u[1] /\ t[1] = u[2]
  OBVIOUS
<1> HIDE DEF S, s, t, u
<1>3. /\ v \in Seq(S) /\ Len(v) = Len(s) + Len(t)
      /\ \A k \in 1 .. Len(s) + Len(t) : v[k] = IF k <= Len(s) THEN s[k] ELSE t[k - Len(s)]
  BY <1>1, ConcatProperties, Zenon
<1> HIDE DEF v
<1>4. Len(v) = 2 /\ v[1] = s[1] /\ v[2] = t[1]
  BY <1>1, <1>3
<1>5. Len(v) = Len(u) /\ \A k \in 1 .. Len(v) : v[k] = u[k]
  <2>1. \A k \in 1 .. 2 : k = 1 \/ k = 2
    OBVIOUS
  <2>2. QED
    BY <1>1, <1>2, <1>4, <2>1
<1>6. v = u
  BY <1>1, <1>3, <1>5, SeqEqual, Zenon
<1>7. QED
  BY <1>6 DEF v, s, t, u

LEMMA ControlJoined ==
  <<"handle", "context", "flags", "decision">>
      \o <<"command", "application", request.subscriber>> = ControlNames
<1> DEFINE s == <<"handle", "context", "flags", "decision">>
           t == <<"command", "application", request.subscriber>>
           u == ControlNames
           S == {"handle", "context", "flags", "decision", "command", "application",
                 request.subscriber}
<1> USE DEF ControlNames
<1>1. s \in Seq(S) /\ Len(s) = 4 /\ t \in Seq(S) /\ Len(t) = 3 /\ u \in Seq(S) /\ Len(u) = 7
  OBVIOUS
<1>2. /\ s[1] = u[1] /\ s[2] = u[2] /\ s[3] = u[3] /\ s[4] = u[4]
      /\ t[1] = u[5] /\ t[2] = u[6] /\ t[3] = u[7]
  OBVIOUS
<1> HIDE DEF S, s, t, u, ControlNames
<1>3. /\ s \o t \in Seq(S) /\ Len(s \o t) = 4 + 3
      /\ \A k \in 1 .. 4 + 3 : (s \o t)[k] = IF k <= 4 THEN s[k] ELSE t[k - 4]
  <2>1. /\ s \o t \in Seq(S) /\ Len(s \o t) = Len(s) + Len(t)
        /\ \A k \in 1 .. Len(s) + Len(t) : (s \o t)[k] = IF k <= Len(s) THEN s[k] ELSE t[k - Len(s)]
    BY <1>1, ConcatProperties, Zenon
  <2>2. QED
    BY <1>1, <2>1, Zenon
<1> DEFINE v == s \o t
<1> HIDE DEF v
<1>4. ASSUME NEW k \in 1 .. 7 PROVE v[k] = u[k]
  <2>1. v[k] = IF k <= 4 THEN s[k] ELSE t[k - 4]
    <3>1. k \in 1 .. 4 + 3
      OBVIOUS
    <3>2. QED
      BY <1>3, <3>1, Zenon DEF v
  <2>2. k \in {1, 2, 3, 4} \/ k \in {5, 6, 7}
    OBVIOUS
  <2>3. CASE k \in {1, 2, 3, 4}
    BY <1>2, <2>1, <2>3
  <2>4. CASE k \in {5, 6, 7}
    BY <1>2, <2>1, <2>4
  <2>5. QED
    BY <2>2, <2>3, <2>4
<1>5. v = u
  <2>1. v \in Seq(S) /\ Len(v) = 7
    BY <1>3 DEF v
  <2>2. Len(v) = Len(u) /\ \A k \in 1 .. Len(v) : v[k] = u[k]
    BY <1>1, <1>4, <2>1
  <2>3. QED
    BY <1>1, <2>1, <2>2, SeqEqual, Zenon
<1>6. QED
  BY <1>5 DEF v, s, t, u

LEMMA NamesOne ==
  ASSUME NEW o PROVE Names(<<o>>) = <<o.id>>
BY DEF Names

\* Steps that leave the message as it is.
LEMMA NamesRead ==
  ASSUME IInv, NamesInv, Ask \/ ReadProfile \/ NoPolicy \/ Lookup \/ Measure \/ Answer
  PROVE  NamesInv'
<1>1. CASE Ask
  BY <1>1 DEF Ask, NamesInv, policy, packet
<1>2. CASE ReadProfile
  <2>1. CASE pc' = "failed"
    BY <1>2, <2>1 DEF ReadProfile, NamesInv
  <2>2. CASE pc' # "failed"
    <3>1. /\ envelope' = <<Obj(request.profile, 0)>> /\ pc' = "classifiers" /\ request' = request
          /\ classifiers' = classifiers /\ pc = "read"
          /\ Len(request.classifiers) \in 1 .. MaxClassifiers
      BY <1>2, <2>2 DEF ReadProfile
    <3>2. Names(envelope') = <<request.profile>>
      BY <3>1, NamesOne DEF Obj
    <3>3. classifiers' = <<>> /\ Len(classifiers') = 0
      BY <3>1, EmptySeq DEF NamesInv
    <3>4. QED
      BY <3>1, <3>2, <3>3 DEF NamesInv, Names
  <2>3. QED
    BY <2>1, <2>2
<1>3. CASE NoPolicy
  <2>1. /\ pc = "read" /\ pc' = "lookup" /\ request' = request /\ data' = data
        /\ request.op # "set" /\ data = <<>>
    BY <1>3 DEF NoPolicy, NamesInv, policy
  <2>2. Names(data') = PolicyNames'
    BY <2>1 DEF Names, PolicyNames
  <2>3. QED
    BY <2>1, <2>2 DEF NamesInv
<1>4. CASE Lookup \/ Measure
  <2>1. /\ pc \in {"lookup", "size"} /\ pc' \in {"size", "failed", "control"}
        /\ request' = request /\ data' = data
    BY <1>4 DEF Lookup, Measure, policy
  <2>2. Names(data)' = Names(data) /\ PolicyNames' = PolicyNames
    BY <2>1 DEF Names, PolicyNames
  <2>3. QED
    BY <2>1, <2>2 DEF NamesInv
<1>5. CASE Answer
  BY <1>5 DEF Answer, NamesInv
<1>6. QED
  BY <1>1, <1>2, <1>3, <1>4, <1>5

LEMMA NamesClassifier ==
  ASSUME IInv, NamesInv, ReadClassifier
  PROVE  NamesInv'
<1> DEFINE m == Len(classifiers)
           k == request.classifiers[m + 1]
<1>1. /\ pc = "classifiers" /\ request' = request /\ envelope' = envelope
      /\ m < Len(request.classifiers)
  BY DEF ReadClassifier
<1>2. classifiers \in Seq(Objects) /\ m \in Nat
  BY LenProperties DEF IInv, TypeOK
<1>3. CASE pc' = "failed"
  BY <1>3 DEF NamesInv
<1>4. CASE pc' # "failed"
  <2>1. classifiers' = Append(classifiers, Obj(k, classifier_size)) /\ pc' = pc
    BY <1>4 DEF ReadClassifier
  <2>2. /\ Len(classifiers') = m + 1
        /\ \A j \in 1 .. m : classifiers'[j] = classifiers[j]
        /\ classifiers'[m + 1] = Obj(k, classifier_size)
    <3> DEFINE o == Obj(k, classifier_size)
    <3>1. classifiers' = Append(classifiers, o)
      BY <2>1
    <3> HIDE DEF o
    <3>2. QED
      BY <1>2, <3>1 DEF o
  <2>3. classifiers'[m + 1].id = k
    BY <2>2 DEF Obj
  <2>4. \A j \in 1 .. Len(classifiers') : classifiers'[j].id = request'.classifiers[j]
    BY <1>1, <1>2, <2>2, <2>3 DEF NamesInv
  <2>5. Names(envelope)' = <<request.profile>>
    BY <1>1 DEF NamesInv, Names
  <2>6. QED
    BY <1>1, <2>1, <2>4, <2>5 DEF NamesInv
<1>5. QED
  BY <1>3, <1>4

LEMMA NamesJoined ==
  ASSUME IInv, NamesInv, Join
  PROVE  NamesInv'
<1> DEFINE o == Obj("gate_spec", 0)
           a == Shift(envelope, 16)
           b == Shift(classifiers, 16 + envelope_size)
<1>1. /\ pc = "classifiers" /\ pc' = "lookup" /\ request' = request
      /\ data' = (<<o>> \o a) \o b /\ Len(classifiers) = Len(request.classifiers)
  BY DEF Join
<1>2. /\ envelope \in Seq(Objects) /\ classifiers \in Seq(Objects) /\ envelope_size \in Nat
      /\ request.op = "set" /\ request.classifiers \in Seq(Classifiers \cup {"none"})
  BY <1>1 DEF IInv, TypeOK, ReadInv
<1>3. o \in Objects /\ o.id = "gate_spec"
  BY ObjType DEF Ids
<1>4. a \in Seq(Objects) /\ Names(a) = <<request.profile>>
  BY <1>1, <1>2, ShiftFacts, NamesShift DEF NamesInv
<1>5. b \in Seq(Objects) /\ Names(b) = Names(classifiers)
  <2>1. 16 + envelope_size \in Nat
    BY <1>2
  <2>2. QED
    BY <1>2, <2>1, ShiftFacts, NamesShift
<1> HIDE DEF o, a, b
<1>6. <<o>> \in Seq(Objects) /\ <<o>> \o a \in Seq(Objects)
  <2>1. <<o>> \in Seq(Objects)
    BY <1>3
  <2>2. QED
    BY <2>1, <1>4, ConcatProperties
<1>7. Names(data') = (<<"gate_spec">> \o <<request.profile>>) \o Names(classifiers)
  <2>1. Names(<<o>> \o a) = Names(<<o>>) \o Names(a)
    BY <1>4, <1>6, NamesJoin
  <2>2. Names((<<o>> \o a) \o b) = Names(<<o>> \o a) \o Names(b)
    BY <1>5, <1>6, NamesJoin
  <2>3. Names(<<o>>) = <<"gate_spec">>
    BY <1>3, NamesOne
  <2>4. QED
    BY <1>1, <1>4, <1>5, <2>1, <2>2, <2>3, Zenon
<1>8. Names(classifiers) = request.classifiers
  <2>1. /\ Names(classifiers) \in Seq(Ids) /\ Len(Names(classifiers)) = Len(classifiers)
        /\ \A k \in 1 .. Len(classifiers) : Names(classifiers)[k] = classifiers[k].id
    BY <1>2, NamesSeq
  <2>2. \A k \in 1 .. Len(classifiers) : Names(classifiers)[k] = request.classifiers[k]
    BY <1>1, <2>1 DEF NamesInv
  <2> DEFINE S == Ids \cup {"none"}
  <2>3. Names(classifiers) \in Seq(S)
    BY <2>1, SeqMonotonic
  <2>4. request.classifiers \in Seq(S)
    <3>1. Classifiers \cup {"none"} \subseteq S
      BY DEF Ids
    <3>2. QED
      BY <1>2, <3>1, SeqMonotonic
  <2> HIDE DEF S
  <2>5. QED
    BY <1>1, <2>1, <2>2, <2>3, <2>4, SeqEqual
<1>9. <<"gate_spec">> \o <<request.profile>> = <<"gate_spec", request.profile>>
  BY Pair
<1>10. Names(data') = PolicyNames
  BY <1>2, <1>7, <1>8, <1>9, Zenon DEF PolicyNames
<1>11. PolicyNames' = PolicyNames
  BY <1>1 DEF PolicyNames
<1>12. Names(data)' = PolicyNames'
  BY <1>10, <1>11 DEF Names
<1>13. QED
  BY <1>1, <1>2, <1>12 DEF NamesInv

LEMMA NamesControl ==
  ASSUME IInv, NamesInv, PackControl
  PROVE  NamesInv'
<1> DEFINE c == Obj("command", 28)
           a == Obj("application", 36)
           s == Obj(request.subscriber, 44)
           inner == <<c, a, s>>
<1>1. /\ pc = "control" /\ pc' = "gate" /\ request' = request /\ data' = data
      /\ decision' = Front \o inner
  BY DEF PackControl, policy
<1>2. /\ c \in Objects /\ c.id = "command" /\ a \in Objects /\ a.id = "application"
      /\ s \in Objects /\ s.id = request.subscriber
  <2>1. /\ "command" \in Ids /\ "application" \in Ids /\ "command" # "decision"
        /\ "application" # "decision"
    BY DEF Ids
  <2>2. request.subscriber \in Ids /\ request.subscriber # "decision"
    BY AddressNat DEF IInv
  <2>3. c \in Objects /\ c.id = "command"
    BY <2>1, ObjType
  <2>4. a \in Objects /\ a.id = "application"
    BY <2>1, ObjType
  <2>5. s \in Objects /\ s.id = request.subscriber
    BY <2>2, ObjType
  <2>6. QED
    BY <2>3, <2>4, <2>5
<1> HIDE DEF c, a, s
<1>3. inner \in Seq(Objects) /\ Names(inner) = <<"command", "application", request.subscriber>>
  BY <1>2 DEF Names
<1>4. Front \in Seq(Objects)
  BY FrontFacts DEF IInv
<1>5. Names(Front) = <<"handle", "context", "flags", "decision">>
  BY DEF Names, Front, Obj
<1>6. Names(decision') = <<"handle", "context", "flags", "decision">>
                           \o <<"command", "application", request.subscriber>>
  <2> HIDE DEF inner
  <2>1. Names(Front \o inner) = Names(Front) \o Names(inner)
    BY <1>3, <1>4, NamesJoin
  <2>2. QED
    BY <1>1, <1>3, <1>5, <2>1
<1>7. Names(decision') = ControlNames
  BY <1>6, ControlJoined, Zenon
<1>8. Names(decision)' = ControlNames' /\ Names(data)' = Names(data) /\ PolicyNames' = PolicyNames
  BY <1>1, <1>7 DEF Names, ControlNames, PolicyNames
<1>9. QED
  BY <1>1, <1>8 DEF NamesInv

LEMMA NamesGate ==
  ASSUME IInv, NamesInv, PackGate
  PROVE  NamesInv'
<1> DEFINE gid  == IF GateIdPacked THEN <<Obj("gate_id", ptr)>> ELSE <<>>
           next == IF GateIdPacked THEN ptr + 8 ELSE ptr
           rest == Shift(data, next)
<1>1. /\ pc = "gate" /\ pc' = "wrap" /\ request' = request
      /\ decision' = (decision \o gid) \o rest
  BY DEF PackGate
<1>2. ptr \in Nat /\ next \in Nat /\ decision \in Seq(Objects) /\ data \in Seq(Objects)
  BY DEF IInv, TypeOK
<1>3. gid \in Seq(Objects) /\ Names(gid) = GateIdNames
  <2>1. CASE GateIdPacked
    <3>1. Obj("gate_id", ptr) \in Objects /\ Obj("gate_id", ptr).id = "gate_id"
      BY <1>2, ObjType DEF Ids
    <3>2. Names(<<Obj("gate_id", ptr)>>) = <<"gate_id">>
      BY <3>1, NamesOne
    <3>3. <<Obj("gate_id", ptr)>> \in Seq(Objects)
      BY <3>1
    <3>4. QED
      BY <2>1, <3>2, <3>3 DEF GateIdNames, GateIdPacked
  <2>2. CASE ~GateIdPacked
    <3>1. Names(<<>>) = <<>> /\ <<>> \in Seq(Objects)
      BY DEF Names
    <3>2. QED
      BY <2>2, <3>1 DEF GateIdNames, GateIdPacked
  <2>3. QED
    BY <2>1, <2>2
<1>4. rest \in Seq(Objects) /\ Names(rest) = PolicyNames
  <2> HIDE DEF next
  <2>1. Names(data) = PolicyNames
    BY <1>1 DEF NamesInv
  <2>2. QED
    BY <1>2, <2>1, ShiftFacts, NamesShift
<1> HIDE DEF gid, rest, next
<1>5. Names(decision \o gid) = Names(decision) \o Names(gid) /\ decision \o gid \in Seq(Objects)
  BY <1>2, <1>3, NamesJoin, ConcatProperties
<1>6. Names((decision \o gid) \o rest) = Names(decision \o gid) \o Names(rest)
  BY <1>4, <1>5, NamesJoin
<1>7. Names(decision) = ControlNames
  BY <1>1 DEF NamesInv
<1>8. Names(decision') = (ControlNames \o GateIdNames) \o PolicyNames
  BY <1>1, <1>3, <1>4, <1>5, <1>6, <1>7, Zenon
<1>9. Names(decision') = Wanted
  BY <1>8, Zenon DEF Wanted, ControlNames, GateIdNames, PolicyNames
<1>10. Wanted' = Wanted
  BY <1>1 DEF Wanted
<1>11. Names(decision)' = Wanted'
  BY <1>9, <1>10 DEF Names
<1>12. QED
  BY <1>1, <1>11 DEF NamesInv

LEMMA NamesWrap ==
  ASSUME IInv, NamesInv, Wrap
  PROVE  NamesInv'
<1>1. /\ pc = "wrap" /\ pc' = "sent" /\ request' = request
      /\ message'.objects = Shift(decision, Header)
  BY DEF Wrap
<1>2. Names(Shift(decision, Header)) = Wanted
  BY <1>1, NamesShift DEF NamesInv, IInv, TypeOK, Header
<1>3. Names(message'.objects) = Wanted
  BY <1>1, <1>2, Zenon
<1>4. Wanted' = Wanted
  BY <1>1 DEF Wanted
<1>5. Names(message.objects)' = Wanted'
  BY <1>3, <1>4 DEF Names
<1>6. QED
  BY <1>1, <1>5 DEF NamesInv

LEMMA NamesStep ==
  ASSUME IInv, NamesInv, [Next]_vars
  PROVE  NamesInv'
<1>1. CASE UNCHANGED vars
  <2>1. /\ pc' = pc /\ request' = request /\ envelope' = envelope /\ classifiers' = classifiers
        /\ data' = data /\ decision' = decision /\ message' = message
    BY <1>1 DEF vars
  <2>2. /\ Names(envelope)' = Names(envelope) /\ Names(data)' = Names(data)
        /\ Names(decision)' = Names(decision) /\ Names(message.objects)' = Names(message.objects)
        /\ PolicyNames' = PolicyNames /\ ControlNames' = ControlNames /\ Wanted' = Wanted
    BY <2>1 DEF Names, PolicyNames, ControlNames, Wanted
  <2>3. QED
    BY <2>1, <2>2 DEF NamesInv
<1>2. CASE Next
  BY <1>2, NamesRead, NamesClassifier, NamesJoined, NamesControl, NamesGate, NamesWrap DEF Next
<1>3. QED
  BY <1>1, <1>2

\* The message of a request has the objects the request is for, in their order,
\* whatever its list of classifiers, and a list that is too long is not sent
\* in part (gctl_read_policy, pack_ctl_objs, ps_proxy).
THEOREM MessageComplete == Spec => []Complete
<1>1. Init => NamesInv
  BY DEF Init, NamesInv
<1>2. IInv /\ NamesInv /\ [Next]_vars => NamesInv'
  BY NamesStep
<1>3. NamesInv => Complete
  BY DEF NamesInv, Complete, Names
<1>4. QED
  BY <1>1, <1>2, <1>3, Invariant, PTL DEF Spec

-----------------------------------------------------------------------------
(***************************************************************************)
(* What is in the objects (GateEncoding): for addresses of at most eight   *)
(* groups, the addresses of a handler that was not disturbed are its own.  *)
(* Of a handler that was, only the types are known.                        *)
(***************************************************************************)

\* A row of n words.
Row(s, n) == s \in Seq(Word) /\ Len(s) = n

Packets == {o \in [kind : Nat, body : Seq(Word)] : Len(o.body) = BodyLength(o.kind)}

\* An object says what the policy says, as far as addresses go.
SaysOwn(o, p) ==
    /\ o.kind = IPv6 =>
          /\ SubSeq(o.body, 7, 14) = Padded(p.classifier.src_ip6)
          /\ SubSeq(o.body, 15, 22) = Padded(p.classifier.dst_ip6)
    /\ o.kind = Kind(3, 2) => o.body = Padded(p.subscriber)

EncShape ==
    /\ stage \in [Handlers -> Stages]
    /\ DOMAIN asked = Handlers
    /\ packed \in [Handlers -> Seq(Packets)]
    /\ body \in [Handlers -> [1 .. 16 -> Word]]
    /\ groups \in [Handlers -> Nat]
    /\ alone \in [Handlers -> BOOLEAN]
    /\ strtok \in Seq(Word)
    /\ begun \in 0 .. MaxBegun

AskedInv(h) ==
    /\ stage[h] # "idle" => asked[h] \in Policies
    /\ stage[h] = "idle" => packed[h] = <<>>
    /\ stage[h] \in {"source", "destination"} => asked[h].classifier.type = "ipv6"
    /\ stage[h] = "subscriber" => asked[h].version = 6
    /\ ~AtAddress(h) => groups[h] = 0 /\ body[h] = Zeros

\* The groups that strtok has still to give are those behind the ones written.
Left(h) ==
    /\ Len(strtok) = Len(Given(h)) - groups[h]
    /\ \A j \in 1 .. Len(strtok) : strtok[j] = Given(h)[groups[h] + j]

WrittenSoFar(h) ==
    \A w \in 1 .. 8 : body[h][Base(h) + w] = IF w <= groups[h] THEN Given(h)[w] ELSE 0

ShortGroups == \A g \in Groups : Len(g) <= 8

OwnInv(h) ==
    ShortGroups /\ alone[h] =>
        /\ groups[h] > 0 => Left(h)
        /\ AtAddress(h) => WrittenSoFar(h)
        /\ stage[h] = "source" => \A w \in 1 .. 8 : body[h][8 + w] = 0
        /\ stage[h] = "destination" =>
              \A w \in 1 .. 8 : body[h][w] = Padded(asked[h].classifier.src_ip6)[w]
        /\ \A k \in 1 .. Len(packed[h]) : SaysOwn(packed[h][k], asked[h])

EncInv == EncShape /\ \A h \in Handlers : AskedInv(h) /\ OwnInv(h)

-----------------------------------------------------------------------------
\* Words.
LEMMA InWord ==
  ASSUME NEW x \in Int
  PROVE  x \in Word <=> 0 <= x /\ x <= 65535
<1>1. MaxWord = 65535
  BY DEF MaxWord
<1>2. x \in Word <=> 0 <= x /\ x <= MaxWord
  <2>1. MaxWord \in Int
    BY <1>1
  <2>2. QED
    BY <2>1 DEF Word
<1>3. QED
  BY <1>1, <1>2

LEMMA WordInts == Word \subseteq Nat /\ 0 \in Word
<1>1. MaxWord \in Nat
  BY DEF MaxWord
<1>2. QED
  BY <1>1 DEF Word

LEMMA BytesWord ==
  ASSUME NEW hi \in Int, NEW lo \in Int
  PROVE  Bytes(hi, lo) \in Word
<1>1. hi % 256 \in 0 .. 255 /\ lo % 256 \in 0 .. 255
  OBVIOUS
<1>2. QED
  BY <1>1, InWord DEF Bytes, Kind

LEMMA U16Word ==
  ASSUME NEW v \in Int
  PROVE  U16(v) \in Word
<1>1. (v % 65536) \in Int /\ 0 <= (v % 65536) /\ (v % 65536) <= 65535
  OBVIOUS
<1>2. QED
  BY <1>1, InWord DEF U16

\* The kinds of the objects that are sent, and their lengths.
LEMMA Lengths ==
  /\ BodyLength(GateSpec) = 6 /\ BodyLength(FlowSpec) = 44 /\ BodyLength(ServiceClassName) = 8
  /\ BodyLength(Legacy) = 10 /\ BodyLength(Extended) = 18 /\ BodyLength(IPv6) = 30
  /\ BodyLength(Kind(3, 2)) = 8
  /\ {GateSpec, FlowSpec, ServiceClassName, Legacy, Extended, IPv6, Kind(3, 2)} \subseteq Nat
BY DEF BodyLength, GateSpec, FlowSpec, ServiceClassName, Legacy, Extended, IPv6, Kind

LEMMA KindsDiffer ==
  /\ IPv6 # Kind(3, 2)
  /\ \A k \in {GateSpec, FlowSpec, ServiceClassName, Legacy, Extended} : k # IPv6 /\ k # Kind(3, 2)
BY DEF GateSpec, FlowSpec, ServiceClassName, Legacy, Extended, IPv6, Kind

\* Rows, one behind the other.
LEMMA RowJoin ==
  ASSUME NEW a, NEW b, NEW m \in Nat, NEW n \in Nat, Row(a, m), Row(b, n)
  PROVE  Row(a \o b, m + n)
BY ConcatProperties DEF Row

LEMMA RowFirst ==
  ASSUME NEW a, NEW b, NEW m \in Nat, NEW n \in Nat, Row(a, m), Row(b, n), NEW k \in 1 .. m
  PROVE  (a \o b)[k] = a[k]
BY ConcatProperties DEF Row

LEMMA RowParts ==
  ASSUME NEW a \in Seq(Word), NEW b \in Seq(Word)
  PROVE  /\ \A k \in 1 .. Len(a) : (a \o b)[k] = a[k]
         /\ \A k \in 1 .. Len(b) : (a \o b)[Len(a) + k] = b[k]
<1>1. \A j \in 1 .. Len(a) + Len(b) : (a \o b)[j] = IF j <= Len(a) THEN a[j] ELSE b[j - Len(a)]
  BY ConcatProperties
<1>2. Len(a) \in Nat /\ Len(b) \in Nat
  OBVIOUS
<1> DEFINE m == Len(a)
           n == Len(b)
           c == a \o b
<1>3. m \in Nat /\ n \in Nat /\ \A j \in 1 .. m + n : c[j] = IF j <= m THEN a[j] ELSE b[j - m]
  BY <1>1, <1>2
<1> HIDE DEF m, n, c
<1>4. ASSUME NEW k \in 1 .. m PROVE c[k] = a[k]
  <2>1. k \in 1 .. m + n /\ k <= m
    BY <1>3
  <2>2. QED
    BY ONLY <1>3, <2>1
<1>5. ASSUME NEW k \in 1 .. n PROVE c[m + k] = b[k]
  <2>1. m + k \in 1 .. m + n /\ ~(m + k <= m) /\ (m + k) - m = k
    BY <1>3
  <2>2. c[m + k] = b[(m + k) - m]
    BY ONLY <1>3, <2>1
  <2>3. QED
    BY ONLY <2>1, <2>2
<1>6. QED
  BY <1>4, <1>5 DEF m, n, c

LEMMA RowOf ==
  ASSUME NEW n \in Nat, NEW s \in [1 .. n -> Word]
  PROVE  Row(s, n)
BY DEF Row

LEMMA RowIs ==
  ASSUME NEW n \in Nat, NEW s, Row(s, n)
  PROVE  s \in [1 .. n -> Word]
BY LenProperties DEF Row

LEMMA PacketIs ==
  ASSUME NEW kind \in Nat, NEW s, Row(s, BodyLength(kind))
  PROVE  /\ Encoded(kind, s) \in Packets
         /\ Encoded(kind, s).kind = kind /\ Encoded(kind, s).body = s
BY DEF Encoded, Packets, Row

-----------------------------------------------------------------------------
(* What the encoders write.                                                *)

\* A policy as it is asked for.
LEMMA PolicyIs ==
  ASSUME NEW p \in Policies
  PROVE  /\ p.profile \in {"scn", "flow_spec"} /\ p.service_number \in Int
         /\ p.profile = "scn" => p.name \in Seq(1 .. 255)
         /\ Holds(p.gate, GateFields, Int)
         /\ p.version = 6 => p.subscriber \in Groups
         /\ Groups \subseteq Seq(Word) \ {<<>>}
BY PoliciesAssumption

LEMMA FlowSpecPacket ==
  ASSUME NEW n \in Int
  PROVE  /\ FlowSpecEnvelope(n) \in Packets /\ FlowSpecEnvelope(n).kind = FlowSpec
         /\ FlowSpecEnvelope(n).body[1] = Bytes(7, n)
<1> DEFINE front == <<Bytes(7, n), 0>>
<1>1. Row(front, 2)
  <2>1. Bytes(7, n) \in Word /\ 0 \in Word
    BY BytesWord, WordInts
  <2>2. QED
    BY <2>1 DEF Row
<1>2. Row(Bitrates, 14)
  <2>1. {17948, 16384, 17224, 0, 200, 2000} \subseteq Word
    BY InWord
  <2>2. QED
    BY <2>1 DEF Bitrates, Row
<1> HIDE DEF front
<1>3. Row(front \o Bitrates, 16)
  BY <1>1, <1>2, RowJoin
<1>4. Row((front \o Bitrates) \o Bitrates, 30)
  BY <1>2, <1>3, RowJoin
<1>5. Row(((front \o Bitrates) \o Bitrates) \o Bitrates, 44)
  BY <1>2, <1>4, RowJoin
<1> DEFINE f1 == front \o Bitrates
           f2 == f1 \o Bitrates
           s == f2 \o Bitrates
<1>6. f1[1] = front[1] /\ f2[1] = f1[1] /\ s[1] = f2[1]
  <2>1. ASSUME NEW x \in Seq(Word), Len(x) >= 1, NEW y \in Seq(Word) PROVE (x \o y)[1] = x[1]
    <3>1. 1 \in 1 .. Len(x)
      BY <2>1
    <3>2. QED
      BY ONLY <3>1, RowParts, x \in Seq(Word), y \in Seq(Word)
  <2>2. /\ front \in Seq(Word) /\ Len(front) = 2 /\ f1 \in Seq(Word) /\ Len(f1) = 16
        /\ f2 \in Seq(Word) /\ Len(f2) = 30 /\ Bitrates \in Seq(Word)
    BY <1>1, <1>2, <1>3, <1>4 DEF Row
  <2>3. f1[1] = front[1]
    BY ONLY <2>1, <2>2
  <2>4. f1 \in Seq(Word) /\ Len(f1) >= 1 /\ f2 \in Seq(Word) /\ Len(f2) >= 1 /\ Bitrates \in Seq(Word)
    BY ONLY <2>2
  <2>5. f2[1] = f1[1] /\ s[1] = f2[1]
    BY ONLY <2>1, <2>4, Zenon
  <2>6. QED
    BY <2>3, <2>5
<1>7. front[1] = Bytes(7, n)
  BY DEF front
<1>8. FlowSpecEnvelope(n) = Encoded(FlowSpec, s)
  BY DEF FlowSpecEnvelope, front
<1>9. s[1] = Bytes(7, n) /\ Row(s, 44)
  BY <1>5, <1>6, <1>7
<1> HIDE DEF s
<1>10. QED
  BY <1>8, <1>9, Lengths, PacketIs

LEMMA ScnPacket ==
  ASSUME NEW name \in Seq(1 .. 255)
  PROVE  /\ ScnEnvelope(name \o <<0>> \o Behind, Len(name)) \in Packets
         /\ ScnEnvelope(name \o <<0>> \o Behind, Len(name)).kind = ServiceClassName
<1> DEFINE memory == name \o <<0>> \o Behind
           alignment == (Len(name) + 1) % 4
           byte(i) == IF i = 0 THEN 7
                      ELSE IF i - 3 - alignment \in 0 .. 7 THEN memory[i - 2 - alignment] ELSE 0
           words == [w \in 1 .. 8 |-> Bytes(byte(2 * w - 2), byte(2 * w - 1))]
<1>1. Behind \in Seq(Int) /\ Len(Behind) = 8 /\ name \in Seq(Int) /\ <<0>> \in Seq(Int)
      /\ Len(name) \in Nat
  <2>1. 0 .. 255 \subseteq Int /\ 1 .. 255 \subseteq Int
    OBVIOUS
  <2>2. Behind \in Seq(0 .. 255) /\ Len(Behind) = 8
    BY PoliciesAssumption
  <2>3. Behind \in Seq(Int)
    BY <2>1, <2>2, SeqMonotonic, ZenonT(30)
  <2>4. name \in Seq(Int)
    <3> DEFINE octets == 1 .. 255
    <3>1. name \in Seq(octets) /\ octets \subseteq Int
      BY <2>1
    <3> HIDE DEF octets
    <3>2. QED
      BY <3>1, SeqMonotonic, Zenon
  <2>5. Len(name) \in Nat /\ <<0>> \in Seq(Int)
    OBVIOUS
  <2>6. QED
    BY <2>2, <2>3, <2>4, <2>5
<1>2. memory \in Seq(Int) /\ Len(memory) = Len(name) + 9
  <2> DEFINE start == name \o <<0>>
  <2>1. start \in Seq(Int) /\ Len(start) = Len(name) + Len(<<0>>)
    BY <1>1, ConcatProperties
  <2>2. Len(start) = Len(name) + 1
    BY <2>1
  <2> HIDE DEF start
  <2>3. start \o Behind \in Seq(Int) /\ Len(start \o Behind) = Len(start) + Len(Behind)
    BY ONLY <1>1, <2>1, ConcatProperties, ZenonT(30)
  <2>4. QED
    BY <1>1, <2>2, <2>3 DEF start
<1> HIDE DEF memory
<1>3. alignment \in 0 .. 3
  BY <1>1
<1> HIDE DEF alignment
<1>4. ASSUME NEW i \in Int PROVE byte(i) \in Int
  <2>1. CASE i - 3 - alignment \in 0 .. 7
    <3>1. i - 2 - alignment \in 1 .. Len(memory)
      BY <1>1, <1>2, <1>3, <2>1
    <3>2. memory[i - 2 - alignment] \in Int
      BY <1>2, <3>1, ElementOfSeq
    <3>3. QED
      BY <3>2
  <2>2. CASE ~(i - 3 - alignment \in 0 .. 7)
    BY <2>2
  <2>3. QED
    BY <2>1, <2>2
<1>5. Row(words, 8)
  <2> HIDE DEF byte
  <2>1. \A w \in 1 .. 8 : Bytes(byte(2 * w - 2), byte(2 * w - 1)) \in Word
    BY <1>4, BytesWord
  <2>2. words \in [1 .. 8 -> Word]
    BY <2>1
  <2>3. QED
    BY <2>2, RowOf
<1>6. ScnEnvelope(memory, Len(name)) = Encoded(ServiceClassName, words)
  BY DEF ScnEnvelope, alignment
<1> HIDE DEF words
<1>7. QED
  BY <1>5, <1>6, Lengths, PacketIs, SMTT(30) DEF memory

ClassifierOK(c) ==
    /\ Holds(c, {"type"}, {"legacy", "extended", "ipv6"})
    /\ Holds(c, ClassifierFields, Int)
    /\ c.type # "ipv6" => Holds(c, {"src_ip", "dst_ip"}, Word \X Word)
    /\ c.type = "extended" => Holds(c, {"src_mask", "dst_mask"}, Word \X Word)
    /\ c.type = "ipv6" => Holds(c, {"src_ip6", "dst_ip6"}, Groups) /\ Holds(c, IPv6Fields, Int)

\* With the priority that is put for none.
LEMMA ClassifierIs ==
  ASSUME NEW h \in Handlers, asked[h] \in Policies
  PROVE  /\ ClassifierOK(asked[h].classifier) /\ ClassifierOK(Classifier(h))
         /\ Classifier(h).type = asked[h].classifier.type
<1> DEFINE c == asked[h].classifier
           d == [c EXCEPT !.priority = 64]
<1>1. ClassifierOK(c)
  BY PoliciesAssumption DEF ClassifierOK
<1>2. Classifier(h) = IF c.priority = 0 THEN d ELSE c
  BY DEF Classifier
<1> HIDE DEF c
<1>3. DOMAIN d = DOMAIN c /\ \A f \in DOMAIN c : d[f] = IF f = "priority" THEN 64 ELSE c[f]
  OBVIOUS
<1> HIDE DEF d
<1>4. /\ \A fields, values : Holds(c, fields, values) /\ "priority" \notin fields => Holds(d, fields, values)
      /\ \A fields : Holds(c, fields, Int) => Holds(d, fields, Int)
  BY <1>3 DEF Holds
<1>5. d.type = c.type
  BY <1>1, <1>3 DEF ClassifierOK, Holds
<1>6. ClassifierOK(d)
  <2>1. Holds(d, {"type"}, {"legacy", "extended", "ipv6"}) /\ Holds(d, ClassifierFields, Int)
    BY <1>1, <1>4 DEF ClassifierOK
  <2>2. d.type # "ipv6" => Holds(d, {"src_ip", "dst_ip"}, Word \X Word)
    BY <1>1, <1>4, <1>5 DEF ClassifierOK
  <2>3. d.type = "extended" => Holds(d, {"src_mask", "dst_mask"}, Word \X Word)
    BY <1>1, <1>4, <1>5 DEF ClassifierOK
  <2>4. d.type = "ipv6" => Holds(d, {"src_ip6", "dst_ip6"}, Groups) /\ Holds(d, IPv6Fields, Int)
    BY <1>1, <1>4, <1>5 DEF ClassifierOK
  <2>5. QED
    BY <2>1, <2>2, <2>3, <2>4 DEF ClassifierOK
<1>7. QED
  BY <1>1, <1>2, <1>5, <1>6, Zenon DEF c

\* The fields of two bytes at the end of a classifier.
LEMMA FieldWords ==
  ASSUME NEW c, ClassifierOK(c)
  PROVE  /\ {U16(c.src_start), U16(c.dst_start), U16(c.src_end), U16(c.dst_end), U16(c.id),
             U16(c.protocol)} \subseteq Word
         /\ {Bytes(c.field, c.mask), Bytes(c.priority, 0), Bytes(c.priority, c.state),
             Bytes(c.action, 0), 0} \subseteq Word
<1>1. \A f \in ClassifierFields : c[f] \in Int
  BY DEF ClassifierOK, Holds
<1>2. /\ c.src_start \in Int /\ c.dst_start \in Int /\ c.src_end \in Int /\ c.dst_end \in Int
      /\ c.id \in Int /\ c.protocol \in Int /\ c.field \in Int /\ c.mask \in Int
      /\ c.priority \in Int /\ c.state \in Int /\ c.action \in Int
  BY <1>1 DEF ClassifierFields
<1>3. QED
  BY <1>2, U16Word, BytesWord, WordInts

LEMMA LegacyPacket ==
  ASSUME NEW c, ClassifierOK(c), c.type = "legacy"
  PROVE  LegacyClassifier(c) \in Packets /\ LegacyClassifier(c).kind = Legacy
<1> DEFINE s == LegacyClassifier(c).body
<1>1. {c.src_ip[1], c.src_ip[2], c.dst_ip[1], c.dst_ip[2]} \subseteq Word
  BY DEF ClassifierOK, Holds
<1>2. Row(s, 10)
  BY <1>1, FieldWords DEF LegacyClassifier, Encoded, Row
<1>3. LegacyClassifier(c) = Encoded(Legacy, s)
  BY DEF LegacyClassifier, Encoded
<1> HIDE DEF s
<1>4. QED
  BY <1>2, <1>3, Lengths, PacketIs

LEMMA ExtendedPacket ==
  ASSUME NEW c, ClassifierOK(c), c.type = "extended"
  PROVE  ExtendedClassifier(c) \in Packets /\ ExtendedClassifier(c).kind = Extended
<1> DEFINE s == ExtendedClassifier(c).body
<1>1. {c.src_ip[1], c.src_ip[2], c.dst_ip[1], c.dst_ip[2],
       c.src_mask[1], c.src_mask[2], c.dst_mask[1], c.dst_mask[2]} \subseteq Word
  BY DEF ClassifierOK, Holds
<1>2. Row(s, 18)
  BY <1>1, FieldWords DEF ExtendedClassifier, Encoded, Row
<1>3. ExtendedClassifier(c) = Encoded(Extended, s)
  BY DEF ExtendedClassifier, Encoded
<1> HIDE DEF s
<1>4. QED
  BY <1>2, <1>3, Lengths, PacketIs

\* The two addresses lie behind the first six words.
LEMMA IPv6Packet ==
  ASSUME NEW c, ClassifierOK(c), c.type = "ipv6", NEW words \in [1 .. 16 -> Word]
  PROVE  LET o == IPv6Classifier(c, SubSeq(words, 1, 16))
         IN  /\ o \in Packets /\ o.kind = IPv6
             /\ \A k \in 1 .. 6 : o.body[k] = IPv6Front(c)[k]
             /\ \A k \in 1 .. 8 : o.body[22 + k] = IPv6Back(c)[k]
             /\ SubSeq(o.body, 7, 14) = SubSeq(words, 1, 8)
             /\ SubSeq(o.body, 15, 22) = SubSeq(words, 9, 16)
<1> DEFINE a == IPv6Front(c)
           b == IPv6Back(c)
           s == SubSeq(words, 1, 16)
           d == a \o s
           e == d \o b
<1>1. Row(a, 6)
  <2>1. \A f \in IPv6Fields : c[f] \in Int
    BY DEF ClassifierOK, Holds
  <2>2. /\ c.tc_low \in Int /\ c.tc_high \in Int /\ c.tc_mask \in Int /\ c.flow_label \in Int
        /\ c.next_header \in Int /\ c.src_prefix \in Int /\ c.dst_prefix \in Int
    BY <2>1 DEF IPv6Fields
  <2>3. {Bytes(0, c.tc_low), Bytes(c.tc_high, c.tc_mask), U16(c.flow_label \div 65536), U16(c.flow_label),
         U16(c.next_header), Bytes(c.src_prefix, c.dst_prefix)} \subseteq Word
    BY <2>2, U16Word, BytesWord, WordInts
  <2>4. QED
    BY <2>3 DEF IPv6Front, Row
<1>2. Row(b, 8)
  BY FieldWords DEF IPv6Back, Row
<1>3. Row(s, 16) /\ \A k \in 1 .. 16 : s[k] = words[k]
  <2>1. /\ s \in Seq(Word) /\ Len(s) = 16 /\ \A k \in 1 .. 16 : s[k] = words[k]
    BY SubSeqProperties
  <2>2. QED
    BY <2>1 DEF Row
<1> HIDE DEF a, b, s
<1>4. Row(d, 22) /\ \A k \in 1 .. 16 : d[6 + k] = s[k]
  <2>1. Row(d, 22)
    BY <1>1, <1>3, RowJoin
  <2>2. \A k \in 1 .. 16 : d[6 + k] = s[k]
    <3>1. a \in Seq(Word) /\ s \in Seq(Word) /\ Len(a) = 6 /\ Len(s) = 16
      BY <1>1, <1>3 DEF Row
    <3>2. \A k \in 1 .. Len(s) : d[Len(a) + k] = s[k]
      BY ONLY <3>1, RowParts
    <3> HIDE DEF d
    <3>3. QED
      BY ONLY <3>1, <3>2
  <2>3. QED
    BY <2>1, <2>2
<1> HIDE DEF d
<1>5. /\ Row(e, 30) /\ \A k \in 1 .. 22 : e[k] = d[k]
      /\ \A k \in 1 .. 8 : e[22 + k] = b[k]
      /\ \A k \in 1 .. 6 : d[k] = a[k]
  <2>1. Row(e, 30)
    BY <1>2, <1>4, RowJoin
  <2>2. \A k \in 1 .. 22 : e[k] = d[k]
    BY <1>2, <1>4, RowFirst, ZenonT(30)
  <2>3. \A k \in 1 .. 6 : d[k] = a[k]
    BY <1>1, <1>3, RowFirst, ZenonT(30) DEF d
  <2>4. \A k \in 1 .. 8 : e[22 + k] = b[k]
    <3>1. d \in Seq(Word) /\ b \in Seq(Word) /\ Len(d) = 22 /\ Len(b) = 8
      BY <1>2, <1>4 DEF Row
    <3>2. \A k \in 1 .. Len(b) : e[Len(d) + k] = b[k]
      BY ONLY <3>1, RowParts
    <3> HIDE DEF e
    <3>3. QED
      BY ONLY <3>1, <3>2
  <2>5. QED
    BY <2>1, <2>2, <2>3, <2>4
<1> HIDE DEF e
<1>6. \A k \in 1 .. 16 : e[6 + k] = words[k]
  <2> TAKE k \in 1 .. 16
  <2>1. 6 + k \in 1 .. 22
    OBVIOUS
  <2>2. e[6 + k] = d[6 + k] /\ d[6 + k] = s[k]
    BY <1>4, <1>5, <2>1
  <2>3. QED
    BY <1>3, <2>1, <2>2
<1>7. SubSeq(e, 7, 14) = SubSeq(words, 1, 8) /\ SubSeq(e, 15, 22) = SubSeq(words, 9, 16)
  <2>1. \A k \in 1 .. 30 : e[k] \in Word
    <3>1. e \in Seq(Word) /\ Len(e) = 30
      BY <1>5 DEF Row
    <3>2. QED
      BY <3>1, ElementOfSeq
  <2>2. /\ SubSeq(e, 7, 14) \in Seq(Word) /\ Len(SubSeq(e, 7, 14)) = 8
        /\ \A k \in 1 .. 8 : SubSeq(e, 7, 14)[k] = e[7 + k - 1]
    BY <2>1, SubSeqProperties
  <2>3. /\ SubSeq(e, 15, 22) \in Seq(Word) /\ Len(SubSeq(e, 15, 22)) = 8
        /\ \A k \in 1 .. 8 : SubSeq(e, 15, 22)[k] = e[15 + k - 1]
    BY <2>1, SubSeqProperties
  <2>4. /\ SubSeq(words, 1, 8) \in Seq(Word) /\ Len(SubSeq(words, 1, 8)) = 8
        /\ \A k \in 1 .. 8 : SubSeq(words, 1, 8)[k] = words[1 + k - 1]
    BY SubSeqProperties
  <2>5. /\ SubSeq(words, 9, 16) \in Seq(Word) /\ Len(SubSeq(words, 9, 16)) = 8
        /\ \A k \in 1 .. 8 : SubSeq(words, 9, 16)[k] = words[9 + k - 1]
    BY SubSeqProperties
  <2>6. ASSUME NEW k \in 1 .. 8
        PROVE  e[7 + k - 1] = words[1 + k - 1] /\ e[15 + k - 1] = words[9 + k - 1]
    <3>1. 7 + k - 1 = 6 + k /\ 15 + k - 1 = 6 + (k + 8) /\ 1 + k - 1 = k /\ 9 + k - 1 = k + 8
          /\ k \in 1 .. 16 /\ k + 8 \in 1 .. 16
      OBVIOUS
    <3>2. QED
      BY <1>6, <3>1
  <2>7. SubSeq(e, 7, 14) = SubSeq(words, 1, 8)
    BY <2>2, <2>4, <2>6, SeqEqual
  <2>8. SubSeq(e, 15, 22) = SubSeq(words, 9, 16)
    BY <2>3, <2>5, <2>6, SeqEqual
  <2>9. QED
    BY <2>7, <2>8
<1> DEFINE o == Encoded(IPv6, e)
<1>8. o \in Packets /\ o.kind = IPv6 /\ o.body = e
  BY <1>5, Lengths, PacketIs
<1>9. o = IPv6Classifier(c, SubSeq(words, 1, 16))
  BY DEF e, d, a, b, s, IPv6Classifier
<1>10. \A k \in 1 .. 6 : e[k] = IPv6Front(c)[k]
  <2>1. \A k \in 1 .. 6 : k \in 1 .. 22
    OBVIOUS
  <2>2. QED
    BY <1>5, <2>1 DEF a
<1>11. \A k \in 1 .. 8 : e[22 + k] = IPv6Back(c)[k]
  BY <1>5 DEF b
<1> HIDE DEF o
<1>12. QED
  BY <1>7, <1>8, <1>9, <1>10, <1>11, Zenon

LEMMA GatePacket ==
  ASSUME NEW g, Holds(g, GateFields, Int), NEW priority \in Int, NEW preemption \in Int
  PROVE  Gate(g, priority, preemption) \in Packets /\ Gate(g, priority, preemption).kind = GateSpec
<1>1. g.overwrite \in Int /\ g.mask \in Int /\ g.t1 \in Int /\ g.t2 \in Int /\ g.t3 \in Int
  BY DEF Holds, GateFields
<1>2. Flags(g.direction, g.overwrite, 0) \in Int /\ Class(priority, preemption, 0) \in Int
  BY <1>1 DEF Flags, Class
<1> DEFINE s == <<Bytes(Flags(g.direction, g.overwrite, 0), g.overwrite),
                  Bytes(g.mask, Class(priority, preemption, 0)), U16(g.t1), U16(g.t2), U16(g.t3), 0>>
<1>3. Row(s, 6)
  <2>1. {Bytes(Flags(g.direction, g.overwrite, 0), g.overwrite),
         Bytes(g.mask, Class(priority, preemption, 0)), U16(g.t1), U16(g.t2), U16(g.t3), 0} \subseteq Word
    BY <1>1, <1>2, U16Word, BytesWord, WordInts
  <2>2. QED
    BY <2>1 DEF Row
<1>4. Gate(g, priority, preemption) = Encoded(GateSpec, s)
  BY DEF Gate
<1> HIDE DEF s
<1>5. QED
  BY <1>3, <1>4, Lengths, PacketIs

LEMMA SubscriberPacket ==
  ASSUME NEW words \in [1 .. 16 -> Word]
  PROVE  LET o == SubscriberId6(SubSeq(words, 1, 8))
         IN  o \in Packets /\ o.kind = Kind(3, 2) /\ o.body = SubSeq(words, 1, 8)
<1>1. Row(SubSeq(words, 1, 8), 8)
  <2>1. SubSeq(words, 1, 8) \in Seq(Word) /\ Len(SubSeq(words, 1, 8)) = 8
    BY SubSeqProperties
  <2>2. QED
    BY <2>1 DEF Row
<1> DEFINE s == SubSeq(words, 1, 8)
<1> HIDE DEF s
<1>2. Row(s, 8)
  BY <1>1 DEF s
<1>3. /\ Encoded(Kind(3, 2), s) \in Packets /\ Encoded(Kind(3, 2), s).kind = Kind(3, 2)
      /\ Encoded(Kind(3, 2), s).body = s
  BY <1>2, Lengths, PacketIs
<1>4. QED
  BY <1>3, Zenon DEF s, SubscriberId6

\* Eight words that are the groups of an address, and zeros behind them.
LEMMA PaddedIs ==
  ASSUME NEW words \in [1 .. 16 -> Word], NEW g \in Seq(Word), NEW at \in {0, 8},
         \A w \in 1 .. 8 : words[at + w] = IF w <= Len(g) THEN g[w] ELSE 0
  PROVE  SubSeq(words, at + 1, at + 8) = Padded(g)
<1> DEFINE s == SubSeq(words, at + 1, at + 8)
           p == Padded(g)
<1>1. s \in Seq(Word) /\ Len(s) = 8 /\ \A k \in 1 .. 8 : s[k] = words[(at + 1) + k - 1]
  <2>1. \A i \in at + 1 .. at + 8 : words[i] \in Word
    <3>1. \A i \in at + 1 .. at + 8 : i \in 1 .. 16
      <4>1. CASE at = 0
        BY <4>1
      <4>2. CASE at = 8
        BY <4>2
      <4>3. QED
        BY <4>1, <4>2
    <3>2. QED
      BY <3>1
  <2>2. /\ s \in Seq(Word) /\ Len(s) = IF at + 1 <= at + 8 THEN (at + 8) - (at + 1) + 1 ELSE 0
        /\ \A k \in 1 .. (at + 8) - (at + 1) + 1 : s[k] = words[(at + 1) + k - 1]
    BY <2>1, SubSeqProperties
  <2> HIDE DEF s
  <2>3. (at + 8) - (at + 1) + 1 = 8 /\ at + 1 <= at + 8
    OBVIOUS
  <2>4. QED
    BY <2>2, <2>3
<1>2. p = [w \in 1 .. 8 |-> IF w <= Len(g) THEN g[w] ELSE 0]
  BY DEF Padded
<1> HIDE DEF s, p
<1>3. \A k \in 1 .. 8 : s[k] = p[k]
  <2> TAKE k \in 1 .. 8
  <2>1. (at + 1) + k - 1 = at + k
    OBVIOUS
  <2>2. s[k] = words[at + k]
    BY <1>1, <2>1
  <2>3. QED
    BY <1>2, <2>2
<1>4. s \in [1 .. 8 -> Word]
  BY <1>1, LenProperties
<1>5. DOMAIN p = 1 .. 8 /\ p = [k \in 1 .. 8 |-> p[k]]
  BY <1>2
<1>6. s = p
  BY <1>3, <1>4, <1>5
<1>7. QED
  BY <1>6 DEF s, p

\* One object more.
LEMMA Packing ==
  ASSUME NEW s \in Seq(Packets), NEW o \in Packets, NEW p
  PROVE  /\ Append(s, o) \in Seq(Packets)
         /\ (\A k \in 1 .. Len(s) : SaysOwn(s[k], p)) /\ SaysOwn(o, p) =>
                \A k \in 1 .. Len(Append(s, o)) : SaysOwn(Append(s, o)[k], p)
<1>1. /\ Append(s, o) \in Seq(Packets) /\ Len(Append(s, o)) = Len(s) + 1 /\ Len(s) \in Nat
      /\ \A k \in 1 .. Len(s) : Append(s, o)[k] = s[k]
      /\ Append(s, o)[Len(s) + 1] = o
  OBVIOUS
<1>2. ASSUME \A k \in 1 .. Len(s) : SaysOwn(s[k], p), SaysOwn(o, p),
             NEW k \in 1 .. Len(Append(s, o))
      PROVE  SaysOwn(Append(s, o)[k], p)
  <2>1. CASE k = Len(s) + 1
    <3>1. Append(s, o)[k] = o
      BY <1>1, <2>1
    <3>2. QED
      BY <1>2, <3>1, Zenon
  <2>2. CASE k # Len(s) + 1
    <3>1. k \in 1 .. Len(s) /\ Append(s, o)[k] = s[k]
      BY <1>1, <1>2, <2>2
    <3>2. QED
      BY <1>2, <3>1, Zenon
  <2>3. QED
    BY <2>1, <2>2
<1>3. QED
  BY <1>1, <1>2

-----------------------------------------------------------------------------
(* Steps.                                                                  *)

\* A handler that is at an address has one of at most eight groups.
LEMMA GivenIs ==
  ASSUME EncInv, NEW h \in Handlers, AtAddress(h)
  PROVE  /\ Given(h) \in Seq(Word) /\ Given(h) \in Groups /\ Len(Given(h)) \in Nat \ {0}
         /\ asked[h] \in Policies
         /\ stage[h] = "source" => Given(h) = asked[h].classifier.src_ip6
         /\ stage[h] = "destination" => Given(h) = asked[h].classifier.dst_ip6
         /\ stage[h] = "subscriber" => Given(h) = asked[h].subscriber
<1>1. /\ asked[h] \in Policies
      /\ stage[h] \in {"source", "destination"} => asked[h].classifier.type = "ipv6"
      /\ stage[h] = "subscriber" => asked[h].version = 6
  BY DEF EncInv, AskedInv, AtAddress
<1>2. /\ stage[h] = "source" => Given(h) = asked[h].classifier.src_ip6
      /\ stage[h] = "destination" => Given(h) = asked[h].classifier.dst_ip6
      /\ stage[h] = "subscriber" => Given(h) = asked[h].subscriber
  BY DEF Given
<1>3. asked[h].classifier.type = "ipv6" =>
          asked[h].classifier.src_ip6 \in Groups /\ asked[h].classifier.dst_ip6 \in Groups
  BY <1>1, ClassifierIs DEF ClassifierOK, Holds
<1>4. Given(h) \in Groups
  BY <1>1, <1>2, <1>3, PolicyIs DEF AtAddress
<1>5. Given(h) \in Seq(Word) /\ Given(h) # <<>>
  BY <1>1, <1>4, PolicyIs
<1>6. Len(Given(h)) \in Nat \ {0}
  BY <1>5, EmptySeq
<1>7. QED
  BY <1>1, <1>2, <1>4, <1>5, <1>6

\* Those whose turn it is not are not disturbed, or not alone any more.
LEMMA Others ==
  ASSUME NEW g, AskedInv(g), OwnInv(g),
         stage'[g] = stage[g], asked'[g] = asked[g], packed'[g] = packed[g],
         body'[g] = body[g], groups'[g] = groups[g],
         alone'[g] => alone[g],
         alone'[g] /\ groups[g] > 0 => strtok' = strtok
  PROVE  AskedInv(g)' /\ OwnInv(g)'
<1>1. Given(g)' = Given(g) /\ Base(g)' = Base(g) /\ (AtAddress(g)' <=> AtAddress(g))
  BY DEF Given, Base, AtAddress
<1>2. AskedInv(g)'
  BY <1>1 DEF AskedInv
<1>3. alone'[g] /\ groups[g] > 0 => (Left(g)' <=> Left(g))
  BY <1>1 DEF Left
<1>4. WrittenSoFar(g)' <=> WrittenSoFar(g)
  BY <1>1 DEF WrittenSoFar
<1>5. (\A k \in 1 .. Len(packed[g]) : SaysOwn(packed[g][k], asked[g]))' <=>
          \A k \in 1 .. Len(packed[g]) : SaysOwn(packed[g][k], asked[g])
  BY Zenon
<1>6. OwnInv(g)'
  BY <1>1, <1>3, <1>4, <1>5 DEF OwnInv
<1>7. QED
  BY <1>2, <1>6

LEMMA CalledIs ==
  ASSUME EncInv, NEW h \in Handlers, Called(h)
  PROVE  /\ alone' \in [Handlers -> BOOLEAN]
         /\ alone'[h] = alone[h]
         /\ \A g \in Handlers : alone'[g] => alone[g]
         /\ \A g \in Handlers : g # h => (alone'[g] => groups[g] = 0)
BY DEF EncInv, EncShape, Called

\* Places of groups.
LEMMA Places ==
  ASSUME NEW b \in {0, 8}, NEW n \in Nat, NEW w \in 1 .. 8
  PROVE  /\ b + w \in 1 .. 16
         /\ n + 1 \in 1 .. 8 => b + n + 1 \in 1 .. 16
         /\ w = n + 1 => b + w = b + n + 1 /\ w <= n + 1
         /\ w # n + 1 => b + w # b + n + 1 /\ (w <= n + 1 <=> w <= n)
<1>1. CASE b = 0
  BY <1>1
<1>2. CASE b = 8
  BY <1>2
<1>3. QED
  BY <1>1, <1>2

\* One more of them is a number too.
LEMMA OneMore == \A n \in Nat : n + 1 \in Nat
OBVIOUS

\* A group is written in its place.
LEMMA WriteStep ==
  ASSUME EncInv, NEW h \in Handlers, AtAddress(h), NEW x \in Word,
         WriteGroup(h, x), strtok' \in Seq(Word), Called(h),
         UNCHANGED <<stage, asked, packed, begun>>,
         ShortGroups /\ alone[h] =>
             /\ groups[h] < Len(Given(h)) /\ x = Given(h)[groups[h] + 1]
             /\ Len(strtok') = Len(Given(h)) - (groups[h] + 1)
             /\ \A j \in 1 .. Len(strtok') : strtok'[j] = Given(h)[(groups[h] + 1) + j]
  PROVE  EncInv'
<1> DEFINE place == Base(h) + groups[h] + 1
<1>1. /\ groups[h] \in Nat /\ body[h] \in [1 .. 16 -> Word] /\ Base(h) \in {0, 8}
      /\ DOMAIN groups = Handlers /\ DOMAIN body = Handlers
  BY DEF EncInv, EncShape, Base
<1>2. /\ groups'[h] = groups[h] + 1
      /\ \A g \in Handlers : g # h => groups'[g] = groups[g] /\ body'[g] = body[g]
      /\ body'[h] = [body[h] EXCEPT ![place] = x]
  BY <1>1 DEF WriteGroup
<1>3. EncShape'
  <2>1. groups' \in [Handlers -> Nat]
    <3>1. groups' = [groups EXCEPT ![h] = groups[h] + 1] /\ groups \in [Handlers -> Nat]
      BY DEF EncInv, EncShape, WriteGroup
    <3>2. QED
      BY <1>1, <3>1, OneMore, Zenon
  <2>2. body' \in [Handlers -> [1 .. 16 -> Word]]
    BY DEF EncInv, EncShape, WriteGroup
  <2>3. alone' \in [Handlers -> BOOLEAN]
    BY CalledIs
  <2>4. QED
    BY <2>1, <2>2, <2>3 DEF EncInv, EncShape
<1>4. ASSUME NEW g \in Handlers, g # h PROVE AskedInv(g)' /\ OwnInv(g)'
  <2>1. AskedInv(g) /\ OwnInv(g)
    BY DEF EncInv
  <2>2. (alone'[g] => alone[g]) /\ (alone'[g] => groups[g] = 0)
    BY <1>4, CalledIs
  <2>3. ~(alone'[g] /\ groups[g] > 0)
    BY <2>2
  <2>4. QED
    BY <1>2, <1>4, <2>1, <2>2, <2>3, Others
<1>5. /\ Given(h)' = Given(h) /\ Base(h)' = Base(h) /\ AtAddress(h)'
      /\ stage'[h] = stage[h] /\ asked'[h] = asked[h] /\ packed'[h] = packed[h]
      /\ AskedInv(h) /\ OwnInv(h)
  BY DEF Given, Base, AtAddress, EncInv
<1>6. AskedInv(h)'
  BY <1>5 DEF AskedInv
<1>7. ASSUME ShortGroups, alone'[h] PROVE OwnInv(h)'
  <2>1. ShortGroups /\ alone[h]
    BY <1>7, CalledIs
  <2>2. Len(Given(h)) \in Nat /\ Len(Given(h)) <= 8 /\ groups[h] < Len(Given(h))
    BY <2>1, GivenIs DEF ShortGroups
  <2>3. Left(h)'
    BY <1>2, <1>5, <2>1 DEF Left
  <2>4. place \in 1 .. 16 /\ place = Base(h) + groups[h] + 1 /\ body'[h][place] = x
        /\ \A i \in 1 .. 16 : i # place => body'[h][i] = body[h][i]
    <3>1. place \in 1 .. 16
      <4>1. groups[h] + 1 \in 1 .. 8
        <5> DEFINE m == groups[h]
                   n == Len(Given(h))
        <5>1. m \in Nat /\ n \in Nat /\ n <= 8 /\ m < n
          BY <1>1, <2>2
        <5> HIDE DEF m, n
        <5>2. m + 1 \in 1 .. 8
          BY ONLY <5>1
        <5>3. QED
          BY <5>2 DEF m
      <4>2. QED
        BY <1>1, <4>1, Places
    <3> HIDE DEF place
    <3>2. body'[h][place] = x /\ \A i \in 1 .. 16 : i # place => body'[h][i] = body[h][i]
      BY <1>1, <1>2, <3>1
    <3>3. QED
      BY <3>1, <3>2 DEF place
  <2> HIDE DEF place
  <2>5. place = Base(h) + groups[h] + 1
    BY <2>4
  <2>6. \A w \in 1 .. 8 :
             /\ Base(h) + w \in 1 .. 16
             /\ w = groups[h] + 1 => Base(h) + w = Base(h) + groups[h] + 1 /\ w <= groups[h] + 1
             /\ w # groups[h] + 1 =>
                   Base(h) + w # Base(h) + groups[h] + 1 /\ (w <= groups[h] + 1 <=> w <= groups[h])
    BY ONLY <1>1, Places
  <2>7. WrittenSoFar(h)'
    <3>1. ASSUME NEW w \in 1 .. 8
          PROVE  body'[h][Base(h) + w] = IF w <= groups[h] + 1 THEN Given(h)[w] ELSE 0
      <4>1. body[h][Base(h) + w] = IF w <= groups[h] THEN Given(h)[w] ELSE 0
        BY <1>5, <2>1 DEF OwnInv, WrittenSoFar
      <4>2. CASE w = groups[h] + 1
        <5>1. Base(h) + w = place /\ w <= groups[h] + 1
          BY <2>5, <2>6, <4>2
        <5>2. body'[h][Base(h) + w] = x
          BY <2>4, <5>1
        <5>3. x = Given(h)[w]
          BY <2>1, <4>2
        <5>4. QED
          BY <5>1, <5>2, <5>3
      <4>3. CASE w # groups[h] + 1
        <5>1. Base(h) + w # place /\ Base(h) + w \in 1 .. 16 /\ (w <= groups[h] + 1 <=> w <= groups[h])
          BY <2>5, <2>6, <4>3
        <5>2. QED
          BY <2>4, <4>1, <5>1
      <4>4. QED
        BY <4>2, <4>3
    <3>2. QED
      BY <1>2, <1>5, <3>1 DEF WrittenSoFar
  <2>8. stage[h] = "source" => \A w \in 1 .. 8 : body'[h][8 + w] = 0
    <3>1. ASSUME stage[h] = "source", NEW w \in 1 .. 8 PROVE body'[h][8 + w] = 0
      <4>1. Base(h) = 0 /\ 8 + w # place /\ 8 + w \in 1 .. 16
        <5>1. Base(h) = 0 /\ Base(h) \in Int
          BY <3>1 DEF Base
        <5>2. groups[h] \in Nat /\ groups[h] < Len(Given(h)) /\ Len(Given(h)) <= 8 /\ Len(Given(h)) \in Nat
          BY <1>1, <2>2
        <5>3. place = 0 + groups[h] + 1
          BY <2>4, <5>1
        <5> DEFINE m == groups[h]
                   n == Len(Given(h))
        <5> HIDE DEF m, n
        <5>4. m \in Nat /\ n \in Nat /\ m < n /\ n <= 8 /\ place = 0 + m + 1
          BY <5>2, <5>3 DEF m, n
        <5>5. 8 + w # place /\ 8 + w \in 1 .. 16
          BY <5>4
        <5>6. QED
          BY <5>1, <5>5
      <4>2. body[h][8 + w] = 0
        BY <1>5, <2>1, <3>1 DEF OwnInv
      <4>3. QED
        BY <2>4, <4>1, <4>2
    <3>2. QED
      BY <3>1
  <2>9. stage[h] = "destination" =>
           \A w \in 1 .. 8 : body'[h][w] = Padded(asked[h].classifier.src_ip6)[w]
    <3>1. ASSUME stage[h] = "destination", NEW w \in 1 .. 8
          PROVE  body'[h][w] = Padded(asked[h].classifier.src_ip6)[w]
      <4>1. Base(h) = 8 /\ w # place /\ w \in 1 .. 16
        <5>1. Base(h) = 8 /\ place = 8 + groups[h] + 1 /\ groups[h] \in Nat
          BY <1>1, <2>4, <3>1 DEF Base
        <5>2. QED
          BY <5>1
      <4>2. body[h][w] = Padded(asked[h].classifier.src_ip6)[w]
        BY <1>5, <2>1, <3>1 DEF OwnInv
      <4>3. QED
        BY <2>4, <4>1, <4>2
    <3>2. QED
      BY <3>1
  <2>10. (\A k \in 1 .. Len(packed[h]) : SaysOwn(packed[h][k], asked[h]))'
    BY <1>5, <2>1 DEF OwnInv
  <2>11. QED
    BY <1>5, <2>3, <2>7, <2>8, <2>9, <2>10 DEF OwnInv
<1>8. OwnInv(h)'
  BY <1>7 DEF OwnInv
<1>9. QED
  BY <1>3, <1>4, <1>6, <1>8 DEF EncInv

\* strtok is given the handler's own address.
LEMMA FirstGroupStep ==
  ASSUME EncInv, NEW h \in Handlers, FirstGroup(h)
  PROVE  EncInv'
<1>1. /\ AtAddress(h) /\ groups[h] = 0 /\ WriteGroup(h, Head(Given(h)))
      /\ strtok' = Tail(Given(h)) /\ Called(h) /\ UNCHANGED <<stage, asked, packed, begun>>
  BY DEF FirstGroup
<1>2. Given(h) \in Seq(Word) /\ Len(Given(h)) \in Nat \ {0}
  BY <1>1, GivenIs
<1> DEFINE given == Given(h)
<1> HIDE DEF given
<1>3. /\ Head(given) \in Word /\ Head(given) = given[1]
      /\ Tail(given) \in Seq(Word) /\ Len(Tail(given)) = Len(given) - 1
      /\ \A j \in 1 .. Len(Tail(given)) : Tail(given)[j] = given[j + 1]
  <2>1. given \in Seq(Word) /\ given # <<>>
    BY <1>2, EmptySeq DEF given
  <2>2. QED
    BY <2>1, HeadTailProperties
<1>4. /\ groups[h] < Len(given) /\ Head(given) = given[groups[h] + 1]
      /\ Len(strtok') = Len(given) - (groups[h] + 1)
      /\ \A j \in 1 .. Len(strtok') : strtok'[j] = given[(groups[h] + 1) + j]
  <2>1. strtok' = Tail(given) /\ groups[h] = 0 /\ Len(given) \in Nat \ {0}
    BY <1>1, <1>2 DEF given
  <2>2. Len(strtok') \in Nat
    BY <1>3, <2>1
  <2>3. \A j \in 1 .. Len(strtok') : strtok'[j] = given[(groups[h] + 1) + j]
    <3> TAKE j \in 1 .. Len(strtok')
    <3>1. (groups[h] + 1) + j = j + 1
      BY <2>1, <2>2
    <3>2. QED
      BY <1>3, <2>1, <3>1
  <2>4. QED
    BY <1>3, <2>1, <2>3
<1>5. QED
  BY <1>1, <1>3, <1>4, WriteStep DEF given

LEMMA NextGroupStep ==
  ASSUME EncInv, NEW h \in Handlers, NextGroup(h)
  PROVE  EncInv'
<1>1. /\ groups[h] > 0 /\ strtok # <<>> /\ WriteGroup(h, Head(strtok))
      /\ strtok' = Tail(strtok) /\ Called(h) /\ UNCHANGED <<stage, asked, packed, begun>>
  BY DEF NextGroup
<1>2. groups[h] \in Nat /\ AtAddress(h) /\ strtok \in Seq(Word) /\ OwnInv(h)
  BY <1>1 DEF EncInv, EncShape, AskedInv
<1>3. /\ Head(strtok) \in Word /\ Head(strtok) = strtok[1] /\ Len(strtok) \in Nat \ {0}
      /\ strtok' \in Seq(Word) /\ Len(strtok') = Len(strtok) - 1
      /\ \A j \in 1 .. Len(strtok') : strtok'[j] = strtok[j + 1]
  BY <1>1, <1>2, HeadTailProperties, EmptySeq
<1>4. Len(Given(h)) \in Nat
  BY <1>2, GivenIs
<1>5. ASSUME ShortGroups, alone[h]
      PROVE  /\ groups[h] < Len(Given(h)) /\ Head(strtok) = Given(h)[groups[h] + 1]
             /\ Len(strtok') = Len(Given(h)) - (groups[h] + 1)
             /\ \A j \in 1 .. Len(strtok') : strtok'[j] = Given(h)[(groups[h] + 1) + j]
  <2>1. /\ Len(strtok) = Len(Given(h)) - groups[h]
        /\ \A j \in 1 .. Len(strtok) : strtok[j] = Given(h)[groups[h] + j]
    BY <1>1, <1>2, <1>5 DEF OwnInv, Left
  <2>2. \A j \in 1 .. Len(strtok') : strtok'[j] = Given(h)[(groups[h] + 1) + j]
    <3> TAKE j \in 1 .. Len(strtok')
    <3>1. j + 1 \in 1 .. Len(strtok) /\ groups[h] + (j + 1) = (groups[h] + 1) + j
      BY <1>2, <1>3
    <3>2. strtok[j + 1] = Given(h)[groups[h] + (j + 1)]
      BY <2>1, <3>1
    <3>3. QED
      BY <1>3, <3>1, <3>2
  <2>3. Head(strtok) = Given(h)[groups[h] + 1]
    BY <1>3, <2>1
  <2>4. groups[h] < Len(Given(h)) /\ Len(strtok') = Len(Given(h)) - (groups[h] + 1)
    <3> DEFINE n == Len(Given(h))
               m == groups[h]
               l == Len(strtok)
    <3>1. l = n - m /\ n \in Nat /\ m \in Nat /\ l \in Nat \ {0} /\ Len(strtok') = l - 1
      BY <1>2, <1>3, <1>4, <2>1
    <3> HIDE DEF n, m, l
    <3>2. m < n /\ Len(strtok') = n - (m + 1)
      BY <3>1
    <3>3. QED
      BY <3>2 DEF n, m
  <2>5. QED
    BY <2>2, <2>3, <2>4
<1>6. QED
  BY <1>1, <1>2, <1>3, <1>5, WriteStep

-----------------------------------------------------------------------------
\* A step of one handler that leaves strtok alone.
LEMMA OnlyMine ==
  ASSUME EncInv, NEW h \in Handlers, EncShape', strtok' = strtok,
         \A g \in Handlers : g # h =>
             /\ stage'[g] = stage[g] /\ asked'[g] = asked[g] /\ packed'[g] = packed[g]
             /\ body'[g] = body[g] /\ groups'[g] = groups[g] /\ (alone'[g] => alone[g]),
         AskedInv(h)', OwnInv(h)'
  PROVE  EncInv'
<1>1. ASSUME NEW g \in Handlers, g # h PROVE AskedInv(g)' /\ OwnInv(g)'
  <2>1. AskedInv(g) /\ OwnInv(g)
    BY DEF EncInv
  <2>2. QED
    BY <1>1, <2>1, Others
<1>2. QED
  BY <1>1 DEF EncInv

\* An object is written and the next stage is no address of a classifier.
LEMMA PackStep ==
  ASSUME EncInv, NEW h \in Handlers, NEW o \in Packets, stage[h] # "idle",
         NEW next \in {"classifier", "gate", "ready", "subscriber"},
         next = "subscriber" => asked[h].version = 6,
         Pack(h, o), Goto(h, next), ShortGroups /\ alone[h] => SaysOwn(o, asked[h]),
         UNCHANGED <<asked, strtok, begun>>,
         groups' = [groups EXCEPT ![h] = 0], body' = [body EXCEPT ![h] = Zeros],
         alone' \in [Handlers -> BOOLEAN], \A g \in Handlers : alone'[g] => alone[g]
  PROVE  EncInv'
<1>1. EncShape /\ AskedInv(h) /\ OwnInv(h)
  BY DEF EncInv
<1>2. /\ stage'[h] = next /\ packed'[h] = Append(packed[h], o) /\ groups'[h] = 0 /\ body'[h] = Zeros
      /\ asked'[h] = asked[h] /\ packed[h] \in Seq(Packets)
  BY <1>1 DEF EncShape, Goto, Pack
<1>3. Append(packed[h], o) \in Seq(Packets)
  BY <1>2, Packing
<1>4. Zeros \in [1 .. 16 -> Word] /\ \A w \in 1 .. 16 : Zeros[w] = 0
  BY WordInts DEF Zeros
<1>5. EncShape'
  <2>1. stage' \in [Handlers -> Stages]
    BY <1>1 DEF EncShape, Goto, Stages
  <2>2. packed' \in [Handlers -> Seq(Packets)]
    BY <1>1, <1>3 DEF EncShape, Pack
  <2>3. body' \in [Handlers -> [1 .. 16 -> Word]] /\ groups' \in [Handlers -> Nat]
    BY <1>1, <1>4 DEF EncShape
  <2>4. QED
    BY <1>1, <2>1, <2>2, <2>3 DEF EncShape
<1>6. AskedInv(h)'
  BY <1>1, <1>2 DEF AskedInv, AtAddress
<1>7. ASSUME ShortGroups, alone'[h] PROVE OwnInv(h)'
  <2>1. ShortGroups /\ alone[h]
    BY <1>7
  <2>2. \A k \in 1 .. Len(packed'[h]) : SaysOwn(packed'[h][k], asked[h])
    BY <1>1, <1>2, <2>1, Packing DEF OwnInv
  <2>3. WrittenSoFar(h)'
    <3>1. Base(h)' = 0
      BY <1>2 DEF Base
    <3>2. \A w \in 1 .. 8 : body'[h][0 + w] = 0 /\ ~(w <= groups'[h])
      <4> TAKE w \in 1 .. 8
      <4>1. 0 + w \in 1 .. 16 /\ ~(w <= 0)
        OBVIOUS
      <4>2. QED
        BY <1>2, <1>4, <4>1
    <3>3. QED
      BY <3>1, <3>2 DEF WrittenSoFar
  <2>4. QED
    BY <1>2, <2>2, <2>3 DEF OwnInv
<1>8. OwnInv(h)'
  BY <1>7 DEF OwnInv
<1>9. \A g \in Handlers : g # h =>
          /\ stage'[g] = stage[g] /\ asked'[g] = asked[g] /\ packed'[g] = packed[g]
          /\ body'[g] = body[g] /\ groups'[g] = groups[g] /\ (alone'[g] => alone[g])
  BY <1>1 DEF EncShape, Goto, Pack
<1>10. QED
  BY <1>5, <1>6, <1>8, <1>9, OnlyMine

\* Nothing of an address is written when no address is due.
LEMMA QuietIs ==
  ASSUME EncInv, NEW h \in Handlers, ~AtAddress(h)
  PROVE  /\ groups = [groups EXCEPT ![h] = 0] /\ body = [body EXCEPT ![h] = Zeros]
         /\ alone \in [Handlers -> BOOLEAN]
BY DEF EncInv, EncShape, AskedInv

LEMMA PackEnvelopeStep ==
  ASSUME EncInv, NEW h \in Handlers, PackEnvelope(h)
  PROVE  EncInv'
<1> DEFINE o == IF asked[h].profile = "scn"
                THEN ScnEnvelope(asked[h].name \o <<0>> \o Behind, Len(asked[h].name))
                ELSE FlowSpecEnvelope(asked[h].service_number)
<1>1. /\ stage[h] = "envelope" /\ Pack(h, o) /\ Goto(h, "classifier")
      /\ UNCHANGED <<asked, body, groups, strtok, begun, alone>>
  BY DEF PackEnvelope
<1>2. asked[h] \in Policies /\ ~AtAddress(h)
  BY <1>1 DEF EncInv, AskedInv, AtAddress
<1>3. o \in Packets /\ o.kind \in {FlowSpec, ServiceClassName}
  <2>1. CASE asked[h].profile = "scn"
    BY <1>2, <2>1, PolicyIs, ScnPacket
  <2>2. CASE asked[h].profile # "scn"
    BY <1>2, <2>2, PolicyIs, FlowSpecPacket
  <2>3. QED
    BY <2>1, <2>2
<1> HIDE DEF o
<1>4. SaysOwn(o, asked[h])
  BY <1>3, KindsDiffer DEF SaysOwn
<1>5. QED
  BY <1>1, <1>2, <1>3, <1>4, QuietIs, PackStep

LEMMA PackClassifierStep ==
  ASSUME EncInv, NEW h \in Handlers, PackClassifier(h)
  PROVE  EncInv'
<1>1. stage[h] = "classifier" /\ UNCHANGED <<asked, body, groups, strtok, begun, alone>>
  BY DEF PackClassifier
<1>2. asked[h] \in Policies /\ ~AtAddress(h) /\ AskedInv(h) /\ OwnInv(h) /\ EncShape
  BY <1>1 DEF EncInv, AskedInv, AtAddress
<1> DEFINE c == Classifier(h)
<1>3. /\ ClassifierOK(c) /\ c.type \in {"legacy", "extended", "ipv6"}
      /\ c.type = asked[h].classifier.type
  BY <1>2, ClassifierIs DEF ClassifierOK, Holds
<1>4. CASE c.type = "legacy"
  <2>1. Pack(h, LegacyClassifier(c)) /\ Goto(h, "gate")
    BY <1>4 DEF PackClassifier
  <2> HIDE DEF c
  <2>2. LegacyClassifier(c) \in Packets /\ SaysOwn(LegacyClassifier(c), asked[h])
    BY <1>3, <1>4, LegacyPacket, KindsDiffer DEF SaysOwn
  <2>3. QED
    BY <1>1, <1>2, <2>1, <2>2, QuietIs, PackStep
<1>5. CASE c.type = "extended"
  <2>1. Pack(h, ExtendedClassifier(c)) /\ Goto(h, "gate")
    BY <1>5 DEF PackClassifier
  <2> HIDE DEF c
  <2>2. ExtendedClassifier(c) \in Packets /\ SaysOwn(ExtendedClassifier(c), asked[h])
    BY <1>3, <1>5, ExtendedPacket, KindsDiffer DEF SaysOwn
  <2>3. QED
    BY <1>1, <1>2, <2>1, <2>2, QuietIs, PackStep
<1>6. CASE c.type = "ipv6"
  <2>1. Goto(h, "source") /\ UNCHANGED packed
    BY <1>6 DEF PackClassifier
  <2>2. /\ stage'[h] = "source" /\ asked[h].classifier.type = "ipv6"
        /\ groups[h] = 0 /\ body[h] = Zeros /\ \A w \in 1 .. 16 : Zeros[w] = 0
    BY <1>2, <1>3, <1>6, <2>1 DEF EncShape, Goto, AskedInv, Zeros
  <2>3. EncShape'
    BY <1>1, <1>2, <2>1 DEF EncShape, Goto, Stages
  <2>4. AskedInv(h)'
    BY <1>1, <1>2, <2>1, <2>2 DEF AskedInv, AtAddress
  <2>5. ASSUME ShortGroups, alone'[h] PROVE OwnInv(h)'
    <3>1. ShortGroups /\ alone[h]
      BY <1>1, <2>5
    <3>2. \A w \in 1 .. 8 : body[h][0 + w] = 0 /\ body[h][8 + w] = 0 /\ ~(w <= groups[h])
      BY <2>2
    <3>3. WrittenSoFar(h)'
      <4>1. Base(h)' = 0
        BY <2>2 DEF Base
      <4>2. QED
        BY <1>1, <3>2, <4>1 DEF WrittenSoFar
    <3>4. \A k \in 1 .. Len(packed[h]) : SaysOwn(packed[h][k], asked[h])
      BY <1>2, <3>1 DEF OwnInv
    <3>5. /\ ~(groups'[h] > 0) /\ stage'[h] # "destination"
          /\ body'[h] = body[h] /\ asked'[h] = asked[h] /\ packed'[h] = packed[h]
      BY <1>1, <2>1, <2>2
    <3>6. QED
      BY <3>2, <3>3, <3>4, <3>5 DEF OwnInv
  <2>6. OwnInv(h)'
    BY <2>5 DEF OwnInv
  <2>7. \A g \in Handlers : g # h => stage'[g] = stage[g]
    BY <1>2, <2>1 DEF EncShape, Goto
  <2>8. QED
    BY <1>1, <2>1, <2>3, <2>4, <2>6, <2>7, OnlyMine
<1>7. QED
  BY <1>3, <1>4, <1>5, <1>6

LEMMA PackSpecStep ==
  ASSUME EncInv, NEW h \in Handlers, NEW left \in Leftover, PackSpec(h, left)
  PROVE  EncInv'
<1> DEFINE o == Gate(asked[h].gate, left.priority, left.preemption)
           next == IF asked[h].version = 6 THEN "subscriber" ELSE "ready"
<1>1. /\ stage[h] = "gate" /\ Pack(h, o) /\ Goto(h, next)
      /\ UNCHANGED <<asked, body, groups, strtok, begun, alone>>
  BY DEF PackSpec
<1>2. asked[h] \in Policies /\ ~AtAddress(h)
  BY <1>1 DEF EncInv, AskedInv, AtAddress
<1>3. o \in Packets /\ o.kind = GateSpec
  <2>1. left.priority \in Int /\ left.preemption \in Int /\ Holds(asked[h].gate, GateFields, Int)
    BY <1>2, PolicyIs, PoliciesAssumption
  <2>2. QED
    BY <2>1, GatePacket
<1> HIDE DEF o
<1>4. SaysOwn(o, asked[h])
  BY <1>3, KindsDiffer DEF SaysOwn
<1>5. next \in {"classifier", "gate", "ready", "subscriber"} /\ (next = "subscriber" => asked[h].version = 6)
  OBVIOUS
<1> HIDE DEF next
<1>6. QED
  BY <1>1, <1>2, <1>3, <1>4, <1>5, QuietIs, PackStep

\* The address is complete: what is written of it is all of it.
LEMMA LastGroupStep ==
  ASSUME EncInv, NEW h \in Handlers, LastGroup(h)
  PROVE  EncInv'
<1>1. groups[h] > 0 /\ strtok = <<>> /\ groups' = [groups EXCEPT ![h] = 0] /\ Called(h)
      /\ UNCHANGED <<asked, strtok, begun>>
  BY DEF LastGroup
<1>2. AtAddress(h) /\ AskedInv(h) /\ OwnInv(h) /\ EncShape /\ groups[h] \in Nat /\ body[h] \in [1 .. 16 -> Word]
  <2>1. AskedInv(h) /\ OwnInv(h) /\ EncShape
    BY DEF EncInv
  <2>2. AtAddress(h)
    BY <1>1, <2>1 DEF AskedInv
  <2>3. groups[h] \in Nat /\ body[h] \in [1 .. 16 -> Word]
    BY <2>1 DEF EncShape
  <2>4. QED
    BY <2>1, <2>2, <2>3
<1>3. alone' \in [Handlers -> BOOLEAN] /\ \A g \in Handlers : alone'[g] => alone[g]
  BY <1>1, CalledIs
<1>4. /\ Given(h) \in Seq(Word) /\ Len(Given(h)) \in Nat /\ asked[h] \in Policies
      /\ stage[h] = "source" => Given(h) = asked[h].classifier.src_ip6
      /\ stage[h] = "destination" => Given(h) = asked[h].classifier.dst_ip6
      /\ stage[h] = "subscriber" => Given(h) = asked[h].subscriber
  BY <1>2, GivenIs
<1>5. ASSUME ShortGroups, alone[h]
      PROVE  \A w \in 1 .. 8 : body[h][Base(h) + w] = IF w <= Len(Given(h)) THEN Given(h)[w] ELSE 0
  <2>1. Len(strtok) = Len(Given(h)) - groups[h] /\ Len(strtok) = 0
    BY <1>1, <1>2, <1>5 DEF OwnInv, Left
  <2> DEFINE n == Len(Given(h))
             m == groups[h]
  <2>2. 0 = n - m /\ n \in Nat /\ m \in Nat
    BY <1>2, <1>4, <2>1
  <2> HIDE DEF n, m
  <2>3. m = n
    BY <2>2
  <2>4. groups[h] = Len(Given(h))
    BY <2>3 DEF m, n
  <2>5. QED
    BY <1>2, <1>5, <2>4 DEF OwnInv, WrittenSoFar
<1>6. CASE stage[h] = "source"
  <2>1. Goto(h, "destination") /\ UNCHANGED <<packed, body>>
    BY <1>6 DEF LastGroup
  <2>2. stage'[h] = "destination" /\ groups'[h] = 0
    BY <1>1, <1>2, <2>1 DEF EncShape, Goto
  <2>3. EncShape'
    BY <1>1, <1>2, <1>3, <2>1 DEF EncShape, Goto, Stages
  <2>4. AskedInv(h)'
    BY <1>1, <1>2, <1>6, <2>1, <2>2 DEF AskedInv, AtAddress
  <2>5. ASSUME ShortGroups, alone'[h] PROVE OwnInv(h)'
    <3>1. ShortGroups /\ alone[h]
      BY <1>3, <2>5
    <3>2. \A w \in 1 .. 8 : body[h][8 + w] = 0 /\ ~(w <= 0)
      <4>1. \A w \in 1 .. 8 : body[h][8 + w] = 0
        BY <1>2, <1>6, <3>1 DEF OwnInv
      <4>2. \A w \in 1 .. 8 : ~(w <= 0)
        OBVIOUS
      <4>3. QED
        BY <4>1, <4>2, Zenon
    <3>3. WrittenSoFar(h)'
      <4>1. Base(h)' = 8
        BY <2>2 DEF Base
      <4>2. QED
        BY <2>1, <2>2, <3>2, <4>1 DEF WrittenSoFar
    <3>4. \A w \in 1 .. 8 : body[h][w] = Padded(asked[h].classifier.src_ip6)[w]
      <4>1. Base(h) = 0 /\ Given(h) = asked[h].classifier.src_ip6
        BY <1>4, <1>6 DEF Base
      <4>2. ASSUME NEW w \in 1 .. 8
            PROVE  body[h][w] = IF w <= Len(Given(h)) THEN Given(h)[w] ELSE 0
        <5>1. body[h][Base(h) + w] = IF w <= Len(Given(h)) THEN Given(h)[w] ELSE 0
          BY <1>5, <3>1, ZenonT(30)
        <5>2. Base(h) + w = w
          BY <4>1
        <5>3. QED
          BY ONLY <5>1, <5>2
      <4>3. QED
        BY <4>1, <4>2, ZenonT(30) DEF Padded
    <3>5. \A k \in 1 .. Len(packed[h]) : SaysOwn(packed[h][k], asked[h])
      BY <1>2, <3>1 DEF OwnInv
    <3>6. /\ ~(groups'[h] > 0) /\ stage'[h] # "source"
          /\ body'[h] = body[h] /\ asked'[h] = asked[h] /\ packed'[h] = packed[h]
      BY <1>1, <2>1, <2>2
    <3>7. QED
      BY <3>3, <3>4, <3>5, <3>6 DEF OwnInv
  <2>6. OwnInv(h)'
    BY <2>5 DEF OwnInv
  <2>7. \A g \in Handlers : g # h => stage'[g] = stage[g] /\ groups'[g] = groups[g]
    BY <1>1, <1>2, <2>1 DEF EncShape, Goto
  <2>8. QED
    BY <1>1, <1>3, <2>1, <2>3, <2>4, <2>6, <2>7, OnlyMine
<1>7. CASE stage[h] = "destination"
  <2> DEFINE c == Classifier(h)
             o == IPv6Classifier(c, SubSeq(body[h], 1, 16))
  <2>1. body' = [body EXCEPT ![h] = Zeros] /\ Pack(h, o) /\ Goto(h, "gate")
    BY <1>7 DEF LastGroup
  <2>2. ClassifierOK(c) /\ c.type = "ipv6"
    BY <1>2, <1>4, <1>7, ClassifierIs DEF AskedInv
  <2> HIDE DEF c
  <2>3. /\ o \in Packets /\ o.kind = IPv6
        /\ SubSeq(o.body, 7, 14) = SubSeq(body[h], 1, 8)
        /\ SubSeq(o.body, 15, 22) = SubSeq(body[h], 9, 16)
    BY <1>2, <2>2, IPv6Packet
  <2> HIDE DEF o
  <2>4. ASSUME ShortGroups, alone[h] PROVE SaysOwn(o, asked[h])
    <3>1. PICK src \in Seq(Word) : src = asked[h].classifier.src_ip6
      <4>1. asked[h].classifier.src_ip6 \in Groups
        BY <1>2, <1>4, <1>7, ClassifierIs DEF AskedInv, ClassifierOK, Holds
      <4>2. QED
        BY <1>4, <4>1, PolicyIs
    <3>2. SubSeq(body[h], 1, 8) = Padded(src)
      <4>1. \A w \in 1 .. 8 : body[h][w] = Padded(src)[w]
        BY <1>2, <1>7, <2>4, <3>1 DEF OwnInv
      <4>2. \A w \in 1 .. 8 : body[h][0 + w] = IF w <= Len(src) THEN src[w] ELSE 0
        <5>1. ASSUME NEW w \in 1 .. 8 PROVE body[h][w] = IF w <= Len(src) THEN src[w] ELSE 0
          BY ONLY <4>1, w \in 1 .. 8 DEF Padded
        <5>2. \A w \in 1 .. 8 : 0 + w = w
          OBVIOUS
        <5>3. QED
          BY ONLY <5>1, <5>2
      <4>3. SubSeq(body[h], 0 + 1, 0 + 8) = Padded(src)
        BY <1>2, <4>2, PaddedIs
      <4>4. QED
        BY <4>3
    <3>3. SubSeq(body[h], 9, 16) = Padded(asked[h].classifier.dst_ip6)
      <4>1. Base(h) = 8 /\ Given(h) = asked[h].classifier.dst_ip6
        BY <1>4, <1>7 DEF Base
      <4>2. \A w \in 1 .. 8 :
               body[h][8 + w] = IF w <= Len(Given(h)) THEN Given(h)[w] ELSE 0
        BY <1>5, <2>4, <4>1
      <4>3. SubSeq(body[h], 8 + 1, 8 + 8) = Padded(Given(h))
        <5> DEFINE given == Given(h)
        <5>1. given \in Seq(Word) /\ \A w \in 1 .. 8 :
                 body[h][8 + w] = IF w <= Len(given) THEN given[w] ELSE 0
          BY <1>4, <4>2
        <5> HIDE DEF given
        <5>2. SubSeq(body[h], 8 + 1, 8 + 8) = Padded(given)
          BY <1>2, <5>1, PaddedIs
        <5>3. QED
          BY <5>2 DEF given
      <4>4. 8 + 1 = 9 /\ 8 + 8 = 16
        OBVIOUS
      <4>5. QED
        BY <4>1, <4>3, <4>4
    <3>4. QED
      BY <2>3, <3>1, <3>2, <3>3, KindsDiffer DEF SaysOwn
  <2>5. stage[h] # "idle" /\ "gate" \in {"classifier", "gate", "ready", "subscriber"}
    BY <1>7
  <2>6. QED
    BY <1>1, <1>3, <2>1, <2>3, <2>4, <2>5, PackStep
<1>8. CASE stage[h] = "subscriber"
  <2> DEFINE o == SubscriberId6(SubSeq(body[h], 1, 8))
  <2>1. body' = [body EXCEPT ![h] = Zeros] /\ Pack(h, o) /\ Goto(h, "ready")
    BY <1>8 DEF LastGroup
  <2>2. o \in Packets /\ o.kind = Kind(3, 2) /\ o.body = SubSeq(body[h], 1, 8)
    BY <1>2, SubscriberPacket
  <2> HIDE DEF o
  <2>3. ASSUME ShortGroups, alone[h] PROVE SaysOwn(o, asked[h])
    <3>1. Base(h) = 0 /\ Given(h) = asked[h].subscriber
      BY <1>4, <1>8 DEF Base
    <3>2. SubSeq(body[h], 0 + 1, 0 + 8) = Padded(Given(h))
      BY <1>2, <1>4, <1>5, <2>3, <3>1, PaddedIs
    <3>3. SubSeq(body[h], 1, 8) = Padded(asked[h].subscriber)
      BY <3>1, <3>2
    <3>4. QED
      BY <2>2, <3>3, KindsDiffer DEF SaysOwn
  <2>4. QED
    BY <1>1, <1>3, <1>8, <2>1, <2>2, <2>3, PackStep
<1>9. QED
  BY <1>2, <1>6, <1>7, <1>8 DEF AtAddress

LEMMA BeginStep ==
  ASSUME EncInv, NEW h \in Handlers, NEW p \in Policies, Begin(h, p)
  PROVE  EncInv'
<1>1. /\ stage[h] = "idle" /\ begun < MaxBegun /\ begun' = begun + 1
      /\ asked' = [asked EXCEPT ![h] = p] /\ Goto(h, "envelope")
      /\ UNCHANGED <<packed, body, groups, strtok, alone>>
  BY DEF Begin
<1>2. EncShape /\ AskedInv(h) /\ ~AtAddress(h)
  BY <1>1 DEF EncInv, AtAddress
<1>3. packed[h] = <<>> /\ groups[h] = 0 /\ body[h] = Zeros /\ stage'[h] = "envelope" /\ asked'[h] = p
  BY <1>1, <1>2 DEF EncShape, AskedInv, Goto
<1>4. EncShape'
  <2>1. begun' \in 0 .. MaxBegun
    <3>1. MaxBegun \in Nat
      BY PoliciesAssumption
    <3>2. begun \in 0 .. MaxBegun
      BY <1>2 DEF EncShape
    <3>3. QED
      BY <1>1, <3>1, <3>2
  <2>2. stage' \in [Handlers -> Stages] /\ DOMAIN asked' = Handlers
    BY <1>1, <1>2 DEF EncShape, Goto, Stages
  <2>3. QED
    BY <1>1, <1>2, <2>1, <2>2 DEF EncShape
<1>5. AskedInv(h)' /\ OwnInv(h)'
  BY <1>1, <1>3 DEF AskedInv, OwnInv, AtAddress
<1>6. \A g \in Handlers : g # h => stage'[g] = stage[g] /\ asked'[g] = asked[g]
  BY <1>1, <1>2 DEF EncShape, Goto
<1>7. QED
  BY <1>1, <1>4, <1>5, <1>6, OnlyMine

LEMMA DoneStep ==
  ASSUME EncInv, NEW h \in Handlers, Done(h)
  PROVE  EncInv'
<1>1. /\ stage[h] = "ready" /\ Goto(h, "idle")
      /\ asked' = [asked EXCEPT ![h] = NotAsked]
      /\ packed' = [packed EXCEPT ![h] = <<>>]
      /\ alone' = [alone EXCEPT ![h] = TRUE]
      /\ begun' \in {0, begun}
      /\ UNCHANGED <<body, groups, strtok>>
  BY DEF Done
<1>2. EncShape /\ AskedInv(h) /\ ~AtAddress(h)
  BY <1>1 DEF EncInv, AtAddress
<1>3. packed'[h] = <<>> /\ groups[h] = 0 /\ body[h] = Zeros /\ stage'[h] = "idle"
  BY <1>1, <1>2 DEF EncShape, AskedInv, Goto
<1>4. EncShape'
  <2>1. begun' \in 0 .. MaxBegun
    <3>1. MaxBegun \in Nat
      BY PoliciesAssumption
    <3>2. begun \in 0 .. MaxBegun
      BY <1>2 DEF EncShape
    <3>3. QED
      BY <1>1, <3>1, <3>2
  <2>2. stage' \in [Handlers -> Stages] /\ DOMAIN asked' = Handlers
    BY <1>1, <1>2 DEF EncShape, Goto, Stages
  <2>3. packed' \in [Handlers -> Seq(Packets)]
    <3>1. <<>> \in Seq(Packets) /\ packed \in [Handlers -> Seq(Packets)]
      BY <1>2 DEF EncShape
    <3>2. QED
      BY <1>1, <3>1
  <2>4. alone' \in [Handlers -> BOOLEAN]
    BY <1>1, <1>2 DEF EncShape
  <2>5. QED
    BY <1>1, <1>2, <2>1, <2>2, <2>3, <2>4 DEF EncShape
<1>5. AskedInv(h)' /\ OwnInv(h)'
  BY <1>1, <1>3 DEF AskedInv, OwnInv, AtAddress
<1>6. \A g \in Handlers : g # h =>
          /\ stage'[g] = stage[g] /\ asked'[g] = asked[g] /\ packed'[g] = packed[g]
          /\ (alone'[g] => alone[g])
  BY <1>1, <1>2 DEF EncShape, Goto
<1>7. QED
  BY <1>1, <1>4, <1>5, <1>6, OnlyMine

LEMMA EncInvInit == EncodeInit => EncInv
<1> SUFFICES ASSUME EncodeInit PROVE EncInv
  OBVIOUS
<1>1. EncShape
  BY PoliciesAssumption, WordInts DEF EncodeInit, EncShape, Stages, Zeros
<1>2. ASSUME NEW h \in Handlers PROVE AskedInv(h) /\ OwnInv(h)
  <2>1. /\ stage[h] = "idle" /\ packed[h] = <<>> /\ groups[h] = 0 /\ body[h] = Zeros
    BY DEF EncodeInit
  <2>2. QED
    BY <2>1 DEF AskedInv, OwnInv, AtAddress
<1>3. QED
  BY <1>1, <1>2 DEF EncInv

LEMMA EncStep == EncInv /\ [EncodeNext]_encode_vars => EncInv'
<1> SUFFICES ASSUME EncInv, [EncodeNext]_encode_vars PROVE EncInv'
  OBVIOUS
<1>1. CASE UNCHANGED encode_vars
  <2>1. EncShape'
    BY <1>1 DEF EncInv, EncShape, encode_vars
  <2>2. ASSUME NEW h \in Handlers PROVE AskedInv(h)' /\ OwnInv(h)'
    <3>1. AskedInv(h) /\ OwnInv(h)
      BY DEF EncInv
    <3>2. QED
      BY <1>1, <3>1, Others DEF encode_vars
  <2>3. QED
    BY <2>1, <2>2 DEF EncInv
<1>2. CASE EncodeNext
  <2>1. PICK h \in Handlers :
            \/ \E p \in Policies : Begin(h, p)
            \/ \E left \in Leftover : PackSpec(h, left)
            \/ PackEnvelope(h) \/ PackClassifier(h)
            \/ FirstGroup(h) \/ NextGroup(h) \/ LastGroup(h)
            \/ Done(h)
    BY <1>2 DEF EncodeNext
  <2>2. QED
    BY <2>1, BeginStep, PackSpecStep, PackEnvelopeStep, PackClassifierStep, FirstGroupStep,
       NextGroupStep, LastGroupStep, DoneStep
<1>3. QED
  BY <1>1, <1>2

\* What the handlers have written are objects of the lengths that their kinds
\* have, whoever disturbed whom, and of a handler that was left alone the words
\* written of an address are the first groups of its own, and those that strtok
\* has still to give the rest of them.  (pack_ip6)
THEOREM EncodeInvariant == EncodeSpec => []EncInv
<1>1. EncInv /\ [EncodeNext]_encode_vars => EncInv'
  BY EncStep
<1>2. QED
  BY <1>1, EncInvInit, PTL DEF EncodeSpec

\* Every word of an object that is in hand is one of 16 bits.
LEMMA EncTypes == EncInv => EncodeTypeOK
<1> SUFFICES ASSUME EncInv PROVE EncodeTypeOK
  OBVIOUS
<1>1. ASSUME NEW h \in Handlers, NEW k \in 1 .. Len(packed[h])
      PROVE  packed[h][k].body \in [1 .. BodyLength(packed[h][k].kind) -> Word]
  <2>1. packed[h] \in Seq(Packets)
    BY DEF EncInv, EncShape
  <2>2. packed[h][k] \in Packets
    BY <1>1, <2>1, ElementOfSeq
  <2>3. QED
    BY <2>2, LenProperties DEF Packets
<1>2. QED
  BY <1>1 DEF EncInv, EncShape, EncodeTypeOK

\* The words of the objects fit the objects and the fields of 16 bits.
THEOREM EncodeTypes == EncodeSpec => []EncodeTypeOK
BY EncTypes, EncodeInvariant, PTL

\* A handler that was not disturbed has written the addresses it was asked to
\* write, whatever other requests wrote and whatever strtok was left with: the
\* two of an IPv6 classifier and the one of the subscriber.  (pack_ip6, called
\* by pcmm_ipv6_classifier and ps_proxy)
THEOREM OwnAddressHolds == ShortGroups => (EncodeSpec => []OwnAddress)
<1> SUFFICES ASSUME ShortGroups PROVE EncodeSpec => []OwnAddress
  OBVIOUS
<1>1. EncInv => OwnAddress
  BY DEF EncInv, OwnInv, SaysOwn, OwnAddress
<1>2. QED
  BY <1>1, EncodeInvariant, PTL

-----------------------------------------------------------------------------
(***************************************************************************)
(* What the objects say (GateEncoding), by their bytes.                     *)
(***************************************************************************)

Envelope(p) ==
    IF p.profile = "scn" THEN ScnEnvelope(p.name \o <<0>> \o Behind, Len(p.name))
                         ELSE FlowSpecEnvelope(p.service_number)

IsClassifier(o, c) ==
    /\ c.type = "legacy" => o = LegacyClassifier(c)
    /\ c.type = "extended" => o = ExtendedClassifier(c)
    /\ c.type = "ipv6" => \E words \in [1 .. 16 -> Word] : o = IPv6Classifier(c, SubSeq(words, 1, 16))

IsGate(o, g) == \E left \in Leftover : o = Gate(g, left.priority, left.preemption)

\* The objects a handler has written are those of what it was asked to send.
SaidInv(h) ==
    /\ stage[h] \in {"idle", "envelope"} => Len(packed[h]) = 0
    /\ stage[h] \in {"classifier", "source", "destination"} => Len(packed[h]) = 1
    /\ stage[h] = "gate" => Len(packed[h]) = 2
    /\ stage[h] = "subscriber" => Len(packed[h]) = 3 /\ asked[h].version = 6
    /\ stage[h] = "ready" => Len(packed[h]) = IF asked[h].version = 6 THEN 4 ELSE 3
    /\ Len(packed[h]) >= 1 => packed[h][1] = Envelope(asked[h])
    /\ Len(packed[h]) >= 2 => IsClassifier(packed[h][2], Classifier(h))
    /\ Len(packed[h]) >= 3 => IsGate(packed[h][3], asked[h].gate)
    /\ Len(packed[h]) = 4 => packed[h][4].kind = Kind(3, 2)

\* One object more, behind those that were there.
LEMMA AppendIs ==
  ASSUME NEW s \in Seq(Packets), NEW o
  PROVE  /\ Len(Append(s, o)) = Len(s) + 1 /\ Len(s) \in Nat
         /\ \A k \in 1 .. Len(s) : Append(s, o)[k] = s[k]
         /\ Append(s, o)[Len(s) + 1] = o
OBVIOUS

\* An object is written.
LEMMA SaidMore ==
  ASSUME NEW h \in Handlers, EncShape, SaidInv(h), NEW o, NEW next,
         Pack(h, o), Goto(h, next), asked' = asked,
         \/ stage[h] = "envelope" /\ next = "classifier" /\ o = Envelope(asked[h])
         \/ /\ stage[h] \in {"classifier", "destination"} /\ next = "gate"
            /\ IsClassifier(o, Classifier(h))
         \/ /\ stage[h] = "gate" /\ next = IF asked[h].version = 6 THEN "subscriber" ELSE "ready"
            /\ IsGate(o, asked[h].gate)
         \/ stage[h] = "subscriber" /\ next = "ready" /\ o.kind = Kind(3, 2)
  PROVE  SaidInv(h)'
<1> DEFINE s == packed[h]
           t == Append(s, o)
           n == Len(s)
<1>1. /\ stage'[h] = next /\ packed'[h] = t /\ asked'[h] = asked[h] /\ Classifier(h)' = Classifier(h)
      /\ s \in Seq(Packets)
  BY DEF EncShape, Pack, Goto, Classifier
<1>2. /\ Len(t) = n + 1 /\ n \in Nat /\ \A k \in 1 .. n : t[k] = s[k]
      /\ t[n + 1] = o
  BY <1>1, AppendIs
<1>3. /\ stage[h] \in {"idle", "envelope"} => n = 0
      /\ stage[h] \in {"classifier", "source", "destination"} => n = 1
      /\ stage[h] = "gate" => n = 2
      /\ stage[h] = "subscriber" => n = 3 /\ asked[h].version = 6
      /\ n >= 1 => s[1] = Envelope(asked[h])
      /\ n >= 2 => IsClassifier(s[2], Classifier(h))
      /\ n >= 3 => IsGate(s[3], asked[h].gate)
  BY DEF SaidInv
<1> HIDE DEF s, t, n
<1>4. CASE stage[h] = "envelope"
  <2>1. n = 0 /\ Len(t) = 1 /\ t[1] = o /\ o = Envelope(asked[h]) /\ next = "classifier"
    BY <1>2, <1>3, <1>4
  <2>2. QED
    BY <1>1, <2>1 DEF SaidInv, Envelope
<1>5. CASE stage[h] \in {"classifier", "destination"}
  <2>1. /\ n = 1 /\ Len(t) = 2 /\ t[1] = s[1] /\ t[2] = o /\ next = "gate"
        /\ IsClassifier(o, Classifier(h)) /\ s[1] = Envelope(asked[h])
    BY <1>2, <1>3, <1>5
  <2>2. QED
    BY <1>1, <2>1 DEF SaidInv, Envelope, IsClassifier
<1>6. CASE stage[h] = "gate"
  <2>1. /\ n = 2 /\ Len(t) = 3 /\ t[1] = s[1] /\ t[2] = s[2] /\ t[3] = o
        /\ next = IF asked[h].version = 6 THEN "subscriber" ELSE "ready"
        /\ s[1] = Envelope(asked[h]) /\ IsClassifier(s[2], Classifier(h)) /\ IsGate(o, asked[h].gate)
    BY <1>2, <1>3, <1>6
  <2>2. QED
    BY <1>1, <2>1 DEF SaidInv, Envelope, IsClassifier, IsGate
<1>7. CASE stage[h] = "subscriber"
  <2>1. /\ n = 3 /\ Len(t) = 4 /\ t[1] = s[1] /\ t[2] = s[2] /\ t[3] = s[3] /\ t[4] = o /\ next = "ready"
        /\ asked[h].version = 6
        /\ s[1] = Envelope(asked[h]) /\ IsClassifier(s[2], Classifier(h)) /\ IsGate(s[3], asked[h].gate)
        /\ o.kind = Kind(3, 2)
    BY <1>2, <1>3, <1>7
  <2>2. QED
    BY <1>1, <2>1 DEF SaidInv, Envelope, IsClassifier, IsGate
<1>8. QED
  BY <1>4, <1>5, <1>6, <1>7

\* What a handler has written and was asked for does not change.
LEMMA SaidSame ==
  ASSUME NEW g, SaidInv(g), packed'[g] = packed[g], asked'[g] = asked[g],
         \/ stage'[g] = stage[g]
         \/ stage[g] = "classifier" /\ stage'[g] = "source"
         \/ stage[g] = "source" /\ stage'[g] = "destination"
  PROVE  SaidInv(g)'
<1>1. Classifier(g)' = Classifier(g)
  BY DEF Classifier
<1>2. QED
  BY <1>1 DEF SaidInv, Envelope, IsClassifier, IsGate

LEMMA SaidStep ==
  ASSUME EncInv, \A h \in Handlers : SaidInv(h), [EncodeNext]_encode_vars
  PROVE  \A h \in Handlers : SaidInv(h)'
<1>1. CASE UNCHANGED encode_vars
  BY <1>1, SaidSame DEF encode_vars
<1>2. ASSUME NEW h \in Handlers,
             \A g \in Handlers : g # h =>
                 stage'[g] = stage[g] /\ packed'[g] = packed[g] /\ asked'[g] = asked[g],
             SaidInv(h)'
      PROVE  \A g \in Handlers : SaidInv(g)'
  BY <1>2, SaidSame
<1>3. EncShape
  BY DEF EncInv
<1>4. ASSUME NEW h \in Handlers, NEW p \in Policies, Begin(h, p)
      PROVE  \A g \in Handlers : SaidInv(g)'
  <2>1. stage[h] = "idle" /\ stage'[h] = "envelope" /\ packed'[h] = packed[h]
    BY <1>3, <1>4 DEF Begin, Goto, EncShape
  <2>2. SaidInv(h)'
    BY <2>1 DEF SaidInv
  <2>3. \A g \in Handlers : g # h =>
             stage'[g] = stage[g] /\ packed'[g] = packed[g] /\ asked'[g] = asked[g]
    BY <1>3, <1>4 DEF Begin, Goto, EncShape
  <2>4. QED
    BY <1>2, <2>2, <2>3
<1>5. ASSUME NEW h \in Handlers, NEW left \in Leftover, PackSpec(h, left)
      PROVE  \A g \in Handlers : SaidInv(g)'
  <2> DEFINE o == Gate(asked[h].gate, left.priority, left.preemption)
             next == IF asked[h].version = 6 THEN "subscriber" ELSE "ready"
  <2>1. stage[h] = "gate" /\ Pack(h, o) /\ Goto(h, next) /\ asked' = asked
    BY <1>5 DEF PackSpec
  <2>2. IsGate(o, asked[h].gate) /\ next = IF asked[h].version = 6 THEN "subscriber" ELSE "ready"
    BY DEF IsGate
  <2> HIDE DEF o, next
  <2>3. SaidInv(h)'
    BY <1>3, <2>1, <2>2, SaidMore
  <2>4. \A g \in Handlers : g # h =>
             stage'[g] = stage[g] /\ packed'[g] = packed[g] /\ asked'[g] = asked[g]
    BY <1>3, <2>1 DEF Pack, Goto, EncShape
  <2>5. QED
    BY <1>2, <2>3, <2>4
<1>6. ASSUME NEW h \in Handlers, PackEnvelope(h)
      PROVE  \A g \in Handlers : SaidInv(g)'
  <2>1. stage[h] = "envelope" /\ Pack(h, Envelope(asked[h])) /\ Goto(h, "classifier") /\ asked' = asked
    BY <1>6 DEF PackEnvelope, Envelope
  <2>2. SaidInv(h)'
    BY <1>3, <2>1, SaidMore
  <2>3. \A g \in Handlers : g # h =>
             stage'[g] = stage[g] /\ packed'[g] = packed[g] /\ asked'[g] = asked[g]
    BY <1>3, <2>1 DEF Pack, Goto, EncShape
  <2>4. QED
    BY <1>2, <2>2, <2>3
<1>7. ASSUME NEW h \in Handlers, PackClassifier(h)
      PROVE  \A g \in Handlers : SaidInv(g)'
  <2> DEFINE c == Classifier(h)
  <2>1. stage[h] = "classifier" /\ asked' = asked /\ asked[h] \in Policies
    BY <1>7 DEF PackClassifier, EncInv, AskedInv
  <2>2. c.type \in {"legacy", "extended", "ipv6"}
    BY <2>1, ClassifierIs DEF ClassifierOK, Holds
  <2>3. CASE c.type = "ipv6"
    <3>1. packed' = packed /\ Goto(h, "source")
      BY <1>7, <2>3 DEF PackClassifier
    <3>2. SaidInv(h)'
      BY <1>3, <2>1, <3>1, SaidSame DEF Goto, EncShape
    <3>3. \A g \in Handlers : g # h =>
               stage'[g] = stage[g] /\ packed'[g] = packed[g] /\ asked'[g] = asked[g]
      BY <1>3, <2>1, <3>1 DEF Goto, EncShape
    <3>4. QED
      BY <1>2, <3>2, <3>3
  <2>4. CASE c.type # "ipv6"
    <3> DEFINE o == IF c.type = "legacy" THEN LegacyClassifier(c) ELSE ExtendedClassifier(c)
    <3>1. Pack(h, o) /\ Goto(h, "gate")
      <4>1. CASE c.type = "legacy"
        BY <1>7, <4>1 DEF PackClassifier
      <4>2. CASE c.type = "extended"
        BY <1>7, <4>2 DEF PackClassifier
      <4>3. QED
        BY <2>2, <2>4, <4>1, <4>2
    <3>2. IsClassifier(o, c)
      BY <2>2, <2>4 DEF IsClassifier
    <3> HIDE DEF o
    <3>3. SaidInv(h)'
      BY <1>3, <2>1, <3>1, <3>2, SaidMore
    <3>4. \A g \in Handlers : g # h =>
               stage'[g] = stage[g] /\ packed'[g] = packed[g] /\ asked'[g] = asked[g]
      BY <1>3, <2>1, <3>1 DEF Pack, Goto, EncShape
    <3>5. QED
      BY <1>2, <3>3, <3>4
  <2>5. QED
    BY <2>3, <2>4
<1>8. ASSUME NEW h \in Handlers, FirstGroup(h) \/ NextGroup(h)
      PROVE  \A g \in Handlers : SaidInv(g)'
  BY <1>8, SaidSame DEF FirstGroup, NextGroup
<1>9. ASSUME NEW h \in Handlers, LastGroup(h)
      PROVE  \A g \in Handlers : SaidInv(g)'
  <2>1. asked' = asked /\ stage[h] \in {"source", "destination", "subscriber"}
    BY <1>9 DEF LastGroup, EncInv, AskedInv, AtAddress
  <2>2. CASE stage[h] = "source"
    <3>1. packed' = packed /\ Goto(h, "destination")
      BY <1>9, <2>2 DEF LastGroup
    <3>2. SaidInv(h)'
      BY <1>3, <2>1, <2>2, <3>1, SaidSame DEF Goto, EncShape
    <3>3. \A g \in Handlers : g # h =>
               stage'[g] = stage[g] /\ packed'[g] = packed[g] /\ asked'[g] = asked[g]
      BY <1>3, <2>1, <3>1 DEF Goto, EncShape
    <3>4. QED
      BY <1>2, <3>2, <3>3
  <2>3. ASSUME NEW o, NEW next, Pack(h, o), Goto(h, next),
               \/ stage[h] = "destination" /\ next = "gate" /\ IsClassifier(o, Classifier(h))
               \/ stage[h] = "subscriber" /\ next = "ready" /\ o.kind = Kind(3, 2)
        PROVE  \A g \in Handlers : SaidInv(g)'
    <3>1. SaidInv(h)'
      BY <1>3, <2>1, <2>3, SaidMore
    <3>2. \A g \in Handlers : g # h =>
               stage'[g] = stage[g] /\ packed'[g] = packed[g] /\ asked'[g] = asked[g]
      BY <1>3, <2>1, <2>3 DEF Pack, Goto, EncShape
    <3>3. QED
      BY <1>2, <3>1, <3>2
  <2>4. CASE stage[h] = "destination"
    <3> DEFINE o == IPv6Classifier(Classifier(h), SubSeq(body[h], 1, 16))
    <3>1. Pack(h, o) /\ Goto(h, "gate")
      BY <1>9, <2>4 DEF LastGroup
    <3>2. Classifier(h).type = "ipv6"
      BY <2>4, ClassifierIs DEF EncInv, AskedInv
    <3>3. body[h] \in [1 .. 16 -> Word]
      BY <1>3 DEF EncShape
    <3>4. IsClassifier(o, Classifier(h))
      BY <3>2, <3>3 DEF IsClassifier
    <3> HIDE DEF o
    <3>5. QED
      BY <2>3, <2>4, <3>1, <3>4
  <2>5. CASE stage[h] = "subscriber"
    <3> DEFINE o == SubscriberId6(SubSeq(body[h], 1, 8))
    <3>1. Pack(h, o) /\ Goto(h, "ready") /\ o.kind = Kind(3, 2)
      BY <1>9, <2>5 DEF LastGroup, SubscriberId6, Encoded
    <3> HIDE DEF o
    <3>2. QED
      BY <2>3, <2>5, <3>1
  <2>6. QED
    BY <2>1, <2>2, <2>4, <2>5
<1>10. ASSUME NEW h \in Handlers, Done(h)
       PROVE  \A g \in Handlers : SaidInv(g)'
  <2>1. stage'[h] = "idle" /\ packed'[h] = <<>>
    BY <1>3, <1>10 DEF Done, Goto, EncShape
  <2>2. SaidInv(h)'
    BY <2>1 DEF SaidInv
  <2>3. \A g \in Handlers : g # h =>
             stage'[g] = stage[g] /\ packed'[g] = packed[g] /\ asked'[g] = asked[g]
    BY <1>3, <1>10 DEF Done, Goto, EncShape
  <2>4. QED
    BY <1>2, <2>2, <2>3
<1>11. QED
  BY <1>1, <1>4, <1>5, <1>6, <1>7, <1>8, <1>9, <1>10 DEF EncodeNext

LEMMA SaidInit == EncodeInit => \A h \in Handlers : SaidInv(h)
BY DEF EncodeInit, SaidInv

-----------------------------------------------------------------------------
(* The places of the fields.                                               *)

\* Bytes and flags.
LEMMA NumBytes ==
  ASSUME NEW hi \in Int, NEW lo \in Int
  PROVE  Num(Bytes(hi, lo)) = (hi % 256) /\ Type(Bytes(hi, lo)) = (lo % 256)
<1> DEFINE x == hi % 256
           y == lo % 256
<1>1. x \in Int /\ y \in Int /\ 0 <= x /\ x < 256 /\ 0 <= y /\ y < 256
  OBVIOUS
<1> HIDE DEF x, y
<1>2. (x * 256 + y) \div 256 = x /\ ((x * 256 + y) % 256) = y
  BY <1>1
<1>3. QED
  BY <1>2 DEF Bytes, Kind, Num, Type, x, y

LEMMA FlagsAre ==
  ASSUME NEW direction, NEW dscp_enable \in Int
  PROVE  LET f == Flags(direction, dscp_enable, 0)
         IN  /\ f \in 0 .. 3
             /\ (f % 2) = IF direction = "upstream" THEN 1 ELSE 0
             /\ ((f \div 2) % 2) = (dscp_enable % 2)
<1> DEFINE up == IF direction = "upstream" THEN 1 ELSE 0
           e == dscp_enable % 2
<1>1. up \in {0, 1} /\ e \in {0, 1} /\ 4 * (0 % 2) = 0
  OBVIOUS
<1>2. Flags(direction, dscp_enable, 0) = up + (2 * e) + (4 * (0 % 2))
  BY DEF Flags
<1> HIDE DEF up, e
<1>3. \A a \in {0, 1}, b \in {0, 1} :
         a + (2 * b) + 0 \in 0 .. 3 /\ ((a + (2 * b) + 0) % 2) = a /\ (((a + (2 * b) + 0) \div 2) % 2) = b
  OBVIOUS
<1>4. QED
  BY <1>1, <1>2, <1>3 DEF up, e

\* The words of an object by their bytes.
LEMMA Layout ==
  ASSUME NEW o, NEW b, o.body = b
  PROVE  /\ Short(o, 4) = b[1] /\ Short(o, 5) = b[1] /\ Short(o, 6) = b[2] /\ Short(o, 7) = b[2]
         /\ Short(o, 8) = b[3] /\ Short(o, 10) = b[4] /\ Short(o, 12) = b[5]
         /\ Short(o, 14) = b[6] /\ Short(o, 15) = b[6] /\ Short(o, 16) = b[7] /\ Short(o, 18) = b[8]
         /\ Short(o, 20) = b[9] /\ Short(o, 22) = b[10]
<1>1. /\ ((4 - 4) \div 2) + 1 = 1 /\ ((5 - 4) \div 2) + 1 = 1 /\ ((6 - 4) \div 2) + 1 = 2
      /\ ((7 - 4) \div 2) + 1 = 2 /\ ((8 - 4) \div 2) + 1 = 3 /\ ((10 - 4) \div 2) + 1 = 4
      /\ ((12 - 4) \div 2) + 1 = 5 /\ ((14 - 4) \div 2) + 1 = 6 /\ ((15 - 4) \div 2) + 1 = 6
      /\ ((16 - 4) \div 2) + 1 = 7 /\ ((18 - 4) \div 2) + 1 = 8 /\ ((20 - 4) \div 2) + 1 = 9
      /\ ((22 - 4) \div 2) + 1 = 10
  OBVIOUS
<1>2. QED
  BY <1>1 DEF Short

\* Two values in one word.
LEMMA Octets ==
  ASSUME NEW o, NEW i \in Nat, NEW hi \in Int, NEW lo \in Int, Short(o, i) = Bytes(hi, lo)
  PROVE  /\ i % 2 = 0 => Octet(o, i) = (hi % 256)
         /\ i % 2 = 1 => Octet(o, i) = (lo % 256)
<1>1. Num(Short(o, i)) = (hi % 256) /\ Type(Short(o, i)) = (lo % 256)
  BY NumBytes
<1>2. QED
  BY <1>1 DEF Octet

LEMMA ProtocolIs ==
  ASSUME NEW c, ClassifierOK(c), NEW o,
         o.body[1] = U16(c.protocol), o.body[2] = Bytes(c.field, c.mask)
  PROVE  ProtocolSays(o, c)
<1>1. c.field \in Int /\ c.mask \in Int
  BY DEF ClassifierOK, Holds, ClassifierFields
<1>2. Short(o, 4) = o.body[1] /\ Short(o, 6) = Bytes(c.field, c.mask) /\ Short(o, 7) = Bytes(c.field, c.mask)
  BY Layout
<1>3. 6 \in Nat /\ 7 \in Nat /\ 6 % 2 = 0 /\ 7 % 2 = 1
  OBVIOUS
<1>4. Octet(o, 6) = (c.field % 256) /\ Octet(o, 7) = (c.mask % 256)
  BY ONLY <1>1, <1>2, <1>3, Octets
<1>5. QED
  BY <1>2, <1>4 DEF ProtocolSays

\* The last seven words of an extended or IPv6 classifier.
LEMMA RangesAre ==
  ASSUME NEW c, ClassifierOK(c), NEW o, NEW i \in {24, 48}, NEW n \in {10, 22},
         i = 24 <=> n = 10, \A k \in 1 .. 8 : o.body[n + k] = IPv6Back(c)[k]
  PROVE  RangesSay(o, i, c)
<1>1. c.priority \in Int /\ c.state \in Int /\ c.action \in Int
  BY DEF ClassifierOK, Holds, ClassifierFields
<1>2. /\ Short(o, i) = o.body[n + 1] /\ Short(o, i + 2) = o.body[n + 2]
      /\ Short(o, i + 4) = o.body[n + 3] /\ Short(o, i + 6) = o.body[n + 4]
      /\ Short(o, i + 8) = o.body[n + 5] /\ Short(o, i + 10) = o.body[n + 6]
      /\ Short(o, i + 11) = o.body[n + 6] /\ Short(o, i + 12) = o.body[n + 7]
  <2>1. /\ ((i - 4) \div 2) + 1 = n + 1 /\ ((i + 2 - 4) \div 2) + 1 = n + 2
        /\ ((i + 4 - 4) \div 2) + 1 = n + 3 /\ ((i + 6 - 4) \div 2) + 1 = n + 4
        /\ ((i + 8 - 4) \div 2) + 1 = n + 5 /\ ((i + 10 - 4) \div 2) + 1 = n + 6
        /\ ((i + 11 - 4) \div 2) + 1 = n + 6 /\ ((i + 12 - 4) \div 2) + 1 = n + 7
    <3>1. CASE i = 24
      BY ONLY <3>1, i = 24 <=> n = 10
    <3>2. CASE i = 48
      BY ONLY <3>2, i = 24 <=> n = 10, n \in {10, 22}
    <3>3. QED
      BY <3>1, <3>2
  <2>2. QED
    BY ONLY <2>1 DEF Short
<1>3. /\ o.body[n + 1] = U16(c.src_start) /\ o.body[n + 2] = U16(c.src_end)
      /\ o.body[n + 3] = U16(c.dst_start) /\ o.body[n + 4] = U16(c.dst_end)
      /\ o.body[n + 5] = U16(c.id) /\ o.body[n + 6] = Bytes(c.priority, c.state)
      /\ o.body[n + 7] = Bytes(c.action, 0)
  <2>1. /\ IPv6Back(c)[1] = U16(c.src_start) /\ IPv6Back(c)[2] = U16(c.src_end)
        /\ IPv6Back(c)[3] = U16(c.dst_start) /\ IPv6Back(c)[4] = U16(c.dst_end)
        /\ IPv6Back(c)[5] = U16(c.id) /\ IPv6Back(c)[6] = Bytes(c.priority, c.state)
        /\ IPv6Back(c)[7] = Bytes(c.action, 0)
    BY DEF IPv6Back
  <2>2. QED
    BY <2>1
<1>4. /\ i + 10 \in Nat /\ i + 11 \in Nat /\ i + 12 \in Nat /\ 0 \in Int
      /\ (i + 10) % 2 = 0 /\ (i + 11) % 2 = 1 /\ (i + 12) % 2 = 0
  OBVIOUS
<1>5. /\ Octet(o, i + 10) = (c.priority % 256) /\ Octet(o, i + 11) = (c.state % 256)
      /\ Octet(o, i + 12) = (c.action % 256)
  <2>1. /\ Short(o, i + 10) = Bytes(c.priority, c.state) /\ Short(o, i + 11) = Bytes(c.priority, c.state)
        /\ Short(o, i + 12) = Bytes(c.action, 0)
    BY ONLY <1>2, <1>3
  <2>2. QED
    BY ONLY <1>1, <1>4, <2>1, Octets
<1>6. QED
  BY ONLY <1>2, <1>3, <1>5 DEF RangesSay

\* A pair of words is the two of them.
LEMMA PairIs == \A s \in Word \X Word : <<s[1], s[2]>> = s
OBVIOUS

LEMMA LegacySaid ==
  ASSUME NEW c, ClassifierOK(c), c.type = "legacy"
  PROVE  LegacySays(LegacyClassifier(c), c)
<1> DEFINE o == LegacyClassifier(c)
           b == o.body
<1>1. /\ b[1] = U16(c.protocol) /\ b[2] = Bytes(c.field, c.mask)
      /\ b[3] = c.src_ip[1] /\ b[4] = c.src_ip[2] /\ b[5] = c.dst_ip[1] /\ b[6] = c.dst_ip[2]
      /\ b[7] = U16(c.src_start) /\ b[8] = U16(c.dst_start) /\ b[9] = Bytes(c.priority, 0)
      /\ o.kind = Legacy
  BY DEF LegacyClassifier, Encoded
<1> HIDE DEF o
<1>2. /\ Long(o, 8) = <<b[3], b[4]>> /\ Long(o, 12) = <<b[5], b[6]>>
      /\ Short(o, 16) = b[7] /\ Short(o, 18) = b[8] /\ Short(o, 20) = b[9]
  BY Layout DEF Long
<1>3. Long(o, 8) = c.src_ip /\ Long(o, 12) = c.dst_ip
  <2>1. c.src_ip \in Word \X Word /\ c.dst_ip \in Word \X Word
    BY DEF ClassifierOK, Holds
  <2>2. QED
    BY <1>1, <1>2, <2>1, PairIs
<1>4. Octet(o, 20) = (c.priority % 256)
  <2>1. c.priority \in Int /\ 20 \in Nat /\ 20 % 2 = 0 /\ 0 \in Int
    BY DEF ClassifierOK, Holds, ClassifierFields
  <2>2. QED
    BY <1>1, <1>2, <2>1, Octets
<1>5. ProtocolSays(o, c)
  BY <1>1, ProtocolIs
<1>6. LegacySays(o, c)
  BY <1>1, <1>2, <1>3, <1>4, <1>5 DEF LegacySays
<1>7. QED
  BY <1>6 DEF o

LEMMA ExtendedSaid ==
  ASSUME NEW c, ClassifierOK(c), c.type = "extended"
  PROVE  ExtendedSays(ExtendedClassifier(c), c)
<1> DEFINE o == ExtendedClassifier(c)
           b == o.body
<1>1. /\ b[1] = U16(c.protocol) /\ b[2] = Bytes(c.field, c.mask)
      /\ b[3] = c.src_ip[1] /\ b[4] = c.src_ip[2] /\ b[5] = c.src_mask[1] /\ b[6] = c.src_mask[2]
      /\ b[7] = c.dst_ip[1] /\ b[8] = c.dst_ip[2] /\ b[9] = c.dst_mask[1] /\ b[10] = c.dst_mask[2]
      /\ o.kind = Extended
  BY DEF ExtendedClassifier, Encoded
<1>2. \A k \in 1 .. 8 : b[10 + k] = IPv6Back(c)[k]
  BY DEF ExtendedClassifier, Encoded, IPv6Back
<1> HIDE DEF o
<1>3. /\ Long(o, 8) = <<b[3], b[4]>> /\ Long(o, 12) = <<b[5], b[6]>>
      /\ Long(o, 16) = <<b[7], b[8]>> /\ Long(o, 20) = <<b[9], b[10]>>
  BY Layout DEF Long
<1>4. Long(o, 8) = c.src_ip /\ Long(o, 12) = c.src_mask /\ Long(o, 16) = c.dst_ip /\ Long(o, 20) = c.dst_mask
  <2>1. /\ c.src_ip \in Word \X Word /\ c.dst_ip \in Word \X Word
        /\ c.src_mask \in Word \X Word /\ c.dst_mask \in Word \X Word
    BY DEF ClassifierOK, Holds
  <2>2. QED
    BY <1>1, <1>3, <2>1, PairIs
<1>5. RangesSay(o, 24, c)
  BY <1>2, RangesAre
<1>6. ProtocolSays(o, c)
  BY <1>1, ProtocolIs
<1>7. ExtendedSays(o, c)
  BY <1>1, <1>4, <1>5, <1>6 DEF ExtendedSays
<1>8. QED
  BY <1>7 DEF o

LEMMA IPv6Said ==
  ASSUME NEW c, ClassifierOK(c), c.type = "ipv6", NEW words \in [1 .. 16 -> Word]
  PROVE  IPv6Says(IPv6Classifier(c, SubSeq(words, 1, 16)), c)
<1> DEFINE o == IPv6Classifier(c, SubSeq(words, 1, 16))
           b == o.body
<1>1. /\ o.kind = IPv6
      /\ \A k \in 1 .. 6 : b[k] = IPv6Front(c)[k]
      /\ \A k \in 1 .. 8 : b[22 + k] = IPv6Back(c)[k]
  BY IPv6Packet
<1> HIDE DEF o
<1>2. /\ b[1] = Bytes(0, c.tc_low) /\ b[2] = Bytes(c.tc_high, c.tc_mask)
      /\ b[3] = U16(c.flow_label \div 65536) /\ b[4] = U16(c.flow_label)
      /\ b[5] = U16(c.next_header) /\ b[6] = Bytes(c.src_prefix, c.dst_prefix)
  BY <1>1 DEF IPv6Front
<1>3. /\ Short(o, 5) = b[1] /\ Short(o, 6) = b[2] /\ Short(o, 7) = b[2] /\ Long(o, 8) = <<b[3], b[4]>>
      /\ Short(o, 12) = b[5] /\ Short(o, 14) = b[6] /\ Short(o, 15) = b[6]
  BY Layout DEF Long
<1>4. /\ Octet(o, 5) = (c.tc_low % 256) /\ Octet(o, 6) = (c.tc_high % 256) /\ Octet(o, 7) = (c.tc_mask % 256)
      /\ Octet(o, 14) = (c.src_prefix % 256) /\ Octet(o, 15) = (c.dst_prefix % 256)
  <2>1. /\ c.tc_low \in Int /\ c.tc_high \in Int /\ c.tc_mask \in Int
        /\ c.src_prefix \in Int /\ c.dst_prefix \in Int /\ 0 \in Int
    BY DEF ClassifierOK, Holds, IPv6Fields
  <2>2. /\ 5 % 2 = 1 /\ 6 % 2 = 0 /\ 7 % 2 = 1 /\ 14 % 2 = 0 /\ 15 % 2 = 1
        /\ {5, 6, 7, 14, 15} \subseteq Nat
    OBVIOUS
  <2>3. Octet(o, 5) = (c.tc_low % 256)
    BY ONLY <1>2, <1>3, <2>1, <2>2, Octets
  <2>4. Octet(o, 6) = (c.tc_high % 256) /\ Octet(o, 7) = (c.tc_mask % 256)
    BY ONLY <1>2, <1>3, <2>1, <2>2, Octets
  <2>5. Octet(o, 14) = (c.src_prefix % 256) /\ Octet(o, 15) = (c.dst_prefix % 256)
    BY ONLY <1>2, <1>3, <2>1, <2>2, Octets
  <2>6. QED
    BY <2>3, <2>4, <2>5
<1>5. RangesSay(o, 48, c)
  BY <1>1, RangesAre
<1>6. IPv6Says(o, c)
  BY <1>1, <1>2, <1>3, <1>4, <1>5 DEF IPv6Says
<1>7. QED
  BY <1>6 DEF o

LEMMA ClassifierSaid ==
  ASSUME NEW c, ClassifierOK(c), NEW o, IsClassifier(o, c)
  PROVE  ClassifierSays(o, c)
BY LegacySaid, ExtendedSaid, IPv6Said DEF IsClassifier, ClassifierSays

LEMMA GateSaid ==
  ASSUME NEW g, Holds(g, GateFields, Int), NEW o, IsGate(o, g)
  PROVE  GateSays(o, g)
<1>1. PICK left \in Leftover : o = Gate(g, left.priority, left.preemption)
  BY DEF IsGate
<1> DEFINE flags == Flags(g.direction, g.overwrite, 0)
           class == Class(left.priority, left.preemption, 0)
           b == o.body
<1>2. /\ b[1] = Bytes(flags, g.overwrite) /\ b[2] = Bytes(g.mask, class)
      /\ b[3] = U16(g.t1) /\ b[4] = U16(g.t2) /\ b[5] = U16(g.t3) /\ b[6] = 0 /\ o.kind = GateSpec
  BY <1>1 DEF Gate, Encoded
<1>3. g.overwrite \in Int /\ g.mask \in Int
  BY DEF Holds, GateFields
<1>4. class \in Int
  BY PoliciesAssumption DEF Class
<1>5. flags \in Int /\ (flags % 256) = (IF g.direction = "upstream" THEN 1 ELSE 0) + (2 * (g.overwrite % 2))
  <2> DEFINE up == IF g.direction = "upstream" THEN 1 ELSE 0
             e == g.overwrite % 2
  <2>1. up \in {0, 1} /\ e \in {0, 1} /\ flags = up + (2 * e) + (4 * (0 % 2))
    BY <1>3 DEF Flags
  <2> HIDE DEF up, e, flags
  <2>2. flags \in Int /\ (flags % 256) = up + (2 * e)
    BY ONLY <2>1
  <2>3. QED
    BY <2>2 DEF up, e
<1> HIDE DEF flags, class
<1>6. /\ Short(o, 4) = b[1] /\ Short(o, 5) = b[1] /\ Short(o, 6) = b[2] /\ Short(o, 8) = b[3]
      /\ Short(o, 10) = b[4] /\ Short(o, 12) = b[5] /\ Short(o, 14) = b[6]
  BY Layout
<1>7. /\ Octet(o, 4) = (flags % 256) /\ Octet(o, 5) = (g.overwrite % 256) /\ Octet(o, 6) = (g.mask % 256)
  <2>1. 4 % 2 = 0 /\ 5 % 2 = 1 /\ 6 % 2 = 0 /\ {4, 5, 6} \subseteq Nat
    OBVIOUS
  <2>2. QED
    BY ONLY <1>2, <1>3, <1>4, <1>5, <1>6, <2>1, Octets
<1>8. QED
  BY <1>2, <1>5, <1>6, <1>7 DEF GateSays

LEMMA EnvelopeSaid ==
  ASSUME NEW p \in Policies
  PROVE  EnvelopeSays(Envelope(p), p)
<1>1. CASE p.profile = "scn"
  BY <1>1, PolicyIs, ScnPacket DEF Envelope, EnvelopeSays
<1>2. CASE p.profile # "scn"
  <2> DEFINE o == FlowSpecEnvelope(p.service_number)
             tail == <<Bytes(7, p.service_number), 0>>
  <2>1. Envelope(p) = o /\ o.kind = FlowSpec
    BY <1>2 DEF Envelope, FlowSpecEnvelope, Encoded
  <2>2. o.body[1] = Bytes(7, p.service_number)
    BY FlowSpecPacket, PolicyIs
  <2>3. p.service_number \in Int /\ 7 \in Int /\ 5 \in Nat /\ 5 % 2 = 1
    BY PolicyIs
  <2> HIDE DEF o
  <2>4. Octet(o, 5) = (p.service_number % 256)
    BY <2>2, <2>3, Layout, Octets
  <2>5. QED
    BY <1>2, <2>1, <2>4 DEF EnvelopeSays
<1>3. QED
  BY <1>1, <1>2

LEMMA FieldsSentHolds ==
  ASSUME EncInv, \A h \in Handlers : SaidInv(h)
  PROVE  FieldsSent
<1> SUFFICES ASSUME NEW h \in Handlers, stage[h] = "ready"
             PROVE  LET p == asked[h]
                        s == packed[h]
                    IN  /\ Len(s) = IF p.version = 6 THEN 4 ELSE 3
                        /\ EnvelopeSays(s[1], p)
                        /\ ClassifierSays(s[2], Classifier(h))
                        /\ GateSays(s[3], p.gate)
                        /\ p.version = 6 => s[4].kind = Kind(3, 2)
  BY Zenon DEF FieldsSent, Classifier
<1>1. asked[h] \in Policies
  BY DEF EncInv, AskedInv
<1>2. SaidInv(h)
  OBVIOUS
<1> DEFINE s == packed[h]
           n == Len(s)
<1>3. /\ n = IF asked[h].version = 6 THEN 4 ELSE 3
      /\ n >= 1 => s[1] = Envelope(asked[h])
      /\ n >= 2 => IsClassifier(s[2], Classifier(h))
      /\ n >= 3 => IsGate(s[3], asked[h].gate)
      /\ n = 4 => s[4].kind = Kind(3, 2)
  BY <1>2 DEF SaidInv
<1> HIDE DEF s, n
<1>4. /\ s[1] = Envelope(asked[h]) /\ IsClassifier(s[2], Classifier(h)) /\ IsGate(s[3], asked[h].gate)
      /\ asked[h].version = 6 => s[4].kind = Kind(3, 2)
  BY <1>3
<1>5. ClassifierOK(Classifier(h)) /\ Holds(asked[h].gate, GateFields, Int)
  BY <1>1, ClassifierIs, PolicyIs
<1>6. EnvelopeSays(s[1], asked[h]) /\ ClassifierSays(s[2], Classifier(h)) /\ GateSays(s[3], asked[h].gate)
  BY <1>1, <1>4, <1>5, EnvelopeSaid, ClassifierSaid, GateSaid
<1>7. QED
  BY <1>3, <1>4, <1>6, Zenon DEF s, n

-----------------------------------------------------------------------------
(* The name of a service class.                                            *)

\* A byte of a row of words, counted from 0.
ByteOf(b, i) == IF i % 2 = 0 THEN Num(b[(i \div 2) + 1]) ELSE Type(b[(i \div 2) + 1])

\* What is in memory from a name on.
Memory(name) == name \o <<0>> \o Behind

LEMMA LettersOf ==
  ASSUME NEW name \in Seq(1 .. 255)
  PROVE  /\ Len(name) \in Nat /\ name = [k \in 1 .. Len(name) |-> name[k]]
         /\ \A k \in 1 .. Len(name) : name[k] \in 1 .. 255 /\ name[k] # 0
<1> DEFINE letters == 1 .. 255
<1>1. name \in Seq(letters) /\ \A x \in letters : x # 0
  OBVIOUS
<1> HIDE DEF letters
<1>2. Len(name) \in Nat /\ name = [k \in 1 .. Len(name) |-> name[k]]
  BY <1>1
<1>3. \A k \in 1 .. Len(name) : name[k] \in letters
  BY <1>1, ElementOfSeq
<1>4. QED
  BY <1>1, <1>2, <1>3 DEF letters

LEMMA MemoryIs ==
  ASSUME NEW name \in Seq(1 .. 255)
  PROVE  /\ \A k \in 1 .. Len(name) : Memory(name)[k] = name[k] /\ name[k] \in 1 .. 255
         /\ Memory(name)[Len(name) + 1] = 0
         /\ \A k \in 1 .. Len(name) + 9 : Memory(name)[k] \in 0 .. 255
<1> DEFINE octets == 0 .. 255
           start == name \o <<0>>
           memory == start \o Behind
<1>1. Behind \in Seq(octets) /\ Len(Behind) = 8 /\ <<0>> \in Seq(octets) /\ Len(<<0>>) = 1 /\ <<0>>[1] = 0
  BY PoliciesAssumption
<1>2. Len(name) \in Nat /\ \A k \in 1 .. Len(name) : name[k] \in 1 .. 255
  BY LettersOf
<1>3. name \in Seq(octets)
  <2> DEFINE letters == 1 .. 255
  <2>1. letters \subseteq octets /\ name \in Seq(letters)
    OBVIOUS
  <2> HIDE DEF letters, octets
  <2>2. QED
    BY <2>1, SeqMonotonic, Zenon
<1> HIDE DEF octets
<1>4. /\ start \in Seq(octets) /\ Len(start) = Len(name) + 1
      /\ \A k \in 1 .. Len(name) : start[k] = name[k]
      /\ start[Len(name) + 1] = 0
  <2>1. /\ start \in Seq(octets) /\ Len(start) = Len(name) + Len(<<0>>)
        /\ \A k \in 1 .. Len(name) + Len(<<0>>) :
              start[k] = IF k <= Len(name) THEN name[k] ELSE <<0>>[k - Len(name)]
    BY <1>1, <1>3, ConcatProperties
  <2> DEFINE n == Len(name)
  <2>2. n \in Nat /\ Len(<<0>>) = 1 /\ n = Len(name)
    BY <1>1, <1>2
  <2> HIDE DEF start, n
  <2>3. \A k \in 1 .. n : k \in 1 .. n + 1 /\ k <= n
    BY <2>2
  <2>4. n + 1 \in 1 .. n + 1 /\ ~(n + 1 <= n) /\ (n + 1) - n = 1
    BY <2>2
  <2>5. QED
    BY <1>1, <2>1, <2>2, <2>3, <2>4
<1> HIDE DEF start
<1>5. /\ memory \in Seq(octets) /\ Len(memory) = Len(name) + 9
      /\ \A k \in 1 .. Len(name) + 1 : memory[k] = start[k]
  <2>1. /\ memory \in Seq(octets) /\ Len(memory) = Len(start) + Len(Behind)
        /\ \A k \in 1 .. Len(start) + Len(Behind) :
              memory[k] = IF k <= Len(start) THEN start[k] ELSE Behind[k - Len(start)]
    BY ONLY <1>1, <1>4, ConcatProperties, ZenonT(30)
  <2> HIDE DEF memory
  <2>2. \A k \in 1 .. Len(name) + 1 : k \in 1 .. Len(start) + Len(Behind) /\ k <= Len(start)
    BY <1>1, <1>2, <1>4
  <2>3. Len(start) + Len(Behind) = Len(name) + 9
    BY <1>1, <1>2, <1>4
  <2>4. QED
    BY <2>1, <2>2, <2>3
<1>6. memory = Memory(name)
  BY DEF Memory, start
<1> HIDE DEF memory
<1>7. \A k \in 1 .. Len(name) + 9 : memory[k] \in octets
  BY <1>5, ElementOfSeq
<1>8. \A k \in 1 .. Len(name) : k \in 1 .. Len(name) + 1
  BY <1>2
<1>9. Len(name) + 1 \in 1 .. Len(name) + 1
  BY <1>2
<1>10. QED
  BY <1>2, <1>4, <1>5, <1>6, <1>7, <1>8, <1>9 DEF octets

\* The bytes of an envelope: zeros, and eight bytes from the name on.
LEMMA EnvelopeBytes ==
  ASSUME NEW name \in Seq(1 .. 255), NEW i \in 1 .. 15
  PROVE  LET alignment == (Len(name) + 1) % 4
         IN  ByteOf(ScnEnvelope(Memory(name), Len(name)).body, i) =
                IF i - 3 - alignment \in 0 .. 7 THEN Memory(name)[i - 2 - alignment] ELSE 0
<1> DEFINE alignment == (Len(name) + 1) % 4
           byte(j) == IF j = 0 THEN 7
                      ELSE IF j - 3 - alignment \in 0 .. 7 THEN Memory(name)[j - 2 - alignment] ELSE 0
           words == [w \in 1 .. 8 |-> Bytes(byte(2 * w - 2), byte(2 * w - 1))]
           w == (i \div 2) + 1
<1>1. Len(name) \in Nat /\ alignment \in 0 .. 3
  OBVIOUS
<1>2. ScnEnvelope(Memory(name), Len(name)).body = words
  BY DEF ScnEnvelope, Encoded
<1> HIDE DEF alignment
<1>3. ASSUME NEW j \in Int PROVE byte(j) \in 0 .. 255
  <2>1. CASE j - 3 - alignment \in 0 .. 7
    <3>1. j - 2 - alignment \in 1 .. Len(name) + 9
      BY <1>1, <2>1
    <3>2. \A k \in 1 .. Len(name) + 9 : Memory(name)[k] \in 0 .. 255
      BY MemoryIs
    <3>3. Memory(name)[j - 2 - alignment] \in 0 .. 255
      BY ONLY <3>1, <3>2, Zenon
    <3>4. 7 \in 0 .. 255
      OBVIOUS
    <3>5. QED
      BY <2>1, <3>3, <3>4, Zenon
  <2>2. CASE j - 3 - alignment \notin 0 .. 7
    BY <2>2
  <2>3. QED
    BY <2>1, <2>2
<1>4. w \in 1 .. 8 /\ 2 * w - 2 \in Int /\ 2 * w - 1 \in Int
      /\ IF i % 2 = 0 THEN 2 * w - 2 = i ELSE 2 * w - 1 = i
  OBVIOUS
<1> HIDE DEF w
<1>5. words[w] = Bytes(byte(2 * w - 2), byte(2 * w - 1))
  BY <1>4
<1> HIDE DEF words
<1>6. byte(2 * w - 2) \in 0 .. 255 /\ byte(2 * w - 1) \in 0 .. 255
  BY <1>3, <1>4
<1>7. i \in Int /\ i # 0
  OBVIOUS
<1>8. byte(i) = IF i - 3 - alignment \in 0 .. 7 THEN Memory(name)[i - 2 - alignment] ELSE 0
  BY <1>7
<1> HIDE DEF byte
<1>9. Num(words[w]) = byte(2 * w - 2) /\ Type(words[w]) = byte(2 * w - 1)
  <2>1. \A x \in 0 .. 255 : x \in Int /\ (x % 256) = x
    OBVIOUS
  <2> DEFINE x == byte(2 * w - 2)
             y == byte(2 * w - 1)
  <2>2. x \in 0 .. 255 /\ y \in 0 .. 255 /\ words[w] = Bytes(x, y)
    BY <1>5, <1>6, Zenon
  <2> HIDE DEF x, y
  <2>3. x \in Int /\ y \in Int /\ (x % 256) = x /\ (y % 256) = y
    BY <2>1, <2>2
  <2>4. Num(words[w]) = x /\ Type(words[w]) = y
    BY <2>2, <2>3, NumBytes
  <2>5. QED
    BY <2>4 DEF x, y
<1>10. ByteOf(words, i) = byte(i)
  BY <1>4, <1>9 DEF ByteOf, w
<1>11. QED
  BY <1>2, <1>8, <1>10 DEF alignment

LEMMA NameSentHolds ==
  ASSUME EncInv, \A h \in Handlers : SaidInv(h)
  PROVE  NameSent
<1> SUFFICES ASSUME NEW h \in Handlers, stage[h] = "ready", asked[h].profile = "scn"
             PROVE  LET o       == packed[h][1]
                        name    == asked[h].name
                        padding == (Len(name) + 1) % 4
                        sent    == IF Len(name) < 8 THEN Len(name) ELSE 8
                    IN  /\ Octet(o, 4) = 7
                        /\ \A i \in 5 .. 6 + padding : Octet(o, i) = 0
                        /\ \A k \in 1 .. sent : Octet(o, 6 + padding + k) = name[k]
                        /\ Octet(o, 7 + padding + sent) = 0
  BY Zenon DEF NameSent
<1>1. asked[h] \in Policies /\ asked[h].name \in Seq(1 .. 255)
  <2>1. asked[h] \in Policies
    BY DEF EncInv, AskedInv
  <2>2. QED
    BY <2>1, PolicyIs
<1> DEFINE name == asked[h].name
           padding == (Len(name) + 1) % 4
           sent == IF Len(name) < 8 THEN Len(name) ELSE 8
           o == packed[h][1]
           n == Len(name)
<1>2. o = ScnEnvelope(Memory(name), Len(name))
  <2>1. Len(packed[h]) \in {3, 4} /\ (Len(packed[h]) >= 1 => packed[h][1] = Envelope(asked[h]))
    BY DEF SaidInv
  <2>2. packed[h][1] = Envelope(asked[h])
    BY <2>1
  <2>3. QED
    BY <2>2 DEF Envelope, Memory
<1>3. name \in Seq(1 .. 255) /\ n \in Nat
  BY <1>1
<1> HIDE DEF name
<1>4. padding \in 0 .. 3 /\ padding \in Int /\ sent = (IF n < 8 THEN n ELSE 8) /\ sent \in 0 .. 8
  <2>1. n \in Nat /\ padding = ((n + 1) % 4) /\ sent = (IF n < 8 THEN n ELSE 8)
    BY <1>3
  <2> HIDE DEF n, padding, sent
  <2>2. padding \in 0 .. 3 /\ padding \in Int
    BY ONLY <2>1
  <2>3. sent \in 0 .. 8
    BY ONLY <2>1
  <2>4. QED
    BY <2>1, <2>2, <2>3
<1>5. ASSUME NEW i \in 5 .. 19
      PROVE  Octet(o, i) = IF i - 7 - padding \in 0 .. 7 THEN Memory(name)[i - 6 - padding] ELSE 0
  <2>1. /\ i - 4 \in 1 .. 15 /\ (i - 4) - 3 - padding = i - 7 - padding
        /\ (i - 4) - 2 - padding = i - 6 - padding /\ ((i - 4) % 2 = 0 <=> i % 2 = 0)
    BY <1>4
  <2>2. Octet(o, i) = ByteOf(o.body, i - 4)
    BY <2>1 DEF Octet, Short, ByteOf
  <2>3. ByteOf(o.body, i - 4) =
            IF (i - 4) - 3 - padding \in 0 .. 7 THEN Memory(name)[(i - 4) - 2 - padding] ELSE 0
    BY <1>2, <1>3, <2>1, EnvelopeBytes
  <2>4. QED
    BY <2>1, <2>2, <2>3
<1>6. Octet(o, 4) = 7
  <2>1. o.body[1] \in {Bytes(7, 0)}
    BY <1>2, <1>4 DEF ScnEnvelope, Encoded, padding
  <2>2. Short(o, 4) = Bytes(7, 0) /\ 4 \in Nat /\ 4 % 2 = 0 /\ 7 % 256 = 7
    BY <2>1, Layout
  <2>3. QED
    BY <2>2, Octets
<1> HIDE DEF padding, sent, o, n
<1>7. \A i \in 5 .. 6 + padding : Octet(o, i) = 0
  <2> TAKE i \in 5 .. 6 + padding
  <2>1. i \in 5 .. 19 /\ i - 7 - padding \notin 0 .. 7
    BY <1>4
  <2>2. QED
    BY <1>5, <2>1
<1>8. \A k \in 1 .. sent : Octet(o, 6 + padding + k) = name[k]
  <2> TAKE k \in 1 .. sent
  <2>1. /\ 6 + padding + k \in 5 .. 19 /\ (6 + padding + k) - 7 - padding \in 0 .. 7
        /\ (6 + padding + k) - 6 - padding = k /\ k \in 1 .. n
    BY <1>3, <1>4
  <2>2. Octet(o, 6 + padding + k) = Memory(name)[k]
    BY <1>5, <2>1
  <2>3. QED
    BY <1>3, <2>1, <2>2, MemoryIs DEF n
<1>9. Octet(o, 7 + padding + sent) = 0
  <2> DEFINE i == 7 + padding + sent
  <2>1. /\ i \in 5 .. 19 /\ i - 6 - padding = sent + 1
        /\ i - 7 - padding \in 0 .. 7 => sent = n
    BY <1>3, <1>4
  <2>2. Memory(name)[n + 1] = 0
    BY <1>3, MemoryIs DEF n
  <2> HIDE DEF i
  <2>3. Octet(o, i) = 0
    BY <1>5, <2>1, <2>2
  <2>4. QED
    BY <2>3 DEF i
<1>10. QED
  BY <1>6, <1>7, <1>8, <1>9, Zenon DEF name, padding, sent, o

\* Whatever requests are handled at the same time, and whatever is on the stack
\* and in memory behind a name: a handler has written the objects it was asked
\* for, in their order, every field of the request, but for the addresses of
\* IPv6, is in its place of the tables of pcmm.h:223-342, in the width of that
\* place, and a service class name of any length is there by its first eight
\* bytes and a zero, behind its padding.  (pcmm_gate, pcmm_legacy_classifier,
\* pcmm_extended_classifier, pcmm_ipv6_classifier, pcmm_flowspec_envelope and
\* pcmm_scn_envelope, as gctl_04 and ps_proxy call them)
THEOREM SentAsAskedHolds == EncodeSpec => []SentAsAsked
<1>1. EncInv /\ (\A h \in Handlers : SaidInv(h)) /\ [EncodeNext]_encode_vars
        => (\A h \in Handlers : SaidInv(h))'
  BY SaidStep
<1>2. EncInv /\ (\A h \in Handlers : SaidInv(h)) => SentAsAsked
  BY FieldsSentHolds, NameSentHolds DEF SentAsAsked
<1>3. QED
  BY <1>1, <1>2, SaidInit, EncodeInvariant, PTL DEF EncodeSpec

=============================================================================
