---------------------------- MODULE Framing_proofs ----------------------------
(***************************************************************************)
(* Proofs about Framing: what ps_recvd returns, for any messages and any   *)
(* way in which TCP cuts the stream; and, behind them, about ReportDecode: *)
(* what is made of a message, for any objects in it.  What the walks do    *)
(* from object to object is shown by induction, in the form: a set of      *)
(* numbers that is not empty has a least element.                          *)
(***************************************************************************)
EXTENDS MCFraming, FiniteSetTheorems, SequenceTheorems, WellFoundedInduction, TLAPS

(***************************************************************************)
(* Messages lie end to end in the stream.                                  *)
(***************************************************************************)
Layout ==
    /\ Len(ends) = N /\ Len(cut) = N
    /\ \A j \in 1 .. N : Start(j) \in Nat /\ ends[j] = Start(j) + stream[j].length
    /\ \A i, j \in 1 .. N : i < j => ends[i] <= Start(j)

\* A message in which the bytes that are there end has been cut, and if they
\* end in its header it is one the server is not made for.
CutKnown ==
    \A j \in 1 .. N : Start(j) < arrived /\ arrived < ends[j] =>
        /\ cut[j] # "none"
        /\ arrived < Start(j) + Header => cut[j] = "bad"

\* What was parsed lies behind: OnceInOrder made inductive.
Behind == \A k \in 1 .. Len(got) : got[k].of # 0 => ends[got[k].of] <= taken

(***************************************************************************)
(* Delivered made inductive: while no message is cut badly, ps_recvd is at *)
(* the message that follows those it has returned.                         *)
(***************************************************************************)
AtMessage ==
    LET k == Len(got) + 1 IN
    /\ pc = "peek" => taken = Start(k)
    /\ pc = "take" =>
          /\ k <= N /\ taken = Start(k) /\ taken + Header <= arrived
          /\ seen.op = stream[k].op /\ seen.length = stream[k].length
    /\ pc = "due" =>
          /\ k <= N /\ Start(k) < taken /\ taken + due = ends[k] /\ 0 < due
          /\ seen.op = stream[k].op /\ cut[k] = "body"
          /\ arrived = taken \/ ends[k] <= arrived

FInv ==
    /\ TypeOK /\ Layout /\ CutKnown /\ Behind /\ OnceInOrder
    /\ Kept => Delivered /\ AtMessage

LEMMA FInit == Init => FInv
<1> SUFFICES ASSUME Init PROVE FInv
  OBVIOUS
<1>1. /\ stream = <<>> /\ ends = <<>> /\ cut = <<>> /\ got = <<>>
      /\ arrived = 0 /\ taken = 0 /\ pc = "peek" /\ due = 0
      /\ seen = [op |-> "KA", length |-> 0]
  BY DEF Init
<1>2. /\ Len(stream) = 0 /\ Len(ends) = 0 /\ Len(cut) = 0 /\ Len(got) = 0
  BY <1>1, EmptySeq
<1>3. N = 0 /\ Sent = 0
  BY <1>2 DEF N, Sent, Start
<1>4. TypeOK
  BY <1>1, <1>3, EmptySeq DEF TypeOK, Ops
<1>5. Layout /\ CutKnown /\ Behind /\ OnceInOrder /\ Delivered /\ AtMessage
  BY <1>1, <1>2, <1>3 DEF Layout, CutKnown, Behind, OnceInOrder, Delivered, AtMessage, Start
<1>6. QED
  BY <1>4, <1>5 DEF FInv

-----------------------------------------------------------------------------
(***************************************************************************)
(* The places of messages.                                                 *)
(***************************************************************************)

LEMMA MessagesSent ==
  ASSUME TypeOK
  PROVE  /\ N \in Nat
         /\ \A j \in 1 .. N : /\ stream[j] \in Kinds
                              /\ stream[j].length \in Nat /\ stream[j].length >= Header
                              /\ stream[j].op \in Ops
<1>1. stream \in Seq(Kinds) /\ N = Len(stream)
  BY DEF TypeOK, N
<1>2. N \in Nat /\ \A j \in 1 .. N : stream[j] \in Kinds
  BY <1>1, LenProperties, ElementOfSeq
<1>3. \A m \in Kinds : m.length \in Nat /\ m.length >= Header /\ m.op \in Ops
  BY KindsAssumption DEF Ops
<1>4. QED
  BY <1>1, <1>2, <1>3

LEMMA Places ==
  ASSUME TypeOK, Layout
  PROVE  /\ N \in Nat /\ Sent = Start(N + 1)
         /\ \A j \in 1 .. N + 1 : Start(j) \in Nat
         /\ \A j \in 1 .. N : ends[j] \in Nat
         /\ \A j \in 1 .. N : Start(j + 1) = ends[j] /\ Start(j) + Header <= ends[j]
         /\ \A i \in 1 .. N : \A j \in 1 .. N + 1 : i < j => ends[i] <= Start(j)
<1>1. N \in Nat
  BY MessagesSent
<1>2. \A j \in 1 .. N : /\ Start(j) \in Nat /\ ends[j] = Start(j) + stream[j].length
                        /\ stream[j].length \in Nat /\ stream[j].length >= Header
  BY MessagesSent DEF Layout
<1>9. \A j \in 1 .. N : ends[j] \in Nat
  BY <1>2
<1>3. \A j \in 1 .. N : Start(j + 1) = ends[j] /\ Start(j) + Header <= ends[j]
  <2>1. SUFFICES ASSUME NEW j \in 1 .. N PROVE Start(j + 1) = ends[j] /\ Start(j) + Header <= ends[j]
    OBVIOUS
  <2>2. j + 1 # 1 /\ (j + 1) - 1 = j
    BY <1>1
  <2>3. Start(j + 1) = ends[j]
    BY <2>2 DEF Start
  <2>4. QED
    BY <1>2, <2>3 DEF Header
<1>4. Start(N + 1) \in Nat
  <2>1. CASE N = 0
    BY <2>1 DEF Start
  <2>2. CASE N # 0
    <3>1. N \in 1 .. N
      BY <1>1, <2>2
    <3>2. QED
      BY <1>2, <1>3, <3>1
  <2>3. QED
    BY <2>1, <2>2
<1>5. \A j \in 1 .. N + 1 : j \in 1 .. N \/ j = N + 1
  BY <1>1
<1>6. \A j \in 1 .. N + 1 : Start(j) \in Nat
  BY <1>2, <1>4, <1>5
<1>7. ASSUME NEW i \in 1 .. N, NEW j \in 1 .. N + 1, i < j PROVE ends[i] <= Start(j)
  <2>1. CASE j \in 1 .. N
    BY <1>7, <2>1 DEF Layout
  <2>2. CASE j = N + 1 /\ i = N
    BY <1>2, <1>3, <1>6, <2>2
  <2>3. CASE j = N + 1 /\ i # N
    <3>1. N \in 1 .. N /\ i < N
      BY <1>1, <2>3
    <3>2. ends[i] <= Start(N) /\ Start(N) + Header <= ends[N]
      BY <1>3, <3>1 DEF Layout
    <3>6. ends[i] \in Nat /\ ends[N] \in Nat
      BY <1>9, <3>1
    <3>3. Start(j) = ends[N]
      BY <1>3, <2>3, <3>1
    <3>4. Start(N) \in Nat
      BY <1>2, <3>1
    <3>5. QED
      BY <3>2, <3>3, <3>4, <3>6 DEF Header
  <2>4. QED
    BY <1>5, <2>1, <2>2, <2>3
<1>8. QED
  BY <1>1, <1>3, <1>6, <1>7, <1>9 DEF Sent

\* A place in the stream belongs to one message.
LEMMA OneMessage ==
  ASSUME TypeOK, Layout, NEW i \in 1 .. N, NEW j \in 1 .. N, Start(i) = Start(j)
  PROVE  i = j
<1>1. i < j => Start(i) + Header <= Start(j)
  BY Places DEF Header
<1>2. j < i => Start(j) + Header <= Start(i)
  BY Places DEF Header
<1>3. i \in Nat /\ j \in Nat /\ Start(i) \in Nat
  BY Places
<1>4. QED
  BY <1>1, <1>2, <1>3 DEF Header

LEMMA Counts ==
  ASSUME FInv
  PROVE  /\ N \in Nat /\ Sent \in Nat /\ arrived \in Nat /\ taken \in Nat /\ due \in Nat
         /\ taken <= arrived /\ arrived <= Sent /\ Ready \in Nat /\ taken + Ready = arrived
         /\ Len(got) \in Nat /\ seen.length \in Nat /\ seen.op \in Ops
         /\ \A k \in 1 .. Len(got) : got[k].op \in Ops /\ got[k].of \in 0 .. N
<1> USE DEF FInv
<1>1. N \in Nat /\ Sent \in Nat
  BY Places
<1>2. arrived \in 0 .. Sent /\ taken \in 0 .. arrived /\ due \in Nat
  BY DEF TypeOK
<1>3. got \in Seq([op : Ops, of : 0 .. N]) /\ seen \in [op : Ops, length : Nat]
  BY DEF TypeOK
<1>4. Len(got) \in Nat /\ \A k \in 1 .. Len(got) : got[k] \in [op : Ops, of : 0 .. N]
  BY <1>3, LenProperties, ElementOfSeq
<1>5. arrived \in Nat /\ taken \in Nat /\ taken <= arrived /\ arrived <= Sent
  BY <1>1, <1>2
<1>6. Ready \in Nat /\ taken + Ready = arrived
  BY <1>5 DEF Ready
<1>7. QED
  BY <1>1, <1>2, <1>3, <1>4, <1>5, <1>6

-----------------------------------------------------------------------------
(***************************************************************************)
(* Steps of ps_recvd leave stream, ends, cut and arrived alone.            *)
(***************************************************************************)

StreamSame == stream' = stream /\ ends' = ends /\ cut' = cut /\ arrived' = arrived

LEMMA Same ==
  ASSUME StreamSame
  PROVE  /\ N' = N /\ Sent' = Sent /\ Kept' = Kept
         /\ \A j \in Nat : Start(j)' = Start(j)
         /\ Layout => Layout'
         /\ CutKnown => CutKnown'
BY DEF StreamSame, N, Sent, Kept, Start, Layout, CutKnown

\* A step that returns nothing takes bytes, or none, and goes on.
LEMMA GoOn ==
  ASSUME FInv, StreamSame, got' = got,
         taken' \in taken .. arrived, pc' \in {"peek", "take", "due"},
         seen' \in [op : Ops, length : Nat], due' \in Nat,
         Kept => AtMessage'
  PROVE  FInv'
<1>1. TypeOK'
  BY Same DEF FInv, TypeOK, StreamSame
<1>2. Behind'
  <2>1. SUFFICES ASSUME NEW k \in 1 .. Len(got), got[k].of # 0 PROVE ends[got[k].of] <= taken'
    BY DEF Behind, StreamSame
  <2>2. ends[got[k].of] <= taken
    BY <2>1 DEF FInv, Behind
  <2>3. got[k].of \in 1 .. N
    BY <2>1, Counts, SMTT(20)
  <2>4. ends[got[k].of] \in Nat
    BY <2>3, Places DEF FInv
  <2>5. taken \in Nat /\ arrived \in Nat /\ taken' \in taken .. arrived
    BY Counts
  <2>6. QED
    BY <2>2, <2>4, <2>5
<1>3. OnceInOrder'
  BY DEF FInv, OnceInOrder
<1>4. Kept' => Delivered' /\ AtMessage'
  BY Same DEF FInv, Delivered, StreamSame
<1>5. QED
  BY <1>1, <1>2, <1>3, <1>4, Same DEF FInv

\* Where ps_recvd looks for a header there is one, of the next message.
LEMMA HeaderThere ==
  ASSUME FInv, Kept, pc = "peek", Ready > 0, NEW k, k = Len(got) + 1
  PROVE  k \in 1 .. N /\ taken = Start(k) /\ Ready >= Header
<1>1. Len(got) \in Nat /\ Len(got) <= N /\ taken = Start(k) /\ N \in Nat
  BY Counts DEF FInv, Delivered, AtMessage
<1>2. k # N + 1
  <2>1. taken < arrived /\ arrived <= Sent /\ Sent \in Nat /\ taken \in Nat /\ arrived \in Nat
    BY Counts DEF Ready
  <2>2. Sent = Start(N + 1)
    BY Places DEF FInv
  <2>3. QED
    BY <1>1, <2>1, <2>2
<1>3. k \in 1 .. N
  BY <1>1, <1>2
<1>4. ~(arrived < Start(k) + Header)
  <2>1. SUFFICES ASSUME arrived < Start(k) + Header PROVE FALSE
    OBVIOUS
  <2>2. Start(k) + Header <= ends[k] /\ ends[k] \in Nat /\ Start(k) \in Nat
    BY <1>3, Places DEF FInv
  <2>3. Start(k) < arrived /\ arrived \in Nat
    BY <1>1, Counts DEF Ready
  <2>4. arrived < ends[k]
    BY <2>1, <2>2, <2>3 DEF Header
  <2>5. cut[k] = "bad"
    BY <1>3, <2>1, <2>3, <2>4 DEF FInv, CutKnown
  <2>6. QED
    BY <1>3, <2>5 DEF Kept
<1>5. QED
  <2>1. arrived \in Nat /\ taken \in Nat
    BY Counts
  <2>2. QED
    BY <1>1, <1>3, <1>4, <2>1 DEF Ready, Header

\* What the step to "take" has to establish.
LEMMA ToTake ==
  ASSUME FInv, StreamSame, got' = got, taken' = taken, pc' = "take",
         NEW k, k = Len(got) + 1, k \in 1 .. N, taken = Start(k), Ready >= Header,
         seen'.op = stream[k].op, seen'.length = stream[k].length
  PROVE  AtMessage'
<1>1. /\ N' = N /\ Start(k)' = Start(k) /\ Len(got') = Len(got)
  BY Same, Counts
<1>2. taken + Header <= arrived
  BY Counts DEF Ready, Header
<1>3. k <= N
  BY Counts
<1>4. QED
  BY <1>1, <1>2, <1>3 DEF AtMessage, StreamSame

LEMMA PeekStep ==
  ASSUME FInv, NEW j \in 1 .. N, PeekHeader(j)
  PROVE  FInv'
<1>1. /\ StreamSame /\ got' = got /\ taken' = taken /\ due' = due /\ pc = "peek" /\ pc' = "take"
      /\ HeaderOk(j)
      /\ seen' = [op |-> stream[j].op, length |-> IF Ready >= Header THEN stream[j].length ELSE 0]
  BY DEF PeekHeader, StreamSame
<1>2. seen' \in [op : Ops, length : Nat]
  BY <1>1, MessagesSent DEF FInv
<1>3. ASSUME Kept PROVE AtMessage'
  <2>1. taken = Start(j) /\ Ready >= 2
    BY <1>1 DEF HeaderOk, Opcode
  <2>2. Ready > 0
    BY <2>1, Counts
  <2>3. PICK k : k = Len(got) + 1
    OBVIOUS
  <2>4. k \in 1 .. N /\ taken = Start(k) /\ Ready >= Header
    BY <1>1, <1>3, <2>2, <2>3, HeaderThere
  <2>5. j = k
    BY <2>1, <2>4, OneMessage DEF FInv
  <2>6. seen'.op = stream[k].op /\ seen'.length = stream[k].length
    BY <1>1, <2>4, <2>5
  <2>7. QED
    BY <1>1, <2>3, <2>4, <2>6, ToTake
<1>4. taken' \in taken .. arrived /\ due' \in Nat
  BY <1>1, Counts
<1>5. QED
  BY <1>1, <1>2, <1>3, <1>4, GoOn

\* If the header is refused its client type is found, and no other before it.
LEMMA ResyncStep ==
  ASSUME FInv, NEW j \in 1 .. N, NEW i \in 0 .. Ready, Resync(j, i)
  PROVE  FInv'
<1>1. PICK op \in Ops :
        /\ StreamSame /\ got' = got /\ due' = due /\ pc = "peek" /\ pc' = "take"
        /\ NoHeader /\ ClientType(j, i)
        /\ \A m \in 1 .. j - 1 : Start(m) + 2 >= taken => stream[m].op = "KA"
        /\ taken' = IF i >= 2 THEN taken + (i - 2) ELSE taken
        /\ i >= 2 => \A m \in 1 .. N : Opcode(m) => op = stream[m].op
        /\ seen' = [op |-> op, length |-> IF i + 6 <= Ready THEN stream[j].length ELSE 0]
  BY DEF Resync, StreamSame
<1>2. seen' \in [op : Ops, length : Nat]
  BY <1>1, MessagesSent DEF FInv
<1>3. taken' \in taken .. arrived /\ due' \in Nat
  <2>1. i \in Nat /\ i <= Ready /\ taken \in Nat /\ Ready \in Nat /\ taken + Ready = arrived
        /\ due \in Nat
    BY Counts
  <2>2. QED
    BY <1>1, <2>1
<1>4. ASSUME Kept PROVE AtMessage'
  <2>1. PICK k : k = Len(got) + 1
    OBVIOUS
  <2>2. k \in 1 .. N /\ taken = Start(k) /\ Ready >= Header
    BY <1>1, <1>4, <2>1, HeaderThere DEF NoHeader
  <2>3. Opcode(k)
    BY <2>2, Counts DEF Opcode, Header
  <2>4. stream[k].op # "KA"
    BY <1>1, <2>2, <2>3 DEF NoHeader, HeaderOk
  <2>5. /\ i \in Nat /\ j \in Nat /\ k \in Nat /\ Start(j) \in Nat /\ Start(k) \in Nat
        /\ taken \in Nat /\ N \in Nat
    BY <2>2, Counts, Places DEF FInv
  <2>6. ~(k < j)
    <3>1. SUFFICES ASSUME k < j PROVE FALSE
      OBVIOUS
    <3>2. k \in 1 .. j - 1
      BY <2>2, <2>5, <3>1
    <3>3. Start(k) + 2 >= taken
      BY <2>2, <2>5
    <3>4. QED
      BY <1>1, <2>4, <3>2, <3>3
  <2>7. ~(j < k)
    <3>1. SUFFICES ASSUME j < k PROVE FALSE
      OBVIOUS
    <3>2. Start(j) + Header <= ends[j] /\ ends[j] <= Start(k) /\ ends[j] \in Nat
      BY <2>2, <3>1, Places DEF FInv
    <3>3. taken + i = Start(j) + 2
      BY <1>1 DEF ClientType
    <3>4. QED
      BY <2>2, <2>5, <3>2, <3>3 DEF Header
  <2>8. j = k
    BY <2>5, <2>6, <2>7
  <2>9. i = 2
    <3>1. taken + i = Start(j) + 2
      BY <1>1 DEF ClientType
    <3>2. QED
      BY <2>2, <2>5, <2>8, <3>1
  <2>10. taken' = taken
    BY <1>1, <2>5, <2>9
  <2>11. seen'.op = stream[k].op
    BY <1>1, <2>2, <2>3, <2>9
  <2>12. seen'.length = stream[k].length
    BY <1>1, <2>2, <2>8, <2>9, Counts DEF Header
  <2>13. QED
    BY <1>1, <2>1, <2>2, <2>10, <2>11, <2>12, ToTake
<1>5. QED
  BY <1>1, <1>2, <1>3, <1>4, GoOn

\* Nothing is thrown away while no header is cut.
LEMMA DiscardStep ==
  ASSUME FInv, Discard
  PROVE  FInv'
<1>1. /\ StreamSame /\ got' = got /\ taken' = arrived /\ pc = "peek" /\ pc' = pc /\ seen' = seen
      /\ due' = due /\ NoHeader
      /\ \A j \in 1 .. N, i \in 0 .. Ready : ~ClientType(j, i)
  BY DEF Discard, StreamSame, reader
<1>2. ~Kept
  <2>1. SUFFICES ASSUME Kept PROVE FALSE
    OBVIOUS
  <2>2. PICK k : k = Len(got) + 1
    OBVIOUS
  <2>3. k \in 1 .. N /\ taken = Start(k) /\ Ready >= Header
    BY <1>1, <2>1, <2>2, HeaderThere DEF NoHeader
  <2>4. Opcode(k)
    BY <2>3, Counts DEF Opcode, Header
  <2>5. stream[k].op # "KA"
    BY <1>1, <2>3, <2>4 DEF NoHeader, HeaderOk
  <2>6. 2 \in 0 .. Ready /\ 2 + 4 < Ready
    BY <2>3, Counts DEF Header
  <2>7. ClientType(k, 2)
    BY <2>3, <2>5, <2>6 DEF ClientType
  <2>8. QED
    BY <1>1, <2>3, <2>6, <2>7
<1>3. taken' \in taken .. arrived /\ due' \in Nat /\ seen' \in [op : Ops, length : Nat]
  <2>1. seen \in [op : Ops, length : Nat]
    BY DEF FInv, TypeOK
  <2>2. QED
    BY <1>1, <2>1, Counts
<1>4. QED
  BY <1>1, <1>2, <1>3, GoOn

LEMMA TakePartStep ==
  ASSUME FInv, TakePart
  PROVE  FInv'
<1>1. /\ StreamSame /\ got' = got /\ taken' = arrived /\ pc = "take" /\ pc' = "due" /\ seen' = seen
      /\ due' = seen.length - Ready /\ Ready < seen.length
  BY DEF TakePart, StreamSame
<1>2. taken' \in taken .. arrived /\ due' \in Nat /\ seen' \in [op : Ops, length : Nat]
  <2>1. seen \in [op : Ops, length : Nat]
    BY DEF FInv, TypeOK
  <2>2. QED
    BY <1>1, <2>1, Counts
<1>3. ASSUME Kept PROVE AtMessage'
  <2>1. PICK k : k = Len(got) + 1
    OBVIOUS
  <2>2. /\ k <= N /\ taken = Start(k) /\ taken + Header <= arrived
        /\ seen.op = stream[k].op /\ seen.length = stream[k].length
    BY <1>1, <1>3, <2>1 DEF FInv, AtMessage
  <2>3. k \in 1 .. N
    BY <2>1, <2>2, Counts
  <2>4. ends[k] = Start(k) + stream[k].length /\ ends[k] \in Nat /\ Start(k) \in Nat
    BY <2>3, Places DEF FInv, Layout
  <2>5. arrived < ends[k] /\ Start(k) < arrived /\ arrived + due' = ends[k] /\ 0 < due'
    <3>1. /\ taken \in Nat /\ arrived \in Nat /\ Ready \in Nat /\ taken + Ready = arrived
          /\ seen.length \in Nat
      BY Counts
    <3>2. ends[k] = taken + seen.length
      BY <2>2, <2>4
    <3>3. due' = seen.length - Ready /\ Ready < seen.length /\ taken + 8 <= arrived
      BY <1>1, <2>2 DEF Header
    <3>4. taken < arrived /\ arrived < ends[k] /\ arrived + due' = ends[k] /\ 0 < due'
      BY <3>1, <3>2, <3>3
    <3>5. QED
      BY <2>2, <3>4
  <2>6. cut[k] = "body"
    <3>1. cut[k] # "none"
      BY <2>3, <2>5 DEF FInv, CutKnown
    <3>2. cut[k] # "bad"
      BY <1>3, <2>3 DEF Kept
    <3>3. cut[k] \in {"none", "body", "bad"}
      <4>1. cut \in Seq({"none", "body", "bad"}) /\ Len(cut) = N
        BY DEF FInv, TypeOK, Layout
      <4>2. QED
        BY <2>3, <4>1, ElementOfSeq
    <3>4. QED
      BY <3>1, <3>2, <3>3
  <2>7. /\ N' = N /\ Start(k)' = Start(k) /\ Len(got') = Len(got)
    BY <1>1, <2>3, Same, Counts
  <2>8. QED
    BY <1>1, <2>1, <2>2, <2>5, <2>6, <2>7 DEF AtMessage, StreamSame
<1>4. QED
  BY <1>1, <1>2, <1>3, GoOn

\* A message of which the rest comes in two pieces is not kept.
LEMMA DuePartStep ==
  ASSUME FInv, DuePart
  PROVE  FInv'
<1>1. /\ StreamSame /\ got' = got /\ taken' = arrived /\ pc = "due" /\ pc' = pc /\ seen' = seen
      /\ due' = due /\ 0 < Ready /\ Ready < due
  BY DEF DuePart, StreamSame, reader
<1>2. taken' \in taken .. arrived /\ due' \in Nat /\ seen' \in [op : Ops, length : Nat]
  <2>1. seen \in [op : Ops, length : Nat]
    BY DEF FInv, TypeOK
  <2>2. QED
    BY <1>1, <2>1, Counts
<1>3. ~Kept
  <2>1. SUFFICES ASSUME Kept PROVE FALSE
    OBVIOUS
  <2>2. PICK k : k = Len(got) + 1
    OBVIOUS
  <2>3. k <= N /\ taken + due = ends[k] /\ (arrived = taken \/ ends[k] <= arrived)
    BY <1>1, <2>1, <2>2 DEF FInv, AtMessage
  <2>4. QED
    BY <1>1, <2>3, Counts
<1>4. QED
  BY <1>1, <1>2, <1>3, GoOn

-----------------------------------------------------------------------------
(***************************************************************************)
(* Steps that return: what was parsed is behind, and what is parsed next   *)
(* is not.                                                                 *)
(***************************************************************************)

LEMMA GoBack ==
  ASSUME FInv, StreamSame, NEW j \in 0 .. N, Return(j),
         taken' \in taken .. arrived, seen' = seen,
         j # 0 => taken = Start(j) /\ taken' = ends[j],
         Kept => LET k == Len(got) + 1 IN
                 /\ k <= N /\ taken' = ends[k] /\ seen.op = stream[k].op
                 /\ j = k \/ (j = 0 /\ cut[k] = "body")
  PROVE  FInv'
<1> DEFINE k == Len(got) + 1
           r == [op |-> seen.op, of |-> j]
<1>1. /\ got' = Append(got, r) /\ pc' = "peek" /\ due' = 0
      /\ got \in Seq([op : Ops, of : 0 .. N]) /\ r \in [op : Ops, of : 0 .. N]
  BY Counts DEF Return, FInv, TypeOK
<1>2. /\ got' \in Seq([op : Ops, of : 0 .. N]) /\ Len(got') = k
      /\ \A m \in 1 .. Len(got) : got'[m] = got[m]
      /\ got'[k] = r
  BY <1>1, AppendProperties
<1>3. /\ Len(got) \in Nat /\ \A m \in 1 .. k : m \in 1 .. Len(got) \/ m = k
      /\ \A m \in 1 .. Len(got) : m # k /\ m < k /\ m \in Nat
  <2>1. Len(got) \in Nat
    BY Counts
  <2>2. QED
    BY <2>1
<1>4. TypeOK'
  <2>1. seen \in [op : Ops, length : Nat] /\ stream \in Seq(Kinds) /\ ends \in Seq(Nat)
        /\ cut \in Seq({"none", "body", "bad"}) /\ arrived \in 0 .. Sent
    BY DEF FInv, TypeOK
  <2>2. taken' \in 0 .. arrived
    BY Counts
  <2> HIDE DEF k, r
  <2>3. QED
    BY <1>1, <1>2, <2>1, <2>2, Same DEF TypeOK, StreamSame
<1>5. ASSUME NEW m \in 1 .. Len(got), got[m].of # 0
      PROVE  got[m].of \in 1 .. N /\ ends[got[m].of] <= taken /\ ends[got[m].of] \in Nat
  <2>1. got[m].of \in 1 .. N
    BY <1>5, Counts
  <2>2. QED
    BY <1>5, <2>1, Places DEF FInv, Behind
<1>6. Behind'
  <2>1. SUFFICES ASSUME NEW m \in 1 .. Len(got'), got'[m].of # 0 PROVE ends[got'[m].of] <= taken'
    BY DEF Behind, StreamSame
  <2>2. taken \in Nat /\ arrived \in Nat
    BY Counts
  <2>3. CASE m = k
    <3>1. got'[m].of = j
      BY <1>2, <2>3
    <3>2. taken' = ends[j] /\ taken' \in Nat
      BY <2>1, <2>2, <3>1
    <3>3. QED
      BY <3>1, <3>2
  <2>4. CASE m \in 1 .. Len(got)
    <3>1. got'[m] = got[m]
      BY <1>2, <2>4
    <3>2. ends[got[m].of] <= taken /\ ends[got[m].of] \in Nat
      BY <1>5, <2>1, <2>4, <3>1
    <3>3. taken <= taken' /\ taken' \in Nat
      BY <2>2
    <3>4. QED
      BY <2>2, <3>1, <3>2, <3>3
  <2>5. QED
    BY <1>2, <1>3, <2>1, <2>3, <2>4
<1>7. OnceInOrder'
  <2>1. SUFFICES ASSUME NEW m \in 1 .. Len(got'), NEW n \in 1 .. Len(got'),
                        m < n, got'[m].of # 0, got'[n].of # 0
                 PROVE  got'[m].of < got'[n].of
    BY DEF OnceInOrder
  <2>2. m \in 1 .. Len(got)
    BY <1>2, <1>3, <2>1
  <2>3. got'[m] = got[m]
    BY <1>2, <2>2
  <2>4. CASE n \in 1 .. Len(got)
    BY <1>2, <2>1, <2>2, <2>3, <2>4 DEF FInv, OnceInOrder
  <2>5. CASE n = k
    <3>1. got'[n].of = j
      BY <1>2, <2>5
    <3>2. j # 0 /\ j \in 1 .. N /\ taken = Start(j)
      BY <2>1, <3>1, Counts
    <3>3. PICK i \in 1 .. N : i = got[m].of
      BY <1>5, <2>1, <2>2, <2>3
    <3>4. ends[i] <= Start(j)
      BY <1>5, <2>1, <2>2, <2>3, <3>2, <3>3
    <3>5. j < i => ends[j] <= Start(i)
      BY <3>2, Places DEF FInv
    <3>6. /\ Start(i) + Header <= ends[i] /\ Start(j) + Header <= ends[j]
          /\ ends[i] \in Nat /\ ends[j] \in Nat /\ Start(i) \in Nat /\ Start(j) \in Nat
          /\ i \in Nat /\ j \in Nat
      BY <3>2, Places DEF FInv
    <3>7. i < j
      <4> HIDE DEF k, r
      <4>1. CASE i = j
        BY <3>4, <3>6, <4>1 DEF Header
      <4>2. CASE j < i
        BY <3>4, <3>5, <3>6, <4>2 DEF Header
      <4>3. QED
        BY <3>6, <4>1, <4>2
    <3>8. QED
      BY <2>3, <3>1, <3>3, <3>7
  <2>6. QED
    BY <1>2, <1>3, <2>4, <2>5
<1>8. ASSUME Kept' PROVE Delivered' /\ AtMessage'
  <2>1. Kept
    BY <1>8, Same
  <2>2. /\ k <= N /\ taken' = ends[k] /\ seen.op = stream[k].op
        /\ j = k \/ (j = 0 /\ cut[k] = "body")
    BY <2>1
  <2>3. Delivered'
    <3>1. SUFFICES ASSUME NEW m \in 1 .. k
                   PROVE  /\ got'[m].op = stream[m].op
                          /\ got'[m].of = m \/ (got'[m].of = 0 /\ cut[m] = "body")
      BY <1>2, <2>2, Same DEF Delivered, StreamSame
    <3>2. CASE m = k
      BY <1>2, <2>2, <3>2
    <3>3. CASE m \in 1 .. Len(got)
      BY <1>2, <2>1, <3>3 DEF FInv, Delivered
    <3>4. QED
      BY <1>3, <3>2, <3>3
  <2>4. AtMessage'
    <3>1. k \in 1 .. N
      BY <1>3, <2>2, Counts
    <3>2. PICK n \in Nat : n = k + 1
      BY <3>1
    <3>3. Start(n) = ends[k]
      BY <3>1, <3>2, Places DEF FInv
    <3>4. taken' = Start(n)'
      BY <2>2, <3>2, <3>3, Same
    <3>5. n = Len(got') + 1
      BY <1>2, <3>2
    <3>6. QED
      BY <1>1, <3>4, <3>5 DEF AtMessage
  <2>5. QED
    BY <2>3, <2>4
<1>9. QED
  BY <1>4, <1>6, <1>7, <1>8, Same DEF FInv

LEMMA TakeStep ==
  ASSUME FInv, Take
  PROVE  FInv'
<1>1. PICK j \in Result : Return(j)
  BY DEF Take
<1>2. /\ StreamSame /\ seen' = seen /\ pc = "take"
      /\ seen.length <= Ready /\ taken' = taken + seen.length
  BY DEF Take, StreamSame
<1>3. taken' \in taken .. arrived
  <2>1. /\ taken \in Nat /\ Ready \in Nat /\ taken + Ready = arrived /\ seen.length \in Nat
    BY Counts
  <2>2. QED
    BY <1>2, <2>1
<1>4. /\ j \in 0 .. N
      /\ j # 0 => j \in Parsed
  BY <1>1, Counts DEF Result, Parsed
<1>5. j # 0 => taken = Start(j) /\ taken' = ends[j]
  BY <1>2, <1>4 DEF Parsed, FInv, Layout
<1>6. ASSUME Kept
      PROVE  LET k == Len(got) + 1 IN
             k <= N /\ taken' = ends[k] /\ seen.op = stream[k].op /\ j = k
  <2>1. PICK k : k = Len(got) + 1
    OBVIOUS
  <2>2. /\ k <= N /\ taken = Start(k)
        /\ seen.op = stream[k].op /\ seen.length = stream[k].length
    BY <1>2, <1>6, <2>1 DEF FInv, AtMessage
  <2>3. k \in 1 .. N
    BY <2>1, <2>2, Counts
  <2>4. k \in Parsed /\ taken' = ends[k]
    BY <1>2, <2>2, <2>3 DEF Parsed, FInv, Layout
  <2>5. j \in Parsed
    BY <2>4 DEF Result
  <2>6. j = k
    BY <2>3, <2>4, <2>5, OneMessage DEF Parsed, FInv
  <2>7. QED
    BY <2>1, <2>2, <2>4, <2>6
<1>7. QED
  BY <1>1, <1>2, <1>3, <1>4, <1>5, <1>6, GoBack

LEMMA DueStep ==
  ASSUME FInv, Due
  PROVE  FInv'
<1>1. /\ StreamSame /\ seen' = seen /\ pc = "due" /\ Return(0)
      /\ Ready >= due /\ taken' = taken + due
  BY DEF Due, StreamSame
<1>2. taken' \in taken .. arrived /\ 0 \in 0 .. N
  <2>1. /\ taken \in Nat /\ Ready \in Nat /\ taken + Ready = arrived /\ due \in Nat /\ N \in Nat
    BY Counts
  <2>2. QED
    BY <1>1, <2>1
<1>3. ASSUME Kept
      PROVE  LET k == Len(got) + 1 IN
             k <= N /\ taken' = ends[k] /\ seen.op = stream[k].op /\ cut[k] = "body"
  BY <1>1, <1>3 DEF FInv, AtMessage
<1>4. QED
  BY <1>1, <1>2, <1>3, GoBack

-----------------------------------------------------------------------------
(***************************************************************************)
(* Steps of the CMTS and of TCP.                                           *)
(***************************************************************************)

LEMMA WriteStep ==
  ASSUME FInv, NEW m \in Kinds, Write(m)
  PROVE  FInv'
<1> DEFINE n == N + 1
<1>1. /\ stream' = Append(stream, m) /\ ends' = Append(ends, Sent + m.length)
      /\ cut' = Append(cut, "none") /\ arrived' = arrived /\ taken' = taken
      /\ pc' = pc /\ seen' = seen /\ due' = due /\ got' = got
  BY DEF Write, reader
<1>2. /\ stream \in Seq(Kinds) /\ ends \in Seq(Nat) /\ cut \in Seq({"none", "body", "bad"})
      /\ Len(stream) = N /\ Len(ends) = N /\ Len(cut) = N /\ N \in Nat
      /\ Sent \in Nat /\ m.length \in Nat /\ m.length >= Header
  BY Counts, KindsAssumption DEF FInv, TypeOK, Layout, N
<1>3. Sent + m.length \in Nat
  BY <1>2
<1>4. /\ stream' \in Seq(Kinds) /\ ends' \in Seq(Nat) /\ cut' \in Seq({"none", "body", "bad"})
      /\ Len(stream') = n /\ Len(ends') = n /\ Len(cut') = n
      /\ \A j \in 1 .. N : stream'[j] = stream[j] /\ ends'[j] = ends[j] /\ cut'[j] = cut[j]
      /\ stream'[n] = m /\ ends'[n] = Sent + m.length /\ cut'[n] = "none"
  BY <1>1, <1>2, <1>3, AppendProperties
<1>5. N' = n /\ n \in Nat /\ \A j \in 1 .. n : j \in 1 .. N \/ j = n
  BY <1>2, <1>4 DEF N
<1>6. \A j \in 1 .. n : Start(j)' = Start(j)
  <2>1. \A j \in 1 .. n : j = 1 \/ j - 1 \in 1 .. N
    BY <1>2
  <2>2. QED
    BY <1>4, <2>1 DEF Start
<1>7. \A j \in 1 .. N : j \in 1 .. n /\ j < n
  BY <1>2
<1>8. Start(n) = Sent /\ n \in 1 .. n
  BY <1>2, Places DEF FInv
<1> HIDE DEF n
<1>9. Layout'
  <2>1. \A j \in 1 .. n : Start(j) \in Nat /\ ends'[j] = Start(j) + stream'[j].length
    BY <1>2, <1>4, <1>5, <1>8 DEF FInv, Layout
  <2>2. \A i, j \in 1 .. n : i < j => i \in 1 .. N
    BY <1>2, <1>5, <1>7
  <2>3. \A i \in 1 .. N : ends[i] <= Start(n)
    BY <1>5, <1>7, <1>8, Places DEF FInv, n
  <2>4. \A i, j \in 1 .. n : i < j => ends'[i] <= Start(j)
    BY <1>4, <1>5, <2>2, <2>3 DEF FInv, Layout
  <2>5. QED
    BY <1>4, <1>5, <1>6, <2>1, <2>4 DEF Layout
<1>10. Sent' = Sent + m.length
  <2>1. PICK x \in Nat : x = n + 1
    BY <1>5
  <2>2. x # 1 /\ x - 1 = n
    BY <1>2, <2>1 DEF n
  <2>3. Start(x)' = ends'[n]
    BY <2>2 DEF Start
  <2>4. x = N' + 1
    BY <1>5, <2>1
  <2>5. QED
    BY <1>4, <2>3, <2>4 DEF Sent
<1>11. TypeOK'
  <2>1. /\ arrived \in 0 .. Sent /\ taken \in 0 .. arrived /\ pc \in {"peek", "take", "due"}
        /\ seen \in [op : Ops, length : Nat] /\ due \in Nat /\ got \in Seq([op : Ops, of : 0 .. N])
    BY DEF FInv, TypeOK
  <2>2. arrived \in 0 .. Sent + m.length
    BY <1>2, <2>1
  <2>3. got \in Seq([op : Ops, of : 0 .. n])
    <3>1. [op : Ops, of : 0 .. N] \subseteq [op : Ops, of : 0 .. n]
      BY <1>2 DEF n
    <3>2. QED
      BY <2>1, <3>1, SeqMonotonic
  <2>4. QED
    BY <1>1, <1>4, <1>5, <1>10, <2>1, <2>2, <2>3 DEF TypeOK
<1>12. CutKnown'
  <2>1. SUFFICES ASSUME NEW j \in 1 .. n, Start(j) < arrived, arrived < ends'[j]
                 PROVE  /\ cut'[j] # "none"
                        /\ arrived < Start(j) + Header => cut'[j] = "bad"
    BY <1>1, <1>5, <1>6 DEF CutKnown
  <2>2. j # n
    BY <1>8, <2>1, Counts
  <2>3. QED
    BY <1>4, <1>5, <2>1, <2>2 DEF FInv, CutKnown
<1>13. Behind'
  <2>1. \A k \in 1 .. Len(got) : got[k].of # 0 => got[k].of \in 1 .. N
    BY Counts
  <2>2. QED
    BY <1>1, <1>4, <2>1 DEF FInv, Behind
<1>14. OnceInOrder'
  BY <1>1 DEF FInv, OnceInOrder
<1>15. ASSUME Kept' PROVE Delivered' /\ AtMessage'
  <2>1. Kept
    BY <1>4, <1>5, <1>7, <1>15 DEF Kept
  <2>2. Len(got) <= N /\ Len(got) \in Nat
    BY <2>1, Counts DEF FInv, Delivered
  <2>3. Delivered'
    <3>1. \A k \in 1 .. Len(got) : k \in 1 .. N
      BY <1>2, <2>2
    <3>2. Len(got) <= n
      BY <1>2, <2>2 DEF n
    <3>3. QED
      BY <1>1, <1>4, <1>5, <2>1, <3>1, <3>2 DEF FInv, Delivered
  <2>4. AtMessage'
    <3>1. PICK k \in Nat : k = Len(got) + 1
      BY <2>2
    <3>2. k \in 1 .. n /\ (k <= N => k \in 1 .. N /\ k <= n)
      BY <1>2, <2>2, <3>1 DEF n
    <3>3. Start(k)' = Start(k)
      BY <1>6, <3>2
    <3>4. AtMessage
      BY <2>1 DEF FInv
    <3>5. Len(got') + 1 = k
      BY <1>1, <3>1
    <3>6. QED
      BY <1>1, <1>4, <1>5, <3>1, <3>2, <3>3, <3>4, <3>5 DEF AtMessage
  <2>5. QED
    BY <2>3, <2>4
<1>16. QED
  BY <1>9, <1>11, <1>12, <1>13, <1>14, <1>15 DEF FInv

LEMMA ArriveStep ==
  ASSUME FInv, NEW b \in arrived + 1 .. Sent, Arrive(b)
  PROVE  FInv'
<1>1. /\ stream' = stream /\ ends' = ends /\ taken' = taken /\ pc' = pc /\ seen' = seen
      /\ due' = due /\ got' = got /\ arrived' = b
      /\ cut' = [j \in 1 .. N |->
                    IF Start(j) < b /\ b < ends[j]
                    THEN IF b >= Start(j) + Header /\ cut[j] = "none" THEN "body" ELSE "bad"
                    ELSE cut[j]]
  BY DEF Arrive, reader
<1>2. N' = N /\ Sent' = Sent /\ \A j \in Nat : Start(j)' = Start(j)
  BY <1>1 DEF N, Sent, Start
<1>3. /\ N \in Nat /\ arrived \in Nat /\ b \in Nat /\ taken \in Nat /\ arrived < b /\ b <= Sent
      /\ taken <= arrived /\ Sent \in Nat
  BY Counts
<1>4. \A j \in 1 .. N : cut[j] \in {"none", "body", "bad"}
  <2>1. cut \in Seq({"none", "body", "bad"}) /\ Len(cut) = N
    BY DEF FInv, TypeOK, Layout
  <2>2. QED
    BY <2>1, ElementOfSeq
<1>5. cut' \in Seq({"none", "body", "bad"}) /\ Len(cut') = N
  <2>1. cut' \in [1 .. N -> {"none", "body", "bad"}]
    BY <1>1, <1>4
  <2>2. QED
    BY <1>3, <2>1
<1>6. Layout'
  <2>1. \A j \in 1 .. N : Start(j)' = Start(j)
    BY <1>2
  <2>2. Len(ends') = N' /\ Len(cut') = N'
    BY <1>1, <1>2, <1>5 DEF FInv, Layout
  <2>3. \A j \in 1 .. N : Start(j)' \in Nat /\ ends'[j] = Start(j)' + stream'[j].length
    BY <1>1, <2>1 DEF FInv, Layout
  <2>4. \A i, j \in 1 .. N : i < j => ends'[i] <= Start(j)'
    BY <1>1, <2>1 DEF FInv, Layout
  <2>5. QED
    BY <1>2, <2>2, <2>3, <2>4 DEF Layout
<1>7. TypeOK'
  <2>1. stream \in Seq(Kinds) /\ ends \in Seq(Nat) /\ pc \in {"peek", "take", "due"}
        /\ seen \in [op : Ops, length : Nat] /\ due \in Nat /\ got \in Seq([op : Ops, of : 0 .. N])
    BY DEF FInv, TypeOK
  <2>2. b \in 0 .. Sent /\ taken \in 0 .. b
    BY <1>3
  <2>3. QED
    BY <1>1, <1>2, <1>5, <2>1, <2>2 DEF TypeOK
<1>8. CutKnown'
  <2>1. SUFFICES ASSUME NEW j \in 1 .. N, Start(j) < b, b < ends[j]
                 PROVE  /\ cut'[j] # "none"
                        /\ b < Start(j) + Header => cut'[j] = "bad"
    BY <1>1, <1>2, <1>3 DEF CutKnown
  <2>2. cut'[j] = IF b >= Start(j) + Header /\ cut[j] = "none" THEN "body" ELSE "bad"
    BY <1>1, <2>1
  <2>3. Start(j) \in Nat
    BY Places DEF FInv
  <2>4. QED
    BY <1>3, <2>2, <2>3 DEF Header
<1>9. Behind' /\ OnceInOrder'
  BY <1>1 DEF FInv, Behind, OnceInOrder
<1>10. ASSUME Kept', NEW j \in 1 .. N
       PROVE  /\ cut[j] # "bad"
              /\ cut[j] = "body" => cut'[j] = "body" /\ ~(Start(j) < b /\ b < ends[j])
  <2>1. cut'[j] # "bad"
    BY <1>2, <1>10 DEF Kept
  <2>2. QED
    BY <1>1, <2>1
<1>11. ASSUME Kept' PROVE Delivered' /\ AtMessage'
  <2>1. Kept
    BY <1>10, <1>11 DEF Kept
  <2>2. Delivered'
    <3>1. \A k \in 1 .. Len(got) : k \in 1 .. N
      BY <1>3, <2>1, Counts DEF FInv, Delivered
    <3>2. QED
      BY <1>1, <1>2, <1>10, <1>11, <2>1, <3>1 DEF FInv, Delivered
  <2>3. AtMessage'
    <3>1. PICK k \in Nat : k = Len(got) + 1
      BY Counts
    <3>2. AtMessage
      BY <2>1 DEF FInv
    <3>3. k = Len(got') + 1 /\ Start(k)' = Start(k)
      BY <1>1, <1>2, <3>1
    <3>4. ASSUME pc = "take" PROVE taken + Header <= b
      BY <1>3, <3>2, <3>4 DEF AtMessage, Header
    <3>5. ASSUME pc = "due"
          PROVE  cut'[k] = "body" /\ ends[k] <= b
      <4>1. /\ k <= N /\ Start(k) < taken /\ cut[k] = "body"
        BY <3>1, <3>2, <3>5 DEF AtMessage
      <4>2. k \in 1 .. N
        BY <1>3, <3>1, <4>1, Counts
      <4>3. cut'[k] = "body" /\ ~(Start(k) < b /\ b < ends[k])
        BY <1>10, <1>11, <4>1, <4>2
      <4>4. Start(k) \in Nat /\ ends[k] \in Nat
        BY <4>2, Places DEF FInv
      <4>5. QED
        BY <1>3, <4>1, <4>3, <4>4
    <3>6. QED
      BY <1>1, <1>2, <3>1, <3>2, <3>3, <3>4, <3>5 DEF AtMessage
  <2>4. QED
    BY <2>2, <2>3
<1>12. QED
  BY <1>6, <1>7, <1>8, <1>9, <1>11 DEF FInv

LEMMA FStep == FInv /\ [Next]_vars => FInv'
<1> SUFFICES ASSUME FInv, [Next]_vars PROVE FInv'
  OBVIOUS
<1>1. ASSUME UNCHANGED vars PROVE FInv'
  BY <1>1 DEF vars, FInv, TypeOK, Layout, CutKnown, Behind, OnceInOrder, Kept, Delivered,
     AtMessage, N, Sent, Start
<1>2. ASSUME Recvd PROVE FInv'
  BY <1>2, PeekStep, ResyncStep, DiscardStep, TakeStep, TakePartStep, DueStep, DuePartStep
     DEF Recvd
<1>3. QED
  BY <1>1, <1>2, WriteStep, ArriveStep DEF Next

\* However TCP cuts the stream, ps_recvd stands at the place of a message, or
\* behind one it has lost, and what it has returned is what lies before that.
THEOREM FramingInvariant == Spec => []FInv
<1>1. QED
  BY FInit, FStep, PTL DEF Spec

\* Types, for any messages and any bounds.
THEOREM FramingTypes == Spec => []TypeOK
<1>1. FInv => TypeOK
  BY DEF FInv
<1>2. QED
  BY <1>1, FramingInvariant, PTL

\* ps_recvd returns every message once and in order, whatever its length and
\* opcode, as long as TCP cuts no header and no message twice.
THEOREM DeliveredHolds == Spec => []Delivered
<1>1. FInv => Delivered
  BY DEF FInv, Delivered
<1>2. QED
  BY <1>1, FramingInvariant, PTL

\* ... and parses none twice or after a later one, wherever TCP cuts.
THEOREM OnceInOrderHolds == Spec => []OnceInOrder
<1>1. FInv => OnceInOrder
  BY DEF FInv
<1>2. QED
  BY <1>1, FramingInvariant, PTL

-----------------------------------------------------------------------------
(* ReportDecode: where the walks are, and what is behind them.             *)

\* k objects of objs are behind the place i.
Reached(objs, i, k, end) == i = IF k = Len(objs) THEN end ELSE objs[k + 1].at
InBody(o, i) == o.at < i /\ i < o.at + o.length

\* ps_recvd has dealt with p objects of the message m, or is in the body of the
\* last of them, which it reads as headers.
AtPart(m, i, p) ==
    /\ i % 4 = 0
    /\ \/ Reached(m.parts, i, p, 2 * Len(m.words))
       \/ p > 0 /\ ~ReportIn(m, m.parts[p].kind) /\ InBody(m.parts[p], i)

\* ps_pcmm_report has dealt with k objects of the report in the object o.
AtObject(o, i, k) ==
    /\ i % 4 = 0
    /\ \/ Reached(o.inner, i, k, o.at + o.length)
       \/ k > 0 /\ ~Known(o.inner[k].kind) /\ InBody(o.inner[k], i)

\* r is what k objects say.
Reads(m, r, objs, k) ==
    /\ Means(m, r, SubSeq(objs, 1, k))
    /\ (r.state <=> Said(m, SubSeq(objs, 1, k), Both(15), 1) \notin {0, 65535})

\* The reports among the first k objects are filed.
FiledBy(m, f, k) ==
    /\ Len(f) = Cardinality({q \in Written(m) : q <= k})
    /\ \A p \in Written(m) : p <= k => Tells(m, f[Rank(m, p)], m.parts[p].inner)

\* The first handle among k objects is taken, if one was wanted.
HandleBy(m, b, h, received, k) ==
    LET handles == {p \in 1 .. k : HandleIn(m.parts[p].kind)} IN
    IF b.uuid_received \/ handles = {}
    THEN h = b.handle /\ received = b.uuid_received
    ELSE /\ received
         /\ \E p \in handles :
               /\ \A q \in handles : p <= q
               /\ h = <<At(m.words, m.parts[p].at + 4), At(m.words, m.parts[p].at + 6)>>

InObjects(m, b, f, h, received, i) ==
    \E p \in 0 .. Len(m.parts) :
        AtPart(m, i, p) /\ FiledBy(m, f, p) /\ HandleBy(m, b, h, received, p)

InReport(m, b, f, h, received, i, end, r) ==
    \E p \in 1 .. Len(m.parts) :
        /\ ReportIn(m, m.parts[p].kind) /\ m.parts[p].length > 4
        /\ end = m.parts[p].at + m.parts[p].length
        /\ FiledBy(m, f, p - 1) /\ HandleBy(m, b, h, received, p)
        /\ \E k \in 0 .. Len(m.parts[p].inner) :
              AtObject(m.parts[p], i, k) /\ Reads(m, r, m.parts[p].inner, k)

Complete(m, b, f, h, received) ==
    FiledBy(m, f, Len(m.parts)) /\ HandleBy(m, b, h, received, Len(m.parts))

\* What is idle is at the beginning; what walks has a message to walk over.
Rests ==
    /\ walk = "idle" => idx = 0
    /\ walk # "idle" => message # 0

\* Decoded made inductive: where both walks are in a message no object of which
\* is taken for another, and what has been done of it.
Walked ==
    Plain(Text, before.uuid_received) =>
        /\ walk = "objects" => InObjects(Text, before, filed, handle, uuid_received, idx)
        /\ walk = "report" => InReport(Text, before, filed, handle, uuid_received, rpt_idx, end_idx, rpt)
        /\ Finished => Complete(Text, before, filed, handle, uuid_received)

DecodeInv == DecodeTypeOK /\ Rests /\ Walked

-----------------------------------------------------------------------------
(* Numbers, words, and the last object of a kind.                          *)

\* Every set of numbers has a least one: what induction is made of here.
LEMMA LeastNat ==
  ASSUME NEW T \in SUBSET Nat, T # {}
  PROVE  \E x \in T : \A y \in T : x <= y
<1> DEFINE R == OpToRel(<, Nat)
<1>1. IsWellFoundedOn(R, Nat)
  BY NatLessThanWellFounded
<1>2. \A x, y \in Nat : x < y => <<x, y>> \in R
  BY DEF OpToRel
<1> HIDE DEF R
<1>3. PICK x \in T : \A y \in T : ~(<<y, x>> \in R)
  BY <1>1, WFMin, Zenon
<1>4. ASSUME NEW y \in T PROVE x <= y
  <2>1. x \in Nat /\ y \in Nat
    OBVIOUS
  <2>2. ~(<<y, x>> \in R)
    BY <1>3
  <2>3. ~(y < x)
    BY <1>2, <2>1, <2>2, Zenon
  <2>4. QED
    BY ONLY <2>1, <2>3
<1>5. QED
  BY <1>4

LEMMA WordIs ==
  0 \in Word /\ \A w \in Word : w \in Nat /\ w <= 65535
<1>1. MaxWord \in Nat /\ MaxWord <= 65535
  BY DEF MaxWord
<1>2. QED
  BY <1>1 DEF Word

\* A word of a buffer.
LEMMA AtWord ==
  ASSUME NEW words \in Seq(Word), NEW i \in Nat
  PROVE  At(words, i) \in Word
<1>1. 0 \in Word
  BY WordIs
<1>2. CASE i \div 2 < Len(words)
  <2>1. i \div 2 + 1 \in 1 .. Len(words)
    BY <1>2
  <2>2. QED
    BY <1>2, <2>1, ElementOfSeq DEF At
<1>3. QED
  BY <1>1, <1>2 DEF At

\* The last object of some kinds.
LEMMA LastIs ==
  ASSUME NEW objs, Len(objs) \in Nat, NEW kinds
  PROVE  LET l == LastOf(objs, kinds)
         IN  /\ l \in 0 .. Len(objs)
             /\ l # 0 => objs[l].kind \in kinds
             /\ \A k \in 1 .. Len(objs) : objs[k].kind \in kinds => k <= l
<1> DEFINE n == Len(objs)
           these == {k \in 1 .. n : objs[k].kind \in kinds}
           mirror == {d \in 0 .. n - 1 : n - d \in these}
<1>1. CASE these = {}
  BY <1>1 DEF LastOf
<1>2. CASE these # {}
  <2>1. mirror \in SUBSET Nat
    OBVIOUS
  <2>2. mirror # {}
    <3>1. PICK k : k \in these
      BY <1>2
    <3>2. n - k \in 0 .. n - 1 /\ n - (n - k) = k
      BY <3>1
    <3>3. QED
      BY <3>1, <3>2
  <2>3. PICK d \in mirror : \A e \in mirror : d <= e
    BY <2>1, <2>2, LeastNat
  <2>4. n - d \in these /\ d \in 0 .. n - 1
    OBVIOUS
  <2>5. ASSUME NEW k \in these PROVE k <= n - d
    <3>1. k \in 1 .. n
      OBVIOUS
    <3>2. n - k \in 0 .. n - 1 /\ n - (n - k) = k
      BY <3>1
    <3>3. n - k \in mirror
      BY <3>2
    <3>4. d <= n - k
      BY <2>3, <3>3
    <3>5. QED
      BY <2>4, <3>1, <3>4
  <2>6. LastOf(objs, kinds) = CHOOSE k \in these : \A l \in these : l <= k
    BY <1>2 DEF LastOf
  <2> DEFINE l == LastOf(objs, kinds)
  <2>7. l \in these /\ \A k \in these : k <= l
    <3> HIDE DEF these
    <3>1. \E k \in these : \A j \in these : j <= k
      BY <2>4, <2>5
    <3>2. QED
      BY <2>6, <3>1
  <2>8. QED
    BY <2>7
<1>3. QED
  BY <1>1, <1>2

\* One object more: the last is that one or the one before.
LEMMA LastStep ==
  ASSUME NEW S, NEW objs \in Seq(S), NEW k \in 1 .. Len(objs), NEW kinds
  PROVE  /\ LastOf(SubSeq(objs, 1, k), kinds) =
               IF objs[k].kind \in kinds THEN k ELSE LastOf(SubSeq(objs, 1, k - 1), kinds)
         /\ LastOf(SubSeq(objs, 1, k - 1), kinds) \in 0 .. k - 1
<1> DEFINE s == SubSeq(objs, 1, k)
           t == SubSeq(objs, 1, k - 1)
           l == LastOf(s, kinds)
           j == LastOf(t, kinds)
<1>1. /\ Len(s) = k /\ \A i \in 1 .. k : s[i] = objs[i]
      /\ Len(t) = k - 1 /\ \A i \in 1 .. k - 1 : t[i] = objs[i]
  OBVIOUS
<1> HIDE DEF s, t
<1>2. /\ l \in 0 .. k
      /\ l # 0 => s[l].kind \in kinds
      /\ \A i \in 1 .. k : s[i].kind \in kinds => i <= l
  BY <1>1, LastIs
<1>3. /\ j \in 0 .. k - 1
      /\ j # 0 => t[j].kind \in kinds
      /\ \A i \in 1 .. k - 1 : t[i].kind \in kinds => i <= j
  BY <1>1, LastIs
<1> HIDE DEF l, j
<1>4. CASE objs[k].kind \in kinds
  <2>1. k <= l
    BY <1>1, <1>2, <1>4
  <2>2. QED
    BY <1>2, <1>3, <1>4, <2>1 DEF l, j, s, t
<1>5. CASE objs[k].kind \notin kinds
  <2>1. l # k
    BY <1>1, <1>2, <1>5
  <2>2. l # 0 => l <= j
    BY <1>1, <1>2, <1>3, <2>1
  <2>3. j # 0 => j <= l
    BY <1>1, <1>2, <1>3
  <2>4. l = j
    BY <1>2, <1>3, <2>2, <2>3
  <2>5. QED
    BY <1>3, <1>5, <2>4 DEF l, j, s, t
<1>6. QED
  BY <1>4, <1>5

\* What the objects say of a kind, with one object more.
LEMMA SaidStep ==
  ASSUME NEW S, NEW objs \in Seq(S), NEW k \in 1 .. Len(objs), NEW kinds, NEW m, NEW n
  PROVE  Said(m, SubSeq(objs, 1, k), kinds, n) =
            IF objs[k].kind \in kinds THEN At(m.words, objs[k].at + 4 + 2 * n)
                                      ELSE Said(m, SubSeq(objs, 1, k - 1), kinds, n)
<1> DEFINE s == SubSeq(objs, 1, k)
           t == SubSeq(objs, 1, k - 1)
           j == LastOf(t, kinds)
<1>1. /\ \A i \in 1 .. k : s[i] = objs[i]
      /\ \A i \in 1 .. k - 1 : t[i] = objs[i] /\ s[i] = t[i]
  OBVIOUS
<1>2. /\ LastOf(s, kinds) = IF objs[k].kind \in kinds THEN k ELSE j
      /\ j \in 0 .. k - 1
  BY LastStep
<1> HIDE DEF s, t, j
<1>3. k # 0 /\ s[k] = objs[k]
  BY <1>1
<1>4. j # 0 => s[j] = t[j]
  BY <1>1, <1>2
<1>5. Said(m, s, kinds, n) =
         IF objs[k].kind \in kinds THEN At(m.words, objs[k].at + 4 + 2 * n) ELSE Said(m, t, kinds, n)
  BY <1>2, <1>3, <1>4 DEF Said, j
<1>6. QED
  BY <1>5 DEF s, t

-----------------------------------------------------------------------------
(* What a report says grows with its objects.                              *)

\* Which kinds are which, and what is known is none of the others.
LEMMA KindsApart ==
  /\ GateId = 1025 /\ GateSpec = 1281 /\ Legacy = 1537 /\ Extended = 1538
  /\ Both(1) = {257, 258} /\ Both(2) = {513, 514}
  /\ Both(14) = {3585, 3586} /\ Both(15) = {3841, 3842}
BY DEF GateId, GateSpec, Legacy, Extended, Both, Kind

\* The kinds that are told by their number and their type.
LEMMA KindNumbers ==
  /\ Num(GateId) = 4 /\ Num(GateSpec) = 5 /\ Num(Legacy) = 6 /\ Num(Extended) = 6
  /\ GateId # GateSpec /\ Legacy # Extended
BY KindsApart DEF Num

\* Of a known kind the number says which decoder has it; one that is not known is
\* none of those a report is read for.
LEMMA KindIs ==
  ASSUME NEW kind \in Word
  PROVE  /\ Known(kind) => \A n \in {1, 2, 14, 15} : (kind \in Both(n)) = (Num(kind) = n)
         /\ ~Known(kind) => kind \notin {1025, 1281, 1537, 1538, 257, 258, 513, 514, 3585, 3586, 3841, 3842}
<1>1. kind \in Nat /\ kind = 256 * (kind \div 256) + (kind % 256) /\ (kind % 256) \in 0 .. 255
      /\ (kind \div 256) \in Nat
  <2>1. kind \in Nat
    BY WordIs
  <2>2. QED
    BY ONLY <2>1
<1> DEFINE n == kind \div 256
           t == kind % 256
<1>2. Known(kind) <=> n \in 1 .. 19 /\ t \in 1 .. 2
  BY DEF Known, Num, Type
<1>3. kind = 256 * n + t /\ n \in Nat /\ t \in 0 .. 255 /\ Num(kind) = n
  BY <1>1 DEF Num
<1> HIDE DEF n, t
<1>4. Known(kind) => \A i \in {1, 2, 14, 15} : (kind \in Both(i)) = (n = i)
  BY <1>2, <1>3 DEF Both, Kind
<1>5. ~Known(kind) => kind \notin {1025, 1281, 1537, 1538, 257, 258, 513, 514, 3585, 3586, 3841, 3842}
  BY <1>2, <1>3
<1>6. QED
  BY <1>3, <1>4, <1>5

\* Of nothing a report says nothing.
LEMMA ReadsNothing ==
  ASSUME NEW S, NEW objs \in Seq(S), NEW m
  PROVE  Reads(m, Fresh, objs, 0)
<1> DEFINE s == SubSeq(objs, 1, 0)
<1>1. Len(s) = 0
  OBVIOUS
<1> HIDE DEF s
<1>2. \A kinds : LastOf(s, kinds) = 0
  BY <1>1 DEF LastOf
<1>3. \A kinds, n : Said(m, s, kinds, n) = 0
  BY <1>2 DEF Said
<1>4. Action(0) = 0 /\ Description(0) = 0 /\ Num(0) = 0 /\ Type(0) = 0
  BY DEF Action, Description, Num, Type
<1>5. Classified(m, Fresh, s)
  BY <1>2, <1>3, <1>4 DEF Classified, Fresh
<1>6. Means(m, Fresh, s)
  BY <1>3, <1>4, <1>5 DEF Means, Pair, Fresh
<1>7. Fresh.state <=> Said(m, s, Both(15), 1) \notin {0, 65535}
  <2>1. Fresh.state = FALSE
    BY DEF Fresh
  <2>2. Said(m, s, Both(15), 1) \in {0, 65535}
    BY <1>3
  <2>3. QED
    BY ONLY <2>1, <2>2
<1>8. QED
  BY <1>6, <1>7 DEF Reads, s

\* What the walk does not stop at says nothing.
LEMMA ReadsPassed ==
  ASSUME NEW S, NEW objs \in Seq(S), NEW m, NEW r, NEW k \in 1 .. Len(objs),
         objs[k].kind \in Word, ~Known(objs[k].kind), Reads(m, r, objs, k - 1)
  PROVE  Reads(m, r, objs, k)
<1> DEFINE s == SubSeq(objs, 1, k)
           t == SubSeq(objs, 1, k - 1)
           kind == objs[k].kind
           Sets == {Both(1), Both(2), {GateId}, {GateSpec}, {Extended}, {Legacy, Extended}, Both(14), Both(15)}
<1>1. \A kinds \in Sets : kind \notin kinds
  BY KindIs, KindsApart
<1>2. \A kinds \in Sets : \A n : Said(m, s, kinds, n) = Said(m, t, kinds, n)
  <2> TAKE kinds \in Sets
  <2> TAKE n
  <2>1. objs[k].kind \notin kinds
    BY <1>1
  <2> HIDE DEF Sets
  <2>2. QED
    BY <2>1, SaidStep
<1>3. /\ LastOf(s, {Legacy, Extended}) = LastOf(t, {Legacy, Extended})
      /\ LastOf(t, {Legacy, Extended}) \in 0 .. k - 1
  BY <1>1, LastStep, Zenon
<1>4. \A i \in 1 .. k - 1 : s[i] = t[i]
  OBVIOUS
<1> HIDE DEF s, t, kind, Sets
<1>5. Both(1) \in Sets /\ Both(2) \in Sets /\ {GateId} \in Sets /\ {GateSpec} \in Sets /\ {Extended} \in Sets
      /\ {Legacy, Extended} \in Sets /\ Both(14) \in Sets /\ Both(15) \in Sets
  BY DEF Sets
<1>6. Means(m, r, t) /\ (r.state <=> Said(m, t, Both(15), 1) \notin {0, 65535})
  BY DEF Reads, t
<1>7. Classified(m, r, s)
  <2>1. Classified(m, r, t)
    BY <1>6 DEF Means
  <2> DEFINE l == LastOf(t, {Legacy, Extended})
  <2>2. l # 0 => s[l] = t[l]
    BY <1>3, <1>4
  <2>3. QED
    BY <1>2, <1>3, <1>5, <2>1, <2>2 DEF Classified
<1>8. Means(m, r, s)
  BY <1>2, <1>5, <1>6, <1>7 DEF Means, Pair
<1>9. (r.state <=> Said(m, s, Both(15), 1) \notin {0, 65535})
  BY <1>2, <1>5, <1>6
<1>10. QED
  BY <1>8, <1>9 DEF Reads, s

\* The parts of a report, one by one.
TransactionSaid(m, r, o) == r.transaction = Said(m, o, Both(1), 0) /\ r.gate_cmd = Action(Said(m, o, Both(1), 1))
ApplicationSaid(m, r, o) == r.application = Pair(m, o, Both(2), 0)
GateIdSaid(m, r, o) == r.gate_id = Pair(m, o, {GateId}, 0)
SpecSaid(m, r, o) ==
    r.spec = <<Num(Said(m, o, {GateSpec}, 0)), Type(Said(m, o, {GateSpec}, 1)),
               Said(m, o, {GateSpec}, 2), Said(m, o, {GateSpec}, 3),
               Said(m, o, {GateSpec}, 4), Said(m, o, {GateSpec}, 5)>>
ErrorSaid(m, r, o) ==
    r.error = <<Said(m, o, Both(14), 0), Said(m, o, Both(14), 1), Description(Said(m, o, Both(14), 0))>>
StateSaid(m, r, o) == r.state <=> Said(m, o, Both(15), 1) \notin {0, 65535}

\* To read a report is to read each of its parts.
LEMMA MeansParts ==
  ASSUME NEW m, NEW r, NEW objs, NEW k
  PROVE  LET o == SubSeq(objs, 1, k)
         IN  Reads(m, r, objs, k) <=>
               /\ TransactionSaid(m, r, o) /\ ApplicationSaid(m, r, o) /\ GateIdSaid(m, r, o)
               /\ SpecSaid(m, r, o) /\ ErrorSaid(m, r, o) /\ Classified(m, r, o) /\ StateSaid(m, r, o)
<1> DEFINE o == SubSeq(objs, 1, k)
<1> HIDE DEF o
<1>1. Means(m, r, o) <=> /\ TransactionSaid(m, r, o) /\ ApplicationSaid(m, r, o) /\ GateIdSaid(m, r, o)
                         /\ SpecSaid(m, r, o) /\ ErrorSaid(m, r, o) /\ Classified(m, r, o)
  BY Zenon DEF Means, TransactionSaid, ApplicationSaid, GateIdSaid, SpecSaid, ErrorSaid
<1>2. Reads(m, r, objs, k) <=> Means(m, r, o) /\ StateSaid(m, r, o)
  BY DEF Reads, StateSaid, o
<1>3. QED
  BY ONLY <1>1, <1>2 DEF o

\* What is not of some kinds changes nothing about them.
LEMMA PartsKept ==
  ASSUME NEW S, NEW objs \in Seq(S), NEW m, NEW r, NEW d, NEW k \in 1 .. Len(objs)
  PROVE  LET s == SubSeq(objs, 1, k)
             t == SubSeq(objs, 1, k - 1)
             kind == objs[k].kind
         IN  /\ kind \notin Both(1) /\ d.transaction = r.transaction /\ d.gate_cmd = r.gate_cmd
                  /\ TransactionSaid(m, r, t) => TransactionSaid(m, d, s)
             /\ kind \notin Both(2) /\ d.application = r.application
                  /\ ApplicationSaid(m, r, t) => ApplicationSaid(m, d, s)
             /\ kind # GateId /\ d.gate_id = r.gate_id /\ GateIdSaid(m, r, t) => GateIdSaid(m, d, s)
             /\ kind # GateSpec /\ d.spec = r.spec /\ SpecSaid(m, r, t) => SpecSaid(m, d, s)
             /\ kind \notin Both(14) /\ d.error = r.error /\ ErrorSaid(m, r, t) => ErrorSaid(m, d, s)
             /\ kind \notin Both(15) /\ d.state = r.state /\ StateSaid(m, r, t) => StateSaid(m, d, s)
             /\ kind # Legacy /\ kind # Extended
                  /\ d.classifier = r.classifier /\ d.src_start = r.src_start /\ d.src_end = r.src_end
                  /\ d.dst_start = r.dst_start /\ d.dst_end = r.dst_end /\ d.id = r.id /\ d.rest = r.rest
                  /\ Classified(m, r, t) => Classified(m, d, s)
<1> DEFINE s == SubSeq(objs, 1, k)
           t == SubSeq(objs, 1, k - 1)
           kind == objs[k].kind
<1>1. ASSUME NEW kinds, kind \notin kinds
      PROVE  \A n : Said(m, s, kinds, n) = Said(m, t, kinds, n)
  BY <1>1, SaidStep
<1>2. ASSUME kind # Legacy, kind # Extended
      PROVE  /\ LastOf(s, {Legacy, Extended}) = LastOf(t, {Legacy, Extended})
             /\ LastOf(t, {Legacy, Extended}) \in 0 .. k - 1
  <2>1. objs[k].kind \notin {Legacy, Extended}
    BY <1>2
  <2>2. QED
    BY <2>1, LastStep
<1>3. \A i \in 1 .. k - 1 : s[i] = t[i]
  OBVIOUS
<1> HIDE DEF s, t, kind
<1>4. kind \notin Both(1) /\ d.transaction = r.transaction /\ d.gate_cmd = r.gate_cmd
         /\ TransactionSaid(m, r, t) => TransactionSaid(m, d, s)
  BY <1>1 DEF TransactionSaid
<1>5. kind \notin Both(2) /\ d.application = r.application /\ ApplicationSaid(m, r, t) => ApplicationSaid(m, d, s)
  BY <1>1 DEF ApplicationSaid, Pair
<1>6. kind # GateId /\ d.gate_id = r.gate_id /\ GateIdSaid(m, r, t) => GateIdSaid(m, d, s)
  <2>1. kind # GateId => kind \notin {GateId}
    OBVIOUS
  <2>2. QED
    BY <1>1, <2>1 DEF GateIdSaid, Pair
<1>7. kind # GateSpec /\ d.spec = r.spec /\ SpecSaid(m, r, t) => SpecSaid(m, d, s)
  <2>1. kind # GateSpec => kind \notin {GateSpec}
    OBVIOUS
  <2>2. QED
    BY <1>1, <2>1 DEF SpecSaid
<1>8. kind \notin Both(14) /\ d.error = r.error /\ ErrorSaid(m, r, t) => ErrorSaid(m, d, s)
  BY <1>1 DEF ErrorSaid
<1>9. kind \notin Both(15) /\ d.state = r.state /\ StateSaid(m, r, t) => StateSaid(m, d, s)
  BY <1>1 DEF StateSaid
<1>10. ASSUME kind # Legacy, kind # Extended,
              d.classifier = r.classifier, d.src_start = r.src_start, d.src_end = r.src_end,
              d.dst_start = r.dst_start, d.dst_end = r.dst_end, d.id = r.id, d.rest = r.rest,
              Classified(m, r, t)
       PROVE  Classified(m, d, s)
  <2> DEFINE l == LastOf(t, {Legacy, Extended})
  <2>1. LastOf(s, {Legacy, Extended}) = l /\ (l # 0 => s[l] = t[l])
    BY <1>2, <1>3, <1>10
  <2>2. kind \notin {Legacy, Extended} /\ kind \notin {Extended}
    BY <1>10
  <2>3. /\ \A n : Said(m, s, {Legacy, Extended}, n) = Said(m, t, {Legacy, Extended}, n)
        /\ \A n : Said(m, s, {Extended}, n) = Said(m, t, {Extended}, n)
    BY <1>1, <2>2
  <2> HIDE DEF l
  <2>4. QED
    BY <1>10, <2>1, <2>3 DEF Classified, l
<1>11. kind # Legacy /\ kind # Extended
       /\ d.classifier = r.classifier /\ d.src_start = r.src_start /\ d.src_end = r.src_end
       /\ d.dst_start = r.dst_start /\ d.dst_end = r.dst_end /\ d.id = r.id /\ d.rest = r.rest
       /\ Classified(m, r, t) => Classified(m, d, s)
  BY ONLY <1>10
<1>12. QED
  BY ONLY <1>4, <1>5, <1>6, <1>7, <1>8, <1>9, <1>11 DEF s, t, kind

\* The fields of a report.
LEMMA ReportFields ==
  ASSUME NEW r \in Reports
  PROVE  DOMAIN r = {"transaction", "gate_cmd", "application", "gate_id", "spec", "src_start", "src_end",
                     "dst_start", "dst_end", "id", "rest", "error", "classifier", "state"}
BY DEF Reports

\* What each decoder sets, and what it leaves.
LEMMA DecodeSets ==
  ASSUME NEW r \in Reports, NEW kind, NEW b, NEW d, d = Decode(r, kind, b)
  PROVE  /\ kind = GateId =>
              /\ d.gate_id = <<b[0], b[1]>>
              /\ d.transaction = r.transaction /\ d.gate_cmd = r.gate_cmd /\ d.application = r.application
              /\ d.spec = r.spec /\ d.src_start = r.src_start /\ d.src_end = r.src_end
              /\ d.dst_start = r.dst_start /\ d.dst_end = r.dst_end /\ d.id = r.id
              /\ d.rest = r.rest /\ d.error = r.error /\ d.classifier = r.classifier
              /\ d.state = r.state
         /\ kind = GateSpec =>
              /\ d.spec = <<Num(b[0]), Type(b[1]), b[2], b[3], b[4], b[5]>>
              /\ d.transaction = r.transaction /\ d.gate_cmd = r.gate_cmd /\ d.application = r.application
              /\ d.gate_id = r.gate_id /\ d.src_start = r.src_start /\ d.src_end = r.src_end
              /\ d.dst_start = r.dst_start /\ d.dst_end = r.dst_end /\ d.id = r.id
              /\ d.rest = r.rest /\ d.error = r.error /\ d.classifier = r.classifier
              /\ d.state = r.state
         /\ kind = Legacy =>
              /\ d.classifier = "legacy" /\ d.src_start = b[6] /\ d.dst_start = b[7]
              /\ d.transaction = r.transaction /\ d.gate_cmd = r.gate_cmd /\ d.application = r.application
              /\ d.gate_id = r.gate_id /\ d.spec = r.spec /\ d.src_end = r.src_end
              /\ d.dst_end = r.dst_end /\ d.id = r.id /\ d.rest = r.rest
              /\ d.error = r.error /\ d.state = r.state
         /\ kind = Extended =>
              /\ d.classifier = "extended" /\ d.src_start = b[10] /\ d.src_end = b[11]
              /\ d.dst_start = b[12] /\ d.dst_end = b[13] /\ d.id = b[14]
              /\ d.rest = <<b[15], Num(b[16])>>
              /\ d.transaction = r.transaction /\ d.gate_cmd = r.gate_cmd /\ d.application = r.application
              /\ d.gate_id = r.gate_id /\ d.spec = r.spec /\ d.error = r.error
              /\ d.state = r.state
         /\ Num(kind) = 1 =>
              /\ d.transaction = b[0] /\ d.gate_cmd = Action(b[1])
              /\ d.application = r.application /\ d.gate_id = r.gate_id /\ d.spec = r.spec
              /\ d.src_start = r.src_start /\ d.src_end = r.src_end /\ d.dst_start = r.dst_start
              /\ d.dst_end = r.dst_end /\ d.id = r.id /\ d.rest = r.rest
              /\ d.error = r.error /\ d.classifier = r.classifier /\ d.state = r.state
         /\ Num(kind) = 2 =>
              /\ d.application = <<b[0], b[1]>>
              /\ d.transaction = r.transaction /\ d.gate_cmd = r.gate_cmd /\ d.gate_id = r.gate_id
              /\ d.spec = r.spec /\ d.src_start = r.src_start /\ d.src_end = r.src_end
              /\ d.dst_start = r.dst_start /\ d.dst_end = r.dst_end /\ d.id = r.id
              /\ d.rest = r.rest /\ d.error = r.error /\ d.classifier = r.classifier
              /\ d.state = r.state
         /\ Num(kind) = 14 =>
              /\ d.error = <<b[0], b[1], Description(b[0])>>
              /\ d.transaction = r.transaction /\ d.gate_cmd = r.gate_cmd /\ d.application = r.application
              /\ d.gate_id = r.gate_id /\ d.spec = r.spec /\ d.src_start = r.src_start
              /\ d.src_end = r.src_end /\ d.dst_start = r.dst_start /\ d.dst_end = r.dst_end
              /\ d.id = r.id /\ d.rest = r.rest /\ d.classifier = r.classifier
              /\ d.state = r.state
         /\ Num(kind) = 15 =>
              /\ (d.state <=> GateState(b))
              /\ d.transaction = r.transaction /\ d.gate_cmd = r.gate_cmd /\ d.application = r.application
              /\ d.gate_id = r.gate_id /\ d.spec = r.spec /\ d.src_start = r.src_start
              /\ d.src_end = r.src_end /\ d.dst_start = r.dst_start /\ d.dst_end = r.dst_end
              /\ d.id = r.id /\ d.rest = r.rest /\ d.error = r.error
              /\ d.classifier = r.classifier
         /\ kind \notin {GateId, GateSpec, Legacy, Extended} /\ Num(kind) \notin {1, 2, 14, 15}
              => d = r
<1>0. /\ Num(GateId) = 4 /\ Num(GateSpec) = 5 /\ Num(Legacy) = 6 /\ Num(Extended) = 6
      /\ GateId # GateSpec /\ Legacy # Extended
  BY KindNumbers
<1>1. ASSUME kind = GateId
      PROVE  /\ d.gate_id = <<b[0], b[1]>>
             /\ d.transaction = r.transaction /\ d.gate_cmd = r.gate_cmd /\ d.application = r.application
             /\ d.spec = r.spec /\ d.src_start = r.src_start /\ d.src_end = r.src_end
             /\ d.dst_start = r.dst_start /\ d.dst_end = r.dst_end /\ d.id = r.id
             /\ d.rest = r.rest /\ d.error = r.error /\ d.classifier = r.classifier
             /\ d.state = r.state
  <2>1. d = [r EXCEPT !.gate_id = <<b[0], b[1]>>]
    BY <1>0, <1>1 DEF Decode
  <2>2. QED
    BY ONLY <2>1, ReportFields, r \in Reports
<1>2. ASSUME kind = GateSpec
      PROVE  /\ d.spec = <<Num(b[0]), Type(b[1]), b[2], b[3], b[4], b[5]>>
             /\ d.transaction = r.transaction /\ d.gate_cmd = r.gate_cmd /\ d.application = r.application
             /\ d.gate_id = r.gate_id /\ d.src_start = r.src_start /\ d.src_end = r.src_end
             /\ d.dst_start = r.dst_start /\ d.dst_end = r.dst_end /\ d.id = r.id
             /\ d.rest = r.rest /\ d.error = r.error /\ d.classifier = r.classifier
             /\ d.state = r.state
  <2>1. d = DecodeGate(r, b)
    BY <1>0, <1>2 DEF Decode
  <2>2. QED
    BY ONLY <2>1, ReportFields, r \in Reports DEF DecodeGate
<1>3. ASSUME kind = Legacy
      PROVE  /\ d.classifier = "legacy" /\ d.src_start = b[6] /\ d.dst_start = b[7]
             /\ d.transaction = r.transaction /\ d.gate_cmd = r.gate_cmd /\ d.application = r.application
             /\ d.gate_id = r.gate_id /\ d.spec = r.spec /\ d.src_end = r.src_end
             /\ d.dst_end = r.dst_end /\ d.id = r.id /\ d.rest = r.rest
             /\ d.error = r.error /\ d.state = r.state
  <2>1. d = DecodeClassifier(r, b)
    BY <1>0, <1>3 DEF Decode
  <2>2. QED
    BY ONLY <2>1, ReportFields, r \in Reports DEF DecodeClassifier
<1>4. ASSUME kind = Extended
      PROVE  /\ d.classifier = "extended" /\ d.src_start = b[10] /\ d.src_end = b[11]
             /\ d.dst_start = b[12] /\ d.dst_end = b[13] /\ d.id = b[14]
             /\ d.rest = <<b[15], Num(b[16])>>
             /\ d.transaction = r.transaction /\ d.gate_cmd = r.gate_cmd /\ d.application = r.application
             /\ d.gate_id = r.gate_id /\ d.spec = r.spec /\ d.error = r.error
             /\ d.state = r.state
  <2>1. d = DecodeExtended(r, b)
    BY <1>0, <1>4 DEF Decode
  <2>2. QED
    BY ONLY <2>1, ReportFields, r \in Reports DEF DecodeExtended
<1>5. ASSUME Num(kind) = 1
      PROVE  /\ d.transaction = b[0] /\ d.gate_cmd = Action(b[1])
             /\ d.application = r.application /\ d.gate_id = r.gate_id /\ d.spec = r.spec
             /\ d.src_start = r.src_start /\ d.src_end = r.src_end /\ d.dst_start = r.dst_start
             /\ d.dst_end = r.dst_end /\ d.id = r.id /\ d.rest = r.rest
             /\ d.error = r.error /\ d.classifier = r.classifier /\ d.state = r.state
  <2>1. d = DecodeTransaction(r, b)
    BY <1>0, <1>5 DEF Decode
  <2>2. QED
    BY ONLY <2>1, ReportFields, r \in Reports DEF DecodeTransaction
<1>6. ASSUME Num(kind) = 2
      PROVE  /\ d.application = <<b[0], b[1]>>
             /\ d.transaction = r.transaction /\ d.gate_cmd = r.gate_cmd /\ d.gate_id = r.gate_id
             /\ d.spec = r.spec /\ d.src_start = r.src_start /\ d.src_end = r.src_end
             /\ d.dst_start = r.dst_start /\ d.dst_end = r.dst_end /\ d.id = r.id
             /\ d.rest = r.rest /\ d.error = r.error /\ d.classifier = r.classifier
             /\ d.state = r.state
  <2>1. d = DecodeApplication(r, b)
    BY <1>0, <1>6 DEF Decode
  <2>2. QED
    BY ONLY <2>1, ReportFields, r \in Reports DEF DecodeApplication
<1>7. ASSUME Num(kind) = 14
      PROVE  /\ d.error = <<b[0], b[1], Description(b[0])>>
             /\ d.transaction = r.transaction /\ d.gate_cmd = r.gate_cmd /\ d.application = r.application
             /\ d.gate_id = r.gate_id /\ d.spec = r.spec /\ d.src_start = r.src_start
             /\ d.src_end = r.src_end /\ d.dst_start = r.dst_start /\ d.dst_end = r.dst_end
             /\ d.id = r.id /\ d.rest = r.rest /\ d.classifier = r.classifier
             /\ d.state = r.state
  <2>1. d = DecodeError(r, b)
    BY <1>0, <1>7 DEF Decode
  <2>2. QED
    BY ONLY <2>1, ReportFields, r \in Reports DEF DecodeError
<1>8. ASSUME Num(kind) = 15
      PROVE  /\ (d.state <=> GateState(b))
             /\ d.transaction = r.transaction /\ d.gate_cmd = r.gate_cmd /\ d.application = r.application
             /\ d.gate_id = r.gate_id /\ d.spec = r.spec /\ d.src_start = r.src_start
             /\ d.src_end = r.src_end /\ d.dst_start = r.dst_start /\ d.dst_end = r.dst_end
             /\ d.id = r.id /\ d.rest = r.rest /\ d.error = r.error
             /\ d.classifier = r.classifier
  <2>1. d = DecodeState(r, b)
    BY <1>0, <1>8 DEF Decode
  <2>2. QED
    BY ONLY <2>1, ReportFields, r \in Reports DEF DecodeState
<1>9. kind \notin {GateId, GateSpec, Legacy, Extended} /\ Num(kind) \notin {1, 2, 14, 15} => d = r
  BY DEF Decode
<1>10. QED
  BY ONLY <1>1, <1>2, <1>3, <1>4, <1>5, <1>6, <1>7, <1>8, <1>9

\* b is the body of the object o, as far as it is looked at.
IsBody(m, o, b) == \A n \in 0 .. 16 : b[n] = At(m.words, o.at + 4 + 2 * n)

\* An object that is known says what its words say.
LEMMA ReadsKnown ==
  ASSUME NEW S, NEW objs \in Seq(S), NEW m, NEW r \in Reports, NEW k \in 1 .. Len(objs),
         NEW kind \in Word, kind = objs[k].kind, Known(kind), Reads(m, r, objs, k - 1),
         NEW b, IsBody(m, objs[k], b),
         NEW d, d = Decode(r, kind, b)
  PROVE  Reads(m, d, objs, k)
<1> DEFINE s == SubSeq(objs, 1, k)
           t == SubSeq(objs, 1, k - 1)
<1>1. /\ TransactionSaid(m, r, t) /\ ApplicationSaid(m, r, t) /\ GateIdSaid(m, r, t)
      /\ SpecSaid(m, r, t) /\ ErrorSaid(m, r, t) /\ Classified(m, r, t) /\ StateSaid(m, r, t)
  BY MeansParts, Zenon
<1>2. ASSUME NEW kinds, NEW n \in 0 .. 16
      PROVE  Said(m, s, kinds, n) = IF kind \in kinds THEN b[n] ELSE Said(m, t, kinds, n)
  <2>1. b[n] = At(m.words, objs[k].at + 4 + 2 * n)
    BY DEF IsBody
  <2>2. Said(m, s, kinds, n) =
            IF objs[k].kind \in kinds THEN At(m.words, objs[k].at + 4 + 2 * n) ELSE Said(m, t, kinds, n)
    BY SaidStep
  <2> HIDE DEF s, t
  <2>3. QED
    BY <2>1, <2>2
<1>3. /\ LastOf(s, {Legacy, Extended}) =
            IF kind \in {Legacy, Extended} THEN k ELSE LastOf(t, {Legacy, Extended})
      /\ k # 0 /\ s[k].kind = kind
  <2>1. LastOf(s, {Legacy, Extended}) =
            IF objs[k].kind \in {Legacy, Extended} THEN k ELSE LastOf(t, {Legacy, Extended})
    BY LastStep, Zenon
  <2>2. k # 0 /\ s[k] = objs[k]
    OBVIOUS
  <2> HIDE DEF s, t
  <2>3. QED
    BY <2>1, <2>2
<1>4. /\ (kind \in Both(1)) = (Num(kind) = 1) /\ (kind \in Both(2)) = (Num(kind) = 2)
      /\ (kind \in Both(14)) = (Num(kind) = 14) /\ (kind \in Both(15)) = (Num(kind) = 15)
      /\ Num(GateId) = 4 /\ Num(GateSpec) = 5 /\ Num(Legacy) = 6 /\ Num(Extended) = 6
      /\ GateId # GateSpec /\ Legacy # Extended
  <2>1. \A n \in {1, 2, 14, 15} : (kind \in Both(n)) = (Num(kind) = n)
    BY KindIs
  <2>2. QED
    BY <2>1, KindNumbers
<1>5. /\ kind \notin Both(1) /\ d.transaction = r.transaction /\ d.gate_cmd = r.gate_cmd
           => TransactionSaid(m, d, s)
      /\ kind \notin Both(2) /\ d.application = r.application => ApplicationSaid(m, d, s)
      /\ kind # GateId /\ d.gate_id = r.gate_id => GateIdSaid(m, d, s)
      /\ kind # GateSpec /\ d.spec = r.spec => SpecSaid(m, d, s)
      /\ kind \notin Both(14) /\ d.error = r.error => ErrorSaid(m, d, s)
      /\ kind \notin Both(15) /\ d.state = r.state => StateSaid(m, d, s)
      /\ kind # Legacy /\ kind # Extended
           /\ d.classifier = r.classifier /\ d.src_start = r.src_start /\ d.src_end = r.src_end
           /\ d.dst_start = r.dst_start /\ d.dst_end = r.dst_end /\ d.id = r.id /\ d.rest = r.rest
           => Classified(m, d, s)
  BY <1>1, PartsKept
<1> HIDE DEF s, t
<1> SUFFICES /\ TransactionSaid(m, d, s) /\ ApplicationSaid(m, d, s) /\ GateIdSaid(m, d, s)
             /\ SpecSaid(m, d, s) /\ ErrorSaid(m, d, s) /\ Classified(m, d, s) /\ StateSaid(m, d, s)
  BY MeansParts, Zenon DEF s
<1>6. CASE kind = GateId
  <2>1. /\ d.gate_id = <<b[0], b[1]>>
        /\ d.transaction = r.transaction /\ d.gate_cmd = r.gate_cmd /\ d.application = r.application
        /\ d.spec = r.spec /\ d.src_start = r.src_start /\ d.src_end = r.src_end
        /\ d.dst_start = r.dst_start /\ d.dst_end = r.dst_end /\ d.id = r.id
        /\ d.rest = r.rest /\ d.error = r.error /\ d.classifier = r.classifier
        /\ d.state = r.state
    BY <1>6, DecodeSets, SMTT(30)
  <2>2. kind \in {GateId}
    BY <1>4, <1>6
  <2>3. /\ Said(m, s, {GateId}, 0) = b[0]
        /\ Said(m, s, {GateId}, 1) = b[1]
    BY <1>2, <2>2
  <2>4. GateIdSaid(m, d, s)
    BY ONLY <2>1, <2>3 DEF GateIdSaid, Pair
  <2>5. QED
    BY ONLY <1>4, <1>5, <1>6, <2>1, <2>4
<1>7. CASE kind = GateSpec
  <2>1. /\ d.spec = <<Num(b[0]), Type(b[1]), b[2], b[3], b[4], b[5]>>
        /\ d.transaction = r.transaction /\ d.gate_cmd = r.gate_cmd /\ d.application = r.application
        /\ d.gate_id = r.gate_id /\ d.src_start = r.src_start /\ d.src_end = r.src_end
        /\ d.dst_start = r.dst_start /\ d.dst_end = r.dst_end /\ d.id = r.id
        /\ d.rest = r.rest /\ d.error = r.error /\ d.classifier = r.classifier
        /\ d.state = r.state
    BY <1>7, DecodeSets, SMTT(30)
  <2>2. kind \in {GateSpec}
    BY <1>4, <1>7
  <2>3. /\ Said(m, s, {GateSpec}, 0) = b[0]
        /\ Said(m, s, {GateSpec}, 1) = b[1]
        /\ Said(m, s, {GateSpec}, 2) = b[2]
        /\ Said(m, s, {GateSpec}, 3) = b[3]
        /\ Said(m, s, {GateSpec}, 4) = b[4]
        /\ Said(m, s, {GateSpec}, 5) = b[5]
    BY <1>2, <2>2, SMTT(30)
  <2>4. SpecSaid(m, d, s)
    BY ONLY <2>1, <2>3 DEF SpecSaid
  <2>5. QED
    BY ONLY <1>4, <1>5, <1>7, <2>1, <2>4
<1>8. CASE kind = Legacy
  <2>1. /\ d.classifier = "legacy" /\ d.src_start = b[6] /\ d.dst_start = b[7]
        /\ d.transaction = r.transaction /\ d.gate_cmd = r.gate_cmd /\ d.application = r.application
        /\ d.gate_id = r.gate_id /\ d.spec = r.spec /\ d.src_end = r.src_end
        /\ d.dst_end = r.dst_end /\ d.id = r.id /\ d.rest = r.rest
        /\ d.error = r.error /\ d.state = r.state
    BY <1>8, DecodeSets
  <2>2. kind \in {Legacy, Extended} /\ kind \notin {Extended}
    BY <1>4, <1>8
  <2>3. /\ Said(m, s, {Legacy, Extended}, 6) = b[6]
        /\ Said(m, s, {Legacy, Extended}, 7) = b[7]
        /\ Said(m, s, {Extended}, 11) = Said(m, t, {Extended}, 11)
        /\ Said(m, s, {Extended}, 13) = Said(m, t, {Extended}, 13)
        /\ Said(m, s, {Extended}, 14) = Said(m, t, {Extended}, 14)
        /\ Said(m, s, {Extended}, 15) = Said(m, t, {Extended}, 15)
        /\ Said(m, s, {Extended}, 16) = Said(m, t, {Extended}, 16)
    BY <1>2, <2>2, SMTT(30)
  <2>4. /\ <<r.src_end, r.dst_end>> = <<Said(m, t, {Extended}, 11), Said(m, t, {Extended}, 13)>>
        /\ r.id = Said(m, t, {Extended}, 14)
        /\ r.rest = <<Said(m, t, {Extended}, 15), Num(Said(m, t, {Extended}, 16))>>
    BY <1>1 DEF Classified
  <2>5. Classified(m, d, s)
    BY ONLY <1>3, <1>4, <1>8, <2>1, <2>2, <2>3, <2>4 DEF Classified
  <2>6. QED
    BY ONLY <1>4, <1>5, <1>8, <2>1, <2>5
<1>9. CASE kind = Extended
  <2>1. /\ d.classifier = "extended" /\ d.src_start = b[10] /\ d.src_end = b[11]
        /\ d.dst_start = b[12] /\ d.dst_end = b[13] /\ d.id = b[14]
        /\ d.rest = <<b[15], Num(b[16])>>
        /\ d.transaction = r.transaction /\ d.gate_cmd = r.gate_cmd /\ d.application = r.application
        /\ d.gate_id = r.gate_id /\ d.spec = r.spec /\ d.error = r.error
        /\ d.state = r.state
    BY <1>9, DecodeSets, SMTT(30)
  <2>2. kind \in {Legacy, Extended} /\ kind \in {Extended}
    BY <1>4, <1>9
  <2>3. /\ Said(m, s, {Legacy, Extended}, 10) = b[10]
        /\ Said(m, s, {Legacy, Extended}, 12) = b[12]
        /\ Said(m, s, {Extended}, 11) = b[11]
        /\ Said(m, s, {Extended}, 13) = b[13]
        /\ Said(m, s, {Extended}, 14) = b[14]
        /\ Said(m, s, {Extended}, 15) = b[15]
        /\ Said(m, s, {Extended}, 16) = b[16]
    BY <1>2, <2>2, SMTT(30)
  <2>4. "extended" # "legacy" /\ Legacy # Extended
    BY <1>4
  <2>5. Classified(m, d, s)
    BY ONLY <1>3, <1>4, <1>9, <2>1, <2>2, <2>3, <2>4 DEF Classified
  <2>6. QED
    BY ONLY <1>4, <1>5, <1>9, <2>1, <2>5
<1>10. CASE Num(kind) = 1
  <2>1. /\ d.transaction = b[0] /\ d.gate_cmd = Action(b[1])
        /\ d.application = r.application /\ d.gate_id = r.gate_id /\ d.spec = r.spec
        /\ d.src_start = r.src_start /\ d.src_end = r.src_end /\ d.dst_start = r.dst_start
        /\ d.dst_end = r.dst_end /\ d.id = r.id /\ d.rest = r.rest
        /\ d.error = r.error /\ d.classifier = r.classifier /\ d.state = r.state
    BY <1>10, DecodeSets, SMTT(30)
  <2>2. kind \in Both(1)
    BY <1>4, <1>10
  <2>3. /\ Said(m, s, Both(1), 0) = b[0]
        /\ Said(m, s, Both(1), 1) = b[1]
    BY <1>2, <2>2
  <2>4. TransactionSaid(m, d, s)
    BY ONLY <2>1, <2>3 DEF TransactionSaid
  <2>5. QED
    BY ONLY <1>4, <1>5, <1>10, <2>1, <2>4
<1>11. CASE Num(kind) = 2
  <2>1. /\ d.application = <<b[0], b[1]>>
        /\ d.transaction = r.transaction /\ d.gate_cmd = r.gate_cmd /\ d.gate_id = r.gate_id
        /\ d.spec = r.spec /\ d.src_start = r.src_start /\ d.src_end = r.src_end
        /\ d.dst_start = r.dst_start /\ d.dst_end = r.dst_end /\ d.id = r.id
        /\ d.rest = r.rest /\ d.error = r.error /\ d.classifier = r.classifier
        /\ d.state = r.state
    BY <1>11, DecodeSets, SMTT(30)
  <2>2. kind \in Both(2)
    BY <1>4, <1>11
  <2>3. /\ Said(m, s, Both(2), 0) = b[0]
        /\ Said(m, s, Both(2), 1) = b[1]
    BY <1>2, <2>2
  <2>4. ApplicationSaid(m, d, s)
    BY ONLY <2>1, <2>3 DEF ApplicationSaid, Pair
  <2>5. QED
    BY ONLY <1>4, <1>5, <1>11, <2>1, <2>4
<1>12. CASE Num(kind) = 14
  <2>1. /\ d.error = <<b[0], b[1], Description(b[0])>>
        /\ d.transaction = r.transaction /\ d.gate_cmd = r.gate_cmd /\ d.application = r.application
        /\ d.gate_id = r.gate_id /\ d.spec = r.spec /\ d.src_start = r.src_start
        /\ d.src_end = r.src_end /\ d.dst_start = r.dst_start /\ d.dst_end = r.dst_end
        /\ d.id = r.id /\ d.rest = r.rest /\ d.classifier = r.classifier
        /\ d.state = r.state
    BY <1>12, DecodeSets, SMTT(30)
  <2>2. kind \in Both(14)
    BY <1>4, <1>12
  <2>3. /\ Said(m, s, Both(14), 0) = b[0]
        /\ Said(m, s, Both(14), 1) = b[1]
    BY <1>2, <2>2
  <2>4. ErrorSaid(m, d, s)
    BY ONLY <2>1, <2>3 DEF ErrorSaid
  <2>5. QED
    BY ONLY <1>4, <1>5, <1>12, <2>1, <2>4
<1>13. CASE Num(kind) = 15
  <2>1. /\ (d.state <=> GateState(b))
        /\ d.transaction = r.transaction /\ d.gate_cmd = r.gate_cmd /\ d.application = r.application
        /\ d.gate_id = r.gate_id /\ d.spec = r.spec /\ d.src_start = r.src_start
        /\ d.src_end = r.src_end /\ d.dst_start = r.dst_start /\ d.dst_end = r.dst_end
        /\ d.id = r.id /\ d.rest = r.rest /\ d.error = r.error
        /\ d.classifier = r.classifier
    BY <1>13, DecodeSets, SMTT(30)
  <2>2. kind \in Both(15)
    BY <1>4, <1>13
  <2>3. /\ Said(m, s, Both(15), 1) = b[1]
    BY <1>2, <2>2
  <2>4. StateSaid(m, d, s)
    BY ONLY <2>1, <2>3 DEF StateSaid, GateState
  <2>5. QED
    BY ONLY <1>4, <1>5, <1>13, <2>1, <2>4
<1>14. CASE kind \notin {GateId, GateSpec, Legacy, Extended} /\ Num(kind) \notin {1, 2, 14, 15}
  <2>1. d = r
    BY <1>4, <1>14, DecodeSets
  <2>2. QED
    BY ONLY <1>4, <1>5, <1>14, <2>1
<1>15. QED
  BY <1>6, <1>7, <1>8, <1>9, <1>10, <1>11, <1>12, <1>13, <1>14

-----------------------------------------------------------------------------
(* Objects lie one behind the other, and the walks go from one to the next.*)

\* Objects that lie one behind the other, as the walk needs them.
Chain(words, objs, from, to) ==
    /\ Reached(objs, from, 0, to)
    /\ \A k \in 1 .. Len(objs) : LET o == objs[k] IN
          /\ o.at \in Nat /\ o.length \in Nat /\ o.kind \in Word
          /\ o.at % 4 = 0 /\ o.length % 4 = 0 /\ o.length >= 4
          /\ At(words, o.at) = o.length /\ At(words, o.at + 2) = o.kind
          /\ Reached(objs, o.at + o.length, k, to)
          /\ o.at + o.length <= to

WellMade(m) ==
    /\ m.words \in Seq(Word) /\ m.parts \in Seq(Parts)
    /\ Chain(m.words, m.parts, 0, 2 * Len(m.words))
    /\ \A p \in 1 .. Len(m.parts) : LET o == m.parts[p] IN
          /\ o.inner \in Seq(Slots)
          /\ Num(o.kind) = 9 => Chain(m.words, o.inner, o.at + 4, o.at + o.length)
          /\ Num(o.kind) = 1 => o.length = 8

\* What the messages are assumed to be, as the walks need it.
LEMMA LaidChain ==
  ASSUME NEW words, NEW objs, Len(objs) \in Nat, NEW from \in Nat, NEW to \in Nat, from % 4 = 0,
         \A k \in 1 .. Len(objs) : objs[k].at \in Nat /\ objs[k].length \in Nat /\ objs[k].kind \in Word,
         Len(objs) = 0 => objs = <<>>, Laid(words, objs, from, to)
  PROVE  Chain(words, objs, from, to)
<1>0. \A k \in 1 .. Len(objs) :
          /\ objs[k].at % 4 = 0 /\ objs[k].length % 4 = 0 /\ objs[k].length >= 4
          /\ objs[k].at + objs[k].length <= to
          /\ At(words, objs[k].at) = objs[k].length
          /\ At(words, objs[k].at + 2) = objs[k].kind
          /\ objs[k].at + objs[k].length = IF k = Len(objs) THEN to ELSE objs[k + 1].at
  <2> DEFINE n == Len(objs)
             at(k) == objs[k].at
             length(k) == objs[k].length
  <2>1. n \in Nat /\ \A k \in 1 .. n : at(k) \in Nat /\ length(k) \in Nat
    OBVIOUS
  <2>2. \A k \in 1 .. n : /\ length(k) >= 4 /\ length(k) % 4 = 0
                          /\ at(k) + length(k) = IF k = n THEN to ELSE at(k + 1)
                          /\ At(words, at(k)) = length(k)
                          /\ At(words, at(k) + 2) = objs[k].kind
    BY DEF Laid
  <2>3. n > 0 => at(1) = from
    BY <2>1 DEF Laid
  <2> HIDE DEF n, at, length
  <2>4. \A k \in 1 .. n : at(k) % 4 = 0
    <3> DEFINE Bad == {k \in 1 .. n : (at(k) % 4) # 0}
    <3> SUFFICES ASSUME Bad # {} PROVE FALSE
      OBVIOUS
    <3>1. Bad \in SUBSET Nat
      BY <2>1
    <3>2. PICK k \in Bad : \A l \in Bad : k <= l
      BY <3>1, LeastNat
    <3>3. k \in 1 .. n /\ (at(k) % 4) # 0
      OBVIOUS
    <3>4. k # 1
      <4>1. (from % 4) = 0 /\ (k = 1 => at(k) = from)
        BY <2>1, <2>3, <3>3
      <4>2. QED
        BY ONLY <3>3, <4>1
    <3> DEFINE j == k - 1
    <3>5. j \in 1 .. n /\ k = j + 1 /\ j # n /\ ~(k <= j)
      BY <2>1, <3>3, <3>4
    <3> HIDE DEF j
    <3>6. (at(j) % 4) = 0
      BY <3>2, <3>5
    <3>7. at(j) + length(j) = at(k) /\ (length(j) % 4) = 0 /\ at(j) \in Nat /\ length(j) \in Nat
      BY <2>1, <2>2, <3>5
    <3>8. QED
      BY ONLY <3>3, <3>6, <3>7
  <2>5. \A k \in 1 .. n : at(k) + length(k) <= to
    <3> DEFINE Bad == {d \in 0 .. n - 1 : ~(at(n - d) + length(n - d) <= to)}
    <3> SUFFICES ASSUME Bad # {} PROVE FALSE
      <4> SUFFICES ASSUME NEW k \in 1 .. n PROVE at(k) + length(k) <= to
        OBVIOUS
      <4>1. n - k \in 0 .. n - 1 /\ n - (n - k) = k
        BY <2>1
      <4>2. n - k \notin Bad
        OBVIOUS
      <4>3. QED
        BY <4>1, <4>2, Zenon
    <3>1. Bad \in SUBSET Nat
      BY <2>1
    <3>2. PICK d \in Bad : \A l \in Bad : d <= l
      BY <3>1, LeastNat
    <3> DEFINE k == n - d
    <3>3. d \in 0 .. n - 1 /\ ~(at(k) + length(k) <= to) /\ k \in 1 .. n
      BY <2>1
    <3>4. CASE k = n
      BY <2>1, <2>2, <3>3, <3>4
    <3>5. CASE k # n
      <4>1. d - 1 \in 0 .. n - 1 /\ n - (d - 1) = k + 1 /\ ~(d <= d - 1) /\ k + 1 \in 1 .. n
        BY <2>1, <3>3, <3>5
      <4> HIDE DEF k
      <4>2. d - 1 \notin Bad
        BY <3>2, <4>1
      <4>3. at(k + 1) + length(k + 1) <= to
        BY <4>1, <4>2, Zenon
      <4>4. at(k) + length(k) = at(k + 1)
        BY <2>2, <3>3, <3>5
      <4>5. at(k) \in Nat /\ length(k) \in Nat /\ at(k + 1) \in Nat /\ length(k + 1) \in Nat
        BY <2>1, <3>3, <4>1
      <4>6. QED
        BY ONLY <3>3, <4>3, <4>4, <4>5
    <3>6. QED
      BY <3>4, <3>5
  <2>6. QED
    BY <2>2, <2>4, <2>5 DEF n, at, length
<1>1. \A k \in 1 .. Len(objs) : LET o == objs[k] IN
          /\ o.at \in Nat /\ o.length \in Nat /\ o.kind \in Word
          /\ o.at % 4 = 0 /\ o.length % 4 = 0 /\ o.length >= 4
          /\ At(words, o.at) = o.length /\ At(words, o.at + 2) = o.kind
          /\ Reached(objs, o.at + o.length, k, to)
          /\ o.at + o.length <= to
  <2> TAKE k \in 1 .. Len(objs)
  <2>1. /\ objs[k].at % 4 = 0 /\ objs[k].length % 4 = 0 /\ objs[k].length >= 4
        /\ objs[k].at + objs[k].length <= to
        /\ At(words, objs[k].at) = objs[k].length
        /\ At(words, objs[k].at + 2) = objs[k].kind
        /\ objs[k].at + objs[k].length = IF k = Len(objs) THEN to ELSE objs[k + 1].at
    BY <1>0
  <2>2. QED
    BY <2>1 DEF Reached
<1>2. Reached(objs, from, 0, to)
  <2>1. CASE Len(objs) = 0
    <3>1. objs = <<>>
      BY <2>1
    <3>2. from = to
      BY <3>1 DEF Laid
    <3>3. QED
      BY <2>1, <3>2 DEF Reached
  <2>2. CASE Len(objs) # 0
    <3>1. objs # <<>>
      BY <2>2
    <3>2. objs[1].at = from
      BY <3>1 DEF Laid
    <3>3. QED
      BY <2>2, <3>2 DEF Reached
  <2>3. QED
    BY <2>1, <2>2
<1>3. QED
  BY <1>1, <1>2, Zenon DEF Chain

\* The messages of a CMTS are well made.
LEMMA MessageMade ==
  ASSUME NEW n \in 1 .. Len(Messages)
  PROVE  WellMade(Messages[n])
<1> DEFINE m == Messages[n]
<1>1. m \in [opcode : {"REQ", "RPT"}, words : Seq(Word), parts : Seq(Parts)]
  BY MessagesAssumption, ElementOfSeq
<1>2. /\ Laid(m.words, m.parts, 0, 2 * Len(m.words))
      /\ \A p \in 1 .. Len(m.parts) :
            IF Num(m.parts[p].kind) = 9
            THEN Laid(m.words, m.parts[p].inner, m.parts[p].at + 4, m.parts[p].at + m.parts[p].length)
            ELSE m.parts[p].inner = <<>> /\ (Num(m.parts[p].kind) = 1 => m.parts[p].length = 8)
  BY MessagesAssumption
<1> HIDE DEF m
<1>3. m.words \in Seq(Word) /\ m.parts \in Seq(Parts)
  BY <1>1
<1> DEFINE words == m.words
           parts == m.parts
<1>4. words \in Seq(Word) /\ parts \in Seq(Parts) /\ Laid(words, parts, 0, 2 * Len(words))
  BY <1>2, <1>3
<1>5. \A p \in 1 .. Len(parts) :
          IF Num(parts[p].kind) = 9
          THEN Laid(words, parts[p].inner, parts[p].at + 4, parts[p].at + parts[p].length)
          ELSE parts[p].inner = <<>> /\ (Num(parts[p].kind) = 1 => parts[p].length = 8)
  BY <1>2
<1> HIDE DEF words, parts
<1>6. Len(parts) \in Nat /\ Len(words) \in Nat /\ 2 * Len(words) \in Nat /\ (Len(parts) = 0 => parts = <<>>)
  BY <1>4, EmptySeq, LenProperties
<1>7. \A p \in 1 .. Len(parts) :
          /\ parts[p].at \in Nat /\ parts[p].length \in Nat /\ parts[p].kind \in Word
          /\ parts[p].inner \in Seq(Slots)
  <2> TAKE p \in 1 .. Len(parts)
  <2>1. parts[p] \in Parts
    BY <1>4, ElementOfSeq
  <2>2. QED
    BY <2>1 DEF Parts
<1>8. Chain(words, parts, 0, 2 * Len(words))
  <2>1. 0 \in Nat /\ 0 % 4 = 0
    OBVIOUS
  <2>2. QED
    BY <1>4, <1>6, <1>7, <2>1, LaidChain
<1>9. ASSUME NEW p \in 1 .. Len(parts), Num(parts[p].kind) = 9
      PROVE  Chain(words, parts[p].inner, parts[p].at + 4, parts[p].at + parts[p].length)
  <2> DEFINE o == parts[p]
             objs == o.inner
  <2>1. Laid(words, objs, o.at + 4, o.at + o.length)
    BY <1>5, <1>9
  <2>2. o.at % 4 = 0 /\ o.at \in Nat /\ o.length \in Nat
    BY <1>8 DEF Chain
  <2>3. objs \in Seq(Slots)
    BY <1>7
  <2> HIDE DEF o, objs
  <2>4. o.at + 4 \in Nat /\ o.at + o.length \in Nat /\ (o.at + 4) % 4 = 0
    BY <2>2
  <2>5. Len(objs) \in Nat /\ (Len(objs) = 0 => objs = <<>>)
    BY <2>3, EmptySeq, LenProperties
  <2>6. \A k \in 1 .. Len(objs) : objs[k].at \in Nat /\ objs[k].length \in Nat /\ objs[k].kind \in Word
    <3> TAKE k \in 1 .. Len(objs)
    <3>1. objs[k] \in Slots
      BY <2>3, ElementOfSeq
    <3>2. QED
      BY <3>1 DEF Slots
  <2>7. Chain(words, objs, o.at + 4, o.at + o.length)
    BY <2>1, <2>4, <2>5, <2>6, LaidChain
  <2>8. QED
    BY <2>7 DEF o, objs
<1>10. \A p \in 1 .. Len(parts) : Num(parts[p].kind) = 1 => parts[p].length = 8
  <2>1. 1 # 9
    OBVIOUS
  <2>2. QED
    BY <1>5, <2>1, Zenon
<1>11. QED
  BY <1>3, <1>7, <1>8, <1>9, <1>10, Zenon DEF WellMade, m, words, parts

\* Four bytes on from where an object begins, or from inside it.
LEMMA Onward ==
  ASSUME NEW o, o.at \in Nat, o.length \in Nat, o.at % 4 = 0, o.length % 4 = 0, o.length >= 4,
         NEW i \in Nat, i % 4 = 0, i = o.at \/ InBody(o, i)
  PROVE  (i + 4) % 4 = 0 /\ (i + 4 = o.at + o.length \/ InBody(o, i + 4))
<1> DEFINE a == o.at
           l == o.length
<1>1. /\ a \in Nat /\ l \in Nat /\ (a % 4) = 0 /\ (l % 4) = 0 /\ l >= 4
      /\ i = a \/ (a < i /\ i < a + l)
  BY DEF InBody
<1> HIDE DEF a, l
<1>2. ((i + 4) % 4) = 0 /\ (i + 4 = a + l \/ (a < i + 4 /\ i + 4 < a + l))
  BY <1>1
<1>3. QED
  BY <1>2 DEF a, l, InBody

\* What is read in the body of an object is what it seems to hold.
LEMMA BodySeems ==
  ASSUME NEW m, NEW o, o.at \in Nat, o.length \in Nat, o.at % 4 = 0,
         NEW i \in Nat, i % 4 = 0, InBody(o, i)
  PROVE  At(m.words, i + 2) \in Seeming(m, o)
<1> DEFINE a == o.at
           l == o.length
<1>1. a \in Nat /\ l \in Nat /\ (a % 4) = 0 /\ a < i /\ i < a + l
  BY DEF InBody
<1> HIDE DEF a, l
<1>2. i \in a + 4 .. a + l - 1
  BY <1>1
<1>3. i \in o.at + 4 .. o.at + o.length - 1
  BY <1>2 DEF a, l
<1>4. QED
  BY <1>3 DEF Seeming

\* Where a walk that has not come to the end is.
LEMMA Whereabouts ==
  ASSUME NEW words, NEW objs, Len(objs) \in Nat, NEW from, NEW to \in Nat, Chain(words, objs, from, to),
         NEW i \in Nat, NEW k \in 0 .. Len(objs)
  PROVE  /\ i < to /\ Reached(objs, i, k, to) =>
               /\ k + 1 \in 1 .. Len(objs) /\ i = objs[k + 1].at
               /\ At(words, i) = objs[k + 1].length /\ At(words, i + 2) = objs[k + 1].kind
         /\ i >= to /\ Reached(objs, i, k, to) => k = Len(objs)
         /\ i >= to => ~(k > 0 /\ InBody(objs[k], i))
<1>1. ASSUME k # Len(objs)
      PROVE  /\ k + 1 \in 1 .. Len(objs)
             /\ At(words, objs[k + 1].at) = objs[k + 1].length
             /\ At(words, objs[k + 1].at + 2) = objs[k + 1].kind
             /\ objs[k + 1].at < to
  <2>1. k + 1 \in 1 .. Len(objs)
    BY <1>1
  <2> DEFINE o == objs[k + 1]
  <2>2. /\ o.at \in Nat /\ o.length \in Nat /\ o.length >= 4 /\ o.at + o.length <= to
        /\ At(words, o.at) = o.length /\ At(words, o.at + 2) = o.kind
    BY <2>1 DEF Chain
  <2> HIDE DEF o
  <2>3. o.at < to
    BY <2>2
  <2>4. QED
    BY <2>1, <2>2, <2>3 DEF o
<1>2. ASSUME i < to, Reached(objs, i, k, to)
      PROVE  /\ k + 1 \in 1 .. Len(objs) /\ i = objs[k + 1].at
             /\ At(words, i) = objs[k + 1].length /\ At(words, i + 2) = objs[k + 1].kind
  <2>1. k # Len(objs)
    BY <1>2 DEF Reached
  <2>2. i = objs[k + 1].at
    BY <1>2, <2>1 DEF Reached
  <2>3. QED
    BY <1>1, <2>1, <2>2
<1>3. ASSUME i >= to, Reached(objs, i, k, to)
      PROVE  k = Len(objs)
  <2> SUFFICES ASSUME k # Len(objs) PROVE FALSE
    OBVIOUS
  <2>1. i = objs[k + 1].at /\ objs[k + 1].at < to
    BY <1>1, <1>3 DEF Reached
  <2>2. i < to
    BY <2>1
  <2>3. QED
    BY ONLY <1>3, <2>2, i \in Nat, to \in Nat
<1>4. ASSUME i >= to, k > 0, InBody(objs[k], i)
      PROVE  FALSE
  <2> DEFINE a == objs[k].at
             l == objs[k].length
  <2>1. k \in 1 .. Len(objs)
    BY <1>4
  <2>2. a \in Nat /\ l \in Nat /\ a + l <= to
    BY <2>1 DEF Chain
  <2>3. i < a + l
    BY <1>4 DEF InBody
  <2> HIDE DEF a, l
  <2>4. QED
    BY <1>4, <2>2, <2>3
<1>5. QED
  BY <1>2, <1>3, <1>4

\* An object of a message.
LEMMA PartFacts ==
  ASSUME NEW m, WellMade(m), NEW p \in 1 .. Len(m.parts)
  PROVE  LET o == m.parts[p]
         IN  /\ o.at \in Nat /\ o.length \in Nat /\ o.kind \in Word
             /\ o.at % 4 = 0 /\ o.length % 4 = 0 /\ o.length >= 4
             /\ At(m.words, o.at) = o.length /\ At(m.words, o.at + 2) = o.kind
             /\ Reached(m.parts, o.at + o.length, p, 2 * Len(m.words))
             /\ o.at + o.length \in Nat /\ (o.at + o.length) % 4 = 0
             /\ Len(m.parts) \in Nat /\ Len(m.words) \in Nat /\ p \in Nat /\ p >= 1
             /\ o.inner \in Seq(Slots)
             /\ Num(o.kind) = 1 => o.length = 8
             /\ Num(o.kind) = 9 => Chain(m.words, o.inner, o.at + 4, o.at + o.length)
<1> DEFINE o == m.parts[p]
<1>1. /\ o.at \in Nat /\ o.length \in Nat /\ o.kind \in Word
      /\ o.at % 4 = 0 /\ o.length % 4 = 0 /\ o.length >= 4
      /\ At(m.words, o.at) = o.length /\ At(m.words, o.at + 2) = o.kind
      /\ Reached(m.parts, o.at + o.length, p, 2 * Len(m.words))
  BY DEF WellMade, Chain
<1>2. /\ o.inner \in Seq(Slots) /\ (Num(o.kind) = 1 => o.length = 8)
      /\ Num(o.kind) = 9 => Chain(m.words, o.inner, o.at + 4, o.at + o.length)
  BY DEF WellMade
<1>3. Len(m.parts) \in Nat /\ Len(m.words) \in Nat
  BY LenProperties DEF WellMade
<1> HIDE DEF o
<1>4. o.at + o.length \in Nat /\ (o.at + o.length) % 4 = 0
  <2> DEFINE a == o.at
             l == o.length
  <2>1. a \in Nat /\ l \in Nat /\ (a % 4) = 0 /\ (l % 4) = 0
    BY <1>1
  <2> HIDE DEF a, l
  <2>2. a + l \in Nat /\ ((a + l) % 4) = 0
    BY ONLY <2>1
  <2>3. QED
    BY <2>2 DEF a, l
<1>5. QED
  BY <1>1, <1>2, <1>3, <1>4 DEF o

\* An object of a report.
LEMMA SlotFacts ==
  ASSUME NEW words, NEW objs \in Seq(Slots), NEW from, NEW to, Chain(words, objs, from, to),
         NEW k \in 1 .. Len(objs)
  PROVE  LET o == objs[k]
         IN  /\ o.at \in Nat /\ o.length \in Nat /\ o.kind \in Word
             /\ o.at % 4 = 0 /\ o.length % 4 = 0 /\ o.length >= 4
             /\ Reached(objs, o.at + o.length, k, to)
             /\ o.at + o.length \in Nat /\ (o.at + o.length) % 4 = 0
<1> DEFINE o == objs[k]
<1>1. /\ o.at \in Nat /\ o.length \in Nat /\ o.kind \in Word
      /\ o.at % 4 = 0 /\ o.length % 4 = 0 /\ o.length >= 4
      /\ Reached(objs, o.at + o.length, k, to)
  BY DEF Chain
<1> HIDE DEF o
<1>2. o.at + o.length \in Nat /\ (o.at + o.length) % 4 = 0
  <2> DEFINE a == o.at
             l == o.length
  <2>1. a \in Nat /\ l \in Nat /\ (a % 4) = 0 /\ (l % 4) = 0
    BY <1>1
  <2> HIDE DEF a, l
  <2>2. a + l \in Nat /\ ((a + l) % 4) = 0
    BY ONLY <2>1
  <2>3. QED
    BY <2>2 DEF a, l
<1>3. QED
  BY <1>1, <1>2 DEF o

\* Where ps_recvd is before the end of a message: at the next object, or in the
\* body of one that has no report.
LEMMA AtNext ==
  ASSUME NEW m, WellMade(m), NEW i \in Nat, i < 2 * Len(m.words), NEW p \in 0 .. Len(m.parts), AtPart(m, i, p)
  PROVE  \/ /\ p + 1 \in 1 .. Len(m.parts) /\ i = m.parts[p + 1].at
            /\ At(m.words, i) = m.parts[p + 1].length /\ At(m.words, i + 2) = m.parts[p + 1].kind
         \/ /\ p \in 1 .. Len(m.parts) /\ ~ReportIn(m, m.parts[p].kind) /\ InBody(m.parts[p], i)
            /\ At(m.words, i + 2) \in Seeming(m, m.parts[p])
<1>1. Len(m.parts) \in Nat /\ 2 * Len(m.words) \in Nat /\ Chain(m.words, m.parts, 0, 2 * Len(m.words))
  BY LenProperties DEF WellMade
<1>2. CASE Reached(m.parts, i, p, 2 * Len(m.words))
  BY <1>1, <1>2, Whereabouts
<1>3. CASE p > 0 /\ ~ReportIn(m, m.parts[p].kind) /\ InBody(m.parts[p], i)
  <2>1. p \in 1 .. Len(m.parts) /\ i % 4 = 0
    BY <1>3 DEF AtPart
  <2>2. At(m.words, i + 2) \in Seeming(m, m.parts[p])
    BY <1>3, <2>1, PartFacts, BodySeems
  <2>3. QED
    BY <1>3, <2>1, <2>2
<1>4. QED
  BY <1>2, <1>3 DEF AtPart

\* Four bytes on: still in the body, or at the next object.
LEMMA OnInPart ==
  ASSUME NEW m, WellMade(m), NEW i \in Nat, i % 4 = 0, NEW p \in 1 .. Len(m.parts),
         i = m.parts[p].at \/ InBody(m.parts[p], i), ~ReportIn(m, m.parts[p].kind) \/ m.parts[p].length = 4
  PROVE  AtPart(m, i + 4, p)
<1> DEFINE o == m.parts[p]
<1>1. /\ o.at \in Nat /\ o.length \in Nat /\ o.at % 4 = 0 /\ o.length % 4 = 0 /\ o.length >= 4
      /\ Reached(m.parts, o.at + o.length, p, 2 * Len(m.words)) /\ p > 0
  BY PartFacts
<1>2. (i + 4) % 4 = 0 /\ (i + 4 = o.at + o.length \/ InBody(o, i + 4))
  BY <1>1, Onward
<1>3. CASE i + 4 = o.at + o.length
  BY <1>1, <1>2, <1>3 DEF AtPart
<1>4. CASE InBody(o, i + 4)
  <2>1. o.length # 4
    <3> DEFINE a == o.at
               l == o.length
    <3>1. a < i + 4 /\ i + 4 < a + l /\ a <= i /\ a \in Nat /\ l \in Nat
      <4>1. a \in Nat /\ (i = a \/ a < i) /\ i + 4 < a + l /\ l \in Nat
        BY <1>1, <1>4 DEF InBody
      <4> HIDE DEF a, l
      <4>2. QED
        BY ONLY <1>4, <4>1, i \in Nat
    <3> HIDE DEF a, l
    <3>2. l # 4
      BY ONLY <3>1, i \in Nat
    <3>3. QED
      BY <3>2 DEF l
  <2>2. QED
    BY <1>1, <1>2, <1>4, <2>1 DEF AtPart
<1>5. QED
  BY <1>2, <1>3, <1>4

-----------------------------------------------------------------------------
(* What is filed, and the handle.                                          *)

\* The reports that are written, counted up to an object.
LEMMA WrittenUpTo ==
  ASSUME NEW m, NEW k \in Nat
  PROVE  LET W(n) == {q \in Written(m) : q <= n}
         IN  /\ IsFiniteSet(W(k)) /\ Cardinality(W(k)) \in Nat
             /\ k \in Written(m) => Cardinality(W(k)) = Cardinality(W(k - 1)) + 1
             /\ k \notin Written(m) => W(k) = W(k - 1)
             /\ \A p \in Written(m) : p <= k => Rank(m, p) \in 1 .. Cardinality(W(k))
<1> DEFINE W(n) == {q \in Written(m) : q <= n}
<1>1. \A q \in Written(m) : q \in Nat /\ q >= 1
  BY DEF Written
<1>2. ASSUME NEW n \in Int
      PROVE  IsFiniteSet(W(n)) /\ Cardinality(W(n)) \in Nat
  <2>1. IsFiniteSet(1 .. n)
    BY FS_Interval
  <2>2. W(n) \in SUBSET (1 .. n)
    BY <1>1
  <2>3. IsFiniteSet(W(n))
    BY <2>1, <2>2, FS_Subset
  <2>4. QED
    BY <2>3, FS_CardinalityType
<1>3. ASSUME k \in Written(m)
      PROVE  Cardinality(W(k)) = Cardinality(W(k - 1)) + 1
  <2>1. \A q \in Written(m) : q <= k <=> q <= k - 1 \/ q = k
    BY <1>1
  <2>2. ~(k <= k - 1) /\ k <= k
    OBVIOUS
  <2>3. W(k) = W(k - 1) \cup {k} /\ k \notin W(k - 1)
    BY ONLY <1>3, <2>1, <2>2, Zenon
  <2>4. IsFiniteSet(W(k - 1)) /\ Cardinality(W(k - 1)) \in Nat
    BY <1>2
  <2> HIDE DEF W
  <2>5. QED
    BY <2>3, <2>4, FS_AddElement
<1>4. ASSUME k \notin Written(m)
      PROVE  W(k) = W(k - 1)
  BY <1>1, <1>4
<1>5. ASSUME NEW p \in Written(m), p <= k
      PROVE  Rank(m, p) \in 1 .. Cardinality(W(k))
  <2>1. p \in Int /\ p \in W(p)
    BY <1>1
  <2>2. W(p) \in SUBSET W(k)
    BY <1>1, <1>5
  <2>3. IsFiniteSet(W(k)) /\ Cardinality(W(k)) \in Nat
    BY <1>2
  <2>4. IsFiniteSet(W(p)) /\ Cardinality(W(p)) \in Nat
    BY <1>2, <2>1
  <2>5. Rank(m, p) = Cardinality(W(p))
    BY DEF Rank
  <2> HIDE DEF W
  <2>6. Cardinality(W(p)) <= Cardinality(W(k))
    BY <2>2, <2>3, FS_Subset
  <2>7. Cardinality(W(p)) # 0
    <3>1. W(p) # {}
      BY <2>1
    <3>2. QED
      BY <2>4, <3>1, FS_EmptySet
  <2>8. QED
    BY <2>3, <2>4, <2>5, <2>6, <2>7
<1>6. QED
  BY <1>2, <1>3, <1>4, <1>5

\* An object with no report that is written.
LEMMA FiledSame ==
  ASSUME NEW m, NEW f, NEW k \in Nat, k \notin Written(m), FiledBy(m, f, k - 1)
  PROVE  FiledBy(m, f, k)
<1>1. {q \in Written(m) : q <= k} = {q \in Written(m) : q <= k - 1}
  BY WrittenUpTo
<1>2. \A p \in Written(m) : p <= k => p <= k - 1
  BY <1>1
<1>3. QED
  BY <1>1, <1>2 DEF FiledBy

\* An object with a report that is written.
LEMMA FiledMore ==
  ASSUME NEW m, NEW S, NEW f \in Seq(S), NEW e, NEW k \in Nat, k \in Written(m), FiledBy(m, f, k - 1),
         Tells(m, e, m.parts[k].inner)
  PROVE  FiledBy(m, Append(f, e), k)
<1> DEFINE W(n) == {q \in Written(m) : q <= n}
           g == Append(f, e)
           n == Len(f)
<1>1. n \in Nat /\ Len(g) = n + 1 /\ g[n + 1] = e /\ \A i \in 1 .. n : g[i] = f[i]
  OBVIOUS
<1>2. n = Cardinality(W(k - 1)) /\ \A p \in Written(m) : p <= k - 1 => Tells(m, f[Rank(m, p)], m.parts[p].inner)
  BY DEF FiledBy
<1>3. Cardinality(W(k)) = Cardinality(W(k - 1)) + 1
  BY WrittenUpTo
<1>4. Rank(m, k) = Cardinality(W(k))
  BY DEF Rank
<1>5. k >= 1 /\ k - 1 \in Nat /\ \A p \in Written(m) : p \in Nat
  BY DEF Written
<1>6. \A p \in Written(m) : p <= k - 1 => Rank(m, p) \in 1 .. n
  BY <1>2, <1>5, WrittenUpTo
<1> HIDE DEF W, g, n
<1>7. ASSUME NEW p \in Written(m), p <= k
      PROVE  Tells(m, g[Rank(m, p)], m.parts[p].inner)
  <2>1. CASE p = k
    BY <1>1, <1>2, <1>3, <1>4, <2>1
  <2>2. CASE p # k
    <3>1. p <= k - 1
      <4>1. p \in Nat
        BY <1>5
      <4>2. QED
        BY ONLY <1>7, <2>2, <4>1, k \in Nat
    <3>2. Rank(m, p) \in 1 .. n /\ Tells(m, f[Rank(m, p)], m.parts[p].inner)
      BY <1>2, <1>6, <3>1
    <3>3. QED
      BY <1>1, <3>2
  <2>3. QED
    BY <2>1, <2>2
<1>8. Len(g) = Cardinality(W(k))
  BY <1>1, <1>2, <1>3
<1>9. QED
  BY <1>7, <1>8 DEF FiledBy, W, g

\* An object without a handle, or when one is had already.
LEMMA HandleSame ==
  ASSUME NEW m, NEW b, NEW h, NEW received, NEW k \in Nat, k >= 1,
         ~HandleIn(m.parts[k].kind) \/ received, HandleBy(m, b, h, received, k - 1)
  PROVE  HandleBy(m, b, h, received, k)
<1> DEFINE H(n) == {p \in 1 .. n : HandleIn(m.parts[p].kind)}
<1>1. CASE b.uuid_received
  BY <1>1 DEF HandleBy
<1>2. CASE ~b.uuid_received /\ ~HandleIn(m.parts[k].kind)
  <2>1. H(k) = H(k - 1)
    BY <1>2
  <2>2. QED
    BY <1>2, <2>1 DEF HandleBy
<1>3. CASE ~b.uuid_received /\ received
  <2>1. H(k - 1) # {}
    BY <1>3 DEF HandleBy
  <2>2. PICK p \in H(k - 1) :
          /\ \A q \in H(k - 1) : p <= q
          /\ h = <<At(m.words, m.parts[p].at + 4), At(m.words, m.parts[p].at + 6)>>
    BY <1>3, <2>1 DEF HandleBy
  <2>3. p \in H(k) /\ \A q \in H(k) : p <= q
    <3>1. p \in 1 .. k - 1 /\ HandleIn(m.parts[p].kind)
      OBVIOUS
    <3>2. ASSUME NEW q \in H(k) PROVE p <= q
      <4>1. CASE q = k
        BY <3>1, <4>1
      <4>2. CASE q # k
        <5>1. q \in H(k - 1)
          BY <4>2
        <5>2. QED
          BY <2>2, <5>1
      <4>3. QED
        BY <4>1, <4>2
    <3>3. QED
      BY <3>1, <3>2
  <2>4. QED
    BY <1>3, <2>2, <2>3 DEF HandleBy
<1>4. QED
  BY <1>1, <1>2, <1>3

\* The first handle is taken.
LEMMA HandleFirst ==
  ASSUME NEW m, NEW b, NEW h, NEW k \in Nat, k >= 1, HandleIn(m.parts[k].kind),
         HandleBy(m, b, h, FALSE, k - 1)
  PROVE  HandleBy(m, b, <<At(m.words, m.parts[k].at + 4), At(m.words, m.parts[k].at + 6)>>, TRUE, k)
<1> DEFINE H(n) == {p \in 1 .. n : HandleIn(m.parts[p].kind)}
<1>1. H(k - 1) = {} /\ b.uuid_received = FALSE
  BY DEF HandleBy
<1>2. H(k) = {k}
  BY <1>1
<1>3. QED
  BY <1>1, <1>2 DEF HandleBy

-----------------------------------------------------------------------------
(* The steps of ps_recvd.                                                  *)

\* An object that ps_recvd passes over, or four bytes of its body.
LEMMA PassKeeps ==
  ASSUME NEW m, WellMade(m), NEW b, NEW f, NEW h, NEW received, NEW i \in Nat, i < 2 * Len(m.words),
         InObjects(m, b, f, h, received, i),
         ~ReportIn(m, At(m.words, i + 2)), HandleIn(At(m.words, i + 2)) => received
  PROVE  InObjects(m, b, f, h, received, i + 4)
<1>1. PICK p \in 0 .. Len(m.parts) : AtPart(m, i, p) /\ FiledBy(m, f, p) /\ HandleBy(m, b, h, received, p)
  BY DEF InObjects
<1>2. i % 4 = 0
  BY <1>1 DEF AtPart
<1>3. CASE p + 1 \in 1 .. Len(m.parts) /\ i = m.parts[p + 1].at /\ At(m.words, i + 2) = m.parts[p + 1].kind
  <2> DEFINE q == p + 1
  <2>1. q \in 1 .. Len(m.parts) /\ q \in 0 .. Len(m.parts) /\ q \in Nat /\ q >= 1 /\ q - 1 = p
    BY <1>3
  <2>2. i = m.parts[q].at /\ ~ReportIn(m, m.parts[q].kind) /\ (HandleIn(m.parts[q].kind) => received)
    BY <1>3
  <2> HIDE DEF q
  <2>3. AtPart(m, i + 4, q)
    BY <1>2, <2>1, <2>2, OnInPart
  <2>4. q \notin Written(m)
    BY <2>2 DEF Written
  <2>5. FiledBy(m, f, q)
    BY <1>1, <2>1, <2>4, FiledSame
  <2>6. HandleBy(m, b, h, received, q)
    BY <1>1, <2>1, <2>2, HandleSame
  <2>7. QED
    BY <2>1, <2>3, <2>5, <2>6 DEF InObjects
<1>4. CASE p \in 1 .. Len(m.parts) /\ ~ReportIn(m, m.parts[p].kind) /\ InBody(m.parts[p], i)
  <2>1. AtPart(m, i + 4, p)
    BY <1>2, <1>4, OnInPart
  <2>2. QED
    BY <1>1, <2>1 DEF InObjects
<1>5. QED
  BY <1>1, <1>3, <1>4, AtNext

\* The first handle.
LEMMA TakeKeeps ==
  ASSUME NEW m, WellMade(m), NEW b, NEW f, NEW h, NEW i \in Nat, i < 2 * Len(m.words),
         Plain(m, b.uuid_received), InObjects(m, b, f, h, FALSE, i), HandleIn(At(m.words, i + 2))
  PROVE  InObjects(m, b, f, <<At(m.words, i + 4), At(m.words, i + 6)>>, TRUE, i + 8)
<1>1. PICK p \in 0 .. Len(m.parts) : AtPart(m, i, p) /\ FiledBy(m, f, p) /\ HandleBy(m, b, h, FALSE, p)
  BY DEF InObjects
<1>2. i % 4 = 0
  BY <1>1 DEF AtPart
<1>3. CASE p + 1 \in 1 .. Len(m.parts) /\ i = m.parts[p + 1].at /\ At(m.words, i + 2) = m.parts[p + 1].kind
  <2> DEFINE q == p + 1
  <2>1. q \in 1 .. Len(m.parts) /\ q \in 0 .. Len(m.parts) /\ q \in Nat /\ q >= 1 /\ q - 1 = p
    BY <1>3
  <2>2. i = m.parts[q].at /\ HandleIn(m.parts[q].kind)
    BY <1>3
  <2> HIDE DEF q
  <2>3. Num(m.parts[q].kind) = 1
    BY <2>2 DEF HandleIn
  <2>4. i + 8 = m.parts[q].at + m.parts[q].length /\ (m.parts[q].at + m.parts[q].length) % 4 = 0
        /\ Reached(m.parts, m.parts[q].at + m.parts[q].length, q, 2 * Len(m.words))
    BY <2>1, <2>2, <2>3, PartFacts
  <2>5. AtPart(m, i + 8, q)
    BY <2>4 DEF AtPart
  <2>6. q \notin Written(m)
    BY <2>3 DEF Written, ReportIn
  <2>7. FiledBy(m, f, q)
    BY <1>1, <2>1, <2>6, FiledSame
  <2>8. HandleBy(m, b, <<At(m.words, i + 4), At(m.words, i + 6)>>, TRUE, q)
    BY <1>1, <2>1, <2>2, HandleFirst
  <2>9. QED
    BY <2>1, <2>5, <2>7, <2>8 DEF InObjects
<1>4. CASE p \in 1 .. Len(m.parts) /\ ~ReportIn(m, m.parts[p].kind) /\ At(m.words, i + 2) \in Seeming(m, m.parts[p])
  <2>1. b.uuid_received
    BY <1>4 DEF Plain
  <2>2. QED
    BY <1>1, <2>1 DEF HandleBy
<1>5. QED
  BY <1>1, <1>3, <1>4, AtNext

\* A report.
LEMMA ReportAt ==
  ASSUME NEW m, WellMade(m), NEW b, NEW f, NEW h, NEW received, NEW i \in Nat, i < 2 * Len(m.words),
         Plain(m, b.uuid_received), InObjects(m, b, f, h, received, i), ReportIn(m, At(m.words, i + 2))
  PROVE  \E p \in 1 .. Len(m.parts) :
            /\ FiledBy(m, f, p - 1) /\ HandleBy(m, b, h, received, p)
            /\ i = m.parts[p].at /\ i % 4 = 0 /\ At(m.words, i) = m.parts[p].length
            /\ ReportIn(m, m.parts[p].kind)
<1>1. PICK p \in 0 .. Len(m.parts) : AtPart(m, i, p) /\ FiledBy(m, f, p) /\ HandleBy(m, b, h, received, p)
  BY DEF InObjects
<1>2. CASE /\ p + 1 \in 1 .. Len(m.parts) /\ i = m.parts[p + 1].at
           /\ At(m.words, i) = m.parts[p + 1].length /\ At(m.words, i + 2) = m.parts[p + 1].kind
  <2> DEFINE q == p + 1
  <2>1. q \in 1 .. Len(m.parts) /\ q \in Nat /\ q >= 1 /\ q - 1 = p
    BY <1>2
  <2>2. i = m.parts[q].at /\ At(m.words, i) = m.parts[q].length /\ ReportIn(m, m.parts[q].kind)
    BY <1>2
  <2> HIDE DEF q
  <2>3. ~HandleIn(m.parts[q].kind)
    BY <2>2 DEF ReportIn, HandleIn
  <2>4. HandleBy(m, b, h, received, q) /\ FiledBy(m, f, q - 1)
    BY <1>1, <2>1, <2>3, HandleSame
  <2>5. i % 4 = 0
    BY <1>1 DEF AtPart
  <2>6. QED
    BY <2>1, <2>2, <2>4, <2>5
<1>3. CASE p \in 1 .. Len(m.parts) /\ ~ReportIn(m, m.parts[p].kind) /\ At(m.words, i + 2) \in Seeming(m, m.parts[p])
  BY <1>3 DEF Plain
<1>4. QED
  BY <1>1, <1>2, <1>3, AtNext

\* ps_pcmm_report wants nothing of a report that is only a header.
LEMMA EmptyReportKeeps ==
  ASSUME NEW m, WellMade(m), NEW b, NEW f, NEW h, NEW received, NEW i \in Nat, i < 2 * Len(m.words),
         Plain(m, b.uuid_received), InObjects(m, b, f, h, received, i),
         ReportIn(m, At(m.words, i + 2)), At(m.words, i) = 4
  PROVE  InObjects(m, b, f, h, received, i + 4)
<1>1. PICK p \in 1 .. Len(m.parts) :
            /\ FiledBy(m, f, p - 1) /\ HandleBy(m, b, h, received, p)
            /\ i = m.parts[p].at /\ i % 4 = 0 /\ At(m.words, i) = m.parts[p].length
            /\ ReportIn(m, m.parts[p].kind)
  BY ReportAt
<1>2. AtPart(m, i + 4, p)
  BY <1>1, OnInPart
<1>3. p \notin Written(m)
  BY <1>1 DEF Written
<1>4. FiledBy(m, f, p)
  BY <1>1, <1>3, FiledSame
<1>5. QED
  BY <1>1, <1>2, <1>4 DEF InObjects

\* ps_pcmm_report begins behind the header of the object.
LEMMA OpenKeeps ==
  ASSUME NEW m, WellMade(m), NEW b, NEW f, NEW h, NEW received, NEW i \in Nat, i < 2 * Len(m.words),
         Plain(m, b.uuid_received), InObjects(m, b, f, h, received, i),
         ReportIn(m, At(m.words, i + 2)), At(m.words, i) # 4
  PROVE  InReport(m, b, f, h, received, i + 4, i + At(m.words, i), Fresh)
<1>1. PICK p \in 1 .. Len(m.parts) :
            /\ FiledBy(m, f, p - 1) /\ HandleBy(m, b, h, received, p)
            /\ i = m.parts[p].at /\ i % 4 = 0 /\ At(m.words, i) = m.parts[p].length
            /\ ReportIn(m, m.parts[p].kind)
  BY ReportAt
<1>2. m.parts[p].length > 4
  <2>1. m.parts[p].length \in Nat /\ m.parts[p].length >= 4
    BY PartFacts
  <2>2. QED
    BY <1>1, <2>1
<1>3. /\ Chain(m.words, m.parts[p].inner, m.parts[p].at + 4, m.parts[p].at + m.parts[p].length)
      /\ m.parts[p].inner \in Seq(Slots)
  BY <1>1, PartFacts DEF ReportIn
<1>4. Reached(m.parts[p].inner, i + 4, 0, m.parts[p].at + m.parts[p].length)
  BY <1>1, <1>3 DEF Chain
<1>5. (i + 4) % 4 = 0
  BY <1>1
<1>6. AtObject(m.parts[p], i + 4, 0) /\ Reads(m, Fresh, m.parts[p].inner, 0)
  BY <1>3, <1>4, <1>5, ReadsNothing DEF AtObject
<1>7. 0 \in 0 .. Len(m.parts[p].inner)
  BY <1>3, LenProperties
<1>8. QED
  BY <1>1, <1>2, <1>6, <1>7 DEF InReport

\* The end of the message.
LEMMA EndReached ==
  ASSUME NEW m, WellMade(m), NEW b, NEW f, NEW h, NEW received, NEW i \in Nat, i >= 2 * Len(m.words),
         InObjects(m, b, f, h, received, i)
  PROVE  Complete(m, b, f, h, received)
<1>1. PICK p \in 0 .. Len(m.parts) : AtPart(m, i, p) /\ FiledBy(m, f, p) /\ HandleBy(m, b, h, received, p)
  BY DEF InObjects
<1>2. Len(m.parts) \in Nat /\ 2 * Len(m.words) \in Nat /\ Chain(m.words, m.parts, 0, 2 * Len(m.words))
  BY LenProperties DEF WellMade
<1>3. p = Len(m.parts)
  BY <1>1, <1>2, Whereabouts DEF AtPart
<1>4. QED
  BY <1>1, <1>3 DEF Complete

-----------------------------------------------------------------------------
(* The steps of ps_pcmm_report.                                            *)

\* What is known of the object whose report is being walked over.
LEMMA ReportFacts ==
  ASSUME NEW m, WellMade(m), NEW p \in 1 .. Len(m.parts), ReportIn(m, m.parts[p].kind)
  PROVE  LET o == m.parts[p]
         IN  /\ o.inner \in Seq(Slots) /\ Len(o.inner) \in Nat /\ o.at + o.length \in Nat
             /\ Chain(m.words, o.inner, o.at + 4, o.at + o.length)
  BY PartFacts, LenProperties DEF ReportIn

\* Where ps_pcmm_report is before the end of a report.
LEMMA AtNextSlot ==
  ASSUME NEW m, WellMade(m), NEW p \in 1 .. Len(m.parts), ReportIn(m, m.parts[p].kind),
         NEW i \in Nat, i < m.parts[p].at + m.parts[p].length,
         NEW k \in 0 .. Len(m.parts[p].inner), AtObject(m.parts[p], i, k)
  PROVE  LET objs == m.parts[p].inner
         IN  \/ /\ k + 1 \in 1 .. Len(objs) /\ i = objs[k + 1].at
                /\ At(m.words, i) = objs[k + 1].length /\ At(m.words, i + 2) = objs[k + 1].kind
             \/ /\ k \in 1 .. Len(objs) /\ ~Known(objs[k].kind) /\ InBody(objs[k], i)
                /\ At(m.words, i + 2) \in Seeming(m, objs[k])
<1> DEFINE objs == m.parts[p].inner
           from == m.parts[p].at + 4
           to == m.parts[p].at + m.parts[p].length
<1>1. objs \in Seq(Slots) /\ Len(objs) \in Nat /\ to \in Nat /\ Chain(m.words, objs, from, to)
  BY ReportFacts
<1>2. /\ i % 4 = 0
      /\ Reached(objs, i, k, to) \/ (k > 0 /\ ~Known(objs[k].kind) /\ InBody(objs[k], i))
  BY DEF AtObject
<1>3. i < to /\ k \in 0 .. Len(objs)
  OBVIOUS
<1> HIDE DEF objs, from, to
<1>4. CASE Reached(objs, i, k, to)
  <2>1. /\ k + 1 \in 1 .. Len(objs) /\ i = objs[k + 1].at
        /\ At(m.words, i) = objs[k + 1].length /\ At(m.words, i + 2) = objs[k + 1].kind
    BY <1>1, <1>3, <1>4, Whereabouts
  <2>2. QED
    BY <2>1 DEF objs
<1>5. CASE k > 0 /\ ~Known(objs[k].kind) /\ InBody(objs[k], i)
  <2>1. k \in 1 .. Len(objs)
    BY <1>3, <1>5
  <2>2. objs[k].at \in Nat /\ objs[k].length \in Nat /\ objs[k].at % 4 = 0
    BY <1>1, <2>1, SlotFacts
  <2>3. At(m.words, i + 2) \in Seeming(m, objs[k])
    BY <1>2, <1>5, <2>2, BodySeems
  <2>4. QED
    BY <1>5, <2>1, <2>3 DEF objs
<1>6. QED
  BY <1>2, <1>4, <1>5

\* Four bytes on from where an object of no known kind begins, or from its body.
LEMMA OnInReport ==
  ASSUME NEW o, NEW words, o.inner \in Seq(Slots), NEW from, Chain(words, o.inner, from, o.at + o.length),
         NEW i \in Nat, i % 4 = 0, NEW k \in 1 .. Len(o.inner),
         i = o.inner[k].at \/ InBody(o.inner[k], i), ~Known(o.inner[k].kind)
  PROVE  AtObject(o, i + 4, k)
<1> DEFINE objs == o.inner
           to == o.at + o.length
<1>1. objs \in Seq(Slots) /\ Chain(words, objs, from, to) /\ k \in 1 .. Len(objs) /\ k > 0
  OBVIOUS
<1>2. /\ objs[k].at \in Nat /\ objs[k].length \in Nat
      /\ objs[k].at % 4 = 0 /\ objs[k].length % 4 = 0 /\ objs[k].length >= 4
      /\ Reached(objs, objs[k].at + objs[k].length, k, to)
  BY <1>1, SlotFacts
<1>3. (i + 4) % 4 = 0 /\ (i + 4 = objs[k].at + objs[k].length \/ InBody(objs[k], i + 4))
  BY <1>2, Onward
<1>4. Reached(objs, i + 4, k, to) \/ InBody(objs[k], i + 4)
  BY <1>2, <1>3
<1>5. QED
  BY <1>1, <1>3, <1>4 DEF AtObject

\* A kind that is not known, or four bytes of its body.
LEMMA PassWordKeeps ==
  ASSUME NEW m, WellMade(m), NEW b, NEW f, NEW h, NEW received, NEW r, NEW i \in Nat, NEW end, i < end,
         InReport(m, b, f, h, received, i, end, r), ~Known(At(m.words, i + 2))
  PROVE  InReport(m, b, f, h, received, i + 4, end, r)
<1>1. PICK p \in 1 .. Len(m.parts) :
          /\ ReportIn(m, m.parts[p].kind) /\ m.parts[p].length > 4
          /\ end = m.parts[p].at + m.parts[p].length
          /\ FiledBy(m, f, p - 1) /\ HandleBy(m, b, h, received, p)
          /\ \E k \in 0 .. Len(m.parts[p].inner) :
                AtObject(m.parts[p], i, k) /\ Reads(m, r, m.parts[p].inner, k)
  BY DEF InReport
<1> DEFINE o == m.parts[p]
           objs == o.inner
<1>2. PICK k \in 0 .. Len(objs) : AtObject(o, i, k) /\ Reads(m, r, objs, k)
  BY <1>1
<1>3. objs \in Seq(Slots) /\ Len(objs) \in Nat /\ Chain(m.words, objs, o.at + 4, o.at + o.length)
  BY <1>1, ReportFacts
<1>4. i % 4 = 0
  BY <1>2 DEF AtObject
<1>5. \/ k + 1 \in 1 .. Len(objs) /\ i = objs[k + 1].at /\ At(m.words, i + 2) = objs[k + 1].kind
      \/ k \in 1 .. Len(objs) /\ ~Known(objs[k].kind) /\ InBody(objs[k], i)
  BY <1>1, <1>2, AtNextSlot
<1> SUFFICES \E q \in 0 .. Len(objs) : AtObject(o, i + 4, q) /\ Reads(m, r, objs, q)
  BY <1>1 DEF InReport
<1> HIDE DEF o
<1>6. CASE k + 1 \in 1 .. Len(objs) /\ i = objs[k + 1].at /\ At(m.words, i + 2) = objs[k + 1].kind
  <2> DEFINE q == k + 1
  <2>1. q \in 1 .. Len(objs) /\ q \in 0 .. Len(objs) /\ q - 1 = k /\ i = objs[q].at /\ ~Known(objs[q].kind)
    BY <1>6
  <2> HIDE DEF q
  <2>2. AtObject(o, i + 4, q)
    BY <1>3, <1>4, <2>1, OnInReport
  <2>3. objs[q].kind \in Word
    BY <1>3, <2>1, SlotFacts
  <2>4. Reads(m, r, objs, q)
    BY <1>2, <1>3, <2>1, <2>3, ReadsPassed
  <2>5. QED
    BY <2>1, <2>2, <2>4
<1>7. CASE k \in 1 .. Len(objs) /\ ~Known(objs[k].kind) /\ InBody(objs[k], i)
  <2>1. AtObject(o, i + 4, k)
    BY <1>3, <1>4, <1>7, OnInReport
  <2>2. QED
    BY <1>2, <2>1
<1>8. QED
  BY <1>5, <1>6, <1>7

\* An object of a known kind.
LEMMA DecodeKeeps ==
  ASSUME NEW m, WellMade(m), NEW b, NEW f, NEW h, NEW received, NEW r \in Reports, NEW i \in Nat, NEW end, i < end,
         Plain(m, b.uuid_received), InReport(m, b, f, h, received, i, end, r), Known(At(m.words, i + 2)),
         NEW body, \A n \in 0 .. 16 : body[n] = At(m.words, i + 4 + 2 * n)
  PROVE  InReport(m, b, f, h, received, i + At(m.words, i), end, Decode(r, At(m.words, i + 2), body))
<1>1. PICK p \in 1 .. Len(m.parts) :
          /\ ReportIn(m, m.parts[p].kind) /\ m.parts[p].length > 4
          /\ end = m.parts[p].at + m.parts[p].length
          /\ FiledBy(m, f, p - 1) /\ HandleBy(m, b, h, received, p)
          /\ \E k \in 0 .. Len(m.parts[p].inner) :
                AtObject(m.parts[p], i, k) /\ Reads(m, r, m.parts[p].inner, k)
  BY DEF InReport
<1> DEFINE o == m.parts[p]
           objs == o.inner
           kind == At(m.words, i + 2)
           d == Decode(r, kind, body)
<1>2. PICK k \in 0 .. Len(objs) : AtObject(o, i, k) /\ Reads(m, r, objs, k)
  BY <1>1
<1>3. objs \in Seq(Slots) /\ Len(objs) \in Nat /\ Chain(m.words, objs, o.at + 4, o.at + o.length)
  BY <1>1, ReportFacts
<1>4. i % 4 = 0
  BY <1>2 DEF AtObject
<1>5. \/ k + 1 \in 1 .. Len(objs) /\ i = objs[k + 1].at
            /\ At(m.words, i) = objs[k + 1].length /\ kind = objs[k + 1].kind
      \/ k \in 1 .. Len(objs) /\ ~Known(objs[k].kind) /\ kind \in Seeming(m, objs[k])
  BY <1>1, <1>2, AtNextSlot
<1>6. \A j \in 1 .. Len(objs) : Known(objs[j].kind) \/ \A sort \in Seeming(m, objs[j]) : ~Known(sort)
  BY <1>1 DEF Plain
<1>7. k + 1 \in 1 .. Len(objs) /\ i = objs[k + 1].at
        /\ At(m.words, i) = objs[k + 1].length /\ kind = objs[k + 1].kind
  BY <1>5, <1>6
<1>8. Known(kind) /\ \A n \in 0 .. 16 : body[n] = At(m.words, i + 4 + 2 * n)
  OBVIOUS
<1>9. \E q \in 0 .. Len(objs) : AtObject(o, i + At(m.words, i), q) /\ Reads(m, d, objs, q)
  <2> HIDE DEF o, kind, d
  <2> DEFINE q == k + 1
             length == At(m.words, i)
  <2>1. /\ q \in 1 .. Len(objs) /\ q \in 0 .. Len(objs) /\ q - 1 = k
        /\ i = objs[q].at /\ length = objs[q].length /\ kind = objs[q].kind
    <3> HIDE DEF length
    <3>1. k + 1 \in 1 .. Len(objs)
      BY <1>7
    <3>2. i = objs[q].at /\ length = objs[q].length /\ kind = objs[q].kind
      BY <1>7 DEF length
    <3>3. QED
      BY ONLY <3>1, <3>2, k \in 0 .. Len(objs)
  <2> HIDE DEF q
  <2>2. /\ kind \in Word /\ (objs[q].at + objs[q].length) % 4 = 0
        /\ Reached(objs, objs[q].at + objs[q].length, q, o.at + o.length)
    BY <1>3, <2>1, SlotFacts
  <2>3. AtObject(o, i + At(m.words, i), q)
    BY <2>1, <2>2 DEF AtObject
  <2>4. IsBody(m, objs[q], body)
    BY <1>8, <2>1 DEF IsBody
  <2>5. d = Decode(r, kind, body)
    BY DEF d
  <2>6. Reads(m, r, objs, q - 1)
    BY <1>2, <2>1
  <2>7. Reads(m, d, objs, q)
    BY ONLY <1>3, <1>8, <2>1, <2>2, <2>4, <2>5, <2>6, r \in Reports, ReadsKnown
  <2>8. QED
    BY <2>1, <2>3, <2>7
<1> HIDE DEF d
<1>10. InReport(m, b, f, h, received, i + At(m.words, i), end, d)
  BY <1>1, <1>9 DEF InReport
<1>11. QED
  BY <1>10 DEF d

\* If the last classifier is an extended one, it is the last of these.
LEMMA ExtendedLast ==
  ASSUME NEW objs, Len(objs) \in Nat, LastOf(objs, {Legacy, Extended}) # 0,
         objs[LastOf(objs, {Legacy, Extended})].kind # Legacy
  PROVE  LastOf(objs, {Extended}) = LastOf(objs, {Legacy, Extended})
<1> DEFINE l == LastOf(objs, {Legacy, Extended})
           e == LastOf(objs, {Extended})
<1>1. l \in 1 .. Len(objs) /\ objs[l].kind = Extended
      /\ \A k \in 1 .. Len(objs) : objs[k].kind \in {Legacy, Extended} => k <= l
  BY LastIs
<1>2. /\ e \in 0 .. Len(objs) /\ (e # 0 => objs[e].kind \in {Extended})
      /\ \A k \in 1 .. Len(objs) : objs[k].kind \in {Extended} => k <= e
  BY LastIs
<1> HIDE DEF l, e
<1>3. l <= e
  BY <1>1, <1>2
<1>4. e <= l
  BY <1>1, <1>2, <1>3
<1>5. l = e
  BY <1>1, <1>2, <1>3, <1>4
<1>6. QED
  BY <1>5 DEF l, e

\* What goes to a file tells what the report says, label by label.
LEMMA EntryTells ==
  ASSUME NEW m, NEW r, NEW objs, Len(objs) \in Nat, Means(m, r, objs)
  PROVE  Tells(m, Entry(r), objs)
<1> DEFINE e == Entry(r)
           last == LastOf(objs, {Legacy, Extended})
<1>1. /\ r.transaction = Said(m, objs, Both(1), 0) /\ r.gate_cmd = Action(Said(m, objs, Both(1), 1))
      /\ r.application = Pair(m, objs, Both(2), 0) /\ r.gate_id = Pair(m, objs, {GateId}, 0)
      /\ r.spec = <<Num(Said(m, objs, {GateSpec}, 0)), Type(Said(m, objs, {GateSpec}, 1)),
                    Said(m, objs, {GateSpec}, 2), Said(m, objs, {GateSpec}, 3),
                    Said(m, objs, {GateSpec}, 4), Said(m, objs, {GateSpec}, 5)>>
      /\ r.error = <<Said(m, objs, Both(14), 0), Said(m, objs, Both(14), 1),
                     Description(Said(m, objs, Both(14), 0))>>
  BY DEF Means
<1>2. /\ r.classifier = IF last = 0 THEN "none" ELSE IF objs[last].kind = Legacy THEN "legacy" ELSE "extended"
      /\ r.src_start = Said(m, objs, {Legacy, Extended}, IF r.classifier = "legacy" THEN 6 ELSE 10)
      /\ r.dst_start = Said(m, objs, {Legacy, Extended}, IF r.classifier = "legacy" THEN 7 ELSE 12)
      /\ <<r.src_end, r.dst_end>> = <<Said(m, objs, {Extended}, 11), Said(m, objs, {Extended}, 13)>>
      /\ r.id = Said(m, objs, {Extended}, 14)
      /\ r.rest = <<Said(m, objs, {Extended}, 15), Num(Said(m, objs, {Extended}, 16))>>
  BY DEF Means, Classified
<1>3. r.application[2] = Said(m, objs, Both(2), 1)
  BY <1>1 DEF Pair
<1>4. CASE r.transaction = 0 /\ r.gate_id # <<0, 0>>
  <2>1. e = [format |-> "orphan", gate_id |-> r.gate_id, gate_cmd |-> r.gate_cmd]
    BY <1>4 DEF Entry
  <2>2. FormatOf(m, objs) = "orphan"
    BY <1>1, <1>4 DEF FormatOf
  <2>3. QED
    BY <1>1, <2>1, <2>2 DEF Tells
<1>5. CASE ~(r.transaction = 0 /\ r.gate_id # <<0, 0>>) /\ r.error[3] # 0
  <2>1. e = ErrorEntry(r)
    BY <1>5 DEF Entry, WriteReport
  <2>2. FormatOf(m, objs) = "error"
    BY <1>1, <1>5 DEF FormatOf
  <2>3. QED
    BY <1>1, <2>1, <2>2 DEF Tells, ErrorEntry
<1>6. CASE ~(r.transaction = 0 /\ r.gate_id # <<0, 0>>) /\ r.error[3] = 0 /\ r.classifier = "none"
  <2>1. e = DefaultEntry(r)
    BY <1>6 DEF Entry, WriteReport
  <2>2. FormatOf(m, objs) = "none"
    BY <1>1, <1>2, <1>6 DEF FormatOf
  <2>3. QED
    BY <1>1, <1>3, <2>1, <2>2 DEF Tells, DefaultEntry
<1>7. CASE ~(r.transaction = 0 /\ r.gate_id # <<0, 0>>) /\ r.error[3] = 0 /\ r.classifier = "legacy"
  <2>1. e = LegacyEntry(r)
    BY <1>7 DEF Entry, WriteReport
  <2>2. FormatOf(m, objs) = "legacy"
    BY <1>1, <1>2, <1>7 DEF FormatOf
  <2>3. <<r.src_start, r.dst_start>> = Pair(m, objs, {Legacy, Extended}, 6)
    BY <1>2, <1>7 DEF Pair
  <2>4. /\ e.format = "legacy" /\ e.gate_id = r.gate_id /\ e.gate_cmd = r.gate_cmd
        /\ e.application_id = r.application[2] /\ e.spec = r.spec /\ e.classifier_id = r.id
        /\ e.src_port_start = r.src_start /\ e.src_port_end = r.dst_start
    BY ONLY <2>1 DEF LegacyEntry
  <2> HIDE DEF e
  <2>5. TellsSpec(m, e, objs)
    BY ONLY <1>1, <1>2, <2>3, <2>4 DEF TellsSpec
  <2>6. Tells(m, e, objs)
    BY ONLY <1>1, <1>3, <2>2, <2>4, <2>5 DEF Tells
  <2>7. QED
    BY ONLY <2>6 DEF e
<1>8. CASE ~(r.transaction = 0 /\ r.gate_id # <<0, 0>>) /\ r.error[3] = 0 /\ r.classifier = "extended"
  <2>1. e = ExtendedEntry(r)
    BY <1>8 DEF Entry, WriteReport
  <2>2. FormatOf(m, objs) = "extended"
    BY <1>1, <1>2, <1>8 DEF FormatOf
  <2>3. LastOf(objs, {Extended}) = last
    BY <1>2, <1>8, ExtendedLast
  <2>4. /\ <<r.src_start, r.src_end>> = Pair(m, objs, {Extended}, 10)
        /\ <<r.dst_start, r.dst_end>> = Pair(m, objs, {Extended}, 12)
    BY <1>2, <1>8, <2>3 DEF Pair, Said
  <2>5. /\ e.format = "extended" /\ e.gate_id = r.gate_id /\ e.gate_cmd = r.gate_cmd
        /\ e.application_id = r.application[2] /\ e.spec = r.spec /\ e.classifier_id = r.id
        /\ e.src_port_start = r.src_start /\ e.src_port_end = r.src_end
        /\ e.dst_port_start = r.dst_start /\ e.dst_port_end = r.dst_end /\ e.rest = r.rest
    BY ONLY <2>1 DEF ExtendedEntry
  <2> HIDE DEF e
  <2>6. TellsSpec(m, e, objs)
    BY ONLY <1>1, <1>2, <2>4, <2>5 DEF TellsSpec
  <2>7. Tells(m, e, objs)
    BY ONLY <1>1, <1>3, <2>2, <2>5, <2>6 DEF Tells
  <2>8. QED
    BY ONLY <2>7 DEF e
<1>9. QED
  BY <1>2, <1>4, <1>5, <1>6, <1>7, <1>8

\* What all the objects of a report say.
LEMMA ReadsAll ==
  ASSUME NEW m, NEW r, NEW objs, SubSeq(objs, 1, Len(objs)) = objs, Reads(m, r, objs, Len(objs))
  PROVE  Means(m, r, objs) /\ (r.state <=> Said(m, objs, Both(15), 1) \notin {0, 65535})
<1> DEFINE o == SubSeq(objs, 1, Len(objs))
<1>1. Means(m, r, o) /\ (r.state <=> Said(m, o, Both(15), 1) \notin {0, 65535})
  BY DEF Reads
<1>2. o = objs
  OBVIOUS
<1> HIDE DEF o
<1>3. QED
  BY <1>1, <1>2

\* The end of the report.
LEMMA FileKeeps ==
  ASSUME NEW m, WellMade(m), NEW b, NEW S, NEW f \in Seq(S), NEW h, NEW received, NEW r,
         NEW i \in Nat, NEW end, i >= end, InReport(m, b, f, h, received, i, end, r)
  PROVE  InObjects(m, b, IF r.state THEN f ELSE Append(f, Entry(r)), h, received, end)
<1>1. PICK p \in 1 .. Len(m.parts) :
          /\ ReportIn(m, m.parts[p].kind) /\ m.parts[p].length > 4
          /\ end = m.parts[p].at + m.parts[p].length
          /\ FiledBy(m, f, p - 1) /\ HandleBy(m, b, h, received, p)
          /\ \E k \in 0 .. Len(m.parts[p].inner) :
                AtObject(m.parts[p], i, k) /\ Reads(m, r, m.parts[p].inner, k)
  BY DEF InReport
<1> DEFINE o == m.parts[p]
           objs == o.inner
           g == IF r.state THEN f ELSE Append(f, Entry(r))
<1>2. PICK k \in 0 .. Len(objs) : AtObject(o, i, k) /\ Reads(m, r, objs, k)
  BY <1>1
<1>3. /\ objs \in Seq(Slots) /\ Len(objs) \in Nat /\ o.at + o.length \in Nat
      /\ Chain(m.words, objs, o.at + 4, o.at + o.length)
  BY <1>1, ReportFacts
<1>4. k = Len(objs)
  <2>1. Reached(objs, i, k, o.at + o.length) \/ (k > 0 /\ InBody(objs[k], i))
    BY <1>2 DEF AtObject
  <2>2. QED
    BY <1>1, <1>3, <2>1, Whereabouts
<1>5. SubSeq(objs, 1, Len(objs)) = objs
  <2> HIDE DEF objs
  <2>1. SubSeq(objs, 1, Len(objs)) \in Seq(Slots) /\ Len(SubSeq(objs, 1, Len(objs))) = Len(objs)
    BY ONLY <1>3
  <2>2. \A j \in 1 .. Len(objs) : SubSeq(objs, 1, Len(objs))[j] = objs[j]
    BY ONLY <1>3
  <2>3. QED
    BY ONLY <1>3, <2>1, <2>2, SeqEqual
<1>6. Means(m, r, objs) /\ (r.state <=> Said(m, objs, Both(15), 1) \notin {0, 65535})
  <2>1. Reads(m, r, objs, Len(objs))
    BY <1>2, <1>4
  <2> HIDE DEF objs
  <2>2. QED
    BY <1>5, <2>1, ReadsAll
<1>7. p \in Nat /\ p >= 1 /\ (p \in Written(m) <=> ~r.state)
  BY <1>1, <1>6 DEF Written
<1>8. FiledBy(m, g, p)
  <2>1. CASE r.state
    BY <1>1, <1>7, <2>1, FiledSame
  <2>2. CASE ~r.state
    <3>1. Tells(m, Entry(r), objs)
      BY <1>3, <1>6, EntryTells
    <3>2. FiledBy(m, Append(f, Entry(r)), p)
      BY <1>1, <1>7, <2>2, <3>1, FiledMore
    <3>3. QED
      BY <2>2, <3>2
  <2>3. QED
    BY <2>1, <2>2
<1> HIDE DEF g
<1>9. AtPart(m, end, p)
  BY <1>1, PartFacts DEF AtPart
<1>10. InObjects(m, b, g, h, received, end)
  BY <1>1, <1>8, <1>9 DEF InObjects
<1>11. QED
  BY <1>10 DEF g

-----------------------------------------------------------------------------
(* Types.                                                                  *)

\* The fields the decoders take out of a word.
LEMMA WordParts ==
  ASSUME NEW w \in Word
  PROVE  /\ Num(w) \in Word /\ Type(w) \in Word
         /\ Action(w) \in 0 .. 14 /\ Description(w) \in 0 .. 26 \cup {127}
<1>1. w \in Nat /\ w <= 65535
  BY WordIs
<1> DEFINE low == w % 256
           high == w \div 256
<1>2. low \in Nat /\ low <= 255 /\ high \in Nat /\ high <= 255
  BY <1>1
<1> HIDE DEF low, high
<1>3. Num(w) \in Word /\ Type(w) \in Word
  <2>1. Num(w) = high /\ Type(w) = low
    BY DEF Num, Type, low, high
  <2>2. MaxWord \in Nat /\ 255 <= MaxWord
    BY DEF MaxWord
  <2>3. low \in 0 .. MaxWord /\ high \in 0 .. MaxWord
    BY <1>2, <2>2
  <2>4. QED
    BY <2>1, <2>3 DEF Word
<1>4. Action(w) \in 0 .. 14
  <2>1. Action(w) = IF low \in 1 .. 14 THEN low ELSE 0
    BY DEF Action, low
  <2>2. QED
    BY <1>2, <2>1
<1>5. Description(w) \in 0 .. 26 \cup {127}
  <2>1. Description(w) = IF low \in 1 .. 26 \cup {127} THEN low ELSE 0
    BY DEF Description, low
  <2>2. QED
    BY <1>2, <2>1
<1>6. QED
  BY <1>3, <1>4, <1>5

LEMMA FreshReport ==
  Fresh \in Reports
<1>1. 0 \in Word
  BY WordIs
<1>2. QED
  BY <1>1 DEF Fresh, Reports

\* Whatever a body holds, what a decoder leaves is a report.
LEMMA DecodeReport ==
  ASSUME NEW r \in Reports, NEW kind, NEW b, \A n \in 0 .. 16 : b[n] \in Word
  PROVE  Decode(r, kind, b) \in Reports
<1>0. /\ b[0] \in Word /\ b[1] \in Word /\ b[2] \in Word /\ b[3] \in Word /\ b[4] \in Word /\ b[5] \in Word
      /\ b[6] \in Word /\ b[7] \in Word /\ b[10] \in Word /\ b[11] \in Word /\ b[12] \in Word
      /\ b[13] \in Word /\ b[14] \in Word /\ b[15] \in Word /\ b[16] \in Word
  OBVIOUS
<1>1. [r EXCEPT !.gate_id = <<b[0], b[1]>>] \in Reports
  BY ONLY <1>0, r \in Reports DEF Reports
<1>2. DecodeGate(r, b) \in Reports
  <2>1. Num(b[0]) \in Word /\ Type(b[1]) \in Word
    BY <1>0, WordParts
  <2>2. QED
    BY ONLY <1>0, <2>1, r \in Reports DEF Reports, DecodeGate
<1>3. DecodeClassifier(r, b) \in Reports
  BY ONLY <1>0, r \in Reports, ZenonT(30) DEF Reports, DecodeClassifier
<1>4. DecodeExtended(r, b) \in Reports
  <2>1. Num(b[16]) \in Word
    BY <1>0, WordParts
  <2>2. QED
    BY ONLY <1>0, <2>1, r \in Reports, ZenonT(30) DEF Reports, DecodeExtended
<1>5. DecodeTransaction(r, b) \in Reports
  <2>1. Action(b[1]) \in 0 .. 14
    BY <1>0, WordParts
  <2>2. QED
    BY ONLY <1>0, <2>1, r \in Reports, ZenonT(30) DEF Reports, DecodeTransaction
<1>6. DecodeApplication(r, b) \in Reports
  BY ONLY <1>0, r \in Reports DEF Reports, DecodeApplication
<1>7. DecodeError(r, b) \in Reports
  <2>1. Description(b[0]) \in 0 .. 26 \cup {127}
    BY <1>0, WordParts
  <2>2. QED
    BY ONLY <1>0, <2>1, r \in Reports DEF Reports, DecodeError
<1>8. DecodeState(r, b) \in Reports
  <2>1. GateState(b) \in BOOLEAN
    BY DEF GateState
  <2>2. QED
    BY ONLY <2>1, r \in Reports DEF Reports, DecodeState
<1>9. QED
  BY ONLY <1>1, <1>2, <1>3, <1>4, <1>5, <1>6, <1>7, <1>8, r \in Reports DEF Decode

\* The message in the buffer, if there is one, is one a CMTS may send.
LEMMA TextMade ==
  ASSUME DecodeTypeOK
  PROVE  WellMade(Text) /\ Text.words \in Seq(Word) /\ Len(Text.words) \in Nat
<1>1. WellMade(Text)
  <2>1. CASE message = 0
    <3> DEFINE m == [opcode |-> "none", words |-> <<>>, parts |-> <<>>]
    <3>1. Text = m
      BY <2>1 DEF Text
    <3>2. m.words = <<>> /\ m.parts = <<>>
      OBVIOUS
    <3> HIDE DEF m
    <3>3. m.words \in Seq(Word) /\ m.parts \in Seq(Parts) /\ Len(m.words) = 0 /\ Len(m.parts) = 0
      BY <3>2
    <3>4. Chain(m.words, m.parts, 0, 2 * Len(m.words))
      BY <3>3 DEF Chain, Reached
    <3>5. WellMade(m)
      BY <3>3, <3>4 DEF WellMade
    <3>6. QED
      BY <3>1, <3>5
  <2>2. CASE message # 0
    <3>1. Len(Messages) \in Nat
      BY MessagesAssumption, LenProperties
    <3>2. message \in 1 .. Len(Messages)
      BY <2>2, <3>1 DEF DecodeTypeOK
    <3>3. Text = Messages[message]
      BY <2>2 DEF Text
    <3>4. QED
      BY <3>2, <3>3, MessageMade
  <2>3. QED
    BY <2>1, <2>2
<1>2. Text.words \in Seq(Word)
  BY <1>1 DEF WellMade
<1>3. QED
  BY <1>1, <1>2, LenProperties

LEMMA HereWord ==
  ASSUME DecodeTypeOK, NEW i \in Nat
  PROVE  Here(i) \in Word /\ Here(i) \in Nat
<1>1. Here(i) \in Word
  BY TextMade, AtWord DEF Here
<1>2. Word \in SUBSET Nat
  BY WordIs
<1>3. QED
  BY <1>1, <1>2

\* The number of a message that has come.
LEMMA MessageNumber ==
  /\ Len(Messages) \in Nat /\ 0 \in 0 .. Len(Messages)
  /\ \A m \in 1 .. Len(Messages) : m \in 0 .. Len(Messages) /\ m # 0
<1>1. Len(Messages) \in Nat
  BY MessagesAssumption, LenProperties
<1>2. QED
  BY <1>1

LEMMA WrittenEntry ==
  ASSUME NEW r \in Reports
  PROVE  Entry(r) \in Entries
<1>1. /\ r.gate_id \in Word \X Word /\ r.gate_cmd \in 0 .. 14 /\ r.spec \in SpecWords
      /\ r.error \in Word \X Word \X (0 .. 26 \cup {127})
      /\ r.id \in Word /\ r.src_start \in Word /\ r.src_end \in Word
      /\ r.dst_start \in Word /\ r.dst_end \in Word /\ r.rest \in Word \X Word
  BY DEF Reports, SpecWords
<1>2. r.application[2] \in Word
  BY DEF Reports
<1>3. [format |-> "orphan", gate_id |-> r.gate_id, gate_cmd |-> r.gate_cmd] \in Entries
  BY ONLY <1>1 DEF Entries
<1>4. ErrorEntry(r) \in Entries
  BY ONLY <1>1 DEF Entries, ErrorEntry
<1>5. DefaultEntry(r) \in Entries
  BY ONLY <1>1, <1>2 DEF Entries, DefaultEntry
<1>6. LegacyEntry(r) \in Entries
  BY ONLY <1>1, <1>2 DEF Entries, LegacyEntry
<1>7. ExtendedEntry(r) \in Entries
  BY ONLY <1>1, <1>2 DEF Entries, ExtendedEntry
<1>8. QED
  BY ONLY <1>3, <1>4, <1>5, <1>6, <1>7 DEF Entry, WriteReport

\* Types, one action after the other.
LEMMA RecvTypes ==
  ASSUME DecodeTypeOK, NEW m \in 1 .. Len(Messages), Recv(m)
  PROVE  DecodeTypeOK'
<1>1. m \in 0 .. Len(Messages)
  BY MessageNumber
<1>2. filed' \in Seq(Entries)
  BY DEF Recv
<1>3. before' \in [handle : Handles, uuid_received : BOOLEAN]
  BY DEF Recv, DecodeTypeOK
<1>4. QED
  BY <1>1, <1>2, <1>3 DEF Recv, DecodeTypeOK

LEMMA ReconnectTypes ==
  ASSUME DecodeTypeOK, Reconnect
  PROVE  DecodeTypeOK'
<1>1. message' \in 0 .. Len(Messages)
  BY MessageNumber DEF Reconnect
<1>2. filed' \in Seq(Entries)
  BY DEF Reconnect
<1>3. before' \in [handle : Handles, uuid_received : BOOLEAN]
  BY DEF Reconnect, DecodeTypeOK
<1>4. QED
  BY <1>1, <1>2, <1>3 DEF Reconnect, DecodeTypeOK

LEMMA PassObjectTypes ==
  ASSUME DecodeTypeOK, PassObject
  PROVE  DecodeTypeOK'
BY DEF PassObject, DecodeTypeOK

LEMMA TakeHandleTypes ==
  ASSUME DecodeTypeOK, TakeHandle
  PROVE  DecodeTypeOK'
<1>1. idx + 4 \in Nat /\ idx + 6 \in Nat /\ idx + 8 \in Nat
  BY DEF DecodeTypeOK
<1>2. Here(idx + 4) \in Word /\ Here(idx + 6) \in Word
  BY <1>1, HereWord
<1>3. handle' \in Handles
  BY <1>2 DEF TakeHandle, Handles
<1>4. QED
  BY <1>1, <1>3 DEF TakeHandle, DecodeTypeOK

LEMMA OpenReportTypes ==
  ASSUME DecodeTypeOK, OpenReport
  PROVE  DecodeTypeOK'
<1>1. Here(idx) \in Nat /\ idx \in Nat
  BY HereWord DEF DecodeTypeOK
<1>2. idx + 4 \in Nat /\ idx + Here(idx) \in Nat
  BY <1>1
<1>3. CASE Here(idx) = 4
  BY <1>2, <1>3 DEF OpenReport, DecodeTypeOK
<1>4. CASE Here(idx) # 4
  BY <1>2, <1>4, FreshReport DEF OpenReport, DecodeTypeOK
<1>5. QED
  BY <1>3, <1>4

LEMMA EndMessageTypes ==
  ASSUME DecodeTypeOK, EndMessage
  PROVE  DecodeTypeOK'
BY DEF EndMessage, DecodeTypeOK

LEMMA PassWordTypes ==
  ASSUME DecodeTypeOK, PassWord
  PROVE  DecodeTypeOK'
BY DEF PassWord, DecodeTypeOK

LEMMA BodyWords ==
  ASSUME DecodeTypeOK, NEW i \in Nat
  PROVE  \A n \in 0 .. 16 : Body(i)[n] \in Word /\ Body(i)[n] = At(Text.words, i + 4 + 2 * n)
<1> TAKE n \in 0 .. 16
<1>1. n \in Nat
  OBVIOUS
<1>2. i + 4 + 2 * n \in Nat
  BY <1>1
<1>3. Here(i + 4 + 2 * n) \in Word
  BY <1>2, HereWord
<1>4. Body(i)[n] = Here(i + 4 + 2 * n)
  BY DEF Body
<1>5. QED
  BY <1>3, <1>4 DEF Here

LEMMA DecodeObjectTypes ==
  ASSUME DecodeTypeOK, DecodeObject
  PROVE  DecodeTypeOK'
<1>1. rpt_idx \in Nat /\ Here(rpt_idx) \in Nat /\ rpt \in Reports
  BY HereWord DEF DecodeTypeOK
<1>2. rpt' \in Reports
  <2>1. \A n \in 0 .. 16 : Body(rpt_idx)[n] \in Word
    BY <1>1, BodyWords
  <2>2. rpt' = Decode(rpt, Here(rpt_idx + 2), Body(rpt_idx))
    BY DEF DecodeObject
  <2>3. QED
    BY <1>1, <2>1, <2>2, DecodeReport
<1>3. rpt_idx' \in Nat
  BY <1>1 DEF DecodeObject
<1>4. QED
  BY <1>2, <1>3 DEF DecodeObject, DecodeTypeOK

LEMMA FileReportTypes ==
  ASSUME DecodeTypeOK, FileReport
  PROVE  DecodeTypeOK'
<1>1. filed' \in Seq(Entries)
  <2>1. filed \in Seq(Entries) /\ Entry(rpt) \in Entries
    BY WrittenEntry DEF DecodeTypeOK
  <2>2. Append(filed, Entry(rpt)) \in Seq(Entries)
    BY <2>1, AppendProperties
  <2>3. QED
    BY <2>1, <2>2 DEF FileReport
<1>2. rpt' \in Reports /\ rpt_idx' = 0 /\ end_idx' = 0
  BY FreshReport DEF FileReport, NoReport
<1>3. QED
  BY <1>1, <1>2 DEF FileReport, DecodeTypeOK

LEMMA TypesStep ==
  ASSUME DecodeTypeOK, [DecodeNext]_decode_vars
  PROVE  DecodeTypeOK'
<1>1. CASE UNCHANGED decode_vars
  BY <1>1 DEF decode_vars, DecodeTypeOK
<1>2. CASE DecodeNext
  BY <1>2, RecvTypes, ReconnectTypes, PassObjectTypes, TakeHandleTypes, OpenReportTypes, EndMessageTypes,
     PassWordTypes, DecodeObjectTypes, FileReportTypes DEF DecodeNext, DecodeStep
<1>3. QED
  BY <1>1, <1>2

LEMMA TypesInit ==
  ASSUME DecodeInit
  PROVE  DecodeTypeOK
<1>1. 0 \in 0 .. Len(Messages)
  BY MessageNumber
<1>2. <<0, 0>> \in Handles
  <2>1. 0 \in Word
    BY WordIs
  <2>2. QED
    BY <2>1 DEF Handles
<1>3. before \in [handle : Handles, uuid_received : BOOLEAN]
  BY <1>2 DEF DecodeInit
<1>4. filed \in Seq(Entries)
  BY DEF DecodeInit
<1>5. QED
  BY <1>1, <1>2, <1>3, <1>4, FreshReport DEF DecodeInit, DecodeTypeOK

\* Whatever the bodies hold, the fields of a report are words, and its action and
\* the description of its error are among those pcmm_otoact and pcmm_otoerr know
\* (ps_recvd, ps_pcmm_report and the decoders of pcmm.c).
THEOREM DecodeTypes == DecodeSpec => []DecodeTypeOK
<1>1. DecodeInit => DecodeTypeOK
  BY TypesInit
<1>2. DecodeTypeOK /\ [DecodeNext]_decode_vars => DecodeTypeOK'
  BY TypesStep
<1>3. QED
  BY <1>1, <1>2, PTL DEF DecodeSpec

-----------------------------------------------------------------------------
(* The invariant.                                                          *)

\* Before its first object nothing is done of a message.
LEMMA AtFirst ==
  ASSUME NEW m, WellMade(m), NEW b, NEW h, h = b.handle, NEW received, received = b.uuid_received
  PROVE  InObjects(m, b, <<>>, h, received, 0)
<1>1. Len(m.parts) \in Nat /\ 0 \in 0 .. Len(m.parts)
  <2>1. m.parts \in Seq(Parts)
    BY DEF WellMade
  <2>2. QED
    BY <2>1, LenProperties
<1>2. AtPart(m, 0, 0)
  BY DEF WellMade, Chain, AtPart
<1>3. FiledBy(m, <<>>, 0)
  <2>1. Written(m) \in SUBSET (1 .. Len(m.parts))
    BY DEF Written
  <2>2. \A p \in Written(m) : ~(p <= 0)
    BY <1>1, <2>1
  <2>3. {q \in Written(m) : q <= 0} = {}
    BY <2>2
  <2>4. Len(<<>>) = 0 /\ Cardinality({}) = 0
    BY FS_EmptySet
  <2>5. QED
    BY <2>2, <2>3, <2>4 DEF FiledBy
<1>4. HandleBy(m, b, h, received, 0)
  <2>1. {p \in 1 .. 0 : HandleIn(m.parts[p].kind)} = {}
    OBVIOUS
  <2>2. QED
    BY <2>1 DEF HandleBy
<1>5. QED
  BY <1>1, <1>2, <1>3, <1>4 DEF InObjects

\* A step within a message.
LEMMA SameText ==
  ASSUME message' = message, before' = before
  PROVE  /\ Text' = Text
         /\ Plain(Text, before.uuid_received)' <=> Plain(Text, before.uuid_received)
<1>1. Text' = Text
  BY DEF Text
<1>2. QED
  BY <1>1

\* The invariant, one action after the other.
LEMMA RecvWalked ==
  ASSUME DecodeInv, NEW m \in 1 .. Len(Messages), Recv(m)
  PROVE  Rests' /\ Walked'
<1>1. message' = m /\ m # 0
  BY MessageNumber DEF Recv
<1>2. walk' = "objects" /\ idx' = 0 /\ filed' = <<>>
  BY DEF Recv, DecodeInv, Rests, Walked
<1>3. before'.handle = handle' /\ before'.uuid_received = uuid_received'
  BY DEF Recv
<1>4. WellMade(Text')
  <2>1. Text' = Messages[m]
    BY <1>1 DEF Text
  <2>2. QED
    BY <2>1, MessageMade
<1>5. InObjects(Text, before, filed, handle, uuid_received, idx)'
  BY <1>2, <1>3, <1>4, AtFirst
<1>6. Rests'
  BY <1>1, <1>2 DEF Rests
<1>7. QED
  BY <1>2, <1>5, <1>6 DEF Walked, Finished

LEMMA ReconnectWalked ==
  ASSUME DecodeInv, Reconnect
  PROVE  Rests' /\ Walked'
BY DEF Reconnect, DecodeInv, Rests, Walked, Finished

\* The place of ps_recvd, when there is more of the message.
LEMMA MoreFacts ==
  ASSUME DecodeInv, More
  PROVE  /\ WellMade(Text) /\ idx \in Nat /\ idx < 2 * Len(Text.words)
         /\ Object = At(Text.words, idx + 2) /\ message # 0
         /\ Plain(Text, before.uuid_received) => InObjects(Text, before, filed, handle, uuid_received, idx)
<1>1. WellMade(Text) /\ idx \in Nat
  BY TextMade DEF DecodeInv, DecodeTypeOK, Rests, Walked
<1>2. QED
  BY <1>1 DEF DecodeInv, More, Object, Here, Rests, Walked

LEMMA PassObjectWalked ==
  ASSUME DecodeInv, PassObject
  PROVE  Rests' /\ Walked'
<1>1. More /\ ~IsReport /\ ~IsHandle /\ idx' = idx + 4
  BY DEF PassObject
<1>2. /\ walk' = "objects" /\ message' = message /\ before' = before
      /\ filed' = filed /\ handle' = handle /\ uuid_received' = uuid_received
  BY DEF PassObject, More
<1>3. ~ReportIn(Text, At(Text.words, idx + 2)) /\ (HandleIn(At(Text.words, idx + 2)) => uuid_received)
  BY <1>1, MoreFacts DEF IsReport, IsHandle
<1>4. Plain(Text, before.uuid_received) => InObjects(Text, before, filed, handle, uuid_received, idx + 4)
  BY <1>1, <1>3, MoreFacts, PassKeeps
<1>5. Plain(Text, before.uuid_received)' => InObjects(Text, before, filed, handle, uuid_received, idx)'
  BY <1>1, <1>2, <1>4, SameText
<1>6. Rests'
  BY <1>1, <1>2, MoreFacts DEF Rests
<1>7. QED
  BY <1>2, <1>5, <1>6 DEF Walked, Finished

LEMMA TakeHandleWalked ==
  ASSUME DecodeInv, TakeHandle
  PROVE  Rests' /\ Walked'
<1>1. More /\ IsHandle /\ idx' = idx + 8 /\ uuid_received' = TRUE
  BY DEF TakeHandle
<1>2. /\ walk' = "objects" /\ message' = message /\ before' = before /\ filed' = filed
      /\ handle' = <<At(Text.words, idx + 4), At(Text.words, idx + 6)>>
  BY DEF TakeHandle, More, Here
<1>3. HandleIn(At(Text.words, idx + 2)) /\ uuid_received = FALSE
  BY <1>1, MoreFacts, Zenon DEF IsHandle, DecodeInv, DecodeTypeOK, Rests, Walked
<1>4. Plain(Text, before.uuid_received) =>
         InObjects(Text, before, filed, <<At(Text.words, idx + 4), At(Text.words, idx + 6)>>, TRUE, idx + 8)
  <2>1. SUFFICES ASSUME Plain(Text, before.uuid_received)
                 PROVE  InObjects(Text, before, filed, <<At(Text.words, idx + 4), At(Text.words, idx + 6)>>,
                                  TRUE, idx + 8)
    OBVIOUS
  <2>2. InObjects(Text, before, filed, handle, FALSE, idx)
    BY <1>1, <1>3, <2>1, MoreFacts
  <2>3. QED
    BY <1>1, <1>3, <2>1, <2>2, MoreFacts, TakeKeeps
<1>5. Plain(Text, before.uuid_received)' => InObjects(Text, before, filed, handle, uuid_received, idx)'
  BY <1>1, <1>2, <1>4, SameText
<1>6. Rests'
  BY <1>1, <1>2, MoreFacts DEF Rests
<1>7. QED
  BY <1>2, <1>5, <1>6 DEF Walked, Finished

LEMMA OpenReportWalked ==
  ASSUME DecodeInv, OpenReport
  PROVE  Rests' /\ Walked'
<1>1. More /\ ReportIn(Text, At(Text.words, idx + 2)) /\ walk = "objects"
  BY MoreFacts DEF OpenReport, IsReport, More
<1>2. /\ message' = message /\ before' = before
      /\ filed' = filed /\ handle' = handle /\ uuid_received' = uuid_received
  BY DEF OpenReport
<1>3. Here(idx) = At(Text.words, idx)
  BY DEF Here
<1>4. CASE Here(idx) = 4
  <2>1. idx' = idx + 4 /\ walk' = "objects"
    BY <1>1, <1>4 DEF OpenReport
  <2>2. Plain(Text, before.uuid_received) => InObjects(Text, before, filed, handle, uuid_received, idx + 4)
    BY <1>1, <1>3, <1>4, MoreFacts, EmptyReportKeeps
  <2>3. Plain(Text, before.uuid_received)' => InObjects(Text, before, filed, handle, uuid_received, idx)'
    BY <1>2, <2>1, <2>2, SameText
  <2>4. Rests'
    BY <1>1, <1>2, <2>1, MoreFacts DEF Rests
  <2>5. QED
    BY <2>1, <2>3, <2>4 DEF Walked, Finished
<1>5. CASE Here(idx) # 4
  <2>1. rpt_idx' = idx + 4 /\ end_idx' = idx + At(Text.words, idx) /\ rpt' = Fresh /\ walk' = "report"
    BY <1>3, <1>5 DEF OpenReport
  <2>2. Plain(Text, before.uuid_received) =>
           InReport(Text, before, filed, handle, uuid_received, idx + 4, idx + At(Text.words, idx), Fresh)
    BY <1>1, <1>3, <1>5, MoreFacts, OpenKeeps
  <2>3. Plain(Text, before.uuid_received)' =>
           InReport(Text, before, filed, handle, uuid_received, rpt_idx, end_idx, rpt)'
    BY <1>2, <2>1, <2>2, SameText
  <2>4. Rests'
    BY <1>1, <1>2, <2>1, MoreFacts DEF Rests
  <2>5. QED
    BY <2>1, <2>3, <2>4 DEF Walked, Finished
<1>6. QED
  BY <1>4, <1>5

LEMMA EndMessageWalked ==
  ASSUME DecodeInv, EndMessage
  PROVE  Rests' /\ Walked'
<1>1. /\ walk = "objects" /\ walk' = "idle" /\ idx' = 0 /\ idx >= 2 * Len(Text.words)
      /\ message' = message /\ before' = before
      /\ filed' = filed /\ handle' = handle /\ uuid_received' = uuid_received
  BY DEF EndMessage
<1>2. WellMade(Text) /\ idx \in Nat
  BY TextMade DEF DecodeInv, DecodeTypeOK, Rests, Walked
<1>3. Plain(Text, before.uuid_received) => InObjects(Text, before, filed, handle, uuid_received, idx)
  BY <1>1 DEF DecodeInv, Rests, Walked
<1>4. Plain(Text, before.uuid_received) => Complete(Text, before, filed, handle, uuid_received)
  BY <1>1, <1>2, <1>3, EndReached
<1>5. Plain(Text, before.uuid_received)' => Complete(Text, before, filed, handle, uuid_received)'
  BY <1>1, <1>4, SameText
<1>6. Rests'
  BY <1>1 DEF Rests
<1>7. QED
  BY <1>1, <1>5, <1>6 DEF Walked

\* The place of ps_pcmm_report.
LEMMA ReportPlace ==
  ASSUME DecodeInv, walk = "report"
  PROVE  /\ WellMade(Text) /\ rpt_idx \in Nat /\ end_idx \in Nat /\ rpt \in Reports /\ message # 0
         /\ filed \in Seq(Entries) /\ Here(rpt_idx) = At(Text.words, rpt_idx)
         /\ Here(rpt_idx + 2) = At(Text.words, rpt_idx + 2)
         /\ Plain(Text, before.uuid_received) =>
               InReport(Text, before, filed, handle, uuid_received, rpt_idx, end_idx, rpt)
<1>1. WellMade(Text)
  BY TextMade DEF DecodeInv, Rests, Walked
<1>2. QED
  BY <1>1 DEF DecodeInv, DecodeTypeOK, Here, Rests, Walked

LEMMA PassWordWalked ==
  ASSUME DecodeInv, PassWord
  PROVE  Rests' /\ Walked'
<1>1. /\ walk = "report" /\ walk' = "report" /\ rpt_idx < end_idx /\ rpt_idx' = rpt_idx + 4
      /\ ~Known(Here(rpt_idx + 2)) /\ end_idx' = end_idx /\ rpt' = rpt
      /\ message' = message /\ before' = before
      /\ filed' = filed /\ handle' = handle /\ uuid_received' = uuid_received
  BY DEF PassWord
<1>2. Plain(Text, before.uuid_received) =>
         InReport(Text, before, filed, handle, uuid_received, rpt_idx + 4, end_idx, rpt)
  BY <1>1, ReportPlace, PassWordKeeps
<1>3. Plain(Text, before.uuid_received)' =>
         InReport(Text, before, filed, handle, uuid_received, rpt_idx, end_idx, rpt)'
  BY <1>1, <1>2, SameText
<1>4. Rests'
  BY <1>1, ReportPlace DEF Rests
<1>5. QED
  BY <1>1, <1>3, <1>4 DEF Walked, Finished

\* The object in hand is of its own kind: no body has been taken for it.
LEMMA DecodeObjectWalked ==
  ASSUME DecodeInv, DecodeObject
  PROVE  Rests' /\ Walked'
<1>1. /\ walk = "report" /\ walk' = "report" /\ rpt_idx < end_idx /\ rpt_idx' = rpt_idx + Here(rpt_idx)
      /\ Known(Here(rpt_idx + 2)) /\ end_idx' = end_idx
      /\ rpt' = Decode(rpt, Here(rpt_idx + 2), Body(rpt_idx))
      /\ message' = message /\ before' = before
      /\ filed' = filed /\ handle' = handle /\ uuid_received' = uuid_received
  BY DEF DecodeObject
<1>2. \A n \in 0 .. 16 : Body(rpt_idx)[n] = At(Text.words, rpt_idx + 4 + 2 * n)
  BY <1>1, ReportPlace, BodyWords DEF DecodeInv, Rests, Walked
<1>3. Plain(Text, before.uuid_received) =>
         InReport(Text, before, filed, handle, uuid_received, rpt_idx + At(Text.words, rpt_idx), end_idx,
                  Decode(rpt, At(Text.words, rpt_idx + 2), Body(rpt_idx)))
  BY <1>1, <1>2, ReportPlace, DecodeKeeps
<1>4. Plain(Text, before.uuid_received)' =>
         InReport(Text, before, filed, handle, uuid_received, rpt_idx, end_idx, rpt)'
  BY <1>1, <1>3, ReportPlace, SameText
<1>5. Rests'
  BY <1>1, ReportPlace DEF Rests
<1>6. QED
  BY <1>1, <1>4, <1>5 DEF Walked, Finished

LEMMA FileReportWalked ==
  ASSUME DecodeInv, FileReport
  PROVE  Rests' /\ Walked'
<1>1. /\ walk = "report" /\ walk' = "objects" /\ rpt_idx >= end_idx /\ idx' = end_idx
      /\ filed' = IF rpt.state THEN filed ELSE Append(filed, Entry(rpt))
      /\ message' = message /\ before' = before /\ handle' = handle /\ uuid_received' = uuid_received
  BY DEF FileReport
<1>2. Plain(Text, before.uuid_received) =>
         InObjects(Text, before, IF rpt.state THEN filed ELSE Append(filed, Entry(rpt)),
                   handle, uuid_received, end_idx)
  BY <1>1, ReportPlace, FileKeeps
<1>3. Plain(Text, before.uuid_received)' => InObjects(Text, before, filed, handle, uuid_received, idx)'
  BY <1>1, <1>2, SameText
<1>4. Rests'
  BY <1>1, ReportPlace DEF Rests
<1>5. QED
  BY <1>1, <1>3, <1>4 DEF Walked, Finished

LEMMA RestWalked ==
  ASSUME DecodeInv, UNCHANGED decode_vars
  PROVE  Rests' /\ Walked'
<1>1. Text' = Text
  BY DEF decode_vars, Text
<1>2. QED
  BY <1>1 DEF decode_vars, DecodeInv, Rests, Walked, Finished

LEMMA InvStep ==
  ASSUME DecodeInv, [DecodeNext]_decode_vars
  PROVE  DecodeInv'
<1>1. DecodeTypeOK'
  BY TypesStep DEF DecodeInv, Rests, Walked
<1>2. Rests' /\ Walked'
  <2>1. CASE UNCHANGED decode_vars
    BY <2>1, RestWalked
  <2>2. CASE DecodeNext
    BY <2>2, RecvWalked, ReconnectWalked, PassObjectWalked, TakeHandleWalked, OpenReportWalked, EndMessageWalked,
       PassWordWalked, DecodeObjectWalked, FileReportWalked DEF DecodeNext, DecodeStep
  <2>3. QED
    BY <2>1, <2>2
<1>3. QED
  BY <1>1, <1>2 DEF DecodeInv, Rests, Walked

LEMMA InvInit ==
  ASSUME DecodeInit
  PROVE  DecodeInv
<1>1. DecodeTypeOK
  BY TypesInit
<1>2. walk = "idle" /\ idx = 0 /\ message = 0
  BY DEF DecodeInit
<1>3. QED
  BY <1>1, <1>2 DEF DecodeInv, Finished, Rests, Walked

\* What is known at the end of a message is what is claimed.
LEMMA InvDecoded ==
  ASSUME DecodeInv
  PROVE  Decoded
<1>1. SUFFICES ASSUME Finished, Plain(Text, before.uuid_received)
               PROVE  /\ Len(filed) = Cardinality(Written(Text))
                      /\ \A p \in Written(Text) : Tells(Text, filed[Rank(Text, p)], Text.parts[p].inner)
                      /\ LET handles == {p \in 1 .. Len(Text.parts) : HandleIn(Text.parts[p].kind)} IN
                         IF before.uuid_received \/ handles = {}
                         THEN [handle |-> handle, uuid_received |-> uuid_received] = before
                         ELSE /\ uuid_received
                              /\ \E p \in handles :
                                    /\ \A q \in handles : p <= q
                                    /\ handle = <<Here(Text.parts[p].at + 4), Here(Text.parts[p].at + 6)>>
  BY DEF Decoded, Filed, HandleRead
<1>2. FiledBy(Text, filed, Len(Text.parts)) /\ HandleBy(Text, before, handle, uuid_received, Len(Text.parts))
  BY <1>1 DEF DecodeInv, Complete, Rests, Walked
<1>3. Len(filed) = Cardinality(Written(Text))
      /\ \A p \in Written(Text) : Tells(Text, filed[Rank(Text, p)], Text.parts[p].inner)
  <2>1. Text.parts \in Seq(Parts)
    BY TextMade DEF DecodeInv, WellMade, Rests, Walked
  <2>2. \A p \in Written(Text) : p <= Len(Text.parts)
    BY <2>1, LenProperties DEF Written
  <2>3. {q \in Written(Text) : q <= Len(Text.parts)} = Written(Text)
    BY <2>2
  <2>4. QED
    BY <1>2, <2>2, <2>3 DEF FiledBy
<1>4. before = [handle |-> before.handle, uuid_received |-> before.uuid_received]
  BY DEF DecodeInv, DecodeTypeOK, Rests, Walked
<1>5. QED
  BY <1>2, <1>3, <1>4 DEF HandleBy, Here

\* Wherever the two walks are in a message no object of which is taken for
\* another, each report behind them is in a file with the fields write_report
\* prints in the format its objects call for, the one in hand is what its
\* objects so far say, and the first handle is taken (ps_recvd, ps_pcmm_report).
THEOREM DecodeInvariant == DecodeSpec => []DecodeInv
BY InvInit, InvStep, PTL DEF DecodeSpec

\* When a message has been walked over, every report in it is in a file, once
\* and in order, in the format its objects call for.  Under each label of the
\* format is the field write_report prints there, from the last object of its
\* kind: an error has the application 0, and a legacy classifier its destination
\* port as src_port_end and the id of an extended one before it.  And the handle
\* of the session is the first it was given.  So it is for any message of any
\* objects, whatever kinds are passed over.
\* (ps_recvd, ps_pcmm_report, ps_pcmm_report_decision, write_report.)
THEOREM DecodedHolds == DecodeSpec => []Decoded
BY DecodeInvariant, InvDecoded, PTL

-----------------------------------------------------------------------------
(* Both halves of ps_recvd.                                                *)

LEMMA ReceiveInv == ReceiveSpec => [](FInv /\ DecodeInv)
<1>1. ReceiveInit => FInv /\ DecodeInv
  BY FInit, InvInit DEF ReceiveInit
<1>2. FInv /\ DecodeInv /\ [ReceiveNext]_receive_vars => (FInv /\ DecodeInv)'
  <2>1. SUFFICES ASSUME FInv, DecodeInv, [ReceiveNext]_receive_vars
                 PROVE  FInv' /\ DecodeInv'
    OBVIOUS
  <2>2. ([Next]_vars => FInv') /\ ([DecodeNext]_decode_vars => DecodeInv')
    BY <2>1, FStep, InvStep
  <2>3. [Next]_vars /\ [DecodeNext]_decode_vars
    BY <2>1 DEF ReceiveNext, receive_vars
  <2>4. QED
    BY <2>2, <2>3
<1>3. QED
  BY <1>1, <1>2, PTL DEF ReceiveSpec

\* Types of both halves of ps_recvd: the bytes taken are among those that have
\* arrived, and a report has words in its fields whatever the CMTS has sent
\* (ps_recvd, the decoders of pcmm.c).
THEOREM ReceiveTypes == ReceiveSpec => []ReceiveTypeOK
<1>1. FInv /\ DecodeInv => ReceiveTypeOK
  BY DEF FInv, DecodeInv, ReceiveTypeOK
<1>2. QED
  BY <1>1, ReceiveInv, PTL
=============================================================================
