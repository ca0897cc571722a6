------------------------ MODULE ReportDelivery_proofs ------------------------
(***************************************************************************)
(* Proofs about ReportDelivery under fresh transaction ids, for any number *)
(* of requests, CMTSs, ids and reports.                                    *)
(***************************************************************************)
EXTENDS ReportDelivery, SequenceTheorems, TLAPS

\* m is on its way to the session thread of c.
OnWire(c, m) == \E i \in 1 .. Len(wire[c]) : wire[c][i].report = m

\* The connection of c carries something about r: so did the request.
Serves(c, r) ==
    \/ r \in asked[c]
    \/ \E m \in Reports : m.about = r /\ (OnWire(c, m) \/ writing[c] = m)

(***************************************************************************)
(* The invariant.  A request is served by one connection only, hence by    *)
(* one session thread, which writes its reports one at a time; and the     *)
(* names of the files tell the requests apart.                             *)
(***************************************************************************)
TxnKnown ==
    \A r \in Requests :
        /\ pc[r] = "new" => txn[r] = None
        /\ Waiting(r) => txn[r] # None

ServedOnce ==
    \A c \in Cmts, r \in Requests : Serves(c, r) =>
        /\ txn[r] # None
        /\ \A d \in Cmts : Serves(d, r) => d = c

\* What a CMTS sends it sends about a request it got.
SentKnown ==
    /\ \A c \in Cmts, m \in Reports : OnWire(c, m) \/ writing[c] = m => m \in sent
    /\ \A m \in sent : pc[m.about] # "new"

FileNamed ==
    \A t \in TxnIds : dir[t] # None => txn[dir[t].about] = t

\* A file holds one whole report or nothing.
FileWhole ==
    \A f \in Reports :
        data[f] = {} \/ \E m \in sent : data[f] = {m} /\ m.about = f.about

WriterInPlace ==
    \A c \in Cmts : writing[c] # None =>
        file[c] \in Reports /\ file[c].about = writing[c].about /\ data[file[c]] = {}

ReaderInPlace ==
    \A r \in Requests :
        /\ pc[r] = "read" => fp[r] \in Reports /\ fp[r].about = r
        /\ pc[r] \in {"remove", "answered"} =>
              \E m \in sent : response[r] = {m} /\ m.about = r

RInv == /\ TypeOK /\ FreshIds /\ TxnKnown /\ ServedOnce /\ SentKnown
        /\ FileNamed /\ FileWhole /\ WriterInPlace /\ ReaderInPlace

USE DEF requests, files, network, threads

LEMMA RInit == Init => RInv
<1> SUFFICES ASSUME Init PROVE RInv
  OBVIOUS
<1>1. \A c \in Cmts, m \in Reports : ~OnWire(c, m)
  BY DEF Init, OnWire
<1>2. None \notin Reports
  BY NoneIsNothing DEF Reports
<1>3. TypeOK
  BY DEF Init, TypeOK
<1>4. QED
  BY <1>1, <1>2, <1>3 DEF Init, RInv, FreshIds, TxnKnown, ServedOnce, Serves, SentKnown,
       FileNamed, FileWhole, WriterInPlace, ReaderInPlace, Waiting

\* None is neither a report nor an id, and a report is about a request.
LEMMA NoneFacts ==
    /\ None \notin Reports /\ None \notin TxnIds
    /\ \A m \in Reports : m.about \in Requests
BY NoneIsNothing, SizeAssumption DEF Reports, TxnIds

-----------------------------------------------------------------------------
(* The connections.                                                        *)

LEMMA WireAppend ==
  ASSUME TypeOK, NEW c \in Cmts, NEW m \in Reports, NEW k \in Kinds,
         wire' = [wire EXCEPT ![c] = Append(@, [report |-> m, kind |-> k])]
  PROVE  /\ wire' \in [Cmts -> Seq([report : Reports, kind : Kinds])]
         /\ \A d \in Cmts, x \in Reports :
               OnWire(d, x)' => OnWire(d, x) \/ (d = c /\ x = m)
<1> DEFINE M == [report : Reports, kind : Kinds]
<1>1. wire[c] \in Seq(M) /\ [report |-> m, kind |-> k] \in M
  BY DEF TypeOK
<1>2. /\ Append(wire[c], [report |-> m, kind |-> k]) \in Seq(M)
      /\ Len(wire'[c]) = Len(wire[c]) + 1
      /\ wire'[c][Len(wire[c]) + 1] = [report |-> m, kind |-> k]
      /\ \A i \in 1 .. Len(wire[c]) : wire'[c][i] = wire[c][i]
  BY <1>1, AppendProperties DEF TypeOK
<1>3. ASSUME NEW d \in Cmts, NEW x \in Reports, OnWire(d, x)'
      PROVE  OnWire(d, x) \/ (d = c /\ x = m)
  <2>1. PICK i \in 1 .. Len(wire'[d]) : wire'[d][i].report = x
    BY <1>3 DEF OnWire
  <2>2. CASE d # c
    BY <2>1, <2>2 DEF OnWire, TypeOK
  <2>3. CASE d = c
    <3>1. Len(wire[c]) \in Nat
      BY <1>1
    <3>2. CASE i = Len(wire[c]) + 1
      BY <1>2, <2>1, <2>3, <3>2
    <3>3. CASE i \in 1 .. Len(wire[c])
      BY <1>2, <2>1, <2>3, <3>3 DEF OnWire
    <3>4. QED
      BY <1>2, <2>1, <2>3, <3>1, <3>2, <3>3
  <2>4. QED
    BY <2>2, <2>3
<1>4. QED
  BY <1>2, <1>3 DEF TypeOK

LEMMA WireTail ==
  ASSUME TypeOK, NEW c \in Cmts, wire[c] # <<>>, wire' = [wire EXCEPT ![c] = Tail(@)]
  PROVE  /\ wire' \in [Cmts -> Seq([report : Reports, kind : Kinds])]
         /\ Received(c).report \in Reports /\ OnWire(c, Received(c).report)
         /\ \A d \in Cmts, x \in Reports : OnWire(d, x)' => OnWire(d, x)
<1> DEFINE M == [report : Reports, kind : Kinds]
<1>0. wire[c] \in Seq(M)
  BY DEF TypeOK
<1>1. wire[c] \in Seq(M) /\ Len(wire[c]) \in Nat
  <2> HIDE DEF M
  <2>1. QED
    BY <1>0, LenProperties
<1>2. /\ Tail(wire[c]) \in Seq(M) /\ Len(wire[c]) >= 1
      /\ Len(wire'[c]) = Len(wire[c]) - 1
      /\ \A i \in 1 .. Len(wire[c]) - 1 : wire'[c][i] = wire[c][i + 1]
      /\ Head(wire[c]) = wire[c][1] /\ Head(wire[c]) \in M
  <2> HIDE DEF M
  <2>1. wire'[c] = Tail(wire[c])
    BY DEF TypeOK
  <2>2. /\ Head(wire[c]) \in M /\ Tail(wire[c]) \in Seq(M)
        /\ Len(Tail(wire[c])) = Len(wire[c]) - 1
        /\ \A i \in 1 .. Len(Tail(wire[c])) : Tail(wire[c])[i] = wire[c][i + 1]
    BY <1>1, HeadTailProperties
  <2>3. Len(wire[c]) >= 1
    BY <1>1, EmptySeq
  <2>4. Head(wire[c]) = wire[c][1]
    BY <1>1
  <2>5. QED
    BY <2>1, <2>2, <2>3, <2>4
<1>3. Received(c).report \in Reports /\ OnWire(c, Received(c).report)
  BY <1>1, <1>2 DEF Received, OnWire
<1>4. ASSUME NEW d \in Cmts, NEW x \in Reports, OnWire(d, x)'
      PROVE  OnWire(d, x)
  <2>1. PICK i \in 1 .. Len(wire'[d]) : wire'[d][i].report = x
    BY <1>4 DEF OnWire
  <2>2. CASE d # c
    BY <2>1, <2>2 DEF OnWire, TypeOK
  <2>3. CASE d = c
    <3>1. i + 1 \in 1 .. Len(wire[c]) /\ wire[c][i + 1].report = x
      BY <1>1, <1>2, <2>1, <2>3
    <3>2. QED
      BY <2>3, <3>1 DEF OnWire
  <2>4. QED
    BY <2>2, <2>3
<1>5. QED
  BY <1>2, <1>3, <1>4 DEF TypeOK

-----------------------------------------------------------------------------
(* The steps.                                                              *)

LEMMA RFacts ==
  ASSUME RInv
  PROVE  /\ TypeOK /\ FreshIds /\ TxnKnown /\ ServedOnce /\ SentKnown
         /\ FileNamed /\ FileWhole /\ WriterInPlace /\ ReaderInPlace
BY DEF RInv

LEMMA ProxyR ==
  ASSUME RInv, FreshIds', NEW r \in Requests, Proxy(r)
  PROVE  RInv'
<1> USE RFacts, NoneFacts
<1>1. /\ pc[r] = "new" /\ pc' = [pc EXCEPT ![r] = "open"]
      /\ fp' = fp /\ response' = response /\ dir' = dir /\ data' = data
      /\ sent' = sent /\ wire' = wire /\ writing' = writing /\ file' = file
      /\ \E t \in TxnIds : txn' = [txn EXCEPT ![r] = t]
  BY DEF Proxy
<1>2. txn[r] = None /\ txn'[r] \in TxnIds /\ \A q \in Requests : q # r => txn'[q] = txn[q]
  BY <1>1 DEF TxnKnown, TypeOK
<1>a. ~(\E c \in Cmts : Serves(c, r))
  BY <1>2 DEF ServedOnce
<1>b. PICK to \in Cmts : asked' = [asked EXCEPT ![to] = @ \cup {r}] \/ asked' = asked
  BY DEF Proxy
<1>3. /\ asked' \in [Cmts -> SUBSET Requests]
      /\ \A d \in Cmts, q \in Requests : q \in asked'[d] => q \in asked[d] \/ (q = r /\ d = to)
  <2>1. CASE asked' = [asked EXCEPT ![to] = @ \cup {r}]
    BY <2>1 DEF TypeOK
  <2>2. CASE asked' = asked
    <3>1. asked \in [Cmts -> SUBSET Requests]
      BY DEF TypeOK
    <3>2. QED
      BY <2>2, <3>1
  <2>3. QED
    BY <1>b, <2>1, <2>2
<1>c. \A c \in Cmts, m \in Reports :
         (OnWire(c, m)' \/ writing'[c] = m) <=> (OnWire(c, m) \/ writing[c] = m)
  BY <1>1 DEF OnWire
<1>4. \A c \in Cmts, q \in Requests : q # r => (Serves(c, q)' => Serves(c, q))
  BY <1>3, <1>c DEF Serves
<1>5. \A c, d \in Cmts : Serves(c, r)' /\ Serves(d, r)' => c = d
  <2>1. \A c \in Cmts : Serves(c, r)' => c = to
    BY <1>3, <1>a, <1>c DEF Serves
  <2>2. QED
    BY <2>1
<1>6. TypeOK'
  <2>1. txn' \in [Requests -> TxnIds \cup {None}] /\ pc' \in [Requests ->
          {"new", "open", "read", "remove", "answered", "failed"}]
    BY <1>1 DEF TypeOK
  <2>2. QED
    BY <1>1, <1>3, <2>1 DEF TypeOK
<1>7. TxnKnown'
  BY <1>1, <1>2 DEF TxnKnown, Waiting, TypeOK
<1>8. ServedOnce'
  BY <1>2, <1>4, <1>5 DEF ServedOnce
<1>9. SentKnown'
  BY <1>1 DEF SentKnown, OnWire, TypeOK
<1>10. FileNamed'
  BY <1>1, <1>2 DEF FileNamed, TypeOK
<1>11. FileWhole' /\ WriterInPlace' /\ ReaderInPlace'
  BY <1>1 DEF FileWhole, WriterInPlace, ReaderInPlace, TypeOK
<1>12. QED
  BY <1>6, <1>7, <1>8, <1>9, <1>10, <1>11 DEF RInv

\* A step of a handler that waits: only what it holds and the names change.
LEMMA HandlerR ==
  ASSUME RInv, NEW r \in Requests, Waiting(r), TypeOK', ReaderInPlace',
         pc'[r] # "new", \A q \in Requests : q # r => pc'[q] = pc[q],
         txn' = txn, data' = data, asked' = asked, sent' = sent, wire' = wire,
         writing' = writing, file' = file,
         \A t \in TxnIds : dir'[t] \in {dir[t], None}
  PROVE  RInv'
<1> USE RFacts, NoneFacts
<1>1. FreshIds' /\ TxnKnown' /\ SentKnown'
  BY DEF FreshIds, TxnKnown, Waiting, SentKnown, OnWire, TypeOK
<1>2. ServedOnce'
  BY DEF ServedOnce, Serves, OnWire
<1>3. FileNamed' /\ FileWhole' /\ WriterInPlace'
  BY DEF FileNamed, FileWhole, WriterInPlace
<1>4. QED
  BY <1>1, <1>2, <1>3 DEF RInv

LEMMA HandlerStepsR ==
  ASSUME RInv, NEW r \in Requests, Open(r) \/ Read(r) \/ Remove(r) \/ TimeOut(r)
  PROVE  RInv'
<1> USE RFacts, NoneFacts DEF TypeOK
<1>1. ASSUME Open(r) PROVE RInv'
  <2>1. txn[r] \in TxnIds /\ dir[txn[r]] \in Reports
    BY <1>1 DEF Open, TxnKnown, Waiting
  <2>2. dir[txn[r]].about = r
    BY <2>1 DEF FileNamed, FreshIds
  <2>3. ReaderInPlace'
    BY <1>1, <2>1, <2>2 DEF Open, ReaderInPlace
  <2>4. QED
    BY <1>1, <2>1, <2>3, HandlerR DEF Open, Waiting
<1>2. ASSUME Read(r) PROVE RInv'
  <2>1. fp[r] \in Reports /\ fp[r].about = r
    BY <1>2 DEF Read, ReaderInPlace
  <2>2. \A q \in Requests : q # r =>
           pc'[q] = pc[q] /\ fp'[q] = fp[q] /\ response'[q] = response[q]
    BY <1>2 DEF Read
  <2>3. pc'[r] = "remove" => \E m \in sent : response'[r] = {m} /\ m.about = r
    BY <1>2, <2>1 DEF Read, FileWhole
  <2>4. pc'[r] \in {"open", "remove"} /\ sent' = sent
    BY <1>2 DEF Read
  <2>5. ReaderInPlace'
    <3>1. ASSUME NEW q \in Requests, q # r
          PROVE  /\ pc'[q] = "read" => fp'[q] \in Reports /\ fp'[q].about = q
                 /\ pc'[q] \in {"remove", "answered"} =>
                        \E m \in sent : response'[q] = {m} /\ m.about = q
      BY <2>2, <3>1 DEF ReaderInPlace
    <3>2. pc'[r] # "read" /\ pc'[r] # "answered"
      BY <2>4
    <3>3. QED
      BY <2>3, <2>4, <3>1, <3>2 DEF ReaderInPlace
  <2>6. QED
    BY <1>2, <2>1, <2>5, HandlerR DEF Read, Waiting
<1>3. ASSUME Remove(r) PROVE RInv'
  <2>1. ReaderInPlace'
    BY <1>3 DEF Remove, ReaderInPlace
  <2>2. QED
    BY <1>3, <2>1, HandlerR DEF Remove, Waiting
<1>4. ASSUME TimeOut(r) PROVE RInv'
  <2>1. ReaderInPlace'
    BY <1>4 DEF TimeOut, ReaderInPlace
  <2>2. QED
    BY <1>4, <2>1, HandlerR DEF TimeOut, Waiting
<1>5. QED
  BY <1>1, <1>2, <1>3, <1>4

LEMMA ReportR ==
  ASSUME RInv, NEW c \in Cmts, Report(c)
  PROVE  RInv'
<1> USE RFacts, NoneFacts
<1>1. PICK r \in asked[c], n \in 1 .. MaxReports, k \in Kinds :
        LET m == [about |-> r, nth |-> n] IN
        /\ sent' = sent \cup {m}
        /\ wire' = [wire EXCEPT ![c] = Append(@, [report |-> m, kind |-> k])]
  BY DEF Report
<1> DEFINE m == [about |-> r, nth |-> n]
<1>2. /\ pc' = pc /\ txn' = txn /\ fp' = fp /\ response' = response /\ dir' = dir
      /\ data' = data /\ asked' = asked /\ writing' = writing /\ file' = file
  BY DEF Report
<1>3. r \in Requests /\ m \in Reports /\ m.about = r
  BY DEF Reports, TypeOK
<1>4. Serves(c, r)
  BY DEF Serves
<1> HIDE DEF m
<1>5. sent' = sent \cup {m} /\ wire' = [wire EXCEPT ![c] = Append(@, [report |-> m, kind |-> k])]
  BY <1>1 DEF m
<1>6. /\ wire' \in [Cmts -> Seq([report : Reports, kind : Kinds])]
      /\ \A d \in Cmts, x \in Reports : OnWire(d, x)' => OnWire(d, x) \/ (d = c /\ x = m)
  BY <1>3, <1>5, WireAppend
<1>7. \A d \in Cmts, q \in Requests : Serves(d, q)' => Serves(d, q)
  BY <1>2, <1>3, <1>4, <1>6 DEF Serves
<1>8. TypeOK'
  BY <1>2, <1>3, <1>5, <1>6 DEF TypeOK
<1>9. pc[r] # "new"
  BY <1>3, <1>4 DEF ServedOnce, TxnKnown
<1>10. ServedOnce'
  BY <1>2, <1>7 DEF ServedOnce
<1>11. SentKnown'
  BY <1>2, <1>3, <1>5, <1>6, <1>9 DEF SentKnown
<1>12. FreshIds' /\ TxnKnown' /\ FileNamed' /\ WriterInPlace'
  BY <1>2 DEF FreshIds, TxnKnown, Waiting, FileNamed, WriterInPlace
<1>13. FileWhole' /\ ReaderInPlace'
  BY <1>2, <1>5 DEF FileWhole, ReaderInPlace
<1>14. QED
  BY <1>8, <1>10, <1>11, <1>12, <1>13 DEF RInv

\* A step after which the connection of c carries less than before.
LEMMA LessR ==
  ASSUME RInv, NEW c \in Cmts, TypeOK', pc' = pc, txn' = txn, fp' = fp,
         response' = response, sent' = sent,
         \A d \in Cmts, q \in Requests : Serves(d, q)' => Serves(d, q),
         \A d \in Cmts, x \in Reports :
             OnWire(d, x)' \/ writing'[d] = x => OnWire(d, x) \/ writing[d] = x,
         FileNamed', FileWhole', WriterInPlace'
  PROVE  RInv'
<1> USE RFacts
<1>1. FreshIds' /\ TxnKnown' /\ ReaderInPlace'
  BY DEF FreshIds, TxnKnown, Waiting, ReaderInPlace
<1>2. ServedOnce' /\ SentKnown'
  BY DEF ServedOnce, SentKnown
<1>3. QED
  BY <1>1, <1>2 DEF RInv

LEMMA DisconnectR ==
  ASSUME RInv, NEW c \in Cmts, Disconnect(c)
  PROVE  RInv'
<1> USE RFacts
<1>1. /\ pc' = pc /\ txn' = txn /\ fp' = fp /\ response' = response /\ sent' = sent
      /\ dir' = dir /\ data' = data /\ writing' = writing /\ file' = file
      /\ asked' = [asked EXCEPT ![c] = {}] /\ wire' = [wire EXCEPT ![c] = <<>>]
  BY DEF Disconnect
<1>2. \A d \in Cmts, x \in Reports : OnWire(d, x)' => OnWire(d, x)
  BY <1>1 DEF OnWire, TypeOK
<1>3. \A d \in Cmts, q \in Requests : Serves(d, q)' => Serves(d, q)
  BY <1>1, <1>2 DEF Serves, TypeOK
<1>4. TypeOK'
  <2>1. wire' \in [Cmts -> Seq([report : Reports, kind : Kinds])]
    BY <1>1, EmptySeq DEF TypeOK
  <2>2. QED
    BY <1>1, <2>1 DEF TypeOK
<1>5. FileNamed' /\ FileWhole' /\ WriterInPlace'
  BY <1>1 DEF FileNamed, FileWhole, WriterInPlace
<1>6. QED
  BY <1>1, <1>2, <1>3, <1>4, <1>5, LessR

LEMMA DiscardR ==
  ASSUME RInv, NEW c \in Cmts, Discard(c)
  PROVE  RInv'
<1> USE RFacts
<1>1. /\ pc' = pc /\ txn' = txn /\ fp' = fp /\ response' = response /\ sent' = sent
      /\ dir' = dir /\ data' = data /\ writing' = writing /\ file' = file
      /\ asked' = asked /\ wire[c] # <<>> /\ wire' = [wire EXCEPT ![c] = Tail(@)]
  BY DEF Discard
<1>2. /\ wire' \in [Cmts -> Seq([report : Reports, kind : Kinds])]
      /\ \A d \in Cmts, x \in Reports : OnWire(d, x)' => OnWire(d, x)
  BY <1>1, WireTail
<1>3. \A d \in Cmts, q \in Requests : Serves(d, q)' => Serves(d, q)
  BY <1>1, <1>2 DEF Serves
<1>4. TypeOK'
  BY <1>1, <1>2 DEF TypeOK
<1>5. FileNamed' /\ FileWhole' /\ WriterInPlace'
  BY <1>1 DEF FileNamed, FileWhole, WriterInPlace
<1>6. QED
  BY <1>1, <1>2, <1>3, <1>4, <1>5, LessR

\* The file that Create opens is about the request the report is about.
LEMMA CreateFile ==
  ASSUME RInv, NEW c \in Cmts, Create(c)
  PROVE  LET m == Received(c).report
             t == TxnOf(m)
             f == IF dir[t] = None THEN m ELSE dir[t]
         IN  /\ m \in Reports /\ OnWire(c, m) /\ Serves(c, m.about)
             /\ t \in TxnIds /\ f \in Reports /\ f.about = m.about
             /\ dir' = [dir EXCEPT ![t] = f] /\ data' = [data EXCEPT ![f] = {}]
             /\ file' = [file EXCEPT ![c] = f] /\ writing' = [writing EXCEPT ![c] = m]
<1> USE RFacts, NoneFacts
<1> DEFINE m == Received(c).report
           t == TxnOf(m)
           f == IF dir[t] = None THEN m ELSE dir[t]
<1>1. m \in Reports /\ OnWire(c, m)
  BY WireTail DEF Create
<1>2. Serves(c, m.about) /\ m.about \in Requests
  BY <1>1 DEF Serves
<1>3. t \in TxnIds
  BY <1>2 DEF ServedOnce, TxnOf, TypeOK
<1>4. f \in Reports /\ f.about = m.about
  <2>1. CASE dir[t] = None
    BY <1>1, <2>1
  <2>2. CASE dir[t] # None
    <3>1. dir[t] \in Reports /\ txn[dir[t].about] = txn[m.about]
      BY <1>3, <2>2 DEF FileNamed, TypeOK, TxnOf
    <3>2. QED
      BY <1>2, <1>3, <2>2, <3>1 DEF FreshIds, TxnOf
  <2>3. QED
    BY <2>1, <2>2
<1>5. QED
  BY <1>1, <1>2, <1>3, <1>4 DEF Create

LEMMA CreateR ==
  ASSUME RInv, NEW c \in Cmts, Create(c)
  PROVE  RInv'
<1> USE RFacts, NoneFacts
<1> DEFINE m == Received(c).report
           t == TxnOf(m)
           f == IF dir[t] = None THEN m ELSE dir[t]
<1>1. /\ m \in Reports /\ OnWire(c, m) /\ Serves(c, m.about)
      /\ t \in TxnIds /\ f \in Reports /\ f.about = m.about
      /\ dir' = [dir EXCEPT ![t] = f] /\ data' = [data EXCEPT ![f] = {}]
      /\ file' = [file EXCEPT ![c] = f] /\ writing' = [writing EXCEPT ![c] = m]
  BY CreateFile
<1>2. txn[m.about] = t
  BY DEF TxnOf
<1> HIDE DEF m, t, f
<1>3. /\ pc' = pc /\ txn' = txn /\ fp' = fp /\ response' = response /\ sent' = sent
      /\ asked' = asked /\ wire[c] # <<>> /\ wire' = [wire EXCEPT ![c] = Tail(@)]
  BY DEF Create
<1>4. /\ wire' \in [Cmts -> Seq([report : Reports, kind : Kinds])]
      /\ \A d \in Cmts, x \in Reports : OnWire(d, x)' => OnWire(d, x)
  BY <1>3, WireTail
<1>5. \A d \in Cmts, x \in Reports :
         OnWire(d, x)' \/ writing'[d] = x => OnWire(d, x) \/ writing[d] = x
  BY <1>1, <1>4 DEF TypeOK
<1>6. \A d \in Cmts, q \in Requests : Serves(d, q)' => Serves(d, q)
  BY <1>3, <1>5 DEF Serves
<1>7. TypeOK'
  BY <1>1, <1>3, <1>4 DEF TypeOK
<1>8. FileNamed'
  BY <1>1, <1>2, <1>3 DEF FileNamed, TypeOK
<1>9. FileWhole' /\ WriterInPlace'
  BY <1>1, <1>3 DEF FileWhole, WriterInPlace, TypeOK
<1>10. QED
  BY <1>3, <1>5, <1>6, <1>7, <1>8, <1>9, LessR

LEMMA WriteR ==
  ASSUME RInv, NEW c \in Cmts, Write(c)
  PROVE  RInv'
<1> USE RFacts, NoneFacts
<1>1. /\ pc' = pc /\ txn' = txn /\ fp' = fp /\ response' = response /\ sent' = sent
      /\ dir' = dir /\ asked' = asked /\ wire' = wire
      /\ writing' = [writing EXCEPT ![c] = None] /\ file' = [file EXCEPT ![c] = None]
      /\ data' = [data EXCEPT ![file[c]] = @ \cup {writing[c]}]
  BY DEF Write
<1>2. /\ writing[c] \in Reports /\ writing[c] \in sent
      /\ file[c] \in Reports /\ file[c].about = writing[c].about /\ data[file[c]] = {}
  BY DEF Write, TypeOK, SentKnown, WriterInPlace
<1>3. \A d \in Cmts : d # c /\ writing[d] # None => file[d] # file[c]
  <2>1. SUFFICES ASSUME NEW d \in Cmts, d # c, writing[d] # None, file[d] = file[c]
                 PROVE  FALSE
    OBVIOUS
  <2>2. writing[d] \in Reports /\ writing[d].about = writing[c].about
    BY <1>2, <2>1 DEF WriterInPlace, TypeOK
  <2>3. Serves(d, writing[c].about) /\ Serves(c, writing[c].about)
    BY <1>2, <2>2 DEF Serves
  <2>4. QED
    BY <1>2, <2>1, <2>3 DEF ServedOnce
<1>4. \A d \in Cmts, x \in Reports :
         OnWire(d, x)' \/ writing'[d] = x => OnWire(d, x) \/ writing[d] = x
  BY <1>1 DEF OnWire, TypeOK
<1>5. \A d \in Cmts, q \in Requests : Serves(d, q)' => Serves(d, q)
  BY <1>1, <1>4 DEF Serves
<1>6. TypeOK'
  BY <1>1, <1>2 DEF TypeOK
<1>7. FileNamed' /\ FileWhole'
  BY <1>1, <1>2 DEF FileNamed, FileWhole, TypeOK
<1>8. WriterInPlace'
  BY <1>1, <1>2, <1>3 DEF WriterInPlace, TypeOK
<1>9. QED
  BY <1>1, <1>4, <1>5, <1>6, <1>7, <1>8, LessR

LEMMA RestartR ==
  ASSUME RInv, Restart
  PROVE  RInv'
<1> USE RFacts, NoneFacts
<1>1. /\ pc' = [r \in Requests |-> IF Waiting(r) THEN "failed" ELSE pc[r]]
      /\ txn' = [r \in Requests |-> None] /\ fp' = [r \in Requests |-> None]
      /\ dir' = [t \in TxnIds |-> None] /\ data' = [m \in Reports |-> {}]
      /\ asked' = [c \in Cmts |-> {}] /\ wire' = [c \in Cmts |-> <<>>]
      /\ writing' = [c \in Cmts |-> None] /\ file' = [c \in Cmts |-> None]
      /\ response' = response /\ sent' = sent
  BY DEF Restart
<1>2. \A c \in Cmts, m \in Reports : ~OnWire(c, m)'
  BY <1>1 DEF OnWire
<1>3. \A c \in Cmts, r \in Requests : ~Serves(c, r)'
  BY <1>1, <1>2 DEF Serves
<1>4. \A r \in Requests : pc'[r] \in {pc[r], "failed"} /\ ~Waiting(r)'
  BY <1>1 DEF Waiting
<1>5. TypeOK'
  BY <1>1 DEF TypeOK
<1>6. ServedOnce' /\ SentKnown'
  BY <1>1, <1>2, <1>3, <1>4 DEF ServedOnce, SentKnown, TypeOK
<1>7. FreshIds' /\ TxnKnown'
  BY <1>1, <1>4 DEF FreshIds, TxnKnown
<1>8. FileNamed' /\ FileWhole' /\ WriterInPlace'
  BY <1>1 DEF FileNamed, FileWhole, WriterInPlace
<1>9. ReaderInPlace'
  BY <1>1, <1>4 DEF ReaderInPlace, Waiting
<1>10. QED
  BY <1>5, <1>6, <1>7, <1>8, <1>9 DEF RInv

LEMMA RStep == RInv /\ [Next /\ FreshIds']_vars => RInv'
<1> SUFFICES ASSUME RInv, [Next /\ FreshIds']_vars PROVE RInv'
  OBVIOUS
<1>1. ASSUME NEW r \in Requests, Request(r), FreshIds' PROVE RInv'
  BY <1>1, ProxyR, HandlerStepsR DEF Request
<1>2. ASSUME NEW c \in Cmts, Connection(c) PROVE RInv'
  BY <1>2, ReportR, DisconnectR, DiscardR, CreateR, WriteR DEF Connection
<1>3. ASSUME UNCHANGED vars PROVE RInv'
  <2>1. /\ pc' = pc /\ txn' = txn /\ fp' = fp /\ response' = response
        /\ dir' = dir /\ data' = data /\ asked' = asked /\ sent' = sent
        /\ wire' = wire /\ writing' = writing /\ file' = file
    BY <1>3 DEF vars
  <2>2. \A c \in Cmts, m \in Reports : OnWire(c, m)' <=> OnWire(c, m)
    BY <2>1 DEF OnWire
  <2>3. \A c \in Cmts, r \in Requests : Serves(c, r)' <=> Serves(c, r)
    BY <2>1, <2>2 DEF Serves
  <2>4. TypeOK' /\ FreshIds' /\ TxnKnown'
    BY <2>1, RFacts DEF TypeOK, FreshIds, TxnKnown, Waiting
  <2>5. ServedOnce' /\ SentKnown'
    BY <2>1, <2>2, <2>3, RFacts DEF ServedOnce, SentKnown
  <2>6. FileNamed' /\ FileWhole' /\ WriterInPlace' /\ ReaderInPlace'
    BY <2>1, RFacts DEF FileNamed, FileWhole, WriterInPlace, ReaderInPlace
  <2>7. QED
    BY <2>4, <2>5, <2>6 DEF RInv
<1>4. QED
  BY <1>1, <1>2, <1>3, RestartR DEF Next

\* Every state reached with fresh ids satisfies the invariant.
THEOREM FreshInvariant == FreshSpec => []RInv
BY RInit, RStep, PTL DEF FreshSpec

\* Types are kept (ReportDelivery).
THEOREM ReportTypes == FreshSpec => []TypeOK
<1>1. RInv => TypeOK
  BY DEF RInv
<1>2. QED
  BY <1>1, FreshInvariant, PTL

\* With fresh ids gctl_async_get_decision returns one whole report about its
\* own request, across time-outs, lost connections and restarts.
THEOREM OwnAnswerHolds == FreshSpec => []OwnAnswer
<1>1. RInv => OwnAnswer
  BY DEF RInv, ReaderInPlace, OwnAnswer, TypeOK, Reports
<1>2. QED
  BY <1>1, FreshInvariant, PTL

-----------------------------------------------------------------------------
(* What a step may not do.                                                 *)

LEMMA StaysStep ==
  ASSUME RInv, Next, NEW r \in Requests, Waiting(r), InReach(r), Waiting(r)'
  PROVE  InReach(r)'
<1> USE RFacts, NoneFacts
<1>1. PICK m \in Reports :
        /\ m.about = r
        /\ \/ m \in data[dir[txn[r]]]
           \/ \E c \in Cmts : writing[c] = m /\ file[c] = dir[txn[r]]
  BY DEF InReach
<1>2. txn[r] \in TxnIds /\ dir[txn[r]] \in Reports
  BY DEF InReach, TypeOK
<1>3. ASSUME txn'[r] = txn[r], dir'[txn[r]] = dir[txn[r]],
             data' = data, writing' = writing, file' = file
      PROVE  InReach(r)'
  BY <1>1, <1>2, <1>3 DEF InReach
<1>4. ASSUME NEW q \in Requests, Request(q)
      PROVE  InReach(r)'
  <2>1. CASE Proxy(q)
    <3>1. q # r
      BY <2>1 DEF Proxy, Waiting
    <3>2. QED
      BY <1>3, <2>1, <3>1 DEF Proxy, TypeOK
  <2>2. CASE Open(q) \/ Read(q) \/ TimeOut(q)
    BY <1>3, <2>2 DEF Open, Read, TimeOut
  <2>3. CASE Remove(q)
    <3>1. q # r
      BY <2>3 DEF Remove, Waiting, TypeOK
    <3>2. txn[q] # txn[r]
      BY <1>2, <3>1 DEF FreshIds
    <3>3. dir'[txn[r]] = dir[txn[r]]
      BY <1>2, <2>3, <3>2 DEF Remove, TypeOK
    <3>4. QED
      BY <1>3, <2>3, <3>3 DEF Remove
  <2>4. QED
    BY <1>4, <2>1, <2>2, <2>3 DEF Request
<1>5. ASSUME NEW c \in Cmts, Connection(c)
      PROVE  InReach(r)'
  <2>1. CASE Report(c) \/ Disconnect(c) \/ Discard(c)
    BY <1>3, <2>1 DEF Report, Disconnect, Discard
  <2>2. CASE Create(c)
    <3> DEFINE x == Received(c).report
               t == TxnOf(x)
               f == IF dir[t] = None THEN x ELSE dir[t]
    <3>1. /\ x \in Reports /\ t \in TxnIds /\ f \in Reports /\ f.about = x.about
          /\ dir' = [dir EXCEPT ![t] = f] /\ data' = [data EXCEPT ![f] = {}]
          /\ file' = [file EXCEPT ![c] = f] /\ writing' = [writing EXCEPT ![c] = x]
      BY <2>2, CreateFile
    <3>2. txn[x.about] = t /\ (dir[t] # None => f = dir[t])
      BY DEF TxnOf
    <3>3. txn' = txn /\ writing[c] = None
      BY <2>2 DEF Create
    <3> HIDE DEF x, t, f
    <3>4. CASE t = txn[r]
      <4>1. x.about = r
        BY <1>2, <3>1, <3>2, <3>4 DEF FreshIds
      <4>2. dir'[txn[r]] = f /\ writing'[c] = x /\ file'[c] = f
        BY <3>1, <3>4 DEF TypeOK
      <4>3. QED
        BY <1>2, <3>1, <3>3, <4>1, <4>2 DEF InReach
    <3>5. CASE t # txn[r]
      <4>1. dir'[txn[r]] = dir[txn[r]]
        BY <3>1, <3>5 DEF TypeOK
      <4>2. dir[txn[r]] # f
        BY <1>2, <3>1, <3>2, <3>5 DEF FileNamed
      <4>3. data'[dir[txn[r]]] = data[dir[txn[r]]]
        BY <1>2, <3>1, <4>2 DEF TypeOK
      <4>4. \A d \in Cmts : writing[d] = m => writing'[d] = m /\ file'[d] = file[d]
        BY <3>1, <3>3 DEF TypeOK
      <4>5. QED
        BY <1>1, <1>2, <3>3, <4>1, <4>3, <4>4 DEF InReach
    <3>6. QED
      BY <3>4, <3>5
  <2>3. CASE Write(c)
    <3>1. /\ txn' = txn /\ dir' = dir
          /\ data' = [data EXCEPT ![file[c]] = @ \cup {writing[c]}]
          /\ writing' = [writing EXCEPT ![c] = None]
          /\ file' = [file EXCEPT ![c] = None]
      BY <2>3 DEF Write
    <3>2. \A f \in Reports : data[f] \subseteq data'[f]
      BY <3>1 DEF TypeOK
    <3>3. file[c] = dir[txn[r]] => writing[c] \in data'[dir[txn[r]]]
      BY <1>2, <3>1 DEF TypeOK
    <3>4. \A d \in Cmts : d # c => writing'[d] = writing[d] /\ file'[d] = file[d]
      BY <3>1 DEF TypeOK
    <3>5. QED
      BY <1>1, <1>2, <3>1, <3>2, <3>3, <3>4 DEF InReach
  <2>4. QED
    BY <1>5, <2>1, <2>2, <2>3 DEF Connection
<1>6. ASSUME Restart
      PROVE  FALSE
  BY <1>6 DEF Restart, Waiting
<1>7. QED
  BY <1>4, <1>5, <1>6 DEF Next

\* With fresh ids no thread takes a report out of reach of the request that
\* waits for it (remove in gctl_async_get_decision, fopen "w" in
\* ps_pcmm_report_decision).
THEOREM ReportStaysHolds == FreshSpec => ReportStays
<1>1. RInv /\ [Next /\ FreshIds']_vars =>
        [\A r \in Requests : Waiting(r) /\ InReach(r) /\ Waiting(r)' => InReach(r)']_vars
  BY StaysStep
<1>2. QED
  BY <1>1, FreshInvariant, PTL DEF FreshSpec, ReportStays

-----------------------------------------------------------------------------
(* ReportDelivery implements GateRpc.                                      *)

LEMMA RpcInit == Init => Rpc!Init
BY DEF Init, Rpc!Init, Waiting

LEMMA RpcStep ==
  ASSUME RInv, [Next /\ FreshIds']_vars
  PROVE  [Rpc!Next]_(Rpc!vars)
<1> USE RFacts, NoneFacts
<1> DEFINE state  == [r \in Requests |-> IF Waiting(r) THEN "waiting" ELSE pc[r]]
           answer == [r \in Requests |-> IF pc[r] = "answered" THEN response[r] ELSE {}]
<1>1. ASSUME NEW r \in Requests, Request(r)
      PROVE  [Rpc!Next]_(Rpc!vars)
  <2>1. sent' = sent /\ \A q \in Requests : q # r =>
          pc'[q] = pc[q] /\ response'[q] = response[q] /\ Waiting(q)' = Waiting(q)
    BY <1>1 DEF Request, Proxy, Open, Read, Remove, TimeOut, Waiting, TypeOK
  <2>2. CASE Proxy(r)
    <3>1. state[r] = "new" /\ state'[r] = "waiting" /\ answer'[r] = answer[r]
      BY <2>2 DEF Proxy, Waiting, TypeOK
    <3>2. state' = [state EXCEPT ![r] = "waiting"] /\ answer' = answer
      BY <2>1, <3>1
    <3>3. Rpc!Ask(r)
      BY <2>1, <3>1, <3>2 DEF Rpc!Ask
    <3>4. QED
      BY <3>3 DEF Rpc!Next
  <2>3. CASE Open(r) \/ Read(r)
    <3>1. state'[r] = state[r] /\ answer'[r] = answer[r]
      BY <2>3 DEF Open, Read, Waiting, TypeOK
    <3>2. state' = state /\ answer' = answer
      BY <2>1, <3>1
    <3>3. QED
      BY <2>1, <3>2 DEF Rpc!vars
  <2>4. CASE Remove(r)
    <3>1. /\ state[r] = "waiting" /\ state'[r] = "answered"
          /\ answer'[r] = response[r] /\ pc[r] = "remove"
      BY <2>4 DEF Remove, Waiting, TypeOK
    <3>2. state' = [state EXCEPT ![r] = "answered"]
      BY <2>1, <3>1
    <3>3. answer' = [answer EXCEPT ![r] = response[r]]
      BY <2>1, <3>1
    <3>4. PICK m \in sent : response[r] = {m} /\ m.about = r
      BY <3>1 DEF ReaderInPlace
    <3>5. answer' = [answer EXCEPT ![r] = {m}]
      BY <3>3, <3>4
    <3>6. state[r] = "waiting" /\ sent' = sent
      BY <2>1, <3>1
    <3>7. Rpc!Reply(r)
      <4> HIDE DEF state, answer
      <4>1. QED
        BY <3>2, <3>4, <3>5, <3>6 DEF Rpc!Reply, state, answer
    <3>8. QED
      BY <3>7 DEF Rpc!Next
  <2>5. CASE TimeOut(r)
    <3>1. state[r] = "waiting" /\ state'[r] = "failed" /\ answer'[r] = answer[r]
      BY <2>5 DEF TimeOut, Waiting, TypeOK
    <3>2. /\ state' = [q \in Requests |-> IF q \in {r} THEN "failed" ELSE state[q]]
          /\ answer' = answer
      BY <2>1, <3>1
    <3>3. Rpc!Fail({r})
      BY <2>1, <3>1, <3>2 DEF Rpc!Fail
    <3>4. QED
      BY <3>3 DEF Rpc!Next
  <2>6. QED
    BY <1>1, <2>2, <2>3, <2>4, <2>5 DEF Request
<1>2. ASSUME NEW c \in Cmts, Report(c)
      PROVE  [Rpc!Next]_(Rpc!vars)
  <2>1. PICK r \in asked[c], n \in 1 .. MaxReports : sent' = sent \cup {[about |-> r, nth |-> n]}
    BY <1>2 DEF Report
  <2>2. r \in Requests /\ [about |-> r, nth |-> n] \in Reports
    BY <2>1 DEF TypeOK, Reports
  <2>3. pc[r] # "new"
    BY <2>2 DEF Serves, ServedOnce, TxnKnown
  <2>4. state[r] # "new" /\ state' = state /\ answer' = answer
    BY <1>2, <2>2, <2>3 DEF Report, Waiting
  <2>5. Rpc!Give([about |-> r, nth |-> n])
    BY <2>1, <2>4 DEF Rpc!Give
  <2>6. QED
    BY <2>2, <2>5 DEF Rpc!Next
<1>3. ASSUME NEW c \in Cmts, Disconnect(c) \/ Discard(c) \/ Create(c) \/ Write(c)
      PROVE  UNCHANGED Rpc!vars
  BY <1>3 DEF Disconnect, Discard, Create, Write, Rpc!vars, Waiting
<1>4. ASSUME Restart
      PROVE  [Rpc!Next]_(Rpc!vars)
  <2> DEFINE failed == {r \in Requests : Waiting(r)}
  <2>1. /\ pc' = [r \in Requests |-> IF Waiting(r) THEN "failed" ELSE pc[r]]
        /\ response' = response /\ sent' = sent
    BY <1>4 DEF Restart
  <2>2. \A r \in Requests : state'[r] = IF r \in failed THEN "failed" ELSE state[r]
    BY <2>1 DEF Waiting
  <2>3. state' = [r \in Requests |-> IF r \in failed THEN "failed" ELSE state[r]]
    BY <2>2
  <2>4. answer' = answer
    BY <2>1 DEF Waiting
  <2>5. Rpc!Fail(failed)
    BY <2>1, <2>3, <2>4 DEF Rpc!Fail
  <2>6. failed \in SUBSET Requests
    OBVIOUS
  <2> HIDE DEF failed
  <2>7. QED
    BY <2>5, <2>6 DEF Rpc!Fail, Rpc!Next
<1>5. ASSUME UNCHANGED vars
      PROVE  UNCHANGED Rpc!vars
  BY <1>5 DEF vars, Rpc!vars, Waiting
<1>6. QED
  BY <1>1, <1>2, <1>3, <1>4, <1>5 DEF Next, Connection

\* The files and threads between ps_proxy and gctl_async_get_decision give
\* the caller what GateRpc promises, while transaction ids do not repeat.
THEOREM Implements == FreshSpec => ImplementsRpc
<1>1. RInv /\ [Next /\ FreshIds']_vars => [Rpc!Next]_(Rpc!vars)
  BY RpcStep
<1>2. QED
  BY <1>1, RpcInit, FreshInvariant, PTL DEF FreshSpec, ImplementsRpc, Rpc!Spec

=============================================================================
