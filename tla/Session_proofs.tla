--------------------------- MODULE Session_proofs ---------------------------
(***************************************************************************)
(* Proofs about Session, for any number of handlers and connections, when  *)
(* the CMTS reports about no decision before its REQ.                      *)
(***************************************************************************)
EXTENDS Session, SequenceTheorems, TLAPS

\* The first message of connection k that carries a handle is its REQ.
RequestComes(k) ==
    \E i \in 1 .. Len(up[k]) :
        up[k][i].op = "REQ" /\ \A j \in 1 .. i - 1 : up[k][j].op # "RPT"

Coming(k, m) == \E i \in 1 .. Len(up[k]) : up[k][i] = m
Going(k, m)  == \E i \in 1 .. Len(down[k]) : down[k][i] = m

(***************************************************************************)
(* The invariant.  The CMTS asks (REQ) only when it is accepted (CAT), the *)
(* server accepts only after it has given up waiting for an OPN, and so no *)
(* message with a handle can be dropped before the REQ is waited for.      *)
(***************************************************************************)
NewConns ==
    \A k \in Conns : k > sock =>
        link[k] = "none" /\ done[k] = {} /\ up[k] = <<>> /\ down[k] = <<>>

StepOrder == \A k \in Conns : "req" \in done[k] => "cat" \in done[k]

NotAccepted ==
    pc \in {"select", "opn", "accept"} =>
        /\ "cat" \notin done[sock]
        /\ \A m \in Downwards : Going(sock, m) => m.op # "CAT"

RequestSent ==
    \A k \in Conns, m \in Upwards : Coming(k, m) =>
        /\ m.op \in {"REQ", "RPT"} => "req" \in done[k]
        /\ m.op = "REQ" => m.handle = k

HandleComes ==
    /\ pc \notin {"serve", "closed"} => ~uuid_received
    /\ pc \in {"select", "opn", "accept", "req"} /\ "req" \in done[sock] =>
          RequestComes(sock)

Served ==
    /\ pc # "new" => sock \in Conns
    /\ pc \in {"serve", "closed"} =>
          uuid_received /\ handle = sock /\ "req" \in done[sock]

Given(h, k) == h \in 1 .. k /\ "req" \in done[h]

HandleGiven ==
    /\ pc = "new" => ~booted
    /\ pc \in {"serve", "closed", "retry"} => booted
    /\ booted => Given(handle, sock)
    /\ \A h \in Handlers : hpc[h] # "idle" => booted /\ Given(ctl_hnd[h], sock)
    /\ \A k \in Conns, m \in Downwards : Going(k, m) /\ m.op = "DEC" => Given(m.handle, k)

SInv == /\ TypeOK /\ NewConns /\ StepOrder /\ NotAccepted /\ RequestSent
        /\ HandleComes /\ Served /\ HandleGiven

USE DEF session, handlers, cmts

LEMMA SFacts ==
  ASSUME SInv
  PROVE  /\ TypeOK /\ NewConns /\ StepOrder /\ NotAccepted /\ RequestSent
         /\ HandleComes /\ Served /\ HandleGiven
BY DEF SInv

LEMMA SInit == Init => SInv
<1> SUFFICES ASSUME Init PROVE SInv
  OBVIOUS
<1> USE DEF Init
<1>1. \A k \in Conns : Len(up[k]) = 0 /\ Len(down[k]) = 0
  OBVIOUS
<1>2. \A k \in Conns : \A m : ~Coming(k, m) /\ ~Going(k, m)
  BY <1>1 DEF Coming, Going
<1>3. TypeOK
  <2>1. /\ up \in [Conns -> Seq(Upwards)] /\ down \in [Conns -> Seq(Downwards)]
    BY EmptySeq
  <2>2. 0 \in Handles /\ 0 \in 0 .. MaxConn
    BY ConnAssumption DEF Handles
  <2>3. QED
    BY <2>1, <2>2 DEF TypeOK
<1>4. QED
  BY <1>2, <1>3 DEF SInv, NewConns, StepOrder, NotAccepted, RequestSent, HandleComes,
       Served, HandleGiven

-----------------------------------------------------------------------------
(* Sequences.                                                              *)

LEMMA AppendFacts ==
  ASSUME NEW S, NEW s \in Seq(S), NEW m \in S
  PROVE  /\ Append(s, m) \in Seq(S)
         /\ Len(s) \in Nat /\ Len(Append(s, m)) = Len(s) + 1
         /\ Append(s, m)[Len(s) + 1] = m
         /\ \A i \in 1 .. Len(s) : Append(s, m)[i] = s[i]
BY AppendProperties, LenProperties

LEMMA TailFacts ==
  ASSUME NEW S, NEW s \in Seq(S), s # <<>>
  PROVE  /\ Tail(s) \in Seq(S)
         /\ Len(s) \in Nat /\ Len(s) >= 1 /\ Len(Tail(s)) = Len(s) - 1
         /\ Head(s) = s[1] /\ Head(s) \in S
         /\ \A i \in 1 .. Len(s) - 1 : Tail(s)[i] = s[i + 1]
<1>1. /\ Head(s) \in S /\ Tail(s) \in Seq(S) /\ Len(Tail(s)) = Len(s) - 1
      /\ \A i \in 1 .. Len(Tail(s)) : Tail(s)[i] = s[i + 1]
  BY HeadTailProperties
<1>2. Len(s) \in Nat /\ Len(s) >= 1
  BY EmptySeq, LenProperties
<1>3. Head(s) = s[1]
  OBVIOUS
<1>4. QED
  BY <1>1, <1>2, <1>3

\* A message put on the wire to the server.
LEMMA UpAppend ==
  ASSUME TypeOK, NEW k \in Conns, NEW m \in Upwards, up' = [up EXCEPT ![k] = Append(@, m)]
  PROVE  /\ up' \in [Conns -> Seq(Upwards)]
         /\ \A d \in Conns, x \in Upwards : Coming(d, x)' => Coming(d, x) \/ (d = k /\ x = m)
         /\ \A d \in Conns : RequestComes(d) => RequestComes(d)'
         /\ (m.op = "REQ" /\ \A x \in Upwards : Coming(k, x) => x.op # "RPT") =>
               RequestComes(k)'
<1>1. up[k] \in Seq(Upwards) /\ up'[k] = Append(up[k], m) /\ \A d \in Conns : d # k => up'[d] = up[d]
  BY DEF TypeOK
<1>2. /\ up'[k] \in Seq(Upwards)
      /\ Len(up[k]) \in Nat /\ Len(up'[k]) = Len(up[k]) + 1
      /\ up'[k][Len(up[k]) + 1] = m
      /\ \A i \in 1 .. Len(up[k]) : up'[k][i] = up[k][i]
  BY <1>1, AppendFacts
<1>3. up' \in [Conns -> Seq(Upwards)]
  BY <1>2 DEF TypeOK
<1>4. ASSUME NEW d \in Conns, NEW x \in Upwards, Coming(d, x)'
      PROVE  Coming(d, x) \/ (d = k /\ x = m)
  <2>1. CASE d # k
    BY <1>1, <1>4, <2>1 DEF Coming
  <2>2. CASE d = k
    <3>1. PICK i \in 1 .. Len(up'[k]) : up'[k][i] = x
      BY <1>4, <2>2 DEF Coming
    <3>2. i \in 1 .. Len(up[k]) \/ i = Len(up[k]) + 1
      BY <1>2
    <3>3. QED
      BY <1>2, <2>2, <3>1, <3>2 DEF Coming
  <2>3. QED
    BY <2>1, <2>2
<1>5. ASSUME NEW d \in Conns, RequestComes(d)
      PROVE  RequestComes(d)'
  <2>1. CASE d # k
    BY <1>1, <1>5, <2>1 DEF RequestComes
  <2>2. CASE d = k
    <3>1. PICK i \in 1 .. Len(up[k]) :
             up[k][i].op = "REQ" /\ \A j \in 1 .. i - 1 : up[k][j].op # "RPT"
      BY <1>5, <2>2 DEF RequestComes
    <3>2. i \in 1 .. Len(up'[k]) /\ \A j \in 1 .. i - 1 : j \in 1 .. Len(up[k])
      BY <1>2
    <3>3. up'[k][i].op = "REQ" /\ \A j \in 1 .. i - 1 : up'[k][j].op # "RPT"
      BY <1>2, <3>1, <3>2
    <3>4. QED
      BY <2>2, <3>2, <3>3 DEF RequestComes
  <2>3. QED
    BY <2>1, <2>2
<1>6. ASSUME m.op = "REQ", \A x \in Upwards : Coming(k, x) => x.op # "RPT"
      PROVE  RequestComes(k)'
  <2>1. \A j \in 1 .. Len(up[k]) : up[k][j] \in Upwards /\ up[k][j].op # "RPT"
    <3>1. \A j \in 1 .. Len(up[k]) : up[k][j] \in Upwards
      BY <1>1, ElementOfSeq
    <3>2. QED
      BY <1>6, <3>1 DEF Coming
  <2>2. \A j \in 1 .. (Len(up[k]) + 1) - 1 : up'[k][j].op # "RPT"
    BY <1>2, <2>1
  <2>3. Len(up[k]) + 1 \in 1 .. Len(up'[k])
    BY <1>2
  <2>4. QED
    BY <1>2, <1>6, <2>2, <2>3 DEF RequestComes
<1>7. QED
  BY <1>3, <1>4, <1>5, <1>6

\* A message read by ps_recvd.
LEMMA UpTail ==
  ASSUME TypeOK, NEW k \in Conns, up[k] # <<>>, up' = [up EXCEPT ![k] = Tail(@)]
  PROVE  /\ up' \in [Conns -> Seq(Upwards)]
         /\ Head(up[k]) \in Upwards /\ Coming(k, Head(up[k]))
         /\ \A d \in Conns, x \in Upwards : Coming(d, x)' => Coming(d, x)
         /\ RequestComes(k) =>
               Head(up[k]).op # "RPT" /\ (Head(up[k]).op = "REQ" \/ RequestComes(k)')
<1>1. up[k] \in Seq(Upwards) /\ up'[k] = Tail(up[k]) /\ \A d \in Conns : d # k => up'[d] = up[d]
  BY DEF TypeOK
<1>2. /\ up'[k] \in Seq(Upwards)
      /\ Len(up[k]) \in Nat /\ Len(up[k]) >= 1 /\ Len(up'[k]) = Len(up[k]) - 1
      /\ Head(up[k]) = up[k][1] /\ Head(up[k]) \in Upwards
      /\ \A i \in 1 .. Len(up[k]) - 1 : up'[k][i] = up[k][i + 1]
  <2>1. /\ Tail(up[k]) \in Seq(Upwards)
        /\ Len(up[k]) \in Nat /\ Len(up[k]) >= 1 /\ Len(Tail(up[k])) = Len(up[k]) - 1
        /\ Head(up[k]) = up[k][1] /\ Head(up[k]) \in Upwards
    BY <1>1, TailFacts
  <2>2. \A i \in 1 .. Len(up[k]) - 1 : Tail(up[k])[i] = up[k][i + 1]
    BY <1>1, TailFacts
  <2>3. QED
    BY <1>1, <2>1, <2>2
<1>3. up' \in [Conns -> Seq(Upwards)]
  BY <1>2 DEF TypeOK
<1>4. Coming(k, Head(up[k]))
  BY <1>2 DEF Coming
<1>5. ASSUME NEW d \in Conns, NEW x \in Upwards, Coming(d, x)'
      PROVE  Coming(d, x)
  <2>1. CASE d # k
    BY <1>1, <1>5, <2>1 DEF Coming
  <2>2. CASE d = k
    <3>1. PICK i \in 1 .. Len(up'[d]) : up'[d][i] = x
      BY <1>5 DEF Coming
    <3>2. i + 1 \in 1 .. Len(up[k]) /\ up[k][i + 1] = x
      BY <1>2, <2>2, <3>1
    <3>3. QED
      BY <2>2, <3>2 DEF Coming
  <2>3. QED
    BY <2>1, <2>2
<1>6. ASSUME RequestComes(k)
      PROVE  /\ Head(up[k]).op # "RPT"
             /\ Head(up[k]).op = "REQ" \/ RequestComes(k)'
  <2>1. PICK i \in 1 .. Len(up[k]) :
           up[k][i].op = "REQ" /\ \A j \in 1 .. i - 1 : up[k][j].op # "RPT"
    BY <1>6 DEF RequestComes
  <2>2. CASE i = 1
    BY <1>2, <2>1, <2>2
  <2>3. CASE i # 1
    <3>1. 1 \in 1 .. i - 1 /\ i - 1 \in 1 .. Len(up'[k])
      BY <1>2, <2>3
    <3>2. \A j \in 1 .. (i - 1) - 1 : j + 1 \in 1 .. i - 1 /\ j \in 1 .. Len(up[k]) - 1
      BY <1>2
    <3>3. up'[k][i - 1].op = "REQ" /\ \A j \in 1 .. (i - 1) - 1 : up'[k][j].op # "RPT"
      BY <1>2, <2>1, <3>1, <3>2
    <3>4. QED
      BY <1>2, <2>1, <3>1, <3>3 DEF RequestComes
  <2>4. QED
    BY <2>2, <2>3
<1>7. QED
  BY <1>2, <1>3, <1>4, <1>5, <1>6

LEMMA DownAppend ==
  ASSUME TypeOK, NEW k \in Conns, NEW m \in Downwards, down' = [down EXCEPT ![k] = Append(@, m)]
  PROVE  /\ down' \in [Conns -> Seq(Downwards)]
         /\ \A d \in Conns, x \in Downwards : Going(d, x)' => Going(d, x) \/ (d = k /\ x = m)
<1>1. down[k] \in Seq(Downwards) /\ down'[k] = Append(down[k], m) /\ \A d \in Conns : d # k => down'[d] = down[d]
  BY DEF TypeOK
<1>2. /\ down'[k] \in Seq(Downwards)
      /\ Len(down[k]) \in Nat /\ Len(down'[k]) = Len(down[k]) + 1
      /\ down'[k][Len(down[k]) + 1] = m
      /\ \A i \in 1 .. Len(down[k]) : down'[k][i] = down[k][i]
  BY <1>1, AppendFacts
<1>3. down' \in [Conns -> Seq(Downwards)]
  BY <1>2 DEF TypeOK
<1>4. ASSUME NEW d \in Conns, NEW x \in Downwards, Going(d, x)'
      PROVE  Going(d, x) \/ (d = k /\ x = m)
  <2>1. CASE d # k
    BY <1>1, <1>4, <2>1 DEF Going
  <2>2. CASE d = k
    <3>1. PICK i \in 1 .. Len(down'[k]) : down'[k][i] = x
      BY <1>4, <2>2 DEF Going
    <3>2. i \in 1 .. Len(down[k]) \/ i = Len(down[k]) + 1
      BY <1>2
    <3>3. QED
      BY <1>2, <2>2, <3>1, <3>2 DEF Going
  <2>3. QED
    BY <2>1, <2>2
<1>5. QED
  BY <1>3, <1>4

\* write(self->sock, m), whether m is lost or not.
LEMMA WrittenFacts ==
  ASSUME TypeOK, NEW m \in Downwards, down' = Written(m)
  PROVE  /\ down' \in [Conns -> Seq(Downwards)]
         /\ \A d \in Conns : d # sock => down'[d] = down[d]
         /\ \A d \in Conns, x \in Downwards :
               Going(d, x)' => Going(d, x) \/ (d = sock /\ x = m)
<1>1. CASE sock \in Conns /\ link[sock] = "up"
  <2>1. down' = [down EXCEPT ![sock] = Append(@, m)]
    BY <1>1 DEF Written
  <2>2. QED
    BY <1>1, <2>1, DownAppend DEF TypeOK
<1>2. CASE ~(sock \in Conns /\ link[sock] = "up")
  <2>1. down' = down
    BY <1>2 DEF Written
  <2>2. QED
    BY <2>1 DEF TypeOK, Going
<1>3. QED
  BY <1>1, <1>2

\* A message read by the CMTS.
LEMMA DownTail ==
  ASSUME TypeOK, NEW k \in Conns, down[k] # <<>>, down' = [down EXCEPT ![k] = Tail(@)]
  PROVE  /\ down' \in [Conns -> Seq(Downwards)]
         /\ Head(down[k]) \in Downwards /\ Going(k, Head(down[k]))
         /\ \A d \in Conns, x \in Downwards : Going(d, x)' => Going(d, x)
<1>1. down[k] \in Seq(Downwards) /\ down'[k] = Tail(down[k]) /\ \A d \in Conns : d # k => down'[d] = down[d]
  BY DEF TypeOK
<1>2. /\ down'[k] \in Seq(Downwards)
      /\ Len(down[k]) \in Nat /\ Len(down[k]) >= 1 /\ Len(down'[k]) = Len(down[k]) - 1
      /\ Head(down[k]) = down[k][1] /\ Head(down[k]) \in Downwards
      /\ \A i \in 1 .. Len(down[k]) - 1 : down'[k][i] = down[k][i + 1]
  <2>1. /\ Tail(down[k]) \in Seq(Downwards)
        /\ Len(down[k]) \in Nat /\ Len(down[k]) >= 1 /\ Len(Tail(down[k])) = Len(down[k]) - 1
        /\ Head(down[k]) = down[k][1] /\ Head(down[k]) \in Downwards
    BY <1>1, TailFacts
  <2>2. \A i \in 1 .. Len(down[k]) - 1 : Tail(down[k])[i] = down[k][i + 1]
    BY <1>1, TailFacts
  <2>3. QED
    BY <1>1, <2>1, <2>2
<1>3. down' \in [Conns -> Seq(Downwards)]
  BY <1>2 DEF TypeOK
<1>4. Going(k, Head(down[k]))
  BY <1>2 DEF Going
<1>5. ASSUME NEW d \in Conns, NEW x \in Downwards, Going(d, x)'
      PROVE  Going(d, x)
  <2>1. CASE d # k
    BY <1>1, <1>5, <2>1 DEF Going
  <2>2. CASE d = k
    <3>1. PICK i \in 1 .. Len(down'[d]) : down'[d][i] = x
      BY <1>5 DEF Going
    <3>2. i + 1 \in 1 .. Len(down[k]) /\ down[k][i + 1] = x
      BY <1>2, <2>2, <3>1
    <3>3. QED
      BY <2>2, <3>2 DEF Going
  <2>3. QED
    BY <2>1, <2>2
<1>6. QED
  BY <1>2, <1>3, <1>4, <1>5

-----------------------------------------------------------------------------
(* The steps of the CMTS.                                                  *)

LEMMA MessageFacts ==
  ASSUME NEW k \in Conns
  PROVE  /\ Message("OPN", 0) \in Upwards /\ Message("KA", 0) \in Upwards
         /\ Message("CC", 0) \in Upwards /\ Message("REQ", k) \in Upwards
         /\ \A h \in Handles : Message("RPT", h) \in Upwards /\ Message("DEC", h) \in Downwards
         /\ Message("CAT", 0) \in Downwards /\ Message("KA", 0) \in Downwards
         /\ \A op, h : Message(op, h).op = op /\ Message(op, h).handle = h
BY ConnAssumption DEF Message, Upwards, Downwards, Handles, Conns

\* The server does not move.
LEMMA CmtsS ==
  ASSUME SInv, TypeOK', NewConns', StepOrder', RequestSent',
         pc' = pc, booted' = booted, sock' = sock, uuid_received' = uuid_received,
         handle' = handle, hpc' = hpc, ctl_hnd' = ctl_hnd,
         \A k \in Conns : done[k] \subseteq done'[k],
         \A k \in Conns, m \in Downwards : Going(k, m)' => Going(k, m),
         pc \in {"select", "opn", "accept"} => "cat" \notin done'[sock],
         pc \in {"select", "opn", "accept", "req"} /\ "req" \in done'[sock] => RequestComes(sock)'
  PROVE  SInv'
<1> USE SFacts
<1>1. \A h, k : h \in Conns /\ Given(h, k) => Given(h, k)'
  BY DEF Given
<1>2. NotAccepted'
  <2>1. pc \in {"select", "opn", "accept"} => sock \in Conns
    BY DEF Served
  <2>2. QED
    BY <2>1 DEF NotAccepted, Going
<1>3. HandleComes' /\ Served'
  BY DEF HandleComes, Served, RequestComes
<1>4. HandleGiven'
  <2>1. /\ booted => handle \in Conns
        /\ \A h \in Handlers : hpc[h] # "idle" => ctl_hnd[h] \in Conns
        /\ \A k \in Conns, m \in Downwards : Going(k, m) /\ m.op = "DEC" => m.handle \in Conns
    <3>1. \A h, k : Given(h, k) /\ k \in Conns => h \in Conns
      BY ConnAssumption DEF Given, Conns
    <3>2. sock = 0 => ~booted
      BY ConnAssumption DEF Served, HandleGiven, Conns
    <3>3. sock # 0 => sock \in Conns
      BY ConnAssumption DEF TypeOK, Conns
    <3>4. QED
      BY <3>1, <3>2, <3>3 DEF HandleGiven
  <2>2. QED
    BY <1>1, <2>1 DEF HandleGiven, Given
<1>5. QED
  BY <1>2, <1>3, <1>4 DEF SInv

\* The session and the handlers, which no step of the CMTS changes.
ServerStays ==
    /\ pc' = pc /\ booted' = booted /\ sock' = sock /\ connection' = connection
    /\ uuid_received' = uuid_received /\ handle' = handle
    /\ hpc' = hpc /\ ctl_hnd' = ctl_hnd

\* A connection is made or lost.
LEMMA LinkS ==
  ASSUME SInv, NEW k \in Conns, ServerStays, link[k] # "none",
         NEW l \in {"up", "down"}, link' = [link EXCEPT ![k] = l],
         done' = done, awaits' = awaits, up' = up, down' = down
  PROVE  SInv'
<1> USE SFacts DEF ServerStays
<1>1. TypeOK'
  BY DEF TypeOK
<1>2. \A d \in Conns : d # k => link'[d] = link[d]
  BY DEF TypeOK
<1>3. NewConns'
  BY <1>2 DEF NewConns
<1>4. StepOrder' /\ RequestSent'
  BY DEF StepOrder, RequestSent, Coming
<1>5. /\ \A d \in Conns, m \in Downwards : Going(d, m)' => Going(d, m)
      /\ pc \in {"select", "opn", "accept"} => "cat" \notin done'[sock]
  BY DEF Going, NotAccepted
<1>6. pc \in {"select", "opn", "accept", "req"} /\ "req" \in done'[sock] => RequestComes(sock)'
  BY DEF HandleComes, RequestComes
<1>7. QED
  BY <1>1, <1>3, <1>4, <1>5, <1>6, CmtsS

\* The CMTS puts m on the wire, perhaps as a step of the handshake, or to
\* answer a message.
LEMMA SentS ==
  ASSUME SInv, NEW k \in Conns, ServerStays, link[k] = "up", link' = link,
         down' \in [Conns -> Seq(Downwards)], \A d \in Conns : d # k => down'[d] = down[d],
         \A d \in Conns, x \in Downwards : Going(d, x)' => Going(d, x),
         awaits' \in [Conns -> BOOLEAN], \A d \in Conns : d # k => awaits'[d] = awaits[d],
         done' \in [Conns -> SUBSET {"opn", "cat", "req", "cc"}],
         \A d \in Conns : d # k => done'[d] = done[d],
         done[k] \subseteq done'[k],
         "cat" \in done'[k] => "cat" \in done[k],
         NEW m \in Upwards, up' = [up EXCEPT ![k] = Append(@, m)],
         m.op = "RPT" => "req" \in done[k],
         m.op = "REQ" => m.handle = k /\ "cat" \in done[k] /\ "req" \in done'[k],
         "req" \in done'[k] /\ "req" \notin done[k] => m.op = "REQ"
  PROVE  SInv'
<1> USE SFacts DEF ServerStays
<1>1. /\ up' \in [Conns -> Seq(Upwards)]
      /\ \A d \in Conns, x \in Upwards : Coming(d, x)' => Coming(d, x) \/ (d = k /\ x = m)
      /\ \A d \in Conns : RequestComes(d) => RequestComes(d)'
      /\ (m.op = "REQ" /\ \A x \in Upwards : Coming(k, x) => x.op # "RPT") =>
             RequestComes(k)'
  BY UpAppend
<1>2. \A d \in Conns : done[d] \subseteq done'[d] /\ (d # k => up'[d] = up[d])
  BY DEF TypeOK
<1>3. TypeOK'
  BY <1>1, <1>2 DEF TypeOK
<1>4. NewConns'
  BY <1>2 DEF NewConns
<1>5. StepOrder' /\ RequestSent'
  <2>1. StepOrder'
    BY <1>2 DEF StepOrder
  <2>2. \A d \in Conns : "req" \in done[d] => "req" \in done'[d]
    BY <1>2
  <2>3. ASSUME NEW d \in Conns, NEW x \in Upwards, Coming(d, x)'
        PROVE  /\ x.op \in {"REQ", "RPT"} => "req" \in done'[d]
               /\ x.op = "REQ" => x.handle = d
    <3>1. CASE Coming(d, x)
      BY <2>2, <3>1 DEF RequestSent
    <3>2. CASE d = k /\ x = m
      BY <2>2, <3>2
    <3>3. QED
      BY <1>1, <2>3, <3>1, <3>2
  <2>4. QED
    BY <2>1, <2>3 DEF RequestSent
<1>6. /\ \A d \in Conns, x \in Downwards : Going(d, x)' => Going(d, x)
      /\ \A d \in Conns : "cat" \in done'[d] => "cat" \in done[d]
  BY <1>2 DEF Going
<1>7. pc \in {"select", "opn", "accept", "req"} => sock \in Conns
  BY DEF Served
<1>8. pc \in {"select", "opn", "accept"} => "cat" \notin done'[sock]
  BY <1>6, <1>7 DEF NotAccepted
<1>9. ASSUME NEW d \in Conns, "req" \in done'[d], "req" \in done[d] => RequestComes(d)
      PROVE  RequestComes(d)'
  <2>1. CASE "req" \in done[d]
    BY <1>1, <1>9, <2>1
  <2>2. CASE "req" \notin done[d]
    <3>1. d = k /\ m.op = "REQ" /\ "req" \notin done[k]
      BY <1>2, <1>9, <2>2
    <3>2. \A x \in Upwards : Coming(k, x) => x.op # "RPT"
      BY <3>1 DEF RequestSent
    <3>3. QED
      BY <1>1, <3>1, <3>2
  <2>3. QED
    BY <2>1, <2>2
<1>10. \A d \in Conns : d = sock /\ pc \in {"select", "opn", "accept", "req"} /\ "req" \in done'[d]
                       => RequestComes(d)'
  BY <1>9 DEF HandleComes
<1>11. pc \in {"select", "opn", "accept", "req"} /\ "req" \in done'[sock] => RequestComes(sock)'
  <2>1. SUFFICES ASSUME pc \in {"select", "opn", "accept", "req"}, "req" \in done'[sock]
                 PROVE  RequestComes(sock)'
    OBVIOUS
  <2>2. PICK d \in Conns : d = sock
    BY <1>7, <2>1
  <2>3. RequestComes(d)'
    BY <1>10, <2>1, <2>2
  <2>4. sock' = d
    BY <2>2
  <2>5. QED
    BY <2>3, <2>4 DEF RequestComes
<1>12. QED
  BY <1>2, <1>3, <1>4, <1>5, <1>6, <1>8, <1>11, CmtsS

\* The CMTS reads a message; it may take it for the CAT.
LEMMA ReadS ==
  ASSUME SInv, NEW k \in Conns, ServerStays, link[k] = "up", link' = link, up' = up,
         awaits' \in [Conns -> BOOLEAN], \A d \in Conns : d # k => awaits'[d] = awaits[d],
         down[k] # <<>>, down' = [down EXCEPT ![k] = Tail(@)],
         \/ done' = done
         \/ done' = [done EXCEPT ![k] = @ \cup {"cat"}] /\ Head(down[k]).op = "CAT"
  PROVE  SInv'
<1> USE SFacts DEF ServerStays
<1>1. /\ down' \in [Conns -> Seq(Downwards)]
      /\ Head(down[k]) \in Downwards /\ Going(k, Head(down[k]))
      /\ \A d \in Conns, x \in Downwards : Going(d, x)' => Going(d, x)
  BY DownTail
<1>2. \A d \in Conns : d # k => down'[d] = down[d]
  BY DEF TypeOK
<1>3. /\ done' \in [Conns -> SUBSET {"opn", "cat", "req", "cc"}]
      /\ \A d \in Conns : d # k => done'[d] = done[d]
      /\ done'[k] = done[k] \/ (done'[k] = done[k] \cup {"cat"} /\ Head(down[k]).op = "CAT")
  <2>1. CASE done' = done
    BY <2>1 DEF TypeOK
  <2>2. CASE done' = [done EXCEPT ![k] = @ \cup {"cat"}] /\ Head(down[k]).op = "CAT"
    BY <2>2 DEF TypeOK
  <2>3. QED
    BY <2>1, <2>2
<1>4. TypeOK'
  BY <1>1, <1>3 DEF TypeOK
<1>5. NewConns'
  BY <1>2, <1>3 DEF NewConns
<1>6. \A d \in Conns : /\ done[d] \subseteq done'[d]
                       /\ "req" \in done'[d] => "req" \in done[d]
                       /\ "cat" \in done'[d] /\ "cat" \notin done[d] =>
                             d = k /\ Head(down[k]).op = "CAT"
  BY <1>3
<1>7. StepOrder' /\ RequestSent'
  BY <1>6 DEF StepOrder, RequestSent, Coming
<1>8. pc \in {"select", "opn", "accept", "req"} => sock \in Conns
  BY DEF Served
<1>9. pc \in {"select", "opn", "accept"} => "cat" \notin done'[sock]
  BY <1>1, <1>6, <1>8 DEF NotAccepted
<1>10. pc \in {"select", "opn", "accept", "req"} /\ "req" \in done'[sock] => RequestComes(sock)'
  BY <1>6, <1>8 DEF HandleComes, RequestComes
<1>11. QED
  BY <1>1, <1>4, <1>5, <1>6, <1>7, <1>9, <1>10, CmtsS

LEMMA CmtsStepsS ==
  ASSUME SInv, Strict, NEW k \in Conns, Cmts(k)
  PROVE  SInv'
<1> USE SFacts
<1>1. ServerStays
  BY DEF ServerStays, Cmts, Handshake, Connected, SendOpen, ReadAccept, SendRequest,
         ReadDecision, SendKeepAlive, ReadKeepAlive, SendClose, Break, Step
<1>2. CASE Connected(k) \/ Break(k)
  <2>1. /\ link' = [link EXCEPT ![k] = "up"] \/ link' = [link EXCEPT ![k] = "down"]
        /\ link[k] # "none" /\ done' = done /\ awaits' = awaits /\ up' = up /\ down' = down
    BY <1>2 DEF Connected, Break
  <2>2. QED
    BY <1>1, <2>1, LinkS
<1>3. ASSUME down' = down
      PROVE  /\ down' \in [Conns -> Seq(Downwards)] /\ \A d \in Conns : d # k => down'[d] = down[d]
             /\ \A d \in Conns, x \in Downwards : Going(d, x)' => Going(d, x)
  BY <1>3 DEF TypeOK, Going
<1>4. awaits \in [Conns -> BOOLEAN] /\ done \in [Conns -> SUBSET {"opn", "cat", "req", "cc"}]
  BY DEF TypeOK
<1>5. \A s \in {"opn", "req", "cc"} : done' = [done EXCEPT ![k] = @ \cup {s}] =>
         /\ done' \in [Conns -> SUBSET {"opn", "cat", "req", "cc"}]
         /\ done'[k] = done[k] \cup {s} /\ \A d \in Conns : d # k => done'[d] = done[d]
  BY <1>4
<1>6. CASE SendOpen(k)
  <2>1. /\ link[k] = "up" /\ link' = link /\ awaits' = awaits /\ down' = down
        /\ done' = [done EXCEPT ![k] = @ \cup {"opn"}]
        /\ up' = [up EXCEPT ![k] = Append(@, Message("OPN", 0))]
    BY <1>6 DEF SendOpen, Step
  <2>2. PICK m \in Upwards : m = Message("OPN", 0)
    BY MessageFacts
  <2>3. m.op = "OPN" /\ m.handle = 0
    BY <2>2, MessageFacts
  <2>4. QED
    BY <1>1, <1>3, <1>4, <1>5, <2>1, <2>2, <2>3, SentS
<1>7. CASE SendRequest(k)
  <2>1. /\ link[k] = "up" /\ link' = link /\ awaits' = awaits /\ down' = down
        /\ done' = [done EXCEPT ![k] = @ \cup {"req"}]
        /\ "req" \notin done[k] /\ "cat" \in done[k]
        /\ up' = [up EXCEPT ![k] = Append(@, Message("REQ", k))]
    BY <1>7 DEF SendRequest, Step
  <2>2. PICK m \in Upwards : m = Message("REQ", k)
    BY MessageFacts
  <2>3. m.op = "REQ" /\ m.handle = k
    BY <2>2, MessageFacts
  <2>4. QED
    BY <1>1, <1>3, <1>4, <1>5, <2>1, <2>2, <2>3, SentS
<1>8. CASE SendClose(k)
  <2>1. /\ link[k] = "up" /\ link' = link /\ awaits' = awaits /\ down' = down
        /\ done' = [done EXCEPT ![k] = @ \cup {"cc"}]
        /\ up' = [up EXCEPT ![k] = Append(@, Message("CC", 0))]
    BY <1>8 DEF SendClose, Step
  <2>2. PICK m \in Upwards : m = Message("CC", 0)
    BY MessageFacts
  <2>3. m.op = "CC" /\ m.handle = 0
    BY <2>2, MessageFacts
  <2>4. QED
    BY <1>1, <1>3, <1>4, <1>5, <2>1, <2>2, <2>3, SentS
<1>9. CASE SendKeepAlive(k)
  <2>1. /\ link[k] = "up" /\ link' = link /\ down' = down /\ done' = done
        /\ awaits' = [awaits EXCEPT ![k] = TRUE]
        /\ up' = [up EXCEPT ![k] = Append(@, Message("KA", 0))]
    BY <1>9 DEF SendKeepAlive
  <2>2. PICK m \in Upwards : m = Message("KA", 0)
    BY MessageFacts
  <2>3. m.op = "KA"
    BY <2>2, MessageFacts
  <2>4. awaits' \in [Conns -> BOOLEAN] /\ \A d \in Conns : d # k => awaits'[d] = awaits[d]
    BY <2>1 DEF TypeOK
  <2>5. QED
    BY <1>1, <1>3, <1>4, <2>1, <2>2, <2>3, <2>4, SentS
<1>10. CASE ReadAccept(k)
  <2>1. /\ link[k] = "up" /\ link' = link /\ up' = up /\ awaits' = awaits
        /\ down[k] # <<>> /\ down' = [down EXCEPT ![k] = Tail(@)]
        /\ done' = [done EXCEPT ![k] = @ \cup {"cat"}] /\ Head(down[k]).op = "CAT"
    BY <1>10 DEF ReadAccept, Step
  <2>2. QED
    BY <1>1, <1>4, <2>1, ReadS
<1>11. CASE ReadKeepAlive(k)
  <2>1. /\ link[k] = "up" /\ link' = link /\ up' = up /\ done' = done
        /\ awaits' = [awaits EXCEPT ![k] = FALSE]
        /\ down[k] # <<>> /\ down' = [down EXCEPT ![k] = Tail(@)]
    BY <1>11 DEF ReadKeepAlive
  <2>2. awaits' \in [Conns -> BOOLEAN] /\ \A d \in Conns : d # k => awaits'[d] = awaits[d]
    BY <2>1 DEF TypeOK
  <2>3. QED
    BY <1>1, <2>1, <2>2, ReadS
<1>12. CASE ReadDecision(k)
  <2> DEFINE rpt == Message("RPT", Head(down[k]).handle)
  <2>1. /\ link[k] = "up" /\ link' = link /\ done' = done /\ awaits' = awaits
        /\ down[k] # <<>> /\ down' = [down EXCEPT ![k] = Tail(@)]
        /\ up' = IF "cc" \in done[k] \/ (Strict /\ "req" \notin done[k])
                 THEN up ELSE [up EXCEPT ![k] = Append(@, rpt)]
    BY <1>12 DEF ReadDecision
  <2>2. CASE up' = up
    BY <1>1, <1>4, <2>1, <2>2, ReadS
  <2>3. CASE up' = [up EXCEPT ![k] = Append(@, rpt)] /\ "req" \in done[k]
    <3>1. /\ down' \in [Conns -> Seq(Downwards)]
          /\ Head(down[k]) \in Downwards
          /\ \A d \in Conns, x \in Downwards : Going(d, x)' => Going(d, x)
      BY <2>1, DownTail
    <3>2. \A d \in Conns : d # k => down'[d] = down[d]
      BY <2>1 DEF TypeOK
    <3>3. PICK m \in Upwards : m = rpt
      BY <3>1, MessageFacts DEF Downwards
    <3>4. m.op = "RPT"
      BY <3>3, MessageFacts
    <3> HIDE DEF rpt
    <3>5. QED
      BY <1>1, <1>4, <2>1, <2>3, <3>1, <3>2, <3>3, <3>4, SentS
  <2>4. QED
    BY <2>1, <2>2, <2>3
<1>13. QED
  BY <1>2, <1>6, <1>7, <1>8, <1>9, <1>10, <1>11, <1>12 DEF Cmts, Handshake

-----------------------------------------------------------------------------
(* The steps of the session.                                               *)

LEMMA GivenMeans ==
  ASSUME SInv
  PROVE  /\ \A h, k : Given(h, k) /\ k \in 0 .. MaxConn => h \in Conns
         /\ \A h, k : Given(h, k) /\ k \in 0 .. MaxConn => Given(h, k + 1)
BY ConnAssumption DEF Given, Conns

\* What ps_recvd does to the handle, in each phase.
LEMMA RecvdS ==
  ASSUME SInv, pc \in {"opn", "req", "serve"}, NEW op, Recvd(op)
  PROVE  /\ sock \in Conns /\ up' \in [Conns -> Seq(Upwards)]
         /\ handle' \in Handles /\ uuid_received' \in BOOLEAN
         /\ \A d \in Conns : d # sock => up'[d] = up[d]
         /\ \A d \in Conns, x \in Upwards : Coming(d, x)' => Coming(d, x)
         /\ pc # "req" \/ op # "REQ" => handle' = handle /\ uuid_received' = uuid_received
         /\ pc = "req" /\ op = "REQ" =>
               uuid_received' /\ handle' = sock /\ "req" \in done[sock]
         /\ pc = "req" /\ op # "REQ" /\ "req" \in done[sock] =>
               \A d \in Conns : d = sock => RequestComes(d)'
<1> USE SFacts
<1>1. sock \in Conns
  BY DEF Served
<1>2. PICK k \in Conns : k = sock
  BY <1>1
<1>3. /\ up[k] # <<>> /\ Head(up[k]).op = op /\ up' = [up EXCEPT ![k] = Tail(@)]
      /\ handle' = IF ~uuid_received /\ op \in {"REQ", "RPT"} THEN Head(up[k]).handle ELSE handle
      /\ uuid_received' = (uuid_received \/ (~uuid_received /\ op \in {"REQ", "RPT"}))
  BY <1>2 DEF Recvd
<1>4. /\ up' \in [Conns -> Seq(Upwards)]
      /\ Head(up[k]) \in Upwards /\ Coming(k, Head(up[k]))
      /\ \A d \in Conns, x \in Upwards : Coming(d, x)' => Coming(d, x)
      /\ RequestComes(k) =>
            Head(up[k]).op # "RPT" /\ (Head(up[k]).op = "REQ" \/ RequestComes(k)')
  BY <1>3, UpTail
<1>5. \A d \in Conns : d # sock => up'[d] = up[d]
  BY <1>2, <1>3 DEF TypeOK
<1>6. handle' \in Handles /\ uuid_received' \in BOOLEAN
  BY <1>3, <1>4 DEF TypeOK, Upwards
<1>7. /\ op \in {"REQ", "RPT"} => "req" \in done[k]
      /\ op = "REQ" => Head(up[k]).handle = k
  BY <1>3, <1>4 DEF RequestSent
<1>8. pc = "opn" => op \notin {"REQ", "RPT"}
  BY <1>2, <1>7 DEF NotAccepted, StepOrder
<1>9. pc = "serve" => uuid_received
  BY DEF Served
<1>10. pc = "req" => ~uuid_received /\ ("req" \in done[k] => RequestComes(k))
  BY <1>2 DEF HandleComes, RequestComes
<1>11. pc = "req" => op # "RPT"
  BY <1>3, <1>4, <1>7, <1>10
<1>12. pc # "req" \/ op # "REQ" => handle' = handle /\ uuid_received' = uuid_received
  BY <1>3, <1>8, <1>9, <1>11 DEF TypeOK
<1>13. pc = "req" /\ op = "REQ" => uuid_received' /\ handle' = sock /\ "req" \in done[sock]
  BY <1>2, <1>3, <1>7, <1>10
<1>14. pc = "req" /\ op # "REQ" /\ "req" \in done[sock] =>
               \A d \in Conns : d = sock => RequestComes(d)'
  BY <1>2, <1>3, <1>4, <1>10
<1>15. QED
  BY <1>1, <1>4, <1>5, <1>6, <1>12, <1>13, <1>14

\* A step of the session on its connection.
LEMMA ServerS ==
  ASSUME SInv, TypeOK', NotAccepted', HandleComes', Served',
         hpc' = hpc, ctl_hnd' = ctl_hnd, done' = done, sock' = sock,
         pc # "new", \A k \in Conns : k # sock => link'[k] = link[k] /\ up'[k] = up[k] /\ down'[k] = down[k],
         \A d \in Conns, x \in Upwards : Coming(d, x)' => Coming(d, x),
         \A d \in Conns, x \in Downwards : Going(d, x)' => Going(d, x) \/ x.op # "DEC",
         pc' = "new" => ~booted', pc' \in {"serve", "closed", "retry"} => booted',
         booted => booted', booted' => Given(handle', sock)
  PROVE  SInv'
<1> USE SFacts
<1>1. sock \in Conns
  BY DEF Served
<1>2. NewConns'
  BY <1>1 DEF NewConns, Conns
<1>3. StepOrder' /\ RequestSent'
  BY DEF StepOrder, RequestSent
<1>4. HandleGiven'
  BY DEF HandleGiven, Given
<1>5. QED
  BY <1>2, <1>3, <1>4 DEF SInv

\* What a step leaves of the wires.
LEMMA SameWires ==
  /\ up' = up => /\ \A d \in Conns, x \in Upwards : Coming(d, x)' => Coming(d, x)
                 /\ \A d \in Conns : RequestComes(d) => RequestComes(d)'
  /\ down' = down => \A d \in Conns, x \in Downwards : Going(d, x)' => Going(d, x)
BY DEF Coming, RequestComes, Going

LEMMA AdmissionS ==
  ASSUME SInv, Admission
  PROVE  SInv'
<1> USE SFacts
<1>1. CASE Dial
  <2>1. /\ pc \in {"new", "retry"} /\ sock < MaxConn /\ sock' = sock + 1 /\ pc' = "select"
        /\ link' = [link EXCEPT ![sock + 1] = "syn"]
        /\ booted' = booted /\ uuid_received' = uuid_received /\ handle' = handle
        /\ connection' = connection
        /\ hpc' = hpc /\ ctl_hnd' = ctl_hnd /\ done' = done /\ awaits' = awaits /\ up' = up
        /\ down' = down
    BY <1>1 DEF Dial
  <2>2. PICK k \in Conns : k = sock + 1
    BY <2>1, ConnAssumption DEF TypeOK, Conns
  <2>3. sock \in Nat /\ k > sock /\ sock' = k
    BY <2>1, <2>2, ConnAssumption DEF TypeOK
  <2>4. TypeOK'
    BY <2>1, <2>2, <2>3, ConnAssumption DEF TypeOK, Conns
  <2>5. /\ done[k] = {} /\ \A m \in Downwards : ~Going(k, m)
        /\ \A d \in Conns : d > k => link'[d] = link[d]
    <3>1. done[k] = {} /\ down[k] = <<>>
      BY <2>3 DEF NewConns
    <3>2. Len(down[k]) = 0
      BY <3>1
    <3>3. \A m \in Downwards : ~Going(k, m)
      BY <3>2 DEF Going
    <3>4. \A d \in Conns : d > k => d # sock + 1
      BY <2>2 DEF Conns
    <3>5. \A d \in Conns : d > k => link'[d] = link[d]
      BY <2>1, <3>4 DEF TypeOK
    <3>6. QED
      BY <3>1, <3>3, <3>5
  <2>6. NewConns'
    BY <2>1, <2>3, <2>5, ConnAssumption DEF NewConns, Conns
  <2>7. StepOrder' /\ RequestSent'
    BY <2>1 DEF StepOrder, RequestSent, Coming
  <2>8. NotAccepted' /\ HandleComes' /\ Served'
    BY <2>1, <2>3, <2>5 DEF NotAccepted, HandleComes, Served, Going
  <2>9. \A h : Given(h, sock) => Given(h, k)
    BY <2>2, GivenMeans DEF TypeOK
  <2>10. HandleGiven'
    BY <2>1, <2>3, <2>9 DEF HandleGiven, Given, Going
  <2>11. QED
    BY <2>4, <2>6, <2>7, <2>8, <2>10 DEF SInv
<1>2. CASE Selected \/ PollOpenTimeOut
  <2>1. /\ pc \in {"select", "opn"} /\ pc' \in {"opn", "accept"}
        /\ connection' \in BOOLEAN /\ sock' = sock /\ booted' = booted
        /\ uuid_received' = uuid_received /\ handle' = handle
        /\ hpc' = hpc /\ ctl_hnd' = ctl_hnd /\ link' = link /\ done' = done /\ awaits' = awaits
        /\ up' = up /\ down' = down
    BY <1>2 DEF Selected, PollOpenTimeOut, TypeOK
  <2>2. TypeOK'
    BY <2>1 DEF TypeOK
  <2>3. NotAccepted' /\ HandleComes' /\ Served'
    BY <2>1 DEF NotAccepted, HandleComes, Served, Going, RequestComes
  <2>4. QED
    BY <2>1, <2>2, <2>3, SameWires, ServerS DEF HandleGiven
<1>3. CASE ConnectTimeOut \/ PollRequestTimeOut
  <2>1. /\ pc \in {"select", "req"} /\ sock' = sock /\ booted' = booted
        /\ hpc' = hpc /\ ctl_hnd' = ctl_hnd /\ done' = done /\ awaits' = awaits
        /\ up' = up /\ down' = down
        /\ link' = link \/ link' = [link EXCEPT ![sock] = "down"]
        /\ \/ booted /\ pc' = "retry" /\ connection' = connection /\ uuid_received' = uuid_received
               /\ handle' = handle
           \/ ~booted /\ pc' = "new" /\ connection' = FALSE /\ uuid_received' = FALSE /\ handle' = 0
    BY <1>3 DEF ConnectTimeOut, PollRequestTimeOut, AdmissionFailed, TypeOK
  <2>2. 0 \in Handles
    BY ConnAssumption DEF Handles
  <2>3. TypeOK' /\ \A k \in Conns : k # sock => link'[k] = link[k]
    BY <2>1, <2>2 DEF TypeOK
  <2>4. NotAccepted' /\ HandleComes' /\ Served'
    BY <2>1 DEF NotAccepted, HandleComes, Served
  <2>5. booted => Given(handle, sock)
    BY DEF HandleGiven
  <2>6. QED
    BY <2>1, <2>3, <2>4, <2>5, SameWires, ServerS
<1>4. CASE PollOpen
  <2>1. PICK op : Recvd(op) /\ pc' = IF op = "OPN" THEN "accept" ELSE "opn"
    BY <1>4 DEF PollOpen
  <2>2. /\ pc = "opn" /\ sock' = sock /\ booted' = booted /\ connection' = connection
        /\ hpc' = hpc /\ ctl_hnd' = ctl_hnd /\ link' = link /\ done' = done /\ awaits' = awaits
        /\ down' = down
    BY <1>4 DEF PollOpen
  <2>3. /\ sock \in Conns /\ up' \in [Conns -> Seq(Upwards)]
        /\ handle' = handle /\ uuid_received' = uuid_received
        /\ \A d \in Conns : d # sock => up'[d] = up[d]
        /\ \A d \in Conns, x \in Upwards : Coming(d, x)' => Coming(d, x)
    BY <2>1, <2>2, RecvdS
  <2>4. TypeOK'
    BY <2>1, <2>2, <2>3 DEF TypeOK
  <2>5. "cat" \notin done[sock] /\ "req" \notin done[sock]
    BY <2>2, <2>3 DEF NotAccepted, StepOrder
  <2>6. NotAccepted' /\ HandleComes' /\ Served'
    BY <2>1, <2>2, <2>3, <2>5 DEF NotAccepted, HandleComes, Served, Going
  <2>7. QED
    BY <2>1, <2>2, <2>3, <2>4, <2>6, SameWires, ServerS DEF HandleGiven
<1>5. CASE Accept
  <2>1. PICK m \in Downwards : m = Message("CAT", 0)
    BY <1>5, MessageFacts DEF Accept, Served
  <2>2. /\ pc = "accept" /\ pc' = "req" /\ sock' = sock /\ booted' = booted
        /\ connection' = connection /\ uuid_received' = uuid_received /\ handle' = handle
        /\ hpc' = hpc /\ ctl_hnd' = ctl_hnd /\ link' = link /\ done' = done /\ awaits' = awaits
        /\ up' = up /\ down' = Written(m)
    BY <1>5, <2>1 DEF Accept
  <2>3. /\ down' \in [Conns -> Seq(Downwards)]
        /\ \A d \in Conns : d # sock => down'[d] = down[d]
        /\ \A d \in Conns, x \in Downwards : Going(d, x)' => Going(d, x) \/ (d = sock /\ x = m)
    BY <2>2, WrittenFacts
  <2>4. m.op # "DEC"
    BY <2>1 DEF Message
  <2>5. TypeOK'
    BY <2>2, <2>3 DEF TypeOK
  <2>6. NotAccepted' /\ HandleComes' /\ Served'
    BY <2>2 DEF NotAccepted, HandleComes, Served, RequestComes
  <2>7. \A d \in Conns, x \in Downwards : Going(d, x)' => Going(d, x) \/ x.op # "DEC"
    BY <2>3, <2>4
  <2>8. QED
    BY <2>2, <2>3, <2>5, <2>6, <2>7, SameWires, ServerS DEF HandleGiven
<1>6. CASE PollRequest
  <2>1. PICK op : /\ Recvd(op) /\ pc' = IF op = "REQ" THEN "serve" ELSE "req"
                  /\ booted' = (booted \/ op = "REQ")
    BY <1>6 DEF PollRequest
  <2>2. /\ pc = "req" /\ sock' = sock /\ connection' = connection
        /\ hpc' = hpc /\ ctl_hnd' = ctl_hnd /\ link' = link /\ done' = done /\ awaits' = awaits
        /\ down' = down
    BY <1>6 DEF PollRequest
  <2>3. /\ sock \in Conns /\ up' \in [Conns -> Seq(Upwards)]
        /\ handle' \in Handles /\ uuid_received' \in BOOLEAN
        /\ \A d \in Conns : d # sock => up'[d] = up[d]
        /\ \A d \in Conns, x \in Upwards : Coming(d, x)' => Coming(d, x)
        /\ op # "REQ" => handle' = handle /\ uuid_received' = uuid_received
        /\ op = "REQ" => uuid_received' /\ handle' = sock /\ "req" \in done[sock]
        /\ op # "REQ" /\ "req" \in done[sock] =>
               \A d \in Conns : d = sock => RequestComes(d)'
    BY <2>1, <2>2, RecvdS
  <2>4. TypeOK'
    BY <2>1, <2>2, <2>3 DEF TypeOK
  <2>5. NotAccepted' /\ Served'
    BY <2>1, <2>2, <2>3 DEF NotAccepted, Served
  <2>6. HandleComes'
    <3>1. op # "REQ" /\ "req" \in done[sock] => RequestComes(sock)'
      <4>1. PICK d \in Conns : d = sock
        BY <2>3
      <4>2. QED
        BY <2>2, <2>3, <4>1 DEF RequestComes
    <3>2. QED
      BY <2>1, <2>2, <2>3, <3>1 DEF HandleComes
  <2>7. booted' => Given(handle', sock)
    <3>1. CASE op = "REQ"
      <4>1. handle' = sock /\ "req" \in done[sock] /\ sock \in 1 .. sock
        BY <2>3, <3>1, ConnAssumption DEF Conns
      <4>2. "req" \in done'[handle']
        BY <2>2, <4>1
      <4>3. QED
        BY <4>1, <4>2 DEF Given
    <3>2. CASE op # "REQ"
      <4>1. (booted' => booted) /\ handle' = handle
        BY <2>1, <2>3, <3>2 DEF TypeOK
      <4>2. QED
        BY <4>1 DEF HandleGiven
    <3>3. QED
      BY <3>1, <3>2
  <2>8. QED
    BY <2>1, <2>2, <2>3, <2>4, <2>5, <2>6, <2>7, SameWires, ServerS DEF HandleGiven
<1>7. QED
  BY <1>1, <1>2, <1>3, <1>4, <1>5, <1>6 DEF Admission

LEMMA ServeS ==
  ASSUME SInv, Serve
  PROVE  SInv'
<1> USE SFacts
<1>1. CASE Forget
  <2>1. /\ pc = "closed" /\ pc' = "retry" /\ connection' = FALSE /\ uuid_received' = FALSE
        /\ sock' = sock /\ booted' = booted /\ handle' = handle
        /\ hpc' = hpc /\ ctl_hnd' = ctl_hnd /\ link' = link /\ done' = done /\ awaits' = awaits
        /\ up' = up /\ down' = down
    BY <1>1 DEF Forget
  <2>2. TypeOK'
    BY <2>1 DEF TypeOK
  <2>3. NotAccepted' /\ HandleComes' /\ Served'
    BY <2>1 DEF NotAccepted, HandleComes, Served
  <2>4. QED
    BY <2>1, <2>2, <2>3, SameWires, ServerS DEF HandleGiven
<1>2. CASE KeepAlive \/ Ignore \/ ClientClose
  <2>1. PICK op : Recvd(op)
    BY <1>2 DEF KeepAlive, Ignore, ClientClose
  <2>2. PICK m \in Downwards : m = Message("KA", 0)
    BY <1>2, MessageFacts DEF KeepAlive, Ignore, ClientClose, Served
  <2>3. /\ pc = "serve" /\ pc' \in {"serve", "closed"} /\ sock' = sock /\ connection' = connection
        /\ booted' = booted /\ hpc' = hpc /\ ctl_hnd' = ctl_hnd /\ done' = done /\ awaits' = awaits
        /\ link' = link \/ link' = [link EXCEPT ![sock] = "down"]
        /\ down' = down \/ down' = Written(m)
    BY <1>2, <2>2 DEF KeepAlive, Ignore, ClientClose
  <2>4. /\ sock \in Conns /\ up' \in [Conns -> Seq(Upwards)]
        /\ handle' = handle /\ uuid_received' = uuid_received
        /\ \A d \in Conns : d # sock => up'[d] = up[d]
        /\ \A d \in Conns, x \in Upwards : Coming(d, x)' => Coming(d, x)
    BY <2>1, <2>3, RecvdS
  <2>5. m.op # "DEC"
    BY <2>2 DEF Message
  <2>6. /\ down' \in [Conns -> Seq(Downwards)]
        /\ \A d \in Conns : d # sock => down'[d] = down[d]
        /\ \A d \in Conns, x \in Downwards : Going(d, x)' => Going(d, x) \/ x.op # "DEC"
    <3>1. CASE down' = down
      BY <3>1, SameWires DEF TypeOK
    <3>2. CASE down' = Written(m)
      BY <2>5, <3>2, WrittenFacts
    <3>3. QED
      BY <2>3, <3>1, <3>2
  <2>7. TypeOK' /\ \A d \in Conns : d # sock => link'[d] = link[d]
    BY <2>3, <2>4, <2>6 DEF TypeOK
  <2>8. NotAccepted' /\ HandleComes' /\ Served'
    BY <2>3, <2>4 DEF NotAccepted, HandleComes, Served
  <2>9. QED
    BY <2>3, <2>4, <2>6, <2>7, <2>8, ServerS DEF HandleGiven
<1>3. QED
  BY <1>1, <1>2 DEF Serve

-----------------------------------------------------------------------------
(* The handlers.                                                           *)

LEMMA ProxyS ==
  ASSUME SInv, NEW h \in Handlers, Proxy(h)
  PROVE  SInv'
<1> USE SFacts
<1>1. /\ pc' = pc /\ booted' = booted /\ sock' = sock /\ connection' = connection
      /\ uuid_received' = uuid_received /\ handle' = handle
      /\ link' = link /\ done' = done /\ awaits' = awaits /\ up' = up
  BY DEF Proxy, Build, Test, Send
<1>2. ASSUME
        /\ hpc' \in [Handlers -> {"idle", "built", "write"}] /\ ctl_hnd' \in [Handlers -> Handles]
        /\ \A g \in Handlers : hpc'[g] # "idle" => booted /\ Given(ctl_hnd'[g], sock)
        /\ down' \in [Conns -> Seq(Downwards)]
        /\ \A d \in Conns : d > sock => down'[d] = down[d]
        /\ \A d \in Conns, x \in Downwards :
              Going(d, x)' => Going(d, x) \/ (x.op = "DEC" /\ Given(x.handle, d))
      PROVE SInv'
  <2>1. TypeOK'
    BY <1>1, <1>2 DEF TypeOK
  <2>2. NewConns'
    BY <1>1, <1>2 DEF NewConns
  <2>3. StepOrder' /\ RequestSent'
    BY <1>1 DEF StepOrder, RequestSent, Coming
  <2>4. NotAccepted'
    <3>1. pc \in {"select", "opn", "accept"} => sock \in Conns
      BY DEF Served
    <3>2. QED
      BY <1>1, <1>2, <3>1 DEF NotAccepted
  <2>5. HandleComes' /\ Served'
    BY <1>1 DEF HandleComes, Served, RequestComes
  <2>6. HandleGiven'
    BY <1>1, <1>2 DEF HandleGiven, Given
  <2>7. QED
    BY <2>1, <2>2, <2>3, <2>4, <2>5, <2>6 DEF SInv
<1>3. CASE Build(h)
  <2>1. /\ booted /\ ctl_hnd' = [ctl_hnd EXCEPT ![h] = handle]
        /\ hpc' = [hpc EXCEPT ![h] = "built"] /\ down' = down
    BY <1>3 DEF Build
  <2>2. Given(handle, sock)
    BY <2>1 DEF HandleGiven
  <2>3. \A g \in Handlers : hpc'[g] # "idle" => Given(ctl_hnd'[g], sock)
    BY <2>1, <2>2 DEF HandleGiven, TypeOK
  <2>4. QED
    BY <1>2, <2>1, <2>3, SameWires DEF TypeOK
<1>4. CASE Test(h)
  <2>1. /\ hpc[h] = "built" /\ ctl_hnd' = ctl_hnd /\ down' = down
        /\ hpc' = [hpc EXCEPT ![h] = "write"] \/ hpc' = [hpc EXCEPT ![h] = "idle"]
    BY <1>4 DEF Test
  <2>2. \A g \in Handlers : hpc'[g] # "idle" => hpc[g] # "idle"
    BY <2>1 DEF TypeOK
  <2>3. hpc' \in [Handlers -> {"idle", "built", "write"}]
    BY <2>1 DEF TypeOK
  <2>4. QED
    BY <1>2, <2>1, <2>2, <2>3, SameWires DEF HandleGiven, TypeOK
<1>5. CASE Send(h)
  <2>1. PICK m \in Downwards : m = Message("DEC", ctl_hnd[h])
    BY MessageFacts DEF Downwards, TypeOK, Message
  <2>2. /\ hpc[h] = "write" /\ ctl_hnd' = ctl_hnd /\ down' = Written(m)
        /\ hpc' = [hpc EXCEPT ![h] = "idle"]
    BY <1>5, <2>1 DEF Send
  <2>3. /\ down' \in [Conns -> Seq(Downwards)]
        /\ \A d \in Conns : d # sock => down'[d] = down[d]
        /\ \A d \in Conns, x \in Downwards : Going(d, x)' => Going(d, x) \/ (d = sock /\ x = m)
    BY <2>2, WrittenFacts
  <2>4. m.op = "DEC" /\ m.handle = ctl_hnd[h]
    BY <2>1 DEF Message
  <2>5. Given(m.handle, sock)
    BY <2>2, <2>4 DEF HandleGiven
  <2>6. \A d \in Conns : d > sock => d # sock
    BY ConnAssumption DEF Conns
  <2>7. /\ hpc' \in [Handlers -> {"idle", "built", "write"}]
        /\ \A g \in Handlers : hpc'[g] # "idle" => hpc[g] # "idle"
    BY <2>2 DEF TypeOK
  <2>8. \A g \in Handlers : hpc'[g] # "idle" => booted /\ Given(ctl_hnd'[g], sock)
    BY <2>2, <2>7 DEF HandleGiven
  <2>9. ctl_hnd' \in [Handlers -> Handles]
    BY <2>2 DEF TypeOK
  <2>10. QED
    BY <1>2, <2>3, <2>4, <2>5, <2>6, <2>7, <2>8, <2>9
<1>6. QED
  BY <1>3, <1>4, <1>5 DEF Proxy

LEMMA StutterS ==
  ASSUME SInv, UNCHANGED vars
  PROVE  SInv'
<1> USE SFacts
<1>1. /\ pc' = pc /\ booted' = booted /\ sock' = sock /\ connection' = connection
      /\ uuid_received' = uuid_received /\ handle' = handle /\ hpc' = hpc /\ ctl_hnd' = ctl_hnd
      /\ link' = link /\ done' = done /\ awaits' = awaits /\ up' = up /\ down' = down
  BY DEF vars
<1>2. /\ TypeOK' /\ NewConns' /\ StepOrder' /\ NotAccepted' /\ RequestSent'
      /\ HandleComes' /\ Served' /\ HandleGiven'
  BY <1>1 DEF TypeOK, NewConns, StepOrder, NotAccepted, RequestSent, HandleComes, Served,
       HandleGiven, Given, Coming, Going, RequestComes
<1>3. QED
  BY <1>2 DEF SInv

-----------------------------------------------------------------------------
\* The invariant: as long as the CMTS sends no report before its REQ, the
\* handle the server keeps is the one of the connection it serves.
THEOREM Inductive == ASSUME Strict PROVE Spec => []SInv
<1>1. SInv /\ [Next]_vars => SInv'
  <2>1. SUFFICES ASSUME SInv, [Next]_vars PROVE SInv'
    OBVIOUS
  <2>2. CASE Admission
    BY <2>1, <2>2, AdmissionS
  <2>3. CASE Serve
    BY <2>1, <2>3, ServeS
  <2>4. CASE \E h \in Handlers : Proxy(h)
    BY <2>1, <2>4, ProxyS
  <2>5. CASE \E k \in Conns : Cmts(k)
    BY <2>1, <2>5, CmtsStepsS
  <2>6. CASE UNCHANGED vars
    BY <2>1, <2>6, StutterS
  <2>7. QED
    BY <2>1, <2>2, <2>3, <2>4, <2>5, <2>6 DEF Next
<1>2. QED
  BY <1>1, SInit, PTL DEF Spec

\* Every variable of a session, its handlers and its CMTS keeps its type.
THEOREM TypeCorrect == ASSUME Strict PROVE Spec => []TypeOK
<1>1. SInv => TypeOK
  BY DEF SInv
<1>2. QED
  BY <1>1, Inductive, PTL

\* ps_statemachine serves a CMTS only with the handle of the REQ that came on
\* the connection it serves (ps_recvd, and the reset at a Client-Close).
THEOREM ServedHandleHolds == ASSUME Strict PROVE Spec => []ServedHandle
<1>1. SInv => ServedHandle
  BY DEF SInv, Served, ServedHandle
<1>2. QED
  BY <1>1, Inductive, PTL

\* A decision that ps_proxy has sent names a handle that some REQ of this CMTS
\* gave, on this connection or an earlier one; never the zeroes of ps_new.
THEOREM GivenHandleHolds == ASSUME Strict PROVE Spec => []GivenHandle
<1>1. SInv => GivenHandle
  <2>1. SUFFICES ASSUME SInv, NEW k \in Conns, NEW i \in 1 .. Len(down[k]),
                        down[k][i].op = "DEC"
                 PROVE  /\ down[k][i].handle \in 1 .. k
                        /\ "req" \in done[down[k][i].handle]
    BY DEF GivenHandle
  <2>2. down[k] \in Seq(Downwards)
    BY <2>1, SFacts DEF TypeOK
  <2>3. down[k][i] \in Downwards
    BY <2>2, ElementOfSeq
  <2>4. Going(k, down[k][i])
    BY DEF Going
  <2>5. Given(down[k][i].handle, k)
    BY <2>1, <2>3, <2>4, SFacts DEF HandleGiven
  <2>6. QED
    BY <2>5 DEF Given
<1>2. QED
  BY <1>1, Inductive, PTL

=============================================================================
