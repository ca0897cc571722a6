------------------------------ MODULE Session ------------------------------
(***************************************************************************)
(* One session with one CMTS, over all the TCP connections it goes         *)
(* through: ps_admctl admits the CMTS (connect, wait for OPN, send CAT,    *)
(* wait for REQ), ps_statemachine then serves it and, on a Client-Close,   *)
(* admits it again.  Meanwhile API handlers send it decisions (ps_proxy)   *)
(* through the same self->connection, self->sock and self->handle, without *)
(* a lock.                                                                 *)
(*                                                                         *)
(* Connections are numbered; the client handle that the REQ of connection  *)
(* k gives the server is k, and 0 is the handle of ps_new, all zeroes.     *)
(* The CMTS is not part of the repository.  It makes its steps of the      *)
(* handshake once per connection and at the times it likes.                *)
(***************************************************************************)
EXTENDS Naturals, Sequences

CONSTANTS
    Handlers,   \* threads of the web framework, each with gate requests
    MaxConn,    \* connections of a session
    MaxQueue,   \* decisions and keep-alives under way in one direction
    Strict      \* whether the CMTS reports about no decision before its REQ

ASSUME ConnAssumption  == MaxConn \in Nat /\ MaxQueue \in Nat
ASSUME StrictAssumption == Strict \in BOOLEAN

Conns   == 1 .. MaxConn
Handles == 0 .. MaxConn

Upwards   == [op : {"OPN", "REQ", "RPT", "KA", "CC"}, handle : Handles]
Downwards == [op : {"CAT", "DEC", "KA"}, handle : Handles]

Message(op, h) == [op |-> op, handle |-> h]

VARIABLES
    pc,         \* where the session is: its thread, or at first gctl_connect
    booted,     \* ps_boot and lcm_set are done: handlers can find the session
    sock,       \* self->sock: the connection used last, 0 if none
    connection, \* self->connection
    uuid_received,
    handle,     \* self->handle
    hpc,        \* where each handler is in ps_proxy
    ctl_hnd,    \* the handle object it has built
    link,       \* each connection, "syn" until the CMTS has it
    done,       \* the steps the CMTS has made on it
    awaits,     \* the CMTS has sent a keep-alive and waits for the echo
    up,         \* messages on their way to the server
    down        \* messages on their way to the CMTS

session  == <<pc, booted, sock, connection, uuid_received, handle>>
handlers == <<hpc, ctl_hnd>>
cmts     == <<link, done, awaits, up, down>>
vars     == <<pc, booted, sock, connection, uuid_received, handle,
              hpc, ctl_hnd, link, done, awaits, up, down>>

TypeOK ==
    /\ pc \in {"new", "retry", "select", "opn", "accept", "req", "serve", "closed"}
    /\ booted \in BOOLEAN
    /\ sock \in 0 .. MaxConn
    /\ connection \in BOOLEAN
    /\ uuid_received \in BOOLEAN
    /\ handle \in Handles
    /\ hpc \in [Handlers -> {"idle", "built", "write"}]
    /\ ctl_hnd \in [Handlers -> Handles]
    /\ link \in [Conns -> {"none", "syn", "up", "down"}]
    /\ done \in [Conns -> SUBSET {"opn", "cat", "req", "cc"}]
    /\ awaits \in [Conns -> BOOLEAN]
    /\ up \in [Conns -> Seq(Upwards)]
    /\ down \in [Conns -> Seq(Downwards)]

Init ==
    /\ pc = "new"
    /\ booted = FALSE
    /\ sock = 0
    /\ connection = FALSE
    /\ uuid_received = FALSE
    /\ handle = 0
    /\ hpc = [h \in Handlers |-> "idle"]
    /\ ctl_hnd = [h \in Handlers |-> 0]
    /\ link = [k \in Conns |-> "none"]
    /\ done = [k \in Conns |-> {}]
    /\ awaits = [k \in Conns |-> FALSE]
    /\ up = [k \in Conns |-> <<>>]
    /\ down = [k \in Conns |-> <<>>]

\* write(self->sock, ..): what is written to a connection that is not up is
\* lost, with a line in the log.
Written(m) ==
    IF sock \in Conns /\ link[sock] = "up"
    THEN [down EXCEPT ![sock] = Append(@, m)] ELSE down

-----------------------------------------------------------------------------
(* sock_connect.                                                           *)

\* socket, connect, self->sock = fd.  self->connection keeps its value.
Dial ==
    /\ pc \in {"new", "retry"}
    /\ sock < MaxConn
    /\ sock' = sock + 1
    /\ link' = [link EXCEPT ![sock + 1] = "syn"]
    /\ pc' = "select"
    /\ UNCHANGED <<booted, connection, uuid_received, handle, handlers, done, awaits, up, down>>

\* select finds the socket writable: also when the CMTS has refused.
Selected ==
    /\ pc = "select"
    /\ link[sock] # "syn"
    /\ connection' = TRUE
    /\ pc' = "opn"
    /\ UNCHANGED <<booted, sock, uuid_received, handle, handlers, cmts>>

\* What follows an admission that failed.  gctl_connect frees the session,
\* and a later request starts with a new one; ps_statemachine tries again
\* with what self holds, connection and socket included.
AdmissionFailed ==
    /\ IF booted
       THEN /\ pc' = "retry"
            /\ UNCHANGED <<connection, uuid_received, handle>>
       ELSE /\ pc' = "new"
            /\ connection' = FALSE
            /\ uuid_received' = FALSE
            /\ handle' = 0
    /\ UNCHANGED <<booted, sock, handlers>>

\* select gives up after the configured time: sock_close.
ConnectTimeOut ==
    /\ pc = "select"
    /\ link[sock] = "syn"
    /\ sock < MaxConn
    /\ link' = [link EXCEPT ![sock] = "down"]
    /\ AdmissionFailed
    /\ UNCHANGED <<done, awaits, up, down>>

-----------------------------------------------------------------------------
(* ps_recvd, ps_polld, ps_admctl.                                          *)

\* ps_recvd returns the opcode of the first message that has arrived, and
\* keeps its handle if it has none yet, whatever the message.
Recvd(op) ==
    /\ up[sock] # <<>>
    /\ Head(up[sock]).op = op
    /\ up' = [up EXCEPT ![sock] = Tail(@)]
    /\ LET first == ~uuid_received /\ op \in {"REQ", "RPT"} IN
       /\ handle' = IF first THEN Head(up[sock]).handle ELSE handle
       /\ uuid_received' = (uuid_received \/ first)

\* ps_polld(self, 6): the OPN, or ten seconds; every other message is dropped.
PollOpen ==
    /\ pc = "opn"
    /\ \E op \in {"OPN", "REQ", "RPT", "KA", "CC"} :
          /\ Recvd(op)
          /\ pc' = IF op = "OPN" THEN "accept" ELSE "opn"
    /\ UNCHANGED <<booted, sock, connection, handlers, link, done, awaits, down>>

\* Its result is not looked at.
PollOpenTimeOut ==
    /\ pc = "opn"
    /\ pc' = "accept"
    /\ UNCHANGED <<booted, sock, connection, uuid_received, handle, handlers, cmts>>

\* ps_admctl sends the Client-Accept.
Accept ==
    /\ pc = "accept"
    /\ down' = Written(Message("CAT", 0))
    /\ pc' = "req"
    /\ UNCHANGED <<booted, sock, connection, uuid_received, handle, handlers, link, done, awaits, up>>

\* Mutant of PollRequest: any message ends the wait.
PollRequest_any ==
    /\ pc = "req"
    /\ \E op \in {"OPN", "REQ", "RPT", "KA", "CC"} : Recvd(op)
    /\ pc' = "serve"
    /\ booted' = TRUE
    /\ UNCHANGED <<sock, connection, handlers, link, done, awaits, down>>

\* ps_polld(self, 1): with the REQ the CMTS is admitted.  At the first
\* admission ps_boot and lcm_set follow.
PollRequest ==
    /\ pc = "req"
    /\ \E op \in {"OPN", "REQ", "RPT", "KA", "CC"} :
          /\ Recvd(op)
          /\ pc' = IF op = "REQ" THEN "serve" ELSE "req"
          /\ booted' = (booted \/ op = "REQ")
    /\ UNCHANGED <<sock, connection, handlers, link, done, awaits, down>>

\* Ten seconds without a REQ.  ps_free closes the socket of a first admission;
\* a later one leaves its socket open.
PollRequestTimeOut ==
    /\ pc = "req"
    /\ sock < MaxConn
    /\ link' = IF booted THEN link ELSE [link EXCEPT ![sock] = "down"]
    /\ AdmissionFailed
    /\ UNCHANGED <<done, awaits, up, down>>

Admission ==
    \/ Dial \/ Selected \/ ConnectTimeOut
    \/ PollOpen \/ PollOpenTimeOut \/ Accept
    \/ PollRequest \/ PollRequestTimeOut

-----------------------------------------------------------------------------
(* ps_statemachine, once the CMTS is admitted.                             *)

\* Mutant of KeepAlive: the keep-alive is read and not sent back.
KeepAlive_mute ==
    /\ pc = "serve"
    /\ Recvd("KA")
    /\ UNCHANGED <<pc, booted, sock, connection, handlers, link, done, awaits, down>>

\* sock_keepalive: the keep-alive goes back.
KeepAlive ==
    /\ pc = "serve"
    /\ Recvd("KA")
    /\ down' = IF connection THEN Written(Message("KA", 0)) ELSE down
    /\ UNCHANGED <<pc, booted, sock, connection, handlers, link, done, awaits>>

\* An OPN or a REQ here is only logged, a report is left to ps_recvd.
Ignore ==
    /\ pc = "serve"
    /\ \E op \in {"OPN", "REQ", "RPT"} : Recvd(op)
    /\ UNCHANGED <<pc, booted, sock, connection, handlers, link, done, awaits, down>>

\* A Client-Close: close(self->sock) ..
ClientClose ==
    /\ pc = "serve"
    /\ Recvd("CC")
    /\ link' = [link EXCEPT ![sock] = "down"]
    /\ pc' = "closed"
    /\ UNCHANGED <<booted, sock, connection, handlers, done, awaits, down>>

\* Mutants of Forget: the handle of the old connection counts as received;
\* the thread serves on.
Forget_not ==
    /\ pc = "closed"
    /\ connection' = FALSE
    /\ pc' = "retry"
    /\ UNCHANGED <<booted, sock, uuid_received, handle, handlers, cmts>>

Forget_serves ==
    /\ pc = "closed"
    /\ connection' = FALSE
    /\ uuid_received' = FALSE
    /\ pc' = "serve"
    /\ UNCHANGED <<booted, sock, handle, handlers, cmts>>

\* .. and then self->connection = 0, self->uuid_received = false; the bytes
\* of the handle stay.
Forget ==
    /\ pc = "closed"
    /\ connection' = FALSE
    /\ uuid_received' = FALSE
    /\ pc' = "retry"
    /\ UNCHANGED <<booted, sock, handle, handlers, cmts>>

Serve == KeepAlive \/ Ignore \/ ClientClose \/ Forget

-----------------------------------------------------------------------------
(* A handler in ps_proxy.                                                  *)

\* cops_handle(ctl_hnd, self->handle).
Build(h) ==
    /\ hpc[h] = "idle"
    /\ booted
    /\ ctl_hnd' = [ctl_hnd EXCEPT ![h] = handle]
    /\ hpc' = [hpc EXCEPT ![h] = "built"]
    /\ UNCHANGED <<session, cmts>>

\* sock_write looks at self->connection ..
Test(h) ==
    /\ hpc[h] = "built"
    /\ hpc' = [hpc EXCEPT ![h] = IF connection THEN "write" ELSE "idle"]
    /\ UNCHANGED <<session, ctl_hnd, cmts>>

\* .. and then writes to self->sock.
Send(h) ==
    /\ hpc[h] = "write"
    /\ link[sock] = "up" => Len(down[sock]) < MaxQueue
    /\ down' = Written(Message("DEC", ctl_hnd[h]))
    /\ hpc' = [hpc EXCEPT ![h] = "idle"]
    /\ UNCHANGED <<session, ctl_hnd, link, done, awaits, up>>

Proxy(h) == Build(h) \/ Test(h) \/ Send(h)

-----------------------------------------------------------------------------
(* The CMTS, on connection k.                                              *)

Step(k, name) ==
    /\ link[k] = "up"
    /\ name \notin done[k]
    /\ "cc" \notin done[k]
    /\ done' = [done EXCEPT ![k] = @ \cup {name}]

Connected(k) ==
    /\ link[k] = "syn"
    /\ link' = [link EXCEPT ![k] = "up"]
    /\ UNCHANGED <<session, handlers, done, awaits, up, down>>

\* The CMTS refuses the connection, or it breaks: recv finds no data, as if
\* there were none yet.  The last connection is spared, like by every
\* time-out and Client-Close: in the end the CMTS is well.
Break(k) ==
    /\ k < MaxConn
    /\ link[k] \in {"syn", "up"}
    /\ link' = [link EXCEPT ![k] = "down"]
    /\ UNCHANGED <<session, handlers, done, awaits, up, down>>

SendOpen(k) ==
    /\ Step(k, "opn")
    /\ up' = [up EXCEPT ![k] = Append(@, Message("OPN", 0))]
    /\ UNCHANGED <<session, handlers, link, awaits, down>>

ReadAccept(k) ==
    /\ down[k] # <<>>
    /\ Head(down[k]).op = "CAT"
    /\ Step(k, "cat")
    /\ down' = [down EXCEPT ![k] = Tail(@)]
    /\ UNCHANGED <<session, handlers, link, awaits, up>>

SendRequest(k) ==
    /\ {"opn", "cat"} \subseteq done[k]
    /\ Step(k, "req")
    /\ up' = [up EXCEPT ![k] = Append(@, Message("REQ", k))]
    /\ UNCHANGED <<session, handlers, link, awaits, down>>

\* A decision is answered by a report with its handle.
ReadDecision(k) ==
    /\ link[k] = "up"
    /\ down[k] # <<>>
    /\ Head(down[k]).op = "DEC"
    /\ Len(up[k]) < MaxQueue
    /\ down' = [down EXCEPT ![k] = Tail(@)]
    /\ up' = IF "cc" \in done[k] \/ (Strict /\ "req" \notin done[k])
             THEN up ELSE [up EXCEPT ![k] = Append(@, Message("RPT", Head(down[k]).handle))]
    /\ UNCHANGED <<session, handlers, link, done, awaits>>

SendKeepAlive(k) ==
    /\ link[k] = "up"
    /\ "cat" \in done[k]
    /\ "cc" \notin done[k]
    /\ ~awaits[k]
    /\ Len(up[k]) < MaxQueue
    /\ awaits' = [awaits EXCEPT ![k] = TRUE]
    /\ up' = [up EXCEPT ![k] = Append(@, Message("KA", 0))]
    /\ UNCHANGED <<session, handlers, link, done, down>>

ReadKeepAlive(k) ==
    /\ link[k] = "up"
    /\ down[k] # <<>>
    /\ Head(down[k]).op = "KA"
    /\ down' = [down EXCEPT ![k] = Tail(@)]
    /\ awaits' = [awaits EXCEPT ![k] = FALSE]
    /\ UNCHANGED <<session, handlers, link, done, up>>

SendClose(k) ==
    /\ k < MaxConn
    /\ Step(k, "cc")
    /\ up' = [up EXCEPT ![k] = Append(@, Message("CC", 0))]
    /\ UNCHANGED <<session, handlers, link, awaits, down>>

Handshake(k) ==
    Connected(k) \/ SendOpen(k) \/ ReadAccept(k) \/ SendRequest(k)

Cmts(k) ==
    \/ Handshake(k) \/ ReadDecision(k)
    \/ SendKeepAlive(k) \/ ReadKeepAlive(k)
    \/ SendClose(k) \/ Break(k)

Next ==
    \/ Admission
    \/ Serve
    \/ \E h \in Handlers : Proxy(h)
    \/ \E k \in Conns : Cmts(k)

Spec == Init /\ [][Next]_vars

\* The thread of the session runs and its time-outs expire; a CMTS makes the
\* steps of the handshake and reads.  It need not send keep-alives or close,
\* and no one has to ask for gates.
Fairness ==
    /\ WF_vars(Admission)
    /\ WF_vars(Serve)
    /\ \A k \in Conns :
          /\ WF_vars(Handshake(k))
          /\ WF_vars(ReadDecision(k) \/ ReadKeepAlive(k))

FairSpec == Spec /\ Fairness

-----------------------------------------------------------------------------
(* Properties.                                                             *)

\* While the server serves a connection it knows the handle that this very
\* connection was given, whatever earlier connections left behind.
ServedHandle ==
    pc = "serve" => uuid_received /\ handle = sock /\ "req" \in done[sock]

\* A decision names a handle that the CMTS has given the server.
GivenHandle ==
    \A k \in Conns : \A i \in 1 .. Len(down[k]) :
        down[k][i].op = "DEC" =>
            /\ down[k][i].handle \in 1 .. k
            /\ "req" \in done[down[k][i].handle]

\* A keep-alive that reaches the server while it serves is echoed, unless the
\* connection ends first.
KeepAliveEchoed ==
    (pc = "serve" /\ \E i \in 1 .. Len(up[sock]) : up[sock][i].op = "KA")
        ~> (sock \in Conns /\ (~awaits[sock] \/ link[sock] = "down"))

\* After a Client-Close the CMTS is served again, with a handle it has given
\* after the close.
Readmitted == (pc = "closed") ~> (pc = "serve" /\ uuid_received)

\* ps.c on sock_keepalive: keep-alives tell each side whether the connection
\* still functions.  The server notices when it does not.
BreakNoticed ==
    \A k \in Conns :
        (pc = "serve" /\ sock = k /\ link[k] = "down") ~> ~(pc = "serve" /\ sock = k)

=============================================================================
