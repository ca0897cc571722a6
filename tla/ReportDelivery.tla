--------------------------- MODULE ReportDelivery ---------------------------
(***************************************************************************)
(* How the report of a CMTS reaches the API request that caused it.        *)
(*                                                                         *)
(* The handler of a gate request (gctl_04, gctl_request) has ps_proxy send *)
(* a decision under a transaction id from rand(), and then polls for the   *)
(* file data/yrpt_<id>.txt for 15 seconds.  The session thread of the CMTS *)
(* writes that file when a report with the id arrives.  Nothing else ties  *)
(* the two together: there is no lock, and no record of the ids in use.    *)
(*                                                                         *)
(* A report is one message of a CMTS about one request.  A file is named   *)
(* by the report whose fopen created it: removing the name of a file that  *)
(* another thread has open leaves that thread a file nobody can find.      *)
(***************************************************************************)
EXTENDS Naturals, Sequences

CONSTANTS
    Requests,   \* the gate requests the server is asked for
    Cmts,       \* the CMTSs it is connected to, each with a session thread
    MaxTxn,     \* the largest transaction id; 65535 in the code
    MaxReports, \* how often a CMTS reports about one request, at most
    None        \* no file, no report, no CMTS

ASSUME SizeAssumption == MaxTxn \in Nat /\ MaxReports \in Nat

ASSUME NoneIsNothing ==
    /\ None \notin Cmts
    /\ None \notin Nat
    /\ None \notin [about : Requests, nth : Nat]

TxnIds  == 0 .. MaxTxn
Reports == [about : Requests, nth : 1 .. MaxReports]

\* "ack" carries a gate id, "err" none; "state" is a gate-state report whose
\* reason is one pcmm_gatestate_rpt knows.
Kinds == {"ack", "err", "state"}

VARIABLES
    pc,         \* where the handler of each request is
    txn,        \* its transaction id
    fp,         \* the file it has open
    response,   \* what it has read: the reports of which it is made
    dir,        \* the directory data/: the file under each id's name
    data,       \* the contents of each file: the reports written to it
    asked,      \* the requests each CMTS has got on its connection
    sent,       \* the reports sent by the CMTSs so far
    wire,       \* the reports on their way to each session thread
    writing,    \* the report a session thread is writing
    file        \* the file it has open

requests == <<pc, txn, fp, response>>
files    == <<dir, data>>
network  == <<asked, sent, wire>>
threads  == <<writing, file>>
vars     == <<pc, txn, fp, response, dir, data, asked, sent, wire, writing, file>>

Waiting(r) == pc[r] \in {"open", "read", "remove"}

TypeOK ==
    /\ pc \in [Requests -> {"new", "open", "read", "remove", "answered", "failed"}]
    /\ txn \in [Requests -> TxnIds \cup {None}]
    /\ fp \in [Requests -> Reports \cup {None}]
    /\ response \in [Requests -> SUBSET Reports]
    /\ dir \in [TxnIds -> Reports \cup {None}]
    /\ data \in [Reports -> SUBSET Reports]
    /\ asked \in [Cmts -> SUBSET Requests]
    /\ sent \subseteq Reports
    /\ wire \in [Cmts -> Seq([report : Reports, kind : Kinds])]
    /\ writing \in [Cmts -> Reports \cup {None}]
    /\ file \in [Cmts -> Reports \cup {None}]

Init ==
    /\ pc = [r \in Requests |-> "new"]
    /\ txn = [r \in Requests |-> None]
    /\ fp = [r \in Requests |-> None]
    /\ response = [r \in Requests |-> {}]
    /\ dir = [t \in TxnIds |-> None]
    /\ data = [m \in Reports |-> {}]
    /\ asked = [c \in Cmts |-> {}]
    /\ sent = {}
    /\ wire = [c \in Cmts |-> <<>>]
    /\ writing = [c \in Cmts |-> None]
    /\ file = [c \in Cmts |-> None]

-----------------------------------------------------------------------------
(* The handler of a gate request.                                          *)

\* ps_proxy.  sock_write is silent when the session has no connection, so the
\* handler polls whether or not the decision has left.
Proxy(r) ==
    /\ pc[r] = "new"
    /\ \E t \in TxnIds : txn' = [txn EXCEPT ![r] = t]
    /\ \E c \in Cmts :
          \/ asked' = [asked EXCEPT ![c] = @ \cup {r}]
          \/ UNCHANGED asked                            \* WARN_BROKEN_PIPE
    /\ pc' = [pc EXCEPT ![r] = "open"]
    /\ UNCHANGED <<fp, response, files, sent, wire, threads>>

\* One poll of gctl_async_get_decision that finds the file: fopen.
Open(r) ==
    /\ pc[r] = "open"
    /\ dir[txn[r]] # None
    /\ fp' = [fp EXCEPT ![r] = dir[txn[r]]]
    /\ pc' = [pc EXCEPT ![r] = "read"]
    /\ UNCHANGED <<txn, response, files, network, threads>>

\* Mutants of Read: the file is removed before it is known to be complete; an
\* empty file is taken for the report.
Read_removes(r) ==
    /\ pc[r] = "read"
    /\ response' = [response EXCEPT ![r] = data[fp[r]]]
    /\ pc' = [pc EXCEPT ![r] = IF data[fp[r]] = {} THEN "open" ELSE "remove"]
    /\ fp' = [fp EXCEPT ![r] = None]
    /\ dir' = [dir EXCEPT ![txn[r]] = None]
    /\ UNCHANGED <<txn, data, network, threads>>

Read_takes_empty(r) ==
    /\ pc[r] = "read"
    /\ response' = [response EXCEPT ![r] = data[fp[r]]]
    /\ pc' = [pc EXCEPT ![r] = "remove"]
    /\ fp' = [fp EXCEPT ![r] = None]
    /\ UNCHANGED <<txn, files, network, threads>>

\* fgets, fclose; an empty file is tried again.
Read(r) ==
    /\ pc[r] = "read"
    /\ response' = [response EXCEPT ![r] = data[fp[r]]]
    /\ pc' = [pc EXCEPT ![r] = IF data[fp[r]] = {} THEN "open" ELSE "remove"]
    /\ fp' = [fp EXCEPT ![r] = None]
    /\ UNCHANGED <<txn, files, network, threads>>

\* remove(filename), then json_frommsg.
Remove(r) ==
    /\ pc[r] = "remove"
    /\ dir' = [dir EXCEPT ![txn[r]] = None]
    /\ pc' = [pc EXCEPT ![r] = "answered"]
    /\ UNCHANGED <<txn, fp, response, data, network, threads>>

\* The 15 seconds are over at the top of the loop: json_err(ETIMEOUT).
TimeOut(r) ==
    /\ pc[r] = "open"
    /\ pc' = [pc EXCEPT ![r] = "failed"]
    /\ UNCHANGED <<txn, fp, response, files, network, threads>>

-----------------------------------------------------------------------------
(* The CMTSs and the connections to them.                                  *)

\* A CMTS reports about a request it got: in any order, soon or late, and
\* perhaps more than once.
Report(c) ==
    /\ \E r \in asked[c], n \in 1 .. MaxReports, k \in Kinds :
          LET m == [about |-> r, nth |-> n] IN
          /\ m \notin sent
          /\ sent' = sent \cup {m}
          /\ wire' = [wire EXCEPT ![c] = Append(@, [report |-> m, kind |-> k])]
    /\ UNCHANGED <<requests, files, asked, threads>>

\* The connection breaks: what was under way is lost.
Disconnect(c) ==
    /\ asked' = [asked EXCEPT ![c] = {}]
    /\ wire' = [wire EXCEPT ![c] = <<>>]
    /\ UNCHANGED <<requests, files, sent, threads>>

-----------------------------------------------------------------------------
(* A session thread: ps_recvd, ps_pcmm_report, ps_pcmm_report_decision.    *)

Received(c) == Head(wire[c])

TxnOf(m) == txn[m.about]

\* A report with id 0 and a gate id is taken for an orphan.
Orphan(msg) == TxnOf(msg.report) = 0 /\ msg.kind = "ack"

\* No file: a gate-state report, an orphan, or fopen failed.
Discard(c) ==
    /\ writing[c] = None
    /\ wire[c] # <<>>
    /\ wire' = [wire EXCEPT ![c] = Tail(@)]
    /\ UNCHANGED <<requests, files, asked, sent, threads>>

\* fopen(.., "w"): the file is created, or emptied if the name is there.
Create(c) ==
    /\ writing[c] = None
    /\ wire[c] # <<>>
    /\ Received(c).kind # "state"
    /\ ~Orphan(Received(c))
    /\ LET m == Received(c).report
           t == TxnOf(m)
           f == IF dir[t] = None THEN m ELSE dir[t]
       IN  /\ dir' = [dir EXCEPT ![t] = f]
           /\ data' = [data EXCEPT ![f] = {}]
           /\ file' = [file EXCEPT ![c] = f]
           /\ writing' = [writing EXCEPT ![c] = m]
    /\ wire' = [wire EXCEPT ![c] = Tail(@)]
    /\ UNCHANGED <<requests, asked, sent>>

\* Mutant of Write: the report is not flushed before the stream is dropped.
Write_unflushed(c) ==
    /\ writing[c] # None
    /\ writing' = [writing EXCEPT ![c] = None]
    /\ file' = [file EXCEPT ![c] = None]
    /\ UNCHANGED <<requests, files, network>>

\* write_report, which flushes, and fclose.  Two threads with the file open
\* write over one another.
Write(c) ==
    /\ writing[c] # None
    /\ data' = [data EXCEPT ![file[c]] = @ \cup {writing[c]}]
    /\ writing' = [writing EXCEPT ![c] = None]
    /\ file' = [file EXCEPT ![c] = None]
    /\ UNCHANGED <<requests, dir, network>>

-----------------------------------------------------------------------------

\* Mutant of Restart: the report files of the last life are not removed.
Restart_keeps_files ==
    /\ pc' = [r \in Requests |-> IF Waiting(r) THEN "failed" ELSE pc[r]]
    /\ txn' = [r \in Requests |-> None]
    /\ fp' = [r \in Requests |-> None]
    /\ asked' = [c \in Cmts |-> {}]
    /\ wire' = [c \in Cmts |-> <<>>]
    /\ writing' = [c \in Cmts |-> None]
    /\ file' = [c \in Cmts |-> None]
    /\ UNCHANGED <<response, files, sent>>

\* The server stops and starts again.  conf_clean_dirs removes the report
\* files of its last life; rand() may give the same ids again.
Restart ==
    /\ pc' = [r \in Requests |-> IF Waiting(r) THEN "failed" ELSE pc[r]]
    /\ txn' = [r \in Requests |-> None]
    /\ fp' = [r \in Requests |-> None]
    /\ dir' = [t \in TxnIds |-> None]
    /\ data' = [m \in Reports |-> {}]
    /\ asked' = [c \in Cmts |-> {}]
    /\ wire' = [c \in Cmts |-> <<>>]
    /\ writing' = [c \in Cmts |-> None]
    /\ file' = [c \in Cmts |-> None]
    /\ UNCHANGED <<response, sent>>

Request(r) == Proxy(r) \/ Open(r) \/ Read(r) \/ Remove(r) \/ TimeOut(r)

Connection(c) == Report(c) \/ Disconnect(c) \/ Discard(c) \/ Create(c) \/ Write(c)

Next ==
    \/ \E r \in Requests : Request(r)
    \/ \E c \in Cmts : Connection(c)
    \/ Restart

Spec == Init /\ [][Next]_vars

(***************************************************************************)
(* rand() gives an id below 65536 that may repeat, or be 0.  Ids are fresh *)
(* when neither has happened since the server started.                     *)
(***************************************************************************)
FreshIds ==
    \A q, r \in Requests :
        txn[r] # None => txn[r] # 0 /\ (q # r => txn[q] # txn[r])

FreshSpec == Init /\ [][Next /\ FreshIds']_vars

\* Threads run.  No request is made to wait longer or shorter than it likes:
\* nothing is assumed of TimeOut, or of the CMTSs.
Fairness ==
    /\ \A r \in Requests : WF_vars(Open(r) \/ Read(r) \/ Remove(r))
    /\ \A c \in Cmts : WF_vars(Write(c))

FairFreshSpec == FreshSpec /\ Fairness

-----------------------------------------------------------------------------
(* Properties, when ids are fresh.                                         *)

\* An answered request has read one whole report, about itself: not an empty
\* file, not two reports mixed, not what an earlier request left behind.
OwnAnswer ==
    \A r \in Requests :
        pc[r] = "answered" =>
            \E n \in 1 .. MaxReports : response[r] = {[about |-> r, nth |-> n]}

\* The file that the handler of r polls for holds, or is being given, a
\* report about r.
InReach(r) ==
    /\ txn[r] # None
    /\ dir[txn[r]] # None
    /\ \E m \in Reports :
          /\ m.about = r
          /\ \/ m \in data[dir[txn[r]]]
             \/ \E c \in Cmts : writing[c] = m /\ file[c] = dir[txn[r]]

\* Once a report is in reach of its request it stays so for as long as the
\* request waits: no reader or writer takes it away.
ReportStays ==
    [][\A r \in Requests : Waiting(r) /\ InReach(r) /\ Waiting(r)' => InReach(r)']_vars

\* A request whose file exists does not wait for ever.
FileEndsWait ==
    \A r \in Requests :
        (Waiting(r) /\ dir[txn[r]] # None) ~> ~Waiting(r)

\* The answers are those of the abstract request.
Rpc == INSTANCE GateRpc WITH
    state  <- [r \in Requests |-> IF Waiting(r) THEN "waiting" ELSE pc[r]],
    given  <- sent,
    answer <- [r \in Requests |-> IF pc[r] = "answered" THEN response[r] ELSE {}]

ImplementsRpc == Rpc!Spec

=============================================================================
