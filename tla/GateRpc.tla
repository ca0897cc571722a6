------------------------------ MODULE GateRpc ------------------------------
(***************************************************************************)
(* What POST/GET/DELETE of a gate promises its caller, without the files   *)
(* and threads in between: each request is answered at most once, and only *)
(* with one whole report that a CMTS gave about that very request; or it   *)
(* fails.  ReportDelivery implements it when transaction ids do not repeat.*)
(***************************************************************************)
CONSTANTS
    Requests,   \* gate requests
    Reports     \* reports, with the request each is about

VARIABLES
    state,      \* what the caller sees of a request
    given,      \* the reports that CMTSs have given
    answer      \* the reports in the answer

vars == <<state, given, answer>>

Init ==
    /\ state = [r \in Requests |-> "new"]
    /\ given = {}
    /\ answer = [r \in Requests |-> {}]

Ask(r) ==
    /\ state[r] = "new"
    /\ state' = [state EXCEPT ![r] = "waiting"]
    /\ UNCHANGED <<given, answer>>

\* A CMTS reports, perhaps late and perhaps again.
Give(report) ==
    /\ state[report.about] # "new"
    /\ given' = given \cup {report}
    /\ UNCHANGED <<state, answer>>

Reply(r) ==
    /\ state[r] = "waiting"
    /\ \E report \in given :
          /\ report.about = r
          /\ answer' = [answer EXCEPT ![r] = {report}]
    /\ state' = [state EXCEPT ![r] = "answered"]
    /\ UNCHANGED given

\* A time-out fails one request, a restart of the server all that wait.
Fail(failed) ==
    /\ \A r \in failed : state[r] = "waiting"
    /\ state' = [r \in Requests |-> IF r \in failed THEN "failed" ELSE state[r]]
    /\ UNCHANGED <<given, answer>>

Next ==
    \/ \E r \in Requests : Ask(r) \/ Reply(r)
    \/ \E report \in Reports : Give(report)
    \/ \E failed \in SUBSET Requests : Fail(failed)

Spec == Init /\ [][Next]_vars
=============================================================================
