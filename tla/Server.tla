------------------------------- MODULE Server -------------------------------
(***************************************************************************)
(* The life of the process: main reads the options (Configuration), empties*)
(* the directories of what a former life has left, starts the web API with *)
(* its table of sessions (gctl_webapi_init, lcm_init), connects to the     *)
(* CMTSs of the file of settings, waits for a line on the terminal, and    *)
(* stops.  From ulfius_start_framework to ulfius_stop_framework threads of *)
(* the web framework serve requests.                                       *)
(*                                                                         *)
(* A connect is here as far as start and stop are concerned with it: the   *)
(* tests, the admission, and the two parts of lcm_set.  How connects and   *)
(* clears interleave is module LocalConnectionManager; no clear comes here. *)
(* The resource control file data/.connectrc is that of a build with       *)
(* RCFILE, which the Makefile does not define by itself.                    *)
(***************************************************************************)
EXTENDS Configuration

CONSTANTS
    Main,        \* the main thread
    Handlers,    \* the threads of the web framework
    Addresses,   \* what requests ask to connect to
    Reachable,   \* the CMTSs that can be admitted
    MaxRoom,     \* MAXROOM
    MaxRequests  \* bound: requests of clients

ASSUME ServerAssumption ==
    /\ Main \notin Handlers /\ "free" \notin {Main} \union Handlers
    /\ MaxRoom \in Nat /\ MaxRequests \in Nat

Threads  == {Main} \union Handlers
Garbage == {"thread log", "report"}   \* what conf_clean_dirs removes

VARIABLES
    phase,     \* where main is
    files,     \* the files in logs/ and data/
    orphan,    \* whether data/__orphan__ holds entries of a former life
    lcm,       \* the table: not there, live or freed
    connected, \* the CMTSs in it, in order; its length is lcm->count
    rcfile,    \* whether .connectrc is there
    rows,      \* its rows behind the header
    unwritten, \* the connects for which rcw_row has written none
    lock,      \* lcm_internal_lock
    stage, ip, \* where each thread is in gctl_connect, and its address
    tried,     \* how many connects of `preflight' are made
    refused,   \* those of main that found no room
    requests,  \* the requests of clients so far
    stale,     \* some thread has used the table when it was not there
    calm       \* clients come one at a time, after the start and before the stop

server_vars == <<phase, files, orphan, lcm, connected, rcfile, rows, unwritten, lock, stage, ip,
                 tried, refused, requests, stale, calm>>
rc    == <<rcfile, rows, unwritten>>
table == <<lcm, connected, rc, lock>>
main  == <<phase, files, orphan, tried>>

\* A row of .connectrc; of a former life the address does not matter.
Row(n, a) == [count |-> n, cmts_ip |-> a]

ServerTypeOK ==
    /\ ConfTypeOK
    /\ phase \in {"conf", "clean", "init", "start", "preflight", "serve", "stop", "end"}
    /\ files \subseteq Garbage /\ orphan \in BOOLEAN
    /\ lcm \in {"none", "live", "freed"}
    /\ rcfile \in BOOLEAN
    /\ lock \in Threads \union {"free"}
    /\ stage \in [Threads -> {"idle", "check", "admit", "row", "count"}]
    /\ tried \in 0 .. Len(preflight)
    /\ requests \in 0 .. MaxRequests

ServerInit ==
    /\ ConfInit
    /\ phase = "conf"
    /\ files \in SUBSET Garbage /\ orphan \in BOOLEAN
    /\ lcm = "none"
    /\ connected = <<>> /\ unwritten = {}
    /\ rcfile \in BOOLEAN /\ rows \in {<<>>, <<Row(1, Null)>>}
    /\ rows # <<>> => rcfile
    /\ lock = "free"
    /\ stage = [t \in Threads |-> "idle"]
    /\ ip = [t \in Threads |-> Null]
    /\ tried = 0 /\ refused = {}
    /\ requests = 0
    /\ stale = FALSE
    /\ calm \in BOOLEAN

-----------------------------------------------------------------------------
(* main.                                                                   *)

Configure == phase = "conf" /\ ConfNext /\ UNCHANGED server_vars

\* global_logconf and what follows, or the end of the process.
Configured ==
    /\ phase = "conf" /\ conf \in {"read", "abort", "exit"}
    /\ phase' = IF conf = "read" THEN "clean" ELSE "end"
    /\ UNCHANGED <<conf_vars, files, orphan, table, stage, ip, tried, refused, requests, stale, calm>>

\* conf_clean_dirs: one file, which may be one that cannot be removed.
CleanFile ==
    /\ phase = "clean"
    /\ \E f \in files :
        \/ files' = files \ {f} /\ UNCHANGED phase
        \/ phase' = "end" /\ UNCHANGED files
    /\ UNCHANGED <<conf_vars, orphan, table, stage, ip, tried, refused, requests, stale, calm>>

\* conf_clean_dangling_log, and on to the unit tests or the server.
CleanEnd ==
    /\ phase = "clean" /\ files = {}
    /\ orphan' = FALSE
    /\ phase' = IF mode = "server" THEN "init" ELSE "end"
    /\ UNCHANGED <<conf_vars, files, table, stage, ip, tried, refused, requests, stale, calm>>

-----------------------------------------------------------------------------
(* gctl_webapi_init.                                                       *)

\* rc_init: the file is emptied and has its header written.  One that is there
\* and cannot be opened is closed all the same, which ends the process; when
\* the header cannot be written that is logged, and lcm_init goes on.
RcInit ==
    /\ rows' = <<>>
    /\ rcfile' \in {rcfile, TRUE}
    /\ UNCHANGED unwritten
RcInitDies == rcfile /\ phase' = "end" /\ UNCHANGED rc

\* lcm_init: .connectrc, and then the limit is tested.
LcmInit ==
    /\ phase = "init"
    /\ \/ RcInitDies /\ UNCHANGED lcm
       \/ /\ RcInit
          /\ IF opts.max_pep > MaxRoom
             THEN phase' = "end" /\ UNCHANGED lcm
             ELSE phase' = "start" /\ lcm' = "live"
    /\ UNCHANGED <<conf_vars, files, orphan, connected, lock, stage, ip, tried, refused, requests, stale, calm>>

\* ulfius_start_framework may fail; from here on requests come.
StartFramework ==
    /\ phase = "start"
    /\ phase' \in {"preflight", "end"}
    /\ UNCHANGED <<conf_vars, files, orphan, table, stage, ip, tried, refused, requests, stale, calm>>

Preflight ==
    /\ phase = "preflight" /\ tried < Len(preflight) /\ stage[Main] = "idle"
    /\ stage' = [stage EXCEPT ![Main] = "check"]
    /\ ip' = [ip EXCEPT ![Main] = preflight[tried + 1]]
    /\ tried' = tried + 1
    /\ UNCHANGED <<conf_vars, phase, files, orphan, table, refused, requests, stale, calm>>

PreflightEnd ==
    /\ phase = "preflight" /\ tried = Len(preflight) /\ stage[Main] = "idle"
    /\ phase' = "serve"
    /\ UNCHANGED <<conf_vars, files, orphan, table, stage, ip, tried, refused, requests, stale, calm>>

\* The line on the terminal; kfree(lcm), while requests may still be there.
FreeTable ==
    /\ phase = "serve"
    /\ calm => \A h \in Handlers : stage[h] = "idle"
    /\ lcm' = "freed"
    /\ phase' = "stop"
    /\ UNCHANGED <<conf_vars, files, orphan, connected, rc, lock, stage, ip, tried, refused, requests, stale, calm>>

\* ulfius_stop_framework waits for the requests that are being served.
StopFramework ==
    /\ phase = "stop"
    /\ \A h \in Handlers : stage[h] = "idle"
    /\ phase' = "end"
    /\ UNCHANGED <<conf_vars, files, orphan, table, stage, ip, tried, refused, requests, stale, calm>>

-----------------------------------------------------------------------------
(* gctl_connect, by main or by a thread of the framework.                  *)

Request(h, a) ==
    /\ phase \in {"preflight", "serve", "stop"}
    /\ stage[h] = "idle" /\ requests < MaxRequests
    /\ calm => phase = "serve" /\ \A t \in Threads : stage[t] = "idle"
    /\ requests' = requests + 1
    /\ stage' = [stage EXCEPT ![h] = "check"]
    /\ ip' = [ip EXCEPT ![h] = a]
    /\ UNCHANGED <<conf_vars, main, table, refused, stale, calm>>

Leave(t) == stage' = [stage EXCEPT ![t] = "idle"]
Goto(t, s) == stage' = [stage EXCEPT ![t] = s]

\* count >= maxpep, two of size_t: a negative limit is never reached.
NoRoom == opts.max_pep >= 0 /\ Len(connected) >= opts.max_pep

\* lcm_getps and lcm_alloc_ok.  A table that was freed may say anything.
Check(t) ==
    /\ stage[t] = "check"
    /\ stale' = (stale \/ lcm # "live")
    /\ lock = "free"
    /\ IF lcm = "live" /\ (NoRoom \/ \E n \in DOMAIN connected : connected[n] = ip[t])
       THEN /\ Leave(t)
            /\ refused' = IF t = Main /\ NoRoom /\ \A n \in DOMAIN connected : connected[n] # ip[t]
                          THEN refused \union {ip[t]} ELSE refused
       ELSE /\ Goto(t, "admit") \/ (lcm # "live" /\ Leave(t))
            /\ UNCHANGED refused
    /\ UNCHANGED <<conf_vars, main, table, ip, requests, calm>>

\* ps_admctl and ps_boot: a CMTS that is reachable may still fail.
Admit(t) ==
    /\ stage[t] = "admit"
    /\ Leave(t) \/ (ip[t] \in Reachable /\ Goto(t, "row"))
    /\ UNCHANGED <<conf_vars, main, table, ip, refused, requests, stale, calm>>

\* rcw_row, with count + 1 for a number.  It may write nothing: the file is not
\* opened, or what is behind fprintf fails without being asked.  lcm_set logs
\* what it is told and counts the client all the same.
RcwRow(t) ==
    \/ /\ rows' = Append(rows, Row(Len(connected) + 1, ip[t]))
       /\ rcfile' = TRUE /\ UNCHANGED unwritten
    \/ /\ unwritten' = unwritten \union {Len(connected) + 1}
       /\ rcfile' \in {rcfile, TRUE} /\ UNCHANGED rows

\* Mutant of SetRow: lcm_internal_lock is not taken.
SetRow_unlocked(t) ==
    /\ stage[t] = "row"
    /\ stale' = (stale \/ lcm # "live")
    /\ lock' = t
    /\ RcwRow(t)
    /\ Goto(t, "count")
    /\ UNCHANGED <<conf_vars, main, lcm, connected, ip, refused, requests, calm>>

\* lcm_set: clients[i] and the row of the resource control file.
SetRow(t) ==
    /\ stage[t] = "row" /\ lock = "free"
    /\ stale' = (stale \/ lcm # "live")
    /\ lock' = t
    /\ RcwRow(t)
    /\ Goto(t, "count")
    /\ UNCHANGED <<conf_vars, main, lcm, connected, ip, refused, requests, calm>>

\* lcm_set: ++count.
SetCount(t) ==
    /\ stage[t] = "count"
    /\ stale' = (stale \/ lcm # "live")
    /\ connected' = Append(connected, ip[t])
    /\ lock' = "free"
    /\ Leave(t)
    /\ UNCHANGED <<conf_vars, main, lcm, rc, ip, refused, requests, calm>>

Connecting(t) == Check(t) \/ Admit(t) \/ SetRow(t) \/ SetCount(t)

MainStep ==
    \/ Configure \/ Configured \/ CleanFile \/ CleanEnd
    \/ LcmInit \/ StartFramework \/ Preflight \/ PreflightEnd
    \/ StopFramework
    \/ Connecting(Main)

ServerNext ==
    \/ MainStep
    \/ FreeTable
    \/ \E h \in Handlers : Connecting(h) \/ \E a \in Addresses : Request(h, a)

ServerSpec == ServerInit /\ [][ServerNext]_<<conf_vars, server_vars>>

-----------------------------------------------------------------------------
(* Properties.                                                             *)

Up == phase \in {"preflight", "serve", "stop"}

\* No request meets a report of a former life: its file would be taken for
\* the answer.  (main, conf_clean_dirs.)
CleanStart == Up => "report" \notin files /\ ~orphan

\* The CMTSs of the file of settings find room, unless a client was faster:
\* the framework runs before they are connected.  (The assertion at the end
\* of conf_read_file, lcm_alloc_ok, gctl_webapi_init.)
PreflightHasRoom == refused # {} => requests > 0

\* The server comes up as its settings say, and takes nothing over.
StartOK == CleanStart /\ PreflightHasRoom

\* Clients that come one at a time never fill clients[] beyond its end, if
\* the limit is not negative.  (conf_argparse_opt, lcm_init, lcm_alloc_ok.)
RoomForAll == calm /\ opts.max_pep >= 0 => Len(connected) <= MaxRoom

\* The number n of .connectrc is that of the CMTS a: it has been counted, or
\* is about to be by the thread that holds lcm_internal_lock.
Numbered(n, a) ==
    \/ n \in DOMAIN connected /\ connected[n] = a
    \/ n = Len(connected) + 1 /\ lock # "free" /\ stage[lock] = "count" /\ ip[lock] = a

\* Whenever the process dies, its resource control file has the CMTSs of the
\* table under the places they have in it, in their order and none twice, with
\* at most the one of a connect that is being made besides.  A CMTS without a
\* row is one whose row could not be written: nothing else tells of that, as
\* the connect succeeds.  (lcm_set, rcw_row, rc_init, lcm_internal_lock.)
RowsMatch ==
    Up /\ ~stale =>
        /\ \A k \in DOMAIN rows : Numbered(rows[k].count, rows[k].cmts_ip)
        /\ \A j, k \in DOMAIN rows : j < k => rows[j].count < rows[k].count
        /\ \A n \in DOMAIN connected : n \in unwritten \/ \E k \in DOMAIN rows : rows[k].count = n

\* No thread meets a table that is not there before the server is stopped,
\* whenever the first request comes and whatever the settings say.
\* (lcm_init, gctl_webapi_init.)
TableThere == stale => phase \in {"stop", "end"}

\* The table of sessions from its making to its end.
TableOK == RoomForAll /\ RowsMatch /\ TableThere
=============================================================================
