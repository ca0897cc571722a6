----------------------------- MODULE Descriptors -----------------------------
(***************************************************************************)
(* The file descriptors of the process, which all threads share: a number  *)
(* that is closed is given to the next thread that opens something.  The   *)
(* code closes a number twice in two places: POST /clear and a first       *)
(* admission whose select fails call sock_close, and ps_free then calls it *)
(* again (ps.c:706 counts on a warning).                                   *)
(*                                                                         *)
(* sock_close looks at the descriptor (fstat, S_ISSOCK) and closes it      *)
(* later.  If the number is closed already, fstat fails and the answer is  *)
(* read from an uninitialized buffer: either may follow.                   *)
(***************************************************************************)
EXTENDS Naturals, FiniteSets

CONSTANTS
    Sessions,  \* ps_session_t objects, each made once
    Openers,     \* threads that open a file for a while (report, error log)
    Nobody,    \* the owner of a number that is not open
    Numbers,   \* the descriptors there are
    MaxDials   \* bound: connections of a session

ASSUME DescAssumption ==
    /\ Numbers \subseteq Nat \ {0} /\ IsFiniteSet(Numbers) /\ MaxDials \in Nat
    /\ Nobody \notin Sessions \union Openers /\ Sessions \intersect Openers = {}

VARIABLES
    fd,         \* whose each number is
    at,         \* where each session is
    sock,       \* self->sock, 0 for the -1 of ps_new
    connection, \* self->connection
    dials,      \* the connections it has tried
    booted,     \* it has had its first admission
    failed,     \* it has had a re-admission that failed after the connect
    file,       \* the number a thread has open, 0 if none
    left,       \* sockets that were left open by such a re-admission
    apart       \* nobody opens anything between the two closes of a number

desc_vars == <<fd, at, sock, connection, dials, booted, failed, file, left, apart>>

\* The places between the first close of a number and its last.
Doomed == {"drop", "free", "freeing"}

Places == {"new", "select", "cut", "cutting", "admit", "serve", "closed",
           "retry", "exited", "ending", "gone"} \union Doomed

DescTypeOK ==
    /\ fd \in [Numbers -> Sessions \union Openers \union {Nobody}]
    /\ at \in [Sessions -> Places]
    /\ sock \in [Sessions -> Numbers \union {0}]
    /\ connection \in [Sessions -> BOOLEAN]
    /\ dials \in [Sessions -> Nat]
    /\ booted \in [Sessions -> BOOLEAN]
    /\ failed \in [Sessions -> BOOLEAN]
    /\ file \in [Openers -> Numbers \union {0}]
    /\ left \subseteq Numbers
    /\ apart \in BOOLEAN

DescInit ==
    /\ fd = [n \in Numbers |-> Nobody]
    /\ at = [s \in Sessions |-> "new"]
    /\ sock = [s \in Sessions |-> 0]
    /\ connection = [s \in Sessions |-> FALSE]
    /\ dials = [s \in Sessions |-> 0]
    /\ booted = [s \in Sessions |-> FALSE]
    /\ failed = [s \in Sessions |-> FALSE]
    /\ file = [f \in Openers |-> 0]
    /\ left = {}
    /\ apart \in BOOLEAN

-----------------------------------------------------------------------------

\* socket, fopen: the lowest number that is free.
MayOpen == apart => \A s \in Sessions : at[s] \notin Doomed

Opened(owner, n) ==
    /\ MayOpen
    /\ fd[n] = Nobody
    /\ \A m \in Numbers : fd[m] = Nobody => n <= m
    /\ fd' = [fd EXCEPT ![n] = owner]

\* close: whoever's the number is.
Closed(n) ==
    /\ fd' = [m \in Numbers |-> IF m = n THEN Nobody ELSE fd[m]]
    /\ left' = left \ {n}

Go(s, place) == at' = [at EXCEPT ![s] = place]

Behind(s) == IF sock[s] = 0 THEN Nobody ELSE fd[sock[s]]

\* sock_close, its first half: fstat.
Look(s, here, socket, other) ==
    /\ at[s] = here
    /\ \E place \in (IF Behind(s) \in Sessions THEN {socket}
                    ELSE IF sock[s] = 0 \/ Behind(s) \in Openers THEN {other}
                    ELSE {socket, other}) : Go(s, place)
    /\ UNCHANGED <<fd, sock, connection, dials, booted, failed, file, left, apart>>

\* ... and its second: shutdown, close.  The answer to the shutdown of a file
\* is ENOTSOCK, which is compared after an entry in the log: it may be lost.
Shut(s, here, then) ==
    /\ at[s] = here
    /\ \/ Closed(sock[s])
       \/ Behind(s) \in Openers /\ UNCHANGED <<fd, left>>
    /\ Go(s, then)
    /\ UNCHANGED <<sock, connection, dials, booted, failed, file, apart>>

-----------------------------------------------------------------------------
(* sock_connect and ps_admctl.                                             *)

\* socket, connect, self->sock = fd.  A socket of a try before this one that
\* is still open is nobody's business any more.
Dial(s) ==
    /\ at[s] \in {"new", "retry"}
    /\ dials[s] < MaxDials
    /\ \E n \in Numbers :
        /\ Opened(s, n)
        /\ sock' = [sock EXCEPT ![s] = n]
    /\ left' = IF sock[s] # 0 /\ fd[sock[s]] = s THEN left \union {sock[s]} ELSE left
    /\ dials' = [dials EXCEPT ![s] = @ + 1]
    /\ Go(s, "select")
    /\ UNCHANGED <<connection, booted, failed, file, apart>>

\* inet_pton or sock_setsockopts fails: the new socket is closed at once, and
\* self->sock stays what it was.
DialFails(s) ==
    /\ at[s] \in {"new", "retry"}
    /\ dials[s] < MaxDials
    /\ dials' = [dials EXCEPT ![s] = @ + 1]
    /\ Go(s, "drop")
    /\ UNCHANGED <<fd, sock, connection, booted, failed, file, left, apart>>

Selected(s) ==
    /\ at[s] = "select"
    /\ connection' = [connection EXCEPT ![s] = TRUE]
    /\ Go(s, "admit")
    /\ UNCHANGED <<fd, sock, dials, booted, failed, file, left, apart>>

SelectFails(s) ==
    /\ at[s] = "select"
    /\ Go(s, "cut")
    /\ UNCHANGED <<fd, sock, connection, dials, booted, failed, file, left, apart>>

\* Mutant: what sock_connect returns is not looked at.
SelectFailed_ignored(s) ==
    /\ at[s] = "drop"
    /\ Go(s, "admit")
    /\ UNCHANGED <<fd, sock, connection, dials, booted, failed, file, left, apart>>

\* sock_connect returned 0: gctl_connect calls ps_free, ps_statemachine tries
\* again.
SelectFailed(s) ==
    /\ at[s] = "drop"
    /\ Go(s, IF booted[s] THEN "retry" ELSE "free")
    /\ UNCHANGED <<fd, sock, connection, dials, booted, failed, file, left, apart>>

Admitted(s) ==
    /\ at[s] = "admit"
    /\ booted' = [booted EXCEPT ![s] = TRUE]
    /\ Go(s, "serve")
    /\ UNCHANGED <<fd, sock, connection, dials, failed, file, left, apart>>

\* Mutant: gctl_connect forgets the session it made.
NotAdmitted_forgets(s) ==
    /\ at[s] = "admit"
    /\ failed' = [failed EXCEPT ![s] = booted[s]]
    /\ Go(s, IF booted[s] THEN "retry" ELSE "gone")
    /\ UNCHANGED <<fd, sock, connection, dials, booted, file, left, apart>>

\* No REQ came: ps_free, or the next try with the socket still open.
NotAdmitted(s) ==
    /\ at[s] = "admit"
    /\ failed' = [failed EXCEPT ![s] = booted[s]]
    /\ Go(s, IF booted[s] THEN "retry" ELSE "free")
    /\ UNCHANGED <<fd, sock, connection, dials, booted, file, left, apart>>

-----------------------------------------------------------------------------
(* ps_statemachine: a Client-Close.                                        *)

CloseSocket(s) ==
    /\ at[s] = "serve"
    /\ Closed(sock[s])
    /\ Go(s, "closed")
    /\ UNCHANGED <<sock, connection, dials, booted, failed, file, apart>>

ResetFields(s) ==
    /\ at[s] = "closed"
    /\ connection' = [connection EXCEPT ![s] = FALSE]
    /\ Go(s, "retry")
    /\ UNCHANGED <<fd, sock, dials, booted, failed, file, left, apart>>

-----------------------------------------------------------------------------
(* gctl_lcm_reset: the thread has ended and is joined; a session that was  *)
(* made in a dry run has no socket.                                        *)

Exit(s) ==
    /\ at[s] = "serve"
    /\ Go(s, "exited")
    /\ UNCHANGED <<fd, sock, connection, dials, booted, failed, file, left, apart>>

DryRun(s) ==
    /\ at[s] = "new" /\ sock[s] = 0
    /\ booted' = [booted EXCEPT ![s] = TRUE]
    /\ Go(s, "exited")
    /\ UNCHANGED <<fd, sock, connection, dials, failed, file, left, apart>>

-----------------------------------------------------------------------------
(* A thread opens and closes a file: fopen, fclose.                        *)

OpenOther(f) ==
    /\ file[f] = 0
    /\ \E n \in Numbers : Opened(f, n) /\ file' = [file EXCEPT ![f] = n]
    /\ UNCHANGED <<at, sock, connection, dials, booted, failed, left, apart>>

CloseOther(f) ==
    /\ file[f] # 0
    /\ Closed(file[f])
    /\ file' = [file EXCEPT ![f] = 0]
    /\ UNCHANGED <<at, sock, connection, dials, booted, failed, apart>>

SockClose(s) ==
    \/ Look(s, "cut", "cutting", "drop") \/ Shut(s, "cutting", "drop")
    \/ Look(s, "exited", "ending", "free") \/ Shut(s, "ending", "free")
    \/ Look(s, "free", "freeing", "gone") \/ Shut(s, "freeing", "gone")

DescNext ==
    \/ \E s \in Sessions :
        \/ Dial(s) \/ DialFails(s) \/ Selected(s) \/ SelectFails(s) \/ SelectFailed(s)
        \/ Admitted(s) \/ NotAdmitted(s)
        \/ CloseSocket(s) \/ ResetFields(s)
        \/ Exit(s) \/ DryRun(s)
        \/ SockClose(s)
    \/ \E f \in Openers : OpenOther(f) \/ CloseOther(f)

DescSpec == DescInit /\ [][DescNext]_desc_vars

-----------------------------------------------------------------------------
(* Properties.                                                             *)

\* Every socket that is open is the one its session works with, or was left
\* behind by a re-admission that failed after the connect: nothing else
\* leaks, also when numbers are closed under their owners.  (gctl_connect,
\* gctl_lcm_reset, ps_free, sock_connect, ps_statemachine.)
Accounted ==
    \A n \in Numbers : fd[n] \in Sessions =>
        \/ sock[fd[n]] = n /\ at[fd[n]] # "gone"
        \/ n \in left /\ failed[fd[n]]

\* A session that is admitted or served has its own socket, and a thread its
\* own file, if nobody opens anything between the two closes of a number.
\* (sock_close in gctl_lcm_reset, sock_connect and ps_free.)
OwnDescriptor ==
    apart => /\ \A s \in Sessions : at[s] \in {"select", "admit", "serve"} => Behind(s) = s
             /\ \A f \in Openers : file[f] # 0 => fd[file[f]] = f

\* What handlers go by when they write: a session that is said to be
\* connected has its own socket, but for the moments in which it is closed,
\* and after a re-admission that failed after its connect.  (self->connection
\* in sock_write, ps_statemachine and sock_connect.)
ConnectionTrue ==
    apart => \A s \in Sessions :
        connection[s] => \/ Behind(s) = s
                         \/ at[s] \in {"closed", "exited", "ending", "gone"} \union Doomed
                         \/ failed[s]

\* Whoever works with a descriptor works with its own.
OwnSocket == OwnDescriptor /\ ConnectionTrue
=============================================================================
