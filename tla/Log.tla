--------------------------------- MODULE Log ---------------------------------
(***************************************************************************)
(* log.c: every thread appends its warnings and errors to logs/error.log,  *)
(* which it opens, measures, perhaps empties, and closes for each entry,   *)
(* without a lock; a session thread has a log of its own as well, named    *)
(* after its CMTS, which is removed when it ends.  Of the two _log it is   *)
(* the second, for other machines than x86_64: the first calls             *)
(* check_log_file_size where the second calls log_getfsize, and no file of *)
(* the repository defines that.                                            *)
(*                                                                         *)
(* An entry is flushed by one write.  Entries are taken to be of the same  *)
(* length, and Max is what log_max_fsize is in entries.  Below LogLevel_WARN*)
(* an entry goes to the thread's log only, or nowhere (log_wrap).  The     *)
(* positions of two threads in one thread log are left out.                *)
(*                                                                         *)
(* debug_raw dumps a buffer into error.log as well: without measuring it,  *)
(* and if console logging is off it opens the file and neither writes to   *)
(* it nor closes it.                                                       *)
(***************************************************************************)
EXTENDS Naturals, Sequences, FiniteSets

CONSTANTS
    SessionThreads, \* threads that run ps_statemachine
    Others,         \* main and the threads of the web framework
    Paths,          \* the names of thread logs
    NoPath,
    Max,            \* GLOBAL_LOGGER.max_file_size
    MaxEntries      \* bound: calls of _log

ASSUME LogAssumption ==
    /\ SessionThreads \intersect Others = {}
    /\ IsFiniteSet(SessionThreads \union Others)
    /\ NoPath \notin Paths
    /\ Max \in Nat \ {0} /\ MaxEntries \in Nat

Writers == SessionThreads \union Others

VARIABLES
    errors,   \* the entries in error.log, which are numbers
    there,    \* whether error.log exists
    size,     \* the size of each thread log, if it is among `exists'
    exists,   \* the thread logs that exist
    step,     \* where each thread is in _log
    entry,    \* the entry it writes to error.log, 0 if none
    how,     \* how it has opened error.log
    tlog,     \* the path in its thread-specific object, NoPath if it has none
    doomed,   \* the path its destructor has
    entries,  \* how many calls there have been
    raw,      \* those of debug_raw
    console,  \* GLOBAL_LOGGER.stdout_write
    leaked,   \* streams that debug_raw has left open
    unique,   \* no two threads have the same path at a time
    was,      \* whether error.log existed at the start
    rotated,  \* whether error.log has been emptied for its size
    written,  \* what has been written to error.log while it is to be kept
    last,     \* the entry whose call was the last to return
    crashed   \* fclose(NULL) in pthread_specific_fsize

log_vars == <<errors, there, size, exists, step, entry, how, tlog, doomed,
              entries, raw, console, leaked, unique, was, written, rotated, last, crashed>>
error_log  == <<errors, there, how, written, rotated, last, leaked>>
settled    == <<unique, was, console, raw>>
thread_log == <<size, exists, tlog, doomed, crashed>>

LogTypeOK ==
    /\ errors \in Seq(1 .. entries) /\ written \in Seq(1 .. entries)
    /\ there \in BOOLEAN /\ was \in BOOLEAN /\ unique \in BOOLEAN
    /\ rotated \in BOOLEAN /\ crashed \in BOOLEAN
    /\ size \in [Paths -> Nat] /\ exists \subseteq Paths
    /\ step \in [Writers -> {"new", "idle", "own", "print", "access", "open",
                             "measure", "empty", "again", "write"}]
    /\ entry \in [Writers -> 0 .. entries]
    /\ how \in [Writers -> {"a", "w"}]
    /\ tlog \in [Writers -> Paths \union {NoPath}]
    /\ doomed \in [Writers -> Paths \union {NoPath}]
    /\ entries \in 0 .. MaxEntries /\ last \in 0 .. entries
    /\ raw \subseteq 1 .. entries /\ console \in BOOLEAN /\ leaked \in Nat

LogInit ==
    /\ errors = <<>>
    /\ there \in BOOLEAN /\ was = there
    /\ size = [p \in Paths |-> 0] /\ exists = {}
    /\ step = [w \in Writers |-> IF w \in SessionThreads THEN "new" ELSE "idle"]
    /\ entry = [w \in Writers |-> 0]
    /\ how = [w \in Writers |-> "a"]
    /\ tlog = [w \in Writers |-> NoPath]
    /\ doomed = [w \in Writers |-> NoPath]
    /\ entries = 0 /\ last = 0
    /\ raw = {} /\ console \in BOOLEAN /\ leaked = 0
    /\ unique \in BOOLEAN
    /\ written = <<>> /\ rotated = FALSE
    /\ crashed = FALSE

\* The statement of _log, or around it, that a thread is at.
At(w, here, there_) == step[w] = here /\ ~crashed /\ step' = [step EXCEPT ![w] = there_]

-----------------------------------------------------------------------------
(* Session threads.                                                        *)

\* pthread_logspecific.
LogSpecific(w, p) ==
    /\ At(w, "new", "idle")
    /\ unique => \A v \in Writers : p \notin {tlog[v], doomed[v]}
    /\ tlog' = [tlog EXCEPT ![w] = p]
    /\ size' = [size EXCEPT ![p] = 0]
    /\ exists' = exists \union {p}
    /\ UNCHANGED <<error_log, entry, doomed, crashed, entries, settled>>

\* The thread ends: its object is taken from it, and the destructor warns.
ThreadExit(w) ==
    /\ At(w, "idle", "access")
    /\ tlog[w] # NoPath /\ entries < MaxEntries
    /\ tlog' = [tlog EXCEPT ![w] = NoPath]
    /\ doomed' = [doomed EXCEPT ![w] = tlog[w]]
    /\ entries' = entries + 1
    /\ entry' = [entry EXCEPT ![w] = entries + 1]
    /\ UNCHANGED <<error_log, size, exists, crashed, settled>>

\* pthread_specific_local_destroy: fclose, remove.
Destroy(w) ==
    /\ At(w, "idle", "new")
    /\ doomed[w] # NoPath
    /\ exists' = exists \ {doomed[w]}
    /\ doomed' = [doomed EXCEPT ![w] = NoPath]
    /\ UNCHANGED <<error_log, entry, entries, tlog, size, crashed, settled>>

-----------------------------------------------------------------------------
(* _log.                                                                   *)

\* An entry, below LogLevel_WARN or not.
Call(w, severe) ==
    /\ severe \/ tlog[w] # NoPath
    /\ entries < MaxEntries
    /\ doomed[w] = NoPath
    /\ At(w, "idle", IF tlog[w] # NoPath THEN "own" ELSE "access")
    /\ entries' = entries + 1
    /\ entry' = [entry EXCEPT ![w] = IF severe THEN entries + 1 ELSE 0]
    /\ UNCHANGED <<error_log, thread_log, settled>>

\* Mutant: what a log of the largest size allowed is taken for.
MeasureOwn_late(w) ==
    /\ At(w, "own", "print")
    /\ crashed' = (tlog[w] \notin exists)
    /\ IF tlog[w] \in exists /\ size[tlog[w]] > Max
       THEN size' = [size EXCEPT ![tlog[w]] = 0] ELSE UNCHANGED size
    /\ UNCHANGED <<error_log, exists, tlog, doomed, entry, entries, settled>>

\* log_getfsize of the thread's log, which another thread with the same path
\* may have removed.
MeasureOwn(w) ==
    /\ At(w, "own", "print")
    /\ crashed' = (tlog[w] \notin exists)
    /\ IF tlog[w] \in exists /\ size[tlog[w]] >= Max
       THEN size' = [size EXCEPT ![tlog[w]] = 0] ELSE UNCHANGED size
    /\ UNCHANGED <<error_log, exists, tlog, doomed, entry, entries, settled>>

PrintOwn(w) ==
    /\ At(w, "print", IF entry[w] = 0 THEN "idle" ELSE "access")
    /\ size' = [size EXCEPT ![tlog[w]] = @ + 1]
    /\ UNCHANGED <<error_log, exists, tlog, doomed, crashed, entry, entries, settled>>

\* Mutant: always for writing.
Access_not(w) ==
    /\ At(w, "access", "open")
    /\ how' = [how EXCEPT ![w] = "w"]
    /\ UNCHANGED <<errors, there, written, rotated, last, leaked, thread_log, entry, entries, settled>>

\* access(ERROR_LOG_FILE, F_OK)
Access(w) ==
    /\ At(w, "access", "open")
    /\ how' = [how EXCEPT ![w] = IF there THEN "a" ELSE "w"]
    /\ UNCHANGED <<errors, there, written, rotated, last, leaked, thread_log, entry, entries, settled>>

Open(w) ==
    /\ At(w, "open", IF entry[w] \in raw THEN "write" ELSE "measure")
    /\ errors' = IF how[w] = "w" THEN <<>> ELSE errors
    /\ there' = TRUE
    /\ UNCHANGED <<how, written, rotated, last, leaked, thread_log, entry, entries, settled>>

Measure(w) ==
    /\ At(w, "measure", IF Len(errors) < Max THEN "write" ELSE "empty")
    /\ UNCHANGED <<error_log, thread_log, entry, entries, settled>>

\* fclose(fopen(path, "w")), and once more for the pointer that is returned.
Empty(w, here, then) ==
    /\ At(w, here, then)
    /\ errors' = <<>>
    /\ how' = [how EXCEPT ![w] = "w"]
    /\ rotated' = TRUE /\ written' = <<>>
    /\ UNCHANGED <<there, last, leaked, thread_log, entry, entries, settled>>

\* What has been opened for writing writes at the start of the file.
Put(w) == IF how[w] = "a" \/ errors = <<>> THEN Append(errors, entry[w])
          ELSE [errors EXCEPT ![1] = entry[w]]

Written(w) ==
    /\ written' = IF was /\ ~rotated THEN Append(written, entry[w]) ELSE <<>>
    /\ last' = entry[w]

Write(w) ==
    /\ At(w, "write", "idle")
    /\ entry[w] \in raw => console
    /\ errors' = Put(w)
    /\ Written(w)
    /\ entry' = [entry EXCEPT ![w] = 0]
    /\ UNCHANGED <<there, how, rotated, leaked, thread_log, entries, settled>>

\* debug_raw: like an entry from access(ERROR_LOG_FILE, F_OK) to fclose, but
\* for the measuring; without console logging it leaves the stream as it is.
Raw(w) ==
    /\ entries < MaxEntries /\ doomed[w] = NoPath
    /\ At(w, "idle", "access")
    /\ entries' = entries + 1
    /\ entry' = [entry EXCEPT ![w] = entries + 1]
    /\ raw' = raw \union {entries + 1}
    /\ UNCHANGED <<error_log, thread_log, unique, was, console>>

RawLeft(w) ==
    /\ At(w, "write", "idle")
    /\ entry[w] \in raw /\ ~console
    /\ leaked' = leaked + 1
    /\ entry' = [entry EXCEPT ![w] = 0]
    /\ UNCHANGED <<errors, there, how, rotated, written, last, thread_log, entries, settled>>

LogNext ==
    \E w \in Writers :
        \/ \E p \in Paths : w \in SessionThreads /\ LogSpecific(w, p)
        \/ ThreadExit(w) \/ Destroy(w)
        \/ \E severe \in BOOLEAN : Call(w, severe)
        \/ MeasureOwn(w) \/ PrintOwn(w)
        \/ Access(w) \/ Open(w) \/ Measure(w)
        \/ Empty(w, "empty", "again") \/ Empty(w, "again", "write")
        \/ Write(w)
        \/ Raw(w) \/ RawLeft(w)

LogSpec == LogInit /\ [][LogNext]_log_vars

-----------------------------------------------------------------------------
(* Properties.                                                             *)

\* error.log outgrows its limit by no more than the threads that have
\* measured it at the same time, but for what debug_raw dumps into it; a
\* thread log does not at all.  (log_getfsize in _log, debug_raw.)
Bounded ==
    /\ Cardinality({n \in DOMAIN errors : errors[n] \notin raw}) < Max + Cardinality(Writers)
    /\ unique => \A p \in exists : size[p] <= Max

\* The entries are all there, and in the order in which they were written, if
\* the file was there at the start and has never been too large.  Without
\* that two threads overwrite each other's entry.  (_log: access, fopen.)
KeptUnlessRotated == was /\ ~rotated => errors = written

\* When no thread is logging, the last entry is in the file, whatever the
\* others have emptied, unless one has come to empty it and write nothing.
\* (_log, log_getfsize, debug_raw.)
LastKept ==
    console /\ last # 0 /\ (\A w \in Writers : step[w] \in {"new", "idle"})
        => \E n \in DOMAIN errors : errors[n] = last

\* What is logged as an error stays until the file is too large.
EntriesKept == KeptUnlessRotated /\ LastKept

\* The log of a thread is there as long as it logs, if no two have the same
\* address at a time, and there is no fclose(NULL).  (log_getfsize,
\* pthread_specific_fsize, pthread_specific_local_destroy.)
ThreadLogThere == unique => ~crashed

\* The files keep their size, and are there, for the threads that measure them.
MeasuredOK == Bounded /\ ThreadLogThere
=============================================================================
