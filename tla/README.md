# TLA+ models of the PCMM policy server

The policy server sits between an HTTP client and a set of cable modem
termination systems (CMTSs).  A client connects the server to a CMTS, asks it
for gates, and gets the answer of the CMTS back as JSON.  Towards the CMTSs the
server speaks COPS with the PacketCable Multimedia (PCMM) objects over TCP.

These modules model the parts of it in which several things happen at once, or
in which something may be late, lost, cut or repeated.  Paths are relative to
the root of the repository; the C sources are in `src/`, its headers in
`include/`.

## 1. Inventory

Every thread of the web framework (ulfius) that serves a request is called a
*handler* below; every session with a CMTS has a *session thread*.

| part | state | operations |
|---|---|---|
| **LCM**, `src/api/lcm.c` | `clients[MAXROOM]`, `count`, `max_pep`, `lcm_internal_lock` | `lcm_getps` (lookup by address), `lcm_alloc_ok` (is there room), `lcm_set` (insert) |
| **Registry of the web API**, `src/api/routes.c` | `threads[MAXROOM]`, `lcm_lock` | `gctl_connect`, `gctl_request`/`gctl_04` (find a session, use it), `gctl_lcm_reset` (`POST /clear`), `gctl_lcm_stat`, preflight connects and shutdown in `gctl_webapi_init` |
| **Gate requests**, `routes.c`, `src/pcl/pcmm.c`, `src/pcl/cops.c` | a handler's buffers | `gctl_read_policy` (JSON to objects), `ps_proxy` (objects to a message, transaction id), `gctl_async_get_decision` (poll for the report file) |
| **Session**, `src/ps.c` | `sock`, `connection`, `uuid_received`, `handle`, `die` | `ps_admctl` (connect, OPN, CAT, REQ), `ps_statemachine` (keep-alive, Client-Close and re-admission), `sock_connect`, `sock_write`, `sock_close` |
| **Framing**, `ps_recvd` in `src/ps.c` | the socket's receive queue | look at what is there, check the header, look for a client type, take a message |
| **Reports**, `ps_pcmm_report*` in `ps.c`, `write_report` in `pcmm.c` | `data/yrpt_<id>.txt` | decode a report, write it to the file of its transaction id |
| **Objects**, `pcmm.c`, `cops.c`, `pack.c`, `iputil.c` | the place of `strtok` | encode the objects of a decision and the Client-Accept, decode those of a report |
| **Start and stop**, `src/main.c`, `src/conf.c`, `gctl_webapi_init` | options, `CLIENT_SETTINGS`, files of a former life | read the options, empty the directories, make the table, start the web framework, connect to the CMTSs of the settings, stop |
| **Descriptors** of the process, `ps.c`, `routes.c` | the kernel's table | connect, close, close again |
| **Log**, `src/lib/log.c` | `logs/error.log`, a log per session thread | measure, empty, append, remove |
| **JSON**, `include/yyjson.h` | documents | read values by name, index or iterator; change arrays and objects (shipped, and called by no handler) |

**How they meet.**  A handler finds a session through the LCM and calls
`ps_proxy` on it directly, so handlers and the session thread share the session
object, without using the two mutexes `ps_new` makes in it (`evnt_lock` is taken
by `lcm_getps` for the comparison of the address only).  The session thread
does not know of requests: it writes a file, and the handler polls for it.
`POST /clear` raises `die`, joins the thread, frees the session.

**What is hard.**

- The table has two mutexes for the same data; the test of the limit, the test
  for a conflict and the insertion are three critical sections.
- `/clear` runs against lookups, insertions and gate requests; it waits for a
  thread that may itself wait for a CMTS.
- Transaction ids are random 16-bit numbers and the name of a file is the only
  link between request and report: reports may be late or repeated, ids may
  repeat, and files outlive requests and the process.
- A session goes through many connections; the handle belongs to one of them.
  Handlers copy it, test `connection` and write to `sock` at three different
  moments.
- `ps_recvd` works on what TCP has brought so far and the socket does not block.
- The length of an object is written by its encoder, counted by the handler and counted
  again by `ps_proxy`, in three files.
- `strtok`, descriptors, `error.log` and the directory of reports belong to the whole
  process; nothing guards them.
- The walks over the objects of a message read the bodies of what they do not know as if
  they were objects.
- Options live in two places, and the web framework runs before the connects of the
  settings are made, and after the table is freed.

`PROJECT.json` lists each of these hazards with its line and the properties
that would notice it going wrong, and the hazards that no property covers yet.

**What makes each part correct.**

- *LCM and registry*: no request uses a freed session; a session is freed only
  after its thread has ended; one session per CMTS; `threads[i]` is the thread
  of `clients[i]`; no running session is out of reach; the limit holds; no
  thread stays in a lock; `/clear` stops everything and returns.
- *Reports*: an answer is one whole report about the request that gets it; a
  report once in reach of its request is not lost; a request whose file is
  there ends.
- *Session*: a CMTS is served with the handle of its own connection; a decision
  carries a handle a CMTS gave; keep-alives are echoed; a CMTS that closes is
  served again.
- *Gate requests*: the message has a place for everything that is packed, its reader
  finds every object by the lengths in it, and all of the request is there.
- *Framing*: messages are returned once, in order, and none is left out.
- *Objects*: what is sent says what was asked, and nothing of another request; a report file
  has under every label the field its format prints there, of the right object; the walks end.
- *Start and stop*: every option has the value written last for it; no report of a former
  life is left; the table is there when it is used and has room for the settings.
- *Descriptors*: whoever works with a number works with its own; nothing leaks that is
  not known to.
- *Log*: an entry stays until the file is too large; the file stays near its limit.
- *JSON*: what is read is what was written; a changed container is what the calls say.

## 2. Modules

| module | what it models | theorems in |
|---|---|---|
| `LocalConnectionManager` | LCM, registry, handlers, `/clear`, the end of session threads | `LocalConnectionManager_proofs` |
| `Registry` | abstract: what the web API promises of the CMTSs it is connected to | `LocalConnectionManager_proofs` |
| `GateRpc` | abstract: what a gate request promises its caller | |
| `ReportDelivery` | transaction ids, report files, handler, session thread, restart; implements `GateRpc` | `ReportDelivery_proofs` |
| `Session` | admission, service, re-admission, `ps_proxy`'s use of the session | `Session_proofs` |
| `GateMessage` | a gate request on its way to a COPS message: sizes and places of objects | `GateMessage_proofs` |
| `PcmmObjects` | the encoders and decoders of PCMM objects, as operators | |
| `GateEncoding` | handlers that write the objects of a decision at the same time, with one `strtok` | `GateMessage_proofs` |
| `RequestBody` | how a handler reads the JSON of a request, and what it refuses | `RequestBody_proofs` |
| `MCGateMessage` | the three parts of a request side by side | `RequestBody_proofs` |
| `Framing` | `ps_recvd` on a stream cut anywhere | `Framing_proofs` |
| `ReportDecode` | the walks over the objects of a message and of a report, and what goes to the file | `Framing_proofs` |
| `MCFraming` | the two parts of receiving side by side | `Framing_proofs` |
| `Json`, `MCJson` | the documents and accessors of `yyjson.h` that the server uses; `MCJson` writes texts | `Json_proofs` |
| `Configuration` | `conf_read`: arguments, the file of settings, the two places of options | `Process_proofs` |
| `Server` | the life of the process; extends `Configuration` | `Process_proofs` |
| `CopsMessages` | Client-Accept and Keep-Alive, byte by byte, from the settings | `Process_proofs` |
| `Descriptors` | descriptors of sessions, closed twice | `Process_proofs` |
| `Log` | `error.log` and the logs of threads | `Process_proofs` |
| `MutableJson` | the arrays and objects of `yyjson.h` that can be changed | |
| `MCProcess` | what threads share besides the table: server, descriptors, logs, documents | |

Names follow the source: variables are the fields (`clients`, `count`,
`uuid_received`, ...), locks are variables that hold their owner, a handler's
locals are functions of the handler (`pc`, `ip`, `ps`, `pos`).  An action is the
code between two points where another thread can tell the difference.  Actions
whose name has a suffix (`Free_backwards`, `Take_peek`) are *mutants*: the same
action with a plausible bug.  They are not part of any specification; they are
there to show that a property can fail.

### 2.1 LocalConnectionManager

`Lookup`, `ScanMatch`, `ScanNext` and `ScanEnd` are `lcm_getps`, one round of its
loop at a time: `count` is read again in every round, and `/clear`, which holds the
other mutex, may change it in between.  `AllocOk` is `lcm_alloc_ok`.  `Create`,
`Admitted`, `Boot` and `ConnectFails` are the middle of `gctl_connect`.  `lcm_set`
is three steps (`SetLock` reads the position, `SetStore`, `SetBump`); since another
thread can zero the count meanwhile, `SetBump` allows both ways a compiler can
increment it.  `LockTid` is `gctl_lock_tid`.  `Sweep`, `Join`, `Free`, `SweepEnd`
and `Zero` are `gctl_lcm_reset`.  A gate request is the lookup and one use of the
pointer (`Proxy`).  The session thread is there as far as `/clear` depends on it:
it tests `die` at the top of a round only, and while it tries to be re-admitted
(`thread = "reconnect"`) it does not test it at all.

Session objects are never reused, so that a stale pointer is seen as one.  The
first undefined access is recorded in `fault`, after which no step is
described.

*What holds always* (`Spec`): `JoinedBeforeFreed`, `CapOvershoot`,
`LcmLockReleased`.  *What holds only in quiet times*: the code does not prevent a
`/clear` from overlapping anything, or two connects to one address from
overlapping.  `QuietSpec` is `Spec` without steps into such states.  That proviso
is needed: without it a lookup locks a freed session (run `Lcm_stale_lookup`), two
sessions for one CMTS come to be, `/clear` joins an id that is not stored yet, and
a session inserted between the last round of `/clear` and its `count = 0` runs on
out of reach.

*What the table promises.*  `Registry` is the table as if each request were served in one
step: one session for a CMTS, a request keeps the session it was given, nobody closes a
session that is in use.  `ImplementsRegistry` shows that the detailed table is that in quiet
times.  In the mapping (`registry`, `held`, `closed`) a session is in the registry from
the moment the count covers its entry until `/clear` frees it, and held by a request from the
match in `lcm_getps` until `ps_proxy` is done; the end of `/clear`, which zeroes the count, is
then a step nobody sees, because all it forgets is closed.

### 2.2 GateRpc and ReportDelivery

`GateRpc` is what the HTTP client may rely on: a request is answered once, with one
whole report some CMTS gave about that very request, or it fails.  It is a pure
abstraction and has no source of its own.

In `ReportDelivery`, `Proxy` draws the transaction id and perhaps sends the decision
(`sock_write` is silent when there is no connection), `Open`, `Read` and `Remove` are
one round of `gctl_async_get_decision` that finds the file, `TimeOut` is its end after
15 seconds.  A CMTS reports when it likes and up to `MaxReports` times.  `Create` is
the `fopen` of `ps_pcmm_report_decision`, `Write` its writing and closing, `Discard`
the reports that leave no file.  `Restart` is a new life of the process: handlers and
connections are gone and `conf_clean_dirs` removes the report files.

Directory and files are apart, as in a Unix file system: `dir` maps a name to a
file, `data` a file to its contents, and a file whose name was removed can still be
written by the thread that has it open.

Everything is stated under `FreshSpec`: ids do not repeat and are not 0 since the
last start.  `rand()` does not promise this; run `Report_reuse` shows what happens
otherwise.  The refinement mapping reads `GateRpc`'s `given` as the reports sent so
far and its `answer` as what an answered handler has read.

### 2.3 Session

The session thread is one automaton, `pc`: `new` or `retry` (about to connect), `select`,
`opn`, `accept`, `req` (the four stations of `ps_admctl`), `serve` (the loop of
`ps_statemachine`), `closed` (between `close(sock)` and the reset of the fields).
The first admission is made by the handler of `POST /connect`, later ones by the
session thread; they differ in what a failure does (`AdmissionFailed`): the first
frees the session, a later one tries again with the fields as they are.

Connections are numbered and have their own queues `up` and `down`; the handle that
the REQ of connection `k` carries is `k`.  `Recvd` is what the rest of the session
sees of `ps_recvd`: the opcode, and the handle kept if none is kept yet.  Handlers make
`ps_proxy` in three steps: copy the handle (`Build`), test `connection` (`Test`), write
to `sock` (`Send`).  The CMTS is external: it makes each step of the handshake once
per connection, when it likes; a connection can be refused or break at any time.

`Strict` says that a CMTS reports about no decision before it has sent its REQ on that
connection.  The theorems assume it; run `Session_stuck_handle` drops it.

Some behaviour one may not expect follows from the source and is part of the model:
the Client-Accept goes out even if no OPN came in ten seconds; messages that come while
another is waited for are dropped, keep-alives among them; a refused connection is
taken for a good one until the wait for the REQ ends; after a Client-Close handlers
go on building decisions with the old handle until the new one is there, and such a
decision can be sent on the new connection.

### 2.4 Framing

A byte is its position in the stream.  `Write` and `Arrive` are the CMTS and TCP:
messages are written whole and arrive in pieces of any size.  `PeekHeader` is the case
where `cops_header_ok` accepts what the first eight bytes say, bytes that have not come
yet being zero; `Resync` and `Discard` are the two outcomes of the search for a client
type otherwise; `Take`, `TakePart`, `Due` and `DuePart` are the `recv` calls that
follow.  The socket does not block, so `MSG_WAITALL` waits for nothing, and the loop at
`ps.c:565` ends only when one `recv` brings all bytes due at once.  What is returned is
recorded in `got`: the opcode, and the message whose objects were parsed, or 0 if what was
parsed is not a message.

`Delivered` and `AllReturned` are about streams in which TCP cuts no header and no
message twice (`Kept`).  That is not something TCP promises; it is what the code
can take, and the model shows what is outside: a header that has come in part is thrown
away (or, of a keep-alive, returned again and again), a message in three pieces makes the
inner loop eat the messages behind it.  `OnceInOrder` holds however the stream is cut.

Left out: lengths above 255 (a length whose last byte is missing reads 0), the
end of the buffer (`BUFFER_SIZE`, 65535 bytes), messages of other client types.

### 2.5 PcmmObjects and ReportDecode

`PcmmObjects` has one operator per encoder of `pcmm.c` and one per decoder, on 16-bit words
in network order: a value is cut to the width of its field (`U16`, `Bytes`, `Flags`, `Class`).

`ReportDecode` is what happens to a message once `Framing` has it in the buffer.  Two
walks, one action for each kind of step: `TakeHandle`, `OpenReport` (a ClientSI object, whose
inside is the second walk), `PassWord` for what neither knows.  The walk reads the header
of an object it does not know and then goes on *behind the header*: the body is read as
headers, four bytes at a time.  `Decode` keeps the objects of a report one over the other
(the last one counts), turns an error code into text, and files the report under its
transaction id.  What is written is not all that was decoded: `WriteReport` has an entry for each
of the formats of `write_report`, with the fields it prints under the labels of that format.

`Decoded` says, for messages whose bodies pass for no object, that every report is filed once and
in order, in the format its objects call for, and that under each label is the field `Tells` names,
from the last object of its kind; and that the handle kept is that of the first message with one.
`Tells` is computed from the message alone, by the places of its objects.  It says what the code
does where one may expect something else:

- an error is filed with the application 0, whatever application was named (`pcmm.c:684`);
- in the legacy format `src_port_end` is where the range of *destination* ports begins, for a
  legacy classifier has two ports and no ranges (`pcmm.c:671-673`, `pcmm.h:41-45`), and the
  classifier id is that of an extended classifier before it, or 0.

`WalkEnds` is liveness: the walks end, unless a body has a word that passes for the header of
an object of no length.  (Such a body is rare but legal: the address in an IPv6 classifier.)

Follows from the source and is in the model: an error code without description is reported
as success, since the text NIL chooses the format; the half of an opaque handle that reads
09xx is taken for a ClientSI object; a report about a gate state is written only when its reason
is 0 or 65535, where the comment at `ps.c:466-470` has that no report of a state is.

### 2.6 GateMessage

One handler, from the request to the message; it shares none of this with other threads.
A buffer is the sequence of the objects in it, each with the length it declares (`Declared`,
from the encoders) and the place where it begins.  `ReadProfile` and `ReadClassifier` are
`gctl_read_policy`, which counts lengths by itself (`Counted`); `Join` is the rest of
`gctl_04` before the lookup; `Measure`, `PackControl`, `PackGate` and `Wrap` are
`ps_proxy`: the sizes first, then what is packed, then the message.  `Fits` and `Tiled`
say that these agree.

Not shown: `concat_c8` writes a zero behind what it appends, which at `routes.c:784` is one
byte past `data[len]` (in `decision` there is room for it, by `Fits`).

### 2.7 Json and RequestBody

`Json` is a document as `yyjson.h` sees it: a sequence of cells, a container in front of
what it contains, with the number of cells to its next sibling in its payload.  `Laid` says
what `read_root_minify` and `read_root_pretty` of the vendored `yyjson.c` lay out for a text, and
`IsText` what they take for one, both without the characters; everything else is an accessor of
the header, by name: `ObjGet`, `ArrGet` with its two ways (`ArrIsFlat`), `IterInit`, `IterNext`, `GetInt`...

`RequestBody` has one action for each thing a handler looks for: `Receive`, `NewRequest`,
`FindSpec`, `FindProfile`, `ReadSpec`, `CountClassifiers`, one `ReadElement` for each classifier.
A field that is missing or of another type reads 0 or NULL.  Only some of that is refused.
The objects are encoded in the same loop, and an encoder takes a NULL for a string: then the process
ends (`Dies`, `reading = "dead"`), and is started again (`Restarted`).  That happens of

- a service class name that is no string (`routes.c:437`, `strlen` at `pcmm.c:472`);
- a classifier without the strings in `Needed`: the address of the source, for an extended one the
  two masks as well (`inet_pton`, `iputil.c`), for an IPv6 one both addresses (`strcmp`,
  `pcmm.c:369`), which must not be empty or `::` either, since `strtok` then finds no group
  (`NoGroups`).  The IPv4 address of the destination may be missing;
- a missing direction (`vtof`), at the end of the loop;
- a missing `subscriberId`, in `ps_proxy` (`ps.c:720`; `Proxy`), with or without a policy.

`RequestRead` says that what was read is what is written (the first of two members of a name).
`RefusedFor` says of the text alone what becomes of a request: it is refused for the first thing
that is wrong and only for that; the process dies only of one of the strings above, met before
anything that would have been refused; and a request that is sent has all of them.

### 2.8 GateEncoding

Several handlers write the objects of their decisions.  `pack_ip6` takes an address apart
with `strtok`, which has one place for the process: `FirstGroup` sets it, `NextGroup` takes
from wherever it is.  `OwnAddress` is about a handler that was not disturbed (`alone`): it
sends its own address and nothing left over.  Without that proviso groups get mixed.

`SentAsAsked` has two parts.  `FieldsSent` reads the objects that were packed at the offsets of the
tables of `pcmm.h:223-342` and finds every field of the request at its place, in the width of that
place: the addresses, masks, protocol, TOS, ports and priorities of the two IPv4 classifiers; the
traffic classes, the flow label (32 bits), next header, prefixes, ports, id, state and action of the
IPv6 one; direction, DSCP flags and timers of the gate; the profile.  Only the IPv6 addresses are
left to `OwnAddress`.  `NameSent` says where a service class name is: its first eight bytes, *behind*
the zeros that pad it, with a zero after them, so that what is behind it in memory (`Behind`) is not
read as part of it.  The comment at `pcmm.h:367-370` has the name first and the padding behind it:
the code pads in front (`pcmm.c:472-477`), and the property states the place the code uses.

The priority and preemption of a gate are never set (`routes.c:775`): any value.
`::` is passed over by `strtok`, so a shortened address is packed to the left.  Of names longer than
eight bytes the first eight are sent, where `pcmm.h:367` speaks of 2 to 16.

### 2.9 Configuration, Server and CopsMessages

`Configuration` is `conf_read` with one action per argument and one per member of the file of
settings.  `opts` is local and returned, `CLIENT_SETTINGS` is static; `config=` throws away the
one and not the other.  A member `connect` or `mode` that holds no string makes `conf_read_file`
read from NULL, which ends the process (`abort`).  `Settled`: every option has the value that was written last for it
*in the place that counts*, and the list of addresses is that of the file.

`Server` extends it with `main` and `gctl_webapi_init`: emptying the directories, `lcm_init`,
the start of the framework, the connects of the settings (`Preflight`) while handlers already
serve connects (`Request`, `Check`, `Admit`, `SetRow`, `SetCount`), and the stop: the
table is freed before the framework is stopped.  `StartOK`: no report of a former life is
left when the first request comes; the CMTSs of the settings find room unless a client was
faster.  `TableOK` has three parts:
`RoomForAll`, no entry beyond `MAXROOM` if the limit is not negative and clients come one at a time
(`calm`); `RowsMatch`, about `.connectrc`; `TableThere`, no thread meets a table that is not there
before the stop begins, whoever connects and whenever.  (After that they do: the table is freed
before the framework is stopped.)  There is no `/clear` in this module.

`.connectrc` is written in builds with `RCFILE`, which the `Makefile` does not define.  Writing it
can fail.  `RcInit` may leave the file without its header, which is logged; a file that is there and
cannot be opened is closed all the same (`fclose(NULL)`), which ends the process (`RcInitDies`).
`RcwRow` may write no row, and `lcm_set` logs that and counts the client (`lcm.c:236-240`): the
places whose row failed are in `unwritten`.  So `RowsMatch` does not say that every CMTS has a row.
It says, in every interleaving, that the rows which are there name the CMTS at the place they
number, in the order of the table and none twice, with at most one for a connect that is being made;
and that a place without a row is one whose writing failed.

`CopsMessages` are operators on the settings: `AcceptSays` compares the length `ps_admctl`
writes with what `cops_client_accept` has built, and reads the timers back.

### 2.10 Descriptors

A number is free, or some session's or file's.  `Dial`, `Selected`, `SelectFails` are
`sock_connect`; `Look` and `Shut` the two halves of `sock_close`: it asks whether the number is
a socket, and closes it later.  If the number is closed the answer comes from a `struct stat`
that was never filled: either.  `/clear` and a first admission whose select fails close a
number, and `ps_free` closes it again; in between another thread may have it.  `OwnSocket`
holds while nobody opens anything in that window (`apart`); without it a session loses its
connection to another's close.  `Accounted` holds always: the sockets nobody has are exactly
those of re-admissions that failed after the connect.

### 2.11 Log

`log.c` has two versions of `_log`.  The model is the one for machines other than x86_64
(lines 273-338).  The one for x86_64 (lines 182-262) calls `check_log_file_size`, which no file of
the repository defines; its other steps are the same.

A call of `_log` is several steps (`Call`, `MeasureOwn`, `PrintOwn`, `Access`, `Open`, `Measure`,
`Write`); two threads can be anywhere in it.  `error.log` is opened for writing if it was not there:
two threads that both find it missing overwrite each other.  `EntriesKept` says when an entry may be
lost: by rotation, or if the file was not there at the start (`was` is the proviso: without it the
property says nothing of the entries).  `MeasuredOK` bounds what a log may grow to: its limit and what
was under way; and says that the log of a thread is there while it logs if its address is
its own (`unique`).

### 2.12 MutableJson

This part of `yyjson.h` is compiled into the server and called by no handler.  A
container is a ring of cells with a pointer to the last.  `said` is a sequence:
what each call does to one without cells; `DocumentsOK` compares the ring with it,
reading by index, by name, first and last, and compares what each call returned.

Two uses of iterators are outside (`astray`).  `yyjson_mut_arr_iter_remove` leaves the
iterator at the element behind the one removed, so that the next call passes over it: the loop in
the header's own example (lines 2336-2346) skips elements and then takes wrong cells out.
`yyjson_mut_obj_iter_getn`, once it has gone around, leaves `idx` one too small.

## 3. Runs

Every run takes at most a few minutes.  A *violation* run checks one statement of a
comment in the repository that the code does not keep; its counterexample is the
finding listed in `PROJECT.json`.

| run | specification and bounds | shows |
|---|---|---|
| `Lcm_race` | `FairSpec`, 2 handlers, 2 addresses, 3 sessions, limit 1, room 2 | `JoinedBeforeFreed`, `CapOvershoot`, `LcmLockReleased` in every interleaving of connects, gate requests and clears |
| `Lcm_quiet` | `FairQuietSpec`, limit 2, room 3 | `NoFault`, `NoLostSession`, `ImplementsRegistry`, `ClearStopsAll`, `ClearCompletes` |
| `Lcm_hardcap` | room 1 | *violation* of `HardCap` (`lcm.h:14-16`): two overlapping connects write `clients[MAXROOM]` |
| `Lcm_stale_lookup` | room 2 | *violation* of `LookupSafe` (`lcm.c:3-7`): a lookup locks a session `/clear` has freed |
| `Report` | `FairFreshSpec`, 2 requests, 2 CMTSs, ids 0 to 2, 2 reports each | `OwnAnswer`, `ReportStays`, `ImplementsRpc`, `FileEndsWait` |
| `Report_reuse` | `Spec`, 2 requests, 1 CMTS | *violation* of `OwnAnswer` (`pcmm.h:161-164`): ids repeat |
| `Session` | `FairSpec`, 1 handler, 3 connections, queues of 1, `Strict` | `ServedHandle`, `GivenHandle`, `KeepAliveEchoed`, `Readmitted` |
| `Session_stuck_handle` | not `Strict`, 2 connections | *violation* of `ServedHandle` (`cops.h:99-102`): a report with the old handle comes before the REQ |
| `Session_break` | 2 connections | *violation* of `BreakNoticed` (`ps.c:65-67`): a dead connection is served for ever |
| `Gate_message` | `MessageSpec`, every list of up to 5 classifiers of 3 kinds or unknown, 3 lists of 6; 2 handlers with 2 requests each; bodies with each thing missing or wrong | `MessageTypeOK`, `Tiled`, `Fits`, `Complete`, `SentAsAsked`, `OwnAddress`, `RequestRead`, `RefusedFor` |
| `Framing` | `ReceiveSpec`, 2 messages of 4 kinds, 3 returns; the messages of `MCFraming` | `ReceiveTypeOK`, `Delivered`, `OnceInOrder`, `Decoded`, `AllReturned`, `WalkEnds` |
| `Process` | `ProcessSpec`, 9 command lines, 8 files of settings, room 2, 2 requests; 2 sessions, 4 numbers, 3 dials; 3 writers, 3 entries; 4 elements or 3 pairs | `ProcessTypeOK`, `Settled`, `AcceptSays`, `StartOK`, `TableOK`, `Accounted`, `OwnSocket`, `MeasuredOK`, `EntriesKept`, `DocumentsOK` |

The last three runs put parts side by side that share no state: one of them runs and the
others rest, so the states add up instead of multiplying.  The type invariants of
`LocalConnectionManager`, `ReportDelivery` and `Session` are theorems (section 4) and in no run.

**Why the bounds are enough.**  *LCM*: two handlers give every pair of overlapping
requests; with three sessions a second connect can follow a clear that raced with a
first; the limit is below the number of handlers plus one in `Lcm_race`, so that it is
passed, and two in `Lcm_quiet`, so that the table has two entries to sweep.  What is
proved holds for any number.  *Reports*: two requests
and three ids let ids collide with a request in progress, with one that timed out and
with 0; two reports about one request make the second overwrite the first while it is
read; two CMTSs write at the same time.  *Session*: three connections are two changes of
connection, so a decision can be two connections old; queues of one decision or
keep-alive still let those meet the unbounded messages of the handshake.  The last
connection is spared from breaking and closing, since otherwise every run would end in the
bound and nothing would be live.  *Framing*: two messages are the smallest stream in which
one message can be taken for part of another; every position of a cut is tried; the four
kinds are the shortest message, two that the search for a client type can find, one with an
opcode `cops_opcode_ok` refuses, and one too long for `cops_header_ok` (`LengthLimit` is
scaled from 1000 to 13).  `MaxReturns` bounds the keep-alives returned again and again.  The messages for
`ReportDecode` have every kind of object, two of a kind, unknown ones, and bodies whose words
pass for headers.  *Gate messages*: the constants are those of the code (five
classifiers, 320 bytes) and every kind of request is tried; values are at the edges of fields of one and
two bytes; two handlers are enough for one to take the groups of the other.  *Process*: two
sessions and one file are three owners for four numbers, so a number closed twice can go to
another session, to a file or stay free; three dials are two re-admissions; two session
threads of one CMTS and a third writer with a limit of one entry make every order of measuring,
emptying and writing (the two session threads are symmetric); room for two sessions with
two requests passes the limit during the connects of the settings; four elements are the
first ring in which removing in the middle, at the end and before the end differ.

`Framing` and `Process` run without the deadlock check: the CMTS may stop writing, and the
inner loop of `ps_recvd` may wait for bytes that never come; the process ends, aborts or exits.

**Fairness.**  Threads are scheduled, so a handler or a session thread that can
take a step does.  `LocalConnectionManager!Fairness` has weak fairness of each handler
after its start (no request need come) and of the exit of a thread that was told to stop;
only `FairQuietSpec` adds that a CMTS which closed its session admits the server again,
and `ClearCompletes` needs it: `/clear` joins a thread that may be waiting for that.
`ReportDelivery` has fairness of the steps that find a file and of the writer, none of the
time-out and none of a CMTS.  `Session` has fairness of the thread, whose time-outs expire,
and of a CMTS that makes the handshake and reads what it is sent.  `Framing` has fairness
of `ps_recvd`, which is called in a loop, and of TCP; `ReportDecode` of the walk, a
loop of one thread.  `Gate_message` and `Process` state no liveness and have none.

## 4. Proofs

`tlapm` checks every theorem, for all values of the constants under the assumptions named
in the modules: finitely many handlers and at least one, `None` different from everything,
bounds natural numbers; options, fields and texts of their types.

**`LocalConnectionManager_proofs`** (of `Spec`).  `IInv` is inductive: types; who holds
which mutex (`LockInv`); `CapInv`, which counts the handlers past the test of the limit
(`count` plus those handlers that have not inserted is at most the limit plus the number
of handlers less one); `RefInv`, which says that a session is known to one owner until it
is inserted, that `threads[]` names a session once, and where `clients[]` may disagree with
it; `DieInv`, which ties the stop flag, the join and the state of the thread.  `TypeOK`
alone is not inductive, for the positions lie in the arrays only because of `CapInv`; and
`JoinedBeforeFreed` is not, for the id `/clear` joins and the client it frees come from two
arrays, so one has to know that an exited thread in `threads[i]` means the session at
`clients[i]` is not running.  Results: `TypeCorrect`, `CapOvershootHolds`,
`JoinedBeforeFreedHolds`, and `HardCapIfRoom`: the table is never written out of bounds
*if* the limit is below `MAXROOM` by the number of handlers less one.

The same module, of `QuietSpec`.  `QInv` adds, for each handler,
what it knows at each point (`LookupPart`, `ConnectPart`, `GatePart`, `ClearPart`), and for
the table that entries are allocated and the four properties of the run.  The proof of a
step that leaves the table alone is one frame lemma.  Results: `NoFaultHolds`,
`NoLostSessionHolds`, `NoDuplicateAddressHolds`, `TidsMatchHolds`, `ClearStopsAllHolds`.

And that `QuietSpec` implements `Registry`: `GInv` adds that the entries a sweep has passed are
freed (so that `count = 0` forgets nothing) and that sessions have the addresses of CMTSs.
One lemma per step: `Unseen` and its like for stutters, `BumpInserts`, `FailedCloses`, `MatchFinds`,
`ProxyDrops`, `FreeCloses` for the five steps that the registry sees.  Result:
`ImplementsRegistryHolds`.

**`ReportDelivery_proofs`** (of `FreshSpec`).  The invariant says which request a file can
be about, that a file's name and its writers agree with the id of that request, and what
a reader has; with fresh ids, files of different requests never meet.  Results:
`ReportTypes`, `OwnAnswerHolds`, `ReportStaysHolds`, and `Implements`: `FreshSpec` implements
`GateRpc`.

**`Session_proofs`** (of `Spec`, with `Strict`).  `ServedHandle` needs that the first message
with a handle that can reach a waiting server on a connection is the REQ of that
connection; `GivenHandle` needs that every handle kept, copied by a handler or on the wire
was given by a REQ.  Results: `TypeCorrect`, `ServedHandleHolds`, `GivenHandleHolds`.

**`GateMessage_proofs`** (of `Spec`, for any lists and any limit that fits the buffer with
objects of 64 bytes).  `Tight(objs, from, to)` says that objects lie end to end between two
places; concatenating and moving keep it (`TightConcat`, `TightShift`).  The invariant says what
each buffer is tight between, and that the sizes of `ps_proxy` are the ends its packing will
reach.  Results: `TypeCorrect`, `SizesFit`, `MessageTiled`.  `NamesInv` says which names are in
each buffer at each point: those of the policy in `data`, those `pack_ctl_objs` puts before it in
`decision`, all of them in the message; a classifier that is read is the next of those asked for.
Result: `MessageComplete`.

The same module, of `EncodeSpec`, for any number of handlers, any policies with the fields of their
kind, anything on the stack and behind a name.  `OwnAddressHolds` is for addresses of at most eight
groups (`ShortGroups`; an IPv6 address has no more, and the run's addresses are such).  `EncInv` has what
is true of everybody (`EncShape`: every object is as long as its kind, its words fit; `AskedInv`:
whoever is at no address has none half written) and, of a handler that has been alone with
`strtok`, how far it is: the words written are the first groups of its address with zeros behind
them (`WrittenSoFar`), and `strtok` has the rest (`Left`).  `Left` is why `alone` must be given up
by whoever is between two groups when another handler calls `strtok`, and by nobody else.

`SentAsAskedHolds` is for whoever else is at work: `strtok` reaches no word that `FieldsSent` looks at,
and what the stack and the memory behind a name hold is never read as something that was asked for.
`SaidInv` gives, for every stage of a handler, exactly which objects it has written (`IsGate`,
the profile, `IsClassifier`); it rests on `EncShape`.  `FieldsSent` is then compared with each
kind of object (`LegacySaid`, `ExtendedSaid`, `IPv6Said`, `GateSaid`, `EnvelopeSaid`), by lemmas about
reading a word at the place where its encoder put it (`Layout`, `Octets`).  `NameSent` is about bytes:
`MemoryIs` gives what `memcpy` of eight bytes finds at a name, `EnvelopeBytes` where it puts them.
Results: `EncodeInvariant`, `EncodeTypes`, `OwnAddressHolds`, `SentAsAskedHolds`.

**`Framing_proofs`** (of `Spec`, for any kinds of messages of at least a header, and any bounds).
`FInv` says that messages lie end to end (`Layout`); that a message of which the bytes end in
the middle has been cut there, and badly if they end in its header (`CutKnown`); that what was
parsed lies behind what was taken (`Behind`, which makes `OnceInOrder` inductive); and, while
no message is cut badly, where `ps_recvd` stands: at the message that follows those it has
returned, with the opcode and the bytes due of that message (`AtMessage`, which makes
`Delivered` inductive).  Results: `FramingTypes`, `DeliveredHolds`, `OnceInOrderHolds`.

The same module, of `DecodeSpec`, for any messages that are made of objects (`MessagesAssumption`).
`DecodeInv` has the types, what a walk that is not at work has at rest (`Rests`), and, while the
message is one whose bodies pass for no object, where the walks stand (`Walked`).  A walk that
steps over what it does not know is not always at an object: it is at one, or in the body of one it
passes, a multiple of four bytes behind its header, where by `Plain` nothing passes for an object.
What it has kept is said of the objects *before* that place: the files written (`FiledBy`, in the
terms of `Tells`), the
handle (`HandleBy`), the report so far (`Reads`).  `Decoded` is these at the end of the message.  A
step of the walk over a report changes only what the kind of that object says (`DecodeSets`, `ReadsKnown`);
that the objects before a place are the first so many is an induction on places
(`LeastNat`).  Results: `DecodeTypes`, `DecodeInvariant`, `DecodedHolds`; and of both parts
side by side `ReceiveTypes`.

**`Json_proofs`** (about the accessors, for any text).  A text is a list of values with depths
(`IsText`); what lies in a container lies behind it in one piece (`AfterIs`), so that going on by
offsets visits the children in their order.  The loops of `yyjson_arr_get`, flat or not, and
`yyjson_obj_getn`, and the iterator, find what is written: `ArrGetIsElement`, `ObjGetIsSaid`.  These
are loops over data of any length.  The induction theorems of the library take operators as
parameters, so each induction here is made by hand: of the places at which the claim is false there
would be a least one (`LeastNatural`, from the well-foundedness of the naturals).

**`RequestBody_proofs`** (of `BodySpec`, for any bodies).  `BodyInv` follows the handler through the
body: what it has found so far is what is written there (`FieldsAre`, `ProfileIs`, `SpecIs`,
`KindsAre`, with the strings its encoder needs in every classifier passed), or the reason of the
refusal is in it (`FailedFor`), or what the process died of (`DiesFor`).  It rests on the two
theorems of `Json_proofs`.  Results: `BodyTypes`, `RequestReadHolds`, `RefusedForHolds`; and
of the three parts of a request side by side `MessageTypes`.

**`Process_proofs`** has the parts of the process that share no state with each other.

- `ServerSpec`, for any command lines, files of settings, handlers, addresses and bounds.  `ConfInv`:
  the options are what the arguments and the members *so far* say (`SoFar` is `Expected` of the part
  that has been read), and the iterator is at the name with its number.  `ServerInv` adds where main
  is and what is there by then (`PhaseOK`), who has the mutex, what holds while no two clients
  meet (`CalmOK`), and `RowsInv`: whoever has the mutex has written, or failed to write, the row
  next to the last place counted, and nobody else has.  That is where `lcm_internal_lock` is needed:
  two threads that wrote rows before either counted would number them alike.  Results: `ServerTypes`, `SettledHolds`, `StartHolds`, `TableHolds`, and
  `AcceptHolds`, which compares bytes: a 16- or 32-bit field read back is what was packed.
- `LogSpec`, for any number of threads.  `MeasuredOK` needs that whoever is about to write to
  `error.log` has measured it while it was below the limit: the entries above the limit are at most the
  threads that are at such a place (`RoomMeasured`).  `EntriesKept` needs that whoever has emptied a
  file is about to write (`LastComes`) and that a file that was there is only appended to
  (`Appending`).  Results: `LogTypes`, `MeasuredHolds`, `EntriesHold`.
- `DescSpec`, for any number of sessions, files and numbers.
  `Accounted` needs to know in which states a session can dial again with a socket still open:
  only after a re-admission that failed (`Trail`).  `OwnSocket` needs, under its proviso, whose
  number each place of a session's life works with, and that a number closed a second time is
  closed already or its own (`Holds`).  Results: `AccountedHolds`, `OwnSocketHolds`.

Liveness (`LcmLockReleased`, `ClearCompletes`, `FileEndsWait`, `KeepAliveEchoed`, `Readmitted`,
`AllReturned`, `WalkEnds`) is out of the prover's reach and model-checked only.  Also only
model-checked: `DocumentsOK`, which is about rings that are changed by loops over data of
any length, and `ProcessTypeOK`, of which the parts are proved for `Server`, `Log` and
`Descriptors` and the rest, the types of `MutableJson`, needs the ring to be whole.

## 5. What is not modelled

- `gctl_lcm_stat` (reads only); dry runs send nothing and poll for nothing (the message is built
  without a handle and dropped): a dry-run connect is in `LocalConnectionManager` (it skips the
  admission), a dry-run gate request has no effect.
- Failures of `pthread_*`, `malloc` and `socket`, and running out of descriptors.  (A `sock_connect`
  that gives up before the connect is in `Descriptors`, `DialFails`.)
- The answers of the web API: their wording, the times in them, the lengths of their buffers.
- In `Configuration`: the length limits of strings, an option without `=` that takes a number (it
  reads 0).
- In `Log`: entries of different lengths, the positions of two threads in one thread log, and the
  streams that `debug_raw` does not close (they are counted, in `leaked`, and bounded by nothing).
- `yyjson.c` is vendored; of its reader `Laid` has what it lays out and not how it reads
  characters, numbers and escapes.  Of `yyjson.h`, memory allocation, files and number formats are left out.
- The web framework (ulfius) is outside; unit tests and payload files have no state.

## 6. Plan

Done, in this order: the table every request goes through (`LocalConnectionManager`), and what it
promises (`Registry`), the
way an answer takes (`GateRpc`, `ReportDelivery`), the session those two rest on (`Session`),
the bytes under it (`Framing`), what a request becomes on the way (`GateMessage`), what is
in reports and decisions (`PcmmObjects`, `ReportDecode`, `GateEncoding`, `RequestBody`), the process
around them (`Configuration`, `Server`, `CopsMessages`, `Descriptors`, `Log`, `Json`, `MutableJson`),
and the proofs of section 4.

Next:

1. `PolicyServer`: sessions, table and reports composed, so that a gate request runs from lookup to
   answer while its session is being re-admitted or cleared.
2. A proof of `DocumentsOK` for containers of any size.
