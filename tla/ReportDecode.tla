---------------------------- MODULE ReportDecode ----------------------------
(***************************************************************************)
(* What the session thread makes of a message once it is in its buffer:    *)
(* ps_recvd walks over the COPS objects of the message, ps_pcmm_report     *)
(* over the PCMM objects of a report, and the report goes to a file.       *)
(*                                                                         *)
(* The buffer is a sequence of 16-bit words; a place in it is a number of  *)
(* bytes.  An object begins with its length and its kind (number and type, *)
(* one byte each).  Neither walk trusts what it does not know: of a kind   *)
(* that is not valid it takes the header alone, and the body of such an    *)
(* object is read as if it were headers.  The CMTS keeps to cops.h: objects are made *)
(* of four-byte words, a handle is one of them, and lengths are right.     *)
(***************************************************************************)
EXTENDS PcmmObjects, FiniteSets

CONSTANT Messages  \* the messages a CMTS may send, numbered

\* The objects of a message, of a report: where each begins, what it is and
\* how long; `inner` are the objects of a report inside a ClientSI object.
Slots == [at : Nat, kind : Word, length : Nat]
Parts == [at : Nat, kind : Word, length : Nat, inner : Seq(Slots)]

\* A word of a buffer.  What is behind a message has been set to zero.
At(words, i) == IF i \div 2 < Len(words) THEN words[i \div 2 + 1] ELSE 0

\* The objects lie one behind the other, from the place `from` to `to`.
Laid(words, objs, from, to) ==
    /\ objs # <<>> => objs[1].at = from
    /\ objs = <<>> => from = to
    /\ \A k \in 1 .. Len(objs) :
          /\ objs[k].length >= 4
          /\ objs[k].at % 2 = 0 /\ objs[k].length % 4 = 0
          /\ At(words, objs[k].at) = objs[k].length
          /\ At(words, objs[k].at + 2) = objs[k].kind
          /\ objs[k].at + objs[k].length = IF k = Len(objs) THEN to ELSE objs[k + 1].at

ASSUME MessagesAssumption ==
    /\ Messages \in Seq([opcode : {"REQ", "RPT"}, words : Seq(Word), parts : Seq(Parts)])
    /\ \A n \in 1 .. Len(Messages) : LET m == Messages[n] IN
        /\ Laid(m.words, m.parts, 0, 2 * Len(m.words))
        \* What passes for a header says a length that is not odd, and of a
        \* report one that is not less than its header.
        /\ \A i \in 1 .. Len(m.words) - 1 :
              Type(m.words[i + 1]) \in 1 .. 3 /\ Num(m.words[i + 1]) \in 1 .. 19 =>
                 m.words[i] % 2 = 0 /\ (Num(m.words[i + 1]) = 9 => m.words[i] >= 4)
        /\ \A p \in 1 .. Len(m.parts) :
              IF Num(m.parts[p].kind) = 9
              THEN Laid(m.words, m.parts[p].inner, m.parts[p].at + 4, m.parts[p].at + m.parts[p].length)
              ELSE m.parts[p].inner = <<>> /\ (Num(m.parts[p].kind) = 1 => m.parts[p].length = 8)

-----------------------------------------------------------------------------
(* The kinds of objects.                                                   *)

\* cops_class_ok
ClassOk(kind) == Num(kind) \in {1, 2, 6, 8, 9, 10, 11, 12} /\ Type(kind) \in 1 .. 3

\* An object of the message m with a report in it, and one with a handle.
ReportIn(m, kind) == ClassOk(kind) /\ Num(kind) = 9 /\ m.opcode = "RPT"
HandleIn(kind)    == ClassOk(kind) /\ Num(kind) = 1

\* What ps_pcmm_report does not pass over.
Known(kind) == Num(kind) \in 1 .. 19 /\ Type(kind) \in 1 .. 2

-----------------------------------------------------------------------------
VARIABLES
    walk,      \* idle, over the objects of the message, over those of a report
    message,   \* the number of the message in the buffer, 0 for none
    idx,       \* idx of ps_recvd, counted behind the header
    rpt_idx,   \* rpt_idx of ps_pcmm_report, counted as idx is
    end_idx,   \* where the report ends
    rpt,       \* the report so far
    filed,     \* what has been written for this message
    handle, uuid_received,  \* of the session
    before     \* these two, when the message came

decode_vars == <<walk, message, idx, rpt_idx, end_idx, rpt, filed, handle, uuid_received, before>>

Handles == Word \X Word

\* What a file says, by its format: the labels of orpfmt and of the formats of
\* write_report; `spec` has the members flags, class and t1 to t4 of "spec", and
\* `rest` the priority, the state and the action.
SpecWords == Word \X Word \X Word \X Word \X Word \X Word
Entries ==
    [format : {"orphan"}, gate_id : Word \X Word, gate_cmd : 0 .. 14]
    \cup [format : {"error"}, gate_id : Word \X Word, gate_cmd : 0 .. 14, application_id : {0},
          error : Word \X Word \X (0 .. 26 \cup {127})]
    \cup [format : {"none"}, gate_id : Word \X Word, gate_cmd : 0 .. 14, application_id : Word]
    \cup [format : {"legacy"}, gate_id : Word \X Word, gate_cmd : 0 .. 14, application_id : Word,
          spec : SpecWords, classifier_id : Word, src_port_start : Word, src_port_end : Word]
    \cup [format : {"extended"}, gate_id : Word \X Word, gate_cmd : 0 .. 14, application_id : Word,
          spec : SpecWords, classifier_id : Word, src_port_start : Word, src_port_end : Word,
          dst_port_start : Word, dst_port_end : Word, rest : Word \X Word]

DecodeTypeOK ==
    /\ walk \in {"idle", "objects", "report"}
    /\ message \in 0 .. Len(Messages)
    /\ idx \in Nat /\ rpt_idx \in Nat /\ end_idx \in Nat
    /\ rpt \in Reports
    /\ filed \in Seq(Entries)
    /\ handle \in Handles /\ uuid_received \in BOOLEAN
    /\ before \in [handle : Handles, uuid_received : BOOLEAN]

DecodeInit ==
    /\ walk = "idle"
    /\ message = 0
    /\ idx = 0 /\ rpt_idx = 0 /\ end_idx = 0
    /\ rpt = Fresh
    /\ filed = <<>>
    /\ handle = <<0, 0>> /\ uuid_received = FALSE
    /\ before = [handle |-> <<0, 0>>, uuid_received |-> FALSE]

Text == IF message = 0 THEN [opcode |-> "none", words |-> <<>>, parts |-> <<>>]
        ELSE Messages[message]

Here(i) == At(Text.words, i)

\* The body of the object at i: its words, one after the other.
Body(i) == [n \in 0 .. 16 |-> Here(i + 4 + 2 * n)]

-----------------------------------------------------------------------------
(* ps_recvd                                                                *)

\* A message has come, and its objects are next.
Recv(m) ==
    /\ walk = "idle"
    /\ message' = m
    /\ filed' = <<>>
    /\ before' = [handle |-> handle, uuid_received |-> uuid_received]
    /\ walk' = "objects"
    /\ UNCHANGED <<idx, rpt_idx, end_idx, rpt, handle, uuid_received>>

\* The connection is made anew: the next handle counts.
Reconnect ==
    /\ walk = "idle"
    /\ uuid_received
    /\ uuid_received' = FALSE
    /\ before' = [before EXCEPT !.uuid_received = FALSE]
    /\ message' = 0
    /\ filed' = <<>>
    /\ UNCHANGED <<walk, idx, rpt_idx, end_idx, rpt, handle>>

More   == walk = "objects" /\ idx < 2 * Len(Text.words)
Object == Here(idx + 2)

IsReport == ReportIn(Text, Object)
IsHandle == HandleIn(Object) /\ ~uuid_received

\* The header of an object nothing is done about, or what looks like one.
PassObject ==
    /\ More
    /\ ~IsReport /\ ~IsHandle
    /\ idx' = idx + 4
    /\ UNCHANGED <<walk, message, rpt_idx, end_idx, rpt, filed, handle, uuid_received, before>>

\* The first handle of the connection.
TakeHandle ==
    /\ More
    /\ IsHandle
    /\ handle' = <<Here(idx + 4), Here(idx + 6)>>
    /\ uuid_received' = TRUE
    /\ idx' = idx + 8
    /\ UNCHANGED <<walk, message, rpt_idx, end_idx, rpt, filed, before>>

\* ps_pcmm_report is called; of an empty report it wants nothing.
OpenReport ==
    /\ More
    /\ IsReport
    /\ idx' = idx + 4
    /\ IF Here(idx) = 4
       THEN UNCHANGED <<walk, rpt_idx, end_idx, rpt>>
       ELSE /\ rpt_idx' = idx + 4
            /\ end_idx' = idx + Here(idx)
            /\ rpt' = Fresh
            /\ walk' = "report"
    /\ UNCHANGED <<message, filed, handle, uuid_received, before>>

\* The end of the message.
EndMessage ==
    /\ walk = "objects"
    /\ idx >= 2 * Len(Text.words)
    /\ walk' = "idle"
    /\ idx' = 0
    /\ UNCHANGED <<message, rpt_idx, end_idx, rpt, filed, handle, uuid_received, before>>

-----------------------------------------------------------------------------
(* ps_pcmm_report                                                          *)

\* Mutant of PassWord: the header is read and not passed.
PassWord_stays ==
    /\ walk = "report"
    /\ rpt_idx < end_idx
    /\ ~Known(Here(rpt_idx + 2))
    /\ rpt_idx' = rpt_idx
    /\ UNCHANGED <<walk, message, idx, end_idx, rpt, filed, handle, uuid_received, before>>

\* A kind that is not known.
PassWord ==
    /\ walk = "report"
    /\ rpt_idx < end_idx
    /\ ~Known(Here(rpt_idx + 2))
    /\ rpt_idx' = rpt_idx + 4
    /\ UNCHANGED <<walk, message, idx, end_idx, rpt, filed, handle, uuid_received, before>>

\* An object of a known kind.  A length of zero leads nowhere.
DecodeObject ==
    /\ walk = "report"
    /\ rpt_idx < end_idx
    /\ Known(Here(rpt_idx + 2))
    /\ rpt_idx' = rpt_idx + Here(rpt_idx)
    /\ rpt' = Decode(rpt, Here(rpt_idx + 2), Body(rpt_idx))
    /\ UNCHANGED <<walk, message, idx, end_idx, filed, handle, uuid_received, before>>

\* The formats of write_report, each with what is printed under its labels.  An
\* error says 0 for the application; the legacy format has the destination port
\* under src_port_end, and the classifier id an extended classifier may have
\* left, a legacy one having none.
ErrorEntry(r) ==
    [format |-> "error", gate_id |-> r.gate_id, gate_cmd |-> r.gate_cmd, application_id |-> 0,
     error |-> r.error]
DefaultEntry(r) ==
    [format |-> "none", gate_id |-> r.gate_id, gate_cmd |-> r.gate_cmd,
     application_id |-> r.application[2]]
LegacyEntry(r) ==
    [format |-> "legacy", gate_id |-> r.gate_id, gate_cmd |-> r.gate_cmd,
     application_id |-> r.application[2], spec |-> r.spec, classifier_id |-> r.id,
     src_port_start |-> r.src_start, src_port_end |-> r.dst_start]
ExtendedEntry(r) ==
    [format |-> "extended", gate_id |-> r.gate_id, gate_cmd |-> r.gate_cmd,
     application_id |-> r.application[2], spec |-> r.spec, classifier_id |-> r.id,
     src_port_start |-> r.src_start, src_port_end |-> r.src_end,
     dst_port_start |-> r.dst_start, dst_port_end |-> r.dst_end, rest |-> r.rest]

\* Mutant of WriteReport: the last classifier does not choose the format.
WriteReport_extended(r) ==
    IF r.error[3] # 0 THEN ErrorEntry(r)
    ELSE IF r.id # 0 THEN ExtendedEntry(r)
    ELSE IF r.classifier = "legacy" THEN LegacyEntry(r)
    ELSE DefaultEntry(r)

\* write_report: an error is told by its description, and one without is none.
WriteReport(r) ==
    IF r.error[3] # 0 THEN ErrorEntry(r)
    ELSE IF r.classifier = "legacy" THEN LegacyEntry(r)
    ELSE IF r.classifier = "extended" THEN ExtendedEntry(r)
    ELSE DefaultEntry(r)

\* ps_pcmm_report_decision: the report of a transaction goes to a file of that
\* number; that of a gate and no transaction is put with the orphans.
Entry(r) ==
    IF r.transaction = 0 /\ r.gate_id # <<0, 0>>
    THEN [format |-> "orphan", gate_id |-> r.gate_id, gate_cmd |-> r.gate_cmd]
    ELSE WriteReport(r)

NoReport == rpt_idx' = 0 /\ end_idx' = 0 /\ rpt' = Fresh

\* The end of the report: a file is written, or the state of a gate has
\* changed and none is.
FileReport ==
    /\ walk = "report"
    /\ rpt_idx >= end_idx
    /\ idx' = end_idx
    /\ filed' = IF rpt.state THEN filed ELSE Append(filed, Entry(rpt))
    /\ walk' = "objects"
    /\ NoReport
    /\ UNCHANGED <<message, handle, uuid_received, before>>

DecodeStep ==
    PassObject \/ TakeHandle \/ OpenReport \/ EndMessage \/ PassWord \/ DecodeObject \/ FileReport

DecodeNext ==
    \/ \E m \in 1 .. Len(Messages) : Recv(m)
    \/ Reconnect
    \/ DecodeStep

\* The thread of the session goes on with the message it has.
DecodeSpec == DecodeInit /\ [][DecodeNext]_decode_vars /\ WF_decode_vars(DecodeStep)

-----------------------------------------------------------------------------
(* Properties.  What a message m says does not depend on the walks.         *)

\* The kinds a body seems to hold, if it is read as headers.
Seeming(m, o) == {At(m.words, i + 2) : i \in {j \in o.at + 4 .. o.at + o.length - 1 : j % 4 = 0}}

\* No object of the message is taken for another; `received` is uuid_received
\* before it.
Plain(m, received) ==
    \A p \in 1 .. Len(m.parts) :
        LET part == m.parts[p] IN
        IF ReportIn(m, part.kind)
        THEN \A k \in 1 .. Len(part.inner) :
                Known(part.inner[k].kind) \/ \A kind \in Seeming(m, part.inner[k]) : ~Known(kind)
        ELSE \A kind \in Seeming(m, part) : ~ReportIn(m, kind) /\ (received \/ ~HandleIn(kind))

\* The last object of some kinds, 0 for none, and the words it says.
LastOf(objs, kinds) ==
    LET these == {k \in 1 .. Len(objs) : objs[k].kind \in kinds} IN
    IF these = {} THEN 0 ELSE CHOOSE k \in these : \A l \in these : l <= k

Said(m, objs, kinds, n) ==
    IF LastOf(objs, kinds) = 0 THEN 0 ELSE At(m.words, objs[LastOf(objs, kinds)].at + 4 + 2 * n)

Pair(m, objs, kinds, n) == <<Said(m, objs, kinds, n), Said(m, objs, kinds, n + 1)>>

\* The kinds of a number whose type is not looked at.
Both(num) == {Kind(num, 1), Kind(num, 2)}

\* The range of ports begins where the last classifier says, of either kind; a
\* legacy one has no more to say, and what an extended one said before stays.
Classified(m, r, objs) ==
    LET last == LastOf(objs, {Legacy, Extended}) IN
    /\ r.classifier = IF last = 0 THEN "none" ELSE IF objs[last].kind = Legacy THEN "legacy" ELSE "extended"
    /\ r.src_start = Said(m, objs, {Legacy, Extended}, IF r.classifier = "legacy" THEN 6 ELSE 10)
    /\ r.dst_start = Said(m, objs, {Legacy, Extended}, IF r.classifier = "legacy" THEN 7 ELSE 12)
    /\ <<r.src_end, r.dst_end>> = <<Said(m, objs, {Extended}, 11), Said(m, objs, {Extended}, 13)>>
    /\ r.id = Said(m, objs, {Extended}, 14)
    /\ r.rest = <<Said(m, objs, {Extended}, 15), Num(Said(m, objs, {Extended}, 16))>>

\* The report r says what its objects say, of each kind the last.
Means(m, r, objs) ==
    /\ r.transaction = Said(m, objs, Both(1), 0)
    /\ r.gate_cmd = Action(Said(m, objs, Both(1), 1))
    /\ r.application = Pair(m, objs, Both(2), 0)
    /\ r.gate_id = Pair(m, objs, {GateId}, 0)
    /\ r.spec = <<Num(Said(m, objs, {GateSpec}, 0)), Type(Said(m, objs, {GateSpec}, 1)),
                  Said(m, objs, {GateSpec}, 2), Said(m, objs, {GateSpec}, 3),
                  Said(m, objs, {GateSpec}, 4), Said(m, objs, {GateSpec}, 5)>>
    /\ r.error = <<Said(m, objs, Both(14), 0), Said(m, objs, Both(14), 1),
                   Description(Said(m, objs, Both(14), 0))>>
    /\ Classified(m, r, objs)

\* The objects of a message with a report that is written, and the how-manieth
\* of them an object is.
Written(m) ==
    {p \in 1 .. Len(m.parts) :
        /\ ReportIn(m, m.parts[p].kind) /\ m.parts[p].length > 4
        /\ Said(m, m.parts[p].inner, Both(15), 1) \in {0, 65535}}
Rank(m, p) == Cardinality({q \in Written(m) : q <= p})

\* The format of the file, and what each of its labels says by the objects of
\* the report.
FormatOf(m, objs) ==
    LET last == LastOf(objs, {Legacy, Extended}) IN
    IF Said(m, objs, Both(1), 0) = 0 /\ Pair(m, objs, {GateId}, 0) # <<0, 0>> THEN "orphan"
    ELSE IF Description(Said(m, objs, Both(14), 0)) # 0 THEN "error"
    ELSE IF last = 0 THEN "none"
    ELSE IF objs[last].kind = Legacy THEN "legacy" ELSE "extended"

\* Labels of the formats with a spec; in a legacy one src_port_end is where the
\* range of destination ports begins, and the classifier id that of an extended
\* classifier before it.
TellsSpec(m, file, objs) ==
    /\ file.spec = <<Num(Said(m, objs, {GateSpec}, 0)), Type(Said(m, objs, {GateSpec}, 1)),
                     Said(m, objs, {GateSpec}, 2), Said(m, objs, {GateSpec}, 3),
                     Said(m, objs, {GateSpec}, 4), Said(m, objs, {GateSpec}, 5)>>
    /\ file.classifier_id = Said(m, objs, {Extended}, 14)
    /\ file.format = "legacy" =>
          <<file.src_port_start, file.src_port_end>> = Pair(m, objs, {Legacy, Extended}, 6)
    /\ file.format = "extended" =>
          /\ <<file.src_port_start, file.src_port_end>> = Pair(m, objs, {Extended}, 10)
          /\ <<file.dst_port_start, file.dst_port_end>> = Pair(m, objs, {Extended}, 12)
          /\ file.rest = <<Said(m, objs, {Extended}, 15), Num(Said(m, objs, {Extended}, 16))>>

\* An error is filed with the application 0, whatever application was named.
Tells(m, file, objs) ==
    /\ file.format = FormatOf(m, objs)
    /\ file.gate_id = Pair(m, objs, {GateId}, 0)
    /\ file.gate_cmd = Action(Said(m, objs, Both(1), 1))
    /\ file.format # "orphan" =>
          file.application_id = IF file.format = "error" THEN 0 ELSE Said(m, objs, Both(2), 1)
    /\ file.format = "error" =>
          file.error = <<Said(m, objs, Both(14), 0), Said(m, objs, Both(14), 1),
                         Description(Said(m, objs, Both(14), 0))>>
    /\ file.format \in {"legacy", "extended"} => TellsSpec(m, file, objs)

Finished == walk = "idle" /\ message # 0

\* Every report is written once and in order, in the format its objects call
\* for, and under each label of that format is the field Tells names, from the
\* last object of its kind: found under its transaction or else among the
\* orphans, an error if the CMTS gave one that has a description.  A report of a
\* gate's state is not written, except with no reason or the reason 65535, which
\* is more than the comment at ps.c:466-470 has.  (ps_pcmm_report,
\* ps_pcmm_report_decision, write_report and the decoders of pcmm.c.)
Filed ==
    Finished /\ Plain(Text, before.uuid_received) =>
        /\ Len(filed) = Cardinality(Written(Text))
        /\ \A p \in Written(Text) : Tells(Text, filed[Rank(Text, p)], Text.parts[p].inner)

\* The handle of a session is the first one since it was connected.
HandleRead ==
    Finished /\ Plain(Text, before.uuid_received) =>
        LET handles == {p \in 1 .. Len(Text.parts) : HandleIn(Text.parts[p].kind)} IN
        IF before.uuid_received \/ handles = {}
        THEN [handle |-> handle, uuid_received |-> uuid_received] = before
        ELSE /\ uuid_received
             /\ \E p \in handles :
                   /\ \A q \in handles : p <= q
                   /\ handle = <<Here(Text.parts[p].at + 4), Here(Text.parts[p].at + 6)>>

\* What is in a message is kept: the reports in files, and the handle.
Decoded == Filed /\ HandleRead

\* Whatever the bodies hold, the walks come to an end, unless a word of a body
\* passes for the header of an object with no length.
Trapless == \A i \in 0 .. Len(Text.words) : Known(Here(2 * i + 2)) => Here(2 * i) # 0

WalkEnds == (walk # "idle" /\ Trapless) ~> walk = "idle"
=============================================================================
