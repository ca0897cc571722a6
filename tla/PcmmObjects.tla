----------------------------- MODULE PcmmObjects -----------------------------
(***************************************************************************)
(* The objects of PacketCable Multimedia, as pcmm.c writes and reads them. *)
(*                                                                         *)
(* An object is its kind (number and type, one byte each) and its body, a  *)
(* row of 16-bit words in network order.  The encoders are those of a      *)
(* decision, which the server sends; the decoders those of a report, which *)
(* the CMTS sends.  An IPv4 address is a pair of words.                    *)
(***************************************************************************)
EXTENDS Naturals, Sequences

MaxWord   == 65535
Word      == 0 .. MaxWord
Kind(num, type) == num * 256 + type
Num(kind)       == kind \div 256
Type(kind)      == kind % 256

\* pack_u16_be, and two of pack_u8: a value is cut to the width of its field.
U16(v) == v % 65536

Bytes(hi, lo) ==
    Kind(hi % 256, lo % 256)

GateId   == Kind(4, 1)
GateSpec == Kind(5, 1)
Legacy   == Kind(6, 1)
Extended == Kind(6, 2)
IPv6     == Kind(6, 3)
FlowSpec == Kind(7, 1)
ServiceClassName == Kind(7, 2)

-----------------------------------------------------------------------------
(* The encoders.                                                           *)

Encoded(kind, body) == [kind |-> kind, body |-> body]

\* vtof
Flags(direction, dscp_enable, persistence) ==
    (IF direction = "upstream" THEN 1 ELSE 0) + (2 * (dscp_enable % 2)) + (4 * (persistence % 2))

\* vtoc
Class(priority, preemption, conf) == (priority % 8) + (8 * (preemption % 2)) + (16 * (conf % 16))

TransactionId(id, command) == Encoded(Kind(1, 1), <<U16(id), U16(command)>>)
ApplicationId(tag, type)   == Encoded(Kind(2, 1), <<U16(tag), U16(type)>>)
SubscriberId4(ip)          == Encoded(Kind(3, 1), ip)
SubscriberId6(groups)      == Encoded(Kind(3, 2), groups)
GateIdentifier(id)         == Encoded(GateId, id)

\* Mutant of Gate: the timers in another order.
Gate_timers(g, priority, preemption) ==
    Encoded(GateSpec,
        <<Bytes(Flags(g.direction, g.overwrite, 0), g.overwrite),
          Bytes(g.mask, Class(priority, preemption, 0)),
          U16(g.t1), U16(g.t3), U16(g.t2), 0>>)

\* pcmm_gate; the timer T4 is always zero.
Gate(g, priority, preemption) ==
    Encoded(GateSpec,
        <<Bytes(Flags(g.direction, g.overwrite, 0), g.overwrite),
          Bytes(g.mask, Class(priority, preemption, 0)),
          U16(g.t1), U16(g.t2), U16(g.t3), 0>>)

LegacyClassifier(c) ==
    Encoded(Legacy,
        <<U16(c.protocol), Bytes(c.field, c.mask), c.src_ip[1], c.src_ip[2], c.dst_ip[1], c.dst_ip[2],
          U16(c.src_start), U16(c.dst_start), Bytes(c.priority, 0), 0>>)

ExtendedClassifier(c) ==
    Encoded(Extended,
        <<U16(c.protocol), Bytes(c.field, c.mask), c.src_ip[1], c.src_ip[2], c.src_mask[1], c.src_mask[2],
          c.dst_ip[1], c.dst_ip[2], c.dst_mask[1], c.dst_mask[2],
          U16(c.src_start), U16(c.src_end), U16(c.dst_start), U16(c.dst_end), U16(c.id),
          Bytes(c.priority, c.state), Bytes(c.action, 0), 0>>)

\* pcmm_ipv6_classifier up to its addresses, and behind them.
IPv6Front(c) ==
    <<Bytes(0, c.tc_low), Bytes(c.tc_high, c.tc_mask), U16(c.flow_label \div 65536), U16(c.flow_label),
      U16(c.next_header), Bytes(c.src_prefix, c.dst_prefix)>>
IPv6Back(c) ==
    <<U16(c.src_start), U16(c.src_end), U16(c.dst_start), U16(c.dst_end), U16(c.id),
      Bytes(c.priority, c.state), Bytes(c.action, 0), 0>>
IPv6Classifier(c, addresses) ==
    Encoded(IPv6, IPv6Front(c) \o addresses \o IPv6Back(c))

\* bitrates: rates as IEEE numbers (10000, 200, 10000 and 10000), sizes as integers.
Bitrates == <<17948, 16384, 17224, 0, 17948, 16384, 0, 200, 0, 200, 17948, 16384, 0, 2000>>

FlowSpecEnvelope(service_number) ==
    Encoded(FlowSpec, <<Bytes(7, service_number), 0>> \o Bitrates \o Bitrates \o Bitrates)

\* pcmm_scn_envelope: what is in memory from the name on, its end included; zeros
\* go before it, and eight bytes are copied.
ScnEnvelope(memory, length) ==
    LET alignment == (length + 1) % 4
        byte(i) == IF i = 0 THEN 7
                   ELSE IF i - 3 - alignment \in 0 .. 7 THEN memory[i - 2 - alignment] ELSE 0
    IN Encoded(ServiceClassName, [w \in 1 .. 8 |-> Bytes(byte(2 * w - 2), byte(2 * w - 1))])

-----------------------------------------------------------------------------
(* The decoders.                                                           *)

\* pcmm_otoact, by its code; 0 is "NIL".
Action(code) ==
    IF code % 256 \in 1 .. 14 THEN code % 256 ELSE 0

\* pcmm_otoerr, by its code; 0 is "NIL".
Description(code) == IF code % 256 \in 1 .. 26 \cup {127} THEN code % 256 ELSE 0

\* A report: pcmm_rpt_t with the classifier type and report_required.
Fresh ==
    [transaction |-> 0, gate_cmd |-> 0, application |-> <<0, 0>>, gate_id |-> <<0, 0>>,
     spec |-> <<0, 0, 0, 0, 0, 0>>,
     src_start |-> 0, src_end |-> 0, dst_start |-> 0, dst_end |-> 0, id |-> 0, rest |-> <<0, 0>>,
     error |-> <<0, 0, 0>>, classifier |-> "none", state |-> FALSE]

Reports ==
    [transaction : Word, gate_cmd : 0 .. 14, application : Word \X Word, gate_id : Word \X Word,
     spec : Word \X Word \X Word \X Word \X Word \X Word,
     src_start : Word, src_end : Word, dst_start : Word, dst_end : Word, id : Word, rest : Word \X Word,
     error : Word \X Word \X (0 .. 26 \cup {127}), classifier : {"none", "legacy", "extended"}, state : BOOLEAN]

\* pcmm_decode_gate: flags, class and the timers.
DecodeGate(r, b) ==
    [r EXCEPT !.spec = <<Num(b[0]), Type(b[1]), b[2], b[3], b[4], b[5]>>]

\* pcmm_decode_classifier: a legacy classifier has no id and no end of a range.
DecodeClassifier(r, b) ==
    [r EXCEPT !.classifier = "legacy", !.src_start = b[6], !.dst_start = b[7]]

DecodeExtended(r, b) ==
    [r EXCEPT !.classifier = "extended", !.src_start = b[10], !.src_end = b[11],
              !.dst_start = b[12], !.dst_end = b[13], !.id = b[14], !.rest = <<b[15], Num(b[16])>>]

DecodeTransaction(r, b) == [r EXCEPT !.transaction = b[0], !.gate_cmd = Action(b[1])]
DecodeApplication(r, b) == [r EXCEPT !.application = <<b[0], b[1]>>]
DecodeError(r, b)       == [r EXCEPT !.error = <<b[0], b[1], Description(b[0])>>]

\* pcmm_gatestate_rpt: the report is not written, unless there is no reason
\* or another one.
GateState(b) == b[1] \notin {0, 65535}
DecodeState(r, b) == [r EXCEPT !.state = GateState(b)]

\* ps_pcmm_report: what an object with the body b does to the report r.
Decode(r, kind, b) ==
    CASE kind = GateId -> [r EXCEPT !.gate_id = <<b[0], b[1]>>]
      [] kind = GateSpec -> DecodeGate(r, b)
      [] kind = Legacy -> DecodeClassifier(r, b)
      [] kind = Extended -> DecodeExtended(r, b)
      [] Num(kind) = 1 -> DecodeTransaction(r, b)
      [] Num(kind) = 2 -> DecodeApplication(r, b)
      [] Num(kind) = 14 -> DecodeError(r, b)
      [] Num(kind) = 15 -> DecodeState(r, b)
      [] OTHER -> r

=============================================================================
