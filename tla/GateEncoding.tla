----------------------------- MODULE GateEncoding -----------------------------
(***************************************************************************)
(* The handlers of the web API write the objects of a decision: the        *)
(* envelope, a classifier and the gate spec in gctl_04, the subscriber in  *)
(* ps_proxy.  An IPv6 address is taken apart by strtok, which keeps its    *)
(* place in a variable of the process: a handler that asks for the next    *)
(* group while another one is at an address may get a group of that one.   *)
(***************************************************************************)
EXTENDS Integers, PcmmObjects

CONSTANTS
    Handlers,  \* threads of the web framework
    Policies,  \* what they may be asked to send
    Groups,    \* of the IPv6 addresses; strtok passes over an empty group
    Leftover,  \* values of a part of the stack that is never set
    Behind,    \* what is in memory behind a name
    MaxBegun   \* bound: requests begun before no handler is at one

\* Members of a request that are ints of the handler.
GateFields == {"overwrite", "mask", "t1", "t2", "t3"}
ClassifierFields ==
    {"src_start", "src_end", "dst_start", "dst_end", "id", "protocol", "field", "mask",
     "priority", "state", "action"}
IPv6Fields == {"tc_low", "tc_high", "tc_mask", "flow_label", "next_header", "src_prefix", "dst_prefix"}

Holds(r, fields, values) == fields \subseteq DOMAIN r /\ \A f \in fields : r[f] \in values

ASSUME PoliciesAssumption ==
    /\ Groups \subseteq Seq(Word) \ {<<>>}
    /\ \A p \in Policies :
          /\ p.profile \in {"scn", "flow_spec"} /\ p.service_number \in Int
          /\ p.profile = "scn" => p.name \in Seq(1 .. 255)
          /\ Holds(p.gate, GateFields, Int)
          /\ Holds(p.classifier, {"type"}, {"legacy", "extended", "ipv6"})
          /\ Holds(p.classifier, ClassifierFields, Int)
          /\ p.classifier.type # "ipv6" => Holds(p.classifier, {"src_ip", "dst_ip"}, Word \X Word)
          /\ p.classifier.type = "extended" => Holds(p.classifier, {"src_mask", "dst_mask"}, Word \X Word)
          /\ p.classifier.type = "ipv6" =>
                /\ Holds(p.classifier, {"src_ip6", "dst_ip6"}, Groups)
                /\ Holds(p.classifier, IPv6Fields, Int)
          /\ p.version \in {4, 6}
          /\ p.version = 6 => p.subscriber \in Groups
    /\ \A left \in Leftover : left.priority \in Int /\ left.preemption \in Int
    /\ Behind \in Seq(0 .. 255) /\ Len(Behind) = 8
    /\ MaxBegun \in Nat

VARIABLES
    stage,    \* of a handler: what it writes next
    asked,   \* what it was asked to send
    packed,   \* the objects it has written
    body,     \* the addresses of the object it is at
    groups,   \* how many groups it has written of the address it is at
    strtok,   \* the groups strtok has still to give
    begun,    \* requests since no handler was at one
    alone     \* no other handler has called strtok between two calls of this one

encode_vars == <<stage, asked, packed, body, groups, strtok, begun, alone>>

Stages == {"idle", "envelope", "classifier", "source", "destination", "gate", "subscriber", "ready"}

\* The length an object has in words: what GateMessage counts in bytes.
BodyLength(kind) ==
    CASE kind = GateSpec -> 6 [] kind = FlowSpec -> 44 [] kind = ServiceClassName -> 8
      [] kind = Legacy -> 10 [] kind = Extended -> 18 [] kind = IPv6 -> 30
      [] kind = Kind(3, 2) -> 8 [] OTHER -> 2

EncodeTypeOK ==
    /\ stage \in [Handlers -> Stages]
    /\ \A h \in Handlers :
          /\ \A k \in 1 .. Len(packed[h]) :
                packed[h][k].body \in [1 .. BodyLength(packed[h][k].kind) -> Word]
          /\ body[h] \in [1 .. 16 -> Word]
          /\ groups[h] \in Nat /\ alone[h] \in BOOLEAN
    /\ strtok \in Seq(Word)
    /\ begun \in 0 .. MaxBegun

NotAsked == [profile |-> "none"]
Zeros    == [w \in 1 .. 16 |-> 0]

EncodeInit ==
    /\ stage = [h \in Handlers |-> "idle"]
    /\ asked = [h \in Handlers |-> NotAsked]
    /\ packed = [h \in Handlers |-> <<>>]
    /\ body = [h \in Handlers |-> Zeros]
    /\ groups = [h \in Handlers |-> 0]
    /\ strtok = <<>>
    /\ begun = 0
    /\ alone = [h \in Handlers |-> TRUE]

Goto(h, next) == stage' = [stage EXCEPT ![h] = next]
Pack(h, o)    == packed' = [packed EXCEPT ![h] = Append(@, o)]

-----------------------------------------------------------------------------
Begin(h, p) ==
    /\ stage[h] = "idle"
    /\ begun < MaxBegun
    /\ begun' = begun + 1
    /\ asked' = [asked EXCEPT ![h] = p]
    /\ Goto(h, "envelope")
    /\ UNCHANGED <<packed, body, groups, strtok, alone>>

PackEnvelope(h) ==
    /\ stage[h] = "envelope"
    /\ Pack(h, IF asked[h].profile = "scn"
               THEN ScnEnvelope(asked[h].name \o <<0>> \o Behind, Len(asked[h].name))
               ELSE FlowSpecEnvelope(asked[h].service_number))
    /\ Goto(h, "classifier")
    /\ UNCHANGED <<asked, body, groups, strtok, begun, alone>>

\* A priority of zero is none, and 64 is put for it.
Classifier(h) == LET c == asked[h].classifier IN
    IF c.priority = 0 THEN [c EXCEPT !.priority = 64] ELSE c

PackClassifier(h) ==
    /\ stage[h] = "classifier"
    /\ LET c == Classifier(h) IN
       CASE c.type = "legacy"   -> Pack(h, LegacyClassifier(c)) /\ Goto(h, "gate")
         [] c.type = "extended" -> Pack(h, ExtendedClassifier(c)) /\ Goto(h, "gate")
         [] c.type = "ipv6"     -> Goto(h, "source") /\ UNCHANGED packed
    /\ UNCHANGED <<asked, body, groups, strtok, begun, alone>>

\* The session class is made of two fields that were never set.
PackSpec(h, left) ==
    /\ stage[h] = "gate"
    /\ Pack(h, Gate(asked[h].gate, left.priority, left.preemption))
    /\ Goto(h, IF asked[h].version = 6 THEN "subscriber" ELSE "ready")
    /\ UNCHANGED <<asked, body, groups, strtok, begun, alone>>

-----------------------------------------------------------------------------
(* pack_ip6.                                                               *)

\* The address to be written, and where the words before it end.
Given(h) ==
    CASE stage[h] = "source" -> asked[h].classifier.src_ip6
      [] stage[h] = "destination" -> asked[h].classifier.dst_ip6
      [] stage[h] = "subscriber" -> asked[h].subscriber
Base(h) == IF stage[h] = "destination" THEN 8 ELSE 0

AtAddress(h) == stage[h] \in {"source", "destination", "subscriber"}

\* A call of strtok by h; others between two calls of theirs are not alone.
Called(h) == alone' = [g \in Handlers |-> alone[g] /\ (g = h \/ groups[g] = 0)]

\* A group that is written; one too many goes into the next field.
WriteGroup(h, group) ==
    /\ body' = [body EXCEPT ![h][Base(h) + groups[h] + 1] = group]
    /\ groups' = [groups EXCEPT ![h] = @ + 1]

\* Mutant of FirstGroup: strtok goes on where it was.
FirstGroup_goes_on(h) ==
    /\ AtAddress(h) /\ groups[h] = 0
    /\ WriteGroup(h, Head(strtok \o Given(h)))
    /\ strtok' = Tail(strtok \o Given(h))
    /\ Called(h)
    /\ UNCHANGED <<stage, asked, packed, begun>>

\* strtok is given the address.
FirstGroup(h) ==
    /\ AtAddress(h) /\ groups[h] = 0
    /\ WriteGroup(h, Head(Given(h)))
    /\ strtok' = Tail(Given(h))
    /\ Called(h)
    /\ UNCHANGED <<stage, asked, packed, begun>>

NextGroup(h) ==
    /\ groups[h] > 0
    /\ strtok # <<>>
    /\ WriteGroup(h, Head(strtok))
    /\ strtok' = Tail(strtok)
    /\ Called(h)
    /\ UNCHANGED <<stage, asked, packed, begun>>

\* strtok has no more: the object is complete, or the next address is due.
\* The source may have gone into the destination; what is behind that is
\* written later, and behind a subscriber is another variable.
LastGroup(h) ==
    /\ groups[h] > 0
    /\ strtok = <<>>
    /\ groups' = [groups EXCEPT ![h] = 0]
    /\ Called(h)
    /\ IF stage[h] = "source"
       THEN Goto(h, "destination") /\ UNCHANGED <<packed, body>>
       ELSE /\ body' = [body EXCEPT ![h] = Zeros]
            /\ IF stage[h] = "destination"
               THEN /\ Pack(h, IPv6Classifier(Classifier(h), SubSeq(body[h], 1, 16)))
                    /\ Goto(h, "gate")
               ELSE /\ Pack(h, SubscriberId6(SubSeq(body[h], 1, 8)))
                    /\ Goto(h, "ready")
    /\ UNCHANGED <<asked, strtok, begun>>

\* The message has been sent.
Done(h) ==
    /\ stage[h] = "ready"
    /\ Goto(h, "idle")
    /\ asked' = [asked EXCEPT ![h] = NotAsked]
    /\ packed' = [packed EXCEPT ![h] = <<>>]
    /\ alone' = [alone EXCEPT ![h] = TRUE]
    /\ begun' = IF \A g \in Handlers \ {h} : stage[g] = "idle" THEN 0 ELSE begun
    /\ UNCHANGED <<body, groups, strtok>>

EncodeNext == \E h \in Handlers :
    \/ \E p \in Policies : Begin(h, p)
    \/ \E left \in Leftover : PackSpec(h, left)
    \/ PackEnvelope(h) \/ PackClassifier(h)
    \/ FirstGroup(h) \/ NextGroup(h) \/ LastGroup(h)
    \/ Done(h)

EncodeSpec == EncodeInit /\ [][EncodeNext]_encode_vars

-----------------------------------------------------------------------------
(* Properties.                                                             *)

\* A byte of an object, two and four of them, by their place in the tables of
\* pcmm.h: counted from the header of the object on, which has 4.
Short(o, i) == o.body[((i - 4) \div 2) + 1]
Octet(o, i) == IF i % 2 = 0 THEN Num(Short(o, i)) ELSE Type(Short(o, i))
Long(o, i)  == <<Short(o, i), Short(o, i + 2)>>

EnvelopeSays(o, p) ==
    IF p.profile = "scn" THEN o.kind = ServiceClassName
    ELSE o.kind = FlowSpec /\ Octet(o, 5) = p.service_number % 256

ProtocolSays(o, c) ==
    Short(o, 4) = U16(c.protocol) /\ Octet(o, 6) = c.field % 256 /\ Octet(o, 7) = c.mask % 256

\* Ports, id, priority, state and action, from the byte i on.
RangesSay(o, i, c) ==
    /\ Short(o, i) = U16(c.src_start)     /\ Short(o, i + 2) = U16(c.src_end)
    /\ Short(o, i + 4) = U16(c.dst_start) /\ Short(o, i + 6) = U16(c.dst_end)
    /\ Short(o, i + 8) = U16(c.id)
    /\ Octet(o, i + 10) = c.priority % 256 /\ Octet(o, i + 11) = c.state % 256
    /\ Octet(o, i + 12) = c.action % 256

LegacySays(o, c) ==
    /\ o.kind = Legacy /\ ProtocolSays(o, c)
    /\ Long(o, 8) = c.src_ip /\ Long(o, 12) = c.dst_ip
    /\ Short(o, 16) = U16(c.src_start) /\ Short(o, 18) = U16(c.dst_start)
    /\ Octet(o, 20) = c.priority % 256

ExtendedSays(o, c) ==
    /\ o.kind = Extended /\ ProtocolSays(o, c)
    /\ Long(o, 8) = c.src_ip  /\ Long(o, 12) = c.src_mask
    /\ Long(o, 16) = c.dst_ip /\ Long(o, 20) = c.dst_mask
    /\ RangesSay(o, 24, c)

\* The flow label has four bytes; the addresses, from 16 to 47, are OwnAddress's.
IPv6Says(o, c) ==
    /\ o.kind = IPv6
    /\ Octet(o, 5) = c.tc_low % 256 /\ Octet(o, 6) = c.tc_high % 256 /\ Octet(o, 7) = c.tc_mask % 256
    /\ Long(o, 8) = <<U16(c.flow_label \div 65536), U16(c.flow_label)>>
    /\ Short(o, 12) = U16(c.next_header)
    /\ Octet(o, 14) = c.src_prefix % 256 /\ Octet(o, 15) = c.dst_prefix % 256
    /\ RangesSay(o, 48, c)

ClassifierSays(o, c) ==
    /\ c.type = "legacy" => LegacySays(o, c)
    /\ c.type = "extended" => ExtendedSays(o, c)
    /\ c.type = "ipv6" => IPv6Says(o, c)

\* The session class at 7 is of the stack; the timer T4 is 0.
GateSays(o, g) ==
    /\ o.kind = GateSpec
    /\ Octet(o, 4) = (IF g.direction = "upstream" THEN 1 ELSE 0) + (2 * (g.overwrite % 2))
    /\ Octet(o, 5) = g.overwrite % 256 /\ Octet(o, 6) = g.mask % 256
    /\ Short(o, 8) = U16(g.t1)  /\ Short(o, 10) = U16(g.t2)
    /\ Short(o, 12) = U16(g.t3) /\ Short(o, 14) = 0

\* A policy is sent as the objects it was asked for, in their order, and every
\* field of the request is in its place of the tables of pcmm.h:223-342, in the
\* width of that place; a classifier without a priority has 64.  IPv6 addresses
\* are another property, as an interruption may change them.  (pcmm_gate, the
\* three classifiers and pcmm_flowspec_envelope, as gctl_04 calls them.)
FieldsSent == \A h \in Handlers : stage[h] = "ready" =>
    LET p == asked[h]
        s == packed[h]
        c == p.classifier
    IN  /\ Len(s) = IF p.version = 6 THEN 4 ELSE 3
        /\ EnvelopeSays(s[1], p)
        /\ ClassifierSays(s[2], IF c.priority = 0 THEN [c EXCEPT !.priority = 64] ELSE c)
        /\ GateSays(s[3], p.gate)
        /\ p.version = 6 => s[4].kind = Kind(3, 2)

\* The groups of an address, and zeros behind them.
Padded(groups8) == [w \in 1 .. 8 |-> IF w <= Len(groups8) THEN groups8[w] ELSE 0]

\* A handler that was not disturbed has sent the addresses it was asked to
\* send, and nothing of another request or an earlier one, whatever strtok was
\* left with.  (pack_ip6, called by pcmm_ipv6_classifier and ps_proxy.)
OwnAddress == \A h \in Handlers : stage[h] = "ready" /\ alone[h] =>
    \A k \in 1 .. Len(packed[h]) : LET b == packed[h][k].body IN
        /\ packed[h][k].kind = IPv6 =>
              /\ SubSeq(b, 7, 14) = Padded(asked[h].classifier.src_ip6)
              /\ SubSeq(b, 15, 22) = Padded(asked[h].classifier.dst_ip6)
        /\ packed[h][k].kind = Kind(3, 2) => b = Padded(asked[h].subscriber)

\* Where a service class name is: its first eight bytes, and a zero behind them,
\* so that nothing of what is in memory behind the name is read as part of it.
\* The padding comes before the name, as many zeros as its length and one more
\* leave over four; pcmm.h:367-370 has the name first and the padding behind it.
\* (pcmm_scn_envelope.)
NameSent == \A h \in Handlers : stage[h] = "ready" /\ asked[h].profile = "scn" =>
    LET o       == packed[h][1]
        name    == asked[h].name
        padding == (Len(name) + 1) % 4
        sent    == IF Len(name) < 8 THEN Len(name) ELSE 8
    IN  /\ Octet(o, 4) = 7
        /\ \A i \in 5 .. 6 + padding : Octet(o, i) = 0
        /\ \A k \in 1 .. sent : Octet(o, 6 + padding + k) = name[k]
        /\ Octet(o, 7 + padding + sent) = 0

\* A policy is sent as it was asked for.
SentAsAsked == FieldsSent /\ NameSent
=============================================================================
