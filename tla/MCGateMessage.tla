--------------------------- MODULE MCGateMessage ---------------------------
(* GateMessage, GateEncoding and RequestBody for TLC: the sizes and places  *)
(* of the objects, what is in them, and how the request is read.  None      *)
(* reads the state of the others, so it is enough to let one of them run    *)
(* while the others rest.                                                   *)
EXTENDS GateMessage, GateEncoding, RequestBody, MCJson, TLC

message_vars == <<vars, encode_vars, body_vars>>

MessageInit == Init /\ EncodeInit /\ BodyInit

BodyRests == reading = "idle"

MessageNext ==
    \/ BodyRests /\ EncodeInit /\ Next /\ UNCHANGED <<encode_vars, body_vars>>
    \/ BodyRests /\ Init /\ EncodeNext /\ UNCHANGED <<vars, body_vars>>
    \/ Init /\ EncodeInit /\ BodyNext /\ UNCHANGED <<vars, encode_vars>>

MessageSpec == MessageInit /\ [][MessageNext]_message_vars

\* Types, of all three: among them that the classifiers stay in their buffer
\* and that every word of an object is one.
MessageTypeOK == TypeOK /\ EncodeTypeOK /\ BodyTypeOK

-----------------------------------------------------------------------------
\* For GateMessage: lists of up to one classifier more than is allowed.
AllLists ==
    UNION {[1 .. n -> Classifiers \cup {"none"}] : n \in 0 .. MaxClassifiers}
    \cup {[k \in 1 .. MaxClassifiers + 1 |-> c] : c \in Classifiers}

-----------------------------------------------------------------------------
(* For GateEncoding.                                                       *)

\* Values at the edges of fields of one and of two bytes.
Up   == [direction |-> "upstream", overwrite |-> 1, mask |-> 255, t1 |-> 200, t2 |-> 65536, t3 |-> 65535]
Down == [direction |-> "downstream", overwrite |-> 256, mask |-> 0, t1 |-> 0, t2 |-> 300, t3 |-> 65537]

Ports == [src_start |-> 1, src_end |-> 65535, dst_start |-> 65536, dst_end |-> 65537, id |-> 7,
          protocol |-> 257, field |-> 1, mask |-> 255, priority |-> 0, state |-> 1, action |-> 3]
Legacy4   == [type |-> "legacy", src_ip |-> <<1, 2>>, dst_ip |-> <<3, 4>>] @@ Ports
Extended4 == [type |-> "extended", src_ip |-> <<1, 2>>, src_mask |-> <<65535, 0>>,
              dst_ip |-> <<3, 4>>, dst_mask |-> <<65535, 65535>>] @@ [Ports EXCEPT !.priority = 300]
Six(src, dst) == [type |-> "ipv6", src_ip6 |-> src, dst_ip6 |-> dst, tc_low |-> 1, tc_high |-> 2,
                  tc_mask |-> 3, flow_label |-> 655363, next_header |-> 256, src_prefix |-> 16, dst_prefix |-> 0] @@ Ports

\* An address of eight groups, one with an empty group, and one of a single group.
Full  == <<9728, 27873, 0, 81, 32399, 57087, 65275, 12836>>
Three == <<8193, 3512, 1>>
One   == <<1>>
AllGroups == {Full, Three, One}

Named(n) == [profile |-> "scn", name |-> [k \in 1 .. n |-> 96 + k], service_number |-> 0, gate |-> Up,
             classifier |-> IF n % 2 = 0 THEN Legacy4 ELSE Extended4, version |-> 4, subscriber |-> One]
Flow(c, version, subscriber) ==
    [profile |-> "flow_spec", name |-> <<>>, service_number |-> 2, gate |-> Down,
     classifier |-> c, version |-> version, subscriber |-> subscriber]
Built == {Named(n) : n \in {0, 1, 7, 8, 9}} \cup
         {Flow(Six(Full, Three), 4, One), Flow(Six(Three, One), 4, One), Flow(Legacy4, 6, Three)}
AllPolicies == Built

AnyLeftover == {[priority |-> 0, preemption |-> 0], [priority |-> 15, preemption |-> 3]}
Rubbish == <<34, 125, 44, 34, 102, 111, 111, 34>>

-----------------------------------------------------------------------------
(* For RequestBody.                                                        *)

NothingIn == {"", "::"}

GateOf(fields, profiles, lists) ==
    Of("gate", Members(<<Of("gate-spec", fields), Of("traffic-profile", Members(profiles))>> \o lists))
Policy(profiles, lists) ==
    GateOf(Members(<<Of("t1", Number(200)), Of("direction", Str("upstream")),
                     Of("t2", Str("300")), Of("t1", Number(1))>>), profiles, lists)
Body(members) == Members(<<Of("input", Members(members))>>)

ByName == <<Of("flow-spec-profile", Members(<<>>)), Of("service-class-name", Str("usSMI001"))>>
ByFlow == <<Of("flow-spec-profile", Members(<<Of("service-number", Number(2))>>))>>
ByNone == <<Of("service-class-name", Number(1))>> \o ByFlow
ListOf(elements) == <<Of("classifiers", Arr(elements))>>

\* Elements that are objects, deep and flat ones, with a type twice, two types,
\* an unknown type, and none; and one that is no object.  From 4 on they are
\* refused, and from 7 on they lack a string.
Six6(source) == Members(<<Of("flow-label", Number(4)), Of("srcIp6", source), Of("dstIp6", Str("c"))>>)
OneOf(n) ==
    CASE n = 1 -> Members(<<Of("classifier-id", Number(7)),
                            Of("ext-classifier", Members(<<Of("srcIp", Str("a")), Of("priority", Number(3)),
                                                           Of("dstIp", Arr(<<Str("b")>>)), Of("srcIpMask", Str("m")),
                                                           Of("dstIpMask", Str("m"))>>))>>)
      [] n = 2 -> Members(<<Of("classifier", Members(<<Of("dstIp", Str("a")), Of("srcIp", Str("b"))>>)),
                            Of("ipv6-classifier", Members(<<Of("srcIp6", Str("c"))>>))>>)
      [] n = 3 -> Members(<<Of("ipv6-classifier", Six6(Str("c"))),
                            Of("classifier-id", Real), Of("ipv6-classifier", Number(0))>>)
      [] n = 4 -> Members(<<Of("id", Number(1))>>)
      [] n = 5 -> Members(<<>>)
      [] n = 6 -> Number(5)
      [] n = 7 -> Members(<<Of("classifier", True)>>)
      [] n = 8 -> Members(<<Of("ext-classifier", Members(<<Of("srcIp", Str("a")), Of("dstIpMask", Str("m"))>>)),
                            Of("classifier", Members(<<Of("srcIp", Str("b"))>>))>>)
      [] n = 9 -> Members(<<Of("ipv6-classifier", Six6(Str("::")))>>)
      [] n = 10 -> Members(<<Of("ipv6-classifier", Members(<<Of("srcIp6", Str("c"))>>))>>)

Orders == UNION {[1 .. n -> 1 .. 10] : n \in 0 .. 2} \cup [1 .. 3 -> {1, 2, 3, 5, 8}] \cup
          {[k \in 1 .. n |-> 1 + (k % 3)] : n \in 4 .. 7}

BuiltBodies ==
    { <<>>, Arr(<<Number(1)>>), Members(<<Of("input", Number(1))>>), Body(<<>>),
      Body(<<Of("cmts_ip", Str("a")), Of("gateId", Number(9)), Of("dry_run", True), Of("gateId", Number(8))>>),
      Body(<<Of("appId", Str("1")), Policy(<<>>, ListOf(<<OneOf(1)>>)), Of("subscriberId", Str("b"))>>),
      Body(<<Policy(ByFlow, <<>>), Of("cmts_ip", Str("a"))>>),
      Body(<<Policy(ByName, <<Of("classifiers", Members(<<Of("a", OneOf(1))>>))>>), Of("dry_run", Number(-1))>>),
      Body(<<GateOf(Number(1), ByFlow, ListOf(<<OneOf(1)>>)), Of("subscriberId", Str("b"))>>),
      Body(<<Of("subscriberId", Str("b")), Policy(ByFlow, ListOf(<<OneOf(3), OneOf(1)>>))>>),
      Body(<<Policy(ByNone, ListOf(<<OneOf(1)>>)), Of("subscriberId", Str("b"))>>),
      Body(<<Of("gate", Members(ListOf(<<OneOf(1)>>)))>>) }
    \cup {Body(<<Of("cmts_ip", Str("a")), Policy(ByName, ListOf([k \in 1 .. Len(o) |-> OneOf(o[k])])),
                 Of("gateId", Number(1))>> \o who) :
             o \in Orders, who \in {<<>>, <<Of("subscriberId", Str("b"))>>}}
AllBodies == BuiltBodies
=============================================================================
