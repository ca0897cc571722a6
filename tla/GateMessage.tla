----------------------------- MODULE GateMessage -----------------------------
(***************************************************************************)
(* How a gate request becomes a COPS message.  gctl_04 reads the policy    *)
(* into three buffers and joins them; ps_proxy computes the sizes of what  *)
(* it is about to pack, packs it into a buffer of the last of these sizes, *)
(* and puts a header before it.  Sizing and packing are code apart, and    *)
(* every encoder writes the length of its object as a number of its own.   *)
(*                                                                         *)
(* A buffer is the sequence of the objects in it, each with the length it  *)
(* declares and the place where it begins; what else an object says is     *)
(* left out.                                                               *)
(***************************************************************************)
EXTENDS Naturals, Sequences

CONSTANTS
    MaxClassifiers,  \* gctl_read_policy takes no more of them: 5
    ClassifierRoom,  \* sizeof(pktmm_clsf): 320
    Lists            \* what a request may have for its list of classifiers

ASSUME ListsAssumption ==
    \A list \in Lists : list \in Seq({"legacy", "extended", "ipv6", "none"})

ASSUME RoomAssumption ==
    /\ MaxClassifiers \in Nat
    /\ ClassifierRoom \in Nat
    /\ MaxClassifiers * 64 <= ClassifierRoom

Header       == 8      \* of a message
ObjectHeader == 4      \* of an object

\* The objects.  "none" stands for what gctl_read_policy does not know.
Profiles    == {"flow_spec", "scn"}
Classifiers == {"legacy", "extended", "ipv6"}
Subscribers == {"ipv4", "ipv6_id"}
Ids == Profiles \cup Classifiers \cup Subscribers \cup
       {"handle", "context", "flags", "decision", "command", "application",
        "gate_id", "gate_spec"}

\* The length each encoder writes; that of the decision is computed.
Declared ==
    [id \in Ids \ {"decision"} |->
        CASE id = "gate_spec" -> 16 [] id = "flow_spec" -> 92 [] id = "scn" -> 20
          [] id = "legacy" -> 24 [] id = "extended" -> 40 [] id = "ipv6" -> 64
          [] id = "ipv6_id" -> 20 [] OTHER -> 8]

\* What gctl_read_policy counts for each.
Counted ==
    [id \in Profiles \cup Classifiers |->
        CASE id = "flow_spec" -> 92 [] id = "scn" -> 20
          [] id = "legacy" -> 24 [] id = "extended" -> 40 [] id = "ipv6" -> 64]

Objects == [id : Ids, length : Nat, at : Nat]

Obj(id, at) == [id |-> id, length |-> Declared[id], at |-> at]
End(o)      == o.at + o.length

\* concat: the objects of a buffer, behind the first `by` bytes of another.
Moved(o, by)    == [o EXCEPT !.at = @ + by]
Shift(objs, by) == [k \in 1 .. Len(objs) |-> Moved(objs[k], by)]

\* The part of a request that counts; `gate`: its gate id is not zero.
Requests ==
    [op : {"set"}, profile : Profiles \cup {"none"}, classifiers : Lists,
     subscriber : Subscribers, gate : BOOLEAN]
    \cup [op : {"info", "delete"}, profile : {"none"}, classifiers : {<<>>},
          subscriber : Subscribers, gate : BOOLEAN]

VARIABLES
    pc,        \* where the handler is
    request,   \* the request it serves
    envelope, envelope_size,      \* pktmm_envl and its size
    classifiers, classifier_size, \* pktmm_clsf and its size
    data, len,                    \* data and its size
    size,      \* ctl_size, dec_size and msg_size of ps_proxy
    decision, ptr,                \* decision and how far it is packed
    message    \* message, and what its header says

policy == <<envelope, envelope_size, classifiers, classifier_size, data, len>>
packet == <<size, decision, ptr, message>>
vars   == <<pc, request, envelope, envelope_size, classifiers, classifier_size,
            data, len, size, decision, ptr, message>>

NoRequest == [op |-> "none", profile |-> "none", classifiers |-> <<>>,
              subscriber |-> "ipv4", gate |-> FALSE]
NoSize    == [ctl |-> 0, dec |-> 0, msg |-> 0]
NoMessage == [length |-> 0, objects |-> <<>>]

TypeOK ==
    /\ pc \in {"idle", "read", "classifiers", "lookup", "size", "control",
               "gate", "wrap", "sent", "failed"}
    /\ request.op \in {"set", "info", "delete", "none"}
    /\ request.profile \in Profiles \cup {"none"}
    /\ request.classifiers \in Seq(Classifiers \cup {"none"})
    /\ request.subscriber \in Subscribers
    /\ request.gate \in BOOLEAN
    /\ envelope \in Seq(Objects)    /\ envelope_size \in Nat
    /\ classifiers \in Seq(Objects) /\ classifier_size \in 0 .. ClassifierRoom
    /\ data \in Seq(Objects)        /\ len \in Nat
    /\ size \in [ctl : Nat, dec : Nat, msg : Nat]
    /\ decision \in Seq(Objects)    /\ ptr \in Nat
    /\ message \in [length : Nat, objects : Seq(Objects)]

Init ==
    /\ pc = "idle"
    /\ request = NoRequest
    /\ envelope = <<>>    /\ envelope_size = 0
    /\ classifiers = <<>> /\ classifier_size = 0
    /\ data = <<>>        /\ len = 0
    /\ size = NoSize
    /\ decision = <<>>    /\ ptr = 0
    /\ message = NoMessage

-----------------------------------------------------------------------------
(* gctl_04 and gctl_request.                                               *)

Ask ==
    /\ pc = "idle"
    /\ request' \in Requests
    /\ pc' = "read"
    /\ UNCHANGED <<policy, packet>>

\* Mutant of ReadProfile: one classifier too many is let through.
ReadProfile_more ==
    /\ pc = "read"
    /\ request.op = "set"
    /\ IF request.profile = "none" \/ Len(request.classifiers) \notin 1 .. MaxClassifiers + 1
       THEN pc' = "failed" /\ UNCHANGED <<envelope, envelope_size>>
       ELSE /\ envelope' = <<Obj(request.profile, 0)>>
            /\ envelope_size' = Counted[request.profile]
            /\ pc' = "classifiers"
    /\ UNCHANGED <<request, classifiers, classifier_size, data, len, packet>>

\* gctl_read_policy up to its loop: the profile, and the number of classifiers.
ReadProfile ==
    /\ pc = "read"
    /\ request.op = "set"
    /\ IF request.profile = "none" \/ Len(request.classifiers) \notin 1 .. MaxClassifiers
       THEN pc' = "failed" /\ UNCHANGED <<envelope, envelope_size>>
       ELSE /\ envelope' = <<Obj(request.profile, 0)>>
            /\ envelope_size' = Counted[request.profile]
            /\ pc' = "classifiers"
    /\ UNCHANGED <<request, classifiers, classifier_size, data, len, packet>>

\* Mutant of ReadClassifier: each is taken to be an extended one.
ReadClassifier_forty ==
    /\ pc = "classifiers"
    /\ Len(classifiers) < Len(request.classifiers)
    /\ LET k == request.classifiers[Len(classifiers) + 1] IN
       IF k = "none"
       THEN pc' = "failed" /\ UNCHANGED <<classifiers, classifier_size>>
       ELSE /\ classifiers' = Append(classifiers, Obj(k, classifier_size))
            /\ classifier_size' = classifier_size + 40
            /\ UNCHANGED pc
    /\ UNCHANGED <<request, envelope, envelope_size, data, len, packet>>

\* One round of the loop.
ReadClassifier ==
    /\ pc = "classifiers"
    /\ Len(classifiers) < Len(request.classifiers)
    /\ LET k == request.classifiers[Len(classifiers) + 1] IN
       IF k = "none"
       THEN pc' = "failed" /\ UNCHANGED <<classifiers, classifier_size>>
       ELSE /\ classifiers' = Append(classifiers, Obj(k, classifier_size))
            /\ classifier_size' = classifier_size + Counted[k]
            /\ UNCHANGED pc
    /\ UNCHANGED <<request, envelope, envelope_size, data, len, packet>>

\* The gate spec, the envelope and the classifiers, one behind the other.
Join ==
    /\ pc = "classifiers"
    /\ Len(classifiers) = Len(request.classifiers)
    /\ data' = <<Obj("gate_spec", 0)>> \o Shift(envelope, 16)
                 \o Shift(classifiers, 16 + envelope_size)
    /\ len' = 16 + envelope_size + classifier_size
    /\ pc' = "lookup"
    /\ UNCHANGED <<request, envelope, envelope_size, classifiers, classifier_size, packet>>

\* gctl_request: there is no policy.
NoPolicy ==
    /\ pc = "read"
    /\ request.op # "set"
    /\ pc' = "lookup"
    /\ UNCHANGED <<request, policy, packet>>

\* lcm_getps
Lookup ==
    /\ pc = "lookup"
    /\ pc' \in {"size", "failed"}
    /\ UNCHANGED <<request, policy, packet>>

-----------------------------------------------------------------------------
(* ps_proxy.                                                               *)

\* A gate-set without a gate id has none; all else has one, if only zero.
GateIdPacked == request.op # "set" \/ request.gate

\* Mutant of Measure: the place of a gate id is forgotten.
Measure_forgets ==
    /\ pc = "size"
    /\ LET addr == Declared[request.subscriber]
           mod  == IF request.op = "set" THEN 16 + len ELSE 24
       IN  size' = [ctl |-> addr + mod, dec |-> addr + mod + 4, msg |-> addr + mod + 36]
    /\ pc' = "control"
    /\ UNCHANGED <<request, policy, decision, ptr, message>>

\* mod, ctl_size, dec_size, msg_size
Measure ==
    /\ pc = "size"
    /\ LET addr == Declared[request.subscriber]
           gid  == IF request.gate THEN 8 ELSE 0
           mod  == IF request.op = "set" THEN gid + 16 + len ELSE 24
       IN  size' = [ctl |-> addr + mod, dec |-> addr + mod + 4, msg |-> addr + mod + 36]
    /\ pc' = "control"
    /\ UNCHANGED <<request, policy, decision, ptr, message>>

\* The common objects; of the decision, which holds all that follows, the header.
Front == <<Obj("handle", 0), Obj("context", 8), Obj("flags", 16),
           [id |-> "decision", length |-> size.dec, at |-> 24]>>

\* pack_ctl_objs
PackControl ==
    /\ pc = "control"
    /\ decision' = Front \o
          <<Obj("command", 28), Obj("application", 36), Obj(request.subscriber, 44)>>
    /\ ptr' = 44 + Declared[request.subscriber]
    /\ pc' = "gate"
    /\ UNCHANGED <<request, policy, size, message>>

\* Mutant of PackGate: the gate id comes last.
PackGate_last ==
    /\ pc = "gate"
    /\ decision' = decision \o Shift(data, ptr)
                     \o (IF GateIdPacked THEN <<Obj("gate_id", ptr + len)>> ELSE <<>>)
    /\ ptr' = ptr + len + (IF GateIdPacked THEN 8 ELSE 0)
    /\ pc' = "wrap"
    /\ UNCHANGED <<request, policy, size, message>>

\* The gate id, then the data.
PackGate ==
    /\ pc = "gate"
    /\ LET gid  == IF GateIdPacked THEN <<Obj("gate_id", ptr)>> ELSE <<>>
           next == IF GateIdPacked THEN ptr + 8 ELSE ptr
       IN  /\ decision' = decision \o gid \o Shift(data, next)
           /\ ptr' = next + len
    /\ pc' = "wrap"
    /\ UNCHANGED <<request, policy, size, message>>

\* new_cops_message copies msg_size - 8 bytes behind the header; sock_write.
Wrap ==
    /\ pc = "wrap"
    /\ message' = [length |-> size.msg, objects |-> Shift(decision, Header)]
    /\ pc' = "sent"
    /\ UNCHANGED <<request, policy, size, decision, ptr>>

\* The answer; the buffers were the handler's own.
Answer ==
    /\ pc \in {"sent", "failed"}
    /\ pc' = "idle"
    /\ request' = NoRequest
    /\ envelope' = <<>>    /\ envelope_size' = 0
    /\ classifiers' = <<>> /\ classifier_size' = 0
    /\ data' = <<>>        /\ len' = 0
    /\ size' = NoSize
    /\ decision' = <<>>    /\ ptr' = 0
    /\ message' = NoMessage

Next ==
    \/ Ask \/ ReadProfile \/ ReadClassifier \/ Join \/ NoPolicy \/ Lookup
    \/ Measure \/ PackControl \/ PackGate \/ Wrap
    \/ Answer

Spec == Init /\ [][Next]_vars

-----------------------------------------------------------------------------
(* Properties.                                                             *)

Adjacent(objs, first, last) ==
    \A k \in first .. last - 1 : objs[k + 1].at = End(objs[k])

\* A message that is sent can be taken apart by the lengths in it: each object
\* begins where the one before it ends, in the message and in the decision,
\* and both end where their own length says, on a word of four bytes.
Tiled ==
    pc = "sent" =>
        LET objs == message.objects
            n    == Len(objs)
        IN  /\ objs[1].at = Header
            /\ Adjacent(objs, 1, 4)
            /\ objs[4].id = "decision"
            /\ End(objs[4]) = message.length
            /\ objs[5].at = objs[4].at + ObjectHeader
            /\ Adjacent(objs, 5, n)
            /\ End(objs[n]) = message.length
            /\ message.length % 4 = 0

\* No buffer is too small for what is packed into it, the byte that concat
\* writes behind it included in `decision`, and all of it is copied.
Fits ==
    /\ \A k \in 1 .. Len(classifiers) : End(classifiers[k]) <= ClassifierRoom
    /\ \A k \in 1 .. Len(data) : End(data[k]) <= len
    /\ pc \in {"gate", "wrap", "sent"} => ptr <= size.msg - Header
    /\ pc \in {"wrap", "sent"} => \A k \in 1 .. Len(decision) : End(decision[k]) <= ptr

\* What a message of this request has to say, in order.
Wanted ==
    <<"handle", "context", "flags", "decision", "command", "application", request.subscriber>>
    \o (IF request.op = "set" /\ ~request.gate THEN <<>> ELSE <<"gate_id">>)
    \o (IF request.op = "set"
        THEN <<"gate_spec", request.profile>> \o request.classifiers ELSE <<>>)

\* The message says it, and a policy with too many classifiers, or one of no
\* known type, is not sent in part.
Complete ==
    pc = "sent" =>
        /\ [k \in 1 .. Len(message.objects) |-> message.objects[k].id] = Wanted
        /\ request.op = "set" => Len(request.classifiers) \in 1 .. MaxClassifiers

=============================================================================
