----------------------------- MODULE RequestBody -----------------------------
(***************************************************************************)
(* How the handlers read the body of a request: gctl_new_request, and for  *)
(* a gate-set gctl_read_policy, which looks for the gate, its spec and its *)
(* profile, and goes through the list of classifiers.  What is missing, or *)
(* of another type, reads 0 or NULL.  Only some of it is refused: the rest  *)
(* goes to encoders that take a NULL for a string, and the process dies.    *)
(*                                                                         *)
(* What becomes of the fields is in GateMessage (sizes) and GateEncoding   *)
(* (contents).                                                             *)
(***************************************************************************)
EXTENDS Json

CONSTANTS
    Bodies,   \* bodies of requests, as Json has them; <<>> is no JSON
    MostRead, \* gctl_read_policy takes no more classifiers: 5
    NoGroups  \* IPv6 addresses in which strtok finds nothing: "" and "::"

ASSUME BodyAssumption == MostRead \in Nat /\ \A body \in Bodies : IsText(body)

VARIABLES
    reading,  \* where the handler is in the body
    set,  \* whether it is that of a gate-set
    written,  \* the body
    doc,      \* the document it is read into
    gc,       \* the fields of gctl_t every request has
    profile,  \* the traffic profile
    spec,     \* the fields of the gate spec
    kinds,    \* the classifiers so far: the type and the fields of each
    failop    \* the reason why it is refused

body_vars == <<reading, set, written, doc, gc, profile, spec, kinds, failop>>

Reasons == {"EINVGATE", "EBADPROF", "EUNEXPC", "EBADTYPE"}
Types   == {"ext-classifier", "classifier", "ipv6-classifier"}

\* Fields that are integers, and fields that are strings.
SpecFields == {"t1", "t2", "t3", "dscp-tos-overwrite", "dscp-tos-mask"}
IntFields  == {"srcPort-start", "dstPort-start", "srcPort-end", "dstPort-end",
               "tos-byte", "tos-mask", "protocol", "priority",
               "activation-state", "action", "tc-low", "tc-high", "tc-mask",
               "flow-label", "next-hdr"}
StrFields  == {"srcIp", "dstIp", "srcIpMask", "dstIpMask", "srcIp6", "dstIp6"}

\* Strings an encoder reads without asking whether they are there: ip4_toi, and
\* for IPv6 strcmp and then pack_ip6, which needs a group besides.  The IPv4
\* address of the destination may be missing.
Needed == [type \in Types |->
              CASE type = "classifier"      -> {"srcIp"}
                [] type = "ext-classifier"  -> {"srcIp", "srcIpMask", "dstIpMask"}
                [] type = "ipv6-classifier" -> {"srcIp6", "dstIp6"}]
Grouped == {"srcIp6", "dstIp6"}

Unread == [gate_id |-> 0, cmts_ip |-> Null, dry_run |-> 0, application_id |-> 0,
               subscriber_id |-> Null]
NoProfile  == [flow |-> FALSE, name |-> Null, number |-> 0]
NoSpec     == [direction |-> Null, fields |-> [f \in SpecFields |-> 0]]

BodyTypeOK ==
    /\ reading \in {"idle", "request", "spec", "profile", "fields", "count", "list", "ready",
                   "sent", "failed", "dead"}
    /\ set \in BOOLEAN
    /\ doc = Laid(written)
    /\ \A f \in {"gate_id", "dry_run", "application_id"} : gc[f] \in Int
    /\ \A f \in SpecFields : spec.fields[f] \in Int
    /\ Len(kinds) <= MostRead
    /\ \A n \in DOMAIN kinds : kinds[n].type \in Types /\ kinds[n].ints["priority"] # 0
    /\ failop \in (IF reading = "failed" THEN Reasons ELSE {"none"})

BodyInit ==
    /\ reading = "idle"
    /\ set = FALSE
    /\ written = <<>> /\ doc = <<>>
    /\ gc = Unread /\ profile = NoProfile /\ spec = NoSpec /\ kinds = <<>>
    /\ failop = "none"

-----------------------------------------------------------------------------

\* gctl_otoi and gctl_otos: fields of an object.
OtoI(object, field) == GetInt(doc, ObjGet(doc, object, field))
OtoS(object, field) == GetStr(doc, ObjGet(doc, object, field))

\* gctl_otos gives no NULL.
HasStr(object, field) == IsStr(doc, ObjGet(doc, object, field))

\* gctl_ytoi, and the objects a policy is in.
Input      == ObjGet(doc, Root(doc), "input")
GateVal    == ObjGet(doc, Input, "gate")
SpecVal    == ObjGet(doc, GateVal, "gate-spec")
TrafficVal == ObjGet(doc, GateVal, "traffic-profile")
ListVal    == ObjGet(doc, GateVal, "classifiers")

GoOn(next)  == reading' = next /\ UNCHANGED failop
SchemaErr(op) == reading' = "failed" /\ failop' = op

\* A NULL is read for a string.
Dies == GoOn("dead")

Receive(body, isSet) ==
    /\ reading = "idle"
    /\ written' = body /\ doc' = Laid(body)
    /\ set' = isSet
    /\ GoOn("request")
    /\ UNCHANGED <<gc, profile, spec, kinds>>

\* gctl_new_request.
NewRequest ==
    /\ reading = "request"
    /\ gc' = [gate_id        |-> OtoI(Input, "gateId"),
              cmts_ip        |-> OtoS(Input, "cmts_ip"),
              dry_run        |-> OtoI(Input, "dry_run"),
              application_id |-> OtoI(Input, "appId"),
              subscriber_id  |-> OtoS(Input, "subscriberId")]
    /\ GoOn(IF set THEN "spec" ELSE "ready")
    /\ UNCHANGED <<set, written, doc, profile, spec, kinds>>

-----------------------------------------------------------------------------
(* gctl_read_policy.                                                       *)

FindSpec ==
    /\ reading = "spec"
    /\ IF GateVal = Null \/ SpecVal = Null THEN SchemaErr("EINVGATE") ELSE GoOn("profile")
    /\ UNCHANGED <<set, written, doc, gc, profile, spec, kinds>>

\* A name goes before a flow spec.  One that is no string is read as well.
FindProfile ==
    /\ reading = "profile"
    /\ LET name == ObjGet(doc, TrafficVal, "service-class-name")
           flow == ObjGet(doc, TrafficVal, "flow-spec-profile")
       IN  \/ /\ name = Null /\ flow = Null
              /\ SchemaErr("EBADPROF") /\ UNCHANGED profile
           \/ /\ name = Null /\ flow # Null
              /\ profile' = [flow |-> TRUE, name |-> Null, number |-> OtoI(flow, "service-number")]
              /\ GoOn("fields")
           \/ /\ name # Null /\ IsStr(doc, name)
              /\ profile' = [flow |-> FALSE, name |-> GetStr(doc, name), number |-> 0]
              /\ GoOn("fields")
           \/ /\ name # Null /\ ~IsStr(doc, name)
              /\ Dies /\ UNCHANGED profile
    /\ UNCHANGED <<set, written, doc, gc, spec, kinds>>

ReadSpec ==
    /\ reading = "fields"
    /\ spec' = [direction |-> OtoS(SpecVal, "direction"),
                fields    |-> [f \in SpecFields |-> OtoI(SpecVal, f)]]
    /\ GoOn("count")
    /\ UNCHANGED <<set, written, doc, gc, profile, kinds>>

CountClassifiers ==
    /\ reading = "count"
    /\ IF GetLen(doc, ListVal) \in 1 .. MostRead THEN GoOn("list") ELSE SchemaErr("EUNEXPC")
    /\ UNCHANGED <<set, written, doc, gc, profile, spec, kinds>>

\* The element of the list that is next.
Element == ArrGet(doc, ListVal, Len(kinds))

\* Mutant: the other way round.
TypeOf_reversed(element) ==
    IF ObjGet(doc, element, "ipv6-classifier") # Null THEN "ipv6-classifier"
    ELSE IF ObjGet(doc, element, "classifier") # Null THEN "classifier"
    ELSE IF ObjGet(doc, element, "ext-classifier") # Null THEN "ext-classifier"
    ELSE "none"

TypeOf(element) ==
    IF ObjGet(doc, element, "ext-classifier") # Null THEN "ext-classifier"
    ELSE IF ObjGet(doc, element, "classifier") # Null THEN "classifier"
    ELSE IF ObjGet(doc, element, "ipv6-classifier") # Null THEN "ipv6-classifier"
    ELSE "none"

\* No priority, or one of zero, is 64; the id is in the element itself.
ClassifierOf(type, element) ==
    LET obj == ObjGet(doc, element, type)
        priority == OtoI(obj, "priority")
    IN  [type |-> type,
         ints |-> [f \in IntFields |->
                      IF f = "priority" /\ priority = 0 THEN 64 ELSE OtoI(obj, f)],
         strs |-> [f \in StrFields |-> OtoS(obj, f)],
         id   |-> OtoI(element, "classifier-id")]

\* A string the encoder of its type needs is not in it.
Lacks(type, element) ==
    LET obj == ObjGet(doc, element, type)
    IN  \E f \in Needed[type] :
            ~(HasStr(obj, f) /\ (f \in Grouped => OtoS(obj, f) \notin NoGroups))

\* The type of an element is found, and it is encoded.
ReadElement ==
    /\ reading = "list" /\ Len(kinds) < GetLen(doc, ListVal)
    /\ LET type == TypeOf(Element)
       IN  \/ /\ type = "none"
              /\ SchemaErr("EBADTYPE") /\ UNCHANGED kinds
           \/ /\ type # "none" /\ Lacks(type, Element)
              /\ Dies /\ UNCHANGED kinds
           \/ /\ type # "none" /\ ~Lacks(type, Element)
              /\ kinds' = Append(kinds, ClassifierOf(type, Element))
              /\ GoOn("list")
    /\ UNCHANGED <<set, written, doc, gc, profile, spec>>

\* The end of gctl_read_policy, and the gate of gctl_04, whose direction goes to
\* strcmp (vtof).
PolicyRead ==
    /\ reading = "list" /\ Len(kinds) = GetLen(doc, ListVal)
    /\ IF HasStr(SpecVal, "direction") THEN GoOn("ready") ELSE Dies
    /\ UNCHANGED <<set, written, doc, gc, profile, spec, kinds>>

\* A session with that CMTS is found, and ps_proxy sends what was read.  The
\* first thing it does is to ask whether the subscriber's address is IPv6.
Proxy ==
    /\ reading = "ready"
    /\ IF HasStr(Input, "subscriberId") THEN GoOn("sent") ELSE Dies
    /\ UNCHANGED <<set, written, doc, gc, profile, spec, kinds>>

\* What was read was the handler's own.
Forgotten ==
    /\ reading' = "idle"
    /\ set' = FALSE
    /\ written' = <<>> /\ doc' = <<>>
    /\ gc' = Unread /\ profile' = NoProfile /\ spec' = NoSpec /\ kinds' = <<>>
    /\ failop' = "none"

\* The handler returns: it is refused, there is no session, or it is sent.
Returned == reading \in {"ready", "sent", "failed"} /\ Forgotten

\* The process is started again.
Restarted == reading = "dead" /\ Forgotten

BodyNext ==
    \/ \E body \in Bodies, isSet \in BOOLEAN : Receive(body, isSet)
    \/ NewRequest
    \/ FindSpec \/ FindProfile \/ ReadSpec
    \/ CountClassifiers \/ ReadElement \/ PolicyRead
    \/ Proxy \/ Returned \/ Restarted

BodySpec == BodyInit /\ [][BodyNext]_body_vars

-----------------------------------------------------------------------------
(* What is written, by the names alone.                                    *)

Place(i, name)   == Said(written, i, name)
AnInt(i, name) == SaidInt(written, Place(i, name))
AStr(i, name)  == SaidStr(written, Place(i, name))
IsAStr(i) == i # 0 /\ written[i].type = "str"

TheInput == Place(IF written = <<>> THEN 0 ELSE 1, "input")
TheGate  == Place(TheInput, "gate")
TheSpec  == Place(TheGate, "gate-spec")
TheName  == Place(Place(TheGate, "traffic-profile"), "service-class-name")
TheFlow  == Place(Place(TheGate, "traffic-profile"), "flow-spec-profile")
TheList  == Place(TheGate, "classifiers")

\* The n-th element of the list: it has n-1 before it.
TheElement(n) == CHOOSE j \in Elements(written, TheList) :
                     Cardinality({k \in Elements(written, TheList) : k < j}) = n - 1

\* Of two types in one element the extended one counts, and then the legacy one.
Has(n, type) == Place(TheElement(n), type) # 0
Known(n)     == \E type \in Types : Has(n, type)
Meant(n)     == CHOOSE type \in Types :
                    /\ Has(n, type)
                    /\ type = "classifier" => ~Has(n, "ext-classifier")
                    /\ type = "ipv6-classifier" => ~Has(n, "ext-classifier") /\ ~Has(n, "classifier")

Asked(n) ==
    LET i == Place(TheElement(n), Meant(n))
    IN  [type |-> Meant(n),
         ints |-> [f \in IntFields |-> IF f = "priority" /\ AnInt(i, f) = 0 THEN 64 ELSE AnInt(i, f)],
         strs |-> [f \in StrFields |-> AStr(i, f)],
         id   |-> AnInt(TheElement(n), "classifier-id")]

Count == Cardinality(Elements(written, TheList))

\* All strings that are read of it are there.
Whole(n) ==
    LET i == Place(TheElement(n), Meant(n))
    IN  \A f \in Needed[Meant(n)] :
            IsAStr(Place(i, f)) /\ (f \in Grouped => AStr(i, f) \notin NoGroups)
Sound(n) == Known(n) /\ Whole(n)

\* The first that is not.
FirstWrong(n) == n \in 1 .. Count /\ ~Sound(n) /\ \A m \in 1 .. n - 1 : Sound(m)

ProfileSound == TheSpec # 0 /\ (IF TheName = 0 THEN TheFlow # 0 ELSE IsAStr(TheName))
ListSound    == Count \in 1 .. MostRead /\ \A n \in 1 .. Count : Sound(n)
Directed     == IsAStr(Place(TheSpec, "direction"))

\* Of what a handler dies: a name that is no string, a classifier or a gate that
\* lacks one, or a request that does not say for whom it is.
DiesOfPolicy ==
    \/ TheSpec # 0 /\ TheName # 0 /\ ~IsAStr(TheName)
    \/ ProfileSound /\ Count \in 1 .. MostRead /\ \E n \in 1 .. Count : Known(n) /\ FirstWrong(n)
    \/ ProfileSound /\ ListSound /\ ~Directed
DiesOfSubscriber ==
    /\ set => ProfileSound /\ ListSound /\ Directed
    /\ ~IsAStr(Place(TheInput, "subscriberId"))

-----------------------------------------------------------------------------
(* Properties.                                                             *)

\* Every field of a request is what is written for it, and 0 or NULL for what
\* is not, wherever it stands among the others.  (gctl_new_request, gctl_otoi,
\* gctl_otos, gctl_ytoi, yyjson_obj_getn.)
FieldsRead ==
    reading \in {"spec", "ready", "sent"} =>
        gc = [gate_id        |-> AnInt(TheInput, "gateId"),
              cmts_ip        |-> AStr(TheInput, "cmts_ip"),
              dry_run        |-> AnInt(TheInput, "dry_run"),
              application_id |-> AnInt(TheInput, "appId"),
              subscriber_id  |-> AStr(TheInput, "subscriberId")]

\* A policy that is accepted has the profile, the spec and exactly the
\* classifiers of the request, in their order, each with its own fields,
\* whatever the elements of the list have in them besides.
\* (gctl_read_policy, yyjson_arr_get.)
ListRead ==
    reading \in {"ready", "sent"} /\ set =>
        /\ profile = [flow   |-> TheName = 0,
                      name   |-> SaidStr(written, TheName),
                      number |-> IF TheName = 0 THEN AnInt(TheFlow, "service-number") ELSE 0]
        /\ spec = [direction |-> AStr(TheSpec, "direction"),
                   fields    |-> [f \in SpecFields |-> AnInt(TheSpec, f)]]
        /\ Len(kinds) = Count
        /\ \A n \in 1 .. Count : kinds[n] = Asked(n)

\* A request is read for what is written in it.
RequestRead == FieldsRead /\ ListRead

\* A policy is refused for the first thing that is wrong with it, and for
\* nothing else.  A handler dies only of a string that is read and is not there,
\* which no check comes before, and of the first one; and to a CMTS goes only
\* what has every string the encoders read.  (gctl_read_policy,
\* gctl_set_schemaerr, pcmm_scn_envelope, vtof, ip4_toi, pack_ip6, ps_proxy.)
RefusedFor ==
    /\ failop = "EINVGATE" => TheSpec = 0
    /\ failop = "EBADPROF" => TheSpec # 0 /\ TheName = 0 /\ TheFlow = 0
    /\ failop = "EUNEXPC"  => ProfileSound /\ Count \notin 1 .. MostRead
    /\ failop = "EBADTYPE" =>
           ProfileSound /\ (Count = 0 \/ \E n \in 1 .. Count : ~Known(n) /\ FirstWrong(n))
    /\ reading = "dead" => (set /\ DiesOfPolicy) \/ DiesOfSubscriber
    /\ reading \in {"ready", "sent"} /\ set => ProfileSound /\ ListSound /\ Directed
    /\ reading = "sent" => IsAStr(Place(TheInput, "subscriberId"))
=============================================================================
