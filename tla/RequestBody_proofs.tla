------------------------- MODULE RequestBody_proofs -------------------------
(***************************************************************************)
(* What the handlers of the web API read from the body of a request, for   *)
(* every body that is JSON: RequestRead and RefusedFor.  The accessors are *)
(* taken from Json_proofs; the invariant BodyInv says what is known at     *)
(* each place of gctl_read_policy.  The types of all three parts of a gate *)
(* message (MCGateMessage) come last.                                      *)
(***************************************************************************)
EXTENDS MCGateMessage, GateMessage_proofs, Json_proofs

\* The handler has come to one of these places, or through them to the end.
Past(places) == reading \in places \/ (reading \in {"ready", "sent"} /\ set)

ProfileIs ==
    /\ ProfileSound
    /\ profile = [flow   |-> TheName = 0,
                  name   |-> SaidStr(written, TheName),
                  number |-> IF TheName = 0 THEN AnInt(TheFlow, "service-number") ELSE 0]

SpecIs ==
    spec = [direction |-> AStr(TheSpec, "direction"),
            fields    |-> [f \in SpecFields |-> AnInt(TheSpec, f)]]

FieldsAre ==
    gc = [gate_id        |-> AnInt(TheInput, "gateId"),
          cmts_ip        |-> AStr(TheInput, "cmts_ip"),
          dry_run        |-> AnInt(TheInput, "dry_run"),
          application_id |-> AnInt(TheInput, "appId"),
          subscriber_id  |-> AStr(TheInput, "subscriberId")]

AllAsked == {Asked(n) : n \in Nat}

\* The classifiers so far.  What is not an array has no elements, but may have
\* a length.
KindsAre ==
    /\ GetLen(doc, ListVal) \in 1 .. MostRead
    /\ Len(kinds) <= GetLen(doc, ListVal)
    /\ Len(kinds) # 0 => GetLen(doc, ListVal) = Count
    /\ \A n \in 1 .. Len(kinds) : Sound(n) /\ kinds[n] = Asked(n)

FailedFor ==
    /\ failop = "EINVGATE" => TheSpec = 0
    /\ failop = "EBADPROF" => TheSpec # 0 /\ TheName = 0 /\ TheFlow = 0
    /\ failop = "EUNEXPC"  => ProfileSound /\ Count \notin 1 .. MostRead
    /\ failop = "EBADTYPE" =>
           ProfileSound /\ (Count = 0 \/ \E n \in 1 .. Count : ~Known(n) /\ FirstWrong(n))

DiesFor == (set /\ DiesOfPolicy) \/ DiesOfSubscriber

KindsOK ==
    /\ kinds \in Seq(AllAsked)
    /\ Len(kinds) <= MostRead
    /\ reading \in {"idle", "request", "spec", "profile", "fields", "count"} => kinds = <<>>

BodyInv ==
    /\ IsText(written)
    /\ BodyTypeOK
    /\ KindsOK
    /\ FailedFor
    /\ reading \in {"spec", "profile", "fields", "count", "list", "ready", "sent"} => FieldsAre
    /\ reading = "dead" => DiesFor
    /\ reading \in {"spec", "profile", "fields", "count", "list"} => set
    /\ Past({"profile", "fields", "count", "list"}) => TheSpec # 0
    /\ Past({"fields", "count", "list"}) => ProfileIs
    /\ Past({"count", "list"}) => SpecIs
    /\ Past({"list"}) => KindsAre
    /\ reading \in {"ready", "sent"} /\ set => Len(kinds) = GetLen(doc, ListVal) /\ Directed
    /\ reading = "sent" => IsAStr(Place(TheInput, "subscriberId"))

-----------------------------------------------------------------------------
(* What the handler finds in the document is what is written.              *)

\* A body that is no JSON is a text with nothing in it.
LEMMA NoText == IsText(<<>>) /\ Laid(<<>>) = <<>>
BY DEF IsText, Laid

\* yyjson_obj_getn, and gctl_otoi and gctl_otos on it.
LEMMA PlaceIs ==
  ASSUME IsText(written), doc = Laid(written), NEW i \in 0 .. Len(written), NEW name
  PROVE  /\ ObjGet(doc, i, name) = Place(i, name)
         /\ Place(i, name) \in 0 .. Len(written)
BY ObjGetIsSaid DEF Place

LEMMA FieldIs ==
  ASSUME IsText(written), doc = Laid(written), NEW i \in 0 .. Len(written), NEW name
  PROVE  /\ OtoI(i, name) = AnInt(i, name)
         /\ AnInt(i, name) \in Int
         /\ OtoS(i, name) = AStr(i, name)
<1>1. ObjGet(doc, i, name) = Place(i, name) /\ Place(i, name) \in 0 .. Len(written)
  BY PlaceIs
<1> DEFINE p == Place(i, name)
<1>2. /\ GetInt(doc, p) = SaidInt(written, p)
      /\ GetStr(doc, p) = SaidStr(written, p)
      /\ SaidInt(written, p) \in Numerals
  BY <1>1, ValuesAreSaid
<1>3. Numerals \in SUBSET Int
  <2>1. IntMax \in Int
    BY DEF IntMax
  <2>2. QED
    BY <2>1 DEF Numerals
<1>4. QED
  BY <1>1, <1>2, <1>3 DEF OtoI, OtoS, AnInt, AStr

\* gctl_otos gives no NULL exactly for what is a string.
LEMMA StringIs ==
  ASSUME IsText(written), doc = Laid(written), NEW i \in 0 .. Len(written), NEW name
  PROVE  /\ IsStr(doc, i) <=> IsAStr(i)
         /\ HasStr(i, name) <=> IsAStr(Place(i, name))
<1>1. ASSUME NEW j \in 0 .. Len(written) PROVE IsStr(doc, j) <=> IsAStr(j)
  <2>1. j # 0 => doc[j].type = written[j].type
    BY DEF Laid
  <2>2. QED
    BY <2>1 DEF IsStr, IsAStr, Null
<1>2. ObjGet(doc, i, name) = Place(i, name) /\ Place(i, name) \in 0 .. Len(written)
  BY PlaceIs
<1>3. QED
  BY <1>1, <1>2 DEF HasStr

LEMMA ObjectsAre ==
  ASSUME IsText(written), doc = Laid(written)
  PROVE  /\ Input = TheInput /\ TheInput \in 0 .. Len(written)
         /\ GateVal = TheGate /\ TheGate \in 0 .. Len(written)
         /\ SpecVal = TheSpec /\ TheSpec \in 0 .. Len(written)
         /\ TrafficVal = Place(TheGate, "traffic-profile")
         /\ TrafficVal \in 0 .. Len(written)
         /\ ListVal = TheList /\ TheList \in 0 .. Len(written)
         /\ ObjGet(doc, TrafficVal, "service-class-name") = TheName
         /\ ObjGet(doc, TrafficVal, "flow-spec-profile") = TheFlow
         /\ TheName \in 0 .. Len(written) /\ TheFlow \in 0 .. Len(written)
<1>1. /\ Root(doc) = IF written = <<>> THEN 0 ELSE 1
      /\ Root(doc) \in 0 .. Len(written)
  BY RootIs
<1>2. Input = TheInput /\ TheInput \in 0 .. Len(written)
  BY <1>1, PlaceIs DEF Input, TheInput
<1>3. GateVal = TheGate /\ TheGate \in 0 .. Len(written)
  BY <1>2, PlaceIs DEF GateVal, TheGate
<1>4. SpecVal = TheSpec /\ TheSpec \in 0 .. Len(written)
  BY <1>3, PlaceIs DEF SpecVal, TheSpec
<1>5. TrafficVal = Place(TheGate, "traffic-profile") /\ TrafficVal \in 0 .. Len(written)
  BY <1>3, PlaceIs DEF TrafficVal
<1>6. ListVal = TheList /\ TheList \in 0 .. Len(written)
  BY <1>3, PlaceIs DEF ListVal, TheList
<1>7. ObjGet(doc, TrafficVal, "service-class-name") = TheName /\ TheName \in 0 .. Len(written)
  BY <1>5, PlaceIs DEF TheName
<1>8. ObjGet(doc, TrafficVal, "flow-spec-profile") = TheFlow /\ TheFlow \in 0 .. Len(written)
  BY <1>5, PlaceIs DEF TheFlow
<1>9. QED
  BY <1>2, <1>3, <1>4, <1>5, <1>6, <1>7, <1>8

IsList == TheList # 0 /\ written[TheList].type = "arr"

LEMMA CountIs ==
  ASSUME IsText(written), doc = Laid(written)
  PROVE  /\ Count \in Nat
         /\ IsList => GetLen(doc, ListVal) = Count
         /\ ~IsList => Count = 0 /\ \A m : ArrGet(doc, ListVal, m) = Null
<1>1. ListVal = TheList /\ TheList \in 0 .. Len(written) /\ Len(written) \in Nat
  BY ObjectsAre, Depths
<1>2. CASE IsList
  <2>1. TheList \in 1 .. Len(written)
    BY <1>1, <1>2 DEF IsList
  <2>2. Elements(written, TheList) = Children(written, TheList)
    BY <1>2 DEF IsList, Elements
  <2>3. Cardinality(Children(written, TheList)) \in Nat
    BY <2>1, RankNext DEF NumberOf
  <2>4. GetLen(doc, TheList) = Cardinality(Children(written, TheList))
    BY <2>1, <1>2, ArrGetIsElement DEF IsList
  <2>5. QED
    BY <1>1, <1>2, <2>2, <2>3, <2>4 DEF Count
<1>3. CASE ~IsList
  <2>1. Elements(written, TheList) = {}
    BY <1>3 DEF IsList, Elements
  <2>2. Count = 0
    BY <2>1, FS_EmptySet DEF Count
  <2>3. ~IsArr(doc, TheList)
    BY <1>1, <1>3 DEF IsList, IsArr, Laid, Null
  <2>4. QED
    BY <1>1, <1>3, <2>2, <2>3 DEF ArrGet
<1>4. QED
  BY <1>2, <1>3

\* yyjson_arr_get gives the elements one after the other.
LEMMA ElementIs ==
  ASSUME IsText(written), doc = Laid(written), IsList, NEW m \in Nat, m < Count
  PROVE  /\ ArrGet(doc, ListVal, m) = TheElement(m + 1)
         /\ TheElement(m + 1) \in 0 .. Len(written)
<1>1. ListVal = TheList /\ TheList \in 1 .. Len(written) /\ Len(written) \in Nat
  BY ObjectsAre, Depths DEF IsList
<1>2. Elements(written, TheList) = Children(written, TheList)
  BY DEF IsList, Elements
<1>3. Count = NumberOf(written, TheList) /\ NumberOf(written, TheList) \in Nat
  BY <1>1, <1>2, RankNext DEF Count, NumberOf
<1> DEFINE e == Nth(written, TheList, m)
<1>4. ArrGet(doc, ListVal, m) = e
  BY <1>1, <1>3, ArrGetIsElement DEF IsList, NumberOf
<1>5. e \in Children(written, TheList)
  BY <1>1, <1>3, NthNext
<1>6. /\ Rank(written, TheList, e) = m
      /\ \A p \in Children(written, TheList) : Rank(written, TheList, p) = m => p = e
  BY <1>1, <1>3, NthIs DEF PlacesOf
<1>7. TheElement(m + 1) = e
  <2> HIDE DEF e
  <2>1. TheElement(m + 1) =
          CHOOSE j \in Children(written, TheList) : Rank(written, TheList, j) = (m + 1) - 1
    BY <1>2, Zenon DEF TheElement, Rank
  <2>2. (m + 1) - 1 = m
    OBVIOUS
  <2>3. QED
    BY <1>5, <1>6, <2>1, <2>2
<1>8. e \in 0 .. Len(written)
  BY <1>1, <1>5, ChildBounds
<1>9. QED
  BY <1>4, <1>7, <1>8

\* Of the types of an element the one that counts is found, and its fields.
LEMMA TypeIs ==
  ASSUME IsText(written), doc = Laid(written), NEW n, TheElement(n) \in 0 .. Len(written)
  PROVE  /\ TypeOf(TheElement(n)) = "none" <=> ~Known(n)
         /\ Known(n) => TypeOf(TheElement(n)) = Meant(n) /\ Meant(n) \in Types
<1> DEFINE e == TheElement(n)
           t == TypeOf(e)
<1>1. \A type : ObjGet(doc, e, type) # Null <=> Has(n, type)
  BY PlaceIs DEF Has, Null
<1>2. t = IF Has(n, "ext-classifier") THEN "ext-classifier"
          ELSE IF Has(n, "classifier") THEN "classifier"
          ELSE IF Has(n, "ipv6-classifier") THEN "ipv6-classifier"
          ELSE "none"
  BY <1>1, Zenon DEF TypeOf
<1> HIDE DEF t
<1>3. t = "none" <=> ~Known(n)
  BY <1>2 DEF Known, Types
<1>4. ASSUME Known(n) PROVE t = Meant(n) /\ Meant(n) \in Types
  <2> DEFINE Counts(type) ==
                /\ Has(n, type)
                /\ type = "classifier" => ~Has(n, "ext-classifier")
                /\ type = "ipv6-classifier" => ~Has(n, "ext-classifier") /\ ~Has(n, "classifier")
  <2>1. t \in Types /\ Counts(t)
    BY <1>2, <1>4 DEF Known, Types
  <2>2. \A type \in Types : Counts(type) => type = t
    BY <1>2 DEF Types
  <2>3. Meant(n) = CHOOSE type \in Types : Counts(type)
    BY Zenon DEF Meant
  <2> HIDE DEF Counts
  <2>4. QED
    BY <2>1, <2>2, <2>3
<1>5. QED
  BY <1>3, <1>4 DEF t

LEMMA AskedIs ==
  ASSUME IsText(written), doc = Laid(written), NEW n, TheElement(n) \in 0 .. Len(written),
         Known(n)
  PROVE  /\ ClassifierOf(Meant(n), TheElement(n)) = Asked(n)
         /\ Asked(n).type \in Types /\ Asked(n).ints["priority"] # 0
<1> DEFINE e == TheElement(n)
           i == Place(e, Meant(n))
<1>1. ObjGet(doc, e, Meant(n)) = i /\ i \in 0 .. Len(written)
  BY PlaceIs
<1>2. Meant(n) \in Types
  BY TypeIs
<1>3. /\ \A f : OtoI(i, f) = AnInt(i, f) /\ AnInt(i, f) \in Int /\ OtoS(i, f) = AStr(i, f)
      /\ OtoI(e, "classifier-id") = AnInt(e, "classifier-id")
  BY <1>1, FieldIs
<1> DEFINE ints == [f \in IntFields |-> IF f = "priority" /\ AnInt(i, "priority") = 0 THEN 64 ELSE AnInt(i, f)]
           wanted == [f \in IntFields |-> IF f = "priority" /\ AnInt(i, f) = 0 THEN 64 ELSE AnInt(i, f)]
           strs == [f \in StrFields |-> AStr(i, f)]
<1>4. ints = wanted
  OBVIOUS
<1>5. Asked(n) = [type |-> Meant(n), ints |-> wanted, strs |-> strs, id |-> AnInt(e, "classifier-id")]
  BY Zenon DEF Asked
<1>6. ClassifierOf(Meant(n), e) =
          [type |-> Meant(n), ints |-> ints, strs |-> strs, id |-> AnInt(e, "classifier-id")]
  BY <1>1, <1>3 DEF ClassifierOf
<1>7. wanted["priority"] # 0
  BY DEF IntFields
<1> HIDE DEF ints, wanted, strs
<1>8. QED
  BY <1>2, <1>4, <1>5, <1>6, <1>7

\* What the encoder finds missing is what is not written.
LEMMA WholeIs ==
  ASSUME IsText(written), doc = Laid(written), NEW n, TheElement(n) \in 0 .. Len(written)
  PROVE  Lacks(Meant(n), TheElement(n)) <=> ~Whole(n)
<1> DEFINE e == TheElement(n)
           i == Place(e, Meant(n))
<1>1. ObjGet(doc, e, Meant(n)) = i /\ i \in 0 .. Len(written)
  BY PlaceIs
<1>2. \A f : (HasStr(i, f) <=> IsAStr(Place(i, f))) /\ OtoS(i, f) = AStr(i, f)
  BY <1>1, StringIs, FieldIs
<1>3. Lacks(Meant(n), e) <=>
        \E f \in Needed[Meant(n)] : ~(HasStr(i, f) /\ (f \in Grouped => OtoS(i, f) \notin NoGroups))
  BY <1>1 DEF Lacks
<1>4. Whole(n) <=>
        \A f \in Needed[Meant(n)] : IsAStr(Place(i, f)) /\ (f \in Grouped => AStr(i, f) \notin NoGroups)
  BY DEF Whole
<1>5. QED
  BY <1>2, <1>3, <1>4, Zenon

\* None of this changes while the body is the same.
LEMMA SameText ==
  ASSUME written' = written
  PROVE  /\ TheInput' = TheInput /\ TheSpec' = TheSpec /\ TheName' = TheName
         /\ TheFlow' = TheFlow /\ Count' = Count
         /\ \A i, name : AnInt(i, name)' = AnInt(i, name) /\ AStr(i, name)' = AStr(i, name)
         /\ \A n : (Known(n)' <=> Known(n)) /\ Asked(n)' = Asked(n)
         /\ AllAsked' = AllAsked /\ IsText(written)' = IsText(written)
<1>1. \A i, name : Place(i, name)' = Place(i, name)
  BY DEF Place
<1>2. TheInput' = TheInput
  BY <1>1 DEF TheInput
<1>3. TheGate' = TheGate
  BY <1>1, <1>2 DEF TheGate
<1>4. TheSpec' = TheSpec /\ TheName' = TheName /\ TheFlow' = TheFlow /\ TheList' = TheList
  BY <1>1, <1>3 DEF TheSpec, TheName, TheFlow, TheList
<1>5. Count' = Count
  BY <1>4 DEF Count
<1>6. \A i, name : AnInt(i, name)' = AnInt(i, name) /\ AStr(i, name)' = AStr(i, name)
  BY <1>1 DEF AnInt, AStr
<1>7. \A n : TheElement(n)' = TheElement(n)
  BY <1>4 DEF TheElement
<1>8. \A n, type : Has(n, type)' <=> Has(n, type)
  BY <1>1, <1>7 DEF Has
<1>9. \A n : (Known(n)' <=> Known(n)) /\ Meant(n)' = Meant(n)
  BY <1>8 DEF Known, Meant
<1>10. \A n : Asked(n)' = Asked(n)
  BY <1>1, <1>6, <1>7, <1>9 DEF Asked
<1>11. AllAsked' = AllAsked
  BY <1>10 DEF AllAsked
<1>12. QED
  BY <1>2, <1>4, <1>5, <1>6, <1>9, <1>10, <1>11

\* And neither does what is wrong with it.
LEMMA SameFaults ==
  ASSUME written' = written
  PROVE  /\ \A n : (Sound(n)' <=> Sound(n)) /\ (FirstWrong(n)' <=> FirstWrong(n))
         /\ (ProfileSound' <=> ProfileSound) /\ (ListSound' <=> ListSound)
         /\ (Directed' <=> Directed)
         /\ (IsAStr(Place(TheInput, "subscriberId")))' <=> IsAStr(Place(TheInput, "subscriberId"))
         /\ DiesOfPolicy' <=> DiesOfPolicy
         /\ set' = set => (DiesOfSubscriber' <=> DiesOfSubscriber)
<1>1. /\ TheInput' = TheInput /\ TheSpec' = TheSpec /\ TheName' = TheName
      /\ TheFlow' = TheFlow /\ Count' = Count
      /\ \A n : (Known(n)' <=> Known(n))
      /\ \A i, name : AStr(i, name)' = AStr(i, name)
  BY SameText
<1>2. /\ \A i, name : Place(i, name)' = Place(i, name)
      /\ \A i : IsAStr(i)' <=> IsAStr(i)
  BY DEF Place, IsAStr
<1>3. TheList' = TheList
  BY <1>1, <1>2 DEF TheList, TheGate, TheInput
<1>4. \A n : TheElement(n)' = TheElement(n)
  BY <1>3 DEF TheElement
<1>5. \A n : Meant(n)' = Meant(n)
  BY <1>2, <1>4 DEF Meant, Has
<1>6. \A n : Whole(n)' <=> Whole(n)
  BY <1>1, <1>2, <1>4, <1>5 DEF Whole
<1>7. \A n : Sound(n)' <=> Sound(n)
  BY <1>1, <1>6 DEF Sound
<1>8. \A n : FirstWrong(n)' <=> FirstWrong(n)
  BY <1>1, <1>7 DEF FirstWrong
<1>9. ProfileSound' <=> ProfileSound
  BY <1>1, <1>2 DEF ProfileSound
<1>10. ListSound' <=> ListSound
  BY <1>1, <1>7 DEF ListSound
<1>11. Directed' <=> Directed
  BY <1>1, <1>2 DEF Directed
<1>12. (IsAStr(Place(TheInput, "subscriberId")))' <=> IsAStr(Place(TheInput, "subscriberId"))
  BY <1>1, <1>2
<1>13. DiesOfPolicy' <=> DiesOfPolicy
  BY <1>1, <1>2, <1>8, <1>9, <1>10, <1>11 DEF DiesOfPolicy
<1>14. set' = set => (DiesOfSubscriber' <=> DiesOfSubscriber)
  BY <1>9, <1>10, <1>11, <1>12 DEF DiesOfSubscriber
<1>15. QED
  BY <1>7, <1>8, <1>9, <1>10, <1>11, <1>12, <1>13, <1>14

-----------------------------------------------------------------------------
(* Steps.                                                                  *)

LEMMA NothingRead ==
  ASSUME BodyAssumption
  PROVE  /\ \A f \in {"gate_id", "dry_run", "application_id"} : Unread[f] \in Int
         /\ \A f \in SpecFields : NoSpec.fields[f] \in Int
         /\ Len(<<>>) <= MostRead /\ DOMAIN <<>> = {}
<1>1. \A f \in {"gate_id", "dry_run", "application_id"} : Unread[f] \in Int
  BY DEF Unread
<1>2. NoSpec.fields = [f \in SpecFields |-> 0]
  BY DEF NoSpec
<1>3. QED
  BY <1>1, <1>2 DEF BodyAssumption

LEMMA BodyInit_ == BodyInit => BodyInv
<1> SUFFICES ASSUME BodyInit PROVE BodyInv
  OBVIOUS
<1>1. IsText(written) /\ doc = Laid(written)
  BY NoText DEF BodyInit
<1>2. BodyTypeOK
  BY <1>1, BodyAssumption, NothingRead DEF BodyInit, BodyTypeOK
<1>3. KindsOK
  BY BodyAssumption DEF BodyInit, KindsOK
<1>4. FailedFor
  BY DEF BodyInit, FailedFor
<1>5. QED
  BY <1>1, <1>2, <1>3, <1>4 DEF BodyInit, BodyInv, Past

\* A handler that has not begun.
LEMMA ReceiveStep ==
  ASSUME BodyAssumption, BodyInv, NEW text \in Bodies, NEW isSet \in BOOLEAN, Receive(text, isSet)
  PROVE  BodyInv'
<1> USE DEF Receive, GoOn
<1>1. IsText(written)' /\ (doc = Laid(written))'
  BY DEF BodyAssumption
<1>2. BodyTypeOK'
  BY <1>1 DEF BodyInv, BodyTypeOK
<1>3. KindsOK'
  BY DEF BodyInv, KindsOK
<1>4. FailedFor'
  BY DEF BodyInv, BodyTypeOK, FailedFor
<1>5. QED
  BY <1>1, <1>2, <1>3, <1>4 DEF BodyInv, Past

LEMMA ForgottenStep ==
  ASSUME BodyAssumption, BodyInv, Forgotten
  PROVE  BodyInv'
<1> USE DEF Forgotten
<1>1. IsText(written)' /\ (doc = Laid(written))'
  BY NoText
<1>2. BodyTypeOK'
  BY <1>1, NothingRead DEF BodyTypeOK
<1>3. KindsOK'
  BY DEF BodyAssumption, KindsOK
<1>4. FailedFor'
  BY DEF FailedFor
<1>5. QED
  BY <1>1, <1>2, <1>3, <1>4 DEF BodyInv, Past

\* In all other steps the body is the same, and its document.
Within == UNCHANGED <<set, written, doc>>

LEMMA Kept ==
  ASSUME BodyInv, Within
  PROVE  /\ IsText(written)' /\ (doc = Laid(written))'
         /\ (AllAsked)' = AllAsked
         /\ UNCHANGED gc => (FieldsAre' <=> FieldsAre)
         /\ UNCHANGED profile => (ProfileIs' <=> ProfileIs)
         /\ UNCHANGED spec => (SpecIs' <=> SpecIs)
         /\ UNCHANGED kinds => (KindsAre' <=> KindsAre)
         /\ UNCHANGED failop => (FailedFor' <=> FailedFor)
         /\ DiesFor' <=> DiesFor
         /\ Directed' <=> Directed
         /\ (IsAStr(Place(TheInput, "subscriberId")))' <=> IsAStr(Place(TheInput, "subscriberId"))
         /\ TheSpec' = TheSpec /\ set' = set
         /\ GetLen(doc, ListVal)' = GetLen(doc, ListVal)
<1>1. written' = written /\ doc' = doc
  BY DEF Within
<1>2. GetLen(doc, ListVal)' = GetLen(doc, ListVal)
  BY <1>1 DEF ListVal, GateVal, Input
<1>3. IsText(written)' /\ (doc = Laid(written))' /\ (AllAsked)' = AllAsked /\ TheSpec' = TheSpec
  BY <1>1, SameText DEF BodyInv, BodyTypeOK
<1>4. UNCHANGED gc => (FieldsAre' <=> FieldsAre)
  BY <1>1, SameText DEF FieldsAre
<1>5. UNCHANGED profile => (ProfileIs' <=> ProfileIs)
  BY <1>1, SameText, SameFaults DEF ProfileIs
<1>6. UNCHANGED spec => (SpecIs' <=> SpecIs)
  BY <1>1, SameText DEF SpecIs
<1>7. UNCHANGED kinds => (KindsAre' <=> KindsAre)
  BY <1>1, <1>2, SameText, SameFaults DEF KindsAre
<1>8. UNCHANGED failop => (FailedFor' <=> FailedFor)
  <2>1. /\ TheSpec' = TheSpec /\ TheName' = TheName /\ TheFlow' = TheFlow /\ Count' = Count
        /\ ProfileSound' <=> ProfileSound
        /\ \A n : (Known(n)' <=> Known(n)) /\ (FirstWrong(n)' <=> FirstWrong(n))
    BY <1>1, SameText, SameFaults
  <2>2. QED
    BY <2>1 DEF FailedFor
<1>9. /\ DiesFor' <=> DiesFor
      /\ Directed' <=> Directed
      /\ (IsAStr(Place(TheInput, "subscriberId")))' <=> IsAStr(Place(TheInput, "subscriberId"))
  BY <1>1, SameFaults DEF DiesFor, Within
<1>10. QED
  BY <1>2, <1>3, <1>4, <1>5, <1>6, <1>7, <1>8, <1>9 DEF Within

LEMMA NewRequestStep ==
  ASSUME BodyInv, NewRequest
  PROVE  BodyInv'
<1> USE DEF NewRequest, GoOn
<1>1. Within
  BY DEF Within
<1>2. IsText(written) /\ doc = Laid(written) /\ Input = TheInput /\ TheInput \in 0 .. Len(written)
  BY ObjectsAre DEF BodyInv, BodyTypeOK
<1>3. \A f : OtoI(Input, f) = AnInt(TheInput, f) /\ AnInt(TheInput, f) \in Int
             /\ OtoS(Input, f) = AStr(TheInput, f)
  BY <1>2, FieldIs
<1>4. \A f : AnInt(TheInput, f)' = AnInt(TheInput, f) /\ AStr(TheInput, f)' = AStr(TheInput, f)
  BY <1>1, SameText DEF Within
<1>5. FieldsAre'
  BY <1>3, <1>4 DEF FieldsAre
<1>6. BodyTypeOK'
  <2>1. \A f \in {"gate_id", "dry_run", "application_id"} : gc'[f] \in Int
    BY <1>3
  <2>2. QED
    BY <2>1, <1>1, Kept DEF BodyInv, BodyTypeOK
<1>7. KindsOK'
  BY <1>1, Kept DEF BodyInv, KindsOK
<1>8. QED
  BY <1>1, <1>5, <1>6, <1>7, Kept DEF BodyInv, Past

\* gctl_read_policy is refused, or goes on with its next place.
LEMMA FindSpecStep ==
  ASSUME BodyInv, FindSpec
  PROVE  BodyInv'
<1> USE DEF FindSpec, GoOn, SchemaErr
<1>1. Within /\ UNCHANGED <<gc, profile, spec, kinds>>
  BY DEF Within
<1>2. GateVal = TheGate /\ SpecVal = TheSpec
  BY ObjectsAre DEF BodyInv, BodyTypeOK
<1>3. GateVal = Null => TheSpec = 0
  BY <1>2 DEF TheSpec, Place, Said, Null
<1>4. BodyTypeOK'
  BY <1>1, Kept DEF BodyInv, BodyTypeOK, Reasons
<1>5. KindsOK'
  BY <1>1, Kept DEF BodyInv, KindsOK
<1>6. CASE GateVal = Null \/ SpecVal = Null
  <2>1. TheSpec' = 0
    BY <1>1, <1>2, <1>3, <1>6, Kept DEF Null
  <2>2. FailedFor'
    BY <1>6, <2>1 DEF FailedFor
  <2>3. QED
    BY <1>1, <1>4, <1>5, <1>6, <2>2, Kept DEF BodyInv, Past
<1>7. CASE ~(GateVal = Null \/ SpecVal = Null)
  <2>1. TheSpec # 0
    BY <1>2, <1>7 DEF Null
  <2>2. QED
    BY <1>1, <1>4, <1>5, <1>7, <2>1, Kept DEF BodyInv, Past
<1>8. QED
  BY <1>6, <1>7

LEMMA FindProfileStep ==
  ASSUME BodyInv, FindProfile
  PROVE  BodyInv'
<1> USE DEF FindProfile, GoOn, SchemaErr
<1>1. Within /\ UNCHANGED <<gc, spec, kinds>>
  BY DEF Within
<1>2. /\ ObjGet(doc, TrafficVal, "service-class-name") = TheName
      /\ ObjGet(doc, TrafficVal, "flow-spec-profile") = TheFlow
      /\ TheName \in 0 .. Len(written) /\ TheFlow \in 0 .. Len(written)
  BY ObjectsAre DEF BodyInv, BodyTypeOK
<1>3. BodyTypeOK'
  BY <1>1, Kept DEF BodyInv, BodyTypeOK, Reasons, Dies
<1>4. KindsOK'
  BY <1>1, Kept DEF BodyInv, KindsOK, Dies
<1>5. TheSpec # 0
  BY DEF BodyInv, Past
<1>6. IsStr(doc, TheName) <=> IsAStr(TheName)
  BY <1>2, StringIs DEF BodyInv, BodyTypeOK
<1>7. CASE TheName = 0 /\ TheFlow = 0
  <2>1. failop' = "EBADPROF" /\ reading' = "failed"
    BY <1>2, <1>7 DEF Null
  <2>2. TheSpec' # 0 /\ TheName' = 0 /\ TheFlow' = 0
    BY <1>1, <1>5, <1>7, SameText DEF Within
  <2>3. FailedFor'
    BY <2>1, <2>2 DEF FailedFor
  <2>4. QED
    BY <1>1, <1>3, <1>4, <2>1, <2>3, Kept DEF BodyInv, Past
<1>8. CASE TheName # 0 /\ ~IsAStr(TheName)
  <2>1. reading' = "dead" /\ failop' = failop /\ profile' = profile
    BY <1>2, <1>6, <1>8, Zenon DEF Dies, Null
  <2>2. DiesFor
    BY <1>5, <1>8 DEF DiesFor, DiesOfPolicy, BodyInv
  <2>3. QED
    BY <1>1, <1>3, <1>4, <2>1, <2>2, Kept DEF BodyInv, Past
<1>9. CASE IF TheName = 0 THEN TheFlow # 0 ELSE IsAStr(TheName)
  <2>1. /\ reading' = "fields" /\ failop' = failop
        /\ profile' = [flow   |-> TheName = 0,
                       name   |-> IF TheName # 0 THEN GetStr(doc, TheName) ELSE 0,
                       number |-> IF TheName = 0 THEN OtoI(TheFlow, "service-number") ELSE 0]
    <3>1. CASE TheName = 0
      <4>1. /\ reading' = "fields" /\ failop' = failop
            /\ profile' = [flow |-> TRUE, name |-> 0, number |-> OtoI(TheFlow, "service-number")]
        BY <1>2, <1>9, <3>1, Zenon DEF Null
      <4>2. QED
        BY <3>1, <4>1
    <3>2. CASE TheName # 0
      <4>1. /\ reading' = "fields" /\ failop' = failop
            /\ profile' = [flow |-> FALSE, name |-> GetStr(doc, TheName), number |-> 0]
        BY <1>2, <1>6, <1>9, <3>2, Zenon DEF Null
      <4>2. QED
        BY <3>2, <4>1
    <3>3. QED
      BY <3>1, <3>2
  <2>2. /\ GetStr(doc, TheName) = SaidStr(written, TheName)
        /\ TheName = 0 => SaidStr(written, TheName) = 0
        /\ OtoI(TheFlow, "service-number") = AnInt(TheFlow, "service-number")
    BY <1>2, ValuesAreSaid, FieldIs DEF BodyInv, BodyTypeOK, SaidStr, Null
  <2>3. profile' = [flow   |-> TheName = 0,
                    name   |-> SaidStr(written, TheName),
                    number |-> IF TheName = 0 THEN AnInt(TheFlow, "service-number") ELSE 0]
    BY <2>1, <2>2
  <2>4. /\ TheName' = TheName /\ TheFlow' = TheFlow /\ written' = written
        /\ AnInt(TheFlow, "service-number")' = AnInt(TheFlow, "service-number")
        /\ ProfileSound'
    BY <1>1, <1>5, <1>9, SameText, SameFaults DEF Within, ProfileSound
  <2>5. ProfileIs'
    BY <2>3, <2>4 DEF ProfileIs
  <2>6. QED
    BY <1>1, <1>3, <1>4, <1>5, <2>1, <2>5, Kept DEF BodyInv, Past
<1>10. QED
  BY <1>7, <1>8, <1>9

LEMMA ReadSpecStep ==
  ASSUME BodyInv, ReadSpec
  PROVE  BodyInv'
<1> USE DEF ReadSpec, GoOn
<1>1. Within /\ UNCHANGED <<gc, profile, kinds>>
  BY DEF Within
<1>2. SpecVal = TheSpec /\ TheSpec \in 0 .. Len(written) /\ IsText(written) /\ doc = Laid(written)
  BY ObjectsAre DEF BodyInv, BodyTypeOK
<1>3. /\ \A f : OtoI(SpecVal, f) = AnInt(TheSpec, f) /\ AnInt(TheSpec, f) \in Int
      /\ OtoS(SpecVal, "direction") = AStr(TheSpec, "direction")
  BY <1>2, FieldIs
<1>4. /\ \A f : AnInt(TheSpec, f)' = AnInt(TheSpec, f)
      /\ AStr(TheSpec, "direction")' = AStr(TheSpec, "direction")
  BY <1>1, SameText DEF Within
<1>5. SpecIs'
  BY <1>3, <1>4 DEF SpecIs
<1>6. BodyTypeOK'
  <2>1. \A f \in SpecFields : spec'.fields[f] \in Int
    BY <1>3
  <2>2. QED
    BY <2>1, <1>1, Kept DEF BodyInv, BodyTypeOK
<1>7. KindsOK'
  BY <1>1, Kept DEF BodyInv, KindsOK
<1>8. QED
  BY <1>1, <1>5, <1>6, <1>7, Kept DEF BodyInv, Past

LEMMA CountClassifiersStep ==
  ASSUME BodyInv, CountClassifiers
  PROVE  BodyInv'
<1> USE DEF CountClassifiers, GoOn, SchemaErr
<1>1. Within /\ UNCHANGED <<gc, profile, spec, kinds>>
  BY DEF Within
<1>2. BodyTypeOK'
  BY <1>1, Kept DEF BodyInv, BodyTypeOK, Reasons
<1>3. KindsOK'
  BY <1>1, Kept DEF BodyInv, KindsOK
<1>4. kinds = <<>>
  BY DEF BodyInv, KindsOK
<1>5. CASE GetLen(doc, ListVal) \in 1 .. MostRead
  <2>1. KindsAre
    BY <1>4, <1>5 DEF KindsAre
  <2>2. QED
    BY <1>1, <1>2, <1>3, <1>5, <2>1, Kept DEF BodyInv, Past
<1>6. CASE GetLen(doc, ListVal) \notin 1 .. MostRead
  <2>1. Count \notin 1 .. MostRead
    BY <1>6, CountIs DEF BodyInv, BodyTypeOK
  <2>2. Count' \notin 1 .. MostRead /\ ProfileSound'
    BY <1>1, <2>1, SameText, SameFaults DEF Within, BodyInv, Past, ProfileIs
  <2>3. FailedFor'
    BY <1>6, <2>2 DEF FailedFor
  <2>4. QED
    BY <1>1, <1>2, <1>3, <1>6, <2>3, Kept DEF BodyInv, Past
<1>7. QED
  BY <1>5, <1>6

\* The list is read, and the direction goes to vtof.
LEMMA PolicyReadStep ==
  ASSUME BodyInv, PolicyRead
  PROVE  BodyInv'
<1> USE DEF PolicyRead, GoOn, Dies
<1>1. Within /\ UNCHANGED <<gc, profile, spec, kinds, failop>>
  BY DEF Within
<1>2. BodyTypeOK' /\ KindsOK'
  BY <1>1, Kept DEF BodyInv, BodyTypeOK, KindsOK
<1>3. HasStr(SpecVal, "direction") <=> Directed
  BY ObjectsAre, StringIs DEF BodyInv, BodyTypeOK, Directed
<1>4. set /\ ProfileIs /\ KindsAre
  BY DEF BodyInv, Past
<1>5. CASE HasStr(SpecVal, "direction")
  <2>1. reading' = "ready" /\ Directed
    BY <1>3, <1>5
  <2>2. QED
    BY <1>1, <1>2, <2>1, Kept DEF BodyInv, Past
<1>6. CASE ~HasStr(SpecVal, "direction")
  <2>1. Len(kinds) = Count /\ Count \in 1 .. MostRead
    BY <1>4 DEF KindsAre
  <2>2. ListSound
    BY <1>4, <2>1 DEF KindsAre, ListSound
  <2>3. DiesFor
    BY <1>3, <1>4, <1>6, <2>2 DEF DiesFor, DiesOfPolicy, ProfileIs
  <2>4. reading' = "dead"
    BY <1>6
  <2>5. QED
    BY <1>1, <1>2, <2>3, <2>4, Kept DEF BodyInv, Past
<1>7. QED
  BY <1>5, <1>6

\* What is known of a policy that is read to the end.
LEMMA ReadToTheEnd ==
  ASSUME BodyInv, reading \in {"ready", "sent"}, set
  PROVE  /\ ProfileIs /\ SpecIs /\ Directed /\ ListSound
         /\ Len(kinds) = Count /\ \A n \in 1 .. Count : kinds[n] = Asked(n)
<1>1. /\ ProfileIs /\ SpecIs /\ KindsAre /\ Directed
      /\ Len(kinds) = GetLen(doc, ListVal)
  BY DEF BodyInv, Past
<1>2. Len(kinds) = Count /\ Count \in 1 .. MostRead
  BY <1>1 DEF KindsAre
<1>3. QED
  BY <1>1, <1>2 DEF KindsAre, ListSound

LEMMA ProxyStep ==
  ASSUME BodyInv, Proxy
  PROVE  BodyInv'
<1> USE DEF Proxy, GoOn, Dies
<1>1. Within /\ UNCHANGED <<gc, profile, spec, kinds, failop>>
  BY DEF Within
<1>2. BodyTypeOK' /\ KindsOK'
  BY <1>1, Kept DEF BodyInv, BodyTypeOK, KindsOK
<1>3. HasStr(Input, "subscriberId") <=> IsAStr(Place(TheInput, "subscriberId"))
  BY ObjectsAre, StringIs DEF BodyInv, BodyTypeOK
<1>4. CASE HasStr(Input, "subscriberId")
  <2>1. reading' = "sent" /\ IsAStr(Place(TheInput, "subscriberId"))
    BY <1>3, <1>4
  <2>2. QED
    BY <1>1, <1>2, <2>1, Kept DEF BodyInv, Past
<1>5. CASE ~HasStr(Input, "subscriberId")
  <2>1. set => ProfileSound /\ ListSound /\ Directed
    BY ReadToTheEnd DEF ProfileIs
  <2>2. DiesFor
    BY <1>3, <1>5, <2>1 DEF DiesFor, DiesOfSubscriber
  <2>3. reading' = "dead"
    BY <1>5
  <2>4. QED
    BY <1>1, <1>2, <2>2, <2>3, Kept DEF BodyInv, Past
<1>6. QED
  BY <1>4, <1>5

\* The next classifier is the next that is asked for.
LEMMA ReadElementStep ==
  ASSUME BodyInv, ReadElement
  PROVE  BodyInv'
<1> USE DEF ReadElement, GoOn, SchemaErr, Dies
<1> DEFINE m == Len(kinds)
<1>1. Within /\ UNCHANGED <<gc, profile, spec>>
  BY DEF Within
<1>2. IsText(written) /\ doc = Laid(written) /\ KindsAre /\ kinds \in Seq(AllAsked)
  BY DEF BodyInv, BodyTypeOK, KindsOK, Past
<1>3. m \in Nat /\ m < GetLen(doc, ListVal) /\ Count \in Nat /\ ProfileSound /\ set
  BY <1>2, CountIs DEF BodyInv, Past, ProfileIs
<1>4. CASE ~IsList
  <2>1. Element = Null /\ Count = 0
    BY <1>2, <1>4, CountIs DEF Element
  <2>2. TypeOf(Element) = "none"
    BY <2>1 DEF TypeOf, ObjGet, IsObj
  <2>3. Count' = 0 /\ ProfileSound'
    BY <1>1, <1>3, <2>1, SameText, SameFaults DEF Within
  <2>4. FailedFor'
    BY <2>2, <2>3 DEF FailedFor
  <2>5. BodyTypeOK' /\ KindsOK'
    BY <1>1, <2>2, Kept DEF BodyInv, BodyTypeOK, KindsOK, Reasons
  <2>6. QED
    BY <1>1, <2>2, <2>4, <2>5, Kept DEF BodyInv, Past
<1>5. CASE IsList
  <2>1. GetLen(doc, ListVal) = Count /\ m < Count
    BY <1>2, <1>3, <1>5, CountIs
  <2>2. Element = TheElement(m + 1) /\ TheElement(m + 1) \in 0 .. Len(written)
    BY <1>2, <1>3, <1>5, <2>1, ElementIs DEF Element
  <2>3. /\ TypeOf(Element) = "none" <=> ~Known(m + 1)
        /\ Known(m + 1) => TypeOf(Element) = Meant(m + 1)
    BY <1>2, <2>2, TypeIs
  <2>4. \A n \in 1 .. m : Sound(n)
    BY <1>2 DEF KindsAre
  <2>5. m + 1 \in 1 .. Count /\ (m + 1) - 1 = m
    BY <1>3, <2>1
  <2>6. Sound(m + 1) \/ FirstWrong(m + 1)
    BY <2>4, <2>5 DEF FirstWrong
  <2>7. CASE ~Known(m + 1)
    <3>1. FirstWrong(m + 1)
      BY <2>7, <2>6 DEF Sound
    <3>2. ProfileSound' /\ (\E n \in 1 .. Count : ~Known(n) /\ FirstWrong(n))'
      <4>1. /\ Count' = Count /\ (ProfileSound' <=> ProfileSound)
            /\ \A n : (Known(n)' <=> Known(n)) /\ (FirstWrong(n)' <=> FirstWrong(n))
        BY <1>1, SameText, SameFaults DEF Within
      <4>2. QED
        BY <4>1, <1>3, <2>7, <2>5, <3>1
    <3>3. FailedFor'
      BY <3>2, <2>3, <2>7 DEF FailedFor
    <3>4. BodyTypeOK' /\ KindsOK'
      BY <1>1, <2>3, <2>7, Kept DEF BodyInv, BodyTypeOK, KindsOK, Reasons
    <3>5. QED
      BY <1>1, <2>3, <2>7, <3>3, <3>4, Kept DEF BodyInv, Past
  <2>8. CASE Known(m + 1) /\ ~Whole(m + 1)
    <3>1. Lacks(TypeOf(Element), Element) /\ TypeOf(Element) # "none"
      BY <1>2, <2>2, <2>3, <2>8, WholeIs
    <3>2. reading' = "dead" /\ UNCHANGED <<kinds, failop>>
      BY <3>1
    <3>3. DiesFor
      <4>1. GetLen(doc, ListVal) \in 1 .. MostRead
        BY <1>2 DEF KindsAre
      <4>2. FirstWrong(m + 1)
        BY <2>6, <2>8 DEF Sound
      <4>3. QED
        BY <4>1, <4>2, <1>3, <2>1, <2>5, <2>8 DEF DiesFor, DiesOfPolicy
    <3>4. BodyTypeOK' /\ KindsOK'
      BY <1>1, <3>2, Kept DEF BodyInv, BodyTypeOK, KindsOK
    <3>5. QED
      BY <1>1, <3>2, <3>3, <3>4, Kept DEF BodyInv, Past
  <2>9. CASE Known(m + 1) /\ Whole(m + 1)
    <3>0. ~Lacks(TypeOf(Element), Element) /\ TypeOf(Element) # "none"
      BY <1>2, <2>2, <2>3, <2>9, WholeIs
    <3>1. kinds' = Append(kinds, Asked(m + 1)) /\ reading' = "list" /\ failop' = failop
      BY <1>2, <2>2, <2>3, <2>9, <3>0, AskedIs
    <3>2. Asked(m + 1) \in AllAsked
      BY <1>3 DEF AllAsked
    <3>3. /\ kinds' \in Seq(AllAsked) /\ Len(kinds') = m + 1
          /\ \A n \in 1 .. m : kinds'[n] = kinds[n]
          /\ kinds'[m + 1] = Asked(m + 1)
      BY <1>2, <3>1, <3>2
    <3>4. Asked(m + 1).type \in Types /\ Asked(m + 1).ints["priority"] # 0
      BY <1>2, <2>2, <2>9, AskedIs
    <3>5. GetLen(doc, ListVal) \in 1 .. MostRead /\ MostRead \in Nat
      BY <1>2, BodyAssumption DEF KindsAre
    <3>6. Len(kinds') <= MostRead /\ Len(kinds') <= GetLen(doc, ListVal)
      BY <3>3, <3>5, <1>3, <2>1
    <3>7. \A n \in 1 .. Len(kinds') : Sound(n) /\ kinds'[n] = Asked(n)
      <4>1. Sound(m + 1)
        BY <2>9 DEF Sound
      <4>2. QED
        BY <1>2, <1>3, <4>1, <3>3 DEF KindsAre
    <3>8. KindsAre'
      <4>1. /\ GetLen(doc, ListVal)' = GetLen(doc, ListVal) /\ Count' = Count
            /\ \A n : (Sound(n)' <=> Sound(n)) /\ Asked(n)' = Asked(n)
        BY <1>1, Kept, SameText, SameFaults DEF Within
      <4>2. QED
        BY <4>1, <2>1, <3>5, <3>6, <3>7 DEF KindsAre
    <3>9. KindsOK'
      BY <1>1, <3>1, <3>3, <3>6, Kept DEF KindsOK
    <3>10. \A n \in DOMAIN kinds' : kinds'[n].type \in Types /\ kinds'[n].ints["priority"] # 0
      <4>1. DOMAIN kinds' = 1 .. m + 1 /\ DOMAIN kinds = 1 .. m
        BY <1>2, <3>3
      <4>2. \A n \in 1 .. m : kinds[n].type \in Types /\ kinds[n].ints["priority"] # 0
        BY <4>1 DEF BodyInv, BodyTypeOK
      <4>3. QED
        BY <1>3, <4>1, <4>2, <3>3, <3>4
    <3>11. BodyTypeOK'
      BY <1>1, <3>1, <3>6, <3>10, Kept DEF BodyInv, BodyTypeOK
    <3>12. QED
      BY <1>1, <3>1, <3>8, <3>9, <3>11, Kept DEF BodyInv, Past
  <2>10. QED
    BY <2>7, <2>8, <2>9
<1>6. QED
  BY <1>4, <1>5

LEMMA BodyStep ==
  ASSUME BodyAssumption, BodyInv, [BodyNext]_body_vars
  PROVE  BodyInv'
<1>1. CASE UNCHANGED body_vars
  <2>1. Within /\ UNCHANGED <<reading, gc, profile, spec, kinds, failop>>
    BY <1>1 DEF body_vars, Within
  <2>2. BodyTypeOK' /\ KindsOK'
    BY <2>1, Kept DEF BodyInv, BodyTypeOK, KindsOK, Within
  <2>3. Len(kinds)' = Len(kinds)
    BY <2>1
  <2>4. QED
    BY <2>1, <2>2, <2>3, Kept DEF BodyInv, Past, Within
<1>2. CASE BodyNext
  BY <1>2, ReceiveStep, NewRequestStep, FindSpecStep, FindProfileStep, ReadSpecStep,
     CountClassifiersStep, ReadElementStep, PolicyReadStep, ProxyStep,
     ForgottenStep DEF BodyNext, Returned, Restarted
<1>3. QED
  BY <1>1, <1>2

-----------------------------------------------------------------------------
(* Theorems.                                                               *)

\* What is known at each place of the handler holds there for every body.
THEOREM BodyInvariant == BodySpec => []BodyInv
<1>1. BodyInit => BodyInv
  BY BodyInit_
<1>2. BodyInv /\ [BodyNext]_body_vars => BodyInv'
  BY BodyStep, BodyAssumption
<1>3. QED
  BY <1>1, <1>2, PTL DEF BodySpec

\* Types are kept, and no classifier has priority 0 (gctl_read_policy).
THEOREM BodyTypes == BodySpec => []BodyTypeOK
<1>1. BodyInv => BodyTypeOK
  BY DEF BodyInv
<1>2. QED
  BY <1>1, BodyInvariant, PTL

\* Every field of a request, its profile, its spec and its classifiers in their
\* order are read for what is written, wherever they stand and whatever the
\* values around them have in them (gctl_new_request, gctl_read_policy,
\* yyjson_obj_getn, yyjson_arr_get).
THEOREM RequestReadHolds == BodySpec => []RequestRead
<1>1. ASSUME BodyInv PROVE RequestRead
  <2>1. FieldsRead
    BY <1>1 DEF BodyInv, FieldsRead, FieldsAre
  <2>2. ListRead
    BY <1>1, ReadToTheEnd, Zenon DEF ListRead, ProfileIs, SpecIs
  <2>3. QED
    BY <2>1, <2>2 DEF RequestRead
<1>2. QED
  BY <1>1, BodyInvariant, PTL

\* A policy is refused for the first thing that is wrong with it, a handler dies
\* of the first string that is read and is not there, and what is accepted and
\* sent has every string the encoders read (gctl_read_policy,
\* gctl_set_schemaerr, pcmm_scn_envelope, vtof, ip4_toi, pack_ip6, ps_proxy).
THEOREM RefusedForHolds == BodySpec => []RefusedFor
<1>1. ASSUME BodyInv PROVE RefusedFor
  <2>1. /\ FailedFor
        /\ reading = "dead" => (set /\ DiesOfPolicy) \/ DiesOfSubscriber
        /\ reading = "sent" => IsAStr(Place(TheInput, "subscriberId"))
    BY <1>1 DEF BodyInv, DiesFor
  <2>2. reading \in {"ready", "sent"} /\ set => ProfileSound /\ ListSound /\ Directed
    BY <1>1, ReadToTheEnd DEF ProfileIs
  <2>3. QED
    BY <2>1, <2>2, Zenon DEF FailedFor, RefusedFor
<1>2. QED
  BY <1>1, BodyInvariant, PTL

-----------------------------------------------------------------------------
(* The three parts of a gate message.                                      *)

\* Types of the whole: the classifiers of gctl_04 stay in their buffer, every
\* word of an object is one, and no classifier read has priority 0 (gctl_04,
\* the encoders of pcmm.c, gctl_read_policy).
THEOREM MessageTypes == MessageSpec => []MessageTypeOK
<1> DEFINE Inv == IInv /\ EncInv /\ BodyInv
<1>1. MessageInit => Inv
  BY IInvInit, EncInvInit, BodyInit_ DEF MessageInit
<1>2. Inv /\ [MessageNext]_message_vars => Inv'
  <2>1. SUFFICES ASSUME IInv, EncInv, BodyInv, [MessageNext]_message_vars
                 PROVE  IInv' /\ EncInv' /\ BodyInv'
    OBVIOUS
  <2>2. /\ [Next]_vars => IInv'
        /\ [EncodeNext]_encode_vars => EncInv'
        /\ [BodyNext]_body_vars => BodyInv'
    BY <2>1, IInvStep, EncStep, BodyStep, BodyAssumption
  <2>3. [Next]_vars /\ [EncodeNext]_encode_vars /\ [BodyNext]_body_vars
    BY <2>1 DEF MessageNext, message_vars
  <2>4. QED
    BY <2>2, <2>3
<1>3. Inv => MessageTypeOK
  <2>1. IInv => TypeOK
    BY DEF IInv
  <2>2. EncInv => EncodeTypeOK
    BY EncTypes
  <2>3. BodyInv => BodyTypeOK
    BY DEF BodyInv
  <2>4. QED
    BY <2>1, <2>2, <2>3 DEF MessageTypeOK
<1>4. QED
  BY <1>1, <1>2, <1>3, PTL DEF MessageSpec
=============================================================================
