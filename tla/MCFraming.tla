----------------------------- MODULE MCFraming -----------------------------
(* Framing and ReportDecode for TLC.  They are the two halves of ps_recvd:  *)
(* what Framing takes out of the socket, ReportDecode walks over.  Neither  *)
(* reads the state of the other, so it is enough to let one of them run     *)
(* while the other rests.                                                   *)
EXTENDS Framing, ReportDecode

receive_vars == <<vars, decode_vars>>

ReceiveInit == Init /\ DecodeInit

ReceiveNext ==
    \/ DecodeInit /\ Next /\ UNCHANGED decode_vars
    \/ Init /\ DecodeNext /\ UNCHANGED vars

ReceiveSpec ==
    /\ ReceiveInit
    /\ [][ReceiveNext]_receive_vars
    /\ Fairness
    /\ WF_decode_vars(DecodeStep)

\* Types, of both halves.
ReceiveTypeOK == TypeOK /\ DecodeTypeOK

-----------------------------------------------------------------------------
\* For Framing: the shortest message, two the search for a client type can
\* find, one with an opcode cops_opcode_ok refuses, a long one.
AllKinds == {[op |-> "KA", length |-> 8], [op |-> "REQ", length |-> 12],
             [op |-> "SSC", length |-> 10], [op |-> "RPT", length |-> 13]}

-----------------------------------------------------------------------------
(* For ReportDecode: messages of the CMTS, made of objects.                *)

Obj(num, type, body) == [kind |-> Kind(num, type), body |-> body]
\* A sequence TLC computes once.
Tuple(f) == SubSeq(f, 1, Len(f))

Size(o)  == 4 + 2 * Len(o.body)

\* Objects laid out from a place on, and the words they make.
Flat(objs) ==
    LET f[k \in 0 .. Len(objs)] ==
          IF k = 0 THEN <<>> ELSE f[k - 1] \o <<Size(objs[k]), objs[k].kind>> \o objs[k].body
    IN f[Len(objs)]
Place(objs, from) ==
    LET at[k \in 1 .. Len(objs)] == IF k = 1 THEN from ELSE at[k - 1] + Size(objs[k - 1])
    IN Tuple([k \in 1 .. Len(objs) |-> [at |-> at[k], kind |-> objs[k].kind, length |-> Size(objs[k])]])

\* A message of objects, those with `inner` holding a report.
Message(opcode, parts) ==
    LET objs  == Tuple([p \in 1 .. Len(parts) |->
                     IF "inner" \in DOMAIN parts[p] THEN Obj(9, 1, Flat(parts[p].inner)) ELSE parts[p]])
        slots == Place(objs, 0)
    IN [opcode |-> opcode, words |-> Tuple(Flat(objs)),
        parts |-> Tuple([p \in 1 .. Len(parts) |->
            [at |-> slots[p].at, kind |-> slots[p].kind, length |-> slots[p].length,
             inner |-> IF "inner" \in DOMAIN parts[p] THEN Place(parts[p].inner, slots[p].at + 4) ELSE <<>>]])]

Ramp(from, n) == Tuple([k \in 1 .. n |-> from + k])

\* What a report is made of.
ReportObjects ==
    <<Obj(1, 1, <<1, 5>>), Obj(1, 1, <<2, 15>>), Obj(2, 1, <<3, 4>>), Obj(3, 1, <<9, 9>>),
      Obj(4, 1, <<0, 7>>), Obj(4, 2, <<0, 8>>), Obj(5, 1, Ramp(20, 6)), Obj(6, 1, Ramp(30, 10)),
      Obj(6, 2, Ramp(50, 18)),
      Obj(6, 3, <<0, 0, 0, 257>>),
      Obj(6, 3, <<0, 0, 8, 257, 6, 6>>),
      Obj(6, 3, <<0, 0, 6, 513, 7, 7, 0, 9>>),
      Obj(14, 1, <<6, 1>>), Obj(14, 1, <<200, 0>>),
      Obj(15, 1, <<4, 0>>), Obj(15, 1, <<4, 5>>), Obj(15, 1, <<4, 65535>>)>>

Kinds17  == Len(ReportObjects)
Two(n)  == <<ReportObjects[((n - 1) \div Kinds17) + 1], ReportObjects[((n - 1) % Kinds17) + 1]>>
Report(objs) == [inner |-> objs]
Handle(lo)   == Obj(1, 1, <<8, lo>>)

\* TLC keeps the value of a definition no constant is replaced by.
Built ==
    Tuple([n \in 1 .. Kinds17 * Kinds17 |-> Message("RPT", <<Handle(3), Obj(12, 1, <<1, 0>>), Report(Two(n))>>)])
    \o Tuple([n \in 1 .. Kinds17 |-> Message("RPT", <<Handle(Kind(9, 1)), Report(<<ReportObjects[n]>>)>>)])
    \o Tuple([n \in 1 .. 3 |-> Message("REQ", <<Handle(<<3, 4, 258>>[n]), Obj(2, 1, <<8, 0>>), Report(<<>>)>>)])
    \o <<Message("RPT", <<Report(<<Obj(1, 1, <<1, 5>>)>>), Handle(5), Report(<<Obj(4, 1, <<0, 7>>)>>)>>)>>

AllMessages == Built
=============================================================================
