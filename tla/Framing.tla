------------------------------ MODULE Framing ------------------------------
(***************************************************************************)
(* ps_recvd on the byte stream of one connection.  The CMTS writes         *)
(* messages; TCP brings their bytes in pieces of any size; ps_recvd looks  *)
(* at what there is (MSG_PEEK), takes the first eight bytes for a header,  *)
(* and then takes a message, some rubbish or nothing at all.  The socket   *)
(* does not block, so MSG_WAITALL waits for nothing.                       *)
(*                                                                         *)
(* A byte is known by its position in the stream.  The bytes of a body are *)
(* taken not to look like a header or a client type, and lengths to fit    *)
(* the last byte of their field: a length of which that byte is missing    *)
(* reads 0.                                                                *)
(***************************************************************************)
EXTENDS Naturals, Sequences

CONSTANTS
    Kinds,        \* the messages there are: opcode and length
    LengthLimit,  \* cops_header_ok refuses messages of this length
    MaxMessages,  \* bound on the messages of a connection
    MaxReturns    \* bound on what ps_recvd returns: a part of a KA, or of a
                  \* header, makes it return again and again

Header == 8

ASSUME BoundAssumption == MaxMessages \in Nat /\ MaxReturns \in Nat /\ MaxMessages <= MaxReturns

ASSUME KindsAssumption ==
    /\ \A m \in Kinds : m.length \in Nat /\ m.length >= Header
    /\ Kinds \subseteq [op : {"REQ", "RPT", "OPN", "CC", "KA", "SSC"}, length : Nat]

Ops == {"REQ", "RPT", "OPN", "CC", "KA", "SSC"}

VARIABLES
    stream,   \* the messages the CMTS has written
    ends,     \* where each of them ends
    cut,      \* how each of them has been cut by TCP so far
    arrived,  \* bytes in the socket, those taken included
    taken,    \* bytes ps_recvd has taken out
    pc,       \* where ps_recvd is
    seen,     \* opc and length, as read from the header
    due,      \* bytes it waits for in its inner loop
    got       \* the opcodes it has returned, each with the message it parsed

vars == <<stream, ends, cut, arrived, taken, pc, seen, due, got>>

N        == Len(stream)
Start(j) == IF j = 1 THEN 0 ELSE ends[j - 1]
Sent     == Start(N + 1)
Ready    == arrived - taken

TypeOK ==
    /\ stream \in Seq(Kinds)
    /\ ends \in Seq(Nat)
    /\ cut \in Seq({"none", "body", "bad"})
    /\ arrived \in 0 .. Sent
    /\ taken \in 0 .. arrived
    /\ pc \in {"peek", "take", "due"}
    /\ seen \in [op : Ops, length : Nat]
    /\ due \in Nat
    /\ got \in Seq([op : Ops, of : 0 .. N])

Init ==
    /\ stream = <<>>
    /\ ends = <<>>
    /\ cut = <<>>
    /\ arrived = 0
    /\ taken = 0
    /\ pc = "peek"
    /\ seen = [op |-> "KA", length |-> 0]
    /\ due = 0
    /\ got = <<>>

reader == <<pc, seen, due, got>>

-----------------------------------------------------------------------------
(* The CMTS and the network.                                               *)

Write(m) ==
    /\ N < MaxMessages
    /\ stream' = Append(stream, m)
    /\ ends' = Append(ends, Sent + m.length)
    /\ cut' = Append(cut, "none")
    /\ UNCHANGED <<arrived, taken, reader>>

\* More bytes are there, up to b.  The cut is in a body for the first time,
\* or it is one the server is not made for.
Arrive(b) ==
    /\ arrived' = b
    /\ cut' = [j \in 1 .. N |->
                  IF Start(j) < b /\ b < ends[j]
                  THEN IF b >= Start(j) + Header /\ cut[j] = "none" THEN "body" ELSE "bad"
                  ELSE cut[j]]
    /\ UNCHANGED <<stream, ends, taken, reader>>

-----------------------------------------------------------------------------
(* ps_recvd.                                                               *)

\* opc, at the start of a message of which two bytes are there.
Opcode(j) == taken = Start(j) /\ Ready >= 2

\* cops_header_ok.  The client type of a KA is 0, as are missing bytes.
HeaderOk(j) ==
    /\ Opcode(j)
    /\ \/ stream[j].op = "KA"
       \/ /\ stream[j].op # "SSC"
          /\ Ready >= Header
          /\ stream[j].length < LengthLimit

\* The header is good; of a KA it may not even be complete.
PeekHeader(j) ==
    /\ pc = "peek"
    /\ HeaderOk(j)
    /\ seen' = [op |-> stream[j].op,
                length |-> IF Ready >= Header THEN stream[j].length ELSE 0]
    /\ pc' = "take"
    /\ UNCHANGED <<stream, ends, cut, arrived, taken, due, got>>

\* The search for a client type comes upon that of message j, i bytes on.
ClientType(j, i) ==
    /\ stream[j].op # "KA"
    /\ taken + i = Start(j) + 2
    /\ i + 4 < Ready

NoHeader == Ready > 0 /\ \A j \in 1 .. N : ~HeaderOk(j)

\* What is before it goes, and the length is that of message j; but opc is
\* still what was read first, be it from the middle of a message.
Resync(j, i) ==
    /\ pc = "peek"
    /\ NoHeader
    /\ ClientType(j, i)
    /\ \A k \in 1 .. j - 1 : Start(k) + 2 >= taken => stream[k].op = "KA"
    /\ taken' = IF i >= 2 THEN taken + (i - 2) ELSE taken
    /\ \E op \in Ops :
          /\ i < 2 => op = "RPT"
          /\ i >= 2 => \A k \in 1 .. N : Opcode(k) => op = stream[k].op
          /\ seen' = [op |-> op,
                      length |-> IF i + 6 <= Ready THEN stream[j].length ELSE 0]
    /\ pc' = "take"
    /\ UNCHANGED <<stream, ends, cut, arrived, due, got>>

\* Mutant of Discard: the size of a header goes, be it there or not.
Discard_header ==
    /\ pc = "peek"
    /\ NoHeader
    /\ \A j \in 1 .. N, i \in 0 .. Ready : ~ClientType(j, i)
    /\ taken' = taken + Header
    /\ UNCHANGED <<stream, ends, cut, arrived, reader>>

\* No client type: everything that is there goes.
Discard ==
    /\ pc = "peek"
    /\ NoHeader
    /\ \A j \in 1 .. N, i \in 0 .. Ready : ~ClientType(j, i)
    /\ taken' = arrived
    /\ UNCHANGED <<stream, ends, cut, arrived, reader>>

\* ps_recvd returns opc; it has parsed message j, or what is none.
Return(j) ==
    /\ got' = Append(got, [op |-> seen.op, of |-> j])
    /\ pc' = "peek"
    /\ due' = 0

Parsed == {j \in 1 .. N : taken = Start(j) /\ seen.length = stream[j].length}
Result == IF Parsed = {} THEN {0} ELSE Parsed

\* Mutant of Take: the message is looked at and left in the socket.
Take_peek ==
    /\ pc = "take"
    /\ Len(got) < MaxReturns
    /\ seen.length <= Ready
    /\ \E j \in Result : Return(j)
    /\ UNCHANGED <<stream, ends, cut, arrived, taken, seen>>

\* recv(length): all of it is there.
Take ==
    /\ pc = "take"
    /\ Len(got) < MaxReturns
    /\ seen.length <= Ready
    /\ taken' = taken + seen.length
    /\ \E j \in Result : Return(j)
    /\ UNCHANGED <<stream, ends, cut, arrived, seen>>

\* Mutant of TakePart: a message that is not complete is returned as it is.
TakePart_returns ==
    /\ pc = "take"
    /\ Ready < seen.length
    /\ Len(got) < MaxReturns
    /\ taken' = arrived
    /\ Return(0)
    /\ UNCHANGED <<stream, ends, cut, arrived, seen>>

\* Some of it is not.
TakePart ==
    /\ pc = "take"
    /\ Ready < seen.length
    /\ taken' = arrived
    /\ due' = seen.length - Ready
    /\ pc' = "due"
    /\ UNCHANGED <<stream, ends, cut, arrived, seen, got>>

\* Mutant of Due: the loop waits for one byte more.
Due_more ==
    /\ pc = "due"
    /\ Len(got) < MaxReturns
    /\ Ready > due
    /\ taken' = taken + due + 1
    /\ Return(0)
    /\ UNCHANGED <<stream, ends, cut, arrived, seen>>

\* The inner loop ends with a recv that finds all the bytes due; they are
\* put where the header was, and none of what came before is parsed.
Due ==
    /\ pc = "due"
    /\ Len(got) < MaxReturns
    /\ Ready >= due
    /\ taken' = taken + due
    /\ Return(0)
    /\ UNCHANGED <<stream, ends, cut, arrived, seen>>

\* A recv that finds fewer takes them, and as many are due as before.
DuePart ==
    /\ pc = "due"
    /\ 0 < Ready
    /\ Ready < due
    /\ taken' = arrived
    /\ UNCHANGED <<stream, ends, cut, arrived, reader>>

Recvd ==
    \/ \E j \in 1 .. N : PeekHeader(j)
    \/ \E j \in 1 .. N, i \in 0 .. Ready : Resync(j, i)
    \/ Discard \/ Take \/ TakePart \/ Due \/ DuePart

Next ==
    \/ \E m \in Kinds : Write(m)
    \/ \E b \in arrived + 1 .. Sent : Arrive(b)
    \/ Recvd

Spec == Init /\ [][Next]_vars

\* ps_recvd is called over and over, and TCP delivers what was written.
Fairness == WF_vars(Recvd) /\ WF_vars(\E b \in arrived + 1 .. Sent : Arrive(b))

FairSpec == Spec /\ Fairness

-----------------------------------------------------------------------------
(* Properties.                                                             *)

\* TCP has cut no message in its header, and none twice.
Kept == \A j \in 1 .. N : cut[j] # "bad"

\* Then ps_recvd returns the opcodes of the messages in order, none twice and
\* none left out; and the messages that came in one piece it has parsed.
Delivered ==
    Kept => /\ Len(got) <= N
            /\ \A k \in 1 .. Len(got) :
                  /\ got[k].op = stream[k].op
                  /\ got[k].of = k \/ (got[k].of = 0 /\ cut[k] = "body")

\* However the stream is cut, no message is parsed twice or after a later one.
OnceInOrder ==
    \A k, l \in 1 .. Len(got) :
        k < l /\ got[k].of # 0 /\ got[l].of # 0 => got[k].of < got[l].of

\* Every message that was written is returned in the end.
AllReturned == []Kept => \A k \in 1 .. MaxMessages : N >= k ~> Len(got) >= k

=============================================================================
