---------------------------- MODULE CopsMessages ----------------------------
(***************************************************************************)
(* The two messages the server builds byte by byte: the Client-Accept a    *)
(* session begins with, and the Keep-Alive it answers one with.  They      *)
(* announce the timers of the settings.  ps_admctl works out the length of *)
(* the Client-Accept for its buffer and for the write, cops_client_accept  *)
(* works it out again for the header and for what it puts in.              *)
(***************************************************************************)
EXTENDS Configuration, Sequences

\* conf_get_KAtimer and conf_get_ACtimer, which ps_new keeps in the session.
KATimer == IF settings.ka_timer = 0 THEN 60 ELSE settings.ka_timer
ACTimer == settings.ac_timer

PcmmClient == 32778

-----------------------------------------------------------------------------
(* Numbers.                                                                *)

\* The bytes of an int, the highest first: a negative one begins with ones.
Unsigned16(v) == <<(v \div 256) % 256, v % 256>>
Unsigned32(v) == <<(v \div 16777216) % 256, (v \div 65536) % 256>> \o Unsigned16(v)

\* Their inverse; TLC's integers are those of an int.
At16(msg, k) == 256 * msg[k] + msg[k + 1]
At32(msg, k) == 16777216 * (IF msg[k] < 128 THEN msg[k] ELSE msg[k] - 256)
                + 65536 * msg[k + 1] + At16(msg, k + 2)

-----------------------------------------------------------------------------
(* Messages.                                                               *)

\* Version 1 without flags, and no object behind it.
CommonHeader(opcode, client, length) == <<16, opcode>> \o Unsigned16(client) \o Unsigned32(length)

Timer(cnum, value) == Unsigned16(8) \o <<cnum, 1>> \o Unsigned32(value)

ClientAccept(ka, ac) ==
    CommonHeader(7, PcmmClient, IF ac = 0 THEN 16 ELSE 24)
    \o Timer(10, ka)
    \o IF ac = 0 THEN <<>> ELSE Timer(15, ac)

\* Mutant: a timer below zero counts as none.
AcceptLength_positive(ac) == IF ac > 0 THEN 24 ELSE 16

\* What ps_admctl makes room for and writes.
AcceptLength(ac) == IF ac # 0 THEN 24 ELSE 16

KeepAlive == CommonHeader(9, 0, 8)

-----------------------------------------------------------------------------
(* What the reading side of the same program asks of a header.             *)

OpcodeOk(opcode) == opcode \in {1, 2, 3, 4, 6, 7, 8, 9}

HeaderOk(opcode, client, length) ==
    \/ OpcodeOk(opcode) /\ client = PcmmClient /\ length # 0 /\ length < 1000
    \/ opcode = 9 /\ client = 0

WellFormed(msg) == HeaderOk(msg[2], At16(msg, 3), At32(msg, 5)) /\ At32(msg, 5) = Len(msg)

\* The objects behind the header, each where the one before it says it ends.
Objects(msg) ==
    LET starts[k \in 0 .. 2] == IF k = 0 THEN {9}
                                ELSE {s + At16(msg, s) : s \in {t \in starts[k - 1] : t < Len(msg)}}
    IN  UNION {starts[k] : k \in 0 .. 2}

\* Whatever the settings are, one that is below zero included, what ps_admctl
\* writes is all of the message cops_client_accept has built and nothing
\* else; it ends where its header and its objects say, and announces the
\* timers of the settings, the one of the keep-alive never as zero.  The
\* Keep-Alive is one that the server itself would take.  (ps_admctl,
\* sock_keepalive, cops_client_accept, cops_keepalive, cops_header_ok.)
AcceptSays ==
    conf = "read" =>
        LET msg == ClientAccept(KATimer, ACTimer)
        IN  /\ Len(msg) = AcceptLength(ACTimer)
            /\ WellFormed(msg) /\ WellFormed(KeepAlive)
            /\ Objects(msg) = {9, 17} \union (IF ACTimer = 0 THEN {} ELSE {25})
            /\ At32(msg, 13) = KATimer /\ KATimer # 0
            /\ ACTimer # 0 => At32(msg, 21) = ACTimer
=============================================================================
