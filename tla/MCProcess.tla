------------------------------ MODULE MCProcess ------------------------------
(* What the threads of the process share besides the table of sessions, for *)
(* TLC: its start and its end, its descriptors, and its logs; and the       *)
(* documents it could change.  None of these reads the state of the others: *)
(* the one that is chosen as `part' runs, and the others rest.              *)
EXTENDS MCJson, Server, CopsMessages, Descriptors, Log, MutableJson, TLC

VARIABLE part

process_vars == <<part, conf_vars, server_vars, desc_vars, log_vars, mut_vars>>

ServerRests == ServerInit /\ argv = <<>> /\ files = {} /\ calm /\ ~orphan /\ ~rcfile
DescRests   == DescInit /\ apart
LogRests    == LogInit /\ unique /\ ~there /\ console
JsonRests   == ArrWith(0) /\ MutFirst

ProcessInit ==
    \/ part = "server" /\ ServerInit /\ DescRests /\ LogRests /\ JsonRests
    \/ part = "descriptors" /\ ServerRests /\ DescInit /\ LogRests /\ JsonRests
    \/ part = "logs" /\ ServerRests /\ DescRests /\ LogInit /\ JsonRests
    \/ part = "documents" /\ ServerRests /\ DescRests /\ LogRests /\ MutInit

ProcessNext ==
    \/ part = "server" /\ ServerNext /\ UNCHANGED <<part, desc_vars, log_vars, mut_vars>>
    \/ part = "descriptors" /\ DescNext /\ UNCHANGED <<part, conf_vars, server_vars, log_vars, mut_vars>>
    \/ part = "logs" /\ LogNext /\ UNCHANGED <<part, conf_vars, server_vars, desc_vars, mut_vars>>
    \/ part = "documents" /\ MutNext /\ UNCHANGED <<part, conf_vars, server_vars, desc_vars, log_vars>>

ProcessSpec == ProcessInit /\ [][ProcessNext]_process_vars

-----------------------------------------------------------------------------
\* Types, of the part that runs: among them that no option has a value the
\* assertions of conf_argparse_opt refuse, and that no number is lost from the
\* tables.
ProcessTypeOK ==
    /\ part = "server" => ServerTypeOK
    /\ part = "descriptors" => DescTypeOK
    /\ part = "logs" => LogTypeOK
    /\ part = "documents" => MutTypeOK

\* The session threads of the logs: two of the same CMTS.
Symmetry == Permutations(SessionThreads)

-----------------------------------------------------------------------------
(* Command lines, and files of settings.                                    *)

Arg(name, value) == [name |-> name, eq |-> TRUE, value |-> value]
Bare(name)       == [name |-> name, eq |-> FALSE, value |-> 0]

AllCommands ==
    { <<>>,
      <<Bare("server"), Arg("max_pep", 2)>>,
      <<Arg("max_pep", -1), Bare("log_stdout")>>,
      <<Arg("max_pep", 3), Arg("ac_timer", -1)>>,
      <<Arg("max_pep", 1001)>>,
      <<Bare("unittest"), Bare("max_pep")>>,
      <<Arg("max_pep", 2), Arg("max_pep", 1), Arg("log_level", 6)>>,
      <<Arg("speed", 1)>>,
      <<Arg("ka_timer", 30), Arg("log_level", 2), Arg("log_max_fsize", 5), Arg("config", 0)>> }

Connect(addresses) == Of("connect", Arr([k \in 1 .. Len(addresses) |-> Str(addresses[k])]))

\* `connect' in front of what follows it, at the end, twice, and alone; more
\* addresses than max_pep, or than clients[] has room for; an address and a
\* mode that are none; a value of a wrong type, a negative one, and one that is
\* not allowed.
BuiltFiles ==
    { <<>>,
      Members(<<Of("mode", Str("server")), Connect(<<"a", "b">>), Of("max_pep", Number(2)), Of("ac_timer", Number(10))>>),
      Members(<<Of("max_pep", Number(1)), Connect(<<"a", "b">>)>>),
      Members(<<Connect(<<"a", "b">>), Of("max_pep", Number(3))>>),
      Members(<<Of("log_stdout", Number(2))>>),
      Members(<<Connect(<<"a">>), Of("connect", Arr(<<Str("b"), Arr(<<>>)>>))>>),
      Members(<<Of("mode", Number(1)), Of("max_pep", Number(2))>>),
      Members(<<Of("log_level", Number(1)), Connect(<<"a", "c">>), Of("max_pep", Number(2))>>),
      Members(<<Of("connect_timeout", Str("7")), Connect(<<"b">>), Of("max_pep", Number(1))>>),
      Members(<<Connect(<<"a", "b">>), Connect(<<"b">>), Of("ka_timer", Number(-1)), Of("max_pep", Number(2))>>) }
AllFiles == BuiltFiles
=============================================================================
