---------------------------- MODULE Configuration ----------------------------
(***************************************************************************)
(* conf_read: the options of the program, from its arguments or from a     *)
(* file of settings, one after the other.  Options are kept in two places: *)
(* opts is a local object that is returned, CLIENT_SETTINGS is static.     *)
(* `config=<path>' makes conf_read return what conf_read_file makes of the *)
(* file: what the arguments before it gave is then lost from opts, and not *)
(* from CLIENT_SETTINGS.                                                   *)
(*                                                                         *)
(* An argument is [name, eq, value]: eq says whether it has an equals sign *)
(* and a value behind it.  A failed assertion aborts, an unknown name and  *)
(* a missing file exit.                                                    *)
(***************************************************************************)
EXTENDS Json

CONSTANTS
    Commands,   \* the command lines
    Files,      \* the texts `config' may name; <<>> if it cannot be read
    MostPep     \* what max_pep may be at most (1000)

ASSUME ConfAssumption ==
    /\ MostPep \in Nat
    /\ \A command \in Commands :
          command \in Seq([name : STRING, eq : BOOLEAN, value : Numerals])
    /\ \A file \in Files : IsText(file)

Statics == {"ka_timer", "ac_timer", "connect_timeout"}
Limits  == {"max_pep", "log_level", "log_stdout", "log_max_fsize"}

Defaults == [max_pep |-> 4, log_level |-> 0, log_stdout |-> 1, log_max_fsize |-> 2097152]

ClientDefaults == [ka_timer |-> 0, ac_timer |-> 0, connect_timeout |-> 4, thread_log_level |-> 0]

\* Mutant: one level more than there are names of levels.
Allowed_six(name, value) ==
    CASE name = "max_pep"       -> value <= MostPep
      [] name = "log_level"     -> value \in 0 .. 6
      [] name = "log_stdout"    -> value \in 0 .. 1
      [] name = "log_max_fsize" -> value > 0 /\ value < 1073741824
      [] OTHER                  -> TRUE

\* The assertions of conf_argparse_opt.
Allowed(name, value) ==
    CASE name = "max_pep"       -> value <= MostPep
      [] name = "log_level"     -> value \in 0 .. 5
      [] name = "log_stdout"    -> value \in 0 .. 1
      [] name = "log_max_fsize" -> value > 0 /\ value < 1073741824
      [] OTHER                  -> TRUE

VARIABLES
    conf,       \* where conf_read is
    argv, arg,  \* the command line and the argument it is at
    text,       \* the file of settings
    doc, iter,  \* the document it is read into and the iterator over it
    opts,       \* the options of `Limits'
    mode,       \* opts.mode
    preflight,  \* opts.preflight, whose length is opts.pflen
    settings    \* CLIENT_SETTINGS

conf_vars == <<conf, argv, arg, text, doc, iter, opts, mode, preflight, settings>>

ConfTypeOK ==
    /\ conf \in {"args", "members", "read", "abort", "exit"}
    /\ argv \in Commands /\ arg \in 1 .. Len(argv) + 1
    /\ text \in Files \union {<<>>} /\ doc = Laid(text)
    /\ iter.idx \in 0 .. iter.max
    /\ DOMAIN opts = Limits /\ opts.log_level \in 0 .. 5 /\ opts.log_stdout \in 0 .. 1
    /\ mode \in {"server", "unittest"}
    /\ DOMAIN settings = Statics \union {"thread_log_level"}
    /\ settings.thread_log_level \in 0 .. 5

ConfInit ==
    /\ argv \in Commands
    /\ conf = IF argv = <<>> THEN "abort" ELSE "args"
    /\ arg = 1
    /\ text = <<>> /\ doc = <<>> /\ iter = NoIter
    /\ opts = Defaults
    /\ mode = "server"
    /\ preflight = <<>>
    /\ settings = ClientDefaults

-----------------------------------------------------------------------------
(* conf_argparse_opt: one option.  `then' is where conf_read goes on.      *)

Assign(name, value, then) ==
    /\ name \in Limits /\ Allowed(name, value)
    /\ opts' = [opts EXCEPT ![name] = value]
    /\ settings' = IF name = "log_level"
                   THEN [settings EXCEPT !.thread_log_level = value] ELSE settings
    /\ conf' = then

AssignStatic(name, value, then) ==
    /\ name \in Statics
    /\ settings' = [settings EXCEPT ![name] = value]
    /\ conf' = then
    /\ UNCHANGED opts

Refuse(name, value) ==
    /\ name \notin Statics
    /\ name \in Limits => ~Allowed(name, value)
    /\ conf' = IF name \in Limits THEN "abort" ELSE "exit"
    /\ UNCHANGED <<opts, settings>>

Option(name, value, then) ==
    \/ Assign(name, value, then)
    \/ AssignStatic(name, value, then)
    \/ Refuse(name, value)

-----------------------------------------------------------------------------
(* conf_read: the arguments.                                               *)

Argument == argv[arg]

\* yyjson_get_int of a string without an equals sign reads its first letter
\* as a tag, which is never that of an integer.
CliValue == IF Argument.eq THEN Argument.value ELSE 0

AtArgument == conf = "args" /\ arg <= Len(argv)

ReadArgument ==
    /\ AtArgument
    /\ Argument.name \notin {"config", "unittest", "server"}
    /\ Option(Argument.name, CliValue, "args")
    /\ arg' = arg + 1
    /\ UNCHANGED <<argv, text, doc, iter, mode, preflight>>

ReadMode ==
    /\ AtArgument
    /\ Argument.name \in {"unittest", "server"}
    /\ mode' = IF Argument.name = "unittest" THEN "unittest" ELSE mode
    /\ arg' = arg + 1
    /\ UNCHANGED <<conf, argv, text, doc, iter, opts, preflight, settings>>

\* Mutant: goes on from what the arguments gave.
OpenFile_keeps ==
    /\ AtArgument
    /\ Argument.name = "config"
    /\ \E file \in Files :
        /\ text' = file
        /\ doc' = Laid(file)
        /\ iter' = IterInit(Laid(file), Root(Laid(file)))
        /\ conf' = IF file = <<>> THEN "exit" ELSE "members"
    /\ UNCHANGED <<argv, arg, settings, opts, mode, preflight>>

\* conf_read_file: the options begin anew.
OpenFile ==
    /\ AtArgument
    /\ Argument.name = "config"
    /\ \E file \in Files :
        /\ text' = file
        /\ doc' = Laid(file)
        /\ iter' = IterInit(Laid(file), Root(Laid(file)))
        /\ conf' = IF file = <<>> THEN "exit" ELSE "members"
    /\ opts' = Defaults /\ mode' = "server" /\ preflight' = <<>>
    /\ UNCHANGED <<argv, arg, settings>>

ArgumentsEnd ==
    /\ conf = "args" /\ arg > Len(argv)
    /\ conf' = "read"
    /\ UNCHANGED <<argv, arg, text, doc, iter, opts, mode, preflight, settings>>

-----------------------------------------------------------------------------
(* conf_read_file: the members of the file.                                *)

AtMember == conf = "members" /\ HasNext(iter)
Name     == doc[iter.cur].uni
Value    == IterVal(iter.cur)

ReadOption ==
    /\ AtMember
    /\ Name \notin {"connect", "mode"}
    /\ Option(Name, GetInt(doc, Value), "members")
    /\ iter' = IterNext(doc, iter)
    /\ UNCHANGED <<argv, arg, text, doc, mode, preflight>>

\* The addresses the server connects to by itself.  An element that is no
\* string is NULL, and strlen faults.
ReadConnect ==
    /\ AtMember
    /\ Name = "connect"
    /\ LET raw(n) == ArrGet(doc, Value, n - 1)
       IN  IF \A n \in 1 .. GetLen(doc, Value) : IsStr(doc, raw(n))
           THEN /\ preflight' = [n \in 1 .. GetLen(doc, Value) |-> GetStr(doc, raw(n))]
                /\ UNCHANGED conf
           ELSE conf' = "abort" /\ UNCHANGED preflight
    /\ iter' = IterNext(doc, iter)
    /\ UNCHANGED <<argv, arg, text, doc, opts, mode, settings>>

\* strstr faults as well if the mode is no string.
ReadFileMode ==
    /\ AtMember
    /\ Name = "mode"
    /\ conf' = IF IsStr(doc, Value) THEN conf ELSE "abort"
    /\ mode' = IF IsStr(doc, Value) /\ GetStr(doc, Value) = "unittest" THEN "unittest" ELSE mode
    /\ iter' = IterNext(doc, iter)
    /\ UNCHANGED <<argv, arg, text, doc, opts, preflight, settings>>

\* Mutant: no assertion.
FileEnds_unchecked ==
    /\ conf = "members" /\ ~HasNext(iter)
    /\ conf' = "read"
    /\ UNCHANGED <<argv, arg, text, doc, iter, opts, mode, preflight, settings>>

\* assert(opts.max_pep >= opts.pflen), when the whole file has been read.
FileEnds ==
    /\ conf = "members" /\ ~HasNext(iter)
    /\ conf' = IF opts.max_pep >= Len(preflight) THEN "read" ELSE "abort"
    /\ UNCHANGED <<argv, arg, text, doc, iter, opts, mode, preflight, settings>>

ConfNext ==
    \/ ReadArgument \/ ReadMode \/ OpenFile \/ ArgumentsEnd
    \/ ReadOption \/ ReadConnect \/ ReadFileMode \/ FileEnds

-----------------------------------------------------------------------------
(* What the options should be, said without the loops: by what is written. *)

LastOf(S) == CHOOSE k \in S : \A j \in S : j <= k

\* The arguments that are looked at, those up to `config'; it is the last.
ArgsOf(name)  == {k \in 1 .. arg - 1 : argv[k].name = name}
CliOf(name)   == LET a == argv[LastOf(ArgsOf(name))] IN IF a.eq THEN a.value ELSE 0

\* The members of the file.
FileNames       == IF text = <<>> \/ text[1].type # "obj" THEN {} ELSE NamesOf(text, 1)
MembersOf(name) == {j \in FileNames : text[j].uni = name}
ValueOf(name)   == LastOf(MembersOf(name)) + 1
Listed          == LET in == Elements(text, ValueOf("connect"))
                   IN  [n \in 1 .. Cardinality(in) |-> SaidStr(text, ValueOf("connect") + n)]

\* The value of an option that a file of settings overrides, unless it is
\* static: then what the arguments gave is still there.
Expected(name, static, default) ==
    IF MembersOf(name) # {} THEN SaidInt(text, ValueOf(name))
    ELSE IF (text = <<>> \/ static) /\ ArgsOf(name) # {} THEN CliOf(name)
    ELSE default

-----------------------------------------------------------------------------
(* Properties.                                                             *)

\* When conf_read returns, every option has the value written last for it in
\* the place that counts, whatever stands between, and the list of addresses
\* is that of the file.  (conf_read, conf_read_file, conf_argparse_opt, and
\* the iterator and the accessors of yyjson.h they use.)
Settled ==
    conf = "read" =>
        /\ \A n \in Limits : opts[n] = Expected(n, FALSE, Defaults[n])
        /\ \A n \in Statics : settings[n] = Expected(n, TRUE, ClientDefaults[n])
        /\ settings.thread_log_level = Expected("log_level", TRUE, 0)
        /\ preflight = IF MembersOf("connect") = {} THEN <<>> ELSE Listed
=============================================================================
