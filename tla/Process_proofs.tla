---------------------------- MODULE Process_proofs ----------------------------
(***************************************************************************)
(* Proofs about what the threads of the process share besides the table of *)
(* sessions: the options and the life of the server (Configuration,        *)
(* Server), the messages that announce its timers (CopsMessages), its logs *)
(* (Log) and its descriptors (Descriptors).  None of these reads the state *)
(* of another but for the server, which reads the options, so that each    *)
(* has an inductive invariant of its own: ConfInv and ServerInv, LogInv,   *)
(* DInv.                                                                   *)
(***************************************************************************)
EXTENDS Server, CopsMessages, Descriptors, Log, Json_proofs

-----------------------------------------------------------------------------
(****************************************************************************)
(* The options (Configuration). At every argument and every member of the  *)
(* file the options are what the arguments and the members so far say: SoFar*)
(* is Expected of the part that has been read. The members are reached by  *)
(* the iterator of yyjson.h, which is at the name with its number          *)
(* (Json_proofs: NthIs, ObjectIs); at the end all of them are passed.      *)
(****************************************************************************)

LEMMA SmallNumerals ==
  /\ Numerals \subseteq Int
  /\ \A n \in Nat : n <= 60 => n \in Numerals
  /\ 2097152 \in Numerals
<1>1. IntMax \in Nat /\ 60 <= IntMax /\ 2097152 <= IntMax
  BY DEF IntMax
<1>2. QED
  BY <1>1 DEF Numerals

LEMMA EmptyLaid == Laid(<<>>) = <<>>
BY DEF Laid

LEMMA LastOfAdd ==
  ASSUME NEW S, NEW x \in Int, \A s \in S : s \in Int /\ s < x
  PROVE  LastOf(S \union {x}) = x
<1>1. x \in S \union {x} /\ \A j \in S \union {x} : j <= x
  OBVIOUS
<1>2. \A k \in S \union {x} : (\A j \in S \union {x} : j <= k) => k = x
  OBVIOUS
<1>3. QED
  BY <1>1, <1>2 DEF LastOf

\* What an option and the list should be, by the arguments and the members so far.
Passed(name) == {j \in MembersOf(name) : j < iter.cur}

SoFar(name, static, default) ==
    IF Passed(name) # {} THEN SaidInt(text, LastOf(Passed(name)) + 1)
    ELSE IF (text = <<>> \/ static) /\ ArgsOf(name) # {} THEN CliOf(name)
    ELSE default

ListAt(i) == LET in == Elements(text, i)
             IN  [n \in 1 .. Cardinality(in) |-> SaidStr(text, i + n)]

ListSoFar == IF Passed("connect") = {} THEN <<>> ELSE ListAt(LastOf(Passed("connect")) + 1)

\* Where the iterator is: at the name with its number.
IterOK ==
    /\ text = <<>> => iter = NoIter /\ conf # "members"
    /\ text # <<>> =>
          /\ conf # "args"
          /\ IsText(text) /\ 1 \in 1 .. Len(text)
          /\ iter \in [idx : Nat, max : Nat, cur : Nat] /\ iter.idx <= iter.max
          /\ IF text[1].type = "obj"
             THEN iter.max = MembersIn(text, 1) /\ iter.cur = Nth(text, 1, 2 * iter.idx)
             ELSE iter.max = 0
          /\ conf = "read" => iter.idx = iter.max

ValuesOK ==
    conf \in {"args", "members", "read"} =>
        /\ \A n \in Limits : opts[n] = SoFar(n, FALSE, Defaults[n])
        /\ \A n \in Statics : settings[n] = SoFar(n, TRUE, ClientDefaults[n])
        /\ settings["thread_log_level"] = SoFar("log_level", TRUE, 0)
        /\ preflight = ListSoFar

\* The source has no more addresses than it allows sessions.
RoomOK ==
    /\ Len(preflight) \in Nat
    /\ text = <<>> => preflight = <<>>
    /\ conf = "read" => preflight = <<>> \/ opts["max_pep"] >= Len(preflight)

Fields == Statics \union {"thread_log_level"}

ConfInv ==
    /\ ConfTypeOK
    /\ opts \in [Limits -> Numerals] /\ settings \in [Fields -> Numerals]
    /\ IterOK
    /\ ValuesOK
    /\ RoomOK

-----------------------------------------------------------------------------

LEMMA TextLen ==
  ASSUME ConfAssumption, NEW source \in Files, source # <<>>
  PROVE  IsText(source) /\ Len(source) \in Nat /\ 1 \in 1 .. Len(source)
<1>1. IsText(source)
  BY DEF ConfAssumption
<1>2. Len(source) \in Nat /\ source = [i \in 1 .. Len(source) |-> source[i]]
  BY <1>1 DEF IsText
<1>3. Len(source) # 0
  BY <1>2
<1>4. QED
  BY <1>1, <1>2, <1>3

\* What one option does.
LEMMA OptionStep ==
  ASSUME NEW name, NEW value \in Numerals, NEW then,
         opts \in [Limits -> Numerals], settings \in [Fields -> Numerals],
         opts["log_level"] \in 0 .. 5, opts["log_stdout"] \in 0 .. 1,
         settings["thread_log_level"] \in 0 .. 5,
         Option(name, value, then)
  PROVE  /\ opts' \in [Limits -> Numerals] /\ settings' \in [Fields -> Numerals]
         /\ opts'["log_level"] \in 0 .. 5 /\ opts'["log_stdout"] \in 0 .. 1
         /\ settings'["thread_log_level"] \in 0 .. 5
         /\ \/ conf' \in {"abort", "exit"}
            \/ /\ conf' = then
               /\ \A n \in Limits : opts'[n] = IF n = name THEN value ELSE opts[n]
               /\ \A n \in Statics : settings'[n] = IF n = name THEN value ELSE settings[n]
               /\ settings'["thread_log_level"] =
                      IF name = "log_level" THEN value ELSE settings["thread_log_level"]
<1>1. CASE Assign(name, value, then)
  <2>1. name \in Limits /\ Allowed(name, value) /\ opts' = [opts EXCEPT ![name] = value] /\ conf' = then
        /\ settings' = IF name = "log_level"
                       THEN [settings EXCEPT !["thread_log_level"] = value] ELSE settings
    BY <1>1 DEF Assign
  <2>2. name = "log_level" => value \in 0 .. 5
    BY <2>1 DEF Allowed
  <2>3. name = "log_stdout" => value \in 0 .. 1
    BY <2>1 DEF Allowed
  <2>4. QED
    BY <2>1, <2>2, <2>3 DEF Limits, Statics, Fields
<1>2. CASE AssignStatic(name, value, then)
  BY <1>2 DEF AssignStatic, Limits, Statics, Fields
<1>3. CASE Refuse(name, value)
  BY <1>3 DEF Refuse
<1>4. QED
  BY <1>1, <1>2, <1>3 DEF Option

\* At a member: the name is one the object has, and what it says is read.
LEMMA AtName ==
  ASSUME IterOK, AtMember, doc = Laid(text)
  PROVE  /\ text # <<>> /\ IsText(text) /\ 1 \in 1 .. Len(text) /\ text[1].type = "obj"
         /\ iter.idx \in Nat /\ iter.idx < MembersIn(text, 1) /\ iter.max = MembersIn(text, 1)
         /\ iter.cur = Nth(text, 1, 2 * iter.idx)
         /\ iter.cur \in NamesOf(text, 1) /\ iter.cur \in 1 .. Len(text)
         /\ Name = text[iter.cur].uni
         /\ Value = iter.cur + 1 /\ Value \in 1 .. Len(text)
         /\ GetInt(doc, Value) = SaidInt(text, Value) /\ SaidInt(text, Value) \in Numerals
         /\ IsStr(doc, Value) <=> text[Value].type = "str"
<1>1. text # <<>> /\ IsText(text) /\ 1 \in 1 .. Len(text) /\ iter.idx < iter.max
  BY DEF IterOK, AtMember, HasNext, NoIter
<1>2. text[1].type = "obj"
  BY <1>1 DEF IterOK
<1>3. iter.max = MembersIn(text, 1) /\ iter.cur = Nth(text, 1, 2 * iter.idx) /\ iter.idx \in Nat
  BY <1>1, <1>2 DEF IterOK
<1>4. iter.cur \in NamesOf(text, 1)
  BY <1>1, <1>2, <1>3, MemberIs
<1>5. iter.cur \in 1 .. Len(text) /\ doc[iter.cur].uni = text[iter.cur].uni /\ iter.cur + 1 \in 1 .. Len(text)
  BY <1>1, <1>2, <1>4, NameIs
<1>6. Value = iter.cur + 1
  BY <1>5, Depths, <1>1 DEF Value, IterVal, Null
<1>7. Value \in 0 .. Len(text) /\ Value # 0
  BY <1>1, <1>5, <1>6, Depths
<1>8. /\ GetInt(doc, Value) = SaidInt(text, Value) /\ SaidInt(text, Value) \in Numerals
      /\ IsStr(doc, Value) <=> Value # 0 /\ text[Value].type = "str"
  BY <1>1, <1>7, ValuesAreSaid
<1>9. QED
  BY <1>1, <1>2, <1>3, <1>4, <1>5, <1>6, <1>7, <1>8 DEF Name

\* The members that are passed are those of before and the one the iterator was at.
LEMMA PassedStep ==
  ASSUME IterOK, AtMember, doc = Laid(text), text' = text, argv' = argv, arg' = arg,
         iter' = IterNext(doc, iter), conf' \in {"members", "abort", "exit"}
  PROVE  /\ IterOK'
         /\ iter'.idx \in 0 .. iter'.max
         /\ \A n : Passed(n)' = IF n = Name THEN Passed(n) \union {iter.cur} ELSE Passed(n)
         /\ \A n : \A j \in Passed(n) : j \in Int /\ j < iter.cur
<1> DEFINE cur == iter.cur
           next == Nth(text, 1, 2 * (iter.idx + 1))
<1>1. /\ text # <<>> /\ IsText(text) /\ 1 \in 1 .. Len(text) /\ text[1].type = "obj"
      /\ iter.idx \in Nat /\ iter.idx < MembersIn(text, 1) /\ iter.max = MembersIn(text, 1)
      /\ cur = Nth(text, 1, 2 * iter.idx) /\ cur \in NamesOf(text, 1) /\ cur \in 1 .. Len(text)
      /\ Name = text[cur].uni /\ MembersIn(text, 1) \in Nat
      /\ NumberOf(text, 1) = 2 * MembersIn(text, 1)
  BY AtName, ObjectIs
<1>2. NextOf(doc, cur + 1) = next
  BY <1>1, MemberIs
<1>3. iter \in [idx : Nat, max : Nat, cur : Nat]
  BY <1>1 DEF IterOK
<1>4. /\ iter'.idx = iter.idx + 1 /\ iter'.max = MembersIn(text, 1) /\ iter'.cur = next
      /\ iter' \in [idx : Nat, max : Nat, cur : Nat]
  <2>1. next \in Nat
    <3>1. 2 * (iter.idx + 1) \in 0 .. NumberOf(text, 1)
      BY <1>1
    <3>2. next \in PlacesOf(text, 1)
      BY <1>1, <3>1, NthIs
    <3>3. QED
      BY <1>1, <3>2, RankOrder
  <2>5. iter.idx \in Nat /\ NextOf(doc, iter.cur + 1) = next
    BY <1>1, <1>2, Zenon
  <2>2. iter.idx + 1 \in Nat /\ NextOf(doc, iter.cur + 1) = next
    BY <2>5
  <2> HIDE DEF next
  <2>3. iter' = [[iter EXCEPT !.idx = iter.idx + 1] EXCEPT !.cur = next]
    BY <2>2, <1>3, Zenon DEF IterNext
  <2>4. QED
    BY <1>1, <1>3, <2>1, <2>2, <2>3
<1>5. IterOK'
  BY <1>1, <1>4 DEF IterOK
<1>6. /\ next \in PlacesOf(text, 1) /\ Rank(text, 1, next) = 2 * (iter.idx + 1)
      /\ cur \in PlacesOf(text, 1) /\ Rank(text, 1, cur) = 2 * iter.idx
  <2>1. 2 * (iter.idx + 1) \in 0 .. NumberOf(text, 1) /\ 2 * iter.idx \in 0 .. NumberOf(text, 1)
    BY <1>1
  <2>2. QED
    BY <1>1, <2>1, NthIs
<1>7. ASSUME NEW j \in NamesOf(text, 1) PROVE j \in Int /\ (j < next <=> j = cur \/ j < cur)
  <2> DEFINE r == Rank(text, 1, j)
  <2>1. j \in PlacesOf(text, 1) /\ r \in Nat /\ r % 2 = 0
    <3>1. j \in Children(text, 1) /\ r % 2 = 0
      BY <1>1, NamesAre
    <3>2. QED
      BY <3>1, <1>1, NthOfRank DEF PlacesOf
  <2>2. /\ j \in Nat /\ next \in Nat /\ cur \in Nat
        /\ (j < next => r < 2 * (iter.idx + 1)) /\ (next < j => 2 * (iter.idx + 1) < r)
        /\ (j # next => r # 2 * (iter.idx + 1))
    BY <1>1, <1>6, <2>1, RankOrder
  <2>3. /\ (j < cur => r < 2 * iter.idx) /\ (cur < j => 2 * iter.idx < r)
    BY <1>1, <1>6, <2>1, RankOrder
  <2>4. j = cur => r = 2 * iter.idx
    BY <1>6
  <2>5. j = next => r = 2 * (iter.idx + 1)
    BY <1>6
  <2> HIDE DEF r
  <2>6. PICK q \in Nat : r = 2 * q
    BY <2>1
  <2> HIDE DEF cur, next
  <2>7. j < next => q <= iter.idx
    BY <1>1, <2>2, <2>6
  <2>8. q <= iter.idx => j = cur \/ j < cur
    BY <1>1, <2>2, <2>3, <2>6
  <2>9. j = cur \/ j < cur => r <= 2 * iter.idx
    BY <1>1, <2>3, <2>4, <2>6
  <2>10. r <= 2 * iter.idx => j < next
    BY <1>1, <2>2, <2>5, <2>6
  <2>11. QED
    BY <2>2, <2>7, <2>8, <2>9, <2>10
<1>8. FileNames = NamesOf(text, 1) /\ FileNames' = NamesOf(text, 1)
  BY <1>1 DEF FileNames
<1>9. ASSUME NEW n
      PROVE  /\ Passed(n)' = IF n = Name THEN Passed(n) \union {cur} ELSE Passed(n)
             /\ \A j \in Passed(n) : j \in Int /\ j < cur
  <2>1. Passed(n) = {j \in NamesOf(text, 1) : text[j].uni = n /\ j < cur}
    BY <1>8 DEF Passed, MembersOf
  <2>2. Passed(n)' = {j \in NamesOf(text, 1) : text[j].uni = n /\ j < next}
    BY <1>4, <1>8 DEF Passed, MembersOf
  <2> HIDE DEF cur, next
  <2>3. Passed(n)' = {j \in NamesOf(text, 1) : text[j].uni = n /\ (j = cur \/ j < cur)}
    BY <2>2, <1>7
  <2>4. QED
    BY <1>1, <2>1, <2>3, <1>7
<1>10. iter'.idx \in 0 .. iter'.max
  BY <1>1, <1>4
<1>11. QED
  BY <1>5, <1>9, <1>10

\* The arguments that are looked at, likewise.
LEMMA ArgsStep ==
  ASSUME arg \in 1 .. Len(argv), Len(argv) \in Nat, arg' = arg + 1, argv' = argv
  PROVE  /\ \A n : ArgsOf(n)' = IF n = Argument.name THEN ArgsOf(n) \union {arg} ELSE ArgsOf(n)
         /\ \A n : \A k \in ArgsOf(n) : k \in Int /\ k < arg
BY DEF ArgsOf, Argument

LEMMA MemberValue ==
  ASSUME IterOK, AtMember, doc = Laid(text), text' = text, argv' = argv, arg' = arg,
         iter' = IterNext(doc, iter), conf' \in {"members", "abort", "exit"}
  PROVE  /\ \A n, static, default :
                SoFar(n, static, default)' = IF n = Name THEN SaidInt(text, Value)
                                             ELSE SoFar(n, static, default)
         /\ ListSoFar' = IF Name = "connect" THEN ListAt(Value) ELSE ListSoFar
<1>1. Value = iter.cur + 1 /\ iter.cur \in Int
  BY AtName
<1>2. ASSUME NEW n
      PROVE  /\ n # Name => Passed(n)' = Passed(n)
             /\ n = Name => Passed(n)' # {} /\ LastOf(Passed(n)') = iter.cur
  <2>1. /\ Passed(n)' = IF n = Name THEN Passed(n) \union {iter.cur} ELSE Passed(n)
        /\ \A j \in Passed(n) : j \in Int /\ j < iter.cur
    BY PassedStep
  <2>2. LastOf(Passed(n) \union {iter.cur}) = iter.cur
    BY <1>1, <2>1, LastOfAdd
  <2>3. QED
    BY <2>1, <2>2
<1>3. ASSUME NEW n, NEW static, NEW default
      PROVE  SoFar(n, static, default)' = IF n = Name THEN SaidInt(text, Value)
                                          ELSE SoFar(n, static, default)
  <2>1. SoFar(n, static, default)' =
            IF Passed(n)' # {} THEN SaidInt(text, LastOf(Passed(n)') + 1)
            ELSE IF (text = <<>> \/ static) /\ ArgsOf(n) # {} THEN CliOf(n)
            ELSE default
    BY DEF SoFar, ArgsOf, CliOf, LastOf
  <2>2. QED
    BY <1>1, <1>2, <2>1 DEF SoFar
<1>4. ListSoFar' = IF Name = "connect" THEN ListAt(Value) ELSE ListSoFar
  <2>1. ListSoFar' = IF Passed("connect")' = {} THEN <<>>
                     ELSE ListAt(LastOf(Passed("connect")') + 1)
    BY DEF ListSoFar, ListAt, LastOf
  <2>2. QED
    BY <1>1, <1>2, <2>1 DEF ListSoFar
<1>5. QED
  BY <1>3, <1>4

LEMMA ArgumentValue ==
  ASSUME text = <<>>, text' = <<>>, argv' = argv, arg' = arg + 1,
         arg \in 1 .. Len(argv), Len(argv) \in Nat
  PROVE  /\ \A n, static, default :
                SoFar(n, static, default)' = IF n = Argument.name THEN CliValue
                                             ELSE SoFar(n, static, default)
         /\ ListSoFar = <<>> /\ ListSoFar' = <<>>
<1>1. \A n : Passed(n) = {} /\ Passed(n)' = {}
  BY DEF Passed, MembersOf, FileNames
<1>2. ASSUME NEW n
      PROVE  /\ n # Argument.name => ArgsOf(n)' = ArgsOf(n)
             /\ n = Argument.name => ArgsOf(n)' # {} /\ LastOf(ArgsOf(n)') = arg
  <2>1. /\ ArgsOf(n)' = IF n = Argument.name THEN ArgsOf(n) \union {arg} ELSE ArgsOf(n)
        /\ \A k \in ArgsOf(n) : k \in Int /\ k < arg
    BY ArgsStep
  <2>2. LastOf(ArgsOf(n) \union {arg}) = arg
    <3>1. arg \in Int
      OBVIOUS
    <3>2. QED
      BY <2>1, <3>1, LastOfAdd
  <2>3. QED
    BY <2>1, <2>2
<1>3. ASSUME NEW n, NEW static, NEW default
      PROVE  SoFar(n, static, default)' = IF n = Argument.name THEN CliValue
                                          ELSE SoFar(n, static, default)
  <2>1. SoFar(n, static, default) = IF ArgsOf(n) # {} THEN CliOf(n) ELSE default
    BY <1>1 DEF SoFar
  <2>2. SoFar(n, static, default)' = IF ArgsOf(n)' # {} THEN CliOf(n)' ELSE default
    BY <1>1 DEF SoFar
  <2>3. CliOf(n)' = IF argv[LastOf(ArgsOf(n)')].eq THEN argv[LastOf(ArgsOf(n)')].value ELSE 0
    BY DEF CliOf, LastOf
  <2>4. n = Argument.name => CliOf(n)' = CliValue
    BY <1>2, <2>3 DEF CliValue, Argument
  <2>5. n # Argument.name => CliOf(n)' = CliOf(n)
    BY <1>2, <2>3 DEF CliOf
  <2>6. QED
    BY <1>2, <2>1, <2>2, <2>4, <2>5
<1>4. QED
  BY <1>1, <1>3 DEF ListSoFar

LEMMA ConfInit_ == ConfAssumption /\ ConfInit => ConfInv
<1> SUFFICES ASSUME ConfAssumption, ConfInit PROVE ConfInv
  OBVIOUS
<1>1. text = <<>> /\ doc = <<>> /\ iter = NoIter /\ arg = 1 /\ conf \in {"args", "abort"}
      /\ opts = Defaults /\ settings = ClientDefaults /\ mode = "server" /\ preflight = <<>>
      /\ argv \in Commands
  BY DEF ConfInit
<1>2. argv \in Seq([name : STRING, eq : BOOLEAN, value : Numerals])
  BY <1>1 DEF ConfAssumption
<1>3. ConfTypeOK
  <2>1. Len(argv) \in Nat
    BY <1>2
  <2>2. /\ DOMAIN opts = Limits /\ opts.log_level = 0 /\ opts.log_stdout = 1
        /\ DOMAIN settings = Statics \union {"thread_log_level"} /\ settings.thread_log_level = 0
    BY <1>1 DEF Defaults, ClientDefaults, Limits, Statics
  <2>3. arg \in 1 .. Len(argv) + 1
    BY <1>1, <2>1
  <2>4. iter.idx = 0 /\ iter.max = 0
    BY <1>1 DEF NoIter
  <2>5. doc = Laid(text)
    BY <1>1, EmptyLaid
  <2>6. QED
    BY <1>1, <2>2, <2>3, <2>4, <2>5 DEF ConfTypeOK
<1>4. opts \in [Limits -> Numerals] /\ settings \in [Fields -> Numerals]
  BY <1>1, SmallNumerals DEF Defaults, ClientDefaults, Limits, Statics, Fields
<1>5. IterOK
  BY <1>1 DEF IterOK
<1>6. ASSUME NEW n PROVE Passed(n) = {} /\ ArgsOf(n) = {}
  BY <1>1 DEF Passed, MembersOf, FileNames, ArgsOf
<1>7. ValuesOK
  BY <1>1, <1>6 DEF ValuesOK, SoFar, ListSoFar, Defaults, ClientDefaults, Limits, Statics
<1>8. RoomOK
  BY <1>1 DEF RoomOK
<1>9. QED
  BY <1>3, <1>4, <1>5, <1>7, <1>8 DEF ConfInv

-----------------------------------------------------------------------------
(* The steps.                                                              *)

LEMMA ElementType ==
  ASSUME NEW S, NEW q \in Seq(S), NEW k \in 1 .. Len(q)
  PROVE  q[k] \in S
OBVIOUS

LEMMA ArgvType ==
  ASSUME ConfAssumption, ConfInv, AtArgument
  PROVE  /\ text = <<>> /\ Len(argv) \in Nat /\ arg \in 1 .. Len(argv) /\ CliValue \in Numerals
         /\ arg + 1 \in 1 .. Len(argv) + 1
<1>1. argv \in Commands /\ arg \in 1 .. Len(argv) + 1 /\ text = <<>> /\ arg <= Len(argv)
  BY DEF ConfInv, ConfTypeOK, IterOK, AtArgument
<1>2. argv \in Seq([name : STRING, eq : BOOLEAN, value : Numerals])
  BY <1>1 DEF ConfAssumption
<1>3. Len(argv) \in Nat /\ arg \in 1 .. Len(argv)
  BY <1>1, <1>2
<1>4. argv[arg] \in [name : STRING, eq : BOOLEAN, value : Numerals]
  BY <1>2, <1>3, ElementType
<1>5. argv[arg].value \in Numerals
  BY <1>4
<1>6. CliValue \in Numerals
  BY <1>5, SmallNumerals DEF CliValue, Argument
<1>7. QED
  BY <1>1, <1>3, <1>6

LEMMA ReadArgumentStep ==
  ASSUME ConfAssumption, ConfInv, ReadArgument
  PROVE  ConfInv'
<1>1. AtArgument /\ Option(Argument.name, CliValue, "args") /\ arg' = arg + 1
      /\ UNCHANGED <<argv, text, doc, iter, mode, preflight>>
  BY DEF ReadArgument
<1>2. /\ text = <<>> /\ Len(argv) \in Nat /\ arg \in 1 .. Len(argv) /\ CliValue \in Numerals
      /\ arg + 1 \in 1 .. Len(argv) + 1
  BY <1>1, ArgvType
<1>3. /\ opts' \in [Limits -> Numerals] /\ settings' \in [Fields -> Numerals]
      /\ opts'["log_level"] \in 0 .. 5 /\ opts'["log_stdout"] \in 0 .. 1
      /\ settings'["thread_log_level"] \in 0 .. 5
      /\ \/ conf' \in {"abort", "exit"}
         \/ /\ conf' = "args"
            /\ \A n \in Limits : opts'[n] = IF n = Argument.name THEN CliValue ELSE opts[n]
            /\ \A n \in Statics : settings'[n] = IF n = Argument.name THEN CliValue ELSE settings[n]
            /\ settings'["thread_log_level"] =
                   IF Argument.name = "log_level" THEN CliValue ELSE settings["thread_log_level"]
  BY <1>1, <1>2, OptionStep DEF ConfInv, ConfTypeOK
<1>4. ConfTypeOK'
  BY <1>1, <1>2, <1>3 DEF ConfInv, ConfTypeOK, Fields
<1>5. IterOK'
  BY <1>1, <1>2, <1>3 DEF ConfInv, IterOK
<1>6. ValuesOK'
  <2>1. SUFFICES ASSUME conf' = "args" PROVE ValuesOK'
    BY <1>3 DEF ValuesOK
  <2>2. ValuesOK /\ conf = "args"
    BY <1>1 DEF ConfInv, AtArgument
  <2>3. /\ \A n, static, default :
              SoFar(n, static, default)' = IF n = Argument.name THEN CliValue
                                           ELSE SoFar(n, static, default)
        /\ ListSoFar = <<>> /\ ListSoFar' = <<>>
    BY <1>1, <1>2, ArgumentValue
  <2>4. QED
    BY <1>1, <1>3, <2>1, <2>2, <2>3 DEF ValuesOK
<1>7. RoomOK'
  BY <1>1, <1>3 DEF ConfInv, RoomOK
<1>8. QED
  BY <1>3, <1>4, <1>5, <1>6, <1>7 DEF ConfInv

LEMMA ReadModeStep ==
  ASSUME ConfAssumption, ConfInv, ReadMode
  PROVE  ConfInv'
<1>1. AtArgument /\ Argument.name \in {"unittest", "server"} /\ arg' = arg + 1
      /\ mode' \in {mode, "unittest"}
      /\ UNCHANGED <<conf, argv, text, doc, iter, opts, preflight, settings>>
  BY DEF ReadMode
<1>2. /\ text = <<>> /\ Len(argv) \in Nat /\ arg \in 1 .. Len(argv)
      /\ arg + 1 \in 1 .. Len(argv) + 1
  BY <1>1, ArgvType
<1>3. ConfTypeOK'
  BY <1>1, <1>2 DEF ConfInv, ConfTypeOK
<1>4. IterOK'
  BY <1>1 DEF ConfInv, IterOK
<1>5. /\ \A n, static, default :
            SoFar(n, static, default)' = IF n = Argument.name THEN CliValue
                                         ELSE SoFar(n, static, default)
      /\ ListSoFar = <<>> /\ ListSoFar' = <<>>
  BY <1>1, <1>2, ArgumentValue
<1>6. ValuesOK'
  BY <1>1, <1>5 DEF ConfInv, ValuesOK, Limits, Statics
<1>7. RoomOK'
  BY <1>1 DEF ConfInv, RoomOK, AtArgument
<1>8. QED
  BY <1>1, <1>3, <1>4, <1>6, <1>7 DEF ConfInv

LEMMA ArgumentsEndStep ==
  ASSUME ConfAssumption, ConfInv, ArgumentsEnd
  PROVE  ConfInv'
<1>1. conf = "args" /\ conf' = "read"
      /\ UNCHANGED <<argv, arg, text, doc, iter, opts, mode, preflight, settings>>
  BY DEF ArgumentsEnd
<1>2. ConfTypeOK' /\ IterOK'
  BY <1>1 DEF ConfInv, ConfTypeOK, IterOK
<1>3. ValuesOK'
  <2>1. \A n, static, default : SoFar(n, static, default)' = SoFar(n, static, default)
    BY <1>1 DEF SoFar, Passed, MembersOf, FileNames, ArgsOf, CliOf, LastOf
  <2>2. ListSoFar' = ListSoFar
    BY <1>1 DEF ListSoFar, ListAt, Passed, MembersOf, FileNames, LastOf
  <2>3. QED
    BY <1>1, <2>1, <2>2 DEF ConfInv, ValuesOK
<1>4. RoomOK'
  BY <1>1 DEF ConfInv, RoomOK, IterOK
<1>5. QED
  BY <1>1, <1>2, <1>3, <1>4 DEF ConfInv

LEMMA OpenFileStep ==
  ASSUME ConfAssumption, ConfInv, OpenFile
  PROVE  ConfInv'
<1>1. PICK source \in Files :
        /\ AtArgument
        /\ text' = source /\ doc' = Laid(source) /\ iter' = IterInit(Laid(source), Root(Laid(source)))
        /\ conf' = IF source = <<>> THEN "exit" ELSE "members"
        /\ opts' = Defaults /\ mode' = "server" /\ preflight' = <<>>
        /\ UNCHANGED <<argv, arg, settings>>
  BY DEF OpenFile
<1>2. opts' \in [Limits -> Numerals] /\ opts'["log_level"] \in 0 .. 5 /\ opts'["log_stdout"] \in 0 .. 1
  BY <1>1, SmallNumerals DEF Defaults, Limits
<1>3. RoomOK'
  BY <1>1 DEF RoomOK
<1>4. CASE source = <<>>
  <2>1. doc' = <<>> /\ iter' = NoIter
    BY <1>1, <1>4, EmptyLaid DEF IterInit, IsObj, Root, Null
  <2>2. ConfTypeOK'
    BY <1>1, <1>2, <1>4, <2>1, EmptyLaid DEF ConfInv, ConfTypeOK, NoIter
  <2>3. IterOK' /\ ValuesOK'
    BY <1>1, <1>4, <2>1 DEF IterOK, ValuesOK
  <2>4. QED
    BY <1>1, <1>2, <1>3, <2>2, <2>3 DEF ConfInv
<1>5. CASE source # <<>>
  <2>1. IsText(source) /\ Len(source) \in Nat /\ 1 \in 1 .. Len(source)
    BY <1>5, TextLen
  <2>2. Root(Laid(source)) = 1
    BY <1>5, <2>1, RootIs
  <2>3. Laid(source)[1].type = source[1].type
    BY <2>1 DEF Laid
  <2>4. /\ iter' \in [idx : Nat, max : Nat, cur : Nat] /\ iter'.idx = 0
        /\ IF source[1].type = "obj" THEN iter'.max = MembersIn(source, 1) /\ iter'.cur = Nth(source, 1, 0)
           ELSE iter'.max = 0
        /\ iter'.cur <= 2
    <3>1. CASE source[1].type = "obj"
      <4>1. GetLen(Laid(source), 1) = MembersIn(source, 1) /\ IsObj(Laid(source), 1)
            /\ MembersIn(source, 1) \in Nat /\ NumberOf(source, 1) = 2 * MembersIn(source, 1)
        BY <2>1, <3>1, ObjectIs
      <4>2. Nth(source, 1, 0) = 2
        <5>1. 0 \in 0 .. NumberOf(source, 1)
          BY <4>1
        <5>2. 1 + 1 \in PlacesOf(source, 1) /\ Rank(source, 1, 1 + 1) = 0
          BY <2>1, ChildFirst, RankNext DEF PlacesOf
        <5>3. QED
          BY <5>1, <5>2, <2>1, NthIs
      <4>3. iter' = [idx |-> 0, max |-> MembersIn(source, 1), cur |-> 2]
        BY <1>1, <2>2, <4>1 DEF IterInit, First
      <4>4. QED
        BY <3>1, <4>1, <4>2, <4>3
    <3>2. CASE source[1].type # "obj"
      <4>1. iter' = NoIter
        BY <1>1, <2>2, <2>3, <3>2 DEF IterInit, IsObj
      <4>2. QED
        BY <3>2, <4>1 DEF NoIter, Null
    <3>3. QED
      BY <3>1, <3>2
  <2>5. iter'.idx \in 0 .. iter'.max
    BY <2>4
  <2>6. ConfTypeOK'
    BY <1>1, <1>2, <1>5, <2>5 DEF ConfInv, ConfTypeOK
  <2>7. IterOK'
    BY <1>1, <1>5, <2>1, <2>4, <2>5 DEF IterOK
  <2>8. ASSUME NEW n PROVE Passed(n)' = {}
    <3>1. ASSUME NEW j \in NamesOf(source, 1) PROVE j \in Nat /\ j >= 2
      <4>1. j \in Children(source, 1)
        BY DEF NamesOf
      <4>2. QED
        BY <4>1, <2>1, ChildBounds
    <3>2. \A j \in FileNames' : j \in NamesOf(source, 1)
      BY <1>1 DEF FileNames
    <3>3. iter'.cur \in Nat /\ iter'.cur <= 2
      BY <2>4
    <3>4. QED
      BY <3>1, <3>2, <3>3 DEF Passed, MembersOf
  <2>9. conf = "args" /\ text = <<>> /\ ValuesOK /\ settings' = settings
    BY <1>1, ArgvType DEF ConfInv, AtArgument
  <2>10. ASSUME NEW n PROVE Passed(n) = {} /\ ArgsOf(n)' = ArgsOf(n)
    BY <1>1, <2>9 DEF Passed, MembersOf, FileNames, ArgsOf
  <2>11. ASSUME NEW n, NEW d PROVE SoFar(n, FALSE, d)' = d /\ SoFar(n, TRUE, d)' = SoFar(n, TRUE, d)
    <3>1. SoFar(n, FALSE, d)' = d
      BY <1>1, <1>5, <2>8 DEF SoFar
    <3>2. SoFar(n, TRUE, d)' = IF ArgsOf(n)' # {} THEN CliOf(n)' ELSE d
      BY <2>8 DEF SoFar
    <3>3. SoFar(n, TRUE, d) = IF ArgsOf(n) # {} THEN CliOf(n) ELSE d
      BY <2>10 DEF SoFar
    <3>4. CliOf(n)' = CliOf(n)
      <4>1. CliOf(n)' = IF argv[LastOf(ArgsOf(n)')].eq THEN argv[LastOf(ArgsOf(n)')].value ELSE 0
        BY <1>1 DEF CliOf, LastOf
      <4>2. QED
        BY <4>1, <2>10 DEF CliOf
    <3>5. QED
      BY <3>1, <3>2, <3>3, <3>4, <2>10
  <2>12. ListSoFar' = <<>>
    BY <2>8 DEF ListSoFar
  <2>13. ValuesOK'
    <3>1. \A n \in Limits : opts'[n] = SoFar(n, FALSE, Defaults[n])'
      BY <1>1, <2>11
    <3>2. /\ \A n \in Statics : settings[n] = SoFar(n, TRUE, ClientDefaults[n])
          /\ settings["thread_log_level"] = SoFar("log_level", TRUE, 0)
      BY <2>9 DEF ValuesOK
    <3>3. ASSUME NEW n \in Statics PROVE settings'[n] = SoFar(n, TRUE, ClientDefaults[n])'
      <4>1. SoFar(n, TRUE, ClientDefaults[n])' = SoFar(n, TRUE, ClientDefaults[n])
        BY <2>11
      <4>2. QED
        BY <3>2, <4>1, <2>9
    <3>4. settings'["thread_log_level"] = SoFar("log_level", TRUE, 0)'
      <4>1. SoFar("log_level", TRUE, 0)' = SoFar("log_level", TRUE, 0)
        BY <2>11
      <4>2. QED
        BY <3>2, <4>1, <2>9
    <3>5. QED
      BY <1>1, <2>12, <3>1, <3>3, <3>4 DEF ValuesOK
  <2>14. QED
    BY <1>1, <1>2, <1>3, <2>6, <2>7, <2>13 DEF ConfInv
<1>6. QED
  BY <1>4, <1>5

LEMMA ReadOptionStep ==
  ASSUME ConfAssumption, ConfInv, ReadOption
  PROVE  ConfInv'
<1>1. AtMember /\ Name \notin {"connect", "mode"} /\ Option(Name, GetInt(doc, Value), "members")
      /\ iter' = IterNext(doc, iter)
      /\ UNCHANGED <<argv, arg, text, doc, mode, preflight>>
  BY DEF ReadOption
<1>2. GetInt(doc, Value) = SaidInt(text, Value) /\ SaidInt(text, Value) \in Numerals /\ conf = "members"
      /\ GetInt(doc, Value) \in Numerals /\ Option(Name, SaidInt(text, Value), "members")
  BY <1>1, AtName DEF ConfInv, ConfTypeOK, AtMember
<1>3. /\ opts' \in [Limits -> Numerals] /\ settings' \in [Fields -> Numerals]
      /\ opts'["log_level"] \in 0 .. 5 /\ opts'["log_stdout"] \in 0 .. 1
      /\ settings'["thread_log_level"] \in 0 .. 5
      /\ \/ conf' \in {"abort", "exit"}
         \/ /\ conf' = "members"
            /\ \A n \in Limits : opts'[n] = IF n = Name THEN SaidInt(text, Value) ELSE opts[n]
            /\ \A n \in Statics : settings'[n] = IF n = Name THEN SaidInt(text, Value) ELSE settings[n]
            /\ settings'["thread_log_level"] =
                   IF Name = "log_level" THEN SaidInt(text, Value) ELSE settings["thread_log_level"]
  BY <1>1, <1>2, OptionStep DEF ConfInv, ConfTypeOK
<1>4. IterOK' /\ iter'.idx \in 0 .. iter'.max
  BY <1>1, <1>3, PassedStep DEF ConfInv, ConfTypeOK
<1>5. ConfTypeOK'
  BY <1>1, <1>3, <1>4 DEF ConfInv, ConfTypeOK, Fields
<1>6. ValuesOK'
  <2>1. /\ \A n, static, default :
              SoFar(n, static, default)' = IF n = Name THEN SaidInt(text, Value)
                                           ELSE SoFar(n, static, default)
        /\ ListSoFar' = IF Name = "connect" THEN ListAt(Value) ELSE ListSoFar
    BY <1>1, <1>3, MemberValue DEF ConfInv, ConfTypeOK
  <2>2. SUFFICES ASSUME conf' = "members" PROVE ValuesOK'
    BY <1>3 DEF ValuesOK
  <2>3. QED
    BY <1>1, <1>2, <1>3, <2>1, <2>2 DEF ConfInv, ValuesOK
<1>7. RoomOK'
  BY <1>1, <1>3 DEF ConfInv, RoomOK
<1>8. QED
  BY <1>3, <1>4, <1>5, <1>6, <1>7 DEF ConfInv

\* A list of strings is what yyjson_arr_get finds in it: it is flat.
LEMMA ConnectIs ==
  ASSUME NEW items, IsText(items), NEW i \in 1 .. Len(items),
         NEW len, len = GetLen(Laid(items), i),
         \A n \in 1 .. len : IsStr(Laid(items), ArrGet(Laid(items), i, n - 1))
  PROVE  [n \in 1 .. len |-> GetStr(Laid(items), ArrGet(Laid(items), i, n - 1))] =
            [n \in 1 .. Cardinality(Elements(items, i)) |-> SaidStr(items, i + n)]
<1> DEFINE doc_ == Laid(items)
<1>0. i \in Nat /\ i # 0 /\ Len(items) \in Nat
  BY Depths
<1>1. CASE items[i].type = "arr"
  <2> DEFINE many == NumberOf(items, i)
  <2>1. len = many /\ many \in Nat /\ Elements(items, i) = Children(items, i)
    BY <1>0, <1>1, ArrGetIsElement, RankNext DEF NumberOf, Elements
  <2>2. ASSUME NEW n \in 1 .. many
        PROVE  /\ ArrGet(doc_, i, n - 1) = Nth(items, i, n - 1)
               /\ Nth(items, i, n - 1) \in Children(items, i)
               /\ Nth(items, i, n - 1) \in 1 .. Len(items)
               /\ items[Nth(items, i, n - 1)].type = "str"
               /\ Nth(items, i, n) = Nth(items, i, n - 1) + 1
    <3>1. n - 1 \in Nat /\ n - 1 < many /\ (n - 1) + 1 = n
      BY <2>1
    <3>2. ArrGet(doc_, i, n - 1) = Nth(items, i, n - 1)
      BY <1>1, <3>1, ArrGetIsElement DEF NumberOf
    <3>3. Nth(items, i, n - 1) \in Children(items, i)
      BY <3>1, NthNext
    <3>4. Nth(items, i, n - 1) \in 1 .. Len(items)
      BY <3>3, ChildBounds
    <3>5. doc_[Nth(items, i, n - 1)].type = "str"
      BY <2>1, <3>2 DEF IsStr
    <3>6. items[Nth(items, i, n - 1)].type = "str"
      BY <3>4, <3>5 DEF Laid
    <3>7. After(items, Nth(items, i, n - 1)) = Nth(items, i, n - 1) + 1
      BY <3>4, <3>6, AfterLeaf DEF Containers
    <3>8. QED
      BY <3>1, <3>2, <3>3, <3>4, <3>6, <3>7, NthNext
  <2> DEFINE Off == {n \in 1 .. many : Nth(items, i, n - 1) # i + n}
  <2>3. Off = {}
    <3>1. SUFFICES ASSUME Off # {} PROVE FALSE
      OBVIOUS
    <3>2. Off \in SUBSET Nat
      BY <2>1
    <3> HIDE DEF Off
    <3>3. PICK n \in Off : \A k \in Off : n <= k
      BY <3>1, <3>2, LeastNatural
    <3>4. n \in 1 .. many /\ Nth(items, i, n - 1) # i + n
      BY <3>3 DEF Off
    <3>5. CASE n = 1
      <4>1. Nth(items, i, 0) = i + 1
        BY <2>1, <3>4, <3>5, NthNext
      <4>2. n - 1 = 0 /\ i + n = i + 1
        BY <3>5
      <4>3. QED
        BY <3>4, <4>1, <4>2
    <3>6. CASE n # 1
      <4>1. n - 1 \in 1 .. many
        BY <2>1, <3>4, <3>6
      <4>2. n - 1 \notin Off
        BY <3>3, <3>2, <4>1
      <4>3. Nth(items, i, (n - 1) - 1) = i + (n - 1)
        BY <4>1, <4>2 DEF Off
      <4>4. Nth(items, i, n - 1) = Nth(items, i, (n - 1) - 1) + 1
        BY <2>2, <4>1
      <4>5. i + (n - 1) + 1 = i + n
        BY <1>0, <4>1, <3>4
      <4>6. QED
        BY <3>4, <4>3, <4>4, <4>5
    <3>7. QED
      BY <3>5, <3>6
  <2>4. ASSUME NEW n \in 1 .. many
        PROVE  GetStr(doc_, ArrGet(doc_, i, n - 1)) = SaidStr(items, i + n)
    <3>1. Nth(items, i, n - 1) = i + n
      BY <2>3
    <3>2. i + n \in 0 .. Len(items) /\ ArrGet(doc_, i, n - 1) = i + n
      BY <2>2, <3>1, <1>0
    <3>3. QED
      BY <3>2, ValuesAreSaid
  <2>5. QED
    BY <2>1, <2>4 DEF NumberOf
<1>2. CASE items[i].type # "arr"
  <2>1. ~ IsArr(doc_, i)
    BY <1>2 DEF IsArr, Laid
  <2>2. Elements(items, i) = {} /\ Cardinality(Elements(items, i)) = 0
    BY <1>2, FS_EmptySet DEF Elements
  <2>3. \A n \in 1 .. len : ~ IsStr(doc_, ArrGet(doc_, i, n - 1))
    BY <2>1 DEF ArrGet, IsStr
  <2>4. 1 .. len = {}
    BY <2>3
  <2>5. 1 .. Cardinality(Elements(items, i)) = {}
    BY <2>2
  <2> HIDE DEF doc_
  <2>6. [n \in 1 .. len |-> GetStr(doc_, ArrGet(doc_, i, n - 1))] =
        [n \in 1 .. Cardinality(Elements(items, i)) |-> SaidStr(items, i + n)]
    BY <2>4, <2>5
  <2>7. QED
    BY <2>6 DEF doc_
<1>3. QED
  BY <1>1, <1>2

\* yyjson_get_len.
LEMMA LengthIs ==
  ASSUME NEW items, IsText(items), NEW i \in 1 .. Len(items)
  PROVE  GetLen(Laid(items), i) \in Nat
<1>1. i # Null /\ Len(items) \in Nat
  BY Depths DEF Null
<1>2. NumberOf(items, i) \in Nat
  BY RankNext
<1>3. CASE items[i].type = "obj"
  BY <1>3, ObjectIs
<1>4. CASE items[i].type # "obj"
  BY <1>1, <1>2, <1>4 DEF GetLen, Laid, NumberOf
<1>5. QED
  BY <1>3, <1>4

LEMMA ReadConnectStep ==
  ASSUME ConfAssumption, ConfInv, ReadConnect
  PROVE  ConfInv'
<1> DEFINE len == GetLen(doc, Value)
           strings == \A n \in 1 .. len : IsStr(doc, ArrGet(doc, Value, n - 1))
           list == [n \in 1 .. len |-> GetStr(doc, ArrGet(doc, Value, n - 1))]
<1>1. /\ AtMember /\ Name = "connect" /\ iter' = IterNext(doc, iter)
      /\ IF strings THEN preflight' = list /\ conf' = conf ELSE conf' = "abort" /\ preflight' = preflight
      /\ UNCHANGED <<argv, arg, text, doc, opts, mode, settings>>
  BY DEF ReadConnect
<1>2. conf = "members" /\ doc = Laid(text) /\ IterOK /\ ConfTypeOK
  BY <1>1 DEF AtMember, ConfInv, ConfTypeOK
<1>3. IterOK' /\ iter'.idx \in 0 .. iter'.max
  BY <1>1, <1>2, PassedStep
<1>4. ConfTypeOK'
  <2> HIDE DEF strings, list
  <2>1. conf' \in {"members", "abort"}
    BY <1>1, <1>2
  <2>2. QED
    BY <1>1, <1>2, <1>3, <2>1 DEF ConfTypeOK
<1>5. ValuesOK'
  <2>1. CASE ~ strings
    BY <1>1, <2>1 DEF ValuesOK
  <2>2. CASE strings
    <3>1. /\ \A n, static, default :
                SoFar(n, static, default)' = IF n = Name THEN SaidInt(text, Value)
                                             ELSE SoFar(n, static, default)
          /\ ListSoFar' = ListAt(Value)
      BY <1>1, <1>2, MemberValue
    <3>2. IsText(text) /\ Value \in 1 .. Len(text)
      BY <1>1, <1>2, AtName
    <3>3. list = ListAt(Value)
      BY <1>2, <2>2, <3>2, ConnectIs DEF ListAt
    <3> HIDE DEF list, strings
    <3>4. QED
      BY <1>1, <1>2, <2>2, <3>1, <3>3 DEF ConfInv, ValuesOK, Limits, Statics
  <2>3. QED
    BY <2>1, <2>2
<1>6. RoomOK'
  <2>1. IsText(text) /\ Value \in 1 .. Len(text) /\ text # <<>>
    BY <1>1, <1>2, AtName
  <2>2. len \in Nat
    BY <1>2, <2>1, LengthIs
  <2> HIDE DEF len
  <2>3. Len(list) = len
    BY <2>2
  <2> HIDE DEF strings, list
  <2>4. conf' \in {"members", "abort"} /\ preflight' \in {preflight, list}
    BY <1>1, <1>2
  <2>5. QED
    BY <1>1, <2>1, <2>2, <2>3, <2>4 DEF ConfInv, RoomOK
<1>7. QED
  BY <1>1, <1>3, <1>4, <1>5, <1>6 DEF ConfInv

LEMMA ReadFileModeStep ==
  ASSUME ConfAssumption, ConfInv, ReadFileMode
  PROVE  ConfInv'
<1>1. /\ AtMember /\ Name = "mode" /\ iter' = IterNext(doc, iter)
      /\ conf' \in {conf, "abort"} /\ mode' \in {mode, "unittest"}
      /\ UNCHANGED <<argv, arg, text, doc, opts, preflight, settings>>
  BY DEF ReadFileMode
<1>2. conf = "members" /\ doc = Laid(text) /\ IterOK /\ ConfTypeOK
  BY <1>1 DEF AtMember, ConfInv, ConfTypeOK
<1>3. IterOK' /\ iter'.idx \in 0 .. iter'.max
  BY <1>1, <1>2, PassedStep
<1>4. ConfTypeOK'
  BY <1>1, <1>2, <1>3 DEF ConfTypeOK
<1>5. /\ \A n, static, default :
            SoFar(n, static, default)' = IF n = Name THEN SaidInt(text, Value)
                                         ELSE SoFar(n, static, default)
      /\ ListSoFar' = ListSoFar
  BY <1>1, <1>2, MemberValue
<1>6. ValuesOK'
  BY <1>1, <1>2, <1>5 DEF ConfInv, ValuesOK, Limits, Statics
<1>7. RoomOK'
  BY <1>1, <1>2 DEF ConfInv, RoomOK
<1>8. QED
  BY <1>1, <1>3, <1>4, <1>6, <1>7 DEF ConfInv

LEMMA FileEndsStep ==
  ASSUME ConfAssumption, ConfInv, FileEnds
  PROVE  ConfInv'
<1>1. conf = "members" /\ ~ HasNext(iter) /\ conf' \in {"read", "abort"}
      /\ UNCHANGED <<argv, arg, text, doc, iter, opts, mode, preflight, settings>>
  BY DEF FileEnds
<1>2. ConfTypeOK'
  BY <1>1 DEF ConfInv, ConfTypeOK
<1>3. IterOK'
  <2>1. text # <<>> /\ iter.idx \in Nat /\ iter.max \in Nat /\ iter.idx <= iter.max
    BY <1>1 DEF ConfInv, IterOK
  <2>2. iter.idx = iter.max
    BY <1>1, <2>1 DEF HasNext
  <2>3. QED
    BY <1>1, <2>2 DEF ConfInv, IterOK
<1>4. ValuesOK'
  <2>1. \A n, static, default : SoFar(n, static, default)' = SoFar(n, static, default)
    BY <1>1 DEF SoFar, Passed, MembersOf, FileNames, ArgsOf, CliOf, LastOf
  <2>2. ListSoFar' = ListSoFar
    BY <1>1 DEF ListSoFar, ListAt, Passed, MembersOf, FileNames, LastOf
  <2>3. QED
    BY <1>1, <2>1, <2>2 DEF ConfInv, ValuesOK
<1>5. RoomOK'
  BY <1>1 DEF ConfInv, RoomOK, FileEnds
<1>6. QED
  BY <1>1, <1>2, <1>3, <1>4, <1>5 DEF ConfInv

LEMMA ConfStep ==
  ASSUME ConfAssumption, ConfInv, [ConfNext]_conf_vars
  PROVE  ConfInv'
<1>1. CASE UNCHANGED conf_vars
  <2>1. \A n, static, default : SoFar(n, static, default)' = SoFar(n, static, default)
    BY <1>1 DEF conf_vars, SoFar, Passed, MembersOf, FileNames, ArgsOf, CliOf, LastOf
  <2>2. ListSoFar' = ListSoFar
    BY <1>1 DEF conf_vars, ListSoFar, ListAt, Passed, MembersOf, FileNames, LastOf
  <2>3. ConfTypeOK' /\ IterOK'
    BY <1>1 DEF conf_vars, ConfInv, ConfTypeOK, IterOK
  <2>4. ValuesOK'
    BY <1>1, <2>1, <2>2 DEF conf_vars, ConfInv, ValuesOK
  <2>5. RoomOK'
    BY <1>1 DEF conf_vars, ConfInv, RoomOK
  <2>6. QED
    BY <1>1, <2>3, <2>4, <2>5 DEF conf_vars, ConfInv
<1>2. CASE ConfNext
  BY <1>2, ReadArgumentStep, ReadModeStep, OpenFileStep, ArgumentsEndStep,
     ReadOptionStep, ReadConnectStep, ReadFileModeStep, FileEndsStep DEF ConfNext
<1>3. QED
  BY <1>1, <1>2

LEMMA ConfSettled ==
  ASSUME ConfAssumption, ConfInv
  PROVE  Settled
<1>1. SUFFICES ASSUME conf = "read" PROVE Settled
  BY DEF Settled
<1>2. ASSUME NEW n PROVE Passed(n) = MembersOf(n)
  <2>1. CASE text = <<>> \/ text[1].type # "obj"
    BY <2>1 DEF Passed, MembersOf, FileNames
  <2>2. CASE text # <<>> /\ text[1].type = "obj"
    <3>1. /\ IsText(text) /\ 1 \in 1 .. Len(text) /\ iter.idx = MembersIn(text, 1)
          /\ iter.cur = Nth(text, 1, 2 * iter.idx)
      BY <1>1, <2>2 DEF ConfInv, IterOK
    <3>2. 2 * iter.idx = NumberOf(text, 1) /\ NumberOf(text, 1) \in 0 .. NumberOf(text, 1)
      BY <2>2, <3>1, ObjectIs
    <3>3. After(text, 1) = Nth(text, 1, NumberOf(text, 1))
      <4>1. After(text, 1) \in PlacesOf(text, 1)
        BY DEF PlacesOf
      <4>2. Rank(text, 1, After(text, 1)) = NumberOf(text, 1)
        BY <3>1, RankNext
      <4>3. QED
        BY <3>1, <3>2, <4>1, <4>2, NthIs
    <3>4. \A j \in NamesOf(text, 1) : j < iter.cur
      <4>1. ASSUME NEW j \in NamesOf(text, 1) PROVE j < iter.cur
        <5>1. j \in Children(text, 1)
          BY DEF NamesOf
        <5>2. j < After(text, 1)
          BY <3>1, <5>1, ChildBounds
        <5>3. QED
          BY <3>1, <3>2, <3>3, <5>2
      <4>2. QED
        BY <4>1
    <3>5. QED
      BY <2>2, <3>4 DEF Passed, MembersOf, FileNames
  <2>3. QED
    BY <2>1, <2>2
<1>3. \A n, static, default : SoFar(n, static, default) = Expected(n, static, default)
  BY <1>2 DEF SoFar, Expected, ValueOf
<1>4. ListSoFar = IF MembersOf("connect") = {} THEN <<>> ELSE Listed
  BY <1>2 DEF ListSoFar, ListAt, Listed, ValueOf
<1>5. QED
  BY <1>1, <1>3, <1>4 DEF ConfInv, ValuesOK, Settled

-----------------------------------------------------------------------------
(****************************************************************************)
(* The life of the server (Server).                                        *)
(****************************************************************************)

Early   == {"conf", "clean", "init", "start"}
Running == {"preflight", "serve", "stop"}
Targets == Addresses \union {preflight[n] : n \in 1 .. Len(preflight)}

(***************************************************************************)
(* What is true of main: what the steps it has made have established, and  *)
(* that no thread is in gctl_connect before it has started the framework,  *)
(* or after it has stopped it.                                             *)
(***************************************************************************)
PhaseOK ==
    /\ phase \in Early =>
          connected = <<>> /\ tried = 0 /\ refused = {} /\ requests = 0 /\ ~stale
    /\ phase = "conf" => ip = [t \in Threads |-> Null]
    /\ phase \notin Running => \A t \in Threads : stage[t] = "idle"
    /\ phase # "preflight" => stage[Main] = "idle"
    /\ phase \in {"clean", "init", "start"} \union Running => conf = "read"
    /\ phase \in {"start"} \union Running => opts["max_pep"] <= MaxRoom
    /\ phase \in {"start", "preflight", "serve"} => lcm = "live"
    /\ phase \in {"init", "start"} \union Running => files = {} /\ ~orphan

\* Clients that come one at a time.
CalmOK ==
    calm =>
        /\ \A t, u \in Threads : stage[t] # "idle" /\ stage[u] # "idle" => t = u
        /\ phase = "preflight" => \A h \in Handlers : stage[h] = "idle"
        /\ phase = "stop" => \A t \in Threads : stage[t] = "idle"
        /\ ~stale
        /\ opts["max_pep"] >= 0 =>
              /\ Len(connected) <= MaxRoom
              /\ \A t \in Threads : stage[t] \in {"admit", "row", "count"} =>
                                        Len(connected) < opts["max_pep"]

\* Rows are written by the holder of lcm_internal_lock before the count goes up,
\* and what a former life has left is gone by then.
Begun  == Len(connected) + (IF lock = "free" THEN 0 ELSE 1)
RowSet == [count : Nat, cmts_ip : Targets \union {Null}]
Tabled == {"start"} \union Running

RowsInv ==
    /\ \A t \in Threads : stage[t] = "count" <=> lock = t
    /\ phase \in Tabled =>
          /\ rows \in Seq(RowSet)
          /\ \A k \in DOMAIN rows : Numbered(rows[k].count, rows[k].cmts_ip)
          /\ \A j, k \in DOMAIN rows : j < k => rows[j].count < rows[k].count
          /\ \A n \in 1 .. Begun : n \in unwritten \/ \E k \in DOMAIN rows : rows[k].count = n

\* Without a client there are only the connects of main.
OnlyMain ==
    requests = 0 =>
        /\ \A h \in Handlers : stage[h] = "idle"
        /\ Len(connected) + (IF stage[Main] = "idle" THEN 0 ELSE 1) <= tried

TableType ==
    /\ connected \in Seq(Targets)
    /\ ip \in [Threads -> Targets \union {Null}]
    /\ \A t \in Threads : stage[t] # "idle" => ip[t] \in Targets

ServerInv ==
    /\ ConfInv /\ ServerTypeOK
    /\ TableType
    /\ PhaseOK /\ CalmOK
    /\ RowsInv /\ TableThere
    /\ OnlyMain /\ PreflightHasRoom

LEMMA ServerNumbers ==
  ASSUME ServerInv
  PROVE  /\ opts["max_pep"] \in Int
         /\ Len(preflight) \in Nat /\ Len(connected) \in Nat
         /\ tried \in Nat /\ tried <= Len(preflight)
<1>1. opts["max_pep"] \in Numerals
  BY DEF ServerInv, ConfInv, Limits
<1>2. opts["max_pep"] \in Int
  BY <1>1 DEF Numerals
<1>3. Len(preflight) \in Nat
  BY DEF ServerInv, ConfInv, RoomOK
<1>4. Len(connected) \in Nat
  BY DEF ServerInv, TableType
<1>5. QED
  BY <1>2, <1>3, <1>4 DEF ServerInv, ServerTypeOK

LEMMA ServerInit_ == ConfAssumption /\ ServerAssumption /\ ServerInit => ServerInv
<1> SUFFICES ASSUME ConfAssumption, ServerAssumption, ServerInit PROVE ServerInv
  OBVIOUS
<1>1. ConfInv
  BY ConfInit_ DEF ServerInit
<1>2. ServerTypeOK
  <2>1. ConfTypeOK /\ Len(preflight) \in Nat
    BY <1>1 DEF ConfInv, RoomOK
  <2>2. QED
    BY <2>1 DEF ServerInit, ServerTypeOK, ServerAssumption, Threads
<1>3. TableType
  BY DEF ServerInit, TableType
<1>4. PhaseOK
  BY DEF ServerInit, PhaseOK, Early, Running, Threads
<1>5. CalmOK
  BY DEF ServerInit, CalmOK, ServerAssumption
<1>6. RowsInv /\ TableThere /\ OnlyMain /\ PreflightHasRoom
  BY DEF ServerInit, RowsInv, TableThere, OnlyMain, PreflightHasRoom, Threads, ServerAssumption,
         Tabled, Running
<1>7. QED
  BY <1>1, <1>2, <1>3, <1>4, <1>5, <1>6 DEF ServerInv

\* What the steps of the server have in common: the options are read.
LEMMA OptionsKept ==
  ASSUME ConfAssumption, ServerInv, UNCHANGED conf_vars
  PROVE  ConfInv' /\ ConfTypeOK' /\ opts' = opts /\ preflight' = preflight /\ conf' = conf /\ mode' = mode
<1>1. ConfInv'
  BY ConfStep DEF ServerInv
<1>2. QED
  BY <1>1 DEF ConfInv, conf_vars

\* What touches neither the file nor the count.
LEMMA RowsKept ==
  ASSUME ServerInv, UNCHANGED <<rows, unwritten, connected, lock>>, Targets' = Targets,
         phase' \in Tabled => phase \in Tabled,
         \A t \in Threads : /\ stage'[t] = "count" <=> stage[t] = "count"
                            /\ stage[t] = "count" => ip'[t] = ip[t]
  PROVE  RowsInv'
<1>1. /\ \A t \in Threads : stage'[t] = "count" <=> lock' = t
      /\ RowSet' = RowSet /\ Begun' = Begun
  BY DEF ServerInv, RowsInv, RowSet, Begun
<1>2. lock \in Threads \union {"free"}
  BY DEF ServerInv, ServerTypeOK
<1>3. \A n, a : Numbered(n, a) => Numbered(n, a)'
  BY <1>1, <1>2 DEF Numbered
<1>4. QED
  BY <1>1, <1>3 DEF ServerInv, RowsInv

LEMMA LcmInitStep ==
  ASSUME ConfAssumption, ServerAssumption, ServerInv, LcmInit
  PROVE  ServerInv'
<1>1. ConfInv' /\ ConfTypeOK' /\ opts' = opts /\ preflight' = preflight /\ conf' = conf
  BY OptionsKept DEF LcmInit
<1>2. /\ phase = "init" /\ phase' \in {"start", "end"}
      /\ phase' = "start" => lcm' = "live" /\ rows' = <<>> /\ opts["max_pep"] <= MaxRoom
      /\ lcm' \in {lcm, "live"} /\ rcfile' \in {rcfile, TRUE}
      /\ UNCHANGED <<files, orphan, connected, lock, stage, ip, tried, refused, requests, stale, calm>>
  <2>1. CASE RcInitDies /\ UNCHANGED lcm
    <3>1. phase' = "end" /\ lcm' = lcm /\ rcfile' = rcfile
      BY <2>1 DEF RcInitDies, rc
    <3>2. QED
      BY <3>1 DEF LcmInit
  <2>2. CASE RcInit /\ opts["max_pep"] > MaxRoom /\ phase' = "end" /\ UNCHANGED lcm
    BY <2>2 DEF LcmInit, RcInit
  <2>3. CASE RcInit /\ ~(opts["max_pep"] > MaxRoom) /\ phase' = "start" /\ lcm' = "live"
    <3>1. opts["max_pep"] <= MaxRoom
      <4>1. opts["max_pep"] \in Int
        BY ServerNumbers
      <4>2. MaxRoom \in Nat
        BY DEF ServerAssumption
      <4>3. QED
        BY ONLY <2>3, <4>1, <4>2
    <3>2. rows' = <<>> /\ rcfile' \in {rcfile, TRUE}
      BY <2>3 DEF RcInit
    <3>3. QED
      BY <2>3, <3>1, <3>2 DEF LcmInit
  <2>4. QED
    BY <2>1, <2>2, <2>3 DEF LcmInit
<1>3. /\ connected = <<>> /\ tried = 0 /\ refused = {} /\ requests = 0 /\ ~stale
      /\ conf = "read" /\ files = {} /\ ~orphan
      /\ \A t \in Threads : stage[t] = "idle"
  BY <1>2 DEF ServerInv, PhaseOK, Early, Running
<1>4. ServerTypeOK'
  BY <1>1, <1>2 DEF ServerInv, ServerTypeOK
<1>5. TableType'
  <2>1. Targets' = Targets
    BY <1>1 DEF Targets
  <2>2. UNCHANGED <<connected, ip, stage>>
    BY <1>2
  <2>3. TableType
    BY DEF ServerInv
  <2>4. QED
    BY <2>1, <2>2, <2>3 DEF TableType
<1>6. PhaseOK'
  BY <1>1, <1>2, <1>3 DEF ServerInv, PhaseOK, Early, Running, Threads
<1>7. CalmOK'
  BY <1>1, <1>2, <1>3 DEF ServerInv, CalmOK, Threads, ServerAssumption
<1>8. RowsInv'
  <2>1. lock = "free"
    BY <1>3 DEF ServerInv, ServerTypeOK, RowsInv
  <2>2. \A t \in Threads : stage'[t] = "count" <=> lock' = t
    BY <1>2 DEF ServerInv, RowsInv
  <2>3. CASE phase' = "start"
    <3>1. rows' = <<>> /\ Begun' = 0
      BY <1>2, <1>3, <2>1, <2>3 DEF Begun
    <3>2. QED
      BY <2>2, <3>1 DEF RowsInv
  <2>4. CASE phase' = "end"
    BY <2>2, <2>4 DEF RowsInv, Tabled, Running
  <2>5. QED
    BY <1>2, <2>3, <2>4
<1>9. TableThere' /\ OnlyMain' /\ PreflightHasRoom'
  BY <1>1, <1>2, <1>3 DEF TableThere, OnlyMain, PreflightHasRoom, Threads
<1>10. QED
  BY <1>1, <1>4, <1>5, <1>6, <1>7, <1>8, <1>9 DEF ServerInv

LEMMA PhaseStep ==
  ASSUME ConfAssumption, ServerAssumption, ServerInv, \/ Configured \/ CleanFile \/ CleanEnd \/ StartFramework \/ PreflightEnd \/ FreeTable \/ StopFramework
  PROVE  ServerInv'
<1> USE ServerNumbers DEF table, rc, main, Configured, CleanFile, CleanEnd, StartFramework, PreflightEnd, FreeTable, StopFramework
<1>1. ConfInv' /\ ConfTypeOK' /\ opts' = opts /\ preflight' = preflight /\ conf' = conf
  BY OptionsKept
<1>2. ServerTypeOK'
  BY <1>1 DEF ServerInv, ServerTypeOK, ServerAssumption, Threads
<1>3. TableType'
  BY <1>1 DEF ServerInv, ServerTypeOK, TableType, Targets, Threads
<1>4. PhaseOK'
  BY <1>1 DEF ServerInv, ServerTypeOK, PhaseOK, Early, Running, Threads
<1>5. CalmOK'
  BY <1>1 DEF ServerInv, ServerTypeOK, ServerAssumption, TableType, CalmOK, PhaseOK, Early, Running, Threads
<1>6. RowsInv' /\ TableThere'
  <2>1. TableThere'
    BY DEF ServerInv, ServerTypeOK, PhaseOK, TableThere, Early, Running
  <2>2. RowsInv'
    <3>1. /\ UNCHANGED <<rows, unwritten, connected, lock, stage, ip>>
          /\ phase' \in Tabled => phase \in Tabled
      BY DEF Tabled, Running
    <3>2. QED
      BY <1>1, <3>1, RowsKept DEF Targets
  <2>3. QED
    BY <2>1, <2>2
<1>7. OnlyMain' /\ PreflightHasRoom'
  BY <1>1 DEF ServerInv, ServerTypeOK, TableType, PhaseOK, OnlyMain, PreflightHasRoom, Early, Running, Threads
<1>8. QED
  BY <1>1, <1>2, <1>3, <1>4, <1>5, <1>6, <1>7 DEF ServerInv

LEMMA PreflightStep ==
  ASSUME ConfAssumption, ServerAssumption, ServerInv, Preflight
  PROVE  ServerInv'
<1> USE ServerNumbers DEF table, rc, main, Preflight
<1>1. ConfInv' /\ ConfTypeOK' /\ opts' = opts /\ preflight' = preflight /\ conf' = conf
  BY OptionsKept
<1>2. ServerTypeOK'
  BY <1>1 DEF ServerInv, ServerTypeOK, ServerAssumption, Threads
<1>3. TableType'
  BY <1>1 DEF ServerInv, ServerTypeOK, TableType, Targets, Threads
<1>4. PhaseOK'
  BY <1>1 DEF ServerInv, ServerTypeOK, PhaseOK, Early, Running, Threads
<1>5. CalmOK'
  BY <1>1 DEF ServerInv, ServerTypeOK, ServerAssumption, TableType, CalmOK, PhaseOK, Early, Running, Threads
<1>6. RowsInv' /\ TableThere'
  <2>1. /\ UNCHANGED <<rows, unwritten, connected, lock, phase>>
        /\ \A t \in Threads : /\ stage'[t] = "count" <=> stage[t] = "count"
                              /\ stage[t] = "count" => ip'[t] = ip[t]
    BY DEF ServerInv, ServerTypeOK, TableType, Threads
  <2>2. RowsInv'
    BY <1>1, <2>1, RowsKept DEF Targets
  <2>3. TableThere'
    BY <2>1 DEF ServerInv, PhaseOK, TableThere, Running
  <2>4. QED
    BY <2>2, <2>3
<1>7. OnlyMain' /\ PreflightHasRoom'
  BY <1>1 DEF ServerInv, ServerTypeOK, TableType, PhaseOK, OnlyMain, PreflightHasRoom, Early, Running, Threads
<1>8. QED
  BY <1>1, <1>2, <1>3, <1>4, <1>5, <1>6, <1>7 DEF ServerInv

LEMMA RequestStep ==
  ASSUME ConfAssumption, ServerAssumption, ServerInv, NEW h \in Handlers, NEW a \in Addresses, Request(h, a)
  PROVE  ServerInv'
<1> USE ServerNumbers DEF table, rc, main, Request
<1>1. ConfInv' /\ ConfTypeOK' /\ opts' = opts /\ preflight' = preflight /\ conf' = conf
  BY OptionsKept
<1>2. ServerTypeOK'
  BY <1>1 DEF ServerInv, ServerTypeOK, ServerAssumption, Threads
<1>3. TableType'
  BY <1>1 DEF ServerInv, ServerTypeOK, TableType, Targets, Threads
<1>4. PhaseOK'
  BY <1>1 DEF ServerInv, ServerTypeOK, PhaseOK, Early, Running, Threads
<1>5. CalmOK'
  BY <1>1 DEF ServerInv, ServerTypeOK, ServerAssumption, TableType, CalmOK, PhaseOK, Early, Running, Threads
<1>6. RowsInv' /\ TableThere'
  <2>1. /\ UNCHANGED <<rows, unwritten, connected, lock, phase>>
        /\ \A t \in Threads : /\ stage'[t] = "count" <=> stage[t] = "count"
                              /\ stage[t] = "count" => ip'[t] = ip[t]
    BY DEF ServerInv, ServerTypeOK, TableType, Threads
  <2>2. RowsInv'
    BY <1>1, <2>1, RowsKept DEF Targets
  <2>3. TableThere'
    BY <2>1 DEF ServerInv, PhaseOK, TableThere, Running
  <2>4. QED
    BY <2>2, <2>3
<1>7. OnlyMain' /\ PreflightHasRoom'
  BY <1>1 DEF ServerInv, ServerTypeOK, TableType, PhaseOK, OnlyMain, PreflightHasRoom, Early, Running, Threads
<1>8. QED
  BY <1>1, <1>2, <1>3, <1>4, <1>5, <1>6, <1>7 DEF ServerInv

LEMMA CheckStep ==
  ASSUME ConfAssumption, ServerAssumption, ServerInv, NEW th \in Threads, Check(th)
  PROVE  ServerInv'
<1> USE ServerNumbers DEF table, rc, main, Check, Leave, Goto
<1>1. ConfInv' /\ ConfTypeOK' /\ opts' = opts /\ preflight' = preflight /\ conf' = conf
  BY OptionsKept
<1>2. ServerTypeOK'
  BY <1>1 DEF ServerInv, ServerTypeOK, ServerAssumption, Threads
<1>3. TableType'
  BY <1>1 DEF ServerInv, ServerTypeOK, TableType, Targets, Threads
<1>4. PhaseOK'
  BY <1>1 DEF ServerInv, ServerTypeOK, PhaseOK, Early, Running, Threads
<1>5. CalmOK'
  <2> SUFFICES ASSUME calm PROVE CalmOK'
    BY DEF CalmOK
  <2>1. stage[th] = "check" /\ phase \in Running /\ stage \in [Threads -> {"idle", "check", "admit", "row", "count"}]
    BY DEF ServerInv, ServerTypeOK, PhaseOK
  <2>2. phase # "stop" /\ ~stale
    BY <2>1 DEF ServerInv, CalmOK
  <2>3. lcm = "live" /\ ~stale'
    BY <2>1, <2>2 DEF ServerInv, PhaseOK, Running
  <2>4. /\ stage' = [stage EXCEPT ![th] = "idle"] \/ stage' = [stage EXCEPT ![th] = "admit"]
        /\ stage'[th] = "admit" => ~NoRoom
    BY <2>1, <2>3
  <2>5. \A t \in Threads : stage'[t] # "idle" => stage[t] # "idle"
    BY <2>1, <2>4
  <2>6. /\ \A t, u \in Threads : stage'[t] # "idle" /\ stage'[u] # "idle" => t = u
        /\ phase' = "preflight" => \A h \in Handlers : stage'[h] = "idle"
        /\ phase' = "stop" => \A t \in Threads : stage'[t] = "idle"
    BY <2>2, <2>5 DEF ServerInv, CalmOK, Threads
  <2>7. ASSUME opts'["max_pep"] >= 0, NEW t \in Threads, stage'[t] \in {"admit", "row", "count"}
        PROVE  Len(connected') < opts'["max_pep"]
    <3>1. CASE t = th
      BY <1>1, <2>1, <2>4, <2>7, <3>1 DEF NoRoom
    <3>2. CASE t # th
      BY <1>1, <2>1, <2>4, <2>7, <3>2 DEF ServerInv, CalmOK
    <3>3. QED
      BY <3>1, <3>2
  <2>8. opts'["max_pep"] >= 0 => Len(connected') <= MaxRoom
    BY <1>1 DEF ServerInv, CalmOK
  <2>9. QED
    BY <2>3, <2>6, <2>7, <2>8 DEF CalmOK
<1>6. RowsInv' /\ TableThere'
  <2>1. /\ UNCHANGED <<rows, unwritten, connected, lock, phase>>
        /\ \A t \in Threads : /\ stage'[t] = "count" <=> stage[t] = "count"
                              /\ stage[t] = "count" => ip'[t] = ip[t]
    BY DEF ServerInv, ServerTypeOK, TableType, Threads
  <2>2. RowsInv'
    BY <1>1, <2>1, RowsKept DEF Targets
  <2>3. TableThere'
    BY <2>1 DEF ServerInv, PhaseOK, TableThere, Running
  <2>4. QED
    BY <2>2, <2>3
<1>7. OnlyMain' /\ PreflightHasRoom'
  <2>1. stage[th] = "check" /\ phase \in Running /\ stage \in [Threads -> {"idle", "check", "admit", "row", "count"}]
    BY DEF ServerInv, ServerTypeOK, PhaseOK
  <2>2. requests = 0 => th = Main /\ Len(connected) < tried
    BY <2>1 DEF ServerInv, OnlyMain, Threads
  <2>3. OnlyMain'
    BY <1>1, <2>1, <2>2 DEF ServerInv, OnlyMain, Threads
  <2>4. requests = 0 => ~NoRoom
    <3>1. conf = "read" /\ Len(connected) \in Nat
      BY <2>1 DEF ServerInv, PhaseOK
    <3>2. Len(preflight) > 0 => opts["max_pep"] >= Len(preflight)
      BY <3>1 DEF ServerInv, ConfInv, RoomOK
    <3>3. QED
      BY <2>2, <3>1, <3>2 DEF NoRoom
  <2>5. requests \in Nat
    BY DEF ServerInv, ServerTypeOK
  <2>6. PreflightHasRoom'
    BY <2>4, <2>5 DEF ServerInv, PreflightHasRoom
  <2>7. QED
    BY <2>3, <2>6
<1>8. QED
  BY <1>1, <1>2, <1>3, <1>4, <1>5, <1>6, <1>7 DEF ServerInv

LEMMA AdmitStep ==
  ASSUME ConfAssumption, ServerAssumption, ServerInv, NEW th \in Threads, Admit(th)
  PROVE  ServerInv'
<1> USE ServerNumbers DEF table, rc, main, Admit, Leave, Goto
<1>1. ConfInv' /\ ConfTypeOK' /\ opts' = opts /\ preflight' = preflight /\ conf' = conf
  BY OptionsKept
<1>2. ServerTypeOK'
  BY <1>1 DEF ServerInv, ServerTypeOK, ServerAssumption, Threads
<1>3. TableType'
  BY <1>1 DEF ServerInv, ServerTypeOK, TableType, Targets, Threads
<1>4. PhaseOK'
  BY <1>1 DEF ServerInv, ServerTypeOK, PhaseOK, Early, Running, Threads
<1>5. CalmOK'
  BY <1>1 DEF ServerInv, ServerTypeOK, ServerAssumption, TableType, CalmOK, PhaseOK, Early, Running, Threads
<1>6. RowsInv' /\ TableThere'
  <2>1. /\ UNCHANGED <<rows, unwritten, connected, lock, phase>>
        /\ \A t \in Threads : /\ stage'[t] = "count" <=> stage[t] = "count"
                              /\ stage[t] = "count" => ip'[t] = ip[t]
    BY DEF ServerInv, ServerTypeOK, TableType, Threads
  <2>2. RowsInv'
    BY <1>1, <2>1, RowsKept DEF Targets
  <2>3. TableThere'
    BY <2>1 DEF ServerInv, PhaseOK, TableThere, Running
  <2>4. QED
    BY <2>2, <2>3
<1>7. OnlyMain' /\ PreflightHasRoom'
  BY <1>1 DEF ServerInv, ServerTypeOK, TableType, PhaseOK, OnlyMain, PreflightHasRoom, Early, Running, Threads
<1>8. QED
  BY <1>1, <1>2, <1>3, <1>4, <1>5, <1>6, <1>7 DEF ServerInv

LEMMA SetRowStep ==
  ASSUME ConfAssumption, ServerAssumption, ServerInv, NEW th \in Threads, SetRow(th)
  PROVE  ServerInv'
<1> USE ServerNumbers DEF table, rc, main, SetRow, RcwRow, Leave, Goto
<1>1. ConfInv' /\ ConfTypeOK' /\ opts' = opts /\ preflight' = preflight /\ conf' = conf
  BY OptionsKept
<1>2. ServerTypeOK'
  BY <1>1 DEF ServerInv, ServerTypeOK, ServerAssumption, Threads
<1>3. TableType'
  BY <1>1 DEF ServerInv, ServerTypeOK, TableType, Targets, Threads
<1>4. PhaseOK'
  BY <1>1 DEF ServerInv, ServerTypeOK, PhaseOK, Early, Running, Threads
<1>5. CalmOK'
  BY <1>1 DEF ServerInv, ServerTypeOK, ServerAssumption, TableType, CalmOK, PhaseOK, Early, Running, Threads
<1>6. RowsInv' /\ TableThere'
  <2>1. /\ lock \in Threads \union {"free"} /\ "free" \notin Threads
        /\ stage \in [Threads -> {"idle", "check", "admit", "row", "count"}]
        /\ \A t \in Threads : stage[t] = "count" <=> lock = t
    BY DEF ServerInv, ServerTypeOK, RowsInv, ServerAssumption, Threads
  <2>2. phase \in Running /\ phase' = phase /\ ip' = ip
    BY DEF ServerInv, PhaseOK
  <2>3. TableThere'
    BY <2>2 DEF ServerInv, PhaseOK, TableThere, Running
  <2>4. /\ rows \in Seq(RowSet)
        /\ \A k \in DOMAIN rows : Numbered(rows[k].count, rows[k].cmts_ip)
        /\ \A j, k \in DOMAIN rows : j < k => rows[j].count < rows[k].count
        /\ \A n \in 1 .. Begun : n \in unwritten \/ \E k \in DOMAIN rows : rows[k].count = n
    BY <2>2 DEF ServerInv, RowsInv, Tabled
  <2>5. RowSet' = RowSet /\ ip[th] \in Targets /\ Len(connected) \in Nat /\ connected \in Seq(Targets)
    BY <1>1 DEF RowSet, Targets, ServerInv, TableType
  <2>6. /\ connected' = connected /\ lock = "free" /\ lock' = th /\ stage'[th] = "count"
        /\ Begun = Len(connected) /\ Begun' = Len(connected) + 1
        /\ \A t \in Threads : stage'[t] = "count" <=> lock' = t
    BY <2>1 DEF Begun
  <2>7. \A k \in DOMAIN rows : rows[k].count \in 1 .. Len(connected)
    BY <2>4, <2>5, <2>6 DEF Numbered
  <2>8. /\ \A n, a : Numbered(n, a) => Numbered(n, a)'
        /\ Numbered(Len(connected) + 1, ip[th])'
    BY <2>1, <2>2, <2>6 DEF Numbered
  <2>9. CASE rows' = Append(rows, Row(Len(connected) + 1, ip[th])) /\ unwritten' = unwritten
    <3>1. Row(Len(connected) + 1, ip[th]) \in RowSet
      BY <2>5 DEF Row, RowSet
    <3>2. /\ rows' \in Seq(RowSet) /\ Len(rows') = Len(rows) + 1 /\ Len(rows) \in Nat
          /\ DOMAIN rows = 1 .. Len(rows) /\ DOMAIN rows' = 1 .. Len(rows) + 1
          /\ \A k \in DOMAIN rows : rows'[k] = rows[k]
          /\ rows'[Len(rows) + 1] = Row(Len(connected) + 1, ip[th])
      BY <2>4, <2>9, <3>1
    <3>3. /\ rows'[Len(rows) + 1].count = Len(connected) + 1
          /\ rows'[Len(rows) + 1].cmts_ip = ip[th]
      BY <3>2 DEF Row
    <3>4. (\A k \in DOMAIN rows : Numbered(rows[k].count, rows[k].cmts_ip))'
      <4>1. SUFFICES ASSUME NEW k \in DOMAIN rows', NEW n, NEW a,
                            n = rows'[k].count, a = rows'[k].cmts_ip
                     PROVE  Numbered(n, a)'
        BY Zenon
      <4>2. k \in DOMAIN rows \/ k = Len(rows) + 1
        BY <3>2
      <4>3. CASE k \in DOMAIN rows
        <5>1. n = rows[k].count /\ a = rows[k].cmts_ip
          BY <3>2, <4>1, <4>3
        <5>2. Numbered(n, a)
          BY <2>4, <4>3, <5>1
        <5>3. QED
          BY <2>8, <5>2
      <4>4. CASE k = Len(rows) + 1
        <5>1. n = Len(connected) + 1 /\ a = ip[th]
          BY <3>3, <4>1, <4>4
        <5>2. QED
          BY <2>8, <5>1
      <4>5. QED
        BY <4>2, <4>3, <4>4
    <3>5. \A j, k \in DOMAIN rows' : j < k => rows'[j].count < rows'[k].count
      <4>1. SUFFICES ASSUME NEW j \in DOMAIN rows', NEW k \in DOMAIN rows', j < k
                     PROVE  rows'[j].count < rows'[k].count
        OBVIOUS
      <4>2. j \in DOMAIN rows /\ rows'[j] = rows[j]
        BY <3>2, <4>1
      <4>3. CASE k \in DOMAIN rows
        BY <2>4, <3>2, <4>1, <4>2, <4>3
      <4>4. CASE k = Len(rows) + 1
        BY <2>5, <2>7, <3>3, <4>2, <4>4
      <4>5. QED
        BY <3>2, <4>1, <4>3, <4>4
    <3>6. \A n \in 1 .. Begun' : n \in unwritten' \/ \E k \in DOMAIN rows' : rows'[k].count = n
      <4>1. ASSUME NEW n \in 1 .. Len(connected)
            PROVE  n \in unwritten \/ \E k \in DOMAIN rows' : rows'[k].count = n
        BY <2>4, <2>6, <3>2
      <4>2. \E k \in DOMAIN rows' : rows'[k].count = Len(connected) + 1
        BY <3>2, <3>3
      <4>3. \A n \in 1 .. Begun' : n \in 1 .. Len(connected) \/ n = Len(connected) + 1
        BY <2>5, <2>6
      <4>4. QED
        BY <2>9, <4>1, <4>2, <4>3
    <3>7. RowsInv'
      BY <2>5, <2>6, <3>2, <3>4, <3>5, <3>6 DEF RowsInv
    <3>8. QED
      BY <2>3, <3>7
  <2>10. CASE rows' = rows /\ unwritten' = unwritten \union {Len(connected) + 1}
    <3>1. (\A k \in DOMAIN rows : Numbered(rows[k].count, rows[k].cmts_ip))'
      <4>1. SUFFICES ASSUME NEW k \in DOMAIN rows', NEW n, NEW a,
                            n = rows'[k].count, a = rows'[k].cmts_ip
                     PROVE  Numbered(n, a)'
        BY Zenon
      <4>2. k \in DOMAIN rows /\ n = rows[k].count /\ a = rows[k].cmts_ip
        BY <2>10, <4>1
      <4>3. Numbered(n, a)
        BY <2>4, <4>2
      <4>4. QED
        BY <2>8, <4>3
    <3>2. \A n \in 1 .. Begun' : n \in unwritten' \/ \E k \in DOMAIN rows' : rows'[k].count = n
      BY <2>4, <2>5, <2>6, <2>10
    <3>3. RowsInv'
      BY <2>4, <2>5, <2>6, <2>10, <3>1, <3>2 DEF RowsInv
    <3>4. QED
      BY <2>3, <3>3
  <2>11. QED
    BY <2>9, <2>10 DEF RcwRow
<1>7. OnlyMain' /\ PreflightHasRoom'
  BY <1>1 DEF ServerInv, ServerTypeOK, TableType, PhaseOK, OnlyMain, PreflightHasRoom, Early, Running, Threads
<1>8. QED
  BY <1>1, <1>2, <1>3, <1>4, <1>5, <1>6, <1>7 DEF ServerInv

LEMMA SetCountStep ==
  ASSUME ConfAssumption, ServerAssumption, ServerInv, NEW th \in Threads, SetCount(th)
  PROVE  ServerInv'
<1> USE ServerNumbers DEF table, rc, main, SetCount, Leave, Goto
<1>1. ConfInv' /\ ConfTypeOK' /\ opts' = opts /\ preflight' = preflight /\ conf' = conf
  BY OptionsKept
<1>2. ServerTypeOK'
  BY <1>1 DEF ServerInv, ServerTypeOK, ServerAssumption, Threads
<1>3. TableType'
  <2>1. /\ connected \in Seq(Targets) /\ ip \in [Threads -> Targets \union {Null}]
        /\ \A t \in Threads : stage[t] # "idle" => ip[t] \in Targets
    BY DEF ServerInv, TableType
  <2>6. stage \in [Threads -> {"idle", "check", "admit", "row", "count"}] /\ ip[th] \in Targets
    BY <2>1 DEF ServerInv, ServerTypeOK
  <2>2. connected' = Append(connected, ip[th]) /\ ip' = ip /\ stage' = [stage EXCEPT ![th] = "idle"]
    OBVIOUS
  <2>3. connected' \in Seq(Targets)
    BY <2>1, <2>2, <2>6
  <2>4. ip' \in [Threads -> Targets \union {Null}]
        /\ \A t \in Threads : stage'[t] # "idle" => ip'[t] \in Targets
    BY <2>1, <2>2, <2>6
  <2>5. Targets' = Targets
    BY <1>1 DEF Targets
  <2>7. QED
    BY <2>3, <2>4, <2>5 DEF TableType
<1>4. PhaseOK'
  BY <1>1 DEF ServerInv, ServerTypeOK, PhaseOK, Early, Running, Threads
<1>5. CalmOK'
  BY <1>1 DEF ServerInv, ServerTypeOK, ServerAssumption, TableType, CalmOK, PhaseOK, Early, Running, Threads
<1>6. RowsInv' /\ TableThere'
  <2>1. /\ lock \in Threads \union {"free"} /\ "free" \notin Threads
        /\ stage \in [Threads -> {"idle", "check", "admit", "row", "count"}]
        /\ \A t \in Threads : stage[t] = "count" <=> lock = t
    BY DEF ServerInv, ServerTypeOK, RowsInv, ServerAssumption, Threads
  <2>2. phase \in Running /\ phase' = phase /\ ip' = ip
    BY DEF ServerInv, PhaseOK
  <2>3. TableThere'
    BY <2>2 DEF ServerInv, PhaseOK, TableThere, Running
  <2>4. /\ rows \in Seq(RowSet)
        /\ \A k \in DOMAIN rows : Numbered(rows[k].count, rows[k].cmts_ip)
        /\ \A j, k \in DOMAIN rows : j < k => rows[j].count < rows[k].count
        /\ \A n \in 1 .. Begun : n \in unwritten \/ \E k \in DOMAIN rows : rows[k].count = n
    BY <2>2 DEF ServerInv, RowsInv, Tabled
  <2>5. RowSet' = RowSet /\ ip[th] \in Targets /\ Len(connected) \in Nat /\ connected \in Seq(Targets)
    BY <1>1 DEF RowSet, Targets, ServerInv, TableType
  <2>6. /\ lock = th /\ lock' = "free" /\ rows' = rows /\ unwritten' = unwritten
        /\ \A t \in Threads : stage'[t] = "count" <=> lock' = t
    BY <2>1
  <2>7. /\ connected' = Append(connected, ip[th]) /\ Len(connected') = Len(connected) + 1
        /\ DOMAIN connected = 1 .. Len(connected) /\ DOMAIN connected' = 1 .. Len(connected) + 1
        /\ \A n \in DOMAIN connected : connected'[n] = connected[n]
        /\ connected'[Len(connected) + 1] = ip[th]
    BY <2>5
  <2>8. Begun' = Begun
    BY <2>1, <2>5, <2>6, <2>7 DEF Begun
  <2>9. \A n, a : Numbered(n, a) => Numbered(n, a)'
    BY <2>1, <2>5, <2>6, <2>7 DEF Numbered
  <2>10. RowsInv'
    BY <2>4, <2>5, <2>6, <2>8, <2>9 DEF RowsInv
  <2>11. QED
    BY <2>3, <2>10
<1>7. OnlyMain' /\ PreflightHasRoom'
  BY <1>1 DEF ServerInv, ServerTypeOK, TableType, PhaseOK, OnlyMain, PreflightHasRoom, Early, Running, Threads
<1>8. QED
  BY <1>1, <1>2, <1>3, <1>4, <1>5, <1>6, <1>7 DEF ServerInv

\* While the options are read nothing else happens.
LEMMA ConfigureStep ==
  ASSUME ConfAssumption, ServerInv, Configure
  PROVE  ServerInv'
<1>1. phase = "conf" /\ UNCHANGED server_vars /\ ConfNext
  BY DEF Configure
<1>2. ConfInv'
  BY <1>1, ConfStep DEF ServerInv
<1>3. ConfTypeOK' /\ Len(preflight)' \in Nat
  BY <1>2 DEF ConfInv, RoomOK
<1>4. /\ connected = <<>> /\ tried = 0 /\ refused = {} /\ requests = 0 /\ ~stale
      /\ ip = [t \in Threads |-> Null] /\ \A t \in Threads : stage[t] = "idle"
  BY <1>1 DEF ServerInv, PhaseOK, Early, Running
<1>5. ServerTypeOK'
  BY <1>1, <1>3, <1>4 DEF server_vars, ServerInv, ServerTypeOK
<1>6. TableType'
  BY <1>1, <1>4 DEF server_vars, TableType
<1>7. PhaseOK'
  BY <1>1, <1>4 DEF server_vars, ServerInv, PhaseOK, Early, Running
<1>8. CalmOK'
  BY <1>1, <1>4, ServerAssumption DEF server_vars, CalmOK, ServerAssumption
<1>9. RowsInv' /\ TableThere' /\ OnlyMain' /\ PreflightHasRoom'
  BY <1>1, <1>4 DEF server_vars, ServerInv, RowsInv, TableThere, OnlyMain, PreflightHasRoom, Threads,
                    Tabled, Running
<1>10. QED
  BY <1>2, <1>5, <1>6, <1>7, <1>8, <1>9 DEF ServerInv

LEMMA ServerStep ==
  ASSUME ConfAssumption, ServerAssumption, ServerInv, [ServerNext]_<<conf_vars, server_vars>>
  PROVE  ServerInv'
<1>1. CASE UNCHANGED <<conf_vars, server_vars>>
  <2>1. ConfInv' /\ ConfTypeOK' /\ opts' = opts /\ preflight' = preflight /\ conf' = conf
    BY <1>1, OptionsKept
  <2>2. ServerTypeOK' /\ TableType'
    BY <1>1, <2>1 DEF server_vars, ServerInv, ServerTypeOK, TableType, Targets
  <2>3. PhaseOK' /\ CalmOK'
    BY <1>1, <2>1 DEF server_vars, ServerInv, PhaseOK, CalmOK
  <2>4. RowsInv' /\ TableThere' /\ OnlyMain' /\ PreflightHasRoom'
    <3>1. Targets' = Targets
      BY <2>1 DEF Targets
    <3>2. RowsInv'
      BY <1>1, <3>1, RowsKept DEF server_vars
    <3>3. QED
      BY <1>1, <2>1, <3>2 DEF server_vars, ServerInv, TableThere, OnlyMain, PreflightHasRoom
  <2>5. QED
    BY <2>1, <2>2, <2>3, <2>4 DEF ServerInv
<1>2. CASE MainStep \/ FreeTable
  <2>1. CASE Configure
    BY <2>1, ConfigureStep
  <2>2. CASE Connecting(Main)
    BY <2>2, CheckStep, AdmitStep, SetRowStep, SetCountStep DEF Connecting, Threads
  <2>3. CASE Preflight
    BY <2>3, PreflightStep
  <2>4. QED
    BY <1>2, <2>1, <2>2, <2>3, PhaseStep, LcmInitStep DEF MainStep
<1>3. CASE \E h \in Handlers : Connecting(h) \/ \E a \in Addresses : Request(h, a)
  <2>1. PICK h \in Handlers : Connecting(h) \/ \E a \in Addresses : Request(h, a)
    BY <1>3
  <2>2. CASE Connecting(h)
    BY <2>2, CheckStep, AdmitStep, SetRowStep, SetCountStep DEF Connecting, Threads
  <2>3. CASE \E a \in Addresses : Request(h, a)
    BY <2>3, RequestStep
  <2>4. QED
    BY <2>1, <2>2, <2>3
<1>4. QED
  BY <1>1, <1>2, <1>3 DEF ServerNext

\* What main has established holds whatever the command line and the file of
\* settings say, and whatever the clients ask for.
THEOREM ServerInvariant == ServerSpec => []ServerInv
<1>1. ServerInit => ServerInv
  BY ServerInit_, ConfAssumption, ServerAssumption
<1>2. ServerInv /\ [ServerNext]_<<conf_vars, server_vars>> => ServerInv'
  BY ServerStep, ConfAssumption, ServerAssumption
<1>3. QED
  BY <1>1, <1>2, PTL DEF ServerSpec

\* Types are kept, and no option has a value that the assertions of
\* conf_argparse_opt refuse.
THEOREM ServerTypes == ServerSpec => []ServerTypeOK
<1>1. ServerInv => ServerTypeOK
  BY DEF ServerInv
<1>2. QED
  BY <1>1, ServerInvariant, PTL

\* When conf_read returns, every option is what is written last for it, for
\* every command line and every text of a file of settings.
THEOREM SettledHolds == ServerSpec => []Settled
<1>1. ServerInv => Settled
  BY ConfSettled, ConfAssumption DEF ServerInv
<1>2. QED
  BY <1>1, ServerInvariant, PTL

\* The server comes up with nothing of a former life (conf_clean_dirs), and
\* the CMTSs of its settings find room unless a client was faster (the
\* assertion at the end of conf_read_file, lcm_alloc_ok).
THEOREM StartHolds == ServerSpec => []StartOK
<1>1. ServerInv => StartOK
  BY DEF ServerInv, PhaseOK, Running, StartOK, CleanStart, Up
<1>2. QED
  BY <1>1, ServerInvariant, PTL

\* No thread meets the table before it is made, or without one if the limit is
\* refused; clients that come one at a time never fill it beyond clients[]; and
\* the rows of .connectrc are the CMTSs of the table under their places in it,
\* except those that could not be written, however connects interleave
\* (lcm_init, lcm_alloc_ok, lcm_set, rcw_row, gctl_webapi_init).
THEOREM TableHolds == ServerSpec => []TableOK
<1>1. ASSUME ServerInv PROVE TableOK
  <2>1. RoomForAll /\ TableThere
    BY <1>1 DEF ServerInv, CalmOK, RoomForAll
  <2>2. RowsMatch
    <3>1. SUFFICES ASSUME Up PROVE RowsMatch
      BY DEF RowsMatch
    <3>2. RowsInv /\ phase \in Tabled
      BY <1>1, <3>1 DEF ServerInv, Up, Tabled, Running
    <3>3. connected \in Seq(Targets)
      BY <1>1 DEF ServerInv, TableType
    <3>4. \A n \in DOMAIN connected : n \in 1 .. Begun
      BY <3>3 DEF Begun
    <3>5. QED
      BY <3>2, <3>4 DEF RowsMatch, RowsInv
  <2>3. QED
    BY <2>1, <2>2 DEF TableOK
<1>2. QED
  BY <1>1, ServerInvariant, PTL

-----------------------------------------------------------------------------
(****************************************************************************)
(* The messages that announce the timers (CopsMessages). A message is a    *)
(* number of bytes, and one behind the other; reading a number where it was*)
(* put gives the number, for every int.                                    *)
(****************************************************************************)

Half(a, b)       == 256 * a + b
Word(a, b, c, d) == 16777216 * (IF a < 128 THEN a ELSE a - 256) + 65536 * b + Half(c, d)

LEMMA ReadsHalf ==
  ASSUME NEW msg, NEW k \in Int
  PROVE  At16(msg, k) = Half(msg[k], msg[k + 1])
BY DEF At16, Half

LEMMA ReadsWord ==
  ASSUME NEW msg, NEW k \in Int
  PROVE  At32(msg, k) = Word(msg[k], msg[k + 1], msg[k + 2], msg[k + 3])
<1>1. At16(msg, k + 2) = Half(msg[k + 2], msg[(k + 2) + 1]) /\ (k + 2) + 1 = k + 3
  BY DEF At16, Half
<1>2. At16(msg, k + 2) = Half(msg[k + 2], msg[k + 3])
  BY <1>1
<1>3. QED
  BY <1>2 DEF At32, Word

\* Bytes are read back as the number they are of.
LEMMA Bytes16 ==
  ASSUME NEW v \in Int, 0 <= v, v < 65536
  PROVE  Unsigned16(v) \in Seq(Int) /\ Len(Unsigned16(v)) = 2 /\ At16(Unsigned16(v), 1) = v
<1>1. Unsigned16(v) = <<(v \div 256) % 256, v % 256>>
  BY DEF Unsigned16
<1>2. (v \div 256) % 256 = v \div 256 /\ v % 256 = v - 256 * (v \div 256)
  OBVIOUS
<1>3. 256 * ((v \div 256) % 256) + (v % 256) = v
  BY <1>2
<1>4. Unsigned16(v)[1] = (v \div 256) % 256 /\ Unsigned16(v)[2] = v % 256
  BY <1>1
<1>5. QED
  BY <1>1, <1>3, <1>4 DEF At16

LEMMA Bytes32 ==
  ASSUME NEW v \in Numerals
  PROVE  Unsigned32(v) \in Seq(Int) /\ Len(Unsigned32(v)) = 4 /\ At32(Unsigned32(v), 1) = v
<1>1. v \in Int /\ -2147483647 - 1 <= v /\ v <= 2147483647
  <2>1. IntMax \in Int
    BY DEF IntMax
  <2>2. v \in Int /\ -IntMax - 1 <= v /\ v <= IntMax
    BY <2>1 DEF Numerals
  <2>3. QED
    BY <2>2 DEF IntMax
<1> DEFINE a == v \div 256
           b == v \div 65536
           c == v \div 16777216
           s == <<c % 256, b % 256>>
           t == <<a % 256, v % 256>>
<1>2. a \in Int /\ b \in Int /\ c \in Int /\ -128 <= c /\ c <= 127
  BY <1>1
<1>3. v % 256 = v - 256 * a /\ a % 256 = a - 256 * b /\ b % 256 = b - 256 * c
  BY <1>1
<1>4. c % 256 = IF c < 0 THEN c + 256 ELSE c
  BY <1>2
<1>5. Unsigned32(v) = s \o t
  BY DEF Unsigned32, Unsigned16
<1>6. /\ s \o t \in Seq(Int) /\ Len(s \o t) = 4
      /\ (s \o t)[1] = c % 256 /\ (s \o t)[2] = b % 256 /\ (s \o t)[3] = a % 256 /\ (s \o t)[4] = v % 256
  <2>1. c % 256 \in Int /\ b % 256 \in Int /\ a % 256 \in Int /\ v % 256 \in Int
    BY <1>1, <1>2
  <2> HIDE DEF a, b, c
  <2>2. QED
    BY <2>1
<1> HIDE DEF a, b, c, s, t
<1>7. At32(s \o t, 1) = 16777216 * (IF c % 256 < 128 THEN c % 256 ELSE (c % 256) - 256)
                        + 65536 * (b % 256) + (256 * (a % 256) + (v % 256))
  <2> DEFINE st == s \o t
  <2>1. /\ 1 \in Int /\ 1 + 1 = 2 /\ 1 + 2 = 3 /\ 1 + 3 = 4
        /\ st[1] = c % 256 /\ st[2] = b % 256 /\ st[3] = a % 256 /\ st[4] = v % 256
    BY <1>6
  <2> HIDE DEF st
  <2>2. At32(st, 1) = Word(st[1], st[1 + 1], st[1 + 2], st[1 + 3])
    BY <2>1, ReadsWord
  <2>3. At32(st, 1) = Word(c % 256, b % 256, a % 256, v % 256)
    BY <2>1, <2>2
  <2>4. QED
    BY <2>3 DEF st, Word, Half
<1>8. At32(s \o t, 1) = v
  BY <1>1, <1>2, <1>3, <1>4, <1>7
<1>9. QED
  BY <1>5, <1>6, <1>8

\* ... wherever they are in a message.
LEMMA Joined ==
  ASSUME NEW s \in Seq(Int), NEW t \in Seq(Int)
  PROVE  /\ s \o t \in Seq(Int) /\ Len(s \o t) = Len(s) + Len(t)
         /\ \A k \in 1 .. Len(s) : (s \o t)[k] = s[k]
         /\ \A k \in 1 .. Len(s) : k + 1 <= Len(s) => At16(s \o t, k) = At16(s, k)
         /\ \A k \in 1 .. Len(s) : k + 3 <= Len(s) => At32(s \o t, k) = At32(s, k)
         /\ \A k \in 1 .. Len(t) : k + 1 <= Len(t) => At16(s \o t, Len(s) + k) = At16(t, k)
         /\ \A k \in 1 .. Len(t) : k + 3 <= Len(t) => At32(s \o t, Len(s) + k) = At32(t, k)
<1> DEFINE st == s \o t
<1>1. /\ st \in Seq(Int) /\ Len(st) = Len(s) + Len(t)
      /\ \A k \in Int : 1 <= k /\ k <= Len(s) => st[k] = s[k] /\ s[k] \in Int
      /\ \A k \in Int : 1 <= k /\ k <= Len(t) => st[Len(s) + k] = t[k] /\ t[k] \in Int
  OBVIOUS
<1> HIDE DEF st
<1>2. ASSUME NEW k \in 1 .. Len(s)
      PROVE  /\ k + 1 <= Len(s) => At16(st, k) = At16(s, k)
             /\ k + 3 <= Len(s) => At32(st, k) = At32(s, k)
  <2> DEFINE i == k
  <2>1. k \in Int /\ i \in Int /\ st[i] = s[k]
    BY <1>1
  <2>2. k + 1 <= Len(s) => st[i + 1] = s[k + 1]
    BY <1>1
  <2>3. k + 3 <= Len(s) => st[i + 1] = s[k + 1] /\ st[i + 2] = s[k + 2] /\ st[i + 3] = s[k + 3]
    <3>1. k + 2 <= Len(s) => st[i + 2] = s[k + 2]
      BY <1>1
    <3>2. k + 3 <= Len(s) => st[i + 3] = s[k + 3]
      BY <1>1
    <3>3. k + 3 <= Len(s) => k + 1 <= Len(s) /\ k + 2 <= Len(s)
      OBVIOUS
    <3>4. QED
      BY <2>2, <3>1, <3>2, <3>3
  <2> HIDE DEF i
  <2>4. /\ At16(st, i) = Half(st[i], st[i + 1])
        /\ At16(s, k) = Half(s[k], s[k + 1])
    BY <2>1, ReadsHalf
  <2>5. /\ At32(st, i) = Word(st[i], st[i + 1], st[i + 2], st[i + 3])
        /\ At32(s, k) = Word(s[k], s[k + 1], s[k + 2], s[k + 3])
    BY <2>1, ReadsWord
  <2>6. /\ k + 1 <= Len(s) => At16(st, i) = At16(s, k)
        /\ k + 3 <= Len(s) => At32(st, i) = At32(s, k)
    BY <2>1, <2>2, <2>3, <2>4, <2>5
  <2>7. QED
    BY <2>6 DEF i
<1>3. ASSUME NEW k \in 1 .. Len(t)
      PROVE  /\ k + 1 <= Len(t) => At16(st, Len(s) + k) = At16(t, k)
             /\ k + 3 <= Len(t) => At32(st, Len(s) + k) = At32(t, k)
  <2> DEFINE i == Len(s) + k
  <2>1. k \in Int /\ i \in Int /\ st[i] = t[k]
    BY <1>1
  <2>2. k + 1 <= Len(t) => st[i + 1] = t[k + 1]
    <3>1. Len(s) \in Int /\ k + 1 \in Int /\ 1 <= k + 1 /\ i + 1 = Len(s) + (k + 1)
      BY <1>1
    <3> HIDE DEF i
    <3>2. k + 1 <= Len(t) => st[Len(s) + (k + 1)] = t[k + 1]
      BY <1>1, <3>1
    <3>3. QED
      BY <3>1, <3>2
  <2>3. k + 3 <= Len(t) => st[i + 1] = t[k + 1] /\ st[i + 2] = t[k + 2] /\ st[i + 3] = t[k + 3]
    <3>1. k + 2 <= Len(t) => st[i + 2] = t[k + 2]
      <4>1. Len(s) \in Int /\ k + 2 \in Int /\ 1 <= k + 2 /\ i + 2 = Len(s) + (k + 2)
        BY <1>1
      <4> HIDE DEF i
      <4>2. k + 2 <= Len(t) => st[Len(s) + (k + 2)] = t[k + 2]
        BY <1>1, <4>1
      <4>3. QED
        BY <4>1, <4>2
    <3>2. k + 3 <= Len(t) => st[i + 3] = t[k + 3]
      <4>1. Len(s) \in Int /\ k + 3 \in Int /\ 1 <= k + 3 /\ i + 3 = Len(s) + (k + 3)
        BY <1>1
      <4> HIDE DEF i
      <4>2. k + 3 <= Len(t) => st[Len(s) + (k + 3)] = t[k + 3]
        BY <1>1, <4>1
      <4>3. QED
        BY <4>1, <4>2
    <3>3. k + 3 <= Len(t) => k + 1 <= Len(t) /\ k + 2 <= Len(t)
      OBVIOUS
    <3>4. QED
      BY <2>2, <3>1, <3>2, <3>3
  <2> HIDE DEF i
  <2>4. /\ At16(st, i) = Half(st[i], st[i + 1])
        /\ At16(t, k) = Half(t[k], t[k + 1])
    BY <2>1, ReadsHalf
  <2>5. /\ At32(st, i) = Word(st[i], st[i + 1], st[i + 2], st[i + 3])
        /\ At32(t, k) = Word(t[k], t[k + 1], t[k + 2], t[k + 3])
    BY <2>1, ReadsWord
  <2>6. /\ k + 1 <= Len(t) => At16(st, i) = At16(t, k)
        /\ k + 3 <= Len(t) => At32(st, i) = At32(t, k)
    BY <2>1, <2>2, <2>3, <2>4, <2>5
  <2>7. QED
    BY <2>6 DEF i
<1>4. QED
  BY <1>1, <1>2, <1>3 DEF st

\* A message of n bytes, and one with another behind it.
Bytes(s, n) == s \in Seq(Int) /\ Len(s) = n
Joins(st, s, t) == st = s \o t

LEMMA JoinIs ==
  ASSUME NEW st, NEW s, NEW t, NEW m \in Nat, NEW n \in Nat, Bytes(s, m), Bytes(t, n), Joins(st, s, t)
  PROVE  Bytes(st, m + n) /\ \A k \in Nat : 1 <= k /\ k <= m => st[k] = s[k]
<1>1. Len(s) = m /\ Len(t) = n /\ s \in Seq(Int) /\ t \in Seq(Int) /\ st = s \o t
  BY DEF Joins, Bytes
<1>2. st \in Seq(Int) /\ Len(st) = m + n
  BY <1>1, Joined
<1>3. \A k \in 1 .. Len(s) : st[k] = s[k]
  BY <1>1, Joined
<1>4. \A k \in Nat : 1 <= k /\ k <= m => k \in 1 .. Len(s)
  BY <1>1
<1>5. QED
  BY <1>2, <1>3, <1>4 DEF Bytes

LEMMA JoinLeft ==
  ASSUME NEW st, NEW s, NEW t, NEW m \in Nat, NEW n \in Nat, Bytes(s, m), Bytes(t, n), Joins(st, s, t),
         NEW k \in Nat, 1 <= k
  PROVE  /\ k + 1 <= m => At16(st, k) = At16(s, k)
         /\ k + 3 <= m => At32(st, k) = At32(s, k)
<1>1. Len(s) = m /\ s \in Seq(Int) /\ t \in Seq(Int) /\ st = s \o t
  BY DEF Joins, Bytes
<1>2. k + 1 <= m => k \in 1 .. Len(s)
  BY <1>1
<1>3. k + 3 <= m => k \in 1 .. Len(s)
  BY <1>1
<1>4. QED
  BY <1>1, <1>2, <1>3, Joined

LEMMA JoinRight ==
  ASSUME NEW st, NEW s, NEW t, NEW m \in Nat, NEW n \in Nat, Bytes(s, m), Bytes(t, n), Joins(st, s, t),
         NEW k \in Nat, 1 <= k
  PROVE  /\ k + 1 <= n => At16(st, m + k) = At16(t, k)
         /\ k + 3 <= n => At32(st, m + k) = At32(t, k)
<1>1. Len(s) = m /\ Len(t) = n /\ s \in Seq(Int) /\ t \in Seq(Int) /\ st = s \o t
  BY DEF Joins, Bytes
<1>2. k + 1 <= n => k \in 1 .. Len(t)
  BY <1>1
<1>3. k + 3 <= n => k \in 1 .. Len(t)
  BY <1>1
<1>4. QED
  BY <1>1, <1>2, <1>3, Joined

LEMMA TimerIs ==
  ASSUME NEW cnum \in Int, NEW v \in Numerals
  PROVE  /\ Bytes(Timer(cnum, v), 8)
         /\ At16(Timer(cnum, v), 1) = 8 /\ At32(Timer(cnum, v), 5) = v
<1> DEFINE a   == Unsigned16(8)
           b   == <<cnum, 1>>
           c   == Unsigned32(v)
           ab  == a \o b
           all == Timer(cnum, v)
<1>1. Bytes(a, 2) /\ At16(a, 1) = 8
  BY Bytes16 DEF Bytes
<1>2. Bytes(c, 4) /\ At32(c, 1) = v
  BY Bytes32 DEF Bytes
<1>3. Bytes(b, 2)
  BY DEF Bytes
<1>4. Joins(ab, a, b) /\ Joins(all, ab, c)
  BY DEF Timer, Joins
<1> HIDE DEF a, b, c, ab, all
<1>5. Bytes(ab, 4)
  BY <1>1, <1>3, <1>4, JoinIs
<1>6. At16(ab, 1) = 8
  BY <1>1, <1>3, <1>4, JoinLeft
<1>7. Bytes(all, 8)
  BY <1>2, <1>4, <1>5, JoinIs
<1>8. At16(all, 1) = 8
  BY <1>2, <1>4, <1>5, <1>6, JoinLeft
<1>9. At32(all, 4 + 1) = v
  BY <1>2, <1>4, <1>5, JoinRight
<1>10. QED
  BY <1>7, <1>8, <1>9 DEF all

LEMMA HeaderIs ==
  ASSUME NEW opcode \in Int, NEW client \in Int, 0 <= client, client < 65536, NEW n \in Numerals
  PROVE  LET header == CommonHeader(opcode, client, n)
         IN  /\ Bytes(header, 8) /\ header[2] = opcode
             /\ At16(header, 3) = client /\ At32(header, 5) = n
<1> DEFINE a   == <<16, opcode>>
           b   == Unsigned16(client)
           c   == Unsigned32(n)
           ab  == a \o b
           all == CommonHeader(opcode, client, n)
<1>1. Bytes(a, 2) /\ a[2] = opcode
  BY DEF Bytes
<1>2. Bytes(b, 2) /\ At16(b, 1) = client
  BY Bytes16 DEF Bytes
<1>3. Bytes(c, 4) /\ At32(c, 1) = n
  BY Bytes32 DEF Bytes
<1>4. Joins(ab, a, b) /\ Joins(all, ab, c)
  BY DEF CommonHeader, Joins
<1> HIDE DEF a, b, c, ab, all
<1>5. Bytes(ab, 4) /\ ab[2] = opcode
  BY <1>1, <1>2, <1>4, JoinIs
<1>6. At16(ab, 2 + 1) = client
  BY <1>1, <1>2, <1>4, JoinRight
<1>7. Bytes(all, 8) /\ all[2] = opcode
  BY <1>3, <1>4, <1>5, JoinIs
<1>8. At16(all, 3) = client
  BY <1>3, <1>4, <1>5, <1>6, JoinLeft
<1>9. At32(all, 4 + 1) = n
  BY <1>3, <1>4, <1>5, JoinRight
<1>10. QED
  BY <1>7, <1>8, <1>9 DEF all

\* The Client-Accept, without the timer that is not asked for and with it.
LEMMA AcceptIs ==
  ASSUME NEW ka \in Numerals, NEW ac \in Numerals
  PROVE  LET msg == ClientAccept(ka, ac)
         IN  /\ Bytes(msg, AcceptLength(ac)) /\ msg[2] = 7 /\ At16(msg, 3) = PcmmClient
             /\ At32(msg, 5) = AcceptLength(ac)
             /\ At16(msg, 9) = 8 /\ At32(msg, 13) = ka
             /\ ac # 0 => At16(msg, 17) = 8 /\ At32(msg, 21) = ac
<1> DEFINE n   == AcceptLength(ac)
           a   == CommonHeader(7, PcmmClient, n)
           b   == Timer(10, ka)
           c   == IF ac = 0 THEN <<>> ELSE Timer(15, ac)
           ab  == a \o b
           all == ClientAccept(ka, ac)
<1>1. n = (IF ac = 0 THEN 16 ELSE 24) /\ n \in Numerals
  <2>1. 16 \in Numerals /\ 24 \in Numerals
    BY SmallNumerals
  <2>2. QED
    BY <2>1 DEF AcceptLength
<1>2. Bytes(a, 8) /\ a[2] = 7 /\ At16(a, 3) = PcmmClient /\ At32(a, 5) = n
  <2>1. PcmmClient \in Int /\ 0 <= PcmmClient /\ PcmmClient < 65536
    BY DEF PcmmClient
  <2> HIDE DEF n
  <2>2. QED
    BY <1>1, <2>1, HeaderIs
<1>3. Bytes(b, 8) /\ At16(b, 1) = 8 /\ At32(b, 5) = ka
  BY TimerIs
<1>4. /\ ac # 0 => Bytes(c, 8) /\ At16(c, 1) = 8 /\ At32(c, 5) = ac
      /\ ac = 0 => Bytes(c, 0)
  <2>1. Bytes(<<>>, 0)
    BY DEF Bytes
  <2>2. QED
    BY <2>1, TimerIs
<1>5. Joins(ab, a, b) /\ Joins(all, ab, c)
  BY <1>1 DEF ClientAccept, Joins
<1> HIDE DEF n, a, b, c, ab, all
<1>6. Bytes(ab, 16) /\ ab[2] = 7
  BY <1>2, <1>3, <1>5, JoinIs
<1>7. At16(ab, 3) = PcmmClient /\ At32(ab, 5) = n
  BY <1>2, <1>3, <1>5, JoinLeft
<1>8. At16(ab, 8 + 1) = 8 /\ At32(ab, 8 + 5) = ka
  BY <1>2, <1>3, <1>5, JoinRight
<1>9. CASE ac = 0
  <2>1. Bytes(all, 16) /\ all[2] = 7
    BY <1>4, <1>5, <1>6, <1>9, JoinIs
  <2>2. At16(all, 3) = PcmmClient /\ At32(all, 5) = n /\ At16(all, 9) = 8 /\ At32(all, 13) = ka
    BY <1>4, <1>5, <1>6, <1>7, <1>8, <1>9, JoinLeft
  <2>3. QED
    BY <1>1, <1>9, <2>1, <2>2 DEF all, n
<1>10. CASE ac # 0
  <2>1. Bytes(all, 24) /\ all[2] = 7
    BY <1>4, <1>5, <1>6, <1>10, JoinIs
  <2>2. At16(all, 3) = PcmmClient /\ At32(all, 5) = n /\ At16(all, 9) = 8 /\ At32(all, 13) = ka
    BY <1>4, <1>5, <1>6, <1>7, <1>8, <1>10, JoinLeft
  <2>3. At16(all, 16 + 1) = 8 /\ At32(all, 16 + 5) = ac
    BY <1>4, <1>5, <1>6, <1>10, JoinRight
  <2>4. QED
    BY <1>1, <1>10, <2>1, <2>2, <2>3 DEF all, n
<1>11. QED
  BY <1>9, <1>10

\* Where its objects begin: each ends where the next begins, the last at the end.
LEMMA ObjectsAre ==
  ASSUME NEW msg, Len(msg) \in Nat, At16(msg, 9) = 8,
         \/ Len(msg) = 16
         \/ Len(msg) = 24 /\ At16(msg, 17) = 8
  PROVE  Objects(msg) = {9, 17} \union (IF Len(msg) = 16 THEN {} ELSE {25})
<1> DEFINE G(g, k) == IF k = 0 THEN {9} ELSE {s + At16(msg, s) : s \in {t \in g[k - 1] : t < Len(msg)}}
           starts  == CHOOSE g : g = [k \in 0 .. 2 |-> G(g, k)]
           third   == IF Len(msg) = 16 THEN {} ELSE {25}
           known   == [k \in 0 .. 2 |-> IF k = 0 THEN {9} ELSE IF k = 1 THEN {17} ELSE third]
<1>1. known[0] = {9} /\ known[1] = {17} /\ known[2] = third
  OBVIOUS
<1>2. ASSUME NEW g
      PROVE  /\ G(g, 0) = {9}
             /\ g[0] = {9} => G(g, 1) = {17}
             /\ g[1] = {17} => G(g, 2) = third
  <2>1. {t \in {9} : t < Len(msg)} = {9} /\ {s + At16(msg, s) : s \in {9}} = {17}
    <3> DEFINE n == Len(msg)
    <3>1. n = 16 \/ n = 24
      OBVIOUS
    <3> HIDE DEF n
    <3>2. 9 < n
      BY <3>1
    <3>3. 9 + At16(msg, 9) = 17
      BY At16(msg, 9) = 8
    <3>4. QED
      BY <3>2, <3>3 DEF n
  <2>2. CASE Len(msg) = 16
    <3>1. {t \in {17} : t < Len(msg)} = {} /\ {s + At16(msg, s) : s \in {}} = {}
      BY <2>2
    <3>2. QED
      BY <2>1, <2>2, <3>1
  <2>3. CASE Len(msg) = 24 /\ At16(msg, 17) = 8
    <3>1. {t \in {17} : t < Len(msg)} = {17} /\ {s + At16(msg, s) : s \in {17}} = {25}
      BY <2>3
    <3>2. QED
      BY <2>1, <2>3, <3>1
  <2>4. QED
    BY <2>2, <2>3
<1>3. known = [k \in 0 .. 2 |-> G(known, k)]
  <2> HIDE DEF G, third
  <2>1. G(known, 0) = {9} /\ G(known, 1) = {17} /\ G(known, 2) = third
    <3> HIDE DEF known
    <3>1. QED
      BY <1>1, <1>2
  <2>2. \A k \in 0 .. 2 : G(known, k) = IF k = 0 THEN {9} ELSE IF k = 1 THEN {17} ELSE third
    <3> HIDE DEF known
    <3>1. QED
      BY <2>1
  <2>3. QED
    BY <2>2
<1>4. starts = [k \in 0 .. 2 |-> G(starts, k)]
  BY <1>3
<1>5. Objects(msg) = UNION {starts[k] : k \in 0 .. 2}
  BY DEF Objects
<1> HIDE DEF starts, known
<1>6. starts[0] = {9} /\ starts[1] = {17} /\ starts[2] = third
  <2> HIDE DEF G, third
  <2>1. \A k \in 0 .. 2 : starts[k] = G(starts, k)
    BY <1>4
  <2>2. starts[0] = {9}
    BY <1>2, <2>1
  <2>3. starts[1] = {17}
    BY <1>2, <2>1, <2>2
  <2>4. QED
    BY <1>2, <2>1, <2>2, <2>3
<1>7. QED
  BY <1>5, <1>6

LEMMA TimersKnown ==
  ASSUME ConfInv
  PROVE  KATimer \in Numerals /\ KATimer # 0 /\ ACTimer \in Numerals
<1>1. settings["ka_timer"] \in Numerals /\ settings["ac_timer"] \in Numerals
  BY DEF ConfInv, Fields, Statics
<1>2. 60 \in Numerals
  BY SmallNumerals
<1>3. QED
  BY <1>1, <1>2 DEF KATimer, ACTimer

\* The Client-Accept says what it is, how long it is and which timers the
\* settings give, for every int they may be; the Keep-Alive is well-formed
\* (cops_client_accept, cops_keepalive, ps_admctl, sock_keepalive).
THEOREM AcceptHolds == ServerSpec => []AcceptSays
<1>1. ASSUME ServerInv PROVE AcceptSays
  <2> DEFINE ka  == KATimer
             ac  == ACTimer
             msg == ClientAccept(ka, ac)
  <2>1. ka \in Numerals /\ ka # 0 /\ ac \in Numerals
    BY <1>1, TimersKnown DEF ServerInv
  <2> HIDE DEF ka, ac
  <2>2. /\ Bytes(msg, AcceptLength(ac)) /\ msg[2] = 7 /\ At16(msg, 3) = PcmmClient
        /\ At32(msg, 5) = AcceptLength(ac)
        /\ At16(msg, 9) = 8 /\ At32(msg, 13) = ka
        /\ ac # 0 => At16(msg, 17) = 8 /\ At32(msg, 21) = ac
    BY <2>1, AcceptIs
  <2> HIDE DEF msg
  <2>3. AcceptLength(ac) = IF ac = 0 THEN 16 ELSE 24
    BY DEF AcceptLength
  <2>4. Len(msg) = AcceptLength(ac)
    BY <2>2 DEF Bytes
  <2>5. HeaderOk(msg[2], At16(msg, 3), At32(msg, 5))
    BY <2>2, <2>3 DEF HeaderOk, OpcodeOk
  <2>6. WellFormed(msg)
    BY <2>2, <2>4, <2>5 DEF WellFormed
  <2>7. WellFormed(KeepAlive)
    <3>1. 8 \in Numerals
      BY SmallNumerals
    <3>2. Bytes(KeepAlive, 8) /\ KeepAlive[2] = 9 /\ At16(KeepAlive, 3) = 0 /\ At32(KeepAlive, 5) = 8
      BY <3>1, HeaderIs DEF KeepAlive
    <3>3. QED
      BY <3>2 DEF WellFormed, HeaderOk, Bytes
  <2>8. Objects(msg) = {9, 17} \union (IF ac = 0 THEN {} ELSE {25})
    <3> DEFINE n == Len(msg)
    <3>1. n = (IF ac = 0 THEN 16 ELSE 24) /\ n \in Nat
      BY <2>3, <2>4
    <3> HIDE DEF n
    <3>2. n \in Nat /\ (n = 16 \/ (n = 24 /\ At16(msg, 17) = 8))
      BY <2>2, <3>1
    <3>3. Objects(msg) = {9, 17} \union (IF n = 16 THEN {} ELSE {25})
      BY <2>2, <3>2, ObjectsAre DEF n
    <3>4. QED
      BY <3>1, <3>3
  <2>9. QED
    BY <2>1, <2>2, <2>4, <2>6, <2>7, <2>8 DEF AcceptSays, ka, ac, msg
<1>2. QED
  BY <1>1, ServerInvariant, PTL

-----------------------------------------------------------------------------
(****************************************************************************)
(* The logs (Log). What log_getfsize measures holds for one moment: a thread*)
(* that has measured error.log writes one entry, whatever the others do, so*)
(* that the entries in it and the threads that have measured it are fewer  *)
(* than the limit and the threads there are.                               *)
(****************************************************************************)

Steps   == {"new", "idle", "own", "print", "access", "open", "measure", "empty", "again", "write"}
Logging == {"measure", "empty", "again", "write"}   \* error.log is open

\* An entry is on its way as long as it is not in the file.
EntryGiven == \A w \in Writers : step[w] \in {"access", "open"} \union Logging => entry[w] # 0

\* Who has a log of its own has it from its start until its destructor runs.
OwnLog ==
    \A w \in Writers :
        /\ step[w] \in {"own", "print"} => tlog[w] # NoPath
        /\ step[w] = "new" => tlog[w] = NoPath /\ doomed[w] = NoPath
        /\ tlog[w] # NoPath => doomed[w] = NoPath

\* If no two threads have the same path, the one that has it finds its log,
\* and has made room for an entry before it writes one.
LogsApart ==
    unique =>
        /\ ~crashed
        /\ \A v, w \in Writers : v # w =>
              /\ tlog[v] # NoPath => tlog[v] \notin {tlog[w], doomed[w]}
              /\ doomed[v] # NoPath => doomed[v] # doomed[w]
        /\ \A w \in Writers : tlog[w] # NoPath => tlog[w] \in exists
        /\ \A w \in Writers : step[w] = "print" => size[tlog[w]] < Max
        /\ \A p \in exists : size[p] <= Max

\* The entries that were measured, and the threads that have measured.
Counted == {n \in DOMAIN errors : errors[n] \notin raw}
Due     == {w \in Writers : step[w] = "write" /\ entry[w] \notin raw}

RoomMeasured == Cardinality(Counted) + Cardinality(Due) < Max + Cardinality(Writers)

\* A file that was there is appended to, until one empties it.
Appending ==
    /\ was => there
    /\ was /\ ~rotated => (\A w \in Writers : how[w] = "a") /\ errors = written

\* Whoever has emptied the file is about to write to it.
LastComes ==
    console /\ last # 0 =>
        \/ \E n \in DOMAIN errors : errors[n] = last
        \/ \E w \in Writers : step[w] \in Logging

LogInv ==
    /\ LogTypeOK /\ EntryGiven
    /\ OwnLog /\ LogsApart
    /\ RoomMeasured
    /\ Appending /\ LastComes

-----------------------------------------------------------------------------

LEMMA WritersFinite ==
  ASSUME LogAssumption
  PROVE  /\ IsFiniteSet(Writers) /\ Cardinality(Writers) \in Nat
         /\ \A S \in SUBSET Writers : IsFiniteSet(S) /\ Cardinality(S) \in Nat
                                      /\ Cardinality(S) <= Cardinality(Writers)
<1>1. IsFiniteSet(Writers)
  BY DEF LogAssumption, Writers
<1>2. QED
  BY <1>1, FS_Subset, FS_CardinalityType

\* Entries of a log, and how many there are of a kind.
LEMMA CountedFinite ==
  ASSUME NEW e, NEW S, e \in Seq(S), NEW X, X \subseteq DOMAIN e
  PROVE  /\ IsFiniteSet(X) /\ Cardinality(X) \in Nat /\ Cardinality(X) <= Len(e)
         /\ \A j : IsFiniteSet(X \union {j}) /\ Cardinality(X \union {j}) <= Cardinality(X) + 1
<1>1. DOMAIN e = 1 .. Len(e) /\ Len(e) \in Nat
  OBVIOUS
<1>2. IsFiniteSet(1 .. Len(e)) /\ Cardinality(1 .. Len(e)) = Len(e)
  <2> DEFINE n == Len(e)
  <2>1. n \in Int /\ 1 \in Int /\ n >= 0
    BY <1>1
  <2> HIDE DEF n
  <2>2. IsFiniteSet(1 .. n) /\ Cardinality(1 .. n) = IF 1 > n THEN 0 ELSE n - 1 + 1
    BY <2>1, FS_Interval, Zenon
  <2>3. IsFiniteSet(1 .. n) /\ Cardinality(1 .. n) = n
    BY <2>1, <2>2
  <2>4. QED
    BY <2>3 DEF n
<1>3. IsFiniteSet(X) /\ Cardinality(X) <= Len(e) /\ Cardinality(X) \in Nat
  BY <1>1, <1>2, FS_Subset, FS_CardinalityType
<1>4. ASSUME NEW j PROVE IsFiniteSet(X \union {j}) /\ Cardinality(X \union {j}) <= Cardinality(X) + 1
  <2>1. IsFiniteSet(X \union {j})
    BY <1>3, FS_AddElement
  <2>2. Cardinality(X \union {j}) = IF j \in X THEN Cardinality(X) ELSE Cardinality(X) + 1
    BY <1>3, FS_AddElement
  <2>3. QED
    BY <1>3, <2>1, <2>2
<1>5. QED
  BY <1>3, <1>4

LEMMA LogInit_ == LogAssumption /\ LogInit => LogInv
<1> SUFFICES ASSUME LogAssumption, LogInit PROVE LogInv
  OBVIOUS
<1>1. LogTypeOK
  <2>1. errors \in Seq(1 .. entries) /\ written \in Seq(1 .. entries)
    BY DEF LogInit
  <2>2. entries \in 0 .. MaxEntries /\ last \in 0 .. entries
    BY DEF LogInit, LogAssumption
  <2>3. QED
    BY <2>1, <2>2 DEF LogInit, LogTypeOK
<1>2. EntryGiven /\ OwnLog /\ LogsApart
  BY DEF LogInit, EntryGiven, Logging, OwnLog, LogsApart, Writers
<1>3. RoomMeasured
  <2>1. Counted = {} /\ Due = {}
    BY DEF LogInit, Counted, Due
  <2>2. Cardinality({}) = 0
    BY FS_EmptySet
  <2>3. QED
    BY <2>1, <2>2, WritersFinite DEF RoomMeasured, LogAssumption
<1>4. Appending /\ LastComes
  BY DEF LogInit, Appending, LastComes
<1>5. QED
  BY <1>1, <1>2, <1>3, <1>4 DEF LogInv

\* A step that puts nothing into error.log, after which no more threads have
\* measured it.
LEMMA RoomKept ==
  ASSUME LogAssumption, LogInv, Counted' \subseteq Counted, Due' \subseteq Due
  PROVE  RoomMeasured'
<1>1. /\ IsFiniteSet(Counted) /\ Cardinality(Counted) \in Nat
      /\ IsFiniteSet(Due) /\ Cardinality(Due) \in Nat
  <2>1. errors \in Seq(1 .. entries) /\ Counted \subseteq DOMAIN errors /\ Due \in SUBSET Writers
    BY DEF LogInv, LogTypeOK, Counted, Due
  <2>2. QED
    BY <2>1, CountedFinite, WritersFinite
<1>2. /\ Cardinality(Counted') <= Cardinality(Counted) /\ Cardinality(Due') <= Cardinality(Due)
      /\ Cardinality(Counted') \in Nat /\ Cardinality(Due') \in Nat
  BY <1>1, FS_Subset, FS_CardinalityType
<1>3. Max \in Nat /\ Cardinality(Writers) \in Nat
  BY WritersFinite DEF LogAssumption
<1>4. QED
  BY <1>1, <1>2, <1>3 DEF LogInv, RoomMeasured

LEMMA LogSpecificStep ==
  ASSUME LogAssumption, LogInv, NEW w \in Writers, NEW p \in Paths, w \in SessionThreads, LogSpecific(w, p)
  PROVE  LogInv'
<1> USE DEF error_log, settled, thread_log, At, LogSpecific
<1>1. LogTypeOK'
  BY DEF LogInv, LogTypeOK, LogAssumption, EntryGiven, OwnLog, Logging
<1>2. EntryGiven'
  BY DEF LogInv, LogTypeOK, EntryGiven, Logging
<1>3. OwnLog'
  BY DEF LogInv, LogTypeOK, LogAssumption, OwnLog
<1>4. LogsApart'
  BY DEF LogInv, LogTypeOK, LogAssumption, OwnLog, LogsApart
<1>5. RoomMeasured'
  <2>1. Counted' \subseteq Counted /\ Due' \subseteq Due
    BY DEF LogInv, LogTypeOK, Counted, Due
  <2>2. QED
    BY <2>1, RoomKept
<1>6. Appending'
  BY DEF LogInv, LogTypeOK, Appending, EntryGiven, Logging
<1>7. LastComes'
  BY DEF LogInv, LogTypeOK, LastComes, Logging
<1>8. QED
  BY <1>1, <1>2, <1>3, <1>4, <1>5, <1>6, <1>7 DEF LogInv

LEMMA ThreadExitStep ==
  ASSUME LogAssumption, LogInv, NEW w \in Writers, ThreadExit(w)
  PROVE  LogInv'
<1> USE DEF error_log, settled, thread_log, At, ThreadExit
<1>1. LogTypeOK'
  BY DEF LogInv, LogTypeOK, LogAssumption, EntryGiven, OwnLog, Logging
<1>2. EntryGiven'
  BY DEF LogInv, LogTypeOK, EntryGiven, Logging
<1>3. OwnLog'
  BY DEF LogInv, LogTypeOK, LogAssumption, OwnLog
<1>4. LogsApart'
  BY DEF LogInv, LogTypeOK, LogAssumption, OwnLog, LogsApart
<1>5. RoomMeasured'
  <2>1. Counted' \subseteq Counted /\ Due' \subseteq Due
    BY DEF LogInv, LogTypeOK, Counted, Due
  <2>2. QED
    BY <2>1, RoomKept
<1>6. Appending'
  BY DEF LogInv, LogTypeOK, Appending, EntryGiven, Logging
<1>7. LastComes'
  BY DEF LogInv, LogTypeOK, LastComes, Logging
<1>8. QED
  BY <1>1, <1>2, <1>3, <1>4, <1>5, <1>6, <1>7 DEF LogInv

LEMMA DestroyStep ==
  ASSUME LogAssumption, LogInv, NEW w \in Writers, Destroy(w)
  PROVE  LogInv'
<1> USE DEF error_log, settled, thread_log, At, Destroy
<1>1. LogTypeOK'
  BY DEF LogInv, LogTypeOK, LogAssumption, EntryGiven, OwnLog, Logging
<1>2. EntryGiven'
  BY DEF LogInv, LogTypeOK, EntryGiven, Logging
<1>3. OwnLog'
  BY DEF LogInv, LogTypeOK, LogAssumption, OwnLog
<1>4. LogsApart'
  BY DEF LogInv, LogTypeOK, LogAssumption, OwnLog, LogsApart
<1>5. RoomMeasured'
  <2>1. Counted' \subseteq Counted /\ Due' \subseteq Due
    BY DEF LogInv, LogTypeOK, Counted, Due
  <2>2. QED
    BY <2>1, RoomKept
<1>6. Appending'
  BY DEF LogInv, LogTypeOK, Appending, EntryGiven, Logging
<1>7. LastComes'
  BY DEF LogInv, LogTypeOK, LastComes, Logging
<1>8. QED
  BY <1>1, <1>2, <1>3, <1>4, <1>5, <1>6, <1>7 DEF LogInv

LEMMA CallStep ==
  ASSUME LogAssumption, LogInv, NEW w \in Writers, NEW severe \in BOOLEAN, Call(w, severe)
  PROVE  LogInv'
<1> USE DEF error_log, settled, thread_log, At, Call
<1>1. LogTypeOK'
  BY DEF LogInv, LogTypeOK, LogAssumption, EntryGiven, OwnLog, Logging
<1>2. EntryGiven'
  BY DEF LogInv, LogTypeOK, EntryGiven, Logging
<1>3. OwnLog'
  BY DEF LogInv, LogTypeOK, LogAssumption, OwnLog
<1>4. LogsApart'
  BY DEF LogInv, LogTypeOK, LogAssumption, OwnLog, LogsApart
<1>5. RoomMeasured'
  <2>1. Counted' \subseteq Counted /\ Due' \subseteq Due
    BY DEF LogInv, LogTypeOK, Counted, Due
  <2>2. QED
    BY <2>1, RoomKept
<1>6. Appending'
  BY DEF LogInv, LogTypeOK, Appending, EntryGiven, Logging
<1>7. LastComes'
  BY DEF LogInv, LogTypeOK, LastComes, Logging
<1>8. QED
  BY <1>1, <1>2, <1>3, <1>4, <1>5, <1>6, <1>7 DEF LogInv

LEMMA MeasureOwnStep ==
  ASSUME LogAssumption, LogInv, NEW w \in Writers, MeasureOwn(w)
  PROVE  LogInv'
<1> USE DEF error_log, settled, thread_log, At, MeasureOwn
<1>1. LogTypeOK'
  <2>1. crashed' \in BOOLEAN
    OBVIOUS
  <2>2. size' \in [Paths -> Nat] /\ step' \in [Writers -> Steps]
    <3>1. /\ size' = size \/ size' = [size EXCEPT ![tlog[w]] = 0]
          /\ step' = [step EXCEPT ![w] = "print"]
      OBVIOUS
    <3> HIDE DEF MeasureOwn, At
    <3>2. QED
      BY <3>1 DEF LogInv, LogTypeOK, Steps
  <2>3. UNCHANGED <<errors, there, written, rotated, last, leaked, exists, tlog, doomed, how, entry, entries,
                    unique, was, console, raw>>
    OBVIOUS
  <2> HIDE DEF MeasureOwn
  <2>4. QED
    BY <2>1, <2>2, <2>3 DEF LogInv, LogTypeOK, Steps
<1>2. EntryGiven'
  BY DEF LogInv, LogTypeOK, EntryGiven, Logging
<1>3. OwnLog'
  BY DEF LogInv, LogTypeOK, LogAssumption, OwnLog
<1>4. LogsApart'
  <2> SUFFICES ASSUME unique PROVE LogsApart'
    BY DEF LogsApart
  <2>1. step[w] = "own" /\ tlog[w] # NoPath /\ tlog[w] \in Paths
    BY DEF LogInv, LogTypeOK, OwnLog
  <2>2. tlog[w] \in exists
    BY <2>1 DEF LogInv, LogsApart
  <2>3. ~crashed'
    BY <2>2
  <2>4. size' = IF size[tlog[w]] >= Max THEN [size EXCEPT ![tlog[w]] = 0] ELSE size
    BY <2>2
  <2>5. UNCHANGED <<exists, tlog, doomed, unique>> /\ step' = [step EXCEPT ![w] = "print"]
    OBVIOUS
  <2> HIDE DEF MeasureOwn, At
  <2>6. QED
    BY <2>1, <2>2, <2>3, <2>4, <2>5 DEF LogInv, LogTypeOK, LogAssumption, LogsApart
<1>5. RoomMeasured'
  <2>1. Counted' \subseteq Counted /\ Due' \subseteq Due
    BY DEF LogInv, LogTypeOK, Counted, Due
  <2>2. QED
    BY <2>1, RoomKept
<1>6. Appending'
  BY DEF LogInv, LogTypeOK, Appending, EntryGiven, Logging
<1>7. LastComes'
  BY DEF LogInv, LogTypeOK, LastComes, Logging
<1>8. QED
  BY <1>1, <1>2, <1>3, <1>4, <1>5, <1>6, <1>7 DEF LogInv

LEMMA PrintOwnStep ==
  ASSUME LogAssumption, LogInv, NEW w \in Writers, PrintOwn(w)
  PROVE  LogInv'
<1> USE DEF error_log, settled, thread_log, At, PrintOwn
<1>1. LogTypeOK'
  BY DEF LogInv, LogTypeOK, LogAssumption, EntryGiven, OwnLog, Logging
<1>2. EntryGiven'
  BY DEF LogInv, LogTypeOK, EntryGiven, Logging
<1>3. OwnLog'
  BY DEF LogInv, LogTypeOK, LogAssumption, OwnLog
<1>4. LogsApart'
  BY DEF LogInv, LogTypeOK, LogAssumption, OwnLog, LogsApart
<1>5. RoomMeasured'
  <2>1. Counted' \subseteq Counted /\ Due' \subseteq Due
    BY DEF LogInv, LogTypeOK, Counted, Due
  <2>2. QED
    BY <2>1, RoomKept
<1>6. Appending'
  BY DEF LogInv, LogTypeOK, Appending, EntryGiven, Logging
<1>7. LastComes'
  BY DEF LogInv, LogTypeOK, LastComes, Logging
<1>8. QED
  BY <1>1, <1>2, <1>3, <1>4, <1>5, <1>6, <1>7 DEF LogInv

LEMMA AccessStep ==
  ASSUME LogAssumption, LogInv, NEW w \in Writers, Access(w)
  PROVE  LogInv'
<1> USE DEF error_log, settled, thread_log, At, Access
<1>1. LogTypeOK'
  BY DEF LogInv, LogTypeOK, LogAssumption, EntryGiven, OwnLog, Logging
<1>2. EntryGiven'
  BY DEF LogInv, LogTypeOK, EntryGiven, Logging
<1>3. OwnLog'
  BY DEF LogInv, LogTypeOK, LogAssumption, OwnLog
<1>4. LogsApart'
  BY DEF LogInv, LogTypeOK, LogAssumption, OwnLog, LogsApart
<1>5. RoomMeasured'
  <2>1. Counted' \subseteq Counted /\ Due' \subseteq Due
    BY DEF LogInv, LogTypeOK, Counted, Due
  <2>2. QED
    BY <2>1, RoomKept
<1>6. Appending'
  BY DEF LogInv, LogTypeOK, Appending, EntryGiven, Logging
<1>7. LastComes'
  BY DEF LogInv, LogTypeOK, LastComes, Logging
<1>8. QED
  BY <1>1, <1>2, <1>3, <1>4, <1>5, <1>6, <1>7 DEF LogInv

LEMMA OpenStep ==
  ASSUME LogAssumption, LogInv, NEW w \in Writers, Open(w)
  PROVE  LogInv'
<1> USE DEF error_log, settled, thread_log, At, Open
<1>1. LogTypeOK'
  <2>1. errors' \in Seq(1 .. entries')
    <3>1. (errors' = <<>> \/ errors' = errors) /\ entries' = entries
      OBVIOUS
    <3> HIDE DEF Open
    <3>2. \A S : <<>> \in Seq(S)
      OBVIOUS
    <3>3. CASE errors' = <<>>
      BY <3>2, <3>3
    <3>4. CASE errors' = errors
      BY <3>1, <3>4 DEF LogInv, LogTypeOK
    <3>5. QED
      BY <3>1, <3>3, <3>4
  <2>2. QED
    BY <2>1 DEF LogInv, LogTypeOK
<1>2. EntryGiven'
  BY DEF LogInv, LogTypeOK, EntryGiven, Logging
<1>3. OwnLog'
  BY DEF LogInv, LogTypeOK, LogAssumption, OwnLog
<1>4. LogsApart'
  BY DEF LogInv, LogTypeOK, LogAssumption, OwnLog, LogsApart
<1>5. RoomMeasured'
  <2>1. Counted' \subseteq Counted /\ Due' \subseteq Due
    BY DEF LogInv, LogTypeOK, Counted, Due
  <2>2. QED
    BY <2>1, RoomKept
<1>6. Appending'
  BY DEF LogInv, LogTypeOK, Appending, EntryGiven, Logging
<1>7. LastComes'
  BY DEF LogInv, LogTypeOK, LastComes, Logging
<1>8. QED
  BY <1>1, <1>2, <1>3, <1>4, <1>5, <1>6, <1>7 DEF LogInv

LEMMA MeasureStep ==
  ASSUME LogAssumption, LogInv, NEW w \in Writers, Measure(w)
  PROVE  LogInv'
<1> USE DEF error_log, settled, thread_log, At, Measure
<1>1. LogTypeOK'
  BY DEF LogInv, LogTypeOK, LogAssumption, EntryGiven, OwnLog, Logging
<1>2. EntryGiven'
  BY DEF LogInv, LogTypeOK, EntryGiven, Logging
<1>3. OwnLog'
  BY DEF LogInv, LogTypeOK, LogAssumption, OwnLog
<1>4. LogsApart'
  BY DEF LogInv, LogTypeOK, LogAssumption, OwnLog, LogsApart
<1>5. RoomMeasured'
  <2>1. CASE Len(errors) < Max
    <3>1. /\ Cardinality(Counted') \in Nat /\ Cardinality(Counted') <= Len(errors)
          /\ Cardinality(Due') \in Nat /\ Cardinality(Due') <= Cardinality(Writers)
      <4>1. errors \in Seq(1 .. entries) /\ Counted' \subseteq DOMAIN errors /\ Due' \in SUBSET Writers
        BY DEF LogInv, LogTypeOK, Counted, Due
      <4>2. QED
        BY <4>1, CountedFinite, WritersFinite
    <3>2. Max \in Nat /\ Len(errors) \in Nat /\ Cardinality(Writers) \in Nat
      BY WritersFinite DEF LogAssumption, LogInv, LogTypeOK
    <3>3. QED
      BY <2>1, <3>1, <3>2 DEF RoomMeasured
  <2>2. CASE ~(Len(errors) < Max)
    <3>1. Counted' \subseteq Counted /\ Due' \subseteq Due
      BY <2>2 DEF LogInv, LogTypeOK, Counted, Due
    <3>2. QED
      BY <3>1, RoomKept
  <2>3. QED
    BY <2>1, <2>2
<1>6. Appending'
  BY DEF LogInv, LogTypeOK, Appending, EntryGiven, Logging
<1>7. LastComes'
  BY DEF LogInv, LogTypeOK, LastComes, Logging
<1>8. QED
  BY <1>1, <1>2, <1>3, <1>4, <1>5, <1>6, <1>7 DEF LogInv

LEMMA EmptyStep ==
  ASSUME LogAssumption, LogInv, NEW w \in Writers, NEW here, NEW then, <<here, then>> \in {<<"empty", "again">>, <<"again", "write">>}, Empty(w, here, then)
  PROVE  LogInv'
<1> USE DEF error_log, settled, thread_log, At, Empty
<1>1. LogTypeOK'
  BY DEF LogInv, LogTypeOK, LogAssumption, EntryGiven, OwnLog, Logging
<1>2. EntryGiven'
  BY DEF LogInv, LogTypeOK, EntryGiven, Logging
<1>3. OwnLog'
  BY DEF LogInv, LogTypeOK, LogAssumption, OwnLog
<1>4. LogsApart'
  BY DEF LogInv, LogTypeOK, LogAssumption, OwnLog, LogsApart
<1>5. RoomMeasured'
  <2>1. Counted' = {} /\ Due' \in SUBSET Writers
    BY DEF Counted, Due
  <2>2. Cardinality(Counted') = 0
    BY <2>1, FS_EmptySet
  <2>3. Cardinality(Due') \in Nat /\ Cardinality(Due') <= Cardinality(Writers) /\ Cardinality(Writers) \in Nat
    BY <2>1, WritersFinite
  <2>4. Max \in Nat /\ Max > 0
    BY DEF LogAssumption
  <2>5. QED
    BY <2>2, <2>3, <2>4 DEF RoomMeasured
<1>6. Appending'
  BY DEF LogInv, LogTypeOK, Appending, EntryGiven, Logging
<1>7. LastComes'
  BY DEF LogInv, LogTypeOK, LastComes, Logging
<1>8. QED
  BY <1>1, <1>2, <1>3, <1>4, <1>5, <1>6, <1>7 DEF LogInv

LEMMA WriteStep ==
  ASSUME LogAssumption, LogInv, NEW w \in Writers, Write(w)
  PROVE  LogInv'
<1> USE DEF error_log, settled, thread_log, At, Write, Written, Put
<1>1. LogTypeOK'
  <2>1. entry[w] \in 1 .. entries /\ entries \in Nat
    BY DEF LogInv, LogTypeOK, EntryGiven, Logging
  <2>2. errors' \in Seq(1 .. entries') /\ written' \in Seq(1 .. entries')
    <3>1. /\ errors' = Append(errors, entry[w]) \/ (errors # <<>> /\ errors' = [errors EXCEPT ![1] = entry[w]])
          /\ written' = Append(written, entry[w]) \/ written' = <<>>
          /\ entries' = entries
      OBVIOUS
    <3>2. errors \in Seq(1 .. entries) /\ written \in Seq(1 .. entries)
      BY DEF LogInv, LogTypeOK
    <3> HIDE DEF Write, Written, Put
    <3>3. written' \in Seq(1 .. entries')
      <4>1. CASE written' = Append(written, entry[w])
        BY <2>1, <3>1, <3>2, <4>1
      <4>2. CASE written' = <<>>
        BY <4>2
      <4>3. QED
        BY <3>1, <4>1, <4>2
    <3>4. CASE errors' = Append(errors, entry[w])
      BY <2>1, <3>1, <3>2, <3>3, <3>4
    <3>5. CASE errors # <<>> /\ errors' = [errors EXCEPT ![1] = entry[w]]
      BY <2>1, <3>1, <3>2, <3>3, <3>5
    <3>6. QED
      BY <3>1, <3>4, <3>5
  <2>3. QED
    BY <2>1, <2>2 DEF LogInv, LogTypeOK
<1>2. EntryGiven'
  BY DEF LogInv, LogTypeOK, EntryGiven, Logging
<1>3. OwnLog'
  BY DEF LogInv, LogTypeOK, LogAssumption, OwnLog
<1>4. LogsApart'
  BY DEF LogInv, LogTypeOK, LogAssumption, OwnLog, LogsApart
<1>5. RoomMeasured'
  <2>1. errors \in Seq(1 .. entries) /\ w \in DOMAIN step /\ step[w] = "write" /\ Len(errors) \in Nat
    BY DEF LogInv, LogTypeOK
  <2>2. PICK j \in Nat : /\ DOMAIN errors' \subseteq DOMAIN errors \union {j}
                         /\ errors'[j] = entry[w]
                         /\ \A n \in DOMAIN errors : n # j => errors'[n] = errors[n]
    <3>1. CASE how[w] = "a" \/ errors = <<>>
      <4>1. errors' = Append(errors, entry[w])
        BY <3>1
      <4>2. QED
        BY <2>1, <4>1
    <3>2. CASE ~(how[w] = "a" \/ errors = <<>>)
      <4>1. errors' = [errors EXCEPT ![1] = entry[w]] /\ 1 \in DOMAIN errors
        BY <2>1, <3>2
      <4>2. QED
        BY <2>1, <4>1
    <3>3. QED
      BY <3>1, <3>2
  <2>3. raw' = raw /\ Due' = Due \ {w} /\ Counted' \subseteq Counted \union (IF entry[w] \in raw THEN {} ELSE {j})
    <3>1. raw' = raw /\ Due' = Due \ {w}
      BY <2>1 DEF LogInv, LogTypeOK, Due
    <3>2. \A n \in DOMAIN errors' : errors'[n] \notin raw => n \in Counted \/ (n = j /\ entry[w] \notin raw)
      BY <2>2 DEF Counted
    <3>3. QED
      BY <3>1, <3>2 DEF Counted
  <2>4. CASE entry[w] \in raw
    BY <2>3, <2>4, RoomKept
  <2>5. CASE entry[w] \notin raw
    <3>1. w \in Due /\ IsFiniteSet(Due) /\ Cardinality(Due) \in Nat
      <4>1. w \in Due /\ Due \in SUBSET Writers
        BY <2>1, <2>5 DEF Due
      <4>2. QED
        BY <4>1, WritersFinite
    <3>2. Cardinality(Due') = Cardinality(Due) - 1
      BY <2>3, <3>1, FS_RemoveElement
    <3>3. /\ Cardinality(Counted') \in Nat /\ Cardinality(Counted) \in Nat
          /\ Cardinality(Counted') <= Cardinality(Counted) + 1
      <4>1. Counted \subseteq DOMAIN errors
        BY DEF Counted
      <4>2. /\ IsFiniteSet(Counted \union {j}) /\ Cardinality(Counted) \in Nat
            /\ Cardinality(Counted \union {j}) <= Cardinality(Counted) + 1
        BY <2>1, <4>1, CountedFinite
      <4>3. Counted' \subseteq Counted \union {j}
        BY <2>3, <2>5
      <4>4. /\ Cardinality(Counted') <= Cardinality(Counted \union {j})
            /\ Cardinality(Counted') \in Nat /\ Cardinality(Counted \union {j}) \in Nat
        BY <4>2, <4>3, FS_Subset, FS_CardinalityType
      <4>5. QED
        BY <4>2, <4>4
    <3>4. Max \in Nat /\ Cardinality(Writers) \in Nat
      BY WritersFinite DEF LogAssumption
    <3>5. QED
      BY <3>1, <3>2, <3>3, <3>4 DEF LogInv, RoomMeasured
  <2>6. QED
    BY <2>4, <2>5
<1>6. Appending'
  BY DEF LogInv, LogTypeOK, Appending, EntryGiven, Logging
<1>7. LastComes'
  <2>1. errors \in Seq(1 .. entries) /\ Len(errors) \in Nat /\ last' = entry[w]
    BY DEF LogInv, LogTypeOK
  <2>2. CASE how[w] = "a" \/ errors = <<>>
    <3>1. errors' = Append(errors, entry[w])
      BY <2>2
    <3>2. Len(errors) + 1 \in DOMAIN errors' /\ errors'[Len(errors) + 1] = entry[w]
      BY <2>1, <3>1
    <3>3. QED
      BY <2>1, <3>2 DEF LastComes
  <2>3. CASE ~(how[w] = "a" \/ errors = <<>>)
    <3>1. errors' = [errors EXCEPT ![1] = entry[w]] /\ 1 \in DOMAIN errors
      BY <2>1, <2>3
    <3>2. 1 \in DOMAIN errors' /\ errors'[1] = entry[w]
      BY <2>1, <3>1
    <3>3. QED
      BY <2>1, <3>2 DEF LastComes
  <2>4. QED
    BY <2>2, <2>3
<1>8. QED
  BY <1>1, <1>2, <1>3, <1>4, <1>5, <1>6, <1>7 DEF LogInv

LEMMA RawStep ==
  ASSUME LogAssumption, LogInv, NEW w \in Writers, Raw(w)
  PROVE  LogInv'
<1> USE DEF error_log, settled, thread_log, At, Raw
<1>1. LogTypeOK'
  BY DEF LogInv, LogTypeOK, LogAssumption, EntryGiven, OwnLog, Logging
<1>2. EntryGiven'
  BY DEF LogInv, LogTypeOK, EntryGiven, Logging
<1>3. OwnLog'
  BY DEF LogInv, LogTypeOK, LogAssumption, OwnLog
<1>4. LogsApart'
  BY DEF LogInv, LogTypeOK, LogAssumption, OwnLog, LogsApart
<1>5. RoomMeasured'
  <2>1. Counted' \subseteq Counted /\ Due' \subseteq Due
    BY DEF LogInv, LogTypeOK, Counted, Due
  <2>2. QED
    BY <2>1, RoomKept
<1>6. Appending'
  BY DEF LogInv, LogTypeOK, Appending, EntryGiven, Logging
<1>7. LastComes'
  BY DEF LogInv, LogTypeOK, LastComes, Logging
<1>8. QED
  BY <1>1, <1>2, <1>3, <1>4, <1>5, <1>6, <1>7 DEF LogInv

LEMMA RawLeftStep ==
  ASSUME LogAssumption, LogInv, NEW w \in Writers, RawLeft(w)
  PROVE  LogInv'
<1> USE DEF error_log, settled, thread_log, At, RawLeft
<1>1. LogTypeOK'
  BY DEF LogInv, LogTypeOK, LogAssumption, EntryGiven, OwnLog, Logging
<1>2. EntryGiven'
  BY DEF LogInv, LogTypeOK, EntryGiven, Logging
<1>3. OwnLog'
  BY DEF LogInv, LogTypeOK, LogAssumption, OwnLog
<1>4. LogsApart'
  BY DEF LogInv, LogTypeOK, LogAssumption, OwnLog, LogsApart
<1>5. RoomMeasured'
  <2>1. Counted' \subseteq Counted /\ Due' \subseteq Due
    BY DEF LogInv, LogTypeOK, Counted, Due
  <2>2. QED
    BY <2>1, RoomKept
<1>6. Appending'
  BY DEF LogInv, LogTypeOK, Appending, EntryGiven, Logging
<1>7. LastComes'
  BY DEF LogInv, LogTypeOK, LastComes, Logging
<1>8. QED
  BY <1>1, <1>2, <1>3, <1>4, <1>5, <1>6, <1>7 DEF LogInv

LEMMA LogStep ==
  ASSUME LogAssumption, LogInv, [LogNext]_log_vars
  PROVE  LogInv'
<1>1. CASE UNCHANGED log_vars
  <2>1. LogTypeOK' /\ EntryGiven' /\ OwnLog' /\ LogsApart' /\ Appending' /\ LastComes'
    BY <1>1 DEF log_vars, LogInv, LogTypeOK, EntryGiven, OwnLog, LogsApart, Appending, LastComes
  <2>2. Counted' \subseteq Counted /\ Due' \subseteq Due
    BY <1>1 DEF log_vars, Counted, Due
  <2>3. QED
    BY <2>1, <2>2, RoomKept DEF LogInv
<1>2. CASE LogNext
  <2>1. PICK w \in Writers :
            \/ \E p \in Paths : w \in SessionThreads /\ LogSpecific(w, p)
            \/ ThreadExit(w) \/ Destroy(w)
            \/ \E severe \in BOOLEAN : Call(w, severe)
            \/ MeasureOwn(w) \/ PrintOwn(w)
            \/ Access(w) \/ Open(w) \/ Measure(w)
            \/ Empty(w, "empty", "again") \/ Empty(w, "again", "write")
            \/ Write(w)
            \/ Raw(w) \/ RawLeft(w)
    BY <1>2 DEF LogNext
  <2>2. CASE \E p \in Paths : w \in SessionThreads /\ LogSpecific(w, p)
    BY <2>2, LogSpecificStep
  <2>3. CASE \E severe \in BOOLEAN : Call(w, severe)
    BY <2>3, CallStep
  <2>4. CASE ThreadExit(w) \/ Destroy(w) \/ MeasureOwn(w) \/ PrintOwn(w)
    BY <2>4, ThreadExitStep, DestroyStep, MeasureOwnStep, PrintOwnStep
  <2>5. CASE Access(w) \/ Open(w) \/ Measure(w) \/ Write(w) \/ Raw(w) \/ RawLeft(w)
    BY <2>5, AccessStep, OpenStep, MeasureStep, WriteStep, RawStep, RawLeftStep
  <2>6. CASE Empty(w, "empty", "again") \/ Empty(w, "again", "write")
    BY <2>6, EmptyStep
  <2>7. QED
    BY <2>1, <2>2, <2>3, <2>4, <2>5, <2>6
<1>3. QED
  BY <1>1, <1>2

\* Whatever _log and debug_raw of any number of threads do between each other's
\* steps: who writes to error.log has measured it, no more of them at a time
\* than there are threads, and who has emptied it is about to write to it.
THEOREM LogInvariant == LogSpec => []LogInv
<1>1. LogInit => LogInv
  BY LogInit_, LogAssumption
<1>2. LogInv /\ [LogNext]_log_vars => LogInv'
  BY LogStep, LogAssumption
<1>3. QED
  BY <1>1, <1>2, PTL DEF LogSpec

\* Types are kept (log.c).
THEOREM LogTypes == LogSpec => []LogTypeOK
<1>1. LogInv => LogTypeOK
  BY DEF LogInv
<1>2. QED
  BY <1>1, LogInvariant, PTL

\* However many threads log at a time, error.log outgrows its limit by fewer
\* entries than there are threads, and a thread never loses its own log
\* (log_getfsize, pthread_specific_fsize).
THEOREM MeasuredHolds == LogSpec => []MeasuredOK
<1>1. ASSUME LogInv PROVE MeasuredOK
  <2>1. errors \in Seq(1 .. entries) /\ Counted \subseteq DOMAIN errors /\ Due \in SUBSET Writers
    BY <1>1 DEF LogInv, LogTypeOK, Counted, Due
  <2>2. /\ Cardinality(Counted) \in Nat /\ Cardinality(Due) \in Nat
        /\ Max \in Nat /\ Cardinality(Writers) \in Nat
    BY <2>1, CountedFinite, WritersFinite, LogAssumption DEF LogAssumption
  <2>3. Cardinality(Counted) < Max + Cardinality(Writers)
    BY <1>1, <2>2 DEF LogInv, RoomMeasured
  <2>4. unique => ~crashed /\ \A p \in exists : size[p] <= Max
    BY <1>1 DEF LogInv, LogsApart
  <2>5. QED
    BY <2>3, <2>4 DEF MeasuredOK, Bounded, ThreadLogThere, Counted
<1>2. QED
  BY <1>1, LogInvariant, PTL

\* What is logged stays until the file is emptied for its size, and the last
\* entry is there even then (_log: access, fopen, log_getfsize).
THEOREM EntriesHold == LogSpec => []EntriesKept
<1>1. LogInv => EntriesKept
  BY DEF LogInv, Appending, LastComes, Logging, EntriesKept, KeptUnlessRotated, LastKept
<1>2. QED
  BY <1>1, LogInvariant, PTL

-----------------------------------------------------------------------------
(****************************************************************************)
(* The descriptors (Descriptors), for any number of sessions, files and    *)
(* numbers.                                                                *)
(****************************************************************************)

(***************************************************************************)
(* Accounted made inductive.  A session dials again only when its last     *)
(* socket is closed, or after a re-admission that failed: so only such     *)
(* a socket is left behind by Dial.                                        *)
(***************************************************************************)
Trail(s) ==
    /\ failed[s] => booted[s]
    /\ at[s] = "new" => sock[s] = 0 /\ ~booted[s]
    /\ at[s] \in {"serve", "closed", "retry"} => booted[s]
    /\ at[s] = "closed" => Behind(s) # s
    /\ at[s] \in {"retry", "drop"} /\ Behind(s) = s => failed[s]
    /\ at[s] \in {"new", "retry", "select", "cut", "cutting", "drop"} /\ connection[s]
           => failed[s]

(***************************************************************************)
(* OwnSocket made inductive.  While nobody opens anything between the two  *)
(* closes of a number, the second close finds it closed or its own.        *)
(***************************************************************************)
Holds(s) ==
    /\ at[s] \in {"select", "cut", "cutting", "admit", "serve", "ending"} => Behind(s) = s
    /\ at[s] = "exited" => sock[s] = 0 \/ Behind(s) = s
    /\ at[s] \in {"free", "freeing"} \/ (at[s] = "drop" /\ ~booted[s])
           => Behind(s) \in {s, Nobody}

FilesHeld == \A f \in Openers : file[f] # 0 => fd[file[f]] = f

DInv ==
    /\ DescTypeOK
    /\ Accounted
    /\ \A s \in Sessions : Trail(s)
    /\ apart => FilesHeld /\ \A s \in Sessions : Holds(s)

USE DEF Go

LEMMA DInit == DescInit => DInv
BY DescAssumption DEF DescInit, DInv, DescTypeOK, Accounted, Trail, Holds, FilesHeld, Places

LEMMA ClosedType ==
  ASSUME NEW n, Closed(n), left \subseteq Numbers,
         fd \in [Numbers -> Sessions \union Openers \union {Nobody}]
  PROVE  /\ fd' \in [Numbers -> Sessions \union Openers \union {Nobody}]
         /\ left' \subseteq Numbers
<1>1. \A m \in Numbers : fd[m] \in Sessions \union Openers \union {Nobody}
  OBVIOUS
<1>2. fd' = [m \in Numbers |-> IF m = n THEN Nobody ELSE fd[m]]
  BY DEF Closed
<1>3. left' \subseteq left
  BY DEF Closed
<1>4. QED
  BY <1>1, <1>2, <1>3

LEMMA DescTypeStep == DescTypeOK /\ [DescNext]_desc_vars => DescTypeOK'
<1> SUFFICES ASSUME DescTypeOK, [DescNext]_desc_vars PROVE DescTypeOK'
  OBVIOUS
<1> USE DescAssumption DEF DescTypeOK, Places, Doomed
<1>1. ASSUME NEW s \in Sessions, Dial(s) PROVE DescTypeOK'
  <2>1. PICK n \in Numbers :
          fd' = [fd EXCEPT ![n] = s] /\ sock' = [sock EXCEPT ![s] = n]
    BY <1>1 DEF Dial, Opened
  <2>2. left' \subseteq Numbers
    <3>1. left' = left \/ (left' = left \union {sock[s]} /\ sock[s] # 0)
      BY <1>1 DEF Dial
    <3>2. sock[s] \in Numbers \union {0} /\ left \subseteq Numbers
      OBVIOUS
    <3>3. QED
      BY <3>1, <3>2
  <2>3. dials' \in [Sessions -> Nat]
    BY <1>1 DEF Dial
  <2>4. QED
    BY <1>1, <2>1, <2>2, <2>3 DEF Dial
<1>2. ASSUME NEW s \in Sessions, DialFails(s) PROVE DescTypeOK'
  BY <1>2 DEF DialFails
<1>3. ASSUME NEW s \in Sessions, Selected(s) \/ SelectFails(s) \/ SelectFailed(s)
      PROVE  DescTypeOK'
  BY <1>3 DEF Selected, SelectFails, SelectFailed
<1>4. ASSUME NEW s \in Sessions, Admitted(s) \/ NotAdmitted(s) PROVE DescTypeOK'
  BY <1>4 DEF Admitted, NotAdmitted
<1>5. ASSUME NEW s \in Sessions, CloseSocket(s) \/ ResetFields(s) PROVE DescTypeOK'
  <2>1. CASE CloseSocket(s)
    <3>1. Closed(sock[s]) /\ at' = [at EXCEPT ![s] = "closed"]
      BY <2>1 DEF CloseSocket
    <3>2. QED
      BY <2>1, <3>1, ClosedType DEF CloseSocket
  <2>2. CASE ResetFields(s)
    BY <2>2 DEF ResetFields
  <2>3. QED
    BY <1>5, <2>1, <2>2
<1>6. ASSUME NEW s \in Sessions, Exit(s) \/ DryRun(s) PROVE DescTypeOK'
  BY <1>6 DEF Exit, DryRun
<1>7. ASSUME NEW s \in Sessions, SockClose(s) PROVE DescTypeOK'
  <2>1. /\ \E place \in Places : at' = [at EXCEPT ![s] = place]
        /\ (fd' = fd /\ left' = left) \/ Closed(sock[s])
        /\ sock' = sock /\ connection' = connection /\ dials' = dials /\ booted' = booted
        /\ failed' = failed /\ file' = file /\ apart' = apart
    <3>1. CASE \E here, socket, then \in Places :
                 Look(s, here, socket, then) \/ Shut(s, here, then)
      BY <3>1 DEF Look, Shut
    <3>2. QED
      BY <1>7, <3>1 DEF SockClose
  <2>2. fd' \in [Numbers -> Sessions \union Openers \union {Nobody}] /\ left' \subseteq Numbers
    BY <2>1, ClosedType
  <2>3. QED
    BY <2>1, <2>2
<1>8. ASSUME NEW f \in Openers, OpenOther(f) \/ CloseOther(f) PROVE DescTypeOK'
  <2>1. CASE OpenOther(f)
    BY <2>1 DEF OpenOther, Opened
  <2>2. CASE CloseOther(f)
    BY <2>2 DEF CloseOther, Closed
  <2>3. QED
    BY <1>8, <2>1, <2>2
<1>9. QED
  BY <1>1, <1>2, <1>3, <1>4, <1>5, <1>6, <1>7, <1>8 DEF DescNext, desc_vars

-----------------------------------------------------------------------------
(***************************************************************************)
(* Steps that open and close nothing.                                      *)
(***************************************************************************)

LEMMA QuietStep ==
  ASSUME DInv, DescTypeOK', NEW s \in Sessions,
         fd' = fd, left' = left, file' = file, apart' = apart, sock' = sock,
         \A t \in Sessions : t # s =>
            /\ at'[t] = at[t] /\ connection'[t] = connection[t]
            /\ booted'[t] = booted[t] /\ failed'[t] = failed[t],
         Trail(s)', apart => Holds(s)',
         failed[s] => failed'[s],
         at'[s] = "gone" => Behind(s) # s
  PROVE  DInv'
<1>1. \A t \in Sessions : Behind(t)' = Behind(t)
  BY DEF Behind
<1>2. \A t \in Sessions : t # s => Trail(t)'
  BY <1>1 DEF DInv, Trail
<1>3. \A t \in Sessions : t # s => (apart => Holds(t)')
  BY <1>1 DEF DInv, Holds
<1>4. Accounted'
  <2>1. SUFFICES ASSUME NEW n \in Numbers, fd[n] \in Sessions
                 PROVE  \/ sock[fd[n]] = n /\ at'[fd[n]] # "gone"
                        \/ n \in left /\ failed'[fd[n]]
    BY DEF Accounted
  <2>2. \/ sock[fd[n]] = n /\ at[fd[n]] # "gone"
        \/ n \in left /\ failed[fd[n]]
    BY <2>1 DEF DInv, Accounted
  <2>3. CASE fd[n] # s
    BY <2>1, <2>2, <2>3
  <2>4. CASE fd[n] = s
    BY <2>2, <2>4, DescAssumption DEF Behind
  <2>5. QED
    BY <2>3, <2>4
<1>5. apart => FilesHeld'
  BY DEF DInv, FilesHeld
<1>6. QED
  BY <1>2, <1>3, <1>4, <1>5 DEF DInv

LEMMA QuietSteps ==
  ASSUME DInv, DescTypeOK', NEW s \in Sessions
  PROVE  /\ DialFails(s) \/ Selected(s) \/ SelectFails(s) \/ SelectFailed(s) => DInv'
         /\ Admitted(s) \/ NotAdmitted(s) \/ ResetFields(s) => DInv'
         /\ Exit(s) \/ DryRun(s) => DInv'
<1> USE DescAssumption DEF DInv, DescTypeOK, Behind
<1>1. Trail(s) /\ (apart => Holds(s))
  OBVIOUS
<1>2. ASSUME DialFails(s) PROVE DInv'
  <2>1. Trail(s)' /\ (apart => Holds(s)')
    BY <1>1, <1>2 DEF DialFails, Trail, Holds
  <2>2. QED
    BY <1>2, <2>1, QuietStep DEF DialFails
<1>3. ASSUME Selected(s) PROVE DInv'
  <2>1. Trail(s)' /\ (apart => Holds(s)')
    BY <1>1, <1>3 DEF Selected, Trail, Holds
  <2>2. QED
    BY <1>3, <2>1, QuietStep DEF Selected
<1>4. ASSUME SelectFails(s) PROVE DInv'
  <2>1. Trail(s)' /\ (apart => Holds(s)')
    BY <1>1, <1>4 DEF SelectFails, Trail, Holds
  <2>2. QED
    BY <1>4, <2>1, QuietStep DEF SelectFails
<1>5. ASSUME SelectFailed(s) PROVE DInv'
  <2>1. Trail(s)' /\ (apart => Holds(s)')
    BY <1>1, <1>5 DEF SelectFailed, Trail, Holds
  <2>2. QED
    BY <1>5, <2>1, QuietStep DEF SelectFailed
<1>6. ASSUME Admitted(s) PROVE DInv'
  <2>1. Trail(s)' /\ (apart => Holds(s)')
    BY <1>1, <1>6 DEF Admitted, Trail, Holds
  <2>2. QED
    BY <1>6, <2>1, QuietStep DEF Admitted
<1>7. ASSUME NotAdmitted(s) PROVE DInv'
  <2>1. Trail(s)' /\ (apart => Holds(s)')
    BY <1>1, <1>7 DEF NotAdmitted, Trail, Holds
  <2>2. failed[s] => failed'[s]
    BY <1>1, <1>7 DEF NotAdmitted, Trail
  <2>3. QED
    BY <1>7, <2>1, <2>2, QuietStep DEF NotAdmitted
<1>8. ASSUME ResetFields(s) PROVE DInv'
  <2>1. Trail(s)' /\ (apart => Holds(s)')
    BY <1>1, <1>8 DEF ResetFields, Trail, Holds
  <2>2. QED
    BY <1>8, <2>1, QuietStep DEF ResetFields
<1>9. ASSUME Exit(s) PROVE DInv'
  <2>1. Trail(s)' /\ (apart => Holds(s)')
    BY <1>1, <1>9 DEF Exit, Trail, Holds
  <2>2. QED
    BY <1>9, <2>1, QuietStep DEF Exit
<1>10. ASSUME DryRun(s) PROVE DInv'
  <2>1. Trail(s)' /\ (apart => Holds(s)')
    BY <1>1, <1>10 DEF DryRun, Trail, Holds
  <2>2. QED
    BY <1>10, <2>1, QuietStep DEF DryRun
<1>11. QED
  BY <1>2, <1>3, <1>4, <1>5, <1>6, <1>7, <1>8, <1>9, <1>10

LEMMA LookSteps ==
  ASSUME DInv, DescTypeOK', NEW s \in Sessions
  PROVE  /\ Look(s, "cut", "cutting", "drop") => DInv'
         /\ Look(s, "exited", "ending", "free") => DInv'
         /\ Look(s, "free", "freeing", "gone") => DInv'
<1> USE DescAssumption DEF DInv, DescTypeOK
<1>1. Trail(s) /\ (apart => Holds(s))
  OBVIOUS
<1>2. Behind(s) \in Sessions => sock[s] # 0
  BY DEF Behind
<1>3. ASSUME Look(s, "cut", "cutting", "drop") PROVE DInv'
  <2>1. /\ at[s] = "cut" /\ at'[s] \in {"cutting", "drop"}
        /\ at'[s] = "drop" => Behind(s) \notin Sessions
    BY <1>2, <1>3 DEF Look
  <2>2. Trail(s)' /\ (apart => Holds(s)')
    BY <1>1, <1>3, <2>1 DEF Look, Trail, Holds, Behind
  <2>3. QED
    BY <1>3, <2>1, <2>2, QuietStep DEF Look
<1>4. ASSUME Look(s, "exited", "ending", "free") PROVE DInv'
  <2>1. /\ at[s] = "exited" /\ at'[s] \in {"ending", "free"}
        /\ at'[s] = "ending" => sock[s] # 0
        /\ at'[s] = "free" => Behind(s) \notin Sessions
    BY <1>2, <1>4 DEF Look
  <2>2. sock[s] = 0 => Behind(s) = Nobody
    BY DEF Behind
  <2>3. Trail(s)' /\ (apart => Holds(s)')
    BY <1>1, <1>4, <2>1, <2>2 DEF Look, Trail, Holds, Behind
  <2>4. QED
    BY <1>4, <2>1, <2>3, QuietStep DEF Look
<1>5. ASSUME Look(s, "free", "freeing", "gone") PROVE DInv'
  <2>1. /\ at[s] = "free" /\ at'[s] \in {"freeing", "gone"}
        /\ at'[s] = "gone" => Behind(s) \notin Sessions
    BY <1>2, <1>5 DEF Look
  <2>2. Trail(s)' /\ (apart => Holds(s)')
    BY <1>1, <1>5, <2>1 DEF Look, Trail, Holds, Behind
  <2>3. QED
    BY <1>5, <2>1, <2>2, QuietStep DEF Look
<1>6. QED
  BY <1>3, <1>4, <1>5

-----------------------------------------------------------------------------
(***************************************************************************)
(* close takes the number from whoever has it: from nobody but the session *)
(* itself, while nothing is opened between two closes.                     *)
(***************************************************************************)

LEMMA CloseStep ==
  ASSUME DInv, DescTypeOK', NEW s \in Sessions, Closed(sock[s]),
         file' = file, apart' = apart, sock' = sock, connection' = connection,
         booted' = booted, failed' = failed,
         \A t \in Sessions : t # s => at'[t] = at[t],
         at[s] # "new", at'[s] \in {"drop", "free", "gone", "closed"},
         at'[s] = "drop" => at[s] \in {"cut", "cutting"},
         at'[s] = "closed" => booted[s],
         apart => Behind(s) \in {s, Nobody}
  PROVE  DInv'
<1> USE DescAssumption DEF DInv, DescTypeOK
<1>1. /\ \A n \in Numbers : fd'[n] = IF n = sock[s] THEN Nobody ELSE fd[n]
      /\ left' = left \ {sock[s]}
  BY DEF Closed
<1>2. Behind(s)' = Nobody
  <2>1. sock'[s] = sock[s] /\ sock[s] \in Numbers \union {0}
    OBVIOUS
  <2>2. QED
    BY <1>1, <2>1 DEF Behind
<1>3. ASSUME NEW t \in Sessions PROVE Behind(t)' \in {Behind(t), Nobody}
  <2>1. sock'[t] = sock[t] /\ sock[t] \in Numbers \union {0}
    OBVIOUS
  <2>2. QED
    BY <1>1, <2>1 DEF Behind
<1>4. ASSUME apart, NEW t \in Sessions, t # s, Behind(t) = t PROVE Behind(t)' = t
  <2>1. sock[t] \in Numbers /\ fd[sock[t]] = t
    BY <1>4 DEF Behind
  <2>2. sock[t] # sock[s]
    BY <1>4, <2>1 DEF Behind
  <2>3. QED
    BY <1>1, <2>1, <2>2 DEF Behind
<1>5. Trail(s)'
  BY <1>2 DEF Trail
<1>6. ASSUME NEW t \in Sessions, t # s PROVE Trail(t)'
  BY <1>3, <1>6 DEF Trail
<1>7. apart => Holds(s)'
  BY <1>2 DEF Holds
<1>8. ASSUME NEW t \in Sessions, t # s, apart PROVE Holds(t)'
  BY <1>3, <1>4, <1>8 DEF Holds
<1>9. Accounted'
  BY <1>1 DEF Accounted
<1>10. apart => FilesHeld'
  <2>1. SUFFICES ASSUME apart, NEW f \in Openers, file[f] # 0 PROVE fd'[file[f]] = f
    BY DEF FilesHeld
  <2>2. file[f] \in Numbers /\ fd[file[f]] = f
    BY <2>1 DEF FilesHeld
  <2>3. file[f] # sock[s]
    BY <2>1, <2>2 DEF Behind
  <2>4. QED
    BY <1>1, <2>2, <2>3
<1>11. QED
  BY <1>5, <1>6, <1>7, <1>8, <1>9, <1>10

LEMMA CloseSteps ==
  ASSUME DInv, DescTypeOK', NEW s \in Sessions
  PROVE  /\ CloseSocket(s) => DInv'
         /\ Shut(s, "cutting", "drop") => DInv'
         /\ Shut(s, "ending", "free") => DInv'
         /\ Shut(s, "freeing", "gone") => DInv'
<1> USE DescAssumption DEF DInv, DescTypeOK
<1>1. Trail(s) /\ (apart => Holds(s))
  OBVIOUS
<1>2. ASSUME CloseSocket(s) PROVE DInv'
  BY <1>1, <1>2, CloseStep DEF CloseSocket, Holds, Trail
<1>3. ASSUME Shut(s, "cutting", "drop") PROVE DInv'
  <2>1. CASE Closed(sock[s])
    BY <1>1, <1>3, <2>1, CloseStep DEF Shut, Holds
  <2>2. CASE Behind(s) \in Openers /\ UNCHANGED <<fd, left>>
    <3>1. Trail(s)' /\ (apart => Holds(s)')
      BY <1>1, <1>3, <2>2 DEF Shut, Trail, Holds, Behind
    <3>2. QED
      BY <1>3, <2>2, <3>1, QuietStep DEF Shut
  <2>3. QED
    BY <1>3, <2>1, <2>2 DEF Shut
<1>4. ASSUME Shut(s, "ending", "free") PROVE DInv'
  <2>1. CASE Closed(sock[s])
    BY <1>1, <1>4, <2>1, CloseStep DEF Shut, Holds
  <2>2. CASE Behind(s) \in Openers /\ UNCHANGED <<fd, left>>
    <3>1. Trail(s)' /\ (apart => Holds(s)')
      BY <1>1, <1>4, <2>2 DEF Shut, Trail, Holds, Behind
    <3>2. QED
      BY <1>4, <2>2, <3>1, QuietStep DEF Shut
  <2>3. QED
    BY <1>4, <2>1, <2>2 DEF Shut
<1>5. ASSUME Shut(s, "freeing", "gone") PROVE DInv'
  <2>1. CASE Closed(sock[s])
    BY <1>1, <1>5, <2>1, CloseStep DEF Shut, Holds
  <2>2. CASE Behind(s) \in Openers /\ UNCHANGED <<fd, left>>
    <3>1. Trail(s)' /\ (apart => Holds(s)')
      BY <1>1, <1>5, <2>2 DEF Shut, Trail, Holds, Behind
    <3>2. QED
      BY <1>5, <2>2, <3>1, QuietStep DEF Shut
  <2>3. QED
    BY <1>5, <2>1, <2>2 DEF Shut
<1>6. QED
  BY <1>2, <1>3, <1>4, <1>5

\* The same for a file.
LEMMA CloseOtherStep ==
  ASSUME DInv, DescTypeOK', NEW f \in Openers, CloseOther(f)
  PROVE  DInv'
<1> USE DescAssumption DEF DInv, DescTypeOK
<1>1. /\ \A n \in Numbers : fd'[n] = IF n = file[f] THEN Nobody ELSE fd[n]
      /\ left' = left \ {file[f]} /\ file' = [file EXCEPT ![f] = 0]
      /\ at' = at /\ sock' = sock /\ connection' = connection /\ booted' = booted
      /\ failed' = failed /\ apart' = apart
  BY DEF CloseOther, Closed
<1>2. \A t \in Sessions : Behind(t)' \in {Behind(t), Nobody}
  BY <1>1 DEF Behind
<1>3. apart => fd[file[f]] = f
  BY DEF CloseOther, FilesHeld
<1>4. ASSUME apart, NEW t \in Sessions, Behind(t) = t PROVE Behind(t)' = t
  <2>1. sock[t] \in Numbers /\ fd[sock[t]] = t
    BY <1>4 DEF Behind
  <2>2. sock[t] # file[f]
    BY <1>3, <1>4, <2>1
  <2>3. QED
    BY <1>1, <2>1, <2>2 DEF Behind
<1>5. ASSUME NEW t \in Sessions PROVE Trail(t)'
  BY <1>1, <1>2, <1>5 DEF Trail
<1>6. ASSUME NEW t \in Sessions, apart PROVE Holds(t)'
  BY <1>1, <1>2, <1>4, <1>6 DEF Holds
<1>7. Accounted'
  BY <1>1 DEF Accounted
<1>8. apart => FilesHeld'
  BY <1>1, <1>3 DEF FilesHeld
<1>9. QED
  BY <1>1, <1>5, <1>6, <1>7, <1>8

-----------------------------------------------------------------------------
(***************************************************************************)
(* A number that is opened was nobody's, and if it matters nobody is about *)
(* to close it.                                                            *)
(***************************************************************************)

LEMMA OpenOtherStep ==
  ASSUME DInv, DescTypeOK', NEW f \in Openers, OpenOther(f)
  PROVE  DInv'
<1> USE DescAssumption DEF DInv, DescTypeOK
<1>1. PICK n \in Numbers : Opened(f, n) /\ file' = [file EXCEPT ![f] = n]
  BY DEF OpenOther
<1>2. /\ fd[n] = Nobody /\ fd' = [fd EXCEPT ![n] = f] /\ left' = left
      /\ at' = at /\ sock' = sock /\ connection' = connection /\ booted' = booted
      /\ failed' = failed /\ apart' = apart
      /\ apart => \A t \in Sessions : at[t] \notin Doomed
  BY <1>1 DEF OpenOther, Opened, MayOpen
<1>3. \A t \in Sessions :
        /\ Behind(t) # Nobody => Behind(t)' = Behind(t)
        /\ Behind(t)' # t \/ Behind(t) = t
  BY <1>2 DEF Behind
<1>4. ASSUME NEW t \in Sessions PROVE Trail(t)'
  BY <1>2, <1>3, <1>4 DEF Trail
<1>5. ASSUME NEW t \in Sessions, apart PROVE Holds(t)'
  BY <1>2, <1>3, <1>5 DEF Holds, Doomed
<1>6. Accounted'
  BY <1>2 DEF Accounted
<1>7. apart => FilesHeld'
  BY <1>1, <1>2 DEF FilesHeld
<1>8. QED
  BY <1>2, <1>4, <1>5, <1>6, <1>7

LEMMA DialStep ==
  ASSUME DInv, DescTypeOK', NEW s \in Sessions, Dial(s)
  PROVE  DInv'
<1> USE DescAssumption DEF DInv, DescTypeOK
<1>1. PICK n \in Numbers : Opened(s, n) /\ sock' = [sock EXCEPT ![s] = n]
  BY DEF Dial
<1>2. /\ fd[n] = Nobody /\ fd' = [fd EXCEPT ![n] = s]
      /\ left' = IF sock[s] # 0 /\ fd[sock[s]] = s THEN left \union {sock[s]} ELSE left
      /\ at[s] \in {"new", "retry"} /\ at' = [at EXCEPT ![s] = "select"]
      /\ connection' = connection /\ booted' = booted
      /\ failed' = failed /\ apart' = apart /\ file' = file
      /\ apart => \A t \in Sessions : at[t] \notin Doomed
  BY <1>1 DEF Dial, Opened, MayOpen
<1>3. \A t \in Sessions : t # s =>
        /\ Behind(t) # Nobody => Behind(t)' = Behind(t)
        /\ Behind(t)' # t \/ Behind(t) = t
  BY <1>1, <1>2 DEF Behind
<1>4. Behind(s)' = s
  BY <1>1, <1>2 DEF Behind
<1>5. Trail(s)'
  BY <1>2 DEF Trail
<1>6. ASSUME NEW t \in Sessions, t # s PROVE Trail(t)'
  BY <1>1, <1>2, <1>3, <1>6 DEF Trail
<1>7. apart => Holds(s)'
  BY <1>2, <1>4 DEF Holds
<1>8. ASSUME NEW t \in Sessions, t # s, apart PROVE Holds(t)'
  BY <1>1, <1>2, <1>3, <1>8 DEF Holds, Doomed
<1>9. sock[s] # 0 /\ fd[sock[s]] = s => failed[s]
  BY <1>2 DEF Trail, Behind
<1>10. Accounted'
  <2>1. SUFFICES ASSUME NEW m \in Numbers, fd'[m] \in Sessions
                 PROVE  \/ sock'[fd'[m]] = m /\ at'[fd'[m]] # "gone"
                        \/ m \in left' /\ failed[fd'[m]]
    BY <1>2 DEF Accounted
  <2>2. CASE m = n
    BY <1>1, <1>2, <2>2
  <2>3. CASE m # n
    <3>1. /\ fd'[m] = fd[m]
          /\ \/ sock[fd[m]] = m /\ at[fd[m]] # "gone"
             \/ m \in left /\ failed[fd[m]]
      BY <1>2, <2>1, <2>3 DEF Accounted
    <3>2. CASE fd[m] = s /\ sock[s] = m
      BY <1>2, <1>9, <3>1, <3>2
    <3>3. CASE ~(fd[m] = s /\ sock[s] = m)
      BY <1>1, <1>2, <2>1, <3>1, <3>3
    <3>4. QED
      BY <3>2, <3>3
  <2>4. QED
    BY <2>2, <2>3
<1>11. apart => FilesHeld'
  BY <1>2 DEF FilesHeld
<1>12. QED
  BY <1>2, <1>5, <1>6, <1>7, <1>8, <1>10, <1>11

-----------------------------------------------------------------------------

LEMMA DStep == DInv /\ [DescNext]_desc_vars => DInv'
<1> SUFFICES ASSUME DInv, [DescNext]_desc_vars PROVE DInv'
  OBVIOUS
<1>1. DescTypeOK'
  BY DescTypeStep DEF DInv
<1>2. ASSUME UNCHANGED desc_vars PROVE DInv'
  BY <1>2 DEF desc_vars, DInv, DescTypeOK, Accounted, Trail, Holds, FilesHeld, Behind
<1>3. ASSUME NEW s \in Sessions, SockClose(s) PROVE DInv'
  BY <1>1, <1>3, LookSteps, CloseSteps DEF SockClose
<1>4. QED
  BY <1>1, <1>2, <1>3, QuietSteps, CloseSteps, CloseOtherStep, OpenOtherStep, DialStep
     DEF DescNext

\* However ps_admctl, ps_statemachine and ps_free of any number of sessions
\* interleave: every open socket is one a session works with or one that a
\* failed re-admission has left, and behind a number a session closes again
\* is nobody or, if a number was given out between, its new owner.
THEOREM DescInvariant == DescSpec => []DInv
<1>1. QED
  BY DInit, DStep, PTL DEF DescSpec

\* Whatever closes a number under its owner, the open sockets that no session
\* works with are those of re-admissions that failed after the connect
\* (sock_connect, ps_statemachine, ps_free).
THEOREM AccountedHolds == DescSpec => []Accounted
<1>1. DInv => Accounted
  BY DEF DInv
<1>2. QED
  BY <1>1, DescInvariant, PTL

\* Closing a number twice takes it from nobody, and whoever is connected or has
\* a file open has its own, if nothing is opened between the two closes
\* (sock_close, gctl_lcm_reset, ps_free).
THEOREM OwnSocketHolds == DescSpec => []OwnSocket
<1>1. DInv => OwnSocket
  <2> SUFFICES ASSUME DInv PROVE OwnSocket
    OBVIOUS
  <2>1. OwnDescriptor
    BY DEF DInv, OwnDescriptor, FilesHeld, Holds
  <2>2. ConnectionTrue
    <3>1. SUFFICES ASSUME NEW s \in Sessions, connection[s], apart
                   PROVE  \/ Behind(s) = s
                          \/ at[s] \in {"closed", "exited", "ending", "gone"} \union Doomed
                          \/ failed[s]
      BY DEF ConnectionTrue
    <3>2. at[s] \in Places /\ Trail(s) /\ Holds(s)
      BY <3>1 DEF DInv, DescTypeOK
    <3>3. QED
      BY <3>1, <3>2 DEF Trail, Holds, Places, Doomed
  <2>3. QED
    BY <2>1, <2>2 DEF OwnSocket
<1>2. QED
  BY <1>1, DescInvariant, PTL
===============================================================================
