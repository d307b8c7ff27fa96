----------------------------- MODULE CommandLine -----------------------------
(***************************************************************************)
(* From the argument vector to the parsed options: parse_argv and          *)
(* parse_int of src/tools/bbench.cpp, and parse_event_list of              *)
(* src/src/events.hpp, which main calls on the argument of -e.             *)
(*                                                                         *)
(* An argument is a word.  What the parsers see in a word is given by      *)
(* constants: whether it starts with a dash (and is not "-" alone), its    *)
(* first character, the sign and the digits it starts with after blanks,   *)
(* and the names between its commas.                                       *)
(***************************************************************************)
EXTENDS Integers, Filters

CONSTANTS
    Words,          \* arguments that may be given
    Dashed,         \* the words that start with a dash and are longer
    First,          \* First[w]: the first character of w, "" when w is empty
    Sign,           \* Sign[w]: -1 when the number in w has a minus, else 1
    Digits,         \* Digits[w]: the leading digits of w, <<>> when none
    Items,          \* Items[w]: the names between the commas of w
    Known,          \* Known[name]: the event behind a known event name
    NameMax,        \* room for a name in parse_event_list's buffer (63)
    LongMax,        \* the greatest long long (2^63 - 1)
    IntMax,         \* the greatest u32 (2^32 - 1)
    CommandLines    \* the argument vectors considered

Switches == {"-d", "-dd", "-ddd", "--table", "-v", "--verbose", "--topdown",
             "--no-inherit", "--no-scale", "--all-user", "--all-kernel",
             "--pinned"}
NumberFlags == {"-n", "-r", "-D", "--timeout"}
WordFlags == {"-e", "--pre", "--post", "-x", "-o", "-M"}
HelpFlags == {"-h", "--help"}
Flags == Switches \cup NumberFlags \cup WordFlags \cup HelpFlags

NoWord == "(null)"

ASSUME WordsAssumption ==
    /\ Dashed \subseteq Words /\ NoWord \notin Words
    /\ Flags \cap Words \subseteq Dashed
    /\ DOMAIN First = Words
    /\ \A w \in Words : First[w] # NoWord /\ (First[w] = "" <=> w = "")
    /\ DOMAIN Items = Words
    /\ \A w \in Words :
          /\ Items[w] \in Seq(ToSet(Items[w]))
          /\ \A k \in DOMAIN Items[w] : Items[w][k] \in Seq(ToSet(Items[w][k]))
    /\ Sign \in [Words -> {-1, 1}]
    /\ Digits \in [Words -> Seq(0..9)]
    /\ CommandLines \subseteq Seq(Words)
ASSUME WidthAssumption ==
    IntMax \in Nat \ {0} /\ LongMax \in Nat /\ IntMax < LongMax
ASSUME NamesAssumption ==
    NameMax \in Nat \ {0} /\ \A name \in DOMAIN Known : Len(name) < NameMax

VARIABLES
    argv,       \* the arguments after the program's name
    pc,         \* "argv", "usage" (main returns -1), "sink" (the output is
                \* opened), "list", "parsed", and on in Session
    i,          \* next argument, then next name of the event list
    opts,       \* cli_opts and the benchmark_opts in it
    events,     \* the events found for -e
    allOk       \* all_ok of parse_event_list

parseVars == <<argv, pc, i, opts, events, allOk>>

Defaults ==
    [n |-> 1, detail |-> 1, delay |-> 0, timeout |-> 0, inherit |-> TRUE,
     scale |-> TRUE, pinned |-> FALSE, exclKernel |-> TRUE, exclUser |-> FALSE,
     csv |-> NoWord, pre |-> NoWord, post |-> NoWord, sep |-> NoWord,
     file |-> NoWord, metrics |-> NoWord, table |-> FALSE, verbose |-> FALSE,
     topdown |-> FALSE, paths |-> <<>>]

ParseInit ==
    /\ argv \in CommandLines
    /\ pc = "argv"
    /\ i = 1
    /\ opts = Defaults
    /\ events = <<>>
    /\ allOk = TRUE

-----------------------------------------------------------------------------
(* Numbers. *)

\* v as a long long, which wraps around, and as a u32.
Long(v) == ((v + LongMax + 1) % (2 * LongMax + 2)) - (LongMax + 1)
U32(v) == v % (IntMax + 1)

\* Does parse_int accept the word?
IsNumber(w) == Digits[w] # <<>>

\* parse_int: digit by digit, then the sign; what follows the digits is
\* ignored.
ParseInt(w) ==
    LET Grow(v, d) == Long(10 * v + d)
    IN  Long(Sign[w] * FoldLeft(Grow, 0, Digits[w]))

-----------------------------------------------------------------------------
(* Options. *)

\* What a flag without value sets.
Switched(o, a) ==
    CASE a = "-d"           -> [o EXCEPT !.detail = 1]
      [] a = "-dd"          -> [o EXCEPT !.detail = 2]
      [] a = "-ddd"         -> [o EXCEPT !.detail = 3]
      [] a = "--table"      -> [o EXCEPT !.table = TRUE]
      [] a \in {"-v", "--verbose"} -> [o EXCEPT !.verbose = TRUE]
      [] a = "--topdown"    -> [o EXCEPT !.topdown = TRUE]
      [] a = "--no-inherit" -> [o EXCEPT !.inherit = FALSE]
      [] a = "--no-scale"   -> [o EXCEPT !.scale = FALSE]
      [] a = "--all-user"   -> [o EXCEPT !.exclKernel = TRUE, !.exclUser = FALSE]
      [] a = "--all-kernel" -> [o EXCEPT !.exclKernel = FALSE, !.exclUser = TRUE]
      [] a = "--pinned"     -> [o EXCEPT !.pinned = TRUE]

\* The least number a flag accepts.
Least(a) == IF a \in {"-n", "-r"} THEN 1 ELSE 0

\* Mutation of Numbered: the number of runs is narrowed like the others.
NumberedNarrow(o, a, v) ==
    CASE a \in {"-n", "-r"} -> [o EXCEPT !.n = U32(v)]
      [] a = "-D"           -> [o EXCEPT !.delay = U32(v)]
      [] a = "--timeout"    -> [o EXCEPT !.timeout = U32(v)]

\* What a number sets; delay and timeout are cast to u32.
Numbered(o, a, v) ==
    CASE a \in {"-n", "-r"} -> [o EXCEPT !.n = v]
      [] a = "-D"           -> [o EXCEPT !.delay = U32(v)]
      [] a = "--timeout"    -> [o EXCEPT !.timeout = U32(v)]

\* What a word sets; the separator is its first character, or a comma.
Worded(o, a, w) ==
    CASE a = "-e"     -> [o EXCEPT !.csv = w]
      [] a = "--pre"  -> [o EXCEPT !.pre = w]
      [] a = "--post" -> [o EXCEPT !.post = w]
      [] a = "-x"     -> [o EXCEPT !.sep = IF First[w] = "" THEN ","
                                           ELSE First[w]]
      [] a = "-o"     -> [o EXCEPT !.file = w]
      [] a = "-M"     -> [o EXCEPT !.metrics = w]

-----------------------------------------------------------------------------
(* parse_argv, one argument (and its value) at a time. *)

At(where) == pc = where /\ UNCHANGED argv

\* The argument under way, and whether a value follows it.
HasArgument == i <= Len(argv)
HasValue == i < Len(argv)

TakeSwitch ==
    /\ At("argv") /\ HasArgument /\ argv[i] \in Switches
    /\ opts' = Switched(opts, argv[i])
    /\ i' = i + 1
    /\ UNCHANGED <<pc, events, allOk>>

\* Mutation of TakeNumber: the number is not compared with the least one.
TakeNumberUnchecked ==
    /\ At("argv") /\ HasArgument /\ argv[i] \in NumberFlags /\ HasValue
    /\ IsNumber(argv[i + 1])
    /\ opts' = Numbered(opts, argv[i], ParseInt(argv[i + 1]))
    /\ i' = i + 2
    /\ UNCHANGED <<pc, events, allOk>>

\* A number is accepted when it parses and is not too small.
TakeNumber ==
    /\ At("argv") /\ HasArgument /\ argv[i] \in NumberFlags /\ HasValue
    /\ IsNumber(argv[i + 1]) /\ ParseInt(argv[i + 1]) >= Least(argv[i])
    /\ opts' = Numbered(opts, argv[i], ParseInt(argv[i + 1]))
    /\ i' = i + 2
    /\ UNCHANGED <<pc, events, allOk>>

\* Mutation of TakeWord: need_value reads the value without passing it.
TakeWordInPlace ==
    /\ At("argv") /\ HasArgument /\ argv[i] \in WordFlags /\ HasValue
    /\ opts' = Worded(opts, argv[i], argv[i + 1])
    /\ i' = i + 1
    /\ UNCHANGED <<pc, events, allOk>>

\* The value is the next argument, whatever it looks like.
TakeWord ==
    /\ At("argv") /\ HasArgument /\ argv[i] \in WordFlags /\ HasValue
    /\ opts' = Worded(opts, argv[i], argv[i + 1])
    /\ i' = i + 2
    /\ UNCHANGED <<pc, events, allOk>>

TakePath ==
    /\ At("argv") /\ HasArgument /\ argv[i] \notin Dashed
    /\ opts' = [opts EXCEPT !.paths = Append(@, argv[i])]
    /\ i' = i + 1
    /\ UNCHANGED <<pc, events, allOk>>

\* parse_argv returns false: help, an unknown flag, a missing value, a value
\* that is no number or too small, or no path at all.
Refuse ==
    /\ At("argv")
    /\ \/ HasArgument /\ argv[i] \in HelpFlags
       \/ HasArgument /\ argv[i] \in Dashed \ Flags
       \/ HasArgument /\ argv[i] \in NumberFlags \cup WordFlags /\ ~HasValue
       \/ /\ HasArgument /\ argv[i] \in NumberFlags /\ HasValue
          /\ ~IsNumber(argv[i + 1]) \/ ParseInt(argv[i + 1]) < Least(argv[i])
       \/ ~HasArgument /\ opts.paths = <<>>
    /\ pc' = "usage"
    /\ UNCHANGED <<i, opts, events, allOk>>

\* parse_argv returns true, and main opens its output.
Accept ==
    /\ At("argv") /\ ~HasArgument /\ opts.paths # <<>>
    /\ pc' = "sink"
    /\ i' = 1
    /\ UNCHANGED <<opts, events, allOk>>

-----------------------------------------------------------------------------
(* parse_event_list, one name at a time. *)

\* Mutation of Buffered: one character less fits.
BufferedShort(name) ==
    SubSeq(name, 1, IF Len(name) < NameMax THEN Len(name) ELSE NameMax - 1)

\* What of a name fits in the buffer.
Buffered(name) ==
    SubSeq(name, 1, IF Len(name) < NameMax THEN Len(name) ELSE NameMax)

\* An empty name is skipped, a known one adds its event, and an unknown one is
\* noted while the rest goes on.
ListName ==
    /\ At("list") /\ i <= Len(Items[opts.csv])
    /\ LET name == Buffered(Items[opts.csv][i]) IN
          /\ events' = IF name \in DOMAIN Known THEN Append(events, Known[name])
                       ELSE events
          /\ allOk' = (allOk /\ (name = <<>> \/ name \in DOMAIN Known))
    /\ i' = i + 1
    /\ UNCHANGED <<pc, opts>>

\* main goes on, with a warning unless all_ok.
ListDone ==
    /\ At("list") /\ i > Len(Items[opts.csv])
    /\ pc' = "parsed"
    /\ UNCHANGED <<i, opts, events, allOk>>

ParseStep ==
    \/ TakeSwitch \/ TakeNumber \/ TakeWord \/ TakePath \/ Refuse \/ Accept
    \/ ListName \/ ListDone

-----------------------------------------------------------------------------
(* What an argument vector means, position by position. *)

\* The role of each argument: a value follows a flag that takes one.
Role ==
    LET role[k \in 1..Len(argv)] ==
            IF /\ k > 1 /\ role[k - 1] = "flag"
               /\ argv[k - 1] \in NumberFlags \cup WordFlags
            THEN "value"
            ELSE IF argv[k] \in Dashed THEN "flag" ELSE "path"
    IN  role

\* Where a flag of the set stands as a flag, and the value of the last one.
Places(flags) == {k \in 1..Len(argv) : Role[k] = "flag" /\ argv[k] \in flags}
LastPlace(flags) == CHOOSE k \in Places(flags) : \A m \in Places(flags) : m <= k
LastWord(flags) ==
    IF Places(flags) = {} THEN NoWord ELSE argv[LastPlace(flags) + 1]

\* The number a word states, whatever its size.
Stated(w) ==
    LET Grow(v, d) == 10 * v + d
    IN  Sign[w] * FoldLeft(Grow, 0, Digits[w])

Parsed == pc \notin {"argv", "usage"}
Listed == Parsed /\ pc \notin {"sink", "list"} /\ opts.csv # NoWord

\* An accepted argument vector sets exactly what its flags say, the last of a
\* flag wins, every flag is a known one with its value, a value is never taken
\* for a flag or a path, and the paths are the remaining arguments in order.
ParsedAsMeant ==
    Parsed =>
        /\ \A k \in DOMAIN argv :
              Role[k] = "flag" =>
                  /\ argv[k] \in Flags \ HelpFlags
                  /\ argv[k] \in Switches \/ k < Len(argv)
        /\ opts.paths # <<>>
        /\ \E places \in [1..Len(opts.paths) ->
                           {k \in 1..Len(argv) : Role[k] = "path"}] :
              /\ \A k \in 1..Len(argv) : Role[k] = "path" =>
                    \E j \in 1..Len(opts.paths) : places[j] = k
              /\ \A j \in 1..Len(opts.paths) :
                    /\ opts.paths[j] = argv[places[j]]
                    /\ \A m \in 1..(j - 1) : places[m] < places[j]
        /\ opts.csv = LastWord({"-e"})
        /\ opts.pre = LastWord({"--pre"}) /\ opts.post = LastWord({"--post"})
        /\ opts.file = LastWord({"-o"}) /\ opts.metrics = LastWord({"-M"})
        /\ opts.sep = IF Places({"-x"}) = {} THEN NoWord
                      ELSE IF LastWord({"-x"}) = "" THEN ","
                      ELSE First[LastWord({"-x"})]
        /\ opts.detail =
              IF Places({"-d", "-dd", "-ddd"}) = {} THEN 1
              ELSE CASE argv[LastPlace({"-d", "-dd", "-ddd"})] = "-d"   -> 1
                     [] argv[LastPlace({"-d", "-dd", "-ddd"})] = "-dd"  -> 2
                     [] argv[LastPlace({"-d", "-dd", "-ddd"})] = "-ddd" -> 3
        /\ opts.table = (Places({"--table"}) # {})
        /\ opts.verbose = (Places({"-v", "--verbose"}) # {})
        /\ opts.topdown = (Places({"--topdown"}) # {})

\* A number that the option's type can hold arrives unchanged, and one below
\* the least accepted, which would mean no run at all or a wait without end,
\* never does (as long as long long itself can hold the number).
NumbersArrive ==
    Parsed =>
        \A flags \in {{"-n", "-r"}, {"-D"}, {"--timeout"}} :
            Places(flags) # {} =>
                LET v == Stated(LastWord(flags))
                IN  /\ v < Least(argv[LastPlace(flags)]) => v < -(LongMax + 1)
                    /\ "-n" \in flags /\ v \in 1..LongMax => opts.n = v
                    /\ "-D" \in flags /\ v \in 0..IntMax => opts.delay = v
                    /\ "--timeout" \in flags /\ v \in 0..IntMax =>
                          opts.timeout = v

\* The events of -e are those of its known names in their order, also when the
\* list has unknown, empty or overlong names, and main warns exactly when it
\* has an unknown one (parse_event_list).
ListedEvents ==
    Listed =>
        LET names == Items[opts.csv]
            known == Kept(names, DOMAIN Known)
        IN  /\ events = [k \in DOMAIN known |-> Known[known[k]]]
            /\ allOk = \A k \in DOMAIN names :
                           names[k] = <<>> \/ names[k] \in DOMAIN Known
=============================================================================
