-------------------------------- MODULE Cargs --------------------------------
(***************************************************************************)
(* The argument parser library src/src/cargs.hpp: a parser built from an   *)
(* argument vector (general_parse_np), one built from registered           *)
(* parameters and then called with an argument vector (general_parse), the *)
(* callbacks that follow, and what operands(), params() and the others     *)
(* find afterwards.                                                        *)
(*                                                                         *)
(* A word is known by what the parser sees in it: whether it holds two     *)
(* flag characters (anywhere), whether it starts with one, whether it      *)
(* holds nothing else, whether it is too long, and what trim leaves of it. *)
(* Entry k is args[k - 1]; the data of an entry are the words appended.    *)
(***************************************************************************)
EXTENDS Naturals, Filters

CONSTANTS
    ArgLines,       \* the argument vectors considered, the program's name first
    Dashes2,        \* words that hold FLAG at least twice
    Dash1,          \* words that start with FLAG
    OnlyDashes,     \* words of nothing but FLAG, and the empty word
    TooLong,        \* words longer than MAX_BUFFER
    Trimmed,        \* Trimmed[w]: w without the leading FLAGs
    ParameterLists, \* the sequences of parameters that may be registered;
                    \* parser() without any is deleted
    MaxLength       \* entries of the parser (32)

Parameter == [param : STRING, abbr : STRING, acc : {"czero", "cint", "cstring"}]

ASSUME CargsAssumption ==
    /\ Trimmed \in [DOMAIN Trimmed -> STRING]
    /\ ArgLines \subseteq Seq(DOMAIN Trimmed) /\ DOMAIN Trimmed \subseteq STRING
    /\ \A line \in ArgLines : line # <<>>
    /\ ParameterLists \subseteq Seq(Parameter) \ {<<>>}
    /\ MaxLength \in Nat \ {0}

VARIABLES
    cpc,        \* "idle", "np", "parse", "callbacks", "built" or "beyond"
    line,       \* the argument vector
    params,     \* the registered parameters
    ci,         \* next argument, then next entry for callbacks
    args,       \* the entries
    called      \* history: the callbacks made, as pairs of entry and parameter

cargsVars == <<cpc, line, params, ci, args, called>>

Entry == [key : Seq(STRING), data : Seq(STRING),
          type : {"czero", "cpath", "cparam", "coperand", "ckey", "cint",
                  "cstring"}]
Blank == [key |-> <<>>, data |-> <<>>, type |-> "czero"]

CargsInit ==
    /\ cpc = "idle" /\ line = <<>> /\ params = <<>> /\ ci = 1
    /\ args = [k \in 1..MaxLength |-> Blank]
    /\ called = <<>>

-----------------------------------------------------------------------------

\* flag, param and empty.  A word with two FLAGs is no param.
IsFlag(w) == w \in Dashes2
IsParam(w) == w \in Dash1 \ Dashes2

\* parser(argc, argv), or parser(params...)(argc, argv).  Too many arguments,
\* or none but the program's name, leave the entries blank.
ParserCalled(np) ==
    /\ cpc = "idle"
    /\ line' \in ArgLines
    /\ IF np THEN params' = <<>> ELSE params' \in ParameterLists
    /\ IF Len(line') > MaxLength \/ Len(line') = 1
       THEN cpc' = "built" /\ args' = args
       ELSE /\ cpc' = IF np THEN "np" ELSE "parse"
            /\ args' = [args EXCEPT ![1].key = <<line'[1]>>, ![1].type = "cpath"]
    /\ ci' = 2
    /\ UNCHANGED called

\* An argument that is too long is passed over.
Skip ==
    /\ cpc \in {"np", "parse"} /\ ci <= Len(line) /\ line[ci] \in TooLong
    /\ ci' = ci + 1
    /\ UNCHANGED <<cpc, line, params, args, called>>

Now(where) == cpc = where /\ ci <= Len(line) /\ line[ci] \notin TooLong

\* general_parse_np: a word with FLAGs is a key ...
NpKey ==
    /\ Now("np") /\ line[ci] \notin OnlyDashes
    /\ IsFlag(line[ci]) \/ IsParam(line[ci])
    /\ args' = [args EXCEPT
                  ![ci].key = <<Trimmed[line[ci]]>>,
                  ![ci].type = IF IsFlag(line[ci]) THEN "ckey" ELSE "cparam"]
    /\ ci' = ci + 1
    /\ UNCHANGED <<cpc, line, params, called>>

NpPlain == Now("np") /\ (line[ci] \in OnlyDashes \/ ~(IsFlag(line[ci]) \/ IsParam(line[ci])))

\* Mutation of NpValue: the key keeps its type, and takes every word that
\* follows.
NpValueKeepsKey ==
    /\ NpPlain /\ args[ci - 1].type = "ckey"
    /\ args' = [args EXCEPT ![ci - 1].data = Append(@, line[ci]),
                            ![ci].type = "ckey"]
    /\ ci' = ci + 1
    /\ UNCHANGED <<cpc, line, params, called>>

\* ... the word after a long key is its value ...
NpValue ==
    /\ NpPlain /\ args[ci - 1].type = "ckey"
    /\ args' = [args EXCEPT ![ci - 1].data = Append(@, line[ci]),
                            ![ci - 1].type = "cstring",
                            ![ci].type = "czero"]
    /\ ci' = ci + 1
    /\ UNCHANGED <<cpc, line, params, called>>

\* ... and any other an operand.
NpOperand ==
    /\ NpPlain /\ args[ci - 1].type # "ckey"
    /\ args' = [args EXCEPT ![ci].data = Append(@, line[ci]),
                            ![ci].type = "coperand"]
    /\ ci' = ci + 1
    /\ UNCHANGED <<cpc, line, params, called>>

\* general_parse: the loop over the parameters ends with the first one, which
\* every branch leaves for `data`.
Named(p) ==
    \/ IsFlag(line[ci]) /\ p.param = Trimmed[line[ci]]
    \/ IsParam(line[ci]) /\ p.abbr = Trimmed[line[ci]]

\* The parameter's value is the next word, which is parsed as an argument of
\* its own afterwards; an operand takes it too.
WithValue(entry, p) ==
    IF p.acc # "czero" /\ ci < Len(line)
    THEN [entry EXCEPT !.data = Append(@, line[ci + 1]), !.type = p.acc]
    ELSE entry

\* Mutation of GeneralArgument: a parameter that takes a value moves past the
\* word behind it, whether there is one or not.
GeneralArgumentPast ==
    /\ Now("parse") /\ params # <<>>
    /\ args' = [args EXCEPT ![ci].data = Append(@, line[ci]),
                            ![ci].type = "coperand"]
    /\ ci' = IF params[1].acc = "czero" THEN ci + 1 ELSE ci + 2
    /\ UNCHANGED <<cpc, line, params, called>>

GeneralArgument ==
    /\ Now("parse") /\ params # <<>>
    /\ LET p == params[1]
           entry == IF Named(p)
                    THEN [args[ci] EXCEPT
                            !.key = Append(@, Trimmed[line[ci]]),
                            !.type = IF IsFlag(line[ci]) THEN "ckey" ELSE "cparam"]
                    ELSE [args[ci] EXCEPT !.data = Append(@, line[ci]),
                                          !.type = "coperand"]
       IN  args' = [args EXCEPT ![ci] = WithValue(entry, p)]
    /\ ci' = ci + 1
    /\ UNCHANGED <<cpc, line, params, called>>

Arguments ==
    /\ cpc \in {"np", "parse"} /\ ci > Len(line)
    /\ cpc' = "callbacks" /\ ci' = 1
    /\ UNCHANGED <<line, params, args, called>>

-----------------------------------------------------------------------------
(* callbacks_handler. *)

\* The parameters whose callback gets an entry, in their order.
Matching(entry) ==
    Kept(Positions(Len(params)),
         {k \in 1..Len(params) :
             entry.key \in {<<params[k].param>>, <<params[k].abbr>>}})

\* Mutation of Callback: blank entries are passed over.
CallbackPastBlank ==
    /\ cpc = "callbacks" /\ ci <= MaxLength
    /\ called' = called \o [k \in 1..Len(Matching(args[ci])) |->
                               <<ci, Matching(args[ci])[k]>>]
    /\ ci' = ci + 1
    /\ UNCHANGED <<cpc, line, params, args>>

Callback ==
    /\ cpc = "callbacks" /\ ci <= MaxLength /\ args[ci].type # "czero"
    /\ called' = called \o [k \in 1..Len(Matching(args[ci])) |->
                               <<ci, Matching(args[ci])[k]>>]
    /\ ci' = ci + 1
    /\ UNCHANGED <<cpc, line, params, args>>

CallbacksEnd ==
    /\ cpc = "callbacks" /\ ci <= MaxLength /\ args[ci].type = "czero"
    /\ cpc' = "built"
    /\ UNCHANGED <<line, params, ci, args, called>>

\* When every entry is in use the loop reads on behind the table: undefined,
\* and what it finds there is not looked into.
ReadBeyond ==
    /\ cpc = "callbacks" /\ ci > MaxLength
    /\ cpc' \in {"built", "beyond"}
    /\ UNCHANGED <<line, params, ci, args, called>>

CargsNext ==
    \/ \E np \in BOOLEAN : ParserCalled(np)
    \/ Skip \/ NpKey \/ NpValue \/ NpOperand \/ GeneralArgument \/ Arguments
    \/ Callback \/ CallbacksEnd \/ ReadBeyond

-----------------------------------------------------------------------------
(* What the parser answers. *)

\* operands(), params(), and the keys that list() returns.
Of(entries, field) == [k \in 1..Len(entries) |-> entries[k][field]]
Operands == Of(Kept(args, {e \in ToSet(args) : e.type = "coperand"}), "data")
Params == Of(Kept(args, {e \in ToSet(args) : e.type = "cparam"}), "key")
List == Of(Kept(args, {e \in ToSet(args) : e.type \notin
              {"czero", "cvoid", "cpath", "cparam", "coperand"}}), "key")

\* parser(str): the data of the first entry with that key.
Found(key) == Kept(args, {e \in ToSet(args) : e.key = <<key>>})
Lookup(key) == IF Found(key) = <<>> THEN <<>> ELSE Found(key)[1].data

-----------------------------------------------------------------------------
(* Properties. *)

\* Every variable has its type.
CargsTypeOK ==
    /\ cpc \in {"idle", "np", "parse", "callbacks", "built", "beyond"}
    /\ ci \in 1..(MaxLength + 1)
    /\ params \in Seq(Parameter)
    /\ args \in [1..MaxLength -> Entry]

\* What each argument after the program's name is for a parser without
\* parameters, seen from its neighbour alone.
Short(w) == IsParam(w) /\ w \notin OnlyDashes
Long(w) == IsFlag(w) /\ w \notin OnlyDashes
IsShort(k) == line[k] \notin TooLong /\ Short(line[k])
IsLong(k) == line[k] \notin TooLong /\ Long(line[k])
IsPlain(k) == line[k] \notin TooLong /\ ~(Long(line[k]) \/ Short(line[k]))
IsValue(k) == IsPlain(k) /\ k > 2 /\ IsLong(k - 1)
IsOperand(k) == IsPlain(k) /\ ~IsValue(k)

\* Without parameters no argument is lost and none is taken twice: each one
\* that is not too long is a short flag, a long flag, the value of the long
\* flag just before it, or an operand, and is found there, in the order of
\* the argument vector (general_parse_np, operands, params, list, data).
EveryWordPlaced ==
    (cpc \in {"callbacks", "built", "beyond"} /\ params = <<>>
        /\ Len(line) \in 2..MaxLength) =>
        LET places(S) == Kept(Positions(Len(line)), S)
            words(S) == [k \in 1..Len(places(S)) |-> <<line[places(S)[k]]>>]
            bodies(S) ==
                [k \in 1..Len(places(S)) |-> <<Trimmed[line[places(S)[k]]]>>]
        IN  /\ Operands = words({k \in 2..Len(line) : IsOperand(k)})
            /\ Params = bodies({k \in 2..Len(line) : IsShort(k)})
            /\ List = bodies({k \in 2..Len(line) : IsLong(k)})
            /\ \A k \in 2..Len(line) : IsLong(k) =>
                  args[k].data = IF k < Len(line) /\ IsValue(k + 1)
                                 THEN <<line[k + 1]>> ELSE <<>>

\* A callback is made for an entry with the parameter's name only, once per
\* entry and in the order of the argument vector, and never behind a blank
\* entry; the handler stays inside the table unless the arguments fill it
\* (callbacks_handler).
CallbacksInOrder ==
    /\ \A m \in 1..Len(called) :
          LET k == called[m][1]  p == params[called[m][2]] IN
          /\ args[k].key \in {<<p.param>>, <<p.abbr>>}
          /\ \A j \in 1..k : args[j].type # "czero"
          /\ m > 1 => \/ called[m - 1][1] < k
                      \/ called[m - 1][1] = k /\ called[m - 1][2] < called[m][2]
    /\ cpc = "beyond" => Len(line) = MaxLength
=============================================================================
