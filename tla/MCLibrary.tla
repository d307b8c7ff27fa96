------------------------------ MODULE MCLibrary ------------------------------
(* Library for TLC. *)
EXTENDS Library, TLC

CONSTANTS c1, c2, s1    \* two hardware counters and a software counter

MCCounters == {c1, c2, s1}
MCSoftware == {s1}
MCSymmetry == Permutations({c1, c2})

\* A second has three nanoseconds.
MCSettings == {-2, 2}
MCRubbish == {[sec |-> 0, nsec |-> 0], [sec |-> 7, nsec |-> 1]}

MCBtDashed == {"-r", "-x", "-q", "-h", "--help", "-z"}
MCBtWords == MCBtDashed \cup {"2", "0", "p", ";"}
MCBtNumber == [w \in {"2", "0"} |-> IF w = "2" THEN 2 ELSE 0]
MCBtLines ==
    UNION {[1..k -> MCBtWords] : k \in 0..2}
    \cup {<<"-r", "2">> \o s : s \in [1..2 -> MCBtWords]}
    \cup {<<"-r", "2", "-x", ";">> \o s : s \in [1..2 -> {"-q", "p"}]}

\* Words of a parser: short and long flags, values, an operand with two
\* dashes inside, nothing but dashes, and one that is too long.
MCWords == {"-a", "--a", "--b", "v", "x-y-z", "--", "", "long"}
MCDashes2 == {"--a", "--b", "x-y-z", "--"}
MCDash1 == {"-a", "--a", "--b", "--"}
MCTrimmed ==
    [w \in MCWords \cup {"prog"} |->
        CASE w \in {"-a", "--a"} -> "a"
          [] w = "--b"           -> "b"
          [] w \in {"--", ""}    -> ""
          [] OTHER               -> w]
MCArgLines == {<<"prog">> \o s : s \in UNION {[1..k -> MCWords] : k \in 0..4}}
MCParameterLists ==
    LET alpha(acc) == [param |-> "a", abbr |-> "a", acc |-> acc]
        beta == [param |-> "b", abbr |-> "v", acc |-> "czero"]
    IN  {<<alpha("cstring")>>, <<alpha("czero"), beta>>, <<beta, alpha("cint")>>}
=============================================================================
