------------------------------ MODULE MCSession ------------------------------
(* Session for TLC: every command line of up to two arguments over words     *)
(* that reach every branch of the parser, longer ones over a few of them,    *)
(* and command lines that reach every branch of the report.                  *)
EXTENDS Session

\* Numbers: small, zero, negative, with a tail, beyond the narrow type, beyond
\* the wide one, and none.
MCNumbers == {"0", "2", "3", "-2", "7ms", "20", "80", "many"}

\* Event lists: two known names; unknown, empty and overlong names.
MCLists == {"c,s", "c,,none,s", "csx"}

\* Metric lists: of every level, with an unknown and an empty name; of -ddd.
MCMetricLists == {"ipc,,no", "l1i,ipc"}

MCPlain == {"ls", "b", "-", ""}

MCDashed == Flags \cup {"-2", "--what"}
MCWords == MCDashed \cup MCNumbers \cup MCLists \cup MCMetricLists \cup MCPlain

MCFirst ==
    [w \in MCWords |->
        CASE w = ""                    -> ""
          [] w \in MCDashed \cup {"-"} -> "-"
          [] w \in MCLists             -> "c"
          [] w = "ls"                  -> "l"
          [] w = "b"                   -> "b"
          [] w = "ipc,,no"             -> "i"
          [] w = "l1i,ipc"             -> "l"
          [] w = "0"                   -> "0"
          [] w = "2"                   -> "2"
          [] w = "3"                   -> "3"
          [] w = "7ms"                 -> "7"
          [] w = "20"                  -> "2"
          [] w = "80"                  -> "8"
          [] w = "many"                -> "m"]
MCSign == [w \in MCWords |-> IF w = "-2" THEN -1 ELSE 1]
MCDigits ==
    [w \in MCWords |->
        CASE w = "0"          -> <<0>>
          [] w \in {"2", "-2"} -> <<2>>
          [] w = "3"          -> <<3>>
          [] w = "7ms"        -> <<7>>
          [] w = "20"         -> <<2, 0>>
          [] w = "80"         -> <<8, 0>>
          [] OTHER            -> <<>>]
MCItems ==
    [w \in MCWords |->
        CASE w = "c,s"        -> << <<"c">>, <<"s">> >>
          [] w = "c,,none,s"  -> << <<"c">>, <<>>, <<"n", "o">>, <<"s">> >>
          [] w = "csx"        -> << <<"c", "s", "x", "x">> >>
          [] w = "ipc,,no"    -> << <<"i">>, <<>>, <<"n", "o">> >>
          [] w = "l1i,ipc"    -> << <<"l">>, <<"i">> >>
          [] w = ""           -> << <<>> >>
          [] OTHER            -> << <<w>> >>]
MCKnown == [name \in {<<"c">>, <<"s">>, <<"c", "s">>} |-> name]
MCMetricOf ==
    [name \in {<<"i">>, <<"l">>} |->
        IF name = <<"i">> THEN "ipc" ELSE "l1i_miss_rate"]

\* The words of longer command lines.
MCMany == {"-n", "--timeout", "-e", "-d", "-dd", "-x", "--all-user",
           "--all-kernel", "--pinned", "3", "c,s", "ls"}
MCFew == {"-n", "-e", "--all-user", "--all-kernel", "3", "c,s"}

\* Reports: repetition with a table and metrics, three binaries (one twice)
\* with top-down, CSV to a file at every detail level, and events.
MCReports ==
    { <<"-n", "2", "--table", "-M", "ipc,,no", "ls", "b">>,
      <<"--topdown", "-ddd", "-M", "l1i,ipc", "ls", "b", "ls">>,
      <<"-x", "", "--topdown", "-o", "b", "--table", "-M", "l1i,ipc",
        "b", "ls", "b">>,
      <<"-x", "c,s", "-dd", "ls", "b">>,
      <<"-x", "-", "-ddd", "-o", "b", "-r", "3", "ls">>,
      <<"-r", "3", "-dd", "--topdown", "ls">>,
      <<"-e", "c,s", "-v", "-n", "2", "-o", "b", "ls", "b">> }

MCExplored ==
    [1..1 -> MCWords]
    \cup {<<f, w, "ls">> : f \in MCDashed, w \in MCWords \ {"7ms", "20"}}
    \cup MCReports

MCCommandLines ==
    UNION {[1..k -> MCWords] : k \in 0..2}
    \cup {<<f, w, "ls">> : f \in MCDashed, w \in MCWords}
    \cup {s \o <<"ls">> : s \in [1..3 -> MCMany]}
    \cup {s \o <<"ls">> : s \in [1..4 -> MCFew]}
    \cup MCExplored

MCTimes == {2, 3, 9}

\* The command lines and times of the runs that show one disagreement each.
MCKernelLines == {<<"--all-kernel", "ls">>, <<"--all-kernel", "-e", "c,s", "ls">>}
MCEventLines ==
    {<<"-e", "c,s", "-n", "2", "--table", "-M", "ipc,,no", "--topdown", "ls">>}
MCRepeatLines == {<<"-n", "2", "ls">>}

\* Runs of 20 and 31.6 milliseconds.
MCFarTimes == {20000, 31586}
=============================================================================
