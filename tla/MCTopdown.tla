------------------------------ MODULE MCTopdown ------------------------------
(* Topdown for TLC: the options measure_bin reads (the hooks) and those it   *)
(* ignores (delay, timeout, inherit).                                        *)
EXTENDS Topdown

Opt(d, t, i, pre, post) ==
    [delay |-> d, timeout |-> t, inherit |-> i, pre |-> pre, post |-> post]

MCOptions == { Opt(0, 0, TRUE, TRUE, TRUE), Opt(1, 1, TRUE, FALSE, FALSE) }

MCTimeoutOptions == { Opt(0, 1, TRUE, FALSE, FALSE) }
=============================================================================
