----------------------------- MODULE MCBenchBin -----------------------------
(* BenchBin for TLC: a set of options that covers every branch. *)
EXTENDS BenchBin

Opt(d, t, i, pre, post) ==
    [delay |-> d, timeout |-> t, inherit |-> i, pre |-> pre, post |-> post]

\* No timeout with hooks; timeouts with and without inherit; delays, one of
\* them with a timeout and a post hook.
MCOptions ==
    { Opt(0, 0, TRUE,  TRUE,  TRUE),
      Opt(0, 2, TRUE,  FALSE, FALSE),
      Opt(1, 1, FALSE, FALSE, FALSE),
      Opt(1, 2, TRUE,  FALSE, TRUE) }

MCDelayOptions == { Opt(2, 0, TRUE, FALSE, FALSE) }
=============================================================================
