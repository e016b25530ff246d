-------------------------- MODULE MCPreComputation --------------------------
(* Model values for PreComputation: two start/stop cycles of one worker    *)
(* each, so that a start() can fall inside the await of an earlier stop(). *)
EXTENDS PreComputation
CONSTANTS w1, w2, s1, s2, m1, m2

MCWorker == {w1, w2}
MCStopCall == {s1, s2}
MCMessage == {m1, m2}
=============================================================================
