----------------------------- MODULE MCMpcEngine -----------------------------
(* Bounded instances of MpcEngine, with one pair of primes for all nodes. *)
EXTENDS MpcEngine

\* A registry in another order, and one so short that executeDKG has to fill it
\* up, with a node numbered past its position.  Filling up the empty registry
\* the engine begins with gives that of the tests.
MCRegistries == {<<3, 1>>, <<2>>}

\* The registry of tests/protocol/mpc_cmp.test.ts alone, with its parameters.
TestRegistries == {<<1, 2, 3>>}
TestParams == {<<2, 3>>}

MCParams == {<<2, 3>>, <<2, 2>>}
=============================================================================
