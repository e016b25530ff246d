------------------------------ MODULE NoncePool ------------------------------
(***************************************************************************)
(* What a pool of pre-computed ECDSA nonces promises, with no workers, no  *)
(* queue bound and no shutdown: a nonce becomes available once, is handed  *)
(* to one caller, signs at most one message, and is dead from then on.     *)
(* PreComputation is shown to implement this specification.                *)
(***************************************************************************)

CONSTANTS Nonce,     \* every nonce that can ever be generated
          Message    \* message hashes

VARIABLES avail,     \* nonces waiting to be handed out
          taken,     \* nonces a caller holds and may still sign with
          dead,      \* nonces that were zeroized, used or not
          sigs       \* signatures made: pairs <<nonce, message>>

pvars == <<avail, taken, dead, sigs>>

PoolInit ==
    /\ avail = {}
    /\ taken = {}
    /\ dead = {}
    /\ sigs = {}

\* New nonces come in, and none of them was ever in the pool before.
Add ==
    /\ avail \subseteq avail'
    /\ avail' \ avail \subseteq Nonce \ (taken \cup dead)
    /\ UNCHANGED <<taken, dead, sigs>>

Take(n) ==
    /\ n \in avail
    /\ avail' = avail \ {n}
    /\ taken' = taken \cup {n}
    /\ UNCHANGED <<dead, sigs>>

Sign(n, m) ==
    /\ n \in taken
    /\ taken' = taken \ {n}
    /\ dead' = dead \cup {n}
    /\ sigs' = sigs \cup {<<n, m>>}
    /\ UNCHANGED avail

\* A caller's attempt fails: the nonce is destroyed without a signature.
Waste(n) ==
    /\ n \in taken
    /\ taken' = taken \ {n}
    /\ dead' = dead \cup {n}
    /\ UNCHANGED <<avail, sigs>>

\* Shutdown destroys everything that was not handed out.
Drain ==
    /\ avail' = {}
    /\ dead' = dead \cup avail
    /\ UNCHANGED <<taken, sigs>>

PoolNext ==
    \/ Add
    \/ \E n \in avail : Take(n)
    \/ \E n \in taken : Waste(n) \/ \E m \in Message : Sign(n, m)
    \/ Drain

PoolSpec == PoolInit /\ [][PoolNext]_pvars

=============================================================================
