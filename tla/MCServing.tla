------------------------------ MODULE MCServing ------------------------------
(***************************************************************************)
(* The components that answer requests while something of theirs is under  *)
(* way - the pool of nonces, the session bindings, the API server with its *)
(* policy engine - on bounded instances.  Each has a liveness property.    *)
(* They call nothing of one another and share no variable, so each runs    *)
(* alone: turn says which one does, and the others stay in their initial   *)
(* state, where none of their fair actions is enabled.                     *)
(***************************************************************************)
EXTENDS MCPreComputation, MCSessionGuard, MCApiServer

VARIABLE turn

servingVars == <<vars, guardVars, allVars, turn>>

ServingInit ==
    /\ Init /\ GuardInit /\ ServerInit
    /\ turn \in {"nonces", "bindings", "server"}

ServingNext ==
    /\ UNCHANGED turn
    /\ \/ turn = "nonces" /\ Next /\ UNCHANGED <<guardVars, allVars>>
       \/ turn = "bindings" /\ GuardNext /\ UNCHANGED <<vars, allVars>>
       \/ turn = "server" /\ ServerNext /\ UNCHANGED <<vars, guardVars>>

ServingSpec ==
    /\ ServingInit /\ [][ServingNext]_servingVars
    /\ Fairness /\ GuardFairness /\ WF_allVars(DkgResponse)
=============================================================================
