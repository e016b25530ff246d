------------------------------ MODULE MCEngines ------------------------------
(***************************************************************************)
(* The keys and their records - distributed keys and signing, key refresh, *)
(* the audit chain - on bounded instances.  They call nothing of one       *)
(* another and share no variable, so each runs alone: turn says which one  *)
(* does, and the others stay in their initial state.                       *)
(***************************************************************************)
EXTENDS MCMpcEngine, MCKeyRefresh, MCAuditChain

VARIABLE turn

enginesVars == <<vars, refreshVars, mpcVars, turn>>

EnginesInit ==
    /\ Init /\ RefreshInit /\ MpcInit
    /\ turn \in {"audit", "refresh", "mpc"}

EnginesNext ==
    /\ UNCHANGED turn
    /\ \/ turn = "audit" /\ Next /\ UNCHANGED <<refreshVars, mpcVars>>
       \/ turn = "refresh" /\ RefreshNext /\ UNCHANGED <<vars, mpcVars>>
       \/ turn = "mpc" /\ MpcNext /\ UNCHANGED <<vars, refreshVars>>

EnginesSpec == EnginesInit /\ [][EnginesNext]_enginesVars
===============================================================================
