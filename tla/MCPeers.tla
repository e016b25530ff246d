------------------------------- MODULE MCPeers -------------------------------
(***************************************************************************)
(* What other parties act on - the transport between nodes, the governance *)
(* of role holders, the HSM client - on bounded instances.  They call      *)
(* nothing of one another and share no variable, so each runs alone: turn  *)
(* says which one does, and the others stay in their initial state.        *)
(***************************************************************************)
EXTENDS Transport, MCGovernance, MCHsmEnclave

VARIABLE turn

peersVars == <<transportVars, governanceVars, enclaveVars, turn>>

PeersInit ==
    /\ TransportInit /\ GovernanceInit /\ EnclaveInit
    /\ turn \in {"transport", "governance", "enclave"}

PeersNext ==
    /\ UNCHANGED turn
    /\ \/ /\ turn = "transport" /\ TransportNext
          /\ UNCHANGED <<governanceVars, enclaveVars>>
       \/ /\ turn = "governance" /\ GovernanceNext
          /\ UNCHANGED <<transportVars, enclaveVars>>
       \/ /\ turn = "enclave" /\ EnclaveNext
          /\ UNCHANGED <<transportVars, governanceVars>>

PeersSpec == PeersInit /\ [][PeersNext]_peersVars
===============================================================================
