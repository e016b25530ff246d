------------------------------ MODULE ApiServer ------------------------------
(***************************************************************************)
(* The HTTP handlers of server.ts: how they drive the policy engine, the   *)
(* MPC engine, the audit trail, the enclave and the metrics.  The policy   *)
(* engine is a singleton of the process; its exported administration       *)
(* (updatePolicy, recordSpending, resetDailySpending) runs between         *)
(* requests.                                                               *)
(*                                                                         *)
(* A handler runs to its first await in one go.  The DKG handler awaits    *)
(* executeDKG, so other requests run between the stored session and its    *)
(* audit entry.  The other engines are represented by what the handlers    *)
(* can see of them: a DKG session is stored or executeDKG throws; of the   *)
(* audit trail the number of entries of each action matters.  Requests     *)
(* without the API key, and requests that fail the checks of the input,    *)
(* change nothing.                                                         *)
(***************************************************************************)
EXTENDS PolicyEngine

CONSTANTS Thresholds, Parties,   \* values of threshold and totalParties in requests
          MaxRequests,           \* bound on DKG requests
          MaxTampers             \* bound on tamper requests

VARIABLES
    dkgSessions,    \* DKG sessions stored
    finishing,   \* DKG handlers between executeDKG and appendLog
    auditLog,    \* how many entries of each action this process appended
    metrics,     \* the prom-client counters
    enclave      \* status of the active HSM driver

serverVars == <<dkgSessions, finishing, auditLog, metrics, enclave>>
allVars == <<policyVars, serverVars>>

Actions == {"DKG_INITIATED", "POLICY_BLOCKED", "SIGNING_COMPLETED", "HSM_TAMPER"}

\* Fields of a stored session, as executeDKG builds it.
SessionFields == {"sessionId", "curve", "threshold", "totalParties", "phase",
                  "masterPublicKey", "parties", "completedAt"}

\* The counters the handlers move, and MetricsRegistry's ways to move them.
Counters == [dkg |-> 0, signing |-> 0, violations |-> 0]
Inc(counter) == metrics' = [metrics EXCEPT ![counter] = @ + 1]

ServerInit ==
    /\ PolicyInit
    /\ dkgSessions = 0
    /\ finishing = 0
    /\ auditLog = [a \in Actions |-> 0]
    /\ metrics = Counters
    /\ enclave = "HEALTHY"

AppendLog(a) == auditLog' = [auditLog EXCEPT ![a] = @ + 1]

ValidateMPCParams(threshold, totalParties) ==
    /\ threshold \in 2..20
    /\ totalParties \in 2..50
    /\ threshold <= totalParties

\* POST /mpc/dkg up to the await; when executeDKG throws the reply is 500.
DkgRequest(threshold, totalParties) ==
    /\ ValidateMPCParams(threshold, totalParties)
    /\ dkgSessions < MaxRequests
    /\ dkgSessions' = dkgSessions + 1
    /\ finishing' = finishing + 1
    /\ UNCHANGED <<policyVars, auditLog, metrics, enclave>>

\* Mutant: concurrent handlers share one entry.
DkgResponse_Merges ==
    /\ finishing > 0
    /\ finishing' = 0
    /\ AppendLog("DKG_INITIATED")
    /\ metrics' = [metrics EXCEPT !.dkg = @ + finishing]
    /\ UNCHANGED <<policyVars, dkgSessions, enclave>>

\* POST /mpc/dkg after the await.
DkgResponse ==
    /\ finishing > 0
    /\ finishing' = finishing - 1
    /\ AppendLog("DKG_INITIATED")
    /\ Inc("dkg")
    /\ UNCHANGED <<policyVars, dkgSessions, enclave>>

\* executeThresholdSigning finds a session when one has state = 'COMPLETED'.
SignerFindsSession == dkgSessions > 0 /\ "state" \in SessionFields

\* POST /mpc/sign for a request that passes the input checks.  Of the verdict
\* only allowed is read: time lock and pending approvals are ignored.
SignRequest(to, amount, cleanup) ==
    /\ ValidateAddress(to)
    /\ EvaluatePolicy(to, amount, cleanup)
    /\ IF evals'[Len(evals')].reasons # {}
       THEN /\ Inc("violations")
            /\ AppendLog("POLICY_BLOCKED")
       ELSE IF SignerFindsSession
            THEN /\ Inc("signing")
                 /\ AppendLog("SIGNING_COMPLETED")
            ELSE UNCHANGED <<metrics, auditLog>>
    /\ UNCHANGED <<dkgSessions, finishing, enclave>>

\* Mutant: the alert is not written to the audit trail.
TamperRequest_Silent ==
    /\ auditLog["HSM_TAMPER"] < MaxTampers
    /\ enclave' = "TAMPERED"
    /\ UNCHANGED <<policyVars, dkgSessions, finishing, auditLog, metrics>>

\* POST /hsm/tamper.
TamperRequest ==
    /\ auditLog["HSM_TAMPER"] < MaxTampers
    /\ enclave' = "TAMPERED"
    /\ AppendLog("HSM_TAMPER")
    /\ UNCHANGED <<policyVars, dkgSessions, finishing, metrics>>

Administer ==
    /\ \/ \E u \in Updates : UpdatePolicy(u)
       \/ \E amount \in Amounts : RecordSpending(amount)
       \/ ResetDailySpending
    /\ UNCHANGED serverVars

ServerTick == ClockTick /\ UNCHANGED serverVars

ServerNext ==
    \/ \E t \in Thresholds, n \in Parties : DkgRequest(t, n)
    \/ DkgResponse
    \/ \E to \in Address, amount \in Amounts, cleanup \in BOOLEAN :
           SignRequest(to, amount, cleanup)
    \/ TamperRequest
    \/ Administer
    \/ ServerTick

\* The continuation of the DKG handler runs.
ServerSpec == ServerInit /\ [][ServerNext]_allVars /\ WF_allVars(DkgResponse)

-----------------------------------------------------------------------------
(* Properties *)

\* The audit trail, the counters and the engines tell one story: every stored
\* session is logged or about to be, every refused evaluation is logged, the
\* counters are those of the trail, and a tampered enclave is on record.
TrailMatchesState ==
    /\ auditLog["DKG_INITIATED"] + finishing = dkgSessions
    /\ auditLog["DKG_INITIATED"] = metrics.dkg
    /\ auditLog["POLICY_BLOCKED"] = Len(evals) - Cardinality(AllowedEvals)
    /\ auditLog["POLICY_BLOCKED"] = metrics.violations
    /\ auditLog["SIGNING_COMPLETED"] = metrics.signing
    /\ (enclave = "TAMPERED") = (auditLog["HSM_TAMPER"] > 0)

\* Every DKG session is eventually on the audit trail, however many sign and
\* DKG requests overtake its handler.
SessionsGetLogged ==
    \A n \in 1..MaxRequests : dkgSessions = n ~> auditLog["DKG_INITIATED"] >= n

=============================================================================
