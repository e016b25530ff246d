----------------------------- MODULE PolicyEngine -----------------------------
(***************************************************************************)
(* The transaction guard of policy/policy_engine.ts.                       *)
(*                                                                         *)
(* A destination can be written in more than one way that validateAddress  *)
(* accepts (it trims; bech32 may be upper or lower case): an address is a  *)
(* pair <<destination, spelling>>.  Two spellings of a destination differ  *)
(* in white space around it.  Amounts and limits are in one common unit.   *)
(* An array of timestamps is the set of its elements <<time, evaluation    *)
(* that pushed it>>: nothing reads their order, and equal times stay apart.*)
(* The default policy's country list, geo-IP flag and approval roles take  *)
(* part in no decision.                                                    *)
(***************************************************************************)
EXTENDS Integers, Sequences, FiniteSets

CONSTANTS
    Dest,            \* destinations with a well-formed address
    Malformed,       \* destinations without one
    Patterned,       \* destinations whose text matches a malicious pattern
    Whitelisted,     \* whitelistedAddresses at the start
    Spelling,        \* "plain" and other spellings
    Amounts,         \* amountUSD of requests
    MaxDaily,        \* maxDailySpendingUSD at the start
    MaxTx,           \* maxTransactionAmountUSD at the start
    VelocityLimit,   \* velocityLimitPerHour at the start
    TreasuryAbove,   \* 100000
    ComplianceAbove, \* 500000
    Hour,            \* 3600 * 1000 in ticks
    Updates,         \* arguments of updatePolicy: records of some of the fields
    MaxSpending,     \* bound on the spending recorded
    MaxClock,        \* bound on the clock
    MaxEvals         \* bound on evaluations

Fields == {"enabled", "whitelistOnly", "whitelist", "blacklist", "blockMalicious",
           "velocityLimit", "maxTx", "maxDaily", "currentDaily"}

Address == (Dest \cup Malformed) \X Spelling

ASSUME PolicyAssumption ==
    /\ Patterned \cup Whitelisted \subseteq Dest \cup Malformed
    /\ Dest \cap Malformed = {}
    /\ "plain" \in Spelling
    /\ Amounts \subseteq Nat
    /\ {MaxDaily, MaxTx, TreasuryAbove, ComplianceAbove, VelocityLimit} \subseteq Int
    /\ {MaxSpending, MaxClock, MaxEvals} \subseteq Nat
    /\ Hour \in Nat \ {0}
    /\ \A u \in Updates :
         /\ DOMAIN u \subseteq Fields
         /\ \A f \in DOMAIN u :
              CASE f \in {"enabled", "whitelistOnly", "blockMalicious"} -> u[f] \in BOOLEAN
                [] f \in {"whitelist", "blacklist"} -> u[f] \subseteq Address
                [] OTHER -> u[f] \in Int

VARIABLES
    clock,             \* Date.now() in ticks
    activePolicy,      \* switches, lists, limits and the spending of the day
    velocityTracker,   \* address -> timestamps, each with its evaluation
    evals              \* evaluations so far: the result (allowed when there are no
                       \* reasons), the velocity limit it was held to, and whether
                       \* the destination was blacklisted

policyVars == <<clock, activePolicy, velocityTracker, evals>>

\* The policy the module starts with.
InitialPolicy == [enabled |-> TRUE, whitelistOnly |-> FALSE,
                  whitelist |-> Whitelisted \X {"plain"},
                  blacklist |-> Patterned \X {"plain"}, blockMalicious |-> TRUE,
                  velocityLimit |-> VelocityLimit, maxTx |-> MaxTx,
                  maxDaily |-> MaxDaily, currentDaily |-> 0]

PolicyInit ==
    /\ clock = 0
    /\ activePolicy = InitialPolicy
    /\ velocityTracker = [a \in Address |-> {}]
    /\ evals = << >>

-----------------------------------------------------------------------------
(* Evaluation *)

ValidateAddress(to) == to[1] \in Dest

\* The comparison of both lists: letter case is ignored, white space is not.
Listed(list, to) == to \in list

\* Mutant: simulateTransaction does not trim.
IsMalicious_Untrimmed(to) == to[1] \in Patterned \/ Listed(activePolicy.blacklist, to)

\* simulateTransaction trims the address first.
IsMalicious(to) == to[1] \in Patterned \/ Listed(activePolicy.blacklist, <<to[1], "plain">>)

\* Mutant: the window is one tick short.
Recent_Short(times) == {t \in times : t[1] > clock - Hour + 1}

Recent(times) == {t \in times : t[1] > clock - Hour}

\* The two early returns leave the velocity tracker alone.
EarlyReturn(to) == ~activePolicy.enabled \/ Listed(activePolicy.blacklist, to)

\* rejectionReasons: the two early returns, then the checks 1 and 3 to 7.
Rejections(to, amount, malicious) ==
    {r \in {"disabled", "blacklist", "address", "whitelist", "amount", "daily",
            "velocity", "malicious"} :
        \/ r = "disabled" /\ ~activePolicy.enabled
        \/ r = "address" /\ activePolicy.enabled /\ ~ValidateAddress(to)
        \/ r = "blacklist" /\ activePolicy.enabled /\ Listed(activePolicy.blacklist, to)
        \/ /\ ~EarlyReturn(to)
           /\ \/ r = "whitelist" /\ activePolicy.whitelistOnly
                                 /\ ~Listed(activePolicy.whitelist, to)
              \/ r = "amount" /\ amount > activePolicy.maxTx
              \/ r = "daily" /\ activePolicy.currentDaily + amount > activePolicy.maxDaily
              \/ /\ r = "velocity"
                 /\ Cardinality(Recent(velocityTracker[to])) >= activePolicy.velocityLimit
              \/ r = "malicious" /\ malicious /\ activePolicy.blockMalicious}

PendingApprovals(to, amount) ==
    IF EarlyReturn(to) THEN {}
    ELSE {role \in {"ADMIN", "TREASURY", "COMPLIANCE"} :
            \/ role = "ADMIN" /\ amount > activePolicy.maxTx
            \/ role = "TREASURY" /\ amount > TreasuryAbove
            \/ role = "COMPLIANCE" /\ amount > ComplianceAbove}

\* The tracker after the evaluation; one call in a hundred also cleans up.
TrackerAfter(to, cleanup) ==
    LET stamp == <<clock, Len(evals) + 1>>
        pushed == [velocityTracker EXCEPT ![to] = Recent(@) \cup {stamp}]
    IN  IF EarlyReturn(to) THEN velocityTracker
        ELSE [a \in Address |-> IF cleanup THEN Recent(pushed[a]) ELSE pushed[a]]

\* evaluatePolicy on the result of simulateTransaction, as the server calls it.
EvaluatePolicy(to, amount, cleanup) ==
    /\ Len(evals) < MaxEvals
    /\ velocityTracker' = TrackerAfter(to, cleanup)
    /\ evals' = Append(evals,
           [to |-> to, amount |-> amount, at |-> clock,
            reasons |-> Rejections(to, amount, IsMalicious(to)),
            pending |-> PendingApprovals(to, amount),
            limit |-> activePolicy.velocityLimit,
            banned |-> /\ activePolicy.blockMalicious
                       /\ <<to[1], "plain">> \in activePolicy.blacklist])
    /\ UNCHANGED <<clock, activePolicy>>

-----------------------------------------------------------------------------
\* updatePolicy(u) merges whatever fields the caller names, limits and the
\* spending of the day included.
UpdatePolicy(u) ==
    /\ activePolicy' = [f \in Fields |-> IF f \in DOMAIN u THEN u[f] ELSE activePolicy[f]]
    /\ UNCHANGED <<clock, velocityTracker, evals>>

RecordSpending(amount) ==
    /\ activePolicy.currentDaily + amount <= MaxSpending
    /\ activePolicy' = [activePolicy EXCEPT !.currentDaily = @ + amount]
    /\ UNCHANGED <<clock, velocityTracker, evals>>

ResetDailySpending ==
    /\ activePolicy' = [activePolicy EXCEPT !.currentDaily = 0]
    /\ UNCHANGED <<clock, velocityTracker, evals>>

ClockTick ==
    /\ clock < MaxClock
    /\ clock' = clock + 1
    /\ UNCHANGED <<activePolicy, velocityTracker, evals>>

PolicyNext ==
    \/ \E to \in Address, amount \in Amounts, cleanup \in BOOLEAN :
           EvaluatePolicy(to, amount, cleanup)
    \/ \E u \in Updates : UpdatePolicy(u)
    \/ \E amount \in Amounts : RecordSpending(amount)
    \/ ResetDailySpending
    \/ ClockTick

PolicySpec == PolicyInit /\ [][PolicyNext]_policyVars

-----------------------------------------------------------------------------
(* Properties *)

AllowedEvals == {i \in DOMAIN evals : evals[i].reasons = {}}

\* Whenever an evaluation is allowed, the hour that ends with it holds no more
\* allowed evaluations of the same address string than velocityLimitPerHour says
\* at that moment, whatever clean-ups, rejected attempts and policy updates,
\* of the limit itself too, fall in between.
VelocityHolds ==
    \A i \in AllowedEvals :
        Cardinality({j \in AllowedEvals : /\ j <= i
                                          /\ evals[j].to = evals[i].to
                                          /\ evals[j].at > evals[i].at - Hour}) <= evals[i].limit

\* A destination on the blacklist of the moment is not allowed in any spelling
\* while malicious contracts are blocked: what the exact comparison lets
\* through, the simulation's trimmed one catches.
BlacklistHolds ==
    \A i \in AllowedEvals : ~evals[i].banned

=============================================================================
