--------------------------- MODULE NetworkProofs ----------------------------
(***************************************************************************)
(* Proofs about the two components that face the network.                  *)
(*                                                                         *)
(* The transaction guard, for any addresses, amounts, limits and policies, *)
(* and the handlers of the API server that drive it: the velocity limit    *)
(* and the blacklist hold in the policy engine, the server uses the policy *)
(* engine as specified, and its audit trail matches its state.             *)
(*                                                                         *)
(* The peer transport, for any number of peers, sockets and connections:   *)
(* the map of clients names only live sockets, no wanted peer is given up, *)
(* and a closed transport stays quiet.                                     *)
(***************************************************************************)
EXTENDS ApiServer, Transport, FiniteSetTheorems, TLAPS

-----------------------------------------------------------------------------
(* The inductive invariant of the policy engine *)

Reasons == {"disabled", "blacklist", "address", "whitelist", "amount", "daily", "velocity",
            "malicious"}
Roles == {"ADMIN", "TREASURY", "COMPLIANCE"}

Evaluation == [to : Address, amount : Amounts, at : Nat, reasons : SUBSET Reasons,
               pending : SUBSET Roles, limit : Int, banned : BOOLEAN]

PolicyTypes ==
    /\ clock \in Nat
    /\ DOMAIN activePolicy = Fields
    /\ activePolicy.velocityLimit \in Int
    /\ velocityTracker \in [Address -> SUBSET (Nat \X Nat)]
    /\ evals \in Seq(Evaluation)

\* The tracker can be counted, and no evaluation lies in the future.
TrackerFinite == \A a \in Address : IsFiniteSet(velocityTracker[a])
PastEvals == \A i \in DOMAIN evals : evals[i].at <= clock

\* The timestamp of an allowed evaluation is in the tracker for as long as the
\* window of a later evaluation can reach it.
TrackerCovers ==
    \A j \in AllowedEvals :
        evals[j].at > clock - Hour => <<evals[j].at, j>> \in velocityTracker[evals[j].to]

PolicyInv ==
    /\ PolicyTypes
    /\ TrackerFinite
    /\ PastEvals
    /\ TrackerCovers
    /\ VelocityHolds
    /\ BlacklistHolds

\* Allowed evaluations of an address whose window has not passed.
AllowedNow(to) == {j \in AllowedEvals : evals[j].to = to /\ evals[j].at > clock - Hour}

-----------------------------------------------------------------------------
(* One evaluation *)

\* Allowed evaluations are evaluations, which are numbered.
LEMMA AllowedAreEvals ==
    ASSUME PolicyTypes
    PROVE  /\ Len(evals) \in Nat /\ DOMAIN evals = 1..Len(evals)
           /\ IsFiniteSet(AllowedEvals) /\ AllowedEvals \subseteq 1..Len(evals)
           /\ Cardinality(AllowedEvals) \in Nat
  <1>1. Len(evals) \in Nat /\ DOMAIN evals = 1..Len(evals)
    BY DEF PolicyTypes
  <1>2. AllowedEvals \subseteq 1..Len(evals)
    BY <1>1 DEF AllowedEvals
  <1>3. IsFiniteSet(1..Len(evals))
    BY <1>1, FS_Interval
  <1>4. IsFiniteSet(AllowedEvals)
    BY <1>2, <1>3, FS_Subset
  <1> QED
    BY <1>1, <1>2, <1>4, FS_CardinalityType

\* The fields of an evaluation that the counting needs are of their types.
LEMMA EvaluationFields ==
    ASSUME PolicyTypes, NEW i \in DOMAIN evals
    PROVE  evals[i].to \in Address /\ evals[i].at \in Nat
  <1>1. evals[i] \in Evaluation
    BY DEF PolicyTypes
  <1> QED
    BY <1>1 DEF Evaluation

\* Every allowed evaluation of the last hour has a timestamp of its own in what
\* the velocity check counts.
LEMMA TrackerCounts ==
    ASSUME PolicyInv, NEW to \in Address
    PROVE  /\ IsFiniteSet(AllowedNow(to)) /\ Cardinality(AllowedNow(to)) \in Nat
           /\ Cardinality(Recent(velocityTracker[to])) \in Nat
           /\ Cardinality(AllowedNow(to)) <= Cardinality(Recent(velocityTracker[to]))
  <1> DEFINE R == Recent(velocityTracker[to])
             f == [j \in AllowedNow(to) |-> <<evals[j].at, j>>]
  <1>1. IsFiniteSet(R)
    <2>1. R \subseteq velocityTracker[to] /\ IsFiniteSet(velocityTracker[to])
      BY DEF Recent, PolicyInv, TrackerFinite
    <2> QED
      BY <2>1, FS_Subset
  <1>2. ASSUME NEW j \in AllowedNow(to) PROVE <<evals[j].at, j>> \in R
    BY DEF AllowedNow, Recent, PolicyInv, TrackerCovers
  <1>3. f \in Injection(AllowedNow(to), R)
    <2>1. f \in [AllowedNow(to) -> R]
      BY <1>2
    <2>2. \A i, j \in AllowedNow(to) : f[i] = f[j] => i = j
      OBVIOUS
    <2> HIDE DEF f, R
    <2> QED
      BY <2>1, <2>2 DEF Injection, IsInjective
  <1> HIDE DEF f, R
  <1>4. IsFiniteSet(AllowedNow(to)) /\ Cardinality(AllowedNow(to)) <= Cardinality(R)
    BY <1>1, <1>3, FS_Injection
  <1> QED
    BY <1>1, <1>4, FS_CardinalityType DEF R

\* An evaluation without reasons went past the early returns, found room under the
\* velocity limit and, if malicious contracts are blocked, no blacklisted destination.
LEMMA NoReasons ==
    ASSUME NEW to, NEW amount, NEW malicious, Rejections(to, amount, malicious) = {}
    PROVE  /\ ~EarlyReturn(to)
           /\ ~(Cardinality(Recent(velocityTracker[to])) >= activePolicy.velocityLimit)
           /\ ~(malicious /\ activePolicy.blockMalicious)
  <1>1. /\ "disabled" \notin Rejections(to, amount, malicious)
        /\ "blacklist" \notin Rejections(to, amount, malicious)
        /\ "velocity" \notin Rejections(to, amount, malicious)
        /\ "malicious" \notin Rejections(to, amount, malicious)
    OBVIOUS
  <1>2. activePolicy.enabled
    BY <1>1 DEF Rejections
  <1>3. ~Listed(activePolicy.blacklist, to)
    BY <1>1, <1>2 DEF Rejections
  <1>4. ~EarlyReturn(to)
    BY <1>2, <1>3 DEF EarlyReturn
  <1>5. ~(Cardinality(Recent(velocityTracker[to])) >= activePolicy.velocityLimit)
    BY <1>1, <1>4 DEF Rejections
  <1>6. ~(malicious /\ activePolicy.blockMalicious)
    BY <1>1, <1>4 DEF Rejections
  <1> QED
    BY <1>4, <1>5, <1>6

\* What an evaluation appends, and which evaluations are allowed after it.
LEMMA EvaluationAppends ==
    ASSUME PolicyTypes, NEW to \in Address, NEW amount \in Amounts, NEW cleanup \in BOOLEAN,
           EvaluatePolicy(to, amount, cleanup)
    PROVE  LET n == Len(evals) + 1
               reasons == Rejections(to, amount, IsMalicious(to))
           IN  /\ evals' \in Seq(Evaluation) /\ Len(evals') = n
               /\ \A i \in 1..Len(evals) : evals'[i] = evals[i]
               /\ evals'[n].to = to /\ evals'[n].at = clock /\ evals'[n].reasons = reasons
               /\ evals'[n].limit = activePolicy.velocityLimit
               /\ evals'[n].banned =
                     (/\ activePolicy.blockMalicious
                      /\ <<to[1], "plain">> \in activePolicy.blacklist)
               /\ AllowedEvals' = AllowedEvals \cup IF reasons = {} THEN {n} ELSE {}
  <1> DEFINE n == Len(evals) + 1
             reasons == Rejections(to, amount, IsMalicious(to))
             limit == activePolicy.velocityLimit
             banned == /\ activePolicy.blockMalicious
                       /\ <<to[1], "plain">> \in activePolicy.blacklist
             e == [to |-> to, amount |-> amount, at |-> clock, reasons |-> reasons,
                   pending |-> PendingApprovals(to, amount), limit |-> limit, banned |-> banned]
  <1>1. evals' = Append(evals, e)
    BY DEF EvaluatePolicy
  <1>2. /\ e.to = to /\ e.at = clock /\ e.reasons = reasons
        /\ e.limit = limit /\ e.banned = banned
        /\ e \in Evaluation
    <2>1. reasons \in SUBSET Reasons
      BY DEF Rejections, Reasons
    <2>2. PendingApprovals(to, amount) \in SUBSET Roles
      BY DEF PendingApprovals, Roles
    <2>3. banned \in BOOLEAN /\ limit \in Int
      BY DEF PolicyTypes
    <2> HIDE DEF reasons, banned, limit
    <2> QED
      BY <2>1, <2>2, <2>3 DEF Evaluation, PolicyTypes
  <1> HIDE DEF e, reasons, banned, limit
  <1>3. /\ evals' \in Seq(Evaluation) /\ Len(evals') = n /\ Len(evals) \in Nat
        /\ \A i \in 1..Len(evals) : evals'[i] = evals[i]
        /\ evals'[n] = e
    BY <1>1, <1>2 DEF PolicyTypes
  <1>4. DOMAIN evals = 1..Len(evals) /\ DOMAIN evals' = 1..n
    BY <1>3 DEF PolicyTypes
  <1>5. AllowedEvals' = AllowedEvals \cup IF reasons = {} THEN {n} ELSE {}
    BY <1>2, <1>3, <1>4 DEF AllowedEvals
  <1> QED
    BY <1>2, <1>3, <1>5 DEF reasons, banned, limit

\* The tracker keeps what is within the hour and, past the early returns, has the
\* timestamp of this evaluation - also when this call cleans up.
LEMMA EvaluationTracks ==
    ASSUME PolicyInv, NEW to \in Address, NEW amount, NEW cleanup \in BOOLEAN,
           EvaluatePolicy(to, amount, cleanup)
    PROVE  /\ velocityTracker' \in [Address -> SUBSET (Nat \X Nat)]
           /\ TrackerFinite'
           /\ \A a \in Address : \A t \in velocityTracker[a] :
                 t[1] > clock - Hour => t \in velocityTracker'[a]
           /\ ~EarlyReturn(to) => <<clock, Len(evals) + 1>> \in velocityTracker'[to]
  <1> DEFINE stamp == <<clock, Len(evals) + 1>>
             pushed == [velocityTracker EXCEPT ![to] = Recent(@) \cup {stamp}]
  <1>1. /\ velocityTracker \in [Address -> SUBSET (Nat \X Nat)]
        /\ clock \in Nat /\ Len(evals) \in Nat /\ Hour \in Nat \ {0}
        /\ \A a \in Address : IsFiniteSet(velocityTracker[a])
    BY PolicyAssumption DEF PolicyInv, PolicyTypes, TrackerFinite
  <1>2. CASE EarlyReturn(to)
    BY <1>1, <1>2 DEF EvaluatePolicy, TrackerAfter, TrackerFinite
  <1>3. CASE ~EarlyReturn(to)
    <2>1. velocityTracker' = [a \in Address |-> IF cleanup THEN Recent(pushed[a]) ELSE pushed[a]]
      BY <1>3 DEF EvaluatePolicy, TrackerAfter
    <2>2. stamp \in Nat \X Nat /\ stamp[1] = clock /\ clock > clock - Hour
      BY <1>1
    <2>3. ASSUME NEW times, IsFiniteSet(times), times \subseteq Nat \X Nat
          PROVE  /\ Recent(times) \subseteq times
                 /\ IsFiniteSet(Recent(times)) /\ Recent(times) \subseteq Nat \X Nat
                 /\ \A t \in times : t[1] > clock - Hour => t \in Recent(times)
      BY <2>3, FS_Subset DEF Recent
    <2> HIDE DEF stamp
    <2>4. ASSUME NEW a \in Address
          PROVE  /\ IsFiniteSet(pushed[a]) /\ pushed[a] \subseteq Nat \X Nat
                 /\ \A t \in velocityTracker[a] : t[1] > clock - Hour => t \in pushed[a]
                 /\ a = to => stamp \in pushed[a]
      <3>1. CASE a = to
        <4>1. pushed[a] = Recent(velocityTracker[a]) \cup {stamp}
          BY <1>1, <3>1
        <4>2. IsFiniteSet(velocityTracker[a]) /\ velocityTracker[a] \subseteq Nat \X Nat
          BY <1>1
        <4>3. IsFiniteSet(Recent(velocityTracker[a]) \cup {stamp})
          BY <2>3, <4>2, FS_AddElement
        <4> QED
          BY <2>2, <2>3, <4>1, <4>2, <4>3
      <3>2. CASE a # to
        BY <1>1, <3>2
      <3> QED
        BY <3>1, <3>2
    <2> HIDE DEF pushed
    <2>5. ASSUME NEW a \in Address
          PROVE  /\ IsFiniteSet(velocityTracker'[a]) /\ velocityTracker'[a] \subseteq Nat \X Nat
                 /\ \A t \in velocityTracker[a] : t[1] > clock - Hour => t \in velocityTracker'[a]
                 /\ a = to => stamp \in velocityTracker'[a]
      <3>1. velocityTracker'[a] = IF cleanup THEN Recent(pushed[a]) ELSE pushed[a]
        BY <2>1
      <3> QED
        BY <2>2, <2>3, <2>4, <3>1
    <2>6. velocityTracker' \in [Address -> SUBSET (Nat \X Nat)]
      BY <2>1, <2>5
    <2> QED
      BY <1>3, <2>5, <2>6 DEF TrackerFinite, stamp
  <1> QED
    BY <1>2, <1>3

-----------------------------------------------------------------------------
(* Every step of the policy engine keeps the invariant *)

\* The policy engine starts with no evaluations and an empty tracker.
LEMMA InitEstablishes == ASSUME PolicyInit PROVE PolicyInv
  <1>1. DOMAIN InitialPolicy = Fields /\ InitialPolicy.velocityLimit \in Int
    BY PolicyAssumption DEF InitialPolicy, Fields
  <1>2. PolicyTypes
    BY <1>1 DEF PolicyInit, PolicyTypes
  <1>3. evals = << >> /\ AllowedEvals = {}
    BY DEF PolicyInit, AllowedEvals
  <1>4. TrackerFinite
    BY FS_EmptySet DEF PolicyInit, TrackerFinite
  <1> QED
    BY <1>2, <1>3, <1>4 DEF PolicyInv, PastEvals, TrackerCovers, VelocityHolds, BlacklistHolds

\* In the window of an allowed evaluation made now there is room for it: the tracker
\* had counted all the others.
LEMMA RoomInWindow ==
    ASSUME PolicyInv, NEW to \in Address, NEW malicious, NEW amount,
           Rejections(to, amount, malicious) = {}, NEW n, n \notin AllowedNow(to)
    PROVE  Cardinality(AllowedNow(to) \cup {n}) <= activePolicy.velocityLimit
  <1>1. activePolicy.velocityLimit \in Int
    BY DEF PolicyInv, PolicyTypes
  <1>2. ~(Cardinality(Recent(velocityTracker[to])) >= activePolicy.velocityLimit)
    BY NoReasons
  <1>3. Cardinality(AllowedNow(to)) \in Nat /\ Cardinality(AllowedNow(to)) < activePolicy.velocityLimit
    BY <1>1, <1>2, TrackerCounts
  <1>4. Cardinality(AllowedNow(to) \cup {n}) = Cardinality(AllowedNow(to)) + 1
    BY TrackerCounts, FS_AddElement
  <1> QED
    BY <1>1, <1>3, <1>4

\* evaluatePolicy keeps the limit: the tracker has counted what is allowed already.
LEMMA EvaluateKeeps ==
    ASSUME PolicyInv, NEW to \in Address, NEW amount \in Amounts, NEW cleanup \in BOOLEAN,
           EvaluatePolicy(to, amount, cleanup)
    PROVE  PolicyInv'
  <1> DEFINE n == Len(evals) + 1
             reasons == Rejections(to, amount, IsMalicious(to))
  <1>1. /\ evals' \in Seq(Evaluation) /\ Len(evals') = n
        /\ \A i \in 1..Len(evals) : evals'[i] = evals[i]
        /\ evals'[n].to = to /\ evals'[n].at = clock /\ evals'[n].reasons = reasons
        /\ evals'[n].limit = activePolicy.velocityLimit
        /\ evals'[n].banned = (/\ activePolicy.blockMalicious
                               /\ <<to[1], "plain">> \in activePolicy.blacklist)
        /\ AllowedEvals' = AllowedEvals \cup IF reasons = {} THEN {n} ELSE {}
    BY EvaluationAppends DEF PolicyInv
  <1>2. clock' = clock /\ activePolicy' = activePolicy
    BY DEF EvaluatePolicy
  <1>3. /\ Len(evals) \in Nat /\ DOMAIN evals = 1..Len(evals) /\ DOMAIN evals' = 1..n
        /\ AllowedEvals \subseteq 1..Len(evals)
        /\ clock \in Nat /\ Hour \in Nat \ {0}
    BY <1>1, AllowedAreEvals, PolicyAssumption DEF PolicyInv, PolicyTypes
  <1>4. ASSUME NEW j \in AllowedEvals
        PROVE  j \in 1..Len(evals) /\ j # n /\ evals'[j] = evals[j] /\ evals[j].at <= clock
                  /\ evals[j].to \in Address /\ evals[j].at \in Nat
    <2>1. j \in 1..Len(evals) /\ j # n
      BY <1>3
    <2>2. evals[j].to \in Address /\ evals[j].at \in Nat
      BY <1>3, <2>1, EvaluationFields DEF PolicyInv
    <2> QED
      BY <1>1, <1>3, <2>1, <2>2 DEF PolicyInv, PastEvals
  <1> HIDE DEF n, reasons
  <1>5. PolicyTypes' /\ TrackerFinite'
    BY <1>1, <1>2, EvaluationTracks DEF PolicyInv, PolicyTypes
  <1>6. PastEvals'
    <2>1. ASSUME NEW i \in 1..n PROVE evals'[i].at <= clock
      BY <1>1, <1>3 DEF PolicyInv, PastEvals, n
    <2> QED
      BY <1>2, <1>3, <2>1 DEF PastEvals
  <1>7. ASSUME reasons = {}
        PROVE  ~EarlyReturn(to) /\ ~(IsMalicious(to) /\ activePolicy.blockMalicious)
    BY <1>7, NoReasons DEF reasons
  <1>8. TrackerCovers'
    <2>1. ASSUME NEW j \in AllowedEvals, evals[j].at > clock - Hour
          PROVE  <<evals[j].at, j>> \in velocityTracker'[evals[j].to]
      <3> DEFINE t == <<evals[j].at, j>>
      <3>1. t \in velocityTracker[evals[j].to] /\ t[1] > clock - Hour
        BY <2>1 DEF PolicyInv, TrackerCovers
      <3>2. evals[j].to \in Address
        BY <1>4
      <3> HIDE DEF t
      <3>3. t \in velocityTracker'[evals[j].to]
        BY <3>1, <3>2, EvaluationTracks
      <3> QED
        BY <3>3 DEF t
    <2>2. reasons = {} => <<clock, n>> \in velocityTracker'[to]
      BY <1>7, EvaluationTracks DEF n
    <2>3. ASSUME NEW j \in AllowedEvals', evals'[j].at > clock - Hour
          PROVE  <<evals'[j].at, j>> \in velocityTracker'[evals'[j].to]
      <3>1. CASE j \in AllowedEvals
        BY <1>4, <2>1, <2>3, <3>1
      <3>2. CASE j = n /\ reasons = {}
        BY <1>1, <2>2, <3>2
      <3> QED
        BY <1>1, <3>1, <3>2
    <2> QED
      BY <1>2, <2>3 DEF TrackerCovers
  <1>9. BlacklistHolds'
    <2>1. reasons = {} => ~evals'[n].banned
      BY <1>1, <1>7 DEF IsMalicious, Listed
    <2>2. ASSUME NEW j \in AllowedEvals' PROVE ~evals'[j].banned
      <3>1. CASE j \in AllowedEvals
        BY <1>4, <3>1 DEF PolicyInv, BlacklistHolds
      <3> QED
        BY <1>1, <2>1, <3>1
    <2> QED
      BY <2>2 DEF BlacklistHolds
  <1>10. VelocityHolds'
    <2> DEFINE W(i) == {j \in AllowedEvals : /\ j <= i
                                             /\ evals[j].to = evals[i].to
                                             /\ evals[j].at > evals[i].at - Hour}
               V(i) == {j \in AllowedEvals' : /\ j <= i
                                              /\ evals'[j].to = evals'[i].to
                                              /\ evals'[j].at > evals'[i].at - Hour}
    <2>1. ASSUME reasons = {} PROVE Cardinality(V(n)) <= evals'[n].limit
      <3>1. n \notin AllowedNow(to) /\ n \in Nat
        BY <1>3, <1>4 DEF AllowedNow, n
      <3>2. Cardinality(AllowedNow(to) \cup {n}) <= evals'[n].limit
        BY <1>1, <2>1, <3>1, RoomInWindow DEF reasons
      <3>3. AllowedEvals' = AllowedEvals \cup {n}
        BY <1>1, <2>1
      <3>4. ASSUME NEW j \in V(n) PROVE j \in AllowedNow(to) \cup {n}
        BY <1>1, <1>4, <3>3, <3>4 DEF AllowedNow
      <3>5. ASSUME NEW j \in AllowedNow(to) PROVE j \in V(n)
        <4>1. j \in AllowedEvals /\ j \in 1..Len(evals)
          BY <1>4 DEF AllowedNow
        <4>2. j <= n
          BY <1>3, <4>1 DEF n
        <4> QED
          BY <1>1, <1>4, <3>3, <4>1, <4>2 DEF AllowedNow
      <3>6. n \in V(n)
        BY <1>1, <1>3, <3>1, <3>3
      <3>7. V(n) = AllowedNow(to) \cup {n}
        BY <3>4, <3>5, <3>6
      <3> QED
        BY <3>2, <3>7
    <2>2. ASSUME NEW i \in AllowedEvals PROVE Cardinality(V(i)) <= evals'[i].limit
      <3>1. i \in 1..Len(evals) /\ evals'[i] = evals[i] /\ ~(n <= i)
        BY <1>3, <1>4 DEF n
      <3>2. ASSUME NEW j \in V(i) PROVE j \in AllowedEvals
        BY <1>1, <3>1
      <3>3. ASSUME NEW j \in AllowedEvals PROVE (j \in V(i)) = (j \in W(i))
        BY <1>1, <1>4, <3>1
      <3>4. V(i) = W(i)
        BY <3>2, <3>3
      <3>5. Cardinality(W(i)) <= evals[i].limit
        BY DEF PolicyInv, VelocityHolds
      <3> HIDE DEF V, W
      <3> QED
        BY <3>1, <3>4, <3>5
    <2>3. ASSUME NEW i \in AllowedEvals' PROVE Cardinality(V(i)) <= evals'[i].limit
      <3> HIDE DEF V
      <3> QED
        BY <1>1, <2>1, <2>2
    <2> QED
      BY <2>3 DEF VelocityHolds
  <1> QED
    BY <1>5, <1>6, <1>8, <1>9, <1>10 DEF PolicyInv

\* Time, updates of the policy and spending touch neither the tracker nor the
\* evaluations.
LEMMA OtherStepsKeep ==
    ASSUME PolicyInv, \/ \E u \in Updates : UpdatePolicy(u)
                      \/ \E amount \in Amounts : RecordSpending(amount)
                      \/ ResetDailySpending
                      \/ ClockTick
                      \/ UNCHANGED policyVars
    PROVE  PolicyInv'
  <1>1. /\ UNCHANGED <<velocityTracker, evals>>
        /\ clock' \in Nat /\ clock' >= clock /\ clock \in Nat
    BY DEF UpdatePolicy, RecordSpending, ResetDailySpending, ClockTick, policyVars, PolicyInv, PolicyTypes
  <1>2. PolicyTypes'
    <2>1. DOMAIN activePolicy = Fields /\ activePolicy.velocityLimit \in Int
      BY DEF PolicyInv, PolicyTypes
    <2>2. ASSUME NEW u \in Updates, UpdatePolicy(u)
          PROVE  DOMAIN activePolicy' = Fields /\ activePolicy'.velocityLimit \in Int
      <3>1. "velocityLimit" \in DOMAIN u => u["velocityLimit"] \in Int
        BY PolicyAssumption
      <3>2. "velocityLimit" \in Fields
        BY DEF Fields
      <3> QED
        BY <2>1, <2>2, <3>1, <3>2 DEF UpdatePolicy
    <2>3. ASSUME NEW amount \in Amounts, RecordSpending(amount)
          PROVE  DOMAIN activePolicy' = Fields /\ activePolicy'.velocityLimit \in Int
      BY <2>1, <2>3 DEF RecordSpending, Fields
    <2>4. ASSUME ResetDailySpending
          PROVE  DOMAIN activePolicy' = Fields /\ activePolicy'.velocityLimit \in Int
      BY <2>1, <2>4 DEF ResetDailySpending, Fields
    <2>5. ASSUME ClockTick \/ UNCHANGED policyVars
          PROVE  DOMAIN activePolicy' = Fields /\ activePolicy'.velocityLimit \in Int
      BY <2>1, <2>5 DEF ClockTick, policyVars
    <2>6. DOMAIN activePolicy' = Fields /\ activePolicy'.velocityLimit \in Int
      BY <2>2, <2>3, <2>4, <2>5
    <2> QED
      BY <1>1, <2>6 DEF PolicyInv, PolicyTypes
  <1>3. AllowedEvals' = AllowedEvals
    BY <1>1 DEF AllowedEvals
  <1>4. \A i \in DOMAIN evals : evals[i].at \in Nat
    BY EvaluationFields DEF PolicyInv
  <1>5. AllowedEvals \subseteq DOMAIN evals /\ Hour \in Nat
    BY PolicyAssumption DEF AllowedEvals
  <1>6. TrackerFinite' /\ PastEvals'
    BY <1>1, <1>4 DEF PolicyInv, TrackerFinite, PastEvals
  <1>7. TrackerCovers'
    BY <1>1, <1>3, <1>4, <1>5 DEF PolicyInv, TrackerCovers
  <1>8. VelocityHolds' /\ BlacklistHolds'
    BY <1>1, <1>3 DEF PolicyInv, VelocityHolds, BlacklistHolds
  <1> QED
    BY <1>2, <1>6, <1>7, <1>8 DEF PolicyInv

\* Every step of the policy engine keeps the invariant.
LEMMA PolicyStep == PolicyInv /\ [PolicyNext]_policyVars => PolicyInv'
  <1> SUFFICES ASSUME PolicyInv, [PolicyNext]_policyVars PROVE PolicyInv'
    OBVIOUS
  <1>1. CASE \E to \in Address, amount \in Amounts, cleanup \in BOOLEAN :
               EvaluatePolicy(to, amount, cleanup)
    BY <1>1, EvaluateKeeps
  <1> QED
    BY <1>1, OtherStepsKeep DEF PolicyNext

\* The invariant holds throughout.
LEMMA PolicyInvariant == PolicySpec => []PolicyInv
  <1> QED
    BY InitEstablishes, PolicyStep, PTL DEF PolicySpec

-----------------------------------------------------------------------------
(* The server *)

\* A handler evaluates once or leaves the policy engine alone.
LEMMA ServerStepIsPolicyStep == [ServerNext]_allVars => [PolicyNext]_policyVars
  <1> SUFFICES ASSUME [ServerNext]_allVars PROVE [PolicyNext]_policyVars
    OBVIOUS
  <1>1. CASE \E t \in Thresholds, n \in Parties : DkgRequest(t, n)
    BY <1>1 DEF DkgRequest
  <1>2. CASE DkgResponse \/ TamperRequest
    BY <1>2 DEF DkgResponse, TamperRequest
  <1>3. CASE \E to \in Address, amount \in Amounts, cleanup \in BOOLEAN :
               SignRequest(to, amount, cleanup)
    BY <1>3 DEF SignRequest, PolicyNext
  <1>4. CASE Administer
    BY <1>4 DEF Administer, PolicyNext
  <1>5. CASE ServerTick
    BY <1>5 DEF ServerTick, PolicyNext
  <1>6. CASE UNCHANGED allVars
    BY <1>6 DEF allVars
  <1> QED
    BY <1>1, <1>2, <1>3, <1>4, <1>5, <1>6 DEF ServerNext

\* The handlers and the administration between them drive the policy engine only
\* through its own operations: requests that overtake each other, interrupted DKG
\* handlers and tamper alerts leave its state alone.
THEOREM ServerDrivesPolicy == ServerSpec => PolicySpec
  <1>1. ServerInit => PolicyInit
    BY DEF ServerInit
  <1> QED
    BY <1>1, ServerStepIsPolicyStep, PTL DEF ServerSpec, PolicySpec

\* Whenever evaluatePolicy allows a transaction, the hour that ends with it holds
\* no more allowed ones to the same address string than the velocityLimitPerHour
\* of that moment, for any partial updates of the policy, of the limit too:
\* rejected attempts only use the limit up, and a clean-up never frees any of it.
THEOREM VelocityLimited == ServerSpec => []VelocityHolds
  <1>1. PolicyInv => VelocityHolds
    BY DEF PolicyInv
  <1> QED
    BY <1>1, ServerDrivesPolicy, PolicyInvariant, PTL

\* While malicious contracts are blocked no spelling of a blacklisted destination is
\* allowed, although evaluatePolicy compares the untrimmed text: the simulation's
\* verdict catches what the exact comparison lets through.
THEOREM BlacklistRespected == ServerSpec => []BlacklistHolds
  <1>1. PolicyInv => BlacklistHolds
    BY DEF PolicyInv
  <1> QED
    BY <1>1, ServerDrivesPolicy, PolicyInvariant, PTL

ServerTypes ==
    /\ dkgSessions \in Nat
    /\ finishing \in Nat
    /\ auditLog \in [Actions -> Nat]
    /\ metrics \in [dkg : Nat, signing : Nat, violations : Nat]

ServerInv == PolicyTypes /\ ServerTypes /\ TrailMatchesState

\* An evaluation adds one to the evaluations, and to the refused ones if it has reasons.
LEMMA RefusalsCounted ==
    ASSUME PolicyTypes, NEW to \in Address, NEW amount \in Amounts, NEW cleanup \in BOOLEAN,
           EvaluatePolicy(to, amount, cleanup)
    PROVE  /\ evals'[Len(evals')].reasons = Rejections(to, amount, IsMalicious(to))
           /\ Len(evals) - Cardinality(AllowedEvals) \in Int
           /\ Len(evals') - Cardinality(AllowedEvals') =
                (Len(evals) - Cardinality(AllowedEvals))
                   + IF Rejections(to, amount, IsMalicious(to)) = {} THEN 0 ELSE 1
  <1> DEFINE reasons == Rejections(to, amount, IsMalicious(to))
             n == Len(evals) + 1
  <1>1. /\ Len(evals') = n /\ evals'[n].reasons = reasons
        /\ AllowedEvals' = AllowedEvals \cup IF reasons = {} THEN {n} ELSE {}
    <2>1. /\ evals' \in Seq(Evaluation) /\ Len(evals') = n
          /\ \A i \in 1..Len(evals) : evals'[i] = evals[i]
          /\ evals'[n].to = to /\ evals'[n].at = clock /\ evals'[n].reasons = reasons
          /\ evals'[n].limit = activePolicy.velocityLimit
          /\ evals'[n].banned = (/\ activePolicy.blockMalicious
                                 /\ <<to[1], "plain">> \in activePolicy.blacklist)
          /\ AllowedEvals' = AllowedEvals \cup IF reasons = {} THEN {n} ELSE {}
      BY EvaluationAppends
    <2> HIDE DEF n, reasons
    <2> QED
      BY <2>1
  <1>2. /\ Len(evals) \in Nat /\ IsFiniteSet(AllowedEvals) /\ Cardinality(AllowedEvals) \in Nat
        /\ n \notin AllowedEvals
    BY AllowedAreEvals
  <1>3. Cardinality(AllowedEvals \cup {n}) = Cardinality(AllowedEvals) + 1
    BY <1>2, FS_AddElement
  <1> HIDE DEF reasons
  <1>4. CASE reasons = {}
    BY <1>1, <1>2, <1>3, <1>4 DEF reasons
  <1>5. CASE reasons # {}
    <2>1. AllowedEvals' = AllowedEvals
      BY <1>1, <1>5
    <2>2. Cardinality(AllowedEvals') = Cardinality(AllowedEvals)
      BY <2>1
    <2>3. Len(evals') - Cardinality(AllowedEvals') = Len(evals) - Cardinality(AllowedEvals) + 1
      BY <1>1, <1>2, <2>2
    <2> QED
      BY <1>1, <1>2, <1>5, <2>3 DEF reasons
  <1> QED
    BY <1>4, <1>5

\* The sign handler writes one entry and moves the counter of that entry, or neither.
LEMMA SignRequestKeepsTrail ==
    ASSUME ServerInv, NEW to \in Address, NEW amount \in Amounts, NEW cleanup \in BOOLEAN,
           SignRequest(to, amount, cleanup)
    PROVE  ServerTypes' /\ TrailMatchesState'
  <1> DEFINE refused == Rejections(to, amount, IsMalicious(to)) # {}
             before == Len(evals) - Cardinality(AllowedEvals)
  <1>1. /\ evals'[Len(evals')].reasons = Rejections(to, amount, IsMalicious(to))
        /\ before \in Int
        /\ before' = before + IF refused THEN 1 ELSE 0
    BY RefusalsCounted DEF SignRequest, ServerInv
  <1>2. UNCHANGED <<dkgSessions, finishing, enclave>>
    BY DEF SignRequest
  <1> HIDE DEF before
  <1>3. /\ auditLog \in [Actions -> Nat] /\ metrics \in [dkg : Nat, signing : Nat, violations : Nat]
        /\ auditLog["POLICY_BLOCKED"] = before
    BY DEF ServerInv, ServerTypes, TrailMatchesState, before
  <1>4. CASE refused
    <2>1. /\ metrics' = [metrics EXCEPT !["violations"] = @ + 1]
          /\ auditLog' = [auditLog EXCEPT !["POLICY_BLOCKED"] = @ + 1]
      BY <1>1, <1>4 DEF SignRequest, Inc, AppendLog
    <2>2. auditLog'["POLICY_BLOCKED"] = Len(evals') - Cardinality(AllowedEvals')
      BY <1>1, <1>3, <1>4, <2>1 DEF before, Actions
    <2>3. ServerTypes'
      BY <1>2, <2>1 DEF ServerInv, ServerTypes, Actions
    <2> QED
      BY <1>2, <2>1, <2>2, <2>3 DEF ServerInv, ServerTypes, TrailMatchesState, Actions
  <1>5. CASE ~refused
    <2>1. before' = before
      BY <1>1, <1>5
    <2>2. CASE SignerFindsSession
      <3>1. /\ metrics' = [metrics EXCEPT !["signing"] = @ + 1]
            /\ auditLog' = [auditLog EXCEPT !["SIGNING_COMPLETED"] = @ + 1]
        BY <1>1, <1>5, <2>2 DEF SignRequest, Inc, AppendLog
      <3>2. auditLog'["POLICY_BLOCKED"] = Len(evals') - Cardinality(AllowedEvals')
        BY <1>3, <2>1, <3>1 DEF before, Actions
      <3>3. ServerTypes'
        BY <1>2, <3>1 DEF ServerInv, ServerTypes, Actions
      <3> QED
        BY <1>2, <3>1, <3>2, <3>3 DEF ServerInv, ServerTypes, TrailMatchesState, Actions
    <2>3. CASE ~SignerFindsSession
      <3>1. UNCHANGED <<metrics, auditLog>>
        BY <1>1, <1>5, <2>3 DEF SignRequest
      <3> QED
        BY <1>2, <2>1, <3>1 DEF ServerInv, ServerTypes, TrailMatchesState, before
    <2> QED
      BY <2>2, <2>3
  <1> QED
    BY <1>4, <1>5

\* Every handler keeps the audit trail, the counters and the state in agreement.
LEMMA ServerStep == ServerInv /\ PolicyInv' /\ [ServerNext]_allVars => ServerInv'
  <1> SUFFICES ASSUME ServerInv, PolicyInv', [ServerNext]_allVars PROVE ServerInv'
    OBVIOUS
  <1>1. CASE \E t \in Thresholds, n \in Parties : DkgRequest(t, n)
    <2>1. dkgSessions' = dkgSessions + 1 /\ finishing' = finishing + 1
             /\ UNCHANGED <<evals, auditLog, metrics, enclave>>
      BY <1>1 DEF DkgRequest, policyVars
    <2>2. AllowedEvals' = AllowedEvals
      BY <2>1 DEF AllowedEvals
    <2> QED
      BY <2>1, <2>2 DEF ServerInv, ServerTypes, TrailMatchesState, PolicyInv, Actions
  <1>2. CASE DkgResponse
    <2>1. /\ finishing > 0 /\ finishing' = finishing - 1
          /\ auditLog' = [auditLog EXCEPT !["DKG_INITIATED"] = @ + 1]
          /\ metrics' = [metrics EXCEPT !["dkg"] = @ + 1]
          /\ UNCHANGED <<evals, dkgSessions, enclave>>
      BY <1>2 DEF DkgResponse, AppendLog, Inc, policyVars
    <2>2. AllowedEvals' = AllowedEvals
      BY <2>1 DEF AllowedEvals
    <2> QED
      BY <2>1, <2>2 DEF ServerInv, ServerTypes, TrailMatchesState, PolicyInv, Actions
  <1>3. CASE TamperRequest
    <2>1. /\ enclave' = "TAMPERED"
          /\ auditLog' = [auditLog EXCEPT !["HSM_TAMPER"] = @ + 1]
          /\ UNCHANGED <<evals, dkgSessions, finishing, metrics>>
      BY <1>3 DEF TamperRequest, AppendLog, policyVars
    <2>2. AllowedEvals' = AllowedEvals
      BY <2>1 DEF AllowedEvals
    <2> QED
      BY <2>1, <2>2 DEF ServerInv, ServerTypes, TrailMatchesState, PolicyInv, Actions
  <1>4. CASE \E to \in Address, amount \in Amounts, cleanup \in BOOLEAN :
               SignRequest(to, amount, cleanup)
    BY <1>4, SignRequestKeepsTrail DEF ServerInv, PolicyInv
  <1>5. CASE Administer \/ ServerTick \/ UNCHANGED allVars
    <2>1. UNCHANGED <<evals, serverVars>>
      BY <1>5 DEF Administer, ServerTick, allVars, policyVars, UpdatePolicy, RecordSpending,
                  ResetDailySpending, ClockTick
    <2>2. AllowedEvals' = AllowedEvals
      BY <2>1 DEF AllowedEvals
    <2> QED
      BY <2>1, <2>2 DEF ServerInv, ServerTypes, TrailMatchesState, PolicyInv, serverVars
  <1> QED
    BY <1>1, <1>2, <1>3, <1>4, <1>5 DEF ServerNext

\* The audit trail, the Prometheus counters and the engines tell one story, for any
\* number of overlapping DKG handlers: no entry is missing and none is written twice.
THEOREM TrailTellsTheStory == ServerSpec => []TrailMatchesState
  <1>1. ServerInit => ServerInv
    <2> SUFFICES ASSUME ServerInit PROVE ServerInv
      OBVIOUS
    <2>1. PolicyInv
      BY InitEstablishes DEF ServerInit
    <2>2. evals = << >> /\ AllowedEvals = {} /\ Len(evals) = 0
      BY DEF ServerInit, PolicyInit, AllowedEvals
    <2>3. Cardinality(AllowedEvals) = 0
      BY <2>2, FS_EmptySet
    <2> QED
      BY <2>1, <2>2, <2>3
      DEF ServerInit, ServerInv, PolicyInv, ServerTypes, TrailMatchesState, Actions, Counters
  <1>2. ServerInv => TrailMatchesState
    BY DEF ServerInv
  <1> QED
    BY <1>1, <1>2, ServerStep, ServerDrivesPolicy, PolicyInvariant, PTL DEF ServerSpec

-----------------------------------------------------------------------------
(* The inductive invariant of the transport *)

Socket == [peer : Peer, out : BOOLEAN, state : {"connecting", "open", "closing", "gone"}]

TransportTypes ==
    /\ sock \in Seq(Socket)
    /\ tracked \in [OutPeer -> {"none", "armed", "idle"}]
    /\ orphans \in [OutPeer -> Nat]
    /\ isClosing \in BOOLEAN
    /\ wanted \subseteq OutPeer

\* Outgoing sockets are those of peers this node dials.
OutMatchesPeer == \A s \in 1..Len(sock) : sock[s].out => sock[s].peer \in OutPeer

\* The map names a live socket of the very peer: this is why a close handler
\* that deletes the peer's entry never leaves the entry of a dead socket.
ClientsOwnSockets ==
    \A p \in DOMAIN clients :
        /\ clients[p] \in 1..Len(sock)
        /\ sock[clients[p]].peer = p
        /\ sock[clients[p]].state # "gone"

\* A socket that accounts for a wanted peer: a live one, or an incoming one.
Tends(o) == o.state # "gone" \/ o.out = FALSE

\* A wanted peer has a timer, a live socket, or an incoming one that has ended.
Tended ==
    ~isClosing => \A p \in wanted :
        \/ tracked[p] = "armed" \/ orphans[p] > 0
        \/ \E s \in 1..Len(sock) : sock[s].peer = p /\ Tends(sock[s])

\* Once closing, only sockets that were connecting can still open.
OnlyOpeningOpen ==
    isClosing =>
        /\ \A s \in 1..Len(sock) : sock[s].state = "connecting" => s \in opening
        /\ \A p \in DOMAIN clients : clients[p] \in opening

TransportInv ==
    /\ TransportTypes
    /\ OutMatchesPeer
    /\ ClientsOwnSockets
    /\ Tended
    /\ OnlyOpeningOpen

-----------------------------------------------------------------------------
(* The operators the steps are made of *)

\* ws.close() changes at most the state of a socket, and kills none.
LEMMA ClosingSockets ==
    ASSUME TransportTypes, NEW S, sock' = Closing(S)
    PROVE  /\ sock' \in Seq(Socket)
           /\ Len(sock') = Len(sock)
           /\ \A s \in 1..Len(sock) :
                 /\ sock'[s].peer = sock[s].peer
                 /\ sock'[s].out = sock[s].out
                 /\ sock'[s].state = sock[s].state
                       \/ (sock[s].state = "open" /\ sock'[s].state = "closing")
  <1> DEFINE new(s) == IF s \in S /\ sock[s].state = "open"
                       THEN [sock[s] EXCEPT !.state = "closing"] ELSE sock[s]
  <1>1. \A s \in 1..Len(sock) :
           /\ new(s) \in Socket /\ new(s).peer = sock[s].peer /\ new(s).out = sock[s].out
           /\ new(s).state = sock[s].state
                 \/ (sock[s].state = "open" /\ new(s).state = "closing")
    <2> TAKE s \in 1..Len(sock)
    <2>1. sock[s] \in Socket
      BY DEF TransportTypes
    <2>2. CASE s \in S /\ sock[s].state = "open"
      <3>1. new(s) = [sock[s] EXCEPT !.state = "closing"]
        BY <2>2
      <3> QED
        BY <2>1, <2>2, <3>1 DEF Socket
    <2>3. CASE ~(s \in S /\ sock[s].state = "open")
      <3>1. new(s) = sock[s]
        BY <2>3
      <3> HIDE DEF new
      <3> QED
        BY <2>1, <3>1
    <2> QED
      BY <2>2, <2>3
  <1>2. sock' = [s \in 1..Len(sock) |-> new(s)] /\ Len(sock) \in Nat
    BY DEF Closing, TransportTypes
  <1> HIDE DEF new
  <1> QED
    BY <1>1, <1>2

\* connect() adds at most one socket, and then the peer has a live one.
LEMMA Dials ==
    ASSUME TransportInv, NEW p \in OutPeer, Dial(p)
    PROVE  \/ /\ UNCHANGED <<sock, wanted>>
              /\ isClosing \/ p \in DOMAIN clients
           \/ /\ ~isClosing /\ wanted' = wanted \cup {p}
              /\ sock' \in Seq(Socket)
              /\ Len(sock') = Len(sock) + 1
              /\ \A s \in 1..Len(sock) : sock'[s] = sock[s]
              /\ sock'[Len(sock) + 1] = [peer |-> p, out |-> TRUE, state |-> "connecting"]
  <1>1. [peer |-> p, out |-> TRUE, state |-> "connecting"] \in Socket
    BY DEF Socket, Peer
  <1>2. sock \in Seq(Socket)
    BY DEF TransportInv, TransportTypes
  <1> QED
    BY <1>1, <1>2 DEF Dial

\* A socket that ends leaves timers behind: one at least, unless closing.
LEMMA Schedules ==
    ASSUME TransportTypes, NEW p \in OutPeer, NEW times \in 1..2, ScheduleReconnect(p, times)
    PROVE  /\ tracked' \in [OutPeer -> {"none", "armed", "idle"}]
           /\ orphans' \in [OutPeer -> Nat]
           /\ ~isClosing => tracked'[p] = "armed"
           /\ \A q \in OutPeer : q # p => tracked'[q] = tracked[q] /\ orphans'[q] = orphans[q]
  BY DEF ScheduleReconnect, TransportTypes

-----------------------------------------------------------------------------
(* Every step keeps the invariant *)

\* A step that adds no timer and leaves every socket what it was, but perhaps
\* closing.
LEMMA ClosingKeeps ==
    ASSUME TransportInv, NEW S, sock' = Closing(S),
           isClosing' \in BOOLEAN, isClosing => isClosing', wanted' \subseteq wanted,
           DOMAIN clients' \subseteq DOMAIN clients,
           \A p \in DOMAIN clients' : clients'[p] = clients[p],
           tracked' \in [OutPeer -> {"none", "armed", "idle"}], UNCHANGED orphans,
           isClosing' \/ \A p \in wanted' : tracked'[p] = tracked[p],
           isClosing' => \/ isClosing /\ UNCHANGED opening
                         \/ /\ DOMAIN clients' = {}
                            /\ \A s \in 1..Len(sock) :
                                  sock[s].state = "connecting" => s \in opening'
    PROVE  TransportInv'
  <1>1. /\ sock' \in Seq(Socket)
        /\ Len(sock') = Len(sock)
        /\ \A s \in 1..Len(sock) :
              /\ sock'[s].peer = sock[s].peer
              /\ sock'[s].out = sock[s].out
              /\ sock'[s].state = sock[s].state
                    \/ (sock[s].state = "open" /\ sock'[s].state = "closing")
    BY ClosingSockets DEF TransportInv
  <1>2. TransportTypes'
    BY <1>1 DEF TransportInv, TransportTypes
  <1>3. OutMatchesPeer'
    BY <1>1 DEF TransportInv, OutMatchesPeer
  <1>4. ClientsOwnSockets'
    BY <1>1 DEF TransportInv, ClientsOwnSockets
  <1>5. Tended'
    <2> SUFFICES ASSUME ~isClosing', NEW p \in wanted'
                 PROVE  \/ tracked'[p] = "armed" \/ orphans'[p] > 0
                        \/ \E s \in 1..Len(sock) : sock'[s].peer = p /\ Tends(sock'[s])
      BY <1>1 DEF Tended
    <2>1. \/ tracked[p] = "armed" \/ orphans[p] > 0
          \/ \E s \in 1..Len(sock) : sock[s].peer = p /\ Tends(sock[s])
      BY DEF TransportInv, TransportTypes, Tended
    <2> QED
      BY <1>1, <2>1 DEF Tends
  <1>6. OnlyOpeningOpen'
    BY <1>1 DEF TransportInv, OnlyOpeningOpen
  <1> QED
    BY <1>2, <1>3, <1>4, <1>5, <1>6 DEF TransportInv

\* connect() adds a socket for a peer without one.
LEMMA ConnectKeeps ==
    ASSUME TransportInv, NEW p \in OutPeer, Connect(p) \/ TimerFires(p)
    PROVE  TransportInv'
  <1>1. Dial(p) /\ UNCHANGED <<clients, isClosing, opening>>
    BY DEF Connect, TimerFires
  <1>2. /\ tracked' \in [OutPeer -> {"none", "armed", "idle"}]
        /\ orphans' \in [OutPeer -> Nat]
        /\ \A q \in OutPeer : q # p => tracked'[q] = tracked[q] /\ orphans'[q] = orphans[q]
    BY DEF Connect, TimerFires, TransportInv, TransportTypes
  <1>3. CASE UNCHANGED <<sock, wanted>>
    <2>1. TransportTypes' /\ OutMatchesPeer' /\ ClientsOwnSockets' /\ OnlyOpeningOpen'
      BY <1>1, <1>2, <1>3 DEF TransportInv, TransportTypes, OutMatchesPeer, ClientsOwnSockets,
                              OnlyOpeningOpen
    <2>2. Tended'
      <3> SUFFICES ASSUME ~isClosing, NEW q \in wanted
                   PROVE  \/ tracked'[q] = "armed" \/ orphans'[q] > 0
                          \/ \E s \in DOMAIN sock : sock[s].peer = q /\ Tends(sock[s])
        BY <1>1, <1>3 DEF Tended
      <3>1. \/ tracked[q] = "armed" \/ orphans[q] > 0
            \/ \E s \in DOMAIN sock : sock[s].peer = q /\ Tends(sock[s])
        BY DEF TransportInv, Tended
      <3>2. CASE q # p
        BY <1>2, <3>1, <3>2 DEF TransportInv, TransportTypes
      <3>3. CASE q = p /\ p \in DOMAIN clients
        BY <3>3 DEF TransportInv, TransportTypes, ClientsOwnSockets, Tends
      <3>4. CASE p \notin DOMAIN clients
        <4>1. Len(sock') # Len(sock)
          BY <1>1, <3>4 DEF Dial, TransportInv, TransportTypes
        <4> QED
          BY <1>3, <4>1
      <3> QED
        BY <3>2, <3>3, <3>4
    <2> QED
      BY <2>1, <2>2 DEF TransportInv
  <1>4. CASE /\ ~isClosing /\ wanted' = wanted \cup {p}
             /\ sock' \in Seq(Socket)
             /\ Len(sock') = Len(sock) + 1
             /\ \A s \in 1..Len(sock) : sock'[s] = sock[s]
             /\ sock'[Len(sock) + 1] = [peer |-> p, out |-> TRUE, state |-> "connecting"]
    <2>1. /\ Len(sock) \in Nat /\ DOMAIN sock = 1..Len(sock)
          /\ DOMAIN sock' = 1..(Len(sock) + 1)
      BY <1>4 DEF TransportInv, TransportTypes
    <2>2. TransportTypes'
      BY <1>1, <1>2, <1>4 DEF TransportInv, TransportTypes
    <2>3. OutMatchesPeer'
      BY <1>4, <2>1 DEF TransportInv, OutMatchesPeer
    <2>4. ClientsOwnSockets' /\ OnlyOpeningOpen'
      BY <1>1, <1>4, <2>1 DEF TransportInv, ClientsOwnSockets, OnlyOpeningOpen
    <2>5. Tended'
      <3> SUFFICES ASSUME NEW q \in wanted'
                   PROVE  \/ tracked'[q] = "armed" \/ orphans'[q] > 0
                          \/ \E s \in DOMAIN sock' : sock'[s].peer = q /\ Tends(sock'[s])
        BY DEF Tended
      <3>1. CASE q = p
        BY <1>4, <2>1, <3>1 DEF Tends
      <3>2. CASE q # p
        <4>1. \/ tracked[q] = "armed" \/ orphans[q] > 0
              \/ \E s \in DOMAIN sock : sock[s].peer = q /\ Tends(sock[s])
          BY <1>4, <3>2 DEF TransportInv, Tended
        <4>2. q \in OutPeer
          BY <1>4 DEF TransportInv, TransportTypes
        <4> QED
          BY <1>2, <1>4, <2>1, <3>2, <4>1, <4>2
      <3> QED
        BY <3>1, <3>2
    <2> QED
      BY <2>2, <2>3, <2>4, <2>5 DEF TransportInv
  <1> QED
    BY <1>1, <1>3, <1>4, Dials

\* 'open' and an accepted connection: the newest socket of a peer is its entry.
LEMMA OpenedKeeps ==
    ASSUME TransportInv, NEW s \in DOMAIN sock, SocketOpens(s)
    PROVE  TransportInv'
  <1>1. /\ s \in 1..Len(sock) /\ DOMAIN sock = 1..Len(sock)
        /\ sock[s] \in Socket /\ sock[s].state = "connecting"
        /\ clients' = Set(sock[s].peer, s)
        /\ UNCHANGED <<tracked, orphans, isClosing, wanted, opening>>
    BY DEF SocketOpens, TransportInv, TransportTypes
  <1> DEFINE o == [sock[s] EXCEPT !.state = "open"]
  <1>2. o \in Socket /\ o.peer = sock[s].peer /\ o.out = sock[s].out /\ o.state = "open"
    BY <1>1 DEF Socket
  <1>3. sock' = [sock EXCEPT ![s] = o]
    BY <1>1 DEF SocketOpens, TransportInv, TransportTypes
  <1> HIDE DEF o
  <1>4. /\ sock' \in Seq(Socket) /\ Len(sock') = Len(sock) /\ DOMAIN sock' = 1..Len(sock)
        /\ \A t \in 1..Len(sock) : sock'[t] = IF t = s THEN o ELSE sock[t]
    BY <1>1, <1>2, <1>3 DEF TransportInv, TransportTypes
  <1>5. TransportTypes' /\ OutMatchesPeer'
    BY <1>1, <1>2, <1>4 DEF TransportInv, TransportTypes, OutMatchesPeer
  <1>6. ClientsOwnSockets'
    BY <1>1, <1>2, <1>4 DEF TransportInv, ClientsOwnSockets, Set
  <1>7. Tended'
    BY <1>1, <1>2, <1>4 DEF TransportInv, Tended, Tends
  <1>8. OnlyOpeningOpen'
    BY <1>1, <1>2, <1>4 DEF TransportInv, OnlyOpeningOpen, Set
  <1> QED
    BY <1>5, <1>6, <1>7, <1>8 DEF TransportInv

\* An incoming socket is open and takes over the entry of its peer.
LEMMA AcceptKeeps ==
    ASSUME TransportInv, NEW p \in InPeer, Accept(p)
    PROVE  TransportInv'
  <1> DEFINE o == [peer |-> p, out |-> FALSE, state |-> "open"]
  <1>1. o \in Socket /\ o.peer = p /\ o.out = FALSE /\ o.state = "open"
    BY DEF Socket, Peer
  <1>2. /\ ~isClosing /\ sock' = Append(sock, o) /\ clients' = Set(p, Len(sock'))
        /\ UNCHANGED <<tracked, orphans, isClosing, wanted, opening>>
    BY DEF Accept
  <1> HIDE DEF o
  <1>3. /\ sock' \in Seq(Socket) /\ Len(sock') = Len(sock) + 1 /\ Len(sock) \in Nat
        /\ DOMAIN sock = 1..Len(sock) /\ DOMAIN sock' = 1..(Len(sock) + 1)
        /\ \A s \in 1..Len(sock) : sock'[s] = sock[s]
        /\ sock'[Len(sock) + 1] = o
    BY <1>1, <1>2 DEF TransportInv, TransportTypes
  <1>4. TransportTypes' /\ OnlyOpeningOpen'
    BY <1>2, <1>3 DEF TransportInv, TransportTypes, OnlyOpeningOpen
  <1>5. OutMatchesPeer'
    BY <1>1, <1>3 DEF TransportInv, OutMatchesPeer
  <1>6. ClientsOwnSockets'
    BY <1>1, <1>2, <1>3 DEF TransportInv, ClientsOwnSockets, Set
  <1>7. Tended'
    BY <1>2, <1>3 DEF TransportInv, Tended
  <1> QED
    BY <1>4, <1>5, <1>6, <1>7 DEF TransportInv

\* The end of a socket deletes the entry of its peer and, for a peer that is
\* dialled, arms a timer.
LEMMA EndsKeeps ==
    ASSUME TransportInv, NEW s \in DOMAIN sock, NEW error \in BOOLEAN, Ends(s, error)
    PROVE  TransportInv'
  <1>1. /\ s \in 1..Len(sock) /\ DOMAIN sock = 1..Len(sock)
        /\ sock[s] \in Socket /\ sock[s].state # "gone"
        /\ clients' = Without(sock[s].peer)
        /\ UNCHANGED <<isClosing, wanted, opening>>
    BY DEF Ends, AfterClose, TransportInv, TransportTypes
  <1> DEFINE o == [sock[s] EXCEPT !.state = "gone"]
  <1>2. o \in Socket /\ o.peer = sock[s].peer /\ o.out = sock[s].out /\ o.state = "gone"
    BY <1>1 DEF Socket
  <1>3. sock' = [sock EXCEPT ![s] = o]
    BY <1>1 DEF Ends, TransportInv, TransportTypes
  <1> HIDE DEF o
  <1>4. /\ sock' \in Seq(Socket) /\ Len(sock') = Len(sock) /\ DOMAIN sock' = 1..Len(sock)
        /\ \A t \in 1..Len(sock) : sock'[t] = IF t = s THEN o ELSE sock[t]
    BY <1>1, <1>2, <1>3 DEF TransportInv, TransportTypes
  <1>5. /\ tracked' \in [OutPeer -> {"none", "armed", "idle"}]
        /\ orphans' \in [OutPeer -> Nat]
        /\ \A q \in OutPeer :
              \/ /\ tracked'[q] = tracked[q] /\ orphans'[q] = orphans[q]
                 /\ q # sock[s].peer \/ sock[s].out = FALSE
              \/ q = sock[s].peer /\ (isClosing \/ tracked'[q] = "armed")
    <2>1. sock[s].out => sock[s].peer \in OutPeer
      BY <1>1 DEF TransportInv, OutMatchesPeer
    <2>2. CASE sock[s].out
      <3>1. PICK times \in 1..2 : ScheduleReconnect(sock[s].peer, times)
        BY <2>2 DEF Ends
      <3> QED
        BY <2>1, <2>2, <3>1, Schedules DEF TransportInv
    <2>3. CASE ~sock[s].out
      BY <1>1, <2>3 DEF Ends, TransportInv, TransportTypes, Socket
    <2> QED
      BY <2>2, <2>3
  <1>6. TransportTypes' /\ OutMatchesPeer'
    BY <1>1, <1>2, <1>4, <1>5 DEF TransportInv, TransportTypes, OutMatchesPeer
  <1>7. ClientsOwnSockets'
    BY <1>1, <1>2, <1>4 DEF TransportInv, ClientsOwnSockets, Without
  <1>8. Tended'
    <2> SUFFICES ASSUME ~isClosing, NEW q \in wanted
                 PROVE  \/ tracked'[q] = "armed" \/ orphans'[q] > 0
                        \/ \E t \in 1..Len(sock) : sock'[t].peer = q /\ Tends(sock'[t])
      BY <1>1, <1>4 DEF Tended
    <2>1. \/ tracked[q] = "armed" \/ orphans[q] > 0
          \/ \E t \in 1..Len(sock) : sock[t].peer = q /\ Tends(sock[t])
      BY <1>1 DEF TransportInv, Tended
    <2>2. q \in OutPeer
      BY DEF TransportInv, TransportTypes
    <2>3. ASSUME NEW t \in 1..Len(sock), sock[t].peer = q, Tends(sock[t])
          PROVE  \/ tracked'[q] = "armed"
                 \/ sock'[t].peer = q /\ Tends(sock'[t])
      <3>1. CASE t # s
        BY <1>4, <2>3, <3>1
      <3>2. CASE t = s
        <4>1. sock'[t] = o /\ o.peer = q /\ o.out = sock[s].out
          BY <1>2, <1>4, <2>3, <3>2
        <4>2. sock[s].out = FALSE => Tends(sock'[t])
          BY <4>1 DEF Tends
        <4>3. sock[s].out = FALSE \/ tracked'[q] = "armed"
          <5>1. q = sock[s].peer
            BY <2>3, <3>2
          <5> QED
            BY <1>5, <2>2, <5>1, Zenon
        <4> QED
          BY <4>1, <4>2, <4>3
      <3> QED
        BY <3>1, <3>2
    <2> QED
      BY <1>4, <1>5, <2>1, <2>2, <2>3
  <1>9. OnlyOpeningOpen'
    BY <1>1, <1>2, <1>4 DEF TransportInv, OnlyOpeningOpen, Without
  <1> QED
    BY <1>6, <1>7, <1>8, <1>9 DEF TransportInv

\* Calls that close sockets: an oversized message, disconnect and close.
LEMMA OwnerKeeps ==
    ASSUME TransportInv,
           \/ \E s \in DOMAIN sock : PayloadTooLarge(s)
           \/ \E p \in Peer : Disconnect(p)
           \/ Close
    PROVE  TransportInv'
  <1>1. ASSUME NEW s \in DOMAIN sock, PayloadTooLarge(s) PROVE TransportInv'
    BY <1>1, ClosingKeeps DEF PayloadTooLarge, TransportInv, TransportTypes
  <1>2. ASSUME NEW p \in Peer, Disconnect(p) PROVE TransportInv'
    <2>1. /\ tracked' \in [OutPeer -> {"none", "armed", "idle"}]
          /\ \A q \in wanted' : tracked'[q] = tracked[q]
      BY <1>2 DEF Disconnect, TransportInv, TransportTypes
    <2>2. /\ DOMAIN clients' \subseteq DOMAIN clients
          /\ \A q \in DOMAIN clients' : clients'[q] = clients[q]
      BY <1>2 DEF Disconnect, Without
    <2>3. UNCHANGED <<orphans, isClosing, opening>> /\ wanted' \subseteq wanted
      BY <1>2 DEF Disconnect
    <2>4. isClosing \in BOOLEAN
      BY DEF TransportInv, TransportTypes
    <2>5. PICK S : sock' = Closing(S)
      BY <1>2 DEF Disconnect
    <2> QED
      BY <2>1, <2>2, <2>3, <2>4, <2>5, ClosingKeeps
  <1>3. CASE Close
    <2>1. PICK S : sock' = Closing(S)
      BY <1>3 DEF Close
    <2>2. /\ isClosing' = TRUE /\ tracked' \in [OutPeer -> {"none", "armed", "idle"}]
          /\ DOMAIN clients' = {} /\ UNCHANGED <<orphans, wanted>>
      BY <1>3 DEF Close
    <2>3. \/ isClosing /\ UNCHANGED opening
          \/ \A s \in 1..Len(sock) : sock[s].state = "connecting" => s \in opening'
      BY <1>3 DEF Close, TransportInv, TransportTypes
    <2> QED
      BY <2>1, <2>2, <2>3, ClosingKeeps
  <1> QED
    BY <1>1, <1>2, <1>3

\* Every step of the transport keeps the invariant.
LEMMA TransportStep == TransportInv /\ [TransportNext]_transportVars => TransportInv'
  <1> SUFFICES ASSUME TransportInv, [TransportNext]_transportVars
               PROVE  TransportInv'
    OBVIOUS
  <1>1. ASSUME NEW p \in OutPeer, Connect(p) \/ TimerFires(p) PROVE TransportInv'
    BY <1>1, ConnectKeeps
  <1>2. ASSUME NEW p \in InPeer, Accept(p) PROVE TransportInv'
    BY <1>2, AcceptKeeps
  <1>3. ASSUME NEW s \in DOMAIN sock, SocketOpens(s) \/ \E error \in BOOLEAN : Ends(s, error)
        PROVE  TransportInv'
    BY <1>3, OpenedKeeps, EndsKeeps
  <1>4. CASE \/ \E s \in DOMAIN sock : PayloadTooLarge(s)
             \/ \E p \in Peer : Disconnect(p)
             \/ Close
    BY <1>4, OwnerKeeps
  <1>5. CASE UNCHANGED transportVars
    BY <1>5 DEF transportVars, TransportInv, TransportTypes, OutMatchesPeer, ClientsOwnSockets,
                Tended, OnlyOpeningOpen
  <1> QED
    BY <1>1, <1>2, <1>3, <1>4, <1>5 DEF TransportNext

\* The invariant holds throughout.
LEMMA TransportInvariance == TransportSpec => []TransportInv
  <1>1. TransportInit => TransportInv
    <2> SUFFICES ASSUME TransportInit PROVE TransportInv
      OBVIOUS
    <2>1. TransportTypes
      <3>1. sock \in Seq(Socket) /\ wanted \subseteq OutPeer
        <4>1. sock = << >> /\ wanted = {}
          BY DEF TransportInit
        <4> QED
          BY <4>1
      <3>2. isClosing \in BOOLEAN
        BY DEF TransportInit
      <3>3. tracked \in [OutPeer -> {"none", "armed", "idle"}]
        BY DEF TransportInit
      <3>4. orphans \in [OutPeer -> Nat]
        BY DEF TransportInit
      <3> QED
        BY <3>1, <3>2, <3>3, <3>4 DEF TransportTypes
    <2>2. OutMatchesPeer /\ ClientsOwnSockets /\ Tended /\ OnlyOpeningOpen
      BY DEF TransportInit, OutMatchesPeer, ClientsOwnSockets, Tended, OnlyOpeningOpen
    <2> QED
      BY <2>1, <2>2 DEF TransportInv
  <1> QED
    BY <1>1, TransportStep, PTL DEF TransportSpec

-----------------------------------------------------------------------------
(* The theorems *)

\* The map of clients never names a socket that has ended, however many sockets
\* a peer has and in whatever order their close handlers run.
THEOREM ClientsAlive == TransportSpec => []NoDeadClients
  <1>1. TransportInv => NoDeadClients
    BY DEF TransportInv, ClientsOwnSockets, NoDeadClients, Alive
  <1> QED
    BY <1>1, TransportInvariance, PTL

\* A peer that was connected to and not disconnected keeps a socket or an armed timer,
\* whatever sockets fail, are replaced or are refused, unless it also dialled in under
\* its id and that incoming socket has ended.
THEOREM RetryContinues == TransportSpec => []GivenUpOnlyAfterDialIn
  <1>1. TransportInv => GivenUpOnlyAfterDialIn
    <2> SUFFICES ASSUME TransportInv, ~isClosing, NEW p \in wanted
                 PROVE  \/ HasSocketOrTimer(p)
                        \/ \E s \in DOMAIN sock : sock[s].peer = p /\ ~sock[s].out /\ ~Alive(s)
      BY DEF GivenUpOnlyAfterDialIn
    <2>1. DOMAIN sock = 1..Len(sock)
      BY DEF TransportInv, TransportTypes
    <2>2. \/ tracked[p] = "armed" \/ orphans[p] > 0
          \/ \E s \in 1..Len(sock) : sock[s].peer = p /\ Tends(sock[s])
      BY DEF TransportInv, Tended
    <2> QED
      BY <2>1, <2>2 DEF HasSocketOrTimer, Alive, Tends
  <1> QED
    BY <1>1, TransportInvariance, PTL

\* close() ends it: no socket is created afterwards, and the map only ever
\* names sockets that were already connecting.
THEOREM ClosedStaysQuiet == TransportSpec => QuietAfterClose
  <1>1. TransportInv /\ [TransportNext]_transportVars
          => [isClosing => Len(sock') = Len(sock)]_transportVars
    <2> SUFFICES ASSUME TransportInv, TransportNext, isClosing
                 PROVE  Len(sock') = Len(sock)
      BY DEF transportVars
    <2>1. ASSUME NEW p \in OutPeer, Connect(p) \/ TimerFires(p) PROVE Len(sock') = Len(sock)
      BY <2>1 DEF Connect, TimerFires, Dial
    <2>2. ASSUME NEW s \in DOMAIN sock, SocketOpens(s) \/ \E error \in BOOLEAN : Ends(s, error)
          PROVE  Len(sock') = Len(sock)
      <3>1. PICK o : sock' = [sock EXCEPT ![s] = o]
        BY <2>2 DEF SocketOpens, Ends
      <3> QED
        BY <3>1 DEF TransportInv, TransportTypes
    <2>3. ASSUME NEW S, sock' = Closing(S) PROVE Len(sock') = Len(sock)
      BY <2>3, ClosingSockets DEF TransportInv
    <2> QED
      BY <2>1, <2>2, <2>3 DEF TransportNext, Accept, PayloadTooLarge, Disconnect, Close
  <1>2. TransportInv => (isClosing => {clients[p] : p \in DOMAIN clients} \subseteq opening)
    BY DEF TransportInv, OnlyOpeningOpen
  <1> QED
    BY <1>1, <1>2, TransportInvariance, PTL DEF TransportSpec, QuietAfterClose

=============================================================================
