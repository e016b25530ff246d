# TLA+ models of biofire

biofire is an HTTP service for threshold custody of keys: it generates shared
keys, keeps pre-computed nonces for fast signing, guards transactions with a
policy and a governance scheme, stores shares in an enclave, and writes an
audit trail. This directory models the parts that keep state, checks them with
TLC on small instances, and proves with TLAPS, for every value of the
parameters, the safety properties of ten of them: the pre-signature engine,
the audit trail, the enclave, the session guard, the policy engine with the
server that drives it, governance, the transport, the key refresh, the MPC
engine down to its arithmetic, and licensing.

## 1. Inventory

| Part (under `src/src/lib` unless said) | State | Operations | Hard to test |
|---|---|---|---|
| Pre-signature engine: `protocol/pre_computation_engine.ts`, `protocol/signing_worker.ts`, `security/secure_buffer.ts` | queue of nonce tuples, worker list, running flag, counters | `start`, `stop`, `consumeTuple`, `executeOnlineSign`, batches from worker threads | calls during the await of `stop`, late batches, crashed workers, retried signatures |
| Audit trail: `audit/audit_chain.ts` | chain in memory, SQLite table | boot, `appendLog`, verification, Merkle root | restart, several replicas, failed writes |
| HSM drivers: `crypto/hsm_enclave.ts` | status, encrypted shares; KMS client, counter | encrypt, decrypt, zeroize, reset | zeroize between a check and the end of an await; late SDK import |
| Session guard: `security/session_guard.ts` | session bindings | bind, wrap, unwrap, revoke, clean-up | death of a binding in between, names bound again |
| MPC engine: `protocol/mpc_cmp.ts`, `crypto/secp256k1.ts` | node registry, shares, Paillier keys, sessions | registration, DKG, signing, refresh | order of calls, exceptions half way, edges of the arithmetic |
| Paillier and MtA: `crypto/paillier.ts`, `crypto/mta_zkp.ts` | none | keys, encryption, homomorphic operations, exchange, range proofs, audit of aborts | wrap-around, primality test, contexts of the proofs |
| Policy engine: `policy/policy_engine.ts` | policy, daily spending, velocity tracker | evaluation, update, spending | window edges, spellings of an address, retries |
| API server: `src/server.ts`, `security/input_sanitization.ts`, `monitoring/metrics.ts` | counters, and the engines it drives | handlers | requests that overtake one another |
| Governance: `governance/governance_engine.ts`, `governance/vdf`, `governance/bls` | holders, policies, approvals, emergency | registration, approval, delegation, freeze | continuation of the time lock, holders that change role, failed attempts that leave a trace |
| Peer transport: `network/transport.ts` | sockets, client map, timers | connect, accept, disconnect, close | events out of order, several timers per peer |
| Key refresh: `protocol/key_refresh_engine.ts` | share, Paillier key, epoch | `initialize`, `executeRefresh` | overlapping calls, failing sends |
| Licensing: `licensing/license_kernel.ts`, `license_blob.ts`, `heartbeat.ts`, `hardware_fingerprint.ts` | licence state, heartbeat interval, secret | `initializeLicense`, metering, tokens, `shutdown` | hardware that changes between two readings, overlapping initialisations, intervals nobody can clear, late timers |
| Message format: `network/binary_serializer.ts` | none | `pack`, `unpack` | boundaries of types and lengths, nested values |
| Telemetry, Ed25519, addresses, logging, chaos tools, deployment | none of their own | | not modelled (section 7) |

How they interact: the server calls the policy engine, then the MPC engine,
and appends to the audit trail and the metrics around each call; the tamper
route zeroizes the active HSM driver. The MPC engine draws a Paillier key pair
per party. Workers of the pre-signature engine post batches over message ports.
Governance appends to the audit trail. The key refresh engine sends over the
transport and replaces the Paillier key and share of its node. The transport
packs messages with the serializer, and a licence is signed over its packed
fields.

Everything but the workers runs on one event loop: a function is atomic between
two awaits. So each handler that awaits is split there into a `...Begin` and a
`...Finish` (or `Request`/`Response`) action and any other action may come in
between; a function without an await is one action.

## 2. Modules

| Module | Models | Main correspondence |
|---|---|---|
| `NoncePool` | abstract specification | what callers may rely on: a nonce is added once, taken once, and signs at most once before it is dead |
| `PreComputation` | engine and workers | `queue`, `workers`, `isRunning`, counters are the fields of the class; `stopping`/`waitFor` are the calls of `stop()` at their await; `thread`, `stopMsg`, `port` are the workers and their ports; `held`, `released`, `tried`, `sigs` are what callers have done |
| `*Proofs` | theorems about the module of that name; `KeyCustodyProofs` about `HsmEnclave` and `SessionGuard`, `NetworkProofs` about `ApiServer` and `Transport`, `SharingProofs` about `KeyRefresh` and `MpcEngine` | section 5 |
| `AuditChain` | audit trail | `db` is the table, `chain` and `nextIndex` the module variables of a process; hashes are injective terms; `loaded`, `acked`, `writers`, `past` are history |
| `HsmEnclave` | both drivers | `provider` says which; `op[c]` is the rest of a call in flight; `late`, `written`, `returned` are history |
| `SessionGuard` | bindings and unwrap | a token number stands for a JWT and cookie drawn together; the specification is `GuardSpec`, and with the liveness of unwraps `GuardFairSpec` |
| `ScalarField` | scalar arithmetic, sharing, partial signatures | operators over a small prime (any prime in the proofs); a point is its scalar |
| `MpcEngine` | MPC engine | the `Map`s of the class as functions and sequences; the specification is `MpcSpec`, so that it can stand beside that of the key refresh; what the code keeps in a `Map` by signer id is a sequence over `MapKeys`, so repeated ids overwrite |
| `Paillier` | encryption, MtA, range proofs, audit of aborts | operators over tiny primes; a challenge is the term that is hashed; round 3 of the exchange, which nothing calls, is left out |
| `PolicyEngine`, `ApiServer` | transaction guard; the handlers that drive it | a timestamp of the velocity tracker is paired with the number of the evaluation that pushed it, so that an array whose order nobody reads is a set; an update is a record with some of the fields of the policy; `ApiServer` extends `PolicyEngine` and composes it with what the handlers see of the MPC engine, the audit trail, the enclave and the metrics |
| `ApprovalQuorum` | abstract specification | what an approval promises: granted with the vote that reaches the threshold while no vote is spoilt, closed while granted, reopened at most once |
| `Governance` | governance | approval objects and the map of ids to them are kept apart, because an id can be given to a new object while the old one's time lock still runs; `malformed` are the recorded signatures for which `aggregateSignatures` throws |
| `Transport` | transport | the specification is `TransportSpec`; `tracked` is the entry of `reconnectTimers`, `orphans` the armed timers that lost their entry; a peer may be dialled and dial in under one id; `close()` may be called again |
| `KeyRefresh` | refresh engine | share and key objects are numbered, so that destroying the wrong object is visible; `initialize` takes any epoch, during a refresh too |
| `BinarySerializer` | message format | operators on byte sequences, with `Byte` values to a byte (`Power[n]` is 256^n in the code) and offsets as in the code; the truncated hash at the end of a payload is the term it was computed from |
| `LicenseKernel` | licence kernel, licence check, machine identity, tokens | extends `BinarySerializer`, which decides whether a signature can be made and verified; `intervals` are the live intervals, `heartbeatTimer` the one the kernel knows; `installed`, `shutAt` and `under` are history; `LicenseTerms` are the licences there can be: texts and numbers, of which those that do not fit a message never get a signature |

`MC*` modules give the constants values for TLC. Three of them compose components
into one run each: `MCServing` (pre-signature engine, session guard, API server),
`MCEngines` (MPC engine, key refresh, audit trail) and `MCPeers` (transport,
governance, enclave). These components share no variable and call nothing of one
another, so their interleavings have nothing to show that each does not show
alone: a variable `turn`, chosen at the start, says which one moves, and the
others stay in their initial state. The behaviours of a composition are those of
its components, one at a time. None of the fair actions of a component is enabled in
its initial state, so the fairness of a component at rest asks for nothing. The
definitions whose names have a suffix (`Accepted_WhenStopped`) and a comment "Mutant" are wrong versions
of the definition after them; `PROJECT.json` says which property each breaks.
`PROJECT.json` also maps every definition to the lines it stands for.

What is abstracted: hashes and ciphertexts are injective terms; random draws
are fresh (nonces, session ids, tokens) or any value of the range; time is a
counter in ticks; events that only notify listeners, log messages, formatting
and error texts are left out. A call that throws or returns before it changes
anything is no step.

## 3. Runs

Passing runs:

| Run, component | Shows | Bounds, and why they suffice |
|---|---|---|
| `serving`, pre-signature engine | a nonce signs at most once and has one attempt; queued nonces are live; statistics add up; a stopped engine is empty; refinement of `NoncePool`; every `stop()` returns | two workers over two start/stop cycles, two overlapping `stop()` calls, two batches of two into a queue of one (each straddles the limit), two messages; all but the liveness property is proved for all sizes (section 5) |
| `serving`, session guard | shares of a dead binding are closed for good; dead bindings stay dead | two names, two bindings, two unwraps in flight, a time to live of one tick in three: a name is bound again before, at and after expiry |
| `serving`, API server | velocity limit and blacklist of the moment; agreement of audit trail, counters and state; sessions get logged | two spellings of a destination and a malformed one, an hour of two ticks, two evaluations around it, partial updates that raise and lower the velocity limit, fill and empty the blacklist and move the switches; two DKG requests, which each other and the other requests overtake; the theorems are for any number |
| `engines`, MPC engine | shares reconstruct and sign; Paillier and primality; whom the audit of aborts blames; sessions are immutable | all polynomials over a field of five elements, registries in and out of order, filled up and repeated, two sessions; primes 3 and 11 with every plaintext (33 is not a multiple of 5, so a wrap-around shows); odd numbers up to 75; secrets in and out of the range of the proofs |
| `engines`, key refresh | no contribution is lost; old objects are destroyed and current ones are not; the epoch is accounted for | two overlapping calls, peers with an index and without one, two calls of `initialize` with any of two epochs, before or during a refresh, a field of five elements |
| `engines`, audit trail | verification outcome, links and durability of rows, Merkle root | two replicas, three boots, three entries: chains of odd and even length, a reload after a crash, every fault |
| `peers`, transport | no dead client; no lost client without a twin; when retries end; quiet after close | one dialled peer that may dial in too, another that dials in, a limit of one, four sockets: a peer is dialled, lost, dialled again and dials in itself |
| `peers`, governance | thresholds count holders once; refinement of `ApprovalQuorum`; freeze | three holders and roles in every assignment, one approval with a time lock (or a delegation), signatures that aggregate or not, any number of emergencies. A single approval object: approvals share no state but the holders, and the theorems are for any number |
| `peers`, enclave | decryption returns what was stored; after a zeroize only late calls act | two overlapping calls, two names, two secrets, either driver |
| `licence` | what a valid token proves; the last token stays valid; bindings hold; heartbeats start; no two payloads have the same bytes | two calls that overlap, begun at the last tick of the grace period and ending up to two ticks later; two machines and one change; intervals of one tick, up to one tick late; a byte of twelve values, so that the 32-bit limit is 20736 and the clock starts there; data on both sides of each type and length limit. The five clock values cover a token from its making to the end of its window |

Violation runs, one for each finding of section 6:

| Run | Property, as the repository states it | What the code does |
|---|---|---|
| `precomputation_orphan` | `StoppedWorkersTold`: `stop()` stops all workers | a worker started during the await of `stop()` is never told to |
| `mpc_signing` | `SigningFindsSession`: signing works after DKG (with the registry and parameters of the repository's own test) | it never finds the session |
| `mpc_abort_audit` | `HonestProofsNotBlamed`: no abort when all nodes prove honestly | the first node is blamed, as its proof was made in another context |
| `mta_product` | `MtAProductShared`: `alpha = xy - beta (mod q)` | not when `xy < beta` |
| `licence_window` | `WindowAccepted`: a licence is valid inside its window | its timestamps cannot be packed |
| `licence_unpack` | `UnpackRecovers`: `unpack` returns what `pack` was given | it refuses every payload |
| `governance_lock` | `LockNotBypassed`: the time lock cannot be bypassed | enough signatures approve while it runs |
| `transport_retry` | `RetriesGoOn`: a lost peer is retried | not if it had dialled in when the timer fired |

Deadlock is off where a bound lets a behaviour end (tokens, boots, requests, the clock).
Symmetry is used for the holders of governance only, whom `Init` and `Next` treat
alike, and in no run with a liveness property.

Properties worth a word:

- `VerifyOutcome` says exactly when `verifyChainIntegrity` reports a break:
  when two or more rows were reloaded. It holds of the code, and shows both
  that what a process appends verifies, and that a restart does not.
- `AckedIsDurableButFirst` has the exception in its name: the first entry of a
  new table has the index of the genesis row and is ignored by the INSERT.
- `OneAttemptPerNonce` is about calls of `executeOnlineSign`, not signatures:
  one that throws half way (a share released by another call, a gamma that is
  no point) has used up its nonce, which a retry must not sign with.
- `DeadStaysClosed`: an unwrap past its check returns the share although its
  binding was revoked meanwhile. These calls run out, and no further call for
  that name, token and cookie gets so far, whatever is bound later.
- `VelocityHolds` compares every allowed evaluation with the limit the policy
  had at that moment; evaluations allowed under a higher limit count.
- `AuditBlamesFirstFaulty` is about proofs made in the audit's own context, as
  in the repository's tests; `HonestProofsNotBlamed` about those of the exchange.
- `GivenUpOnlyAfterDialIn` is what is left of `RetriesGoOn`: the violated claim
  fails in the one case it names. `ListedWithoutTwin` and `NoDeadClients` bound
  what the close handlers, which delete by peer id, can do: an entry never stays
  on a dead socket, and a live socket loses its entry only to another socket
  of the same peer.
- `EpochAccounted` has two parts: with overlapping calls, or an `initialize`
  during one, the epoch is one that somebody gave plus at most the number of
  finished calls; for calls one at a time it is exact.
- `ImplementsQuorum`: a vote that makes `aggregateSignatures` throw is a
  spoilt vote of the abstract specification. It is recorded before the throw, and
  blocks the approval until its holder votes again.
- `TokenProvesLicence` says that the licence was signed as presented and in
  force when it was checked; that none inside its window passes is `licence_window`.
- `KeyPairsSound`, `MtAProductShared`, `PackingUnambiguous` and `UnpackRecovers`
  are facts about operators, evaluated over all inputs of the instance; the
  state only says when the engine depends on them.
- Because the lookup of a completed session always fails (section 6), the part
  of `ExecuteThresholdSigning` behind it, and the entry `SIGNING_COMPLETED` of
  the server, are modelled and never reached in a run. What phases 2 to 4
  compute is checked through `CommonNonceSigns`, for a common nonce only.
- `CommonNonceSigns` is about the combination formula: with one nonce shared
  by all signers it gives a valid signature. `executeThresholdSigning` draws
  one nonce per signer (section 6).

## 4. Fairness

- `FairSpec` of `PreComputation`: weak fairness of the 5 s timers of `stop()`
  and of its continuation. Node runs timers and continuations of settled
  promises; nothing is assumed of workers, which may crash, or of callers.
- `GuardFairSpec` of `SessionGuard`: weak fairness of the rest of an unwrap after
  its await of the decryption, which node runs. Time need not pass.
- `ServerSpec`: weak fairness of the continuation of the DKG handler, for the
  same reason.
- `FairSpec` of `LicenseKernel`: weak fairness of the clock, of the ends of the
  file reads in `initializeLicense`, and of the interval callbacks. Nobody has
  to call anything. A callback may be late by `Slack`, at most an interval;
  with a longer stall of the event loop the last token does expire.

All other specifications are safety only.

## 5. Proofs

Each `*Proofs` module proves its theorems for all values of the constants that
satisfy the assumption of the component's module (numbers are naturals, limits
are positive where the code divides or compares with them, and the curve order
is a prime). TLC evaluates those assumptions in every run. Unless an action
property is named, a theorem is `Spec => []Property`, where `Spec` is the
specification of the component (`ServerSpec` for the server with the policy
engine, `EnclaveSpec`, `GuardSpec`, `TransportSpec`, `GovernanceSpec`, `RefreshSpec`,
`MpcSpec`).

| Module | Theorem | Property |
|---|---|---|
| `PreComputationProofs` | `TypesAndBound` | `TypeOK`, `QueueBounded` |
| | `NonceSafety` | `NonceSignsOnce` |
| | `QueueSafety` | `QueuedAreLive` |
| | `OneAttempt` | `OneAttemptPerNonce`, an action property |
| | `StatsAddUp` | `StatsConserved` |
| | `StoppedEmpty` | `StoppedIsEmpty` |
| | `Refinement` | `ImplementsNoncePool`: the engine refines `NoncePool` |
| `AuditChainProofs` | `ReloadBreaksVerification` | `VerifyOutcome` |
| | `LoneRowsLinked` | `RowsLinked` |
| | `AcknowledgedSurvives` | `AckedIsDurableButFirst` |
| | `MerkleRootSound` | `MerkleRootChanges`, an action property |
| `KeyCustodyProofs` | `DecryptSound` | `DecryptReturnsStored` |
| | `TamperLockHolds` | `TamperedOnlyLate` |
| | `DeadBindingsStayDead` | `DeadStaysDead`, an action property of `GuardSpec` |
| `NetworkProofs` | `ServerDrivesPolicy` | `ServerSpec => PolicySpec`: the server refines the policy engine |
| | `VelocityLimited` | `VelocityHolds` |
| | `BlacklistRespected` | `BlacklistHolds` |
| | `TrailTellsTheStory` | `TrailMatchesState` |
| | `ClientsAlive` | `NoDeadClients` |
| | `RetryContinues` | `GivenUpOnlyAfterDialIn` |
| | `ClosedStaysQuiet` | `QuietAfterClose`, an action property |
| `GovernanceProofs` | `CompletionNeedsThreshold` | `CompletedByThreshold` |
| | `LiftingNeedsThree` | `FreezeLiftedByThree`, an action property |
| | `GovernanceRefinesQuorum` | `ImplementsQuorum`: governance refines `ApprovalQuorum` |
| `ScalarFieldProofs` | `InverseWorks` | `ModInverseOrder` returns the inverse modulo the curve order |
| | `SharesCombine` | `CombineSignatures` of values of a polynomial is its constant |
| | `PartialSignaturesCombine` | of partial signatures for one nonce, the signature of the constant |
| | `SignatureVerifies` | such a signature passes `ECDSAVerify` |
| `SharingProofs` | `OldOnesDestroyed` | `OldKeysDestroyed` |
| | `EpochsAddUp` | `EpochAccounted` |
| | `RefreshesAddUp` | `NoRefreshLost` |
| | `SharesAlwaysReconstruct` | `SharesReconstruct` |
| | `CommonNonceAlwaysSigns` | `CommonNonceSigns` |
| | `AuditBlamesTheFaulty` | `AuditBlamesFirstFaulty` |
| | `SessionsNeverChange` | `SessionsImmutable`, an action property |
| `LicenseKernelProofs` | `SignatureBindsTerms` | a signature under which two licences verify is of licences with the same terms |
| | `TokensProveLicences` | `TokenProvesLicence` |
| | `LastTokensVerify` | `LastTokenVerifies` |
| | `BindingIsKept` | `BindingHolds` |

The inductive invariants, and why the properties are not inductive without them:

- **`PreComputation`, `IInv`.** `Known` (every tuple has a batch number below
  `nextBatch`, so a new batch is new); `PortsDistinct` (a batch is in one place
  of one port); `PortsUnseen` (no tuple of an undelivered batch is queued, held
  or released); `QueueDistinct`; `QueuedAreLive`; `SignedAreDead` (a tuple that
  signed is released). Delivery moves a batch from unseen to queued once,
  `consumeTuple` moves a tuple from queued to held once because the queue is
  distinct, and a signature releases its tuple; a second one would contradict
  `SignedAreDead`. `OneAttempt` adds that every tuple that was tried is released
  (`TriedAreDead`): the `finally` runs when the attempt throws, too. `StatsAddUp` adds the invariant `Counted` (held and released
  tuples are finitely many); `QueueCounts` says that a queue
  without repetitions has as many members as places. `StoppedEmpty` needs only
  that `StopFinish` is the last step of every `stop()` and that a stopped engine
  accepts nothing. `Refinement` maps queue, held and released tuples to `avail`,
  `taken` and `dead`.
- **`AuditChain`, `AuditInv`.** `TableSound` (a row is an entry under its own
  index); `ChainsSound` (the first `loaded` links of a chain lack their
  `previousHash`, all later ones verify); `LoneWriterLinks` (as long as one
  process at a time has written and no reload failed, rows are linked and the
  writer's next index is beyond every row, its last hash that of the last row);
  `Durable`. The reload reads rows `ORDER BY idx`: `CanBeOrdered` shows that a
  finite set of indices has an ascending enumeration, by a minimal
  counterexample in the naturals, and `RowsInOrder` what the reloaded sequence
  then looks like. `MerkleRootSound` needs two things more. `HashesNumbered`: a
  row hashes its own index, and a process hashes next the index after the one in
  its last hash, or follows a genesis entry; so a new hash is not the last one.
  And `RootChanges`, about all chains: on every level the two chains end in
  different hashes, and the level over the shorter one does not begin with the
  hash above the level over the longer one (`Apart`, kept by `UpStaysApart`).
  The second part is for lengths at which the longer chain needs one level more.
- **`HsmEnclave`, `EnclaveInv`.** `CiphersWritten` (also the ciphertext that a
  `decryptShare` in flight has copied was written under its id); `OnlyLate`
  (what a tampered enclave holds *or may still receive from calls in flight* is
  within what was in flight at the zeroize: the property speaks of what
  it holds, the invariant also of the calls); `FinitelyManyCalls`, without which
  they could not be counted; `OneDriver`.
- **`SessionGuard`, `GuardInv`.** `TokensIssued`: a binding's token was issued,
  so the next token is new and no later binding revives an older one. The safety
  half of `DeadStaysClosed`, that no unwrap begins for a dead binding, is the lemma
  `NoUnwrapOnceDead`; that those under way end is left to TLC.
- **`ApiServer`, `PolicyInv` and `ServerInv`.** `TrackerCovers`: the timestamp of
  an allowed evaluation is in the tracker as long as it is within the hour.
  `TrackerCounts` turns that into the inequality the velocity check needs: the
  allowed evaluations of the last hour map one to one into the timestamps it
  counts. The limit is the one of the moment: every evaluation carries the limit it
  was held to, and updates touch neither tracker nor evaluations. A clean-up drops only what is too old, rejected attempts only add. The
  window of an older evaluation that ends now is the window of the new one
  (`RoomInWindow`). Because every server step is a step or a stutter of
  `PolicyEngine` (`ServerDrivesPolicy`), what holds of the engine alone holds
  under the handlers.
- **`Governance`, `GovernanceInv`.** `ThresholdMet` (an approval that ever
  completed still has its signers, as signatures are never withdrawn),
  `IdsKnown` (ids lead to objects, so a step replaces an object that exists),
  `SignersFinite`. `UnfreezeCountIsUnion` shows that the count the code keeps
  while it goes through the list is the number of distinct holders. For the
  refinement every approval object is a ballot; `SubmitVotes`, `TimeLockReleases`
  and `InitiateAsks` map the steps to a vote, good or spoilt, a release and a new
  ballot.
- **`Transport`, `TransportInv`.** `ClientsOwnSockets` (an entry names a socket
  of its own peer that is not gone: close handlers delete the entry of the
  peer, whichever socket it names); `OutMatchesPeer`; `Tended` (a wanted peer has
  a socket or timer, or its own incoming socket has ended: the timer that does
  nothing needs an entry, and the entry a socket that is not gone); `OnlyOpeningOpen` (once
  closing, only sockets that were connecting can still open).
- **`KeyRefresh`, `RefreshInv`.** `KeysAccounted` (each key is current, dropped by
  `initialize`, destroyed or about to be destroyed by exactly one call) is
  what makes the destruction after the await safe; `SharesAccounted`;
  `EpochsBounded` (the epoch, and the one a call in flight will write, come from a
  given epoch and the calls that finished, although both grow meanwhile) and
  `LoneCallsCounted` (as long as no two calls overlapped, the one in flight is
  about to write the very next epoch) make up `EpochInv`.
  `RefreshesAddUp` adds `ShareSums`: the calls that contributed are past replacing
  the share, so none contributes twice and their coefficients stay. One more
  contribution is one more summand (`SumAddsOne`, in whatever order the sum takes
  them), and reducing in between makes no difference (`AddAfterReduction`).
  `RefreshAssumption` says that there are finitely many peers.
- **`MpcEngine`, `EngineInv`.** The properties are about records and shares that
  earlier calls stored, so the invariant ties them to the polynomial of the call:
  every session has shares under its id, and they are the values, at the positions
  of its parties, of a polynomial with one coefficient per party of the threshold
  and the secret of the group key as its constant (`SharesKept`). Every id that
  has shares is below the next one, also those of a DKG that threw after it
  stored them; so a new call overwrites nothing. With distinct parties the map
  keyed by party has the share of each position (`ShareOfPosition`); repeated
  ones lose theirs, which is why the properties exclude them.
- **`Paillier` and the audit.** `AuditBlamesFirstFaulty` needs of the invariant only
  that the registry is a sequence; what has to be shown is that honest proofs verify
  in the context of the audit and that one whose commitment was replaced does not
  (`TamperedRejected`: its challenge is the hash of another term). `ModPowCoprime` keeps through
  the loop of `modPow` that a prime factor of the modulus divides neither the
  result nor the base (`PrimeDividesFactor`); `GcdDivides` says that `gcd` has
  exactly the common divisors, so no such factor divides a randomizer, and that
  there is a randomizer to draw (`RandomizerExists`). Hence a ciphertext is never
  zero (`CiphertextInRange`), and an honest proof verifies in the context it was
  made in and in no other (`ProofVerifies`). `AuditOf` is the rest: the first node
  with evidence against it is the one in the report.
- **`ScalarField`.** What those shares are good for is field arithmetic, over any
  prime and any number of parties. Congruence modulo the order stands for the
  field. `InverseWorks` follows the loop of `modInverseOrder`: each remainder is
  congruent to its coefficient times the number (`Multiplies`), and the last one
  divides both numbers (`Bezout`), so it is 1 because the order is a prime.
  `LagrangeCoefficientIsWeight` shows that the coefficient the code computes by
  two folds and an inversion is the weight of a node in interpolation at zero.
  Interpolation is exact for a polynomial with no more coefficients than nodes
  (`InterpolatePolynomial`), by induction over the coefficients: values multiplied
  by their nodes interpolate to a multiple of the difference that one node more
  or less makes (`InterpolateShifted`), and that is zero.
  `SignatureVerifies` is the ECDSA equation.
- **`LicenseKernel`, `IInv`.** `SignatureBindsTerms` says that packing tells any
  two licences apart that get a signature. The words that make up a packed
  licence are prefix-free (a length precedes each text), so a message splits
  into them in one way, and `Byte^4` bytes tell numbers apart below the limit at
  which `pack` throws. On top of it:
  `CallsChecked` (what a call has verified before an await still holds when it
  installs: its licence passed the check, and the identity it read is that of the
  machine unless the hardware changed since); `SecretErased` (the secret is erased
  from the first `shutdown` on, and an initialisation that outlives it brings none
  back); `StateSound` (the state is that of the last installation, with usage
  inside its quota) and `InstallationsSound`; `TokensVouch` (a token carries the
  identity of the installation it was made under, a usage inside its quota, and,
  if it has the issued secret, no time after the shutdown); `IntervalsOnTime`
  and `LastTokenFresh` (every live interval, also those the kernel has lost, is
  at most `Slack` late, and the one that made the last token is still armed, so
  that the token is no older than an interval and `Slack`).

The folds of the community modules come with no facts. The proofs unfold them:
they are functions on the subsets of a set, chosen by a recursive equation. That
such a function exists is shown by a minimal counterexample in the naturals
(`FoldExists`, `LevelsExist`), and what it computes by induction over subsets
(`SubsetsFromSmaller`), positions (`EvalUnfolds`, `CombineSteps`) or levels
(`LevelByLevel`). The recursive functions are handled the same way: a loop whose
measure goes down defines one (`RecursionExists`, `TailRecursion`), and what every
round keeps holds of its result (`LoopKeeps`).

Only model-checked:

- Liveness (`StopReturns`, `DeadStaysClosed`, `SessionsGetLogged`,
  `HeartbeatsStart`): fairness and
  ENABLED are outside what the prover does.
- `KeyPairsSound` rests on Paillier's congruences modulo
  n^2 (that decryption undoes encryption) and on a probabilistic primality test.
- `PackingUnambiguous`: what nested values pack to is evaluated by recursion over
  values. What licensing needs of it, that flat messages are told apart, is proved
  (`SignatureBindsTerms`).

## 6. Observations

Findings with a run of their own:

- `stop()` clears `this.workers` after its await, whatever it holds by then;
  workers pushed by a `start()` in between run on unknown to the engine
  (`pre_computation_engine.ts:113`).
- `executeThresholdSigning` looks for `state === 'COMPLETED'`; DKG stores
  `phase` (`mpc_cmp.ts:196`), so signing always fails.
- `auditIdentifiableAbort` verifies with an empty context (`mta_zkp.ts:252`), not
  with the one the proofs of the exchange were made for, so it blames honest
  nodes; the comment and `ARCHITECTURE.md` promise to find malicious ones.
- MtA: the mask is subtracted modulo n and the result reduced modulo the curve
  order, so the shares are off by n when `xy < beta` (`mta_zkp.ts:166`). The
  comment says "alpha = xy - beta (mod q)". For random 256-bit secrets this is
  rare, for small ones (those of `tests/crypto/mta_zkp.test.ts`) it is the rule.
- Numbers from 2^32 on throw when packed, because the loop assigns to a constant
  (`binary_serializer.ts:231`); a licence with current timestamps can be neither
  signed nor verified, and its validity window is never open.
- `pack` stores the length without the first nine bytes (`binary_serializer.ts:113`),
  `unpack` expects it without the checksum too (`:159`) and refuses every payload.
  In the transport that makes each authentic message an 'error' event
  (`transport.ts:243`). The same run would show, were the length right: numbers
  from 2^31 on come back negative (`:304`); nested members need room for a checksum
  that is not there (`:278`, `:293`), so no array or map with a member decodes;
  larger integers are cut to 32 bytes, which the header excludes (`:9`).
- The time lock of an approval is not enforced: `submitApproval` approves a
  `TIME_LOCKED` object (`governance_engine.ts:310`), against "cannot be bypassed" (`:7`).
- A reconnection timer that finds its peer connected does nothing
  (`transport.ts:122`), and the socket a peer opened itself schedules nothing when
  it closes (`:247`): a peer that is dialled and dials in can be given up.

Met while modelling; the models have the code as it is:

- Audit: the rows read back have `previous_hash`, not `previousHash`, so a
  reloaded chain fails verification at its first link (`audit_chain.ts:57`);
  the genesis entry leaves `nextIndex` at 0, so the first logged entry is lost
  from the table (`:82`); with several replicas an entry whose index another one
  took is dropped in silence (`:221`), and `AckedIsDurableButFirst` is about a lone
  process.
- HSM: an encryption past its status check stores into an enclave zeroized
  meanwhile (`hsm_enclave.ts:55`); a KMS import that returns late brings the
  client back after a zeroize (`:126`, `:260`); an alert during the await of
  `resetAndAttest` is undone by it (`:84`), which no property speaks of; the facade reports constants
  (`:286`).
- Session guard: a revocation does not stop an unwrap already past its check
  (`session_guard.ts:159`).
- MPC engine: the signers' independent nonces do not combine to a signature
  under the sum of their points (`mpc_cmp.ts:256`); a dropped party is not
  replaced by one of the others (`:205`); filling up the registry can repeat an
  id (`:80`); a refresh returns an id under which nothing is stored (`:318`).
- Policy: velocity is counted per address string, so another spelling has a
  limit of its own (`policy_engine.ts:128`); refused attempts count (`:157`).
  The sign handler reads neither the approvals nor the time lock of the verdict
  (`server.ts:147`) and never records spending (`:153`).
- Governance: `submitApproval` looks at neither `requiredRoles` nor the freeze; one
  recorded signature that does not parse makes every later submission throw at the
  threshold (`governance_engine.ts:343`); the continuation of the time lock reopens an
  approval that completed before it (`governance_engine.ts:284`); those who
  triggered an emergency are counted among those who lift it (`:476`, `:495`).
  `evaluateVDF` raises to the power `T - r` with `r` a 256-bit hash: `modPow`
  throws on negative exponents, so the lock practically never opens
  (`vdf_engine.ts:88`).
- Transport: a failed attempt arms two timers, the first of which nobody can
  clear (`transport.ts:140-149`); `disconnect()` of a dialled peer does not
  last, because the close event of its socket schedules a reconnection.
- Key refresh: `receiveSubShare` is a placeholder that yields 0, so the shares
  of different nodes move apart, although the header promises that the master
  secret is unchanged (`key_refresh_engine.ts:11`); overlapping calls can set
  the epoch back, and a call that an `initialize` falls into writes its own epoch
  over the new one (`:232`); a sub-share of zero (peer `node-0`, or threshold 1)
  makes the call throw.
- MtA audit: verification relates the response to nothing that was encrypted, so
  secrets outside the range pass; round 3, which nothing calls, rejects a correct
  exchange that leaves `alpha` zero (`mta_zkp.ts:210`).
- Licensing: besides `licence_window`, only a licence that has expired by the clock
  in milliseconds packs, and it passes only if its grace period reaches that far
  (some 470000 hours today); a licence is verified once; the end of the grace period, which the
  state stores, is never looked at again (`license_kernel.ts:97`).
  Initialising again starts the counters from zero and leaves the old interval
  running (`:208`). A call that outlives `shutdown()` installs its licence and
  arms an interval, with an erased secret. A licence bound to a machine matches
  only exactly: the identity made up for the comparison has no components
  (`:74`). Tokens are accepted for up to three epochs, where the comment says
  ten minutes (`heartbeat.ts:74`).

Defects of the build, modelled as the code intends: relative imports that do
not resolve in `governance_engine.ts`, `license_kernel.ts` and
`license_blob.ts`; names imported
from `secure_random.ts` that it does not export (`signing_worker.ts`,
`key_refresh_engine.ts`) or that are not imported at all (`randomBigIntRange`
in `paillier.ts`); `await` in a function that is not async
(`verifyBLSSignature`); `require` in an ES module; `randomBigInt` draws eight
bytes more than it needs and rejects what is too large, which is nearly all.

## 7. Not modelled

- Read-only routes, rate limits, CORS, start-up of the server: Express plumbing.
- Proofs sent with refresh sub-shares: nothing reads them.
- Licensing: the ceremony counters, which only the telemetry export reads; the
  feature query; the export itself, which changes nothing.
- Sending over the transport and the authentication of messages: they change no
  state of the transport, and what is delivered is settled by the serializer.
- Telemetry, logging, database set-up, deployment files: input and output or
  configuration.
- Ed25519, address derivation, BLS arithmetic: stateless library calls; their
  results are inputs of the models.
- `chaos/`: test tools.

- Of licensing, the awaits between the single readers of a machine's identity: one
  reading is one step, and a change of hardware falls before or after it.

## 8. Plan

Done, in this order: pre-signature engine with its abstraction and proofs;
audit trail; enclave; session guard; MPC engine; policy engine and server;
governance; transport; key refresh; Paillier; serializer and licensing; range
proofs and the audit of aborts.

Proofs, in this order: pre-signature engine; enclave; session guard; governance;
transport; key refresh; audit trail; statistics of the pre-signature engine;
policy engine and server; Merkle root and sum of the refreshes; licensing; MPC
engine with the arithmetic of shares and signatures; ciphertexts and the audit of
aborts.

Next:

1. Proofs for `Paillier`: decryption undoes encryption.
2. An abstract specification for the enclave (a lock), with its refinement.
3. `GET` routes that read the audit trail while replicas write, composing
   `ApiServer` with `AuditChain`.
