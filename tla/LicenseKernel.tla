---------------------------- MODULE LicenseKernel ----------------------------
(***************************************************************************)
(* LicenseVerificationKernel of licensing/license_kernel.ts with the       *)
(* licence check (license_blob.ts), the machine identity                   *)
(* (hardware_fingerprint.ts) and the heartbeat tokens (heartbeat.ts).      *)
(*                                                                         *)
(* Time counts from a StartTime above 2^32, as milliseconds since 1970 do. *)
(* A licence is the terms a caller presents and the terms the issuer       *)
(* signed; a signature verifies when both pack to the same bytes.  Texts   *)
(* are sequences of bytes, hashes are injective terms.  The ceremony       *)
(* counters, which only the telemetry export reads, are left out.          *)
(***************************************************************************)
EXTENDS BinarySerializer, FiniteSets

CONSTANTS
    Licences,    \* blobs the callers have: [terms, signed]
    Machines,    \* hardware the process can find itself on: [tpm, cpu, mac, disk]
    Volumes,     \* volumes of recorded transactions
    HourMs,      \* milliseconds of an hour
    EpochMs,     \* HEARTBEAT_INTERVAL_MS and EPOCH_DURATION_MS, which are equal
    Slack,       \* how late the event loop may run a timer
    StartTime,
    Horizon,     \* last time at which a call begins
    MaxTime,     \* bound of the clock
    MaxInits,    \* bound of the calls whose licence is accepted
    MaxChanges,  \* bound of the hardware changes
    MaxTokens    \* bound of the tokens callers keep

Text == Seq(0..(Byte - 1))

\* The terms of a licence, the optional fingerprint empty when it is absent.
LicenseTerms ==
    [licenseId : Text, customerId : Text, tier : Text, featureFlags : Seq(Text),
     nodeLimit : Int, period : Text, maxTransactions : Int, maxVolumeUSD : Int,
     notBefore : Int, notAfter : Int, hardwareFingerprint : Text, gracePeriodHours : Int,
     issuedAt : Int]

ASSUME LicenseAssumption ==
    /\ Licences \subseteq [terms : LicenseTerms, signed : LicenseTerms]
    /\ {HourMs, EpochMs, Slack, StartTime, Horizon, MaxTime, MaxInits, MaxChanges,
        MaxTokens} \subseteq Nat
    /\ EpochMs > 0 /\ Slack <= EpochMs
    /\ Power[4] <= StartTime /\ StartTime < Horizon /\ Horizon + EpochMs + Slack <= MaxTime

VARIABLES
    now,
    hw,              \* the hardware the readers find
    changes,         \* how often it has changed
    state,           \* this.state
    heartbeatSecret, \* "issued", or "zero" once shutdown() has filled it
    heartbeatTimer,  \* the handle in this.heartbeatTimer, 0 for null
    intervals,       \* live intervals: handle -> time of the next callback
    inits,           \* accepted calls so far, which number calls and intervals
    call,            \* the calls of initializeLicense: where each one waits
    installed,       \* history: every state the kernel has installed
    shutAt,          \* history: time of the first shutdown(), 0 before it
    tokens           \* tokens callers have: [token, under], under = its state's number

vars == <<now, hw, changes, state, heartbeatSecret, heartbeatTimer, intervals, inits, call,
          installed, shutAt, tokens>>

NoState == [none |-> TRUE]
NoToken == [none |-> TRUE]
Idle == [at |-> "idle"]
Call == 1..MaxInits

-----------------------------------------------------------------------------
(* license_blob.ts *)

Num(n) == [t |-> "number", v |-> n]
Txt(s) == [t |-> "string", v |-> s]
LICENSE_BLOB == <<7>>

\* The fields serializeLicenseData packs, under the keys 1 to 13.
LicenseData(terms) ==
    LET values ==
          <<Txt(terms.licenseId), Txt(terms.customerId), Txt(terms.tier),
            [t |-> "array", v |-> [i \in DOMAIN terms.featureFlags |-> Txt(terms.featureFlags[i])]],
            Num(terms.nodeLimit), Txt(terms.period), Num(terms.maxTransactions),
            Num(terms.maxVolumeUSD), Num(terms.notBefore), Num(terms.notAfter),
            Txt(terms.hardwareFingerprint), Num(terms.gracePeriodHours), Num(terms.issuedAt)>>
    IN  [i \in DOMAIN values |-> [key |-> BigIntToBytes(i, 2), value |-> values[i]]]

\* signLicenseBlob returns, instead of throwing when it packs the terms.
Signs(terms) == Packs(LICENSE_BLOB, LicenseData(terms))

SerializeLicenseData(terms) == Pack(LICENSE_BLOB, LicenseData(terms)).bytes

\* The blobs whose signature verifies.  Whoever does not pack has no signature.
Authentic ==
    {l \in Licences : /\ Signs(l.terms) /\ Signs(l.signed)
                      /\ SerializeLicenseData(l.terms) = SerializeLicenseData(l.signed)}

GraceEnd(terms) == terms.notAfter + terms.gracePeriodHours * HourMs

\* Mutant: an expired licence stays in its grace period for ever.
VerifyLicenseBlob_EndlessGrace(l, time) ==
    LET expired == time > l.terms.notAfter IN
    [valid |-> l \in Authentic /\ time >= l.terms.notBefore,
     inGracePeriod |-> l \in Authentic /\ time >= l.terms.notBefore /\ expired]

VerifyLicenseBlob(l, time) ==
    LET begun == l \in Authentic /\ time >= l.terms.notBefore
        expired == time > l.terms.notAfter
    IN  [valid |-> begun /\ (expired => time < GraceEnd(l.terms)),
         inGracePeriod |-> begun /\ expired /\ time < GraceEnd(l.terms)]

-----------------------------------------------------------------------------
(* hardware_fingerprint.ts *)

\* A TPM that is absent or answers nothing reads as << >>.  The other readers
\* answer a default instead of throwing, so the container fallback is never tried.
GenerateHardwareFingerprint(m) ==
    IF m.tpm # << >>
    THEN [fingerprint |-> <<1>> \o m.tpm, source |-> "TPM", components |-> [ekpub |-> m.tpm]]
    ELSE [fingerprint |-> <<2, m.cpu, m.mac, m.disk>>, source |-> "CPUID_MAC_DISK",
          components |-> [cpuId |-> m.cpu, mac |-> m.mac, disk |-> m.disk]]

\* Mutant: no components to compare counts as a match, whatever the source.
VerifyHardwareFingerprint_AnySource(stored, current) ==
    \/ current.fingerprint = stored.fingerprint
    \/ 100 * Cardinality({k \in DOMAIN stored.components \cap DOMAIN current.components :
                             stored.components[k] = current.components[k]})
         >= 66 * Cardinality(DOMAIN stored.components)

\* The matches of verifyHardwareFingerprint.  The score of a stored identity
\* without components is 0 / 0, which is not >= 0.66.
VerifyHardwareFingerprint(stored, current) ==
    LET matching == {k \in DOMAIN stored.components \cap DOMAIN current.components :
                        stored.components[k] = current.components[k]}
        total == Cardinality(DOMAIN stored.components)
    IN  \/ current.fingerprint = stored.fingerprint
        \/ /\ stored.source = "CPUID_MAC_DISK" /\ total > 0
           /\ 100 * Cardinality(matching) >= 66 * total

\* The identity initializeLicense makes up from the text in a licence.
StoredFingerprint(terms) ==
    [fingerprint |-> terms.hardwareFingerprint, source |-> "TPM", components |-> << >>]

-----------------------------------------------------------------------------
(* heartbeat.ts *)

\* The token of a state; the HMAC is the key and the fields it covers.
GenerateHeartbeat(s, key) ==
    LET fields == [epoch |-> now \div EpochMs, hwFingerprint |-> s.hwFingerprint.fingerprint,
                   usage |-> [tx |-> s.totalTransactions, vol |-> s.totalVolumeUSD],
                   timestamp |-> now]
    IN  [fields |-> fields, hmac |-> [key |-> key, over |-> fields]]

VerifyHeartbeat(token, key, expectedHwFingerprint) ==
    LET difference == now \div EpochMs - token.fields.epoch IN
    /\ difference \in -2..2
    /\ token.fields.hwFingerprint = expectedHwFingerprint
    /\ token.hmac = [key |-> key, over |-> token.fields]

\* The cloned flag of detectCloning for a set of tokens.
DetectCloning(Tokens) ==
    \E a, b \in Tokens : /\ a.fields.epoch = b.fields.epoch
                         /\ a.fields.hwFingerprint # b.fields.hwFingerprint

-----------------------------------------------------------------------------
(* initializeLicense *)

Init ==
    /\ now = StartTime
    /\ hw \in Machines
    /\ changes = 0
    /\ state = NoState
    /\ heartbeatSecret = "issued"
    /\ heartbeatTimer = 0
    /\ intervals = << >>
    /\ inits = 0
    /\ call = [c \in Call |-> Idle]
    /\ installed = << >>
    /\ shutAt = 0
    /\ tokens = {}

\* The licence is verified once, at the start of the call.
InitBegin(l) ==
    LET verification == VerifyLicenseBlob(l, now) IN
    /\ now < Horizon /\ inits < MaxInits
    /\ verification.valid \/ verification.inGracePeriod
    /\ inits' = inits + 1
    /\ call' = [call EXCEPT ![inits + 1] = [at |-> "reading", blob |-> l,
                                            verification |-> verification,
                                            verifiedAt |-> now]]
    /\ UNCHANGED <<now, hw, changes, state, heartbeatSecret, heartbeatTimer, intervals,
                   installed, shutAt, tokens>>

\* Mutant: the interval is armed only outside the grace period.
StartHeartbeat_NotInGrace(s, handle) ==
    IF s.gracePeriodActive THEN UNCHANGED <<heartbeatTimer, intervals>>
    ELSE /\ heartbeatTimer' = handle
         /\ intervals' = [h \in DOMAIN intervals \cup {handle} |->
                            IF h = handle THEN now + EpochMs ELSE intervals[h]]

\* startHeartbeat arms an interval and overwrites the handle of the last one,
\* which stays armed.
StartHeartbeat(s, handle) ==
    /\ heartbeatTimer' = handle
    /\ intervals' = [h \in DOMAIN intervals \cup {handle} |->
                       IF h = handle THEN now + EpochMs ELSE intervals[h]]

\* The rest of a call whose checks passed: a new state, the heartbeat, return.
Install(c, fingerprint, readAt) ==
    LET s == [blob |-> call[c].blob, hwFingerprint |-> fingerprint,
              isValid |-> call[c].verification.valid \/ call[c].verification.inGracePeriod,
              gracePeriodActive |-> call[c].verification.inGracePeriod,
              totalTransactions |-> 0, totalVolumeUSD |-> 0,
              lastHeartbeatAt |-> 0, lastHeartbeatToken |-> NoToken]
    IN  /\ state' = s
        /\ StartHeartbeat(s, c)
        /\ call' = [call EXCEPT ![c] = Idle]
        /\ installed' = Append(installed, [terms |-> s.blob.terms, signed |-> s.blob.signed,
                                           fingerprint |-> fingerprint.fingerprint,
                                           verifiedAt |-> call[c].verifiedAt,
                                           changed |-> changes - readAt])
        /\ UNCHANGED <<now, hw, changes, heartbeatSecret, inits, shutAt, tokens>>

\* The await of generateHardwareFingerprint ends.
ReadFingerprint(c) ==
    LET fingerprint == GenerateHardwareFingerprint(hw) IN
    /\ call[c].at = "reading"
    /\ \/ call[c].blob.terms.hardwareFingerprint = << >> /\ Install(c, fingerprint, changes)
       \/ /\ call[c].blob.terms.hardwareFingerprint # << >>
          /\ call' = [call EXCEPT ![c] = [at |-> "checking", blob |-> @.blob,
                                          verification |-> @.verification,
                                          verifiedAt |-> @.verifiedAt, fingerprint |-> fingerprint,
                                          readAt |-> changes]]
          /\ UNCHANGED <<now, hw, changes, state, heartbeatSecret, heartbeatTimer, intervals,
                         inits, installed, shutAt, tokens>>

\* The await of verifyHardwareFingerprint, which reads the hardware again, ends:
\* the call throws or installs what the first reading found.
CheckBinding(c) ==
    LET matches == VerifyHardwareFingerprint(StoredFingerprint(call[c].blob.terms),
                                             GenerateHardwareFingerprint(hw)) IN
    /\ call[c].at = "checking"
    /\ \/ matches /\ Install(c, call[c].fingerprint, call[c].readAt)
       \/ /\ ~matches
          /\ call' = [call EXCEPT ![c] = Idle]
          /\ UNCHANGED <<now, hw, changes, state, heartbeatSecret, heartbeatTimer, intervals,
                         inits, installed, shutAt, tokens>>

-----------------------------------------------------------------------------
(* Timers, metering, tokens, shutdown *)

Beat(s, at, key) ==
    [s EXCEPT !.lastHeartbeatAt = at, !.lastHeartbeatToken = GenerateHeartbeat(s, key)]

\* Mutant: the callback runs once.
FireInterval_Once(h) ==
    /\ h \in DOMAIN intervals /\ now >= intervals[h]
    /\ state' = Beat(state, now, heartbeatSecret)
    /\ intervals' = [g \in DOMAIN intervals \ {h} |-> intervals[g]]
    /\ UNCHANGED <<now, hw, changes, heartbeatSecret, heartbeatTimer, inits, call, installed,
                   shutAt, tokens>>

\* The callback of an interval, also of one whose handle is lost; the next one
\* is due an interval after this one runs.
FireInterval(h) ==
    /\ h \in DOMAIN intervals /\ now >= intervals[h]
    /\ state' = Beat(state, now, heartbeatSecret)
    /\ intervals' = [intervals EXCEPT ![h] = now + EpochMs]
    /\ UNCHANGED <<now, hw, changes, heartbeatSecret, heartbeatTimer, inits, call, installed,
                   shutAt, tokens>>

RecordTransaction(volumeUSD) ==
    /\ state # NoState
    /\ state.totalTransactions < state.blob.terms.maxTransactions
    /\ state.totalVolumeUSD + volumeUSD <= state.blob.terms.maxVolumeUSD
    /\ state' = [state EXCEPT !.totalTransactions = @ + 1, !.totalVolumeUSD = @ + volumeUSD]
    /\ UNCHANGED <<now, hw, changes, heartbeatSecret, heartbeatTimer, intervals, inits, call,
                   installed, shutAt, tokens>>

\* A caller keeps the token: one made for it, or the last one in getState().
TakeToken(token) ==
    /\ Cardinality(tokens) < MaxTokens
    /\ tokens' = tokens \cup {[token |-> token, under |-> Len(installed)]}
    /\ UNCHANGED <<now, hw, changes, state, heartbeatSecret, heartbeatTimer, intervals, inits,
                   call, installed, shutAt>>

GetCurrentHeartbeat == state # NoState /\ TakeToken(GenerateHeartbeat(state, heartbeatSecret))

HasBeaten == state # NoState /\ state.lastHeartbeatToken # NoToken

GetState == HasBeaten /\ TakeToken(state.lastHeartbeatToken)

\* Mutant: the secret is not erased.
Shutdown_KeepsSecret ==
    /\ heartbeatTimer' = 0
    /\ intervals' = [h \in DOMAIN intervals \ {heartbeatTimer} |-> intervals[h]]
    /\ shutAt' = IF shutAt = 0 THEN now ELSE shutAt
    /\ UNCHANGED <<now, hw, changes, state, heartbeatSecret, inits, call, installed, tokens>>

\* shutdown knows the last interval only; it keeps the state.
Shutdown ==
    /\ heartbeatTimer' = 0
    /\ intervals' = [h \in DOMAIN intervals \ {heartbeatTimer} |-> intervals[h]]
    /\ heartbeatSecret' = "zero"
    /\ shutAt' = IF shutAt = 0 THEN now ELSE shutAt
    /\ UNCHANGED <<now, hw, changes, state, inits, call, installed, tokens>>

\* The environment: the readers find other hardware, time passes.
ChangeHardware ==
    /\ changes < MaxChanges
    /\ hw' \in Machines \ {hw}
    /\ changes' = changes + 1
    /\ UNCHANGED <<now, state, heartbeatSecret, heartbeatTimer, intervals, inits, call,
                   installed, shutAt, tokens>>

\* No callback is late by more than Slack, and calls end before the clock stops.
Tick ==
    /\ now < MaxTime
    /\ \A h \in DOMAIN intervals : now < intervals[h] + Slack
    /\ now >= Horizon => \A c \in Call : call[c] = Idle
    /\ now' = now + 1
    /\ UNCHANGED <<hw, changes, state, heartbeatSecret, heartbeatTimer, intervals, inits, call,
                   installed, shutAt, tokens>>

Next ==
    \/ \E l \in Licences : InitBegin(l)
    \/ \E c \in Call : ReadFingerprint(c) \/ CheckBinding(c)
    \/ \E h \in DOMAIN intervals : FireInterval(h)
    \/ \E v \in Volumes : RecordTransaction(v)
    \/ GetCurrentHeartbeat \/ GetState
    \/ Shutdown
    \/ ChangeHardware
    \/ Tick

Spec == Init /\ [][Next]_vars

\* File reads end, timers run and time passes; nobody has to call anything.
Fairness ==
    /\ WF_vars(Tick)
    /\ \A c \in Call : WF_vars(ReadFingerprint(c)) /\ WF_vars(CheckBinding(c))
    /\ \A h \in Call : WF_vars(FireInterval(h))

FairSpec == Spec /\ Fairness

-----------------------------------------------------------------------------
(* Properties *)

\* A token that verifies under the issued secret was made less than three epochs
\* ago, not after a shutdown, for a licence the issuer signed as presented and that
\* was in force when the call checked it, with the identity that licence was
\* installed with and usage inside its quota - also when leaked intervals run on,
\* calls overlap, or a call outlives a shutdown.
TokenProvesLicence ==
    \A x \in tokens :
      LET f == x.token.fields IN
      VerifyHeartbeat(x.token, "issued", f.hwFingerprint) =>
        /\ now - f.timestamp < 3 * EpochMs
        /\ shutAt # 0 => f.timestamp <= shutAt
        /\ x.under \in DOMAIN installed
        /\ LET r == installed[x.under] IN
             /\ r.terms = r.signed
             /\ r.terms.notBefore <= r.verifiedAt
             /\ r.verifiedAt <= r.terms.notAfter \/ r.verifiedAt < GraceEnd(r.terms)
             /\ r.fingerprint = f.hwFingerprint
             /\ f.usage.tx <= r.terms.maxTransactions
             /\ f.usage.vol <= r.terms.maxVolumeUSD

\* Until a shutdown the last token of the state verifies at any time, although
\* callbacks may be as late as a whole interval and re-initialisation replaces
\* the state under the running intervals.
LastTokenVerifies ==
    HasBeaten /\ heartbeatSecret = "issued" =>
        VerifyHeartbeat(state.lastHeartbeatToken, "issued", state.hwFingerprint.fingerprint)

\* "Check validity window" and "72h default" of license_blob.ts: a licence that
\* the caller has as the issuer signed it is valid all through its window.
WindowAccepted ==
    \A l \in Licences :
        /\ l.terms = l.signed
        /\ now \in l.terms.notBefore..l.terms.notAfter
        => VerifyLicenseBlob(l, now).valid

\* A licence bound to a machine is installed with that machine's identity, unless
\* the hardware changed between the two readings; and the tokens of one
\* installation, those taken and its last one, never look cloned, whatever happens
\* to the hardware later.
BindingHolds ==
    \A i \in DOMAIN installed :
      LET r == installed[i] IN
      /\ r.terms.hardwareFingerprint # << >> /\ r.changed = 0 =>
            r.fingerprint = r.terms.hardwareFingerprint
      /\ ~DetectCloning({x.token : x \in {y \in tokens : y.under = i}}
                           \cup IF HasBeaten /\ i = Len(installed)
                                THEN {state.lastHeartbeatToken} ELSE {})

\* After an installation a heartbeat is made, or the kernel is shut down.
HeartbeatsStart ==
    (state # NoState /\ heartbeatSecret = "issued") ~> (HasBeaten \/ heartbeatSecret = "zero")

=============================================================================
