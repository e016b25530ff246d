------------------------------ MODULE HsmEnclave ----------------------------
(***************************************************************************)
(* The two drivers of crypto/hsm_enclave.ts, of which a process has one    *)
(* (getHSMDriver).  Both check the status, then await Web Crypto or AWS    *)
(* KMS; zeroize and resetAndAttest can run in between.                     *)
(*                                                                         *)
(* AES-GCM under a PBKDF2 key is modelled as a pair of the plaintext and   *)
(* the master secret: only the same secret opens it (salt and iv are fresh *)
(* per call and stored with the ciphertext).  The KMS driver stores no     *)
(* ciphertext: what it keeps is a counter and the client, which is there   *)
(* once the SDK has been imported.  Its decryptShare always throws and its *)
(* decryptCiphertext changes nothing.                                      *)
(***************************************************************************)
EXTENDS Integers, FiniteSets

CONSTANTS Call,     \* identities for the asynchronous calls in flight
          ShareId,  \* names of shares
          Data,     \* plaintext shares
          Secret,   \* master secrets callers use
          None,     \* no call
          MaxKeys   \* bound on keyCount

Ciphertext == [data : Data, secret : Secret]

\* What a call in flight remembers across its await.
Operation ==
    [kind : {"encrypt"}, id : ShareId, secret : Secret, data : Data]
        \cup [kind : {"decrypt"}, id : ShareId, secret : Secret, cipher : Ciphertext]
        \cup [kind : {"reset", "kmsEncrypt", "kmsReset"}]

ASSUME NoneAssumption == None \notin Operation
ASSUME MaxKeysAssumption == MaxKeys \in Nat

VARIABLES
    provider,   \* the driver getHSMDriver made
    status,     \* this.status, of either driver
    attested,   \* FALSE when attestationHash is the all-zero hash
    shares,     \* this.encryptedShares
    sdk,        \* KMS: "loading" or "loaded"; the commands are there once loaded
    client,     \* KMS: kmsClient is not null
    keyCount,   \* KMS: this.keyCount
    op,         \* op[c]: what call c will do when its await returns
    written,    \* history: what completed encryptShare calls stored
    returned,   \* history: what completed decryptShare calls returned
    late        \* history: what was in flight when zeroize() last ran

kms == <<sdk, client, keyCount>>
simulation == <<attested, shares, written, returned>>
enclaveVars == <<provider, status, simulation, kms, op, late>>

Cipher(d, s) == [data |-> d, secret |-> s]

InFlight(kind) == {c \in Call : op[c] # None /\ op[c].kind = kind}

EnclaveInit ==
    /\ provider \in {"simulation", "kms"}
    /\ status = "HEALTHY"
    /\ attested = TRUE
    /\ shares = << >>
    /\ sdk = "loading"
    /\ client = FALSE
    /\ keyCount = 0
    /\ op = [c \in Call |-> None]
    /\ written = {}
    /\ returned = {}
    /\ late = [ids |-> {}, encryptions |-> 0, imports |-> FALSE]

\* What zeroize() finds in flight.
NowLate ==
    [ids |-> {op[c].id : c \in InFlight("encrypt")},
     encryptions |-> Cardinality(InFlight("kmsEncrypt")),
     imports |-> sdk = "loading" \/ InFlight("kmsReset") # {}]

-----------------------------------------------------------------------------
(* Simulation driver.  A call in any other status throws 'HSM LOCKED'.     *)

\* Mutant: no status check.
EncryptBegin_Unlocked(c, i, d, s) ==
    /\ provider = "simulation"
    /\ op[c] = None
    /\ op' = [op EXCEPT ![c] = [kind |-> "encrypt", id |-> i,
                                secret |-> s, data |-> d]]
    /\ UNCHANGED <<provider, status, simulation, kms, late>>

\* encryptShare up to its awaits.
EncryptBegin(c, i, d, s) ==
    /\ provider = "simulation"
    /\ op[c] = None
    /\ status = "HEALTHY"
    /\ op' = [op EXCEPT ![c] = [kind |-> "encrypt", id |-> i,
                                secret |-> s, data |-> d]]
    /\ UNCHANGED <<provider, status, simulation, kms, late>>

\* encryptShare after its awaits: the status is not looked at again.
EncryptFinish(c) ==
    /\ c \in InFlight("encrypt")
    /\ LET o == op[c] IN
         /\ shares' = [i \in DOMAIN shares \cup {o.id} |->
                          IF i = o.id THEN Cipher(o.data, o.secret)
                          ELSE shares[i]]
         /\ written' = written \cup {<<o.id, o.secret, o.data>>}
    /\ op' = [op EXCEPT ![c] = None]
    /\ UNCHANGED <<provider, status, attested, returned, kms, late>>

\* decryptShare up to its awaits: it copies the ciphertext (slice).  For an
\* unknown id it throws.
DecryptBegin(c, i, s) ==
    /\ provider = "simulation"
    /\ op[c] = None
    /\ status = "HEALTHY"
    /\ i \in DOMAIN shares
    /\ op' = [op EXCEPT ![c] = [kind |-> "decrypt", id |-> i,
                                secret |-> s, cipher |-> shares[i]]]
    /\ UNCHANGED <<provider, status, simulation, kms, late>>

\* Mutant: the key does not depend on the master secret.
Opened_AnyKey(ct, s) == {ct.data}

\* The value AES-GCM yields for a ciphertext and a secret: none on a wrong key.
Opened(ct, s) == IF ct.secret = s THEN {ct.data} ELSE {}

\* decryptShare after its awaits; with the wrong secret it rejects.
DecryptFinish(c) ==
    /\ c \in InFlight("decrypt")
    /\ returned' = returned \cup
           {<<op[c].id, op[c].secret, d>> : d \in Opened(op[c].cipher, op[c].secret)}
    /\ op' = [op EXCEPT ![c] = None]
    /\ UNCHANGED <<provider, status, attested, shares, written, kms, late>>

\* The body of zeroize(), which has no await.
ZeroizeBody ==
    /\ provider = "simulation"
    /\ shares' = << >>
    /\ status' = "TAMPERED"
    /\ attested' = FALSE
    /\ late' = NowLate
    /\ UNCHANGED <<provider, written, returned, kms>>

\* zeroize(), also reached by HSMEnclaveSimulator.triggerTamperAlert().
Zeroize ==
    /\ ZeroizeBody
    /\ UNCHANGED op

\* resetAndAttest() up to "await this.zeroize()".
ResetBegin(c) ==
    /\ op[c] = None
    /\ ZeroizeBody
    /\ op' = [op EXCEPT ![c] = [kind |-> "reset"]]

\* resetAndAttest() after the await.
ResetFinish(c) ==
    /\ c \in InFlight("reset")
    /\ status' = "HEALTHY"
    /\ attested' = TRUE
    /\ op' = [op EXCEPT ![c] = None]
    /\ UNCHANGED <<provider, shares, written, returned, kms, late>>

-----------------------------------------------------------------------------
(* KMS driver *)

\* The import of the constructor returns: it sets the client, whatever was
\* called meanwhile.
SdkLoaded ==
    /\ provider = "kms"
    /\ sdk = "loading"
    /\ sdk' = "loaded"
    /\ client' = TRUE
    /\ UNCHANGED <<provider, status, simulation, keyCount, op, late>>

\* encryptShare up to its await; without the client or the commands it throws.
KmsEncryptBegin(c) ==
    /\ provider = "kms"
    /\ op[c] = None
    /\ status = "HEALTHY"
    /\ client
    /\ sdk = "loaded"
    /\ keyCount + Cardinality(InFlight("kmsEncrypt")) < MaxKeys
    /\ op' = [op EXCEPT ![c] = [kind |-> "kmsEncrypt"]]
    /\ UNCHANGED <<provider, status, simulation, kms, late>>

\* The answer of KMS, or an error.
KmsEncryptFinish(c, ok) ==
    /\ c \in InFlight("kmsEncrypt")
    /\ keyCount' = IF ok THEN keyCount + 1 ELSE keyCount
    /\ op' = [op EXCEPT ![c] = None]
    /\ UNCHANGED <<provider, status, simulation, sdk, client, late>>

\* Mutant: the client is destroyed and not forgotten.
KmsZeroize_KeepsClient ==
    /\ provider = "kms"
    /\ status' = "TAMPERED"
    /\ keyCount' = 0
    /\ late' = NowLate
    /\ UNCHANGED <<provider, simulation, sdk, client, op>>

KmsZeroize ==
    /\ provider = "kms"
    /\ status' = "TAMPERED"
    /\ keyCount' = 0
    /\ client' = FALSE
    /\ late' = NowLate
    /\ UNCHANGED <<provider, simulation, sdk, op>>

\* resetAndAttest() up to its import: the enclave is HEALTHY at once, and
\* nothing is zeroized.
KmsResetBegin(c) ==
    /\ provider = "kms"
    /\ op[c] = None
    /\ status' = "HEALTHY"
    /\ op' = [op EXCEPT ![c] = [kind |-> "kmsReset"]]
    /\ UNCHANGED <<provider, simulation, kms, late>>

KmsResetFinish(c) ==
    /\ c \in InFlight("kmsReset")
    /\ client' = TRUE
    /\ op' = [op EXCEPT ![c] = None]
    /\ UNCHANGED <<provider, status, simulation, sdk, keyCount, late>>

EnclaveNext ==
    \/ \E c \in Call, i \in ShareId, s \in Secret :
           \/ \E d \in Data : EncryptBegin(c, i, d, s)
           \/ DecryptBegin(c, i, s)
    \/ \E c \in Call : \/ EncryptFinish(c)
                       \/ DecryptFinish(c)
                       \/ ResetBegin(c)
                       \/ ResetFinish(c)
                       \/ KmsEncryptBegin(c)
                       \/ \E ok \in BOOLEAN : KmsEncryptFinish(c, ok)
                       \/ KmsResetBegin(c)
                       \/ KmsResetFinish(c)
    \/ Zeroize
    \/ SdkLoaded
    \/ KmsZeroize

EnclaveSpec == EnclaveInit /\ [][EnclaveNext]_enclaveVars

-----------------------------------------------------------------------------
(* Properties *)

\* decryptShare returns only data that some encryptShare stored under the same
\* id and the same master secret, whatever overlapping calls, zeroize and
\* reset did in between.
DecryptReturnsStored ==
    returned \subseteq written

\* In a tampered enclave nothing is stored, counted or connected but by calls
\* that were already past their status check when zeroize() last ran: the
\* lock holds for every call made after it, for both drivers.
TamperedOnlyLate ==
    status = "TAMPERED" =>
        /\ DOMAIN shares \subseteq late.ids
        /\ keyCount <= late.encryptions
        /\ client => late.imports

=============================================================================
