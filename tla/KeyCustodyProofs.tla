-------------------------- MODULE KeyCustodyProofs --------------------------
(***************************************************************************)
(* Proofs that, for any number of overlapping calls, share names, secrets  *)
(* and keys, decryptShare returns only what was stored, and that a         *)
(* tampered enclave holds nothing but what calls in flight left behind;    *)
(* and, of the other keeper of key shares, that for every number of        *)
(* sessions, tokens and overlapping calls and every lifetime an unwrap     *)
(* starts only under a live binding and a dead binding never lives again.  *)
(***************************************************************************)
EXTENDS HsmEnclave, SessionGuard, FiniteSetTheorems, TLAPS

-----------------------------------------------------------------------------
(* The inductive invariant *)

EnclaveTypes ==
    /\ provider \in {"simulation", "kms"}
    /\ op \in [Call -> Operation \cup {None}]
    /\ \A i \in DOMAIN shares : shares[i] \in Ciphertext
    /\ keyCount \in Nat
    /\ client \in BOOLEAN
    /\ late.encryptions \in Nat

\* Only finitely many calls are in flight: counting them makes sense.
FinitelyManyCalls == IsFiniteSet({c \in Call : op[c] # None})

\* A process has one driver, and the state of the other stays as it was made.
OneDriver ==
    /\ provider = "simulation" =>
          keyCount = 0 /\ ~client /\ InFlight("kmsEncrypt") = {} /\ InFlight("kmsReset") = {}
    /\ provider = "kms" => DOMAIN shares = {} /\ InFlight("encrypt") = {}

\* Every ciphertext, in the map or copied by a decryptShare in flight, is one
\* that an encryptShare wrote under that id.
CiphersWritten ==
    /\ \A i \in DOMAIN shares : <<i, shares[i].secret, shares[i].data>> \in written
    /\ \A c \in InFlight("decrypt") :
          <<op[c].id, op[c].cipher.secret, op[c].cipher.data>> \in written

\* What may still happen to a tampered enclave was in flight when it was zeroized.
OnlyLate ==
    status = "TAMPERED" =>
        /\ DOMAIN shares \cup {op[c].id : c \in InFlight("encrypt")} \subseteq late.ids
        /\ keyCount + Cardinality(InFlight("kmsEncrypt")) <= late.encryptions
        /\ client \/ sdk = "loading" \/ InFlight("kmsReset") # {} => late.imports

EnclaveInv ==
    /\ EnclaveTypes
    /\ FinitelyManyCalls
    /\ OneDriver
    /\ CiphersWritten
    /\ DecryptReturnsStored
    /\ OnlyLate

-----------------------------------------------------------------------------
(* Calls in flight *)

\* The calls of one kind are finitely many.
LEMMA InFlightFinite ==
    ASSUME EnclaveInv, NEW kind
    PROVE  IsFiniteSet(InFlight(kind)) /\ Cardinality(InFlight(kind)) \in Nat
  <1>1. InFlight(kind) \subseteq {c \in Call : op[c] # None}
    BY DEF InFlight
  <1>2. IsFiniteSet(InFlight(kind))
    BY <1>1, FS_Subset DEF EnclaveInv, FinitelyManyCalls
  <1> QED
    BY <1>2, FS_CardinalityType

\* A call that begins joins the calls of its kind.
LEMMA CallBegins ==
    ASSUME EnclaveInv, NEW c \in Call, op[c] = None, NEW o \in Operation,
           op' = [op EXCEPT ![c] = o]
    PROVE  /\ op' \in [Call -> Operation \cup {None}]
           /\ FinitelyManyCalls'
           /\ \A k : k = o.kind => InFlight(k)' = InFlight(k) \cup {c}
           /\ \A k : k # o.kind => InFlight(k)' = InFlight(k)
           /\ \A d \in Call : d # c => op'[d] = op[d]
           /\ op'[c] = o /\ c \notin InFlight(o.kind)
  <1>1. /\ op' \in [Call -> Operation \cup {None}]
        /\ op'[c] = o /\ o # None
        /\ \A d \in Call : d # c => op'[d] = op[d]
    BY NoneAssumption DEF EnclaveInv, EnclaveTypes
  <1>2. {d \in Call : op'[d] # None} = {d \in Call : op[d] # None} \cup {c}
    BY <1>1
  <1>3. FinitelyManyCalls'
    BY <1>2, FS_AddElement DEF EnclaveInv, FinitelyManyCalls
  <1>4. /\ \A k : k = o.kind => InFlight(k)' = InFlight(k) \cup {c}
        /\ \A k : k # o.kind => InFlight(k)' = InFlight(k)
    BY <1>1 DEF InFlight
  <1>5. c \notin InFlight(o.kind)
    BY DEF InFlight
  <1> QED
    BY <1>1, <1>3, <1>4, <1>5

\* A call that ends leaves the calls of its kind.
LEMMA CallEnds ==
    ASSUME EnclaveInv, NEW c \in Call, op[c] # None, op' = [op EXCEPT ![c] = None]
    PROVE  /\ op' \in [Call -> Operation \cup {None}]
           /\ FinitelyManyCalls'
           /\ \A k : InFlight(k)' = InFlight(k) \ {c}
           /\ \A k : k # op[c].kind => InFlight(k)' = InFlight(k)
           /\ \A d \in Call : d # c => op'[d] = op[d]
           /\ op[c] \in Operation
  <1>1. op[c] \in Operation
    BY DEF EnclaveInv, EnclaveTypes
  <1>2. /\ op' \in [Call -> Operation \cup {None}]
        /\ op'[c] = None
        /\ \A d \in Call : d # c => op'[d] = op[d]
    BY <1>1 DEF EnclaveInv, EnclaveTypes
  <1>3. {d \in Call : op'[d] # None} \subseteq {d \in Call : op[d] # None}
    BY <1>1, <1>2
  <1>4. FinitelyManyCalls'
    BY <1>3, FS_Subset DEF EnclaveInv, FinitelyManyCalls
  <1>5. \A k : InFlight(k)' = InFlight(k) \ {c}
    BY <1>1, <1>2 DEF InFlight
  <1>6. \A k : k # op[c].kind => InFlight(k)' = InFlight(k)
    BY <1>1, <1>5 DEF InFlight
  <1> QED
    BY <1>1, <1>2, <1>4, <1>5, <1>6

-----------------------------------------------------------------------------
(* Every step keeps the invariant: simulation driver *)

\* encryptShare passes its status check only in an enclave that is not tampered.
LEMMA EncryptBeginKeeps ==
    ASSUME EnclaveInv, NEW c \in Call, NEW i \in ShareId, NEW d \in Data, NEW s \in Secret,
           EncryptBegin(c, i, d, s)
    PROVE  EnclaveInv'
  <1> DEFINE o == [kind |-> "encrypt", id |-> i, secret |-> s, data |-> d]
  <1>1. /\ o \in Operation /\ o.kind = "encrypt"
        /\ op[c] = None /\ op' = [op EXCEPT ![c] = o]
        /\ status' = "HEALTHY" /\ provider = "simulation"
        /\ UNCHANGED <<provider, shares, written, returned, sdk, client, keyCount, late>>
    BY DEF EncryptBegin, Operation, simulation, kms
  <1> HIDE DEF o
  <1>2. /\ op' \in [Call -> Operation \cup {None}]
        /\ FinitelyManyCalls'
        /\ InFlight("kmsEncrypt")' = InFlight("kmsEncrypt")
        /\ InFlight("kmsReset")' = InFlight("kmsReset")
        /\ InFlight("decrypt")' = InFlight("decrypt")
        /\ \A e \in Call : e # c => op'[e] = op[e]
        /\ c \notin InFlight("decrypt")
    <2>1. c \notin InFlight("decrypt")
      BY <1>1 DEF InFlight
    <2> QED
      BY <1>1, <2>1, CallBegins
  <1>3. CiphersWritten'
    BY <1>1, <1>2 DEF EnclaveInv, CiphersWritten, InFlight
  <1> QED
    BY <1>1, <1>2, <1>3
    DEF EnclaveInv, EnclaveTypes, OneDriver, DecryptReturnsStored, OnlyLate

\* encryptShare stores what it records; after a zeroize it was in flight before.
LEMMA EncryptFinishKeeps ==
    ASSUME EnclaveInv, NEW c \in Call, EncryptFinish(c)
    PROVE  EnclaveInv'
  <1> DEFINE o == op[c]
  <1>1. /\ op[c] # None /\ o.kind = "encrypt" /\ op' = [op EXCEPT ![c] = None]
        /\ shares' = [i \in DOMAIN shares \cup {o.id} |->
                         IF i = o.id THEN Cipher(o.data, o.secret) ELSE shares[i]]
        /\ written' = written \cup {<<o.id, o.secret, o.data>>}
        /\ UNCHANGED <<provider, status, returned, sdk, client, keyCount, late>>
    BY DEF EncryptFinish, InFlight, kms
  <1>2. /\ op' \in [Call -> Operation \cup {None}]
        /\ FinitelyManyCalls'
        /\ InFlight("encrypt")' = InFlight("encrypt") \ {c}
        /\ InFlight("decrypt")' = InFlight("decrypt")
        /\ InFlight("kmsEncrypt")' = InFlight("kmsEncrypt")
        /\ InFlight("kmsReset")' = InFlight("kmsReset")
        /\ \A e \in Call : e # c => op'[e] = op[e]
        /\ o \in Operation
    BY <1>1, CallEnds
  <1>3. /\ DOMAIN shares' = DOMAIN shares \cup {o.id}
        /\ shares'[o.id] = Cipher(o.data, o.secret)
        /\ \A i \in DOMAIN shares : i # o.id => shares'[i] = shares[i]
    BY <1>1
  <1>4. Cipher(o.data, o.secret) \in Ciphertext /\ Cipher(o.data, o.secret).data = o.data
           /\ Cipher(o.data, o.secret).secret = o.secret
    BY <1>1, <1>2 DEF Cipher, Ciphertext, Operation
  <1> HIDE DEF o
  <1>5. EnclaveTypes'
    BY <1>1, <1>2, <1>3, <1>4 DEF EnclaveInv, EnclaveTypes
  <1>6. CiphersWritten'
    <2>1. \A i \in DOMAIN shares' : <<i, shares'[i].secret, shares'[i].data>> \in written'
      BY <1>1, <1>3, <1>4 DEF EnclaveInv, CiphersWritten
    <2>2. \A e \in InFlight("decrypt") : e \in Call /\ e # c
      BY <1>1 DEF InFlight, o
    <2> QED
      BY <1>1, <1>2, <2>1, <2>2 DEF EnclaveInv, CiphersWritten
  <1>7. OneDriver'
    <2>1. c \in InFlight("encrypt")
      BY <1>1 DEF InFlight, o
    <2> QED
      BY <1>1, <1>2, <2>1 DEF EnclaveInv, OneDriver
  <1>8. OnlyLate'
    <2>1. c \in InFlight("encrypt") /\ \A e \in InFlight("encrypt") : e # c => op'[e] = op[e]
      BY <1>1, <1>2 DEF InFlight, o
    <2> QED
      BY <1>1, <1>2, <1>3, <2>1 DEF EnclaveInv, OnlyLate, o
  <1> QED
    BY <1>1, <1>2, <1>5, <1>6, <1>7, <1>8 DEF EnclaveInv, DecryptReturnsStored

\* decryptShare copies a ciphertext that was written.
LEMMA DecryptBeginKeeps ==
    ASSUME EnclaveInv, NEW c \in Call, NEW i \in ShareId, NEW s \in Secret, DecryptBegin(c, i, s)
    PROVE  EnclaveInv'
  <1> DEFINE o == [kind |-> "decrypt", id |-> i, secret |-> s, cipher |-> shares[i]]
  <1>1. /\ o \in Operation /\ o.kind = "decrypt" /\ o.id = i /\ o.cipher = shares[i]
        /\ i \in DOMAIN shares
        /\ op[c] = None /\ op' = [op EXCEPT ![c] = o]
        /\ status' = "HEALTHY"
        /\ UNCHANGED <<provider, shares, written, returned, sdk, client, keyCount, late>>
    BY DEF DecryptBegin, Operation, simulation, kms, EnclaveInv, EnclaveTypes
  <1> HIDE DEF o
  <1>2. /\ op' \in [Call -> Operation \cup {None}]
        /\ FinitelyManyCalls'
        /\ InFlight("kmsEncrypt")' = InFlight("kmsEncrypt")
        /\ InFlight("kmsReset")' = InFlight("kmsReset")
        /\ InFlight("encrypt")' = InFlight("encrypt")
        /\ InFlight("decrypt")' = InFlight("decrypt") \cup {c}
        /\ \A e \in Call : e # c => op'[e] = op[e]
        /\ op'[c] = o
    BY <1>1, CallBegins
  <1>3. CiphersWritten'
    BY <1>1, <1>2 DEF EnclaveInv, CiphersWritten, InFlight
  <1> QED
    BY <1>1, <1>2, <1>3
    DEF EnclaveInv, EnclaveTypes, OneDriver, DecryptReturnsStored, OnlyLate

\* What decryptShare returns is in the ciphertext it copied, under the secret it
\* was made with: it was written.
LEMMA DecryptFinishKeeps ==
    ASSUME EnclaveInv, NEW c \in Call, DecryptFinish(c)
    PROVE  EnclaveInv'
  <1>1. /\ op[c] # None /\ op[c].kind = "decrypt" /\ op' = [op EXCEPT ![c] = None]
        /\ returned' = returned \cup
              {<<op[c].id, op[c].secret, d>> : d \in Opened(op[c].cipher, op[c].secret)}
        /\ UNCHANGED <<provider, status, shares, written, sdk, client, keyCount, late>>
    BY DEF DecryptFinish, InFlight, kms
  <1>2. /\ op' \in [Call -> Operation \cup {None}]
        /\ FinitelyManyCalls'
        /\ InFlight("encrypt")' = InFlight("encrypt")
        /\ InFlight("decrypt")' = InFlight("decrypt") \ {c}
        /\ InFlight("kmsEncrypt")' = InFlight("kmsEncrypt")
        /\ InFlight("kmsReset")' = InFlight("kmsReset")
        /\ \A e \in Call : e # c => op'[e] = op[e]
        /\ \A e \in InFlight("encrypt") : e \in Call /\ e # c
    <2>1. \A e \in InFlight("encrypt") : e \in Call /\ e # c
      BY <1>1 DEF InFlight
    <2> QED
      BY <1>1, <2>1, CallEnds
  <1>3. <<op[c].id, op[c].cipher.secret, op[c].cipher.data>> \in written
    BY <1>1 DEF EnclaveInv, CiphersWritten, InFlight
  <1>4. DecryptReturnsStored'
    BY <1>1, <1>3 DEF EnclaveInv, DecryptReturnsStored, Opened
  <1>5. CiphersWritten'
    BY <1>1, <1>2 DEF EnclaveInv, CiphersWritten, InFlight
  <1>6. EnclaveTypes' /\ OneDriver'
    BY <1>1, <1>2 DEF EnclaveInv, EnclaveTypes, OneDriver
  <1>7. OnlyLate'
    BY <1>1, <1>2 DEF EnclaveInv, OnlyLate
  <1> QED
    BY <1>2, <1>4, <1>5, <1>6, <1>7 DEF EnclaveInv

\* zeroize() records what is in flight: nothing else can happen to the enclave.
LEMMA ZeroizeKeeps ==
    ASSUME EnclaveInv, ZeroizeBody, op' \in [Call -> Operation \cup {None}], FinitelyManyCalls',
           \A e \in Call : op'[e] # op[e] => op[e] = None /\ op'[e].kind = "reset"
    PROVE  EnclaveInv'
  <1>1. /\ provider = "simulation" /\ shares' = << >> /\ status' = "TAMPERED" /\ late' = NowLate
        /\ UNCHANGED <<provider, written, returned, sdk, client, keyCount>>
    BY DEF ZeroizeBody, kms
  <1>2. \A k \in {"encrypt", "decrypt", "kmsEncrypt", "kmsReset"} :
           /\ InFlight(k)' = InFlight(k)
           /\ \A e \in InFlight(k) : op'[e] = op[e]
    BY DEF InFlight
  <1>3. /\ late'.ids = {op[c].id : c \in InFlight("encrypt")}
        /\ late'.encryptions = Cardinality(InFlight("kmsEncrypt"))
        /\ late'.imports = (sdk = "loading" \/ InFlight("kmsReset") # {})
    BY <1>1, Zenon DEF NowLate
  <1>4. keyCount = 0 /\ ~client /\ Cardinality(InFlight("kmsEncrypt")) \in Nat
    BY <1>1, InFlightFinite DEF EnclaveInv, OneDriver
  <1>5. EnclaveTypes' /\ OneDriver' /\ DecryptReturnsStored' /\ CiphersWritten'
    BY <1>1, <1>2, <1>3, <1>4
    DEF EnclaveInv, EnclaveTypes, OneDriver, CiphersWritten, DecryptReturnsStored
  <1>6. OnlyLate'
    <2>1. DOMAIN shares' \cup {op'[c].id : c \in InFlight("encrypt")'} \subseteq late'.ids
      BY <1>1, <1>2, <1>3
    <2>2. keyCount' + Cardinality(InFlight("kmsEncrypt")') <= late'.encryptions
      BY <1>1, <1>2, <1>3, <1>4
    <2>3. client' \/ sdk' = "loading" \/ InFlight("kmsReset")' # {} => late'.imports
      BY <1>1, <1>2, <1>3, <1>4
    <2> QED
      BY <2>1, <2>2, <2>3 DEF OnlyLate
  <1> QED
    BY <1>5, <1>6 DEF EnclaveInv

\* resetAndAttest begins with a zeroize: what is in flight then is late.
LEMMA ResetBeginKeeps ==
    ASSUME EnclaveInv, NEW c \in Call, ResetBegin(c)
    PROVE  EnclaveInv'
  <1>1. [kind |-> "reset"] \in Operation
    BY DEF Operation
  <1>2. /\ op' \in [Call -> Operation \cup {None}] /\ FinitelyManyCalls'
        /\ \A e \in Call : e # c => op'[e] = op[e]
        /\ op'[c] = [kind |-> "reset"] /\ op[c] = None
    BY <1>1, CallBegins DEF ResetBegin
  <1>3. ZeroizeBody
    BY DEF ResetBegin
  <1> QED
    BY <1>2, <1>3, ZeroizeKeeps

\* resetAndAttest ends with an empty enclave that is not tampered.
LEMMA ResetFinishKeeps ==
    ASSUME EnclaveInv, NEW c \in Call, ResetFinish(c)
    PROVE  EnclaveInv'
  <1>1. /\ op[c] # None /\ op[c].kind = "reset" /\ op' = [op EXCEPT ![c] = None]
        /\ status' = "HEALTHY"
        /\ UNCHANGED <<provider, shares, written, returned, sdk, client, keyCount, late>>
    BY DEF ResetFinish, InFlight, kms
  <1>2. /\ op' \in [Call -> Operation \cup {None}] /\ FinitelyManyCalls'
        /\ \A k \in {"encrypt", "decrypt", "kmsEncrypt", "kmsReset"} : InFlight(k)' = InFlight(k)
        /\ \A e \in InFlight("decrypt") : op'[e] = op[e]
    <2>1. \A e \in InFlight("decrypt") : e \in Call /\ e # c
      BY <1>1 DEF InFlight
    <2> QED
      BY <1>1, <2>1, CallEnds
  <1> QED
    BY <1>1, <1>2
    DEF EnclaveInv, EnclaveTypes, OneDriver, CiphersWritten, DecryptReturnsStored, OnlyLate

-----------------------------------------------------------------------------
(* Every step keeps the invariant: KMS driver *)

\* The import of the constructor was in flight, also when zeroize() ran.
LEMMA SdkLoadedKeeps ==
    ASSUME EnclaveInv, SdkLoaded
    PROVE  EnclaveInv'
  <1>1. /\ provider = "kms" /\ sdk = "loading" /\ client' = TRUE
        /\ UNCHANGED <<provider, status, shares, written, returned, keyCount, op, late>>
    BY DEF SdkLoaded, simulation
  <1>2. \A k : InFlight(k)' = InFlight(k)
    BY <1>1 DEF InFlight
  <1>3. EnclaveTypes' /\ FinitelyManyCalls' /\ OneDriver' /\ CiphersWritten' /\ DecryptReturnsStored'
    BY <1>1, <1>2 DEF EnclaveInv, EnclaveTypes, FinitelyManyCalls, OneDriver, CiphersWritten,
                      DecryptReturnsStored
  <1>4. OnlyLate'
    BY <1>1, <1>2 DEF EnclaveInv, OnlyLate
  <1> QED
    BY <1>3, <1>4 DEF EnclaveInv

\* A call of the KMS driver begins in an enclave that is not, or no longer, tampered.
LEMMA KmsBeginKeeps ==
    ASSUME EnclaveInv, NEW c \in Call, KmsEncryptBegin(c) \/ KmsResetBegin(c)
    PROVE  EnclaveInv'
  <1>1. PICK o \in Operation :
           /\ o.kind \in {"kmsEncrypt", "kmsReset"}
           /\ op[c] = None /\ op' = [op EXCEPT ![c] = o]
    <2>1. /\ [kind |-> "kmsEncrypt"] \in Operation
          /\ [kind |-> "kmsReset"] \in Operation
      BY DEF Operation
    <2> QED
      BY <2>1 DEF KmsEncryptBegin, KmsResetBegin
  <1>2. /\ provider = "kms" /\ status' = "HEALTHY"
        /\ UNCHANGED <<provider, shares, written, returned, sdk, client, keyCount, late>>
    BY DEF KmsEncryptBegin, KmsResetBegin, simulation, kms
  <1>3. /\ op' \in [Call -> Operation \cup {None}] /\ FinitelyManyCalls'
        /\ \A k \in {"encrypt", "decrypt"} : InFlight(k)' = InFlight(k)
        /\ \A e \in Call : e # c => op'[e] = op[e]
    BY <1>1, CallBegins
  <1>4. \A e \in InFlight("decrypt") : op'[e] = op[e]
    BY <1>1, <1>3 DEF InFlight
  <1> QED
    BY <1>2, <1>3, <1>4
    DEF EnclaveInv, EnclaveTypes, OneDriver, CiphersWritten, DecryptReturnsStored, OnlyLate

\* An encryption that ends is counted, and was counted as in flight before.
LEMMA KmsEncryptFinishKeeps ==
    ASSUME EnclaveInv, NEW c \in Call, NEW ok \in BOOLEAN, KmsEncryptFinish(c, ok)
    PROVE  EnclaveInv'
  <1>1. /\ op[c] # None /\ op[c].kind = "kmsEncrypt" /\ op' = [op EXCEPT ![c] = None]
        /\ keyCount' \in {keyCount, keyCount + 1}
        /\ UNCHANGED <<provider, status, shares, written, returned, sdk, client, late>>
    BY DEF KmsEncryptFinish, InFlight, simulation
  <1>2. /\ op' \in [Call -> Operation \cup {None}] /\ FinitelyManyCalls'
        /\ \A k \in {"encrypt", "decrypt", "kmsReset"} : InFlight(k)' = InFlight(k)
        /\ InFlight("kmsEncrypt")' = InFlight("kmsEncrypt") \ {c}
        /\ \A e \in Call : e # c => op'[e] = op[e]
    BY <1>1, CallEnds
  <1>3. /\ c \in InFlight("kmsEncrypt")
        /\ \A e \in InFlight("decrypt") \cup InFlight("encrypt") : op'[e] = op[e]
    BY <1>1, <1>2 DEF InFlight
  <1>4. /\ Cardinality(InFlight("kmsEncrypt")) \in Nat
        /\ Cardinality(InFlight("kmsEncrypt")') = Cardinality(InFlight("kmsEncrypt")) - 1
    BY <1>2, <1>3, InFlightFinite, FS_RemoveElement
  <1>5. EnclaveTypes' /\ OneDriver' /\ CiphersWritten' /\ DecryptReturnsStored'
    BY <1>1, <1>2, <1>3
    DEF EnclaveInv, EnclaveTypes, OneDriver, CiphersWritten, DecryptReturnsStored
  <1>6. OnlyLate'
    <2> SUFFICES ASSUME status = "TAMPERED"
                 PROVE  /\ DOMAIN shares \cup {op'[e].id : e \in InFlight("encrypt")} \subseteq late.ids
                        /\ keyCount' + Cardinality(InFlight("kmsEncrypt")') <= late.encryptions
                        /\ client \/ sdk = "loading" \/ InFlight("kmsReset") # {} => late.imports
      BY <1>1, <1>2 DEF OnlyLate
    <2>1. keyCount' + Cardinality(InFlight("kmsEncrypt")') <= late.encryptions
      BY <1>1, <1>4 DEF EnclaveInv, EnclaveTypes, OnlyLate
    <2> QED
      BY <1>3, <2>1 DEF EnclaveInv, OnlyLate
  <1> QED
    BY <1>2, <1>5, <1>6 DEF EnclaveInv

\* Zeroizing the KMS driver notes what is in flight and drops the client.
LEMMA KmsZeroizeKeeps ==
    ASSUME EnclaveInv, KmsZeroize
    PROVE  EnclaveInv'
  <1>1. /\ provider = "kms" /\ status' = "TAMPERED" /\ keyCount' = 0 /\ client' = FALSE
        /\ late' = NowLate
        /\ UNCHANGED <<provider, shares, written, returned, sdk, op>>
    BY DEF KmsZeroize, simulation
  <1>2. \A k : InFlight(k)' = InFlight(k)
    BY <1>1 DEF InFlight
  <1>3. /\ late'.ids = {op[c].id : c \in InFlight("encrypt")}
        /\ late'.encryptions = Cardinality(InFlight("kmsEncrypt"))
        /\ late'.imports = (sdk = "loading" \/ InFlight("kmsReset") # {})
    BY <1>1, Zenon DEF NowLate
  <1>4. Cardinality(InFlight("kmsEncrypt")) \in Nat
    BY InFlightFinite
  <1>5. EnclaveTypes' /\ FinitelyManyCalls' /\ OneDriver' /\ CiphersWritten' /\ DecryptReturnsStored'
    BY <1>1, <1>2, <1>3, <1>4
    DEF EnclaveInv, EnclaveTypes, FinitelyManyCalls, OneDriver, CiphersWritten, DecryptReturnsStored
  <1>6. OnlyLate'
    <2>1. DOMAIN shares' \cup {op'[c].id : c \in InFlight("encrypt")'} \subseteq late'.ids
      BY <1>1, <1>2, <1>3 DEF EnclaveInv, OneDriver
    <2>2. keyCount' + Cardinality(InFlight("kmsEncrypt")') <= late'.encryptions
      BY <1>1, <1>2, <1>3, <1>4
    <2>3. client' \/ sdk' = "loading" \/ InFlight("kmsReset")' # {} => late'.imports
      BY <1>1, <1>2, <1>3
    <2> QED
      BY <2>1, <2>2, <2>3 DEF OnlyLate
  <1> QED
    BY <1>5, <1>6 DEF EnclaveInv

\* The import of a KMS reset brings a client; a zeroize meanwhile has noted the import.
LEMMA KmsResetFinishKeeps ==
    ASSUME EnclaveInv, NEW c \in Call, KmsResetFinish(c)
    PROVE  EnclaveInv'
  <1>1. /\ op[c] # None /\ op[c].kind = "kmsReset" /\ op' = [op EXCEPT ![c] = None]
        /\ client' = TRUE
        /\ UNCHANGED <<provider, status, shares, written, returned, sdk, keyCount, late>>
    BY DEF KmsResetFinish, InFlight, simulation
  <1>2. /\ op' \in [Call -> Operation \cup {None}] /\ FinitelyManyCalls'
        /\ \A k \in {"encrypt", "decrypt", "kmsEncrypt"} : InFlight(k)' = InFlight(k)
        /\ \A e \in Call : e # c => op'[e] = op[e]
    BY <1>1, CallEnds
  <1>3. /\ c \in InFlight("kmsReset")
        /\ \A e \in InFlight("decrypt") \cup InFlight("encrypt") : op'[e] = op[e]
    BY <1>1, <1>2 DEF InFlight
  <1>4. provider = "kms"
    BY <1>3 DEF EnclaveInv, EnclaveTypes, OneDriver
  <1>5. EnclaveTypes' /\ OneDriver' /\ CiphersWritten' /\ DecryptReturnsStored'
    BY <1>1, <1>2, <1>3, <1>4
    DEF EnclaveInv, EnclaveTypes, OneDriver, CiphersWritten, DecryptReturnsStored
  <1>6. OnlyLate'
    BY <1>1, <1>2, <1>3 DEF EnclaveInv, OnlyLate
  <1> QED
    BY <1>2, <1>5, <1>6 DEF EnclaveInv

-----------------------------------------------------------------------------
(* The theorems *)

\* Every step of either driver keeps the invariant.
LEMMA EnclaveStep == EnclaveInv /\ [EnclaveNext]_enclaveVars => EnclaveInv'
  <1> SUFFICES ASSUME EnclaveInv, [EnclaveNext]_enclaveVars
               PROVE  EnclaveInv'
    OBVIOUS
  <1>1. ASSUME NEW c \in Call, NEW i \in ShareId, NEW s \in Secret,
               (\E d \in Data : EncryptBegin(c, i, d, s)) \/ DecryptBegin(c, i, s)
        PROVE  EnclaveInv'
    BY <1>1, EncryptBeginKeeps, DecryptBeginKeeps
  <1>2. ASSUME NEW c \in Call,
               EncryptFinish(c) \/ DecryptFinish(c) \/ ResetBegin(c) \/ ResetFinish(c)
        PROVE  EnclaveInv'
    BY <1>2, EncryptFinishKeeps, DecryptFinishKeeps, ResetBeginKeeps, ResetFinishKeeps
  <1>3. ASSUME NEW c \in Call,
               \/ KmsEncryptBegin(c) \/ KmsResetBegin(c) \/ KmsResetFinish(c)
               \/ \E ok \in BOOLEAN : KmsEncryptFinish(c, ok)
        PROVE  EnclaveInv'
    BY <1>3, KmsBeginKeeps, KmsEncryptFinishKeeps, KmsResetFinishKeeps
  <1>4. CASE Zeroize
    BY <1>4, ZeroizeKeeps DEF Zeroize, EnclaveInv, EnclaveTypes, FinitelyManyCalls
  <1>5. CASE SdkLoaded \/ KmsZeroize
    BY <1>5, SdkLoadedKeeps, KmsZeroizeKeeps
  <1>6. CASE UNCHANGED enclaveVars
    BY <1>6 DEF enclaveVars, simulation, kms, EnclaveInv, EnclaveTypes, FinitelyManyCalls, OneDriver,
                CiphersWritten, DecryptReturnsStored, OnlyLate, InFlight
  <1> QED
    BY <1>1, <1>2, <1>3, <1>4, <1>5, <1>6 DEF EnclaveNext

\* The invariant holds throughout.
LEMMA EnclaveInvariance == EnclaveSpec => []EnclaveInv
  <1>1. EnclaveInit => EnclaveInv
    <2> SUFFICES ASSUME EnclaveInit PROVE EnclaveInv
      OBVIOUS
    <2>1. {c \in Call : op[c] # None} = {} /\ \A k : InFlight(k) = {}
      BY DEF EnclaveInit, InFlight
    <2>2. FinitelyManyCalls
      BY <2>1, FS_EmptySet DEF FinitelyManyCalls
    <2>3. EnclaveTypes
      <3>1. op \in [Call -> Operation \cup {None}]
        BY DEF EnclaveInit
      <3>2. keyCount \in Nat /\ client \in BOOLEAN /\ provider \in {"simulation", "kms"}
        BY DEF EnclaveInit
      <3>3. late.encryptions \in Nat
        BY DEF EnclaveInit
      <3>4. \A i \in DOMAIN shares : shares[i] \in Ciphertext
        BY DEF EnclaveInit
      <3> QED
        BY <3>1, <3>2, <3>3, <3>4 DEF EnclaveTypes
    <2>4. OneDriver /\ CiphersWritten /\ DecryptReturnsStored
      BY <2>1 DEF EnclaveInit, OneDriver, CiphersWritten, DecryptReturnsStored
    <2>5. OnlyLate
      BY DEF EnclaveInit, OnlyLate
    <2> QED
      BY <2>2, <2>3, <2>4, <2>5 DEF EnclaveInv
  <1> QED
    BY <1>1, EnclaveStep, PTL DEF EnclaveSpec

\* decryptShare never returns anything but what an encryptShare stored under
\* that id and secret, whatever zeroize, reset and other calls do during its await.
THEOREM DecryptSound == EnclaveSpec => []DecryptReturnsStored
  <1>1. EnclaveInv => DecryptReturnsStored
    BY DEF EnclaveInv
  <1> QED
    BY <1>1, EnclaveInvariance, PTL

\* The lock of zeroize() holds for every call made after it, for both drivers
\* and any number of calls in flight.
THEOREM TamperLockHolds == EnclaveSpec => []TamperedOnlyLate
  <1>1. EnclaveInv => TamperedOnlyLate
    <2> SUFFICES ASSUME EnclaveInv, status = "TAMPERED"
                 PROVE  /\ DOMAIN shares \subseteq late.ids
                        /\ keyCount <= late.encryptions
                        /\ client => late.imports
      BY DEF TamperedOnlyLate
    <2>1. Cardinality(InFlight("kmsEncrypt")) \in Nat
      BY InFlightFinite
    <2> QED
      BY <2>1 DEF EnclaveInv, EnclaveTypes, OnlyLate
  <1> QED
    BY <1>1, EnclaveInvariance, PTL

-----------------------------------------------------------------------------
(* The session guard *)

Binding == [token : Nat, expiresAt : Nat]

GuardTypes ==
    /\ now \in Nat
    /\ issued \in Nat
    /\ sessions \in [SessionId -> Binding \cup {Absent}]
    /\ call \in [UnwrapCall -> (SessionId \X Nat) \cup {Absent}]
    /\ wrapped \subseteq SessionId \X Nat

\* A binding carries a token that was issued: the next one to be issued is new.
TokensIssued ==
    \A s \in SessionId : sessions[s] # Absent => sessions[s].token <= issued

GuardInv == GuardTypes /\ TokensIssued

\* Every operation of the guard keeps the invariant.
LEMMA GuardStep == GuardInv /\ [GuardNext]_guardVars => GuardInv'
  <1> SUFFICES ASSUME GuardInv, [GuardNext]_guardVars
               PROVE  GuardInv'
    OBVIOUS
  <1> USE GuardAssumption DEF GuardInv, GuardTypes, TokensIssued, Binding
  <1>1. ASSUME NEW s \in SessionId, CreateSessionBinding(s) PROVE GuardInv'
    BY <1>1 DEF CreateSessionBinding
  <1>2. ASSUME NEW s \in SessionId, RevokeSession(s) PROVE GuardInv'
    BY <1>2 DEF RevokeSession
  <1>3. ASSUME NEW s \in SessionId, NEW t \in Token, WrapShare(s, t)
        PROVE  GuardInv'
    BY <1>3 DEF WrapShare, Token
  <1>4. ASSUME NEW c \in UnwrapCall, NEW b \in wrapped, NEW s \in SessionId,
               NEW jwt \in Token, NEW cookie \in Token,
               UnwrapBegin(c, b, s, jwt, cookie)
        PROVE  GuardInv'
    BY <1>4 DEF UnwrapBegin
  <1>5. ASSUME NEW c \in UnwrapCall, UnwrapFinish(c) PROVE GuardInv'
    BY <1>5 DEF UnwrapFinish
  <1>6. CASE CleanupExpiredSessions
    BY <1>6 DEF CleanupExpiredSessions
  <1>7. CASE Tick
    BY <1>7 DEF Tick
  <1>8. CASE UNCHANGED guardVars
    BY <1>8 DEF guardVars
  <1> QED
    BY <1>1, <1>2, <1>3, <1>4, <1>5, <1>6, <1>7, <1>8 DEF GuardNext

\* The invariant holds throughout.
LEMMA GuardInvariance == GuardSpec => []GuardInv
  <1>1. GuardInit => GuardInv
    BY DEF GuardInit, GuardInv, GuardTypes, TokensIssued
  <1> QED
    BY <1>1, GuardStep, PTL DEF GuardSpec

\* The safety half of DeadStaysClosed: while a binding is dead, no call of
\* unwrapShareWithSessionTokens for a share of it gets past the session check;
\* with DeadBindingsStayDead, only the calls in flight at its death remain.
LEMMA NoUnwrapOnceDead ==
    GuardSpec => [][\A c \in UnwrapCall, s \in SessionId, t \in Token :
                      ~Live(<<s, t>>) /\ call'[c] = <<s, t>> => call[c] = <<s, t>>]_guardVars
  <1> DEFINE Step == \A c \in UnwrapCall, s \in SessionId, t \in Token :
                        ~Live(<<s, t>>) /\ call'[c] = <<s, t>> => call[c] = <<s, t>>
  <1>1. GuardInv /\ [GuardNext]_guardVars => [Step]_guardVars
    <2> SUFFICES ASSUME GuardInv, GuardNext PROVE Step
      OBVIOUS
    <2>1. ASSUME NEW c \in UnwrapCall, NEW b \in wrapped, NEW s \in SessionId,
                 NEW jwt \in Token, NEW cookie \in Token,
                 UnwrapBegin(c, b, s, jwt, cookie)
          PROVE  Step
      <3>1. b = <<s, jwt>> /\ Live(b)
        BY <2>1 DEF UnwrapBegin, SessionAccepts, BindingMatches, Live
      <3>2. \A d \in UnwrapCall : call'[d] = IF d = c THEN b ELSE call[d]
        BY <2>1 DEF UnwrapBegin, GuardInv, GuardTypes
      <3> QED
        BY <3>1, <3>2
    <2>2. ASSUME NEW c \in UnwrapCall, UnwrapFinish(c) PROVE Step
      <3>1. \A d \in UnwrapCall : call'[d] = IF d = c THEN Absent ELSE call[d]
        BY <2>2 DEF UnwrapFinish, GuardInv, GuardTypes
      <3> QED
        BY <3>1, GuardAssumption DEF Token
    <2>3. CASE UNCHANGED call
      BY <2>3
    <2> QED
      BY <2>1, <2>2, <2>3
      DEF GuardNext, CreateSessionBinding, RevokeSession, WrapShare,
          CleanupExpiredSessions, Tick
  <1> QED
    BY <1>1, GuardInvariance, PTL DEF GuardSpec

\* Neither createSessionBinding for the same name, nor the clock, nor revocation
\* or cleanup brings a binding back once it is expired, revoked or replaced.
THEOREM DeadBindingsStayDead == GuardSpec => DeadStaysDead
  <1> DEFINE Step == \A s \in SessionId, t \in 1..issued :
                        ~Live(<<s, t>>) => ~Live(<<s, t>>)'
  <1>1. GuardInv /\ [GuardNext]_guardVars => [Step]_guardVars
    <2> SUFFICES ASSUME GuardInv, GuardNext,
                        NEW s \in SessionId, NEW t \in 1..issued, Live(<<s, t>>)'
                 PROVE  Live(<<s, t>>)
      OBVIOUS
    <2>1. /\ sessions'[s] # Absent
          /\ sessions'[s].token = t
          /\ ~(sessions'[s].expiresAt < now')
      BY DEF Live, Expired
    <2>2. /\ issued \in Nat /\ now \in Nat
          /\ t # issued + 1
          /\ sessions[s] # Absent => sessions[s].expiresAt \in Nat
      BY DEF GuardInv, GuardTypes, Binding
    <2>3. sessions[s] = sessions'[s] /\ now <= now'
      <3>1. ASSUME NEW r \in SessionId, CreateSessionBinding(r)
            PROVE  sessions[s] = sessions'[s] /\ now' = now
        BY <3>1, <2>1, <2>2 DEF CreateSessionBinding, GuardInv, GuardTypes
      <3>2. ASSUME NEW r \in SessionId, RevokeSession(r)
            PROVE  sessions[s] = sessions'[s] /\ now' = now
        BY <3>2, <2>1 DEF RevokeSession, GuardInv, GuardTypes
      <3>3. CASE CleanupExpiredSessions
        BY <3>3, <2>1, <2>2 DEF CleanupExpiredSessions
      <3>4. CASE Tick
        BY <3>4, <2>2 DEF Tick
      <3> QED
        BY <2>2, <3>1, <3>2, <3>3, <3>4
        DEF GuardNext, WrapShare, UnwrapBegin, UnwrapFinish
    <2>4. now' \in Nat
      BY GuardStep DEF GuardInv, GuardTypes
    <2> QED
      BY <2>1, <2>2, <2>3, <2>4 DEF Live, Expired
  <1> QED
    BY <1>1, GuardInvariance, PTL DEF GuardSpec, DeadStaysDead

=============================================================================
