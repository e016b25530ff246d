--------------------------- MODULE MCLicenseKernel ---------------------------
(* Licences around the 32-bit limit, two machines, and data for the        *)
(* serializer that cross each of its type and length boundaries.           *)
EXTENDS LicenseKernel

Top == Power[4]

Tpm == [tpm |-> <<3>>, cpu |-> 1, mac |-> 1, disk |-> 1]
NoTpm == [tpm |-> << >>, cpu |-> 1, mac |-> 1, disk |-> 1]
MCMachines == {Tpm, NoTpm}

Basic ==
    [licenseId |-> <<1>>, customerId |-> <<2>>, tier |-> <<1>>, featureFlags |-> <<<<3>>, <<4>>>>,
     nodeLimit |-> 3, period |-> <<1>>, maxTransactions |-> 1, maxVolumeUSD |-> 2,
     notBefore |-> 0, notAfter |-> Top - 1, hardwareFingerprint |-> << >>,
     gracePeriodHours |-> 2, issuedAt |-> 0]
Bound == [Basic EXCEPT !.hardwareFingerprint = GenerateHardwareFingerprint(Tpm).fingerprint]
Current == [Basic EXCEPT !.notAfter = StartTime + 100]
Old == [Basic EXCEPT !.notAfter = 1]

\* A licence as issued, one bound to a machine, one inside its validity window,
\* one long expired, and one whose quota was raised after it was signed.
MCLicences ==
    {[terms |-> t, signed |-> t] : t \in {Basic, Bound, Current, Old}}
      \cup {[terms |-> [Basic EXCEPT !.maxTransactions = 2], signed |-> Basic]}

Numbers == {0, Byte - 1, Byte, Power[2] - 1, Power[2], Top \div 2 - 1, Top \div 2, Top - 1, Top, -1}
Flats ==
    {Num(n) : n \in Numbers}
      \cup {[t |-> "bigint", v |-> n] : n \in {0, Power[ScalarLen] - 1, Power[ScalarLen], -1}}
      \cup {[t |-> "boolean", v |-> b] : b \in BOOLEAN}
      \cup {[t |-> k, v |-> s] : k \in {"bytes", "string"},
                                s \in {<< >>, <<5>>, [i \in 1..MaxString |-> 1],
                                       [i \in 1..(MaxString + 1) |-> 1]}}
Nested ==
    {[t |-> "array", v |-> s] : s \in {<< >>, <<Num(1)>>, <<Num(1), Txt(<<5, 5>>)>>}}
      \cup {[t |-> "map", v |-> s] : s \in {<< >>, <<[key |-> <<1>>, value |-> Num(Byte)]>>}}

\* Two fields, the first of any kind.
PackedData ==
    {<<[key |-> k, value |-> a], [key |-> <<2>>, value |-> b]>> :
        k \in {<< >>, <<1>>, <<1, 5>>}, a \in Flats \cup Nested, b \in {Num(Byte), Txt(<<6>>)}}

\* Data whose bigints fit their field.
Fitting(d) ==
    \A i \in DOMAIN d : d[i].value.t = "bigint" => d[i].value.v \in 0..(Power[ScalarLen] - 1)

IsUnambiguous == Unambiguous(LICENSE_BLOB, {d \in PackedData : Fitting(d)})

IsRecovered == Recovers(LICENSE_BLOB, PackedData)

\* Once a licence is in use: what was signed of a licence is what was packed, since
\* no two payloads that pack makes of fields with other keys, types or values have
\* the same bytes, on either side of every boundary between two encodings.
PackingUnambiguous == state # NoState => IsUnambiguous

\* "No BigInt truncation", "Array -> ARRAY (recursive)": once a licence is in
\* use, unpack returns whatever pack was given.
UnpackRecovers == state # NoState => IsRecovered
=============================================================================
