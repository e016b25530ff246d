-------------------------- MODULE AuditChainProofs --------------------------
(***************************************************************************)
(* Proofs that, for any number of processes, entries, restarts and faults, *)
(* verification fails exactly on reloaded chains, that the rows of a lone  *)
(* process stay linked and durable, and that the Merkle root changes with  *)
(* every entry.                                                            *)
(***************************************************************************)
EXTENDS AuditChain, FiniteSetTheorems, TLAPS

-----------------------------------------------------------------------------
(* The inductive invariant *)

IsHash(h) == h[1] = "entry"

IsEntry(e) ==
    /\ e = [idx |-> e.idx, body |-> e.body, hash |-> e.hash,
            previousHash |-> e.previousHash]
    /\ e.idx \in Nat
    /\ IsHash(e.hash)

\* Rows are entries, each under its own index.
TableSound ==
    /\ IsFiniteSet(DOMAIN db)
    /\ \A i \in DOMAIN db : IsEntry(db[i]) /\ db[i].idx = i

ProcessTypes ==
    /\ up \in [Proc -> BOOLEAN]
    /\ hasDb \in [Proc -> BOOLEAN]
    /\ nextIndex \in [Proc -> Nat]
    /\ loaded \in [Proc -> Nat]
    /\ \A e \in acked : e.idx \in Nat
    /\ IsFiniteSet(writers)
    /\ \A p \in Proc : up[p] => p \in writers

IsSequence(s) == \E S : s \in Seq(S)

ChainTypes == chain = [p \in Proc |-> chain[p]] /\ \A p \in Proc : IsSequence(chain[p])

\* The reloaded part of a chain has no links, the rest verifies.
ChainSound(c, n) ==
    /\ c # <<>>
    /\ n <= Len(c)
    /\ \A i \in 1..Len(c) : IsHash(c[i].hash)
    /\ \A i \in 1..n : c[i].previousHash = Undefined
    /\ \A i \in 2..Len(c) : i > n => StepVerifies(c, i)

ChainsSound == \A p \in Proc : up[p] => ChainSound(chain[p], loaded[p])

Solo == \A p, q \in writers : p = q

\* A lone process is ahead of every row, and its last entry is the row before.
WriterAhead(p) ==
    /\ \A i \in DOMAIN db : i >= 1 => i < nextIndex[p]
    /\ nextIndex[p] - 1 \in DOMAIN db /\ nextIndex[p] >= 2 =>
          db[nextIndex[p] - 1].hash = chain[p][Len(chain[p])].hash

Linked(table) ==
    \A i \in DOMAIN table : i >= 1 /\ i + 1 \in DOMAIN table =>
        table[i + 1].previousHash = table[i].hash

LoneWriterLinks ==
    Solo /\ "load" \notin past =>
        /\ Linked(db)
        /\ \A p \in Proc : up[p] /\ hasDb[p] => WriterAhead(p)

Durable ==
    Solo /\ past = {} =>
        /\ \A p \in Proc : up[p] => hasDb[p]
        /\ \A e \in acked : e.idx # 0 => e.idx \in DOMAIN db /\ db[e.idx] = e

AuditInv ==
    /\ TableSound
    /\ ProcessTypes
    /\ ChainTypes
    /\ ChainsSound
    /\ LoneWriterLinks
    /\ Durable

-----------------------------------------------------------------------------
(* The order of the rows *)

\* A nonempty set of naturals has a least element.
LEMMA LeastNatural ==
    ASSUME NEW S \in SUBSET Nat, S # {}
    PROVE  \E n \in S : \A m \in S : n <= m
  <1>1. PICK n \in S : \A m \in S : ~(<<m, n>> \in OpToRel(<, Nat))
    BY WFMin, NatLessThanWellFounded
  <1>2. ASSUME NEW m \in Nat, NEW k \in Nat, m < k
        PROVE  <<m, k>> \in OpToRel(<, Nat)
    <2> DEFINE pair == <<m, k>>
    <2>1. pair \in Nat \X Nat /\ pair[1] = m /\ pair[2] = k
      OBVIOUS
    <2> HIDE DEF pair
    <2>2. pair[1] < pair[2]
      BY <1>2, <2>1
    <2>3. pair \in OpToRel(<, Nat)
      BY <2>1, <2>2, Zenon DEF OpToRel
    <2> QED
      BY <2>3 DEF pair
  <1>3. ASSUME NEW m \in S PROVE ~(m < n)
    BY <1>1, <1>2
  <1> QED
    BY <1>3

\* Every finite set of indices can be put in ascending order.
LEMMA CanBeOrdered ==
    ASSUME NEW S \in SUBSET Nat, IsFiniteSet(S)
    PROVE  \E o \in [1..Cardinality(S) -> S] : Ascending(o)
  <1> DEFINE Orderable(T) == \E o \in [1..Cardinality(T) -> T] : Ascending(o)
             Bad == {n \in Nat : \E T \in SUBSET Nat :
                        IsFiniteSet(T) /\ Cardinality(T) = n /\ ~Orderable(T)}
  <1>1. SUFFICES ASSUME Bad # {} PROVE FALSE
    <2>1. Cardinality(S) \in Nat
      BY FS_CardinalityType
    <2> QED
      BY <1>1, <2>1
  <1>2. PICK n \in Bad : \A m \in Bad : n <= m
    <2> HIDE DEF Bad
    <2>1. Bad \in SUBSET Nat
      BY DEF Bad
    <2> QED
      BY <1>1, <2>1, LeastNatural
  <1>3. PICK T \in SUBSET Nat : IsFiniteSet(T) /\ Cardinality(T) = n /\ ~Orderable(T)
    BY <1>2
  <1>4. T # {}
    <2>1. SUFFICES ASSUME T = {} PROVE FALSE
      OBVIOUS
    <2>2. Cardinality(T) = 0
      BY <2>1, FS_EmptySet
    <2>3. [i \in {} |-> 0] \in [1..0 -> T] /\ Ascending([i \in {} |-> 0])
      BY DEF Ascending
    <2> QED
      BY <1>3, <2>2, <2>3
  <1>5. PICK least \in T : \A m \in T : least <= m
    BY <1>4, LeastNatural
  <1> DEFINE U == T \ {least}
  <1>6. IsFiniteSet(U) /\ Cardinality(U) = n - 1 /\ n \in Nat /\ n - 1 \in Nat
    <2>1. IsFiniteSet(U) /\ Cardinality(U) = Cardinality(T) - 1
      BY <1>3, <1>5, FS_RemoveElement
    <2>2. Cardinality(U) \in Nat
      BY <2>1, FS_CardinalityType
    <2> QED
      BY <1>2, <1>3, <2>1, <2>2
  <1>7. PICK o \in [1..(n - 1) -> U] : Ascending(o)
    <2>1. n - 1 \notin Bad
      BY <1>2, <1>6
    <2> QED
      BY <1>6, <2>1
  <1> DEFINE w == [i \in 1..n |-> IF i = 1 THEN least ELSE o[i - 1]]
  <1>8. w \in [1..n -> T]
    BY <1>6
  <1>9. Ascending(w)
    <2> SUFFICES ASSUME NEW i \in 1..n, NEW j \in 1..n, i < j PROVE w[i] < w[j]
      BY DEF Ascending
    <2>1. j - 1 \in 1..(n - 1) /\ w[j] = o[j - 1] /\ o[j - 1] \in U
      BY <1>6
    <2>2. CASE i = 1
      <3>1. w[i] = least
        BY <2>2
      <3>2. least <= o[j - 1] /\ o[j - 1] # least /\ o[j - 1] \in Nat /\ least \in Nat
        BY <1>5, <2>1
      <3> QED
        BY <2>1, <3>1, <3>2
    <2>3. CASE i # 1
      <3>1. i - 1 \in 1..(n - 1) /\ w[i] = o[i - 1] /\ i - 1 < j - 1
        BY <1>6, <2>3
      <3> QED
        BY <1>7, <2>1, <3>1 DEF Ascending
    <2> QED
      BY <2>2, <2>3
  <1> QED
    BY <1>3, <1>8, <1>9

\* ORDER BY idx returns every row, the one with the greatest index last.
LEMMA RowsInOrder ==
    ASSUME NEW S \in SUBSET Nat, IsFiniteSet(S)
    PROVE  LET o == OrderByIdx(S) IN
           /\ Cardinality(S) \in Nat
           /\ o \in [1..Cardinality(S) -> S]
           /\ \A k \in S : \E i \in 1..Cardinality(S) : o[i] = k
           /\ \A k \in S : k <= o[Cardinality(S)]
  <1> DEFINE n == Cardinality(S)
             o == OrderByIdx(S)
  <1>1. n \in Nat
    BY FS_CardinalityType
  <1>2. o \in [1..n -> S] /\ Ascending(o)
    BY CanBeOrdered DEF OrderByIdx
  <1> HIDE DEF n, o
  <1>3. \A i, j \in 1..n : i < j => o[i] < o[j]
    BY <1>2 DEF Ascending
  <1>4. \A k \in S : \E i \in 1..n : o[i] = k
    <2>1. ASSUME NEW i \in 1..n, NEW j \in 1..n, o[i] = o[j] PROVE i = j
      <3>1. i \in Int /\ j \in Int
        BY <1>1
      <3>2. o[i] \in S
        BY <1>2
      <3>3. ~(o[i] < o[j]) /\ ~(o[j] < o[i])
        <4>1. \A k \in S : ~(k < k)
          OBVIOUS
        <4> QED
          BY ONLY <2>1, <3>2, <4>1, Zenon
      <3>4. ~(i < j) /\ ~(j < i)
        BY ONLY <1>3, <3>3, i \in 1..n, j \in 1..n
      <3> QED
        BY <3>1, <3>4
    <2>2. o \in Injection(1..n, S)
      BY <1>2, <2>1 DEF Injection, IsInjective
    <2>3. Cardinality(1..n) = n
      BY <1>1, FS_Interval
    <2>4. IsFiniteSet(1..n) /\ o \in Surjection(1..n, S)
      BY <1>1, <2>2, <2>3, FS_Injection, FS_Interval DEF n
    <2> QED
      BY <2>4 DEF Surjection
  <1>5. ASSUME NEW k \in S PROVE k <= o[n]
    <2>1. PICK i \in 1..n : o[i] = k
      BY <1>4
    <2>2. n \in 1..n /\ i <= n /\ o[n] \in Nat /\ o[i] \in Nat
      <3>1. n \in 1..n /\ i <= n
        BY <1>1
      <3>2. o[n] \in S /\ o[i] \in S
        BY <1>2, <3>1
      <3> QED
        BY <3>1, <3>2
    <2>3. CASE i = n
      BY <2>1, <2>2, <2>3
    <2>4. CASE i < n
      BY <1>3, <2>1, <2>2, <2>4
    <2> QED
      BY <1>1, <2>2, <2>3, <2>4
  <1> QED
    BY <1>1, <1>2, <1>4, <1>5 DEF n, o

-----------------------------------------------------------------------------
(* Rows, entries and chains *)

\* INSERT OR IGNORE adds at most the row of e and changes none.
LEMMA PersistedRows ==
    ASSUME NEW p, NEW e, NEW fails, PersistEntry(p, e, fails)
    PROVE  /\ DOMAIN db \subseteq DOMAIN db'
           /\ DOMAIN db' \subseteq DOMAIN db \cup {e.idx}
           /\ \A i \in DOMAIN db : db'[i] = db[i]
           /\ \A i \in DOMAIN db' : i \notin DOMAIN db => db'[i] = e /\ hasDb'[p]
           /\ hasDb'[p] /\ ~fails => e.idx \in DOMAIN db'
  <1>1. CASE db' = db
    BY <1>1 DEF PersistEntry, Inserted
  <1>2. CASE hasDb'[p] /\ ~fails /\ e.idx \notin DOMAIN db
    BY <1>2 DEF PersistEntry, Inserted
  <1> QED
    BY <1>1, <1>2 DEF PersistEntry, Inserted

\* The table stays sound when the row is an entry.
LEMMA TableStaysSound ==
    ASSUME TableSound, NEW p, NEW e, NEW fails, IsEntry(e), PersistEntry(p, e, fails)
    PROVE  TableSound'
  <1>1. IsFiniteSet(DOMAIN db')
    <2>1. IsFiniteSet(DOMAIN db \cup {e.idx})
      BY FS_AddElement DEF TableSound
    <2> QED
      BY <2>1, PersistedRows, FS_Subset
  <1>2. ASSUME NEW i \in DOMAIN db' PROVE IsEntry(db'[i]) /\ db'[i].idx = i
    BY PersistedRows DEF TableSound
  <1> QED
    BY <1>1, <1>2 DEF TableSound

\* The hash of an entry is no missing property.
LEMMA HashIsHash ==
    ASSUME NEW i, NEW b, NEW prev
    PROVE  IsHash(CalculateHash(i, b, prev))
  BY DEF IsHash, CalculateHash

\* A hash is never the missing previousHash of a reloaded row.
LEMMA HashNotUndefined ==
    ASSUME NEW h, IsHash(h)
    PROVE  h # Undefined
  <1>1. Undefined[1] = "undefined"
    BY DEF Undefined
  <1>2. "entry" # "undefined"
    OBVIOUS
  <1> QED
    BY <1>1, <1>2 DEF IsHash

\* createGenesisBlock makes an entry like the others.
LEMMA GenesisIsEntry ==
    ASSUME NEW b
    PROVE  IsEntry(Genesis(b)) /\ Genesis(b).idx = 0
  BY HashIsHash DEF Genesis, IsEntry

\* The new entry hangs on the end of the chain.
LEMMA NewEntryHangsOn ==
    ASSUME NEW c, IsSequence(c), c # <<>>, NEW i \in Nat, NEW b
    PROVE  LET e == NewEntry(c, i, b) IN
           /\ IsEntry(e) /\ e.idx = i
           /\ e.previousHash = c[Len(c)].hash
           /\ e.hash = CalculateHash(e.idx, e.body, e.previousHash)
  BY HashIsHash DEF NewEntry, IsEntry

\* Reading a row back loses its link only.
LEMMA RowReadBack ==
    ASSUME NEW r, IsEntry(r)
    PROVE  /\ FromRow(r).idx = r.idx
           /\ FromRow(r).hash = r.hash
           /\ FromRow(r).previousHash = Undefined
  BY DEF FromRow, IsEntry

\* Appending to a sequence.
LEMMA AppendItem ==
    ASSUME NEW s, IsSequence(s), NEW x
    PROVE  /\ IsSequence(Append(s, x))
           /\ Len(s) \in Nat
           /\ Len(Append(s, x)) = Len(s) + 1
           /\ \A i \in 1..Len(s) : Append(s, x)[i] = s[i]
           /\ Append(s, x)[Len(s) + 1] = x
           /\ Append(s, x) # <<>>
  <1>1. PICK S : s \in Seq(S)
    BY DEF IsSequence
  <1>2. s \in Seq(S \cup {x})
    BY <1>1
  <1>3. Append(s, x) \in Seq(S \cup {x})
    BY <1>2
  <1>4. /\ Len(s) \in Nat
        /\ Len(Append(s, x)) = Len(s) + 1
        /\ \A i \in 1..Len(s) : Append(s, x)[i] = s[i]
        /\ Append(s, x)[Len(s) + 1] = x
        /\ Append(s, x) # <<>>
    BY <1>2
  <1> QED
    BY <1>3, <1>4 DEF IsSequence

\* What the table gives back: each row, the last with the greatest index.
LEMMA LoadedRows ==
    ASSUME TableSound
    PROVE  /\ IsSequence(Rows) /\ Len(Rows) \in Nat
           /\ \A i \in 1..Len(Rows) : IsHash(Rows[i].hash) /\ Rows[i].previousHash = Undefined
           /\ Rows = <<>> => DOMAIN db = {}
           /\ Rows # <<>> => LET last == Rows[Len(Rows)] IN
                 /\ Len(Rows) >= 1
                 /\ last.idx \in DOMAIN db
                 /\ last.hash = db[last.idx].hash
                 /\ \A k \in DOMAIN db : k <= last.idx
  <1> DEFINE n == Cardinality(DOMAIN db)
             o == OrderByIdx(DOMAIN db)
             r == [i \in 1..n |-> FromRow(db[o[i]])]
  <1>1. DOMAIN db \in SUBSET Nat
    BY DEF TableSound, IsEntry
  <1>2. /\ n \in Nat
        /\ o \in [1..n -> DOMAIN db]
        /\ \A k \in DOMAIN db : \E i \in 1..n : o[i] = k
        /\ \A k \in DOMAIN db : k <= o[n]
    BY <1>1, RowsInOrder DEF TableSound
  <1>3. Rows = r
    BY <1>2 DEF Rows
  <1> HIDE DEF n, o
  <1>4. /\ r \in Seq({FromRow(db[o[i]]) : i \in 1..n})
        /\ Len(r) = n
        /\ r = <<>> <=> n = 0
    BY <1>2
  <1>5. ASSUME NEW i \in 1..n
        PROVE  /\ r[i].idx = o[i]
               /\ r[i].hash = db[o[i]].hash
               /\ IsHash(r[i].hash)
               /\ r[i].previousHash = Undefined
    <2>1. o[i] \in DOMAIN db /\ r[i] = FromRow(db[o[i]])
      BY <1>2
    <2>2. IsEntry(db[o[i]]) /\ db[o[i]].idx = o[i]
      BY <2>1 DEF TableSound
    <2> QED
      BY <2>1, <2>2, RowReadBack DEF IsEntry
  <1>6. IsSequence(r) /\ Len(r) \in Nat
    BY <1>2, <1>4 DEF IsSequence
  <1>7. n = 0 => DOMAIN db = {}
    BY <1>2
  <1>8. ASSUME n # 0
        PROVE  /\ n >= 1
               /\ r[n].idx \in DOMAIN db
               /\ r[n].hash = db[r[n].idx].hash
               /\ \A k \in DOMAIN db : k <= r[n].idx
    <2>1. n \in 1..n
      BY <1>2, <1>8
    <2>2. o[n] \in DOMAIN db
      BY <1>2, <2>1
    <2> QED
      BY <1>2, <1>5, <2>1, <2>2
  <1> HIDE DEF r
  <1> QED
    BY <1>3, <1>4, <1>5, <1>6, <1>7, <1>8

-----------------------------------------------------------------------------
(* Every step keeps the invariant *)

\* An entry appended by a process verifies, and a lone process links it to the
\* row before and writes it to a free row.
LEMMA AppendKeeps ==
    ASSUME AuditInv, NEW p \in Proc, NEW b \in Body, NEW fails, AppendLog(p, b, fails)
    PROVE  AuditInv'
  <1> DEFINE e == NewEntry(chain[p], nextIndex[p], b)
             c == chain[p]
             d == Append(chain[p], e)
             n == nextIndex[p]
  <1>1. /\ up[p] /\ hasDb' = hasDb
        /\ chain' = [chain EXCEPT ![p] = d]
        /\ PersistEntry(p, e, fails)
        /\ acked' = acked \cup {e}
        /\ nextIndex' = [nextIndex EXCEPT ![p] = n + 1]
        /\ past \subseteq past' /\ (fails => past' # {})
        /\ UNCHANGED <<up, loaded, boots, writers>>
    BY DEF AppendLog
  <1>2. /\ IsSequence(c) /\ n \in Nat /\ p \in writers
        /\ ChainSound(c, loaded[p])
        /\ loaded[p] \in Nat
    BY <1>1 DEF AuditInv, ChainTypes, ProcessTypes, ChainsSound
  <1>3. /\ IsEntry(e) /\ e.idx = n
        /\ e.previousHash = c[Len(c)].hash
        /\ e.hash = CalculateHash(e.idx, e.body, e.previousHash)
    BY <1>2, NewEntryHangsOn DEF ChainSound
  <1> HIDE DEF e
  <1>4. /\ IsSequence(d) /\ Len(c) \in Nat /\ Len(d) = Len(c) + 1
        /\ \A i \in 1..Len(c) : d[i] = c[i]
        /\ d[Len(c) + 1] = e
        /\ d # <<>>
    BY <1>2, AppendItem
  <1> HIDE DEF d
  <1>5. /\ chain'[p] = d /\ \A q \in Proc : q # p => chain'[q] = chain[q]
        /\ chain' = [q \in Proc |-> chain'[q]]
        /\ nextIndex' \in [Proc -> Nat] /\ nextIndex'[p] = n + 1
        /\ \A q \in Proc : q # p => nextIndex'[q] = nextIndex[q]
    BY <1>1, <1>2 DEF AuditInv, ChainTypes, ProcessTypes
  <1>6. TableSound'
    BY <1>1, <1>3, TableStaysSound DEF AuditInv
  <1>7. ProcessTypes'
    BY <1>1, <1>2, <1>3, <1>5 DEF AuditInv, ProcessTypes
  <1>8. ChainTypes'
    BY <1>2, <1>4, <1>5 DEF AuditInv, ChainTypes
  <1>9. ChainsSound'
    <2>1. ChainSound(d, loaded[p])
      <3>1. ASSUME NEW i \in 1..Len(d)
            PROVE  /\ IsHash(d[i].hash)
                   /\ i <= loaded[p] => d[i].previousHash = Undefined
                   /\ i >= 2 /\ i > loaded[p] => StepVerifies(d, i)
        <4>1. CASE i \in 1..Len(c)
          <5>1. d[i] = c[i] /\ (i >= 2 => d[i - 1] = c[i - 1])
            BY <1>4, <4>1
          <5> QED
            BY <1>2, <4>1, <5>1 DEF ChainSound, StepVerifies
        <4>2. CASE i = Len(c) + 1
          <5>1. d[i] = e /\ d[Len(c)] = c[Len(c)] /\ i - 1 = Len(c) /\ ~(i <= loaded[p])
            <6>1. Len(c) >= 1
              BY <1>2, <1>4 DEF IsSequence, ChainSound
            <6> QED
              BY <1>2, <1>4, <4>2, <6>1 DEF ChainSound
          <5> QED
            BY <1>3, <5>1 DEF StepVerifies, IsEntry
        <4> QED
          BY <1>4, <4>1, <4>2
      <3> QED
        BY <1>2, <1>4, <3>1 DEF ChainSound
    <2> QED
      BY <1>1, <1>5, <2>1 DEF AuditInv, ChainsSound
  <1>10. ASSUME Solo PROVE \A q \in Proc : up[q] => q = p
    BY <1>2, <1>10 DEF Solo, AuditInv, ProcessTypes
  <1>11. LoneWriterLinks'
    <2> SUFFICES ASSUME Solo', "load" \notin past'
                 PROVE  Linked(db') /\ \A q \in Proc : up'[q] /\ hasDb'[q] => WriterAhead(q)'
      BY DEF LoneWriterLinks, Linked
    <2>1. Solo /\ "load" \notin past
      BY <1>1 DEF Solo
    <2>2. Linked(db) /\ (hasDb[p] => WriterAhead(p))
      BY <1>1, <2>1 DEF AuditInv, LoneWriterLinks
    <2>3. CASE db' = db /\ ~hasDb[p]
      BY <1>1, <1>10, <2>1, <2>2, <2>3
    <2>4. CASE hasDb[p]
      <3>1. /\ \A i \in DOMAIN db : i >= 1 => i < n
            /\ n - 1 \in DOMAIN db /\ n >= 2 => db[n - 1].hash = c[Len(c)].hash
        BY <2>2, <2>4 DEF WriterAhead
      <3>2. /\ DOMAIN db \subseteq Nat
            /\ DOMAIN db' \subseteq DOMAIN db \cup {n}
            /\ \A i \in DOMAIN db : db'[i] = db[i]
            /\ \A i \in DOMAIN db' : i \notin DOMAIN db => db'[i] = e
        BY <1>1, <1>3, PersistedRows DEF AuditInv, TableSound, IsEntry
      <3>3. n >= 1 => n \notin DOMAIN db
        BY <1>2, <3>1
      <3>4. Linked(db')
        <4> SUFFICES ASSUME NEW i \in DOMAIN db', i >= 1, i + 1 \in DOMAIN db'
                     PROVE  db'[i + 1].previousHash = db'[i].hash
          BY DEF Linked
        <4>1. i \in Nat
          BY <1>2, <3>2
        <4>2. CASE i + 1 \in DOMAIN db
          <5>1. i \in DOMAIN db
            BY <1>2, <3>1, <3>2, <4>1, <4>2
          <5> QED
            BY <2>2, <3>2, <4>2, <5>1 DEF Linked
        <4>3. CASE i + 1 \notin DOMAIN db
          <5>1. i + 1 = n /\ i = n - 1 /\ i \in DOMAIN db /\ db'[i + 1] = e /\ n >= 2
            BY <1>2, <3>2, <4>1, <4>3
          <5> QED
            BY <1>3, <3>1, <3>2, <5>1
        <4> QED
          BY <4>2, <4>3
      <3>5. WriterAhead(p)'
        <4>1. \A i \in DOMAIN db' : i >= 1 => i < n + 1
          BY <1>2, <3>1, <3>2
        <4>2. /\ chain'[p][Len(chain'[p])] = e
              /\ nextIndex'[p] = n + 1 /\ nextIndex'[p] - 1 = n
          BY <1>2, <1>4, <1>5
        <4>3. ASSUME nextIndex'[p] - 1 \in DOMAIN db', nextIndex'[p] >= 2
              PROVE  db'[nextIndex'[p] - 1].hash = chain'[p][Len(chain'[p])].hash
          <5>1. n \in DOMAIN db' /\ n \notin DOMAIN db
            BY <1>2, <3>3, <4>2, <4>3
          <5> QED
            BY <3>2, <4>2, <5>1
        <4>4. \A i \in DOMAIN db' : i >= 1 => i < nextIndex'[p]
          BY ONLY <4>1, <4>2
        <4> QED
          BY <4>3, <4>4 DEF WriterAhead
      <3> QED
        BY <1>1, <1>10, <2>1, <3>4, <3>5
    <2> QED
      BY <1>1, <2>3, <2>4 DEF PersistEntry
  <1>12. Durable'
    <2> SUFFICES ASSUME Solo', past' = {}
                 PROVE  /\ \A q \in Proc : up'[q] => hasDb'[q]
                        /\ \A a \in acked' : a.idx # 0 => a.idx \in DOMAIN db' /\ db'[a.idx] = a
      BY DEF Durable
    <2>1. Solo /\ past = {} /\ ~fails
      BY <1>1 DEF Solo
    <2>2. /\ \A q \in Proc : up[q] => hasDb[q]
          /\ \A a \in acked : a.idx # 0 => a.idx \in DOMAIN db /\ db[a.idx] = a
      BY <2>1 DEF AuditInv, Durable
    <2>3. /\ \A i \in DOMAIN db : i \in DOMAIN db' /\ db'[i] = db[i]
          /\ \A i \in DOMAIN db' : i \notin DOMAIN db => db'[i] = e
          /\ n \in DOMAIN db'
      BY <1>1, <1>3, <2>1, <2>2, PersistedRows
    <2>4. n # 0 => n \notin DOMAIN db
      BY <1>1, <1>2, <2>1, <2>2 DEF AuditInv, LoneWriterLinks, WriterAhead
    <2> QED
      BY <1>1, <1>3, <2>2, <2>3, <2>4
  <1> QED
    BY <1>6, <1>7, <1>8, <1>9, <1>11, <1>12 DEF AuditInv

\* What any start of a process does besides building its chain; a process that
\* is the only one so far finds no other running.
LEMMA Started ==
    ASSUME AuditInv, NEW p \in Proc, NEW b \in Body, NEW open \in BOOLEAN,
           NEW load \in BOOLEAN, NEW fails, Boot(p, b, open, load, fails)
    PROVE  /\ ~up[p] /\ up' \in [Proc -> BOOLEAN] /\ up'[p]
           /\ \A q \in Proc : q # p => up'[q] = up[q] /\ hasDb'[q] = hasDb[q]
           /\ hasDb' \in [Proc -> BOOLEAN] /\ hasDb'[p] = open
           /\ IsFiniteSet(writers') /\ writers \subseteq writers' /\ p \in writers'
           /\ acked' = acked /\ past \subseteq past'
           /\ (~open => "open" \in past') /\ (~load => "load" \in past')
           /\ (fails => "persist" \in past')
           /\ Solo' => Solo /\ \A q \in Proc : up'[q] => q = p
  <1>1. /\ ~up[p] /\ up' = [up EXCEPT ![p] = TRUE] /\ hasDb' = [hasDb EXCEPT ![p] = open]
        /\ writers' = writers \cup {p} /\ acked' = acked /\ past \subseteq past'
        /\ (~open => "open" \in past') /\ (~load => "load" \in past')
        /\ (fails => "persist" \in past')
    BY DEF Boot
  <1>2. /\ up' \in [Proc -> BOOLEAN] /\ up'[p]
        /\ \A q \in Proc : q # p => up'[q] = up[q] /\ hasDb'[q] = hasDb[q]
        /\ hasDb' \in [Proc -> BOOLEAN] /\ hasDb'[p] = open
    BY <1>1 DEF AuditInv, ProcessTypes
  <1>3. IsFiniteSet(writers')
    BY <1>1, FS_AddElement DEF AuditInv, ProcessTypes
  <1>4. ASSUME Solo' PROVE Solo /\ \A q \in Proc : up'[q] => q = p
    BY <1>1, <1>2, <1>4 DEF Solo, AuditInv, ProcessTypes
  <1> QED
    BY <1>1, <1>2, <1>3, <1>4

\* A start that reads rows takes them as its chain and goes on after the last.
LEMMA LoadKeeps ==
    ASSUME AuditInv, NEW p \in Proc, NEW b \in Body, NEW open \in BOOLEAN,
           NEW load \in BOOLEAN, NEW fails, Boot(p, b, open, load, fails),
           open, load, LoadChain(p, Rows)
    PROVE  AuditInv'
  <1> DEFINE last == Rows[Len(Rows)]
  <1>1. /\ Rows # <<>> /\ db' = db
        /\ chain' = [chain EXCEPT ![p] = Rows]
        /\ nextIndex' = [nextIndex EXCEPT ![p] = last.idx + 1]
        /\ loaded' = [loaded EXCEPT ![p] = Len(Rows)]
    BY DEF LoadChain
  <1>2. /\ IsSequence(Rows) /\ Len(Rows) \in Nat /\ Len(Rows) >= 1
        /\ \A i \in 1..Len(Rows) : IsHash(Rows[i].hash) /\ Rows[i].previousHash = Undefined
        /\ last.idx \in DOMAIN db
        /\ last.hash = db[last.idx].hash
        /\ \A k \in DOMAIN db : k <= last.idx
    BY <1>1, LoadedRows DEF AuditInv
  <1>3. DOMAIN db \subseteq Nat /\ last.idx \in Nat
    BY <1>2 DEF AuditInv, TableSound, IsEntry
  <1> HIDE DEF last
  <1>4. /\ chain'[p] = Rows /\ \A q \in Proc : q # p => chain'[q] = chain[q]
        /\ chain' = [q \in Proc |-> chain'[q]]
        /\ nextIndex' \in [Proc -> Nat] /\ nextIndex'[p] = last.idx + 1
        /\ loaded' \in [Proc -> Nat] /\ loaded'[p] = Len(Rows)
        /\ \A q \in Proc : q # p => loaded'[q] = loaded[q]
    <2>1. /\ chain'[p] = Rows /\ \A q \in Proc : q # p => chain'[q] = chain[q]
          /\ chain' = [q \in Proc |-> chain'[q]]
      BY <1>1 DEF AuditInv, ChainTypes
    <2>2. nextIndex' \in [Proc -> Nat] /\ nextIndex'[p] = last.idx + 1
      <3>1. last.idx + 1 \in Nat
        BY <1>3
      <3> QED
        BY <1>1, <3>1 DEF AuditInv, ProcessTypes
    <2>3. /\ loaded' \in [Proc -> Nat] /\ loaded'[p] = Len(Rows)
          /\ \A q \in Proc : q # p => loaded'[q] = loaded[q]
      BY <1>1, <1>2 DEF AuditInv, ProcessTypes
    <2> QED
      BY <2>1, <2>2, <2>3
  <1>5. TableSound'
    BY <1>1 DEF AuditInv, TableSound
  <1>6. ProcessTypes'
    BY <1>4, Started DEF AuditInv, ProcessTypes
  <1>7. ChainTypes'
    BY <1>2, <1>4 DEF AuditInv, ChainTypes
  <1>8. ChainsSound'
    <2>1. ChainSound(Rows, Len(Rows))
      BY <1>1, <1>2 DEF ChainSound
    <2> QED
      BY <1>4, <2>1, Started DEF AuditInv, ChainsSound
  <1>9. LoneWriterLinks'
    <2> SUFFICES ASSUME Solo', "load" \notin past'
                 PROVE  Linked(db') /\ \A q \in Proc : up'[q] /\ hasDb'[q] => WriterAhead(q)'
      BY DEF LoneWriterLinks, Linked
    <2>1. Linked(db')
      BY <1>1, Started DEF AuditInv, LoneWriterLinks
    <2>2. /\ \A i \in DOMAIN db' : i >= 1 => i < nextIndex'[p]
          /\ nextIndex'[p] - 1 = last.idx
      BY <1>1, <1>2, <1>3, <1>4
    <2>3. /\ db'[last.idx].hash = last.hash
          /\ chain'[p][Len(chain'[p])] = last
      BY <1>1, <1>2, <1>4 DEF last
    <2>4. WriterAhead(p)'
      BY <2>2, <2>3 DEF WriterAhead
    <2> QED
      BY <2>1, <2>4, Started
  <1>10. Durable'
    <2> SUFFICES ASSUME Solo', past' = {}
                 PROVE  /\ \A q \in Proc : up'[q] => hasDb'[q]
                        /\ \A a \in acked' : a.idx # 0 => a.idx \in DOMAIN db' /\ db'[a.idx] = a
      BY DEF Durable
    <2> QED
      BY <1>1, Started DEF AuditInv, Durable
  <1> QED
    BY <1>5, <1>6, <1>7, <1>8, <1>9, <1>10 DEF AuditInv

\* A start that reads no rows begins a chain with a genesis entry.
LEMMA GenesisKeeps ==
    ASSUME AuditInv, NEW p \in Proc, NEW b \in Body, NEW open \in BOOLEAN,
           NEW load \in BOOLEAN, NEW fails, Boot(p, b, open, load, fails), NEW rows,
           open /\ load => rows = Rows, AppendGenesis(p, rows, b, fails)
    PROVE  AuditInv'
  <1> DEFINE g == Genesis(b)
  <1>1. /\ rows = <<>>
        /\ chain' = [chain EXCEPT ![p] = <<g>>]
        /\ nextIndex' = [nextIndex EXCEPT ![p] = 0]
        /\ loaded' = [loaded EXCEPT ![p] = 0]
        /\ PersistEntry(p, g, fails)
    BY DEF AppendGenesis
  <1>2. IsEntry(g) /\ g.idx = 0
    BY GenesisIsEntry
  <1> HIDE DEF g
  <1>3. /\ chain'[p] = <<g>> /\ \A q \in Proc : q # p => chain'[q] = chain[q]
        /\ chain' = [q \in Proc |-> chain'[q]]
        /\ nextIndex' \in [Proc -> Nat] /\ nextIndex'[p] = 0
        /\ loaded' \in [Proc -> Nat] /\ loaded'[p] = 0
        /\ \A q \in Proc : q # p => loaded'[q] = loaded[q]
    BY <1>1 DEF AuditInv, ChainTypes, ProcessTypes
  <1>4. /\ DOMAIN db \subseteq DOMAIN db' /\ DOMAIN db \subseteq Nat
        /\ DOMAIN db' \subseteq DOMAIN db \cup {0}
        /\ \A i \in DOMAIN db : db'[i] = db[i]
    BY <1>1, <1>2, PersistedRows DEF AuditInv, TableSound, IsEntry
  <1>5. TableSound'
    BY <1>1, <1>2, TableStaysSound DEF AuditInv
  <1>6. ProcessTypes'
    BY <1>3, Started DEF AuditInv, ProcessTypes
  <1>7. ChainTypes'
    <2>1. <<g>> \in Seq({g})
      OBVIOUS
    <2> QED
      BY <1>3, <2>1 DEF AuditInv, ChainTypes, IsSequence
  <1>8. ChainsSound'
    <2>1. ChainSound(<<g>>, 0)
      <3>1. IsHash(g.hash)
        BY <1>2 DEF IsEntry
      <3>2. <<g>> # <<>> /\ Len(<<g>>) = 1 /\ <<g>>[1] = g
        OBVIOUS
      <3> QED
        BY <3>1, <3>2 DEF ChainSound
    <2>2. ASSUME NEW q \in Proc, up'[q] PROVE ChainSound(chain'[q], loaded'[q])
      <3>1. CASE q = p
        BY <1>3, <2>1, <3>1
      <3>2. CASE q # p
        BY <1>3, <2>2, <3>2, Started DEF AuditInv, ChainsSound
      <3> QED
        BY <3>1, <3>2
    <2> QED
      BY <2>2 DEF ChainsSound
  <1>9. LoneWriterLinks'
    <2> SUFFICES ASSUME Solo', "load" \notin past'
                 PROVE  Linked(db') /\ \A q \in Proc : up'[q] /\ hasDb'[q] => WriterAhead(q)'
      BY DEF LoneWriterLinks, Linked
    <2>1. Linked(db')
      <3>1. Linked(db)
        BY Started DEF AuditInv, LoneWriterLinks
      <3> SUFFICES ASSUME NEW i \in DOMAIN db', i >= 1, i + 1 \in DOMAIN db'
                   PROVE  db'[i + 1].previousHash = db'[i].hash
        BY DEF Linked
      <3>2. i \in DOMAIN db /\ i + 1 \in DOMAIN db
        BY <1>4
      <3> QED
        BY <1>4, <3>1, <3>2 DEF Linked
    <2>2. ASSUME hasDb'[p] PROVE WriterAhead(p)'
      <3>1. open /\ load
        BY <2>2, Started
      <3>2. DOMAIN db = {}
        BY <1>1, <3>1, LoadedRows DEF AuditInv
      <3>3. /\ \A i \in DOMAIN db' : i >= 1 => i < nextIndex'[p]
            /\ ~(nextIndex'[p] >= 2)
        BY <1>3, <1>4, <3>2
      <3> QED
        BY <3>3 DEF WriterAhead
    <2> QED
      BY <2>1, <2>2, Started
  <1>10. Durable'
    <2> SUFFICES ASSUME Solo', past' = {}
                 PROVE  /\ \A q \in Proc : up'[q] => hasDb'[q]
                        /\ \A a \in acked' : a.idx # 0 => a.idx \in DOMAIN db' /\ db'[a.idx] = a
      BY DEF Durable
    <2> QED
      BY <1>4, Started DEF AuditInv, Durable
  <1> QED
    BY <1>5, <1>6, <1>7, <1>8, <1>9, <1>10 DEF AuditInv

\* A crash loses what was in memory and nothing else.
LEMMA CrashKeeps ==
    ASSUME AuditInv, NEW p \in Proc, Crash(p)
    PROVE  AuditInv'
  <1>1. /\ up' = [up EXCEPT ![p] = FALSE]
        /\ chain' = [chain EXCEPT ![p] = <<>>]
        /\ nextIndex' = [nextIndex EXCEPT ![p] = 0]
        /\ loaded' = [loaded EXCEPT ![p] = 0]
        /\ UNCHANGED <<db, hasDb, acked, boots, writers, past>>
    BY DEF Crash
  <1>2. /\ up' \in [Proc -> BOOLEAN] /\ ~up'[p]
        /\ chain' = [q \in Proc |-> chain'[q]] /\ chain'[p] = <<>>
        /\ nextIndex' \in [Proc -> Nat] /\ loaded' \in [Proc -> Nat]
        /\ \A q \in Proc : q # p => /\ up'[q] = up[q] /\ chain'[q] = chain[q]
                                    /\ nextIndex'[q] = nextIndex[q]
                                    /\ loaded'[q] = loaded[q]
    BY <1>1 DEF AuditInv, ProcessTypes, ChainTypes
  <1>3. TableSound' /\ ProcessTypes'
    BY <1>1, <1>2 DEF AuditInv, TableSound, ProcessTypes
  <1>4. ChainTypes'
    <2>1. <<>> \in Seq({})
      OBVIOUS
    <2> QED
      BY <1>2, <2>1 DEF AuditInv, ChainTypes, IsSequence
  <1>5. ChainsSound'
    BY <1>2 DEF AuditInv, ChainsSound
  <1>6. ASSUME NEW q \in Proc, up'[q]
        PROVE  up[q] /\ (WriterAhead(q) => WriterAhead(q)')
    BY <1>1, <1>2, <1>6 DEF WriterAhead
  <1>7. LoneWriterLinks'
    BY <1>1, <1>6 DEF AuditInv, LoneWriterLinks, Linked, Solo
  <1>8. Durable'
    BY <1>1, <1>6 DEF AuditInv, Durable, Solo
  <1> QED
    BY <1>3, <1>4, <1>5, <1>7, <1>8 DEF AuditInv

\* Every step of a replica keeps the invariant.
LEMMA AuditStep == AuditInv /\ [Next]_vars => AuditInv'
  <1> SUFFICES ASSUME AuditInv, [Next]_vars PROVE AuditInv'
    OBVIOUS
  <1>1. ASSUME NEW p \in Proc, NEW b \in Body, NEW open \in BOOLEAN, NEW load \in BOOLEAN,
               NEW fails, Boot(p, b, open, load, fails)
        PROVE  AuditInv'
    <2> DEFINE rows == IF open /\ load THEN Rows ELSE <<>>
    <2>1. LoadChain(p, rows) \/ AppendGenesis(p, rows, b, fails)
      BY <1>1 DEF Boot
    <2>2. CASE LoadChain(p, rows)
      <3>1. open /\ load
        BY <2>2 DEF LoadChain
      <3> QED
        BY <1>1, <2>2, <3>1, LoadKeeps
    <2>3. CASE AppendGenesis(p, rows, b, fails)
      BY <1>1, <2>3, GenesisKeeps
    <2> QED
      BY <2>1, <2>2, <2>3
  <1>2. ASSUME NEW p \in Proc, NEW b \in Body, NEW fails, AppendLog(p, b, fails)
        PROVE  AuditInv'
    BY <1>2, AppendKeeps
  <1>3. ASSUME NEW p \in Proc, Crash(p) PROVE AuditInv'
    BY <1>3, CrashKeeps
  <1>4. CASE UNCHANGED vars
    BY <1>4 DEF vars, AuditInv, TableSound, ProcessTypes, ChainTypes, ChainsSound,
                LoneWriterLinks, Linked, WriterAhead, Durable, Solo
  <1>5. CASE Next
    <2>1. PICK p \in Proc :
             \/ \E b \in Body, noDb \in MayFail("open"), noLoad \in MayFail("load"),
                   fails \in MayFail("persist") : Boot(p, b, ~noDb, ~noLoad, fails)
             \/ \E b \in Body, fails \in MayFail("persist") : AppendLog(p, b, fails)
             \/ Crash(p)
      BY <1>5 DEF Next
    <2>2. ASSUME NEW b \in Body, NEW noDb \in MayFail("open"), NEW noLoad \in MayFail("load"),
                 NEW fails \in MayFail("persist"), Boot(p, b, ~noDb, ~noLoad, fails)
          PROVE  AuditInv'
      <3>1. (~noDb) \in BOOLEAN /\ (~noLoad) \in BOOLEAN
        BY DEF MayFail
      <3> QED
        BY <1>1, <2>2, <3>1
    <2> QED
      BY <1>2, <1>3, <2>1, <2>2
  <1> QED
    BY <1>4, <1>5

\* The invariant holds throughout.
LEMMA AuditInvariance == Spec => []AuditInv
  <1>1. Init => AuditInv
    <2> SUFFICES ASSUME Init PROVE AuditInv
      OBVIOUS
    <2>1. IsFiniteSet({}) /\ <<>> \in Seq({}) /\ DOMAIN <<>> = {}
      BY FS_EmptySet
    <2>2. /\ db = <<>> /\ up = [p \in Proc |-> FALSE] /\ hasDb = [p \in Proc |-> FALSE]
          /\ chain = [p \in Proc |-> <<>>] /\ nextIndex = [p \in Proc |-> 0]
          /\ loaded = [p \in Proc |-> 0] /\ acked = {} /\ writers = {}
      BY DEF Init
    <2>3. DOMAIN db = {}
      BY <2>1, <2>2
    <2>4. TableSound
      BY <2>1, <2>3 DEF TableSound
    <2>5. ProcessTypes
      BY <2>1, <2>2 DEF ProcessTypes
    <2>6. ChainTypes
      BY <2>1, <2>2 DEF ChainTypes, IsSequence
    <2>7. ChainsSound
      BY <2>2 DEF ChainsSound
    <2>8. LoneWriterLinks /\ Durable
      BY <2>2, <2>3 DEF LoneWriterLinks, Linked, Durable
    <2> QED
      BY <2>4, <2>5, <2>6, <2>7, <2>8 DEF AuditInv
  <1> QED
    BY <1>1, AuditStep, PTL DEF Spec

-----------------------------------------------------------------------------
(* The levels that getMerkleRoot goes through *)

\* One iteration of the loop of getMerkleRoot, which ends at a single hash.
Up(h) == IF Len(h) > 1 THEN MerkleLevel(h) ELSE h

\* Successive levels over the leaves, as far as level n.
Levels(lev, leaves, n) ==
    /\ lev[0] = leaves
    /\ \A j \in 1..n : lev[j] = Up(lev[j - 1])

\* Any number of levels can be built.
LEMMA LevelsExist ==
    ASSUME NEW leaves, NEW n \in Nat
    PROVE  \E lev : Levels(lev, leaves, n)
  <1> DEFINE Built(k) == \E lev : Levels(lev, leaves, k)
             Bad == {k \in Nat : ~Built(k)}
  <1>1. Built(0)
    <2>1. Levels([j \in 0..0 |-> leaves], leaves, 0)
      BY DEF Levels
    <2> QED
      BY <2>1
  <1>2. ASSUME NEW k \in Nat, k > 0, Built(k - 1) PROVE Built(k)
    <2>1. PICK lev : Levels(lev, leaves, k - 1)
      BY <1>2
    <2> DEFINE w == [j \in 0..k |-> IF j = k THEN Up(lev[k - 1]) ELSE lev[j]]
    <2>2. \A j \in 0..(k - 1) : w[j] = lev[j]
      BY <1>2
    <2>3. w[k] = Up(lev[k - 1])
      BY <1>2
    <2> HIDE DEF w
    <2>4. w[0] = leaves
      BY <1>2, <2>1, <2>2 DEF Levels
    <2>5. ASSUME NEW j \in 1..k PROVE w[j] = Up(w[j - 1])
      <3>1. CASE j = k
        BY <1>2, <2>2, <2>3, <3>1
      <3>2. CASE j < k
        BY <2>1, <2>2, <3>2 DEF Levels
      <3> QED
        BY <3>1, <3>2
    <2> QED
      BY <2>4, <2>5 DEF Levels
  <1> HIDE DEF Built
  <1>3. SUFFICES ASSUME Bad # {} PROVE FALSE
    BY DEF Built
  <1>4. PICK k \in Bad : \A m \in Bad : k <= m
    <2> HIDE DEF Bad
    <2>1. Bad \in SUBSET Nat
      BY DEF Bad
    <2> QED
      BY <1>3, <2>1, LeastNatural
  <1>5. k \in Nat /\ k # 0
    BY <1>1
  <1>6. k - 1 \in Nat /\ k - 1 \notin Bad
    BY <1>4, <1>5
  <1> QED
    BY <1>2, <1>4, <1>5, <1>6

\* What holds at level 0 and is handed up holds at every level up to n.
Upward(G, n) == 0 \in G /\ \A j \in 1..n : j - 1 \in G => j \in G

\* Induction from level to level.
LEMMA LevelByLevel ==
    ASSUME NEW n \in Nat, NEW G, Upward(G, n)
    PROVE  0..n \subseteq G
  <1> DEFINE Bad == (0..n) \ G
  <1>1. SUFFICES ASSUME Bad # {} PROVE FALSE
    OBVIOUS
  <1>2. PICK k \in Bad : \A m \in Bad : k <= m
    <2>1. Bad \in SUBSET Nat
      OBVIOUS
    <2> HIDE DEF Bad
    <2> QED
      BY <1>1, <2>1, LeastNatural
  <1>3. k \in 1..n
    BY DEF Upward
  <1>4. k - 1 \in 0..n /\ k - 1 \notin Bad
    BY <1>2, <1>3
  <1> QED
    BY <1>3, <1>4 DEF Upward

\* The choice that FoldLeft makes: the last index.
Largest(s) == Seqs!Max(s)

\* A nonempty set of indices has a largest one.
LEMMA LargestIndex ==
    ASSUME NEW n \in Nat, NEW s \in SUBSET (1..n), s # {}
    PROVE  Largest(s) \in s /\ \A j \in s : Largest(s) >= j
  <1> DEFINE D == {n - i : i \in s}
  <1>1. D \subseteq Nat
    <2>1. \A i \in s : n - i \in Nat
      OBVIOUS
    <2> QED
      BY <2>1
  <1>2. D \in SUBSET Nat /\ D # {} /\ \A j \in s : n - j \in D
    BY <1>1
  <1>3. \A d \in D : \E i \in s : d = n - i
    OBVIOUS
  <1> HIDE DEF D
  <1>4. PICK d \in D : \A e \in D : d <= e
    BY <1>2, LeastNatural
  <1>5. PICK i \in s : d = n - i
    BY <1>3
  <1>6. ASSUME NEW j \in s PROVE i >= j
    <2>1. n - i <= n - j /\ i \in Int /\ j \in Int
      BY <1>2, <1>4, <1>5
    <2> QED
      BY <2>1
  <1> QED
    BY <1>6 DEF Largest, Seqs!Max

\* A set of indices and the set without its largest.
LEMMA IndexSets ==
    ASSUME NEW n \in Nat, NEW s \in SUBSET (1..n)
    PROVE  /\ IsFiniteSet(s) /\ Cardinality(s) \in 0..n
           /\ Cardinality(1..n) = n
           /\ s # {} => /\ Cardinality(s) \in 1..n
                        /\ s \ {Largest(s)} \in SUBSET (1..n)
                        /\ Cardinality(s \ {Largest(s)}) = Cardinality(s) - 1
  <1>1. IsFiniteSet(1..n) /\ Cardinality(1..n) = n
    BY FS_Interval
  <1>2. IsFiniteSet(s) /\ Cardinality(s) <= n
    BY <1>1, FS_Subset
  <1>3. Cardinality(s) \in 0..n
    BY <1>2, FS_CardinalityType
  <1>4. ASSUME s # {}
        PROVE  /\ Cardinality(s) \in 1..n
               /\ s \ {Largest(s)} \in SUBSET (1..n)
               /\ Cardinality(s \ {Largest(s)}) = Cardinality(s) - 1
    <2>1. Largest(s) \in s
      BY <1>4, LargestIndex
    <2>2. /\ IsFiniteSet(s \ {Largest(s)})
          /\ Cardinality(s \ {Largest(s)}) = Cardinality(s) - 1
      BY <1>2, <2>1, FS_RemoveElement
    <2>3. Cardinality(s \ {Largest(s)}) \in Nat
      BY <2>2, FS_CardinalityType
    <2>4. Cardinality(s) \in 1..n
      BY <1>3, <2>2, <2>3
    <2> QED
      BY <2>2, <2>4
  <1> QED
    BY <1>1, <1>2, <1>3, <1>4

\* The loop as the fold has it: over the sets of iterations, the last one outermost.
RootFold(g, c) ==
    g = [s \in SUBSET DOMAIN [i \in 1..Len(c) |-> i] |->
            IF s = {} THEN [i \in 1..Len(c) |-> c[i].hash]
            ELSE IF Len(g[s \ {Largest(s)}]) > 1 THEN MerkleLevel(g[s \ {Largest(s)}])
                 ELSE g[s \ {Largest(s)}]]

\* The root is the first hash of the level that the last iteration leaves.
LEMMA RootOfLevels ==
    ASSUME NEW c, c # <<>>, Len(c) \in Nat,
           NEW lev, Levels(lev, [i \in 1..Len(c) |-> c[i].hash], Len(c))
    PROVE  GetMerkleRoot(c) = lev[Len(c)][1]
  <1> DEFINE n == Len(c)
             leaves == [i \in 1..n |-> c[i].hash]
             D == DOMAIN [i \in 1..n |-> i]
  <1>1. D = 1..n /\ n \in Nat
    OBVIOUS
  <1>3. ASSUME NEW s \in SUBSET D, s # {}
        PROVE  /\ s \ {Largest(s)} \in SUBSET D
               /\ Cardinality(s \ {Largest(s)}) = Cardinality(s) - 1
               /\ Cardinality(s) \in 1..n
    BY <1>1, <1>3, IndexSets
  <1>4. ASSUME NEW s \in SUBSET D, s # {}
        PROVE  lev[Cardinality(s)] = Up(lev[Cardinality(s \ {Largest(s)})])
    BY <1>3, <1>4 DEF Levels
  <1>5. lev[Cardinality({})] = leaves
    BY FS_EmptySet DEF Levels
  <1> DEFINE g == [s \in SUBSET D |-> lev[Cardinality(s)]]
  <1>6. RootFold(g, c)
    <2>1. ASSUME NEW s \in SUBSET D, s # {}
          PROVE  g[s] = Up(g[s \ {Largest(s)}])
      BY <1>3, <1>4, <2>1
    <2>2. {} \in SUBSET D /\ g[{}] = leaves
      BY <1>5
    <2>3. g = [s \in SUBSET D |-> g[s]]
      OBVIOUS
    <2> HIDE DEF g
    <2> QED
      BY <2>1, <2>2, <2>3 DEF RootFold, Up
  <1>7. PICK h : RootFold(h, c) /\ GetMerkleRoot(c) = h[D][1]
    BY <1>6, Zenon
       DEF GetMerkleRoot, Seqs!FoldLeft, Seqs!MapThenFoldSet, RootFold, Largest
  <1> DEFINE G == {j \in 0..n : \A s \in SUBSET D : Cardinality(s) = j => h[s] = lev[j]}
  <1>8. Upward(G, n)
    <2>1. ASSUME NEW s \in SUBSET D, Cardinality(s) = 0 PROVE h[s] = lev[0]
      <3>1. SUFFICES ASSUME s # {} PROVE FALSE
        BY <1>5, <1>7, <2>1 DEF RootFold
      <3>2. 0 \in 1..n
        BY <1>3, <2>1, <3>1
      <3> QED
        BY <1>1, <3>2
    <2>2. ASSUME NEW j \in 1..n, j - 1 \in G, NEW s \in SUBSET D, Cardinality(s) = j
          PROVE  h[s] = lev[j]
      <3>1. s # {}
        <4>1. Cardinality({}) = 0 /\ j # 0
          BY FS_EmptySet
        <4> QED
          BY <2>2, <4>1
      <3>2. h[s] = Up(h[s \ {Largest(s)}])
        BY <1>7, <3>1 DEF RootFold, Up
      <3>3. h[s \ {Largest(s)}] = lev[j - 1]
        BY <1>3, <2>2, <3>1
      <3> QED
        BY <2>2, <3>2, <3>3 DEF Levels
    <2> QED
      BY <1>1, <2>1, <2>2 DEF Upward
  <1>9. n \in G
    <2> HIDE DEF G
    <2>1. 0..n \subseteq G
      BY <1>1, <1>8, LevelByLevel
    <2> QED
      BY <1>1, <2>1
  <1>10. D \in SUBSET D /\ Cardinality(D) = n
    BY <1>1, IndexSets
  <1>11. h[D] = lev[n]
    BY <1>9, <1>10
  <1> QED
    BY <1>7, <1>11

-----------------------------------------------------------------------------
(* Levels that stay apart *)

\* A level that the loop can be at.
IsLevel(h) == IsSequence(h) /\ Len(h) \in Nat /\ Len(h) > 0

\* x is a level over a chain and y the level over the chain with one entry more:
\* they end in different hashes, and x does not begin with the hash above y.
Apart(x, y) ==
    /\ IsLevel(x) /\ IsLevel(y)
    /\ Len(y) = Len(x) \/ Len(y) = Len(x) + 1
    /\ x[Len(x)] # y[Len(y)]
    /\ Len(y) > 1 => x[1] # MerkleLevel(y)[1]

\* A function on 1..k is a sequence of length k.
LEMMA FunctionIsSequence ==
    ASSUME NEW k \in Nat, NEW S, NEW m \in [1..k -> S]
    PROVE  IsSequence(m) /\ Len(m) = k
  <1>1. m \in Seq(S) /\ Len(m) = k
    OBVIOUS
  <1> QED
    BY <1>1 DEF IsSequence

\* The length and the two ends of the next level.
LEMMA NextLevel ==
    ASSUME NEW h, IsLevel(h)
    PROVE  LET n == Len(h)
               m == MerkleLevel(h) IN
           /\ IsLevel(m) /\ Len(m) = (n + 1) \div 2
           /\ m[1] = <<"node", h[1], IF 2 <= n THEN h[2] ELSE h[1]>>
           /\ n % 2 = 0 => m[Len(m)] = <<"node", h[n - 1], h[n]>>
           /\ n % 2 = 1 => m[Len(m)] = <<"node", h[n], h[n]>>
  <1> DEFINE n == Len(h)
             k == (n + 1) \div 2
             m == MerkleLevel(h)
             Item(i) == <<"node", h[2 * i - 1], IF 2 * i <= n THEN h[2 * i] ELSE h[2 * i - 1]>>
  <1>1. n \in Nat /\ n > 0 /\ k \in Nat /\ k > 0
    BY DEF IsLevel
  <1>2. m = [i \in 1..k |-> Item(i)]
    BY DEF MerkleLevel
  <1>3. IsSequence(m) /\ Len(m) = k
    <2> DEFINE S == {Item(i) : i \in 1..k}
    <2>1. m \in [1..k -> S]
      <3> HIDE DEF Item, k, m
      <3> QED
        BY <1>2
    <2> HIDE DEF S, k, m
    <2> QED
      BY <1>1, <2>1, FunctionIsSequence
  <1>4. m[1] = Item(1) /\ m[k] = Item(k)
    <2>1. 1 \in 1..k /\ k \in 1..k
      BY <1>1
    <2> HIDE DEF Item, k, n, m
    <2> QED
      BY <1>2, <2>1
  <1>5. n % 2 = 0 => 2 * k = n
    BY <1>1
  <1>6. n % 2 = 1 => 2 * k = n + 1
    BY <1>1
  <1>7. Item(1) = <<"node", h[1], IF 2 <= n THEN h[2] ELSE h[1]>>
    OBVIOUS
  <1>8. n % 2 = 0 => Item(k) = <<"node", h[n - 1], h[n]>>
    <2> HIDE DEF k
    <2> QED
      BY <1>1, <1>5
  <1>9. n % 2 = 1 => Item(k) = <<"node", h[n], h[n]>>
    <2>1. ASSUME n % 2 = 1 PROVE 2 * k - 1 = n /\ ~(2 * k <= n)
      BY <1>1, <1>6, <2>1
    <2> HIDE DEF k
    <2> QED
      BY <2>1
  <1>10. IsLevel(m)
    <2> HIDE DEF k, m
    <2> QED
      BY <1>1, <1>3 DEF IsLevel
  <1> QED
    BY <1>3, <1>4, <1>7, <1>8, <1>9, <1>10

\* Levels over the two chains stay apart.
LEMMA UpStaysApart ==
    ASSUME NEW x, NEW y, Apart(x, y)
    PROVE  Apart(Up(x), Up(y))
  <1> DEFINE a == Len(x)
             b == Len(y)
             u == MerkleLevel(x)
             v == MerkleLevel(y)
  <1>1. /\ IsLevel(x) /\ IsLevel(y)
        /\ a \in Nat /\ b \in Nat /\ a > 0 /\ b > 0
        /\ b = a \/ b = a + 1
        /\ x[a] # y[b]
        /\ b > 1 => x[1] # v[1]
    BY DEF Apart, IsLevel
  <1>2. /\ IsLevel(u) /\ Len(u) = (a + 1) \div 2
        /\ u[1] = <<"node", x[1], IF 2 <= a THEN x[2] ELSE x[1]>>
        /\ a % 2 = 0 => u[Len(u)] = <<"node", x[a - 1], x[a]>>
        /\ a % 2 = 1 => u[Len(u)] = <<"node", x[a], x[a]>>
    BY <1>1, NextLevel
  <1>3. /\ IsLevel(v) /\ Len(v) = (b + 1) \div 2
        /\ v[1] = <<"node", y[1], IF 2 <= b THEN y[2] ELSE y[1]>>
        /\ b % 2 = 0 => v[Len(v)] = <<"node", y[b - 1], y[b]>>
        /\ b % 2 = 1 => v[Len(v)] = <<"node", y[b], y[b]>>
    BY <1>1, NextLevel
  <1>4. Up(x) = (IF a > 1 THEN u ELSE x) /\ Up(y) = (IF b > 1 THEN v ELSE y)
    BY DEF Up
  <1> HIDE DEF u, v
  <1>5. CASE b = 1
    <2>1. Up(x) = x /\ Up(y) = y
      BY <1>1, <1>5, <1>4
    <2> QED
      BY <2>1
  <1>6. CASE b = 2 /\ a = 1
    <2>1. Up(x) = x /\ Up(y) = v /\ Len(v) = 1
      BY <1>3, <1>6, <1>4
    <2>2. x[1] # v[1]
      BY <1>1, <1>6
    <2>3. IsLevel(x) /\ IsLevel(v) /\ Len(x) = 1
      BY <1>1, <1>3, <1>6
    <2>4. Apart(x, v)
      BY <2>1, <2>2, <2>3 DEF Apart
    <2> QED
      BY <2>1, <2>4
  <1>7. CASE a > 1
    <2>1. Up(x) = u /\ Up(y) = v
      BY <1>1, <1>7, <1>4
    <2>2. Len(v) = Len(u) \/ Len(v) = Len(u) + 1
      <3> HIDE DEF a, b
      <3>1. (b + 1) \div 2 = (a + 1) \div 2 \/ (b + 1) \div 2 = (a + 1) \div 2 + 1
        BY <1>1
      <3> QED
        BY <1>2, <1>3, <3>1
    <2>3. u[Len(u)] # v[Len(v)]
      <3>1. (a % 2 = 0 \/ a % 2 = 1) /\ (b % 2 = 0 \/ b % 2 = 1)
        BY <1>1
      <3>2. u[Len(u)][3] = x[a]
        BY <1>2, <3>1
      <3>3. v[Len(v)][3] = y[b]
        BY <1>3, <3>1
      <3> QED
        BY <1>1, <3>2, <3>3
    <2>4. u[1] # MerkleLevel(v)[1]
      <3>1. u[1][2] = x[1]
        BY <1>2
      <3>2. MerkleLevel(v)[1][2] = v[1]
        <4>1. IsLevel(v)
          BY <1>3
        <4>2. MerkleLevel(v)[1] = <<"node", v[1], IF 2 <= Len(v) THEN v[2] ELSE v[1]>>
          BY <4>1, NextLevel
        <4> QED
          BY <4>2
      <3> QED
        BY <1>1, <1>7, <3>1, <3>2
    <2> QED
      BY <1>2, <1>3, <2>1, <2>2, <2>3, <2>4 DEF Apart
  <1>8. b = 1 \/ (b = 2 /\ a = 1) \/ a > 1
    <2> HIDE DEF a, b
    <2> QED
      BY <1>1
  <1> QED
    BY <1>5, <1>6, <1>7, <1>8

\* The loop runs often enough to end at one hash.
LEMMA LoopEnds ==
    ASSUME NEW leaves, IsLevel(leaves), NEW n \in Nat, Len(leaves) <= n,
           NEW lev, Levels(lev, leaves, n)
    PROVE  /\ \A j \in 0..n : IsLevel(lev[j]) /\ (Len(lev[j]) = 1 \/ Len(lev[j]) + j <= n)
           /\ Len(lev[n]) = 1
  <1> DEFINE G == {j \in 0..n : IsLevel(lev[j]) /\ (Len(lev[j]) = 1 \/ Len(lev[j]) + j <= n)}
  <1>1. 0 \in G
    BY DEF Levels, IsLevel
  <1>2. ASSUME NEW j \in 1..n, j - 1 \in G PROVE j \in G
    <2> DEFINE h == lev[j - 1]
               k == Len(h)
               m == Len(lev[j])
    <2>1. /\ IsLevel(h) /\ k \in Nat /\ k > 0
          /\ k = 1 \/ k + (j - 1) <= n
          /\ lev[j] = IF k > 1 THEN MerkleLevel(h) ELSE h
      BY <1>2 DEF IsLevel, Levels, Up
    <2>2. k > 1 => IsLevel(lev[j]) /\ m = (k + 1) \div 2
      BY <2>1, NextLevel
    <2>3. k = 1 => IsLevel(lev[j]) /\ m = 1
      BY <2>1
    <2> HIDE DEF h, k, m
    <2>4. CASE k = 1
      BY <2>3, <2>4 DEF m
    <2>5. CASE k > 1
      <3>1. m + j <= n
        BY <2>1, <2>2, <2>5
      <3> QED
        BY <2>2, <2>5, <3>1 DEF m
    <2> QED
      BY <2>1, <2>4, <2>5
  <1>3. Upward(G, n)
    BY <1>1, <1>2 DEF Upward
  <1>4. 0..n \subseteq G
    <2> HIDE DEF G
    <2> QED
      BY <1>3, LevelByLevel
  <1>5. Len(lev[n]) = 1
    <2>1. n \in G
      BY <1>4
    <2> QED
      BY <2>1 DEF IsLevel
  <1> QED
    BY <1>4, <1>5

\* A chain and the chain with one entry more have different roots, if the new hash is
\* not the last one.
LEMMA RootChanges ==
    ASSUME NEW c, IsSequence(c), c # <<>>, NEW e,
           IsHash(c[1].hash), e.hash # c[Len(c)].hash
    PROVE  GetMerkleRoot(Append(c, e)) # GetMerkleRoot(c)
  <1> DEFINE n == Len(c)
             d == Append(c, e)
             x == [i \in 1..Len(c) |-> c[i].hash]
             y == [i \in 1..Len(d) |-> d[i].hash]
  <1>1. /\ n \in Nat /\ n > 0 /\ Len(d) = n + 1 /\ d # <<>>
        /\ \A i \in 1..n : d[i] = c[i]
        /\ d[n + 1] = e /\ n + 1 \in Nat
    <2>1. n > 0
      BY DEF IsSequence
    <2> QED
      BY <2>1, AppendItem
  <1> HIDE DEF n, d
  <1>2. IsLevel(x) /\ Len(x) = n /\ x[n] = c[n].hash /\ x[1] = c[1].hash
    <2>1. x \in [1..n -> {c[i].hash : i \in 1..n}]
      BY <1>1 DEF n
    <2>2. x[n] = c[n].hash /\ x[1] = c[1].hash
      BY <1>1 DEF n
    <2> HIDE DEF x
    <2>3. IsSequence(x) /\ Len(x) = n
      BY <1>1, <2>1, FunctionIsSequence
    <2> QED
      BY <1>1, <2>2, <2>3 DEF IsLevel
  <1>3. IsLevel(y) /\ Len(y) = n + 1 /\ y[n + 1] = e.hash /\ y[1] = c[1].hash
    <2>1. y \in [1..(n + 1) -> {d[i].hash : i \in 1..(n + 1)}]
      BY <1>1
    <2>2. y[n + 1] = e.hash /\ y[1] = c[1].hash
      BY <1>1
    <2> HIDE DEF y
    <2>3. IsSequence(y) /\ Len(y) = n + 1
      <3>1. n + 1 \in Nat
        BY <1>1
      <3> QED
        BY <2>1, <3>1, FunctionIsSequence
    <2> QED
      BY <1>1, <2>2, <2>3 DEF IsLevel
  <1> HIDE DEF x, y
  <1>4. Apart(x, y)
    <2>1. MerkleLevel(y)[1][1] = "node"
      <3>1. MerkleLevel(y)[1] = <<"node", y[1], IF 2 <= Len(y) THEN y[2] ELSE y[1]>>
        BY <1>3, NextLevel
      <3> QED
        BY <3>1
    <2>2. x[1][1] = "entry" /\ "entry" # "node"
      BY <1>2 DEF IsHash
    <2>3. x[1] # MerkleLevel(y)[1]
      BY <2>1, <2>2
    <2> QED
      BY <1>1, <1>2, <1>3, <2>3 DEF Apart, n
  <1>5. n + 1 \in Nat
    BY <1>1
  <1>6. PICK lx : Levels(lx, x, n + 1)
    BY <1>5, LevelsExist
  <1>7. PICK ly : Levels(ly, y, n + 1)
    BY <1>5, LevelsExist
  <1>8. Levels(lx, x, n)
    BY <1>1, <1>6 DEF Levels
  <1>9. Len(lx[n]) = 1 /\ lx[n + 1] = lx[n]
    <2>1. Len(lx[n]) = 1
      BY <1>1, <1>2, <1>8, LoopEnds
    <2>2. lx[n + 1] = Up(lx[n])
      BY <1>1, <1>6 DEF Levels
    <2> QED
      BY <2>1, <2>2 DEF Up
  <1>10. Len(ly[n + 1]) = 1
    BY <1>1, <1>3, <1>7, LoopEnds
  <1> DEFINE G == {j \in 0..(n + 1) : Apart(lx[j], ly[j])}
  <1>11. Apart(lx[n + 1], ly[n + 1])
    <2>1. 0 \in G
      BY <1>1, <1>4, <1>6, <1>7 DEF Levels
    <2>2. ASSUME NEW j \in 1..(n + 1), j - 1 \in G PROVE j \in G
      <3>1. lx[j] = Up(lx[j - 1]) /\ ly[j] = Up(ly[j - 1]) /\ Apart(lx[j - 1], ly[j - 1])
        BY <1>6, <1>7, <2>2 DEF Levels
      <3> QED
        BY <3>1, UpStaysApart
    <2>3. Upward(G, n + 1)
      BY <2>1, <2>2 DEF Upward
    <2>4. 0..(n + 1) \subseteq G
      <3> HIDE DEF G
      <3> QED
        BY <1>1, <2>3, LevelByLevel
    <2> QED
      BY <1>1, <2>4
  <1>12. lx[n + 1][1] # ly[n + 1][1]
    BY <1>9, <1>10, <1>11 DEF Apart
  <1>13. GetMerkleRoot(c) = lx[n][1]
    BY <1>1, <1>8, RootOfLevels DEF x, n
  <1>14. GetMerkleRoot(d) = ly[n + 1][1]
    BY <1>1, <1>7, RootOfLevels DEF y
  <1> QED
    BY <1>9, <1>12, <1>13, <1>14 DEF d

-----------------------------------------------------------------------------
(* The index in the last hash *)

\* The last hash of c is of an entry before index n, or of a genesis entry.
EndsBefore(c, n) ==
    LET h == c[Len(c)].hash IN
    h[2] = n - 1 \/ (n = 0 /\ h[4] = Zero)

\* Rows hash their own index; a process goes on after the index it hashed last.
HashesNumbered ==
    /\ \A i \in DOMAIN db : db[i].hash[2] = i
    /\ \A p \in Proc : up[p] => EndsBefore(chain[p], nextIndex[p])

\* A row that hashes its own index keeps the table that way.
LEMMA RowsStayNumbered ==
    ASSUME HashesNumbered, NEW p, NEW e, NEW fails, e.hash[2] = e.idx, PersistEntry(p, e, fails)
    PROVE  \A i \in DOMAIN db' : db'[i].hash[2] = i
  <1> SUFFICES ASSUME NEW i \in DOMAIN db' PROVE db'[i].hash[2] = i
    OBVIOUS
  <1>1. CASE i \in DOMAIN db
    BY <1>1, PersistedRows DEF HashesNumbered
  <1>2. CASE i \notin DOMAIN db
    BY <1>2, PersistedRows
  <1> QED
    BY <1>1, <1>2

\* The fields of a hash.
LEMMA HashFields ==
    ASSUME NEW i, NEW b, NEW prev
    PROVE  /\ CalculateHash(i, b, prev)[1] = "entry"
           /\ CalculateHash(i, b, prev)[2] = i
           /\ CalculateHash(i, b, prev)[4] = prev
  BY DEF CalculateHash

\* The hash that appendLog adds is not the one it is added to.
LEMMA NewHashIsNew ==
    ASSUME AuditInv, HashesNumbered, NEW p \in Proc, up[p], NEW b
    PROVE  LET c == chain[p]
               e == NewEntry(c, nextIndex[p], b) IN
           /\ IsSequence(c) /\ c # <<>> /\ IsHash(c[1].hash)
           /\ e.idx = nextIndex[p] /\ e.hash[2] = nextIndex[p]
           /\ e.hash # c[Len(c)].hash
  <1> DEFINE c == chain[p]
             n == nextIndex[p]
             e == NewEntry(c, n, b)
             h == c[Len(c)].hash
  <1>1. /\ IsSequence(c) /\ c # <<>> /\ n \in Nat /\ Len(c) \in Nat /\ Len(c) > 0
        /\ \A i \in 1..Len(c) : IsHash(c[i].hash)
    <2>1. IsSequence(c) /\ n \in Nat /\ ChainSound(c, loaded[p])
      BY DEF AuditInv, ChainTypes, ProcessTypes, ChainsSound
    <2>2. Len(c) \in Nat /\ (c # <<>> => Len(c) > 0)
      BY <2>1 DEF IsSequence
    <2> QED
      BY <2>1, <2>2 DEF ChainSound
  <1>2. IsHash(c[1].hash) /\ IsHash(h)
    <2>1. 1 \in 1..Len(c) /\ Len(c) \in 1..Len(c)
      BY <1>1
    <2> QED
      BY <1>1, <2>1
  <1>3. e.idx = n /\ e.hash = CalculateHash(n, e.body, h)
    BY <1>1, NewEntryHangsOn
  <1>4. e.hash[2] = n /\ e.hash[4] = h
    BY <1>3, HashFields
  <1>5. EndsBefore(c, n)
    BY DEF HashesNumbered
  <1> HIDE DEF e
  <1>6. e.hash # h
    <2>1. CASE h[2] = n - 1
      <3>1. n # n - 1
        BY <1>1
      <3> QED
        BY <1>4, <2>1, <3>1
    <2>2. CASE h[4] = Zero
      <3>1. h[1] = "entry" /\ Zero[1] = "zero" /\ "entry" # "zero"
        BY <1>2 DEF IsHash, Zero
      <3>2. h # Zero
        BY <3>1
      <3> QED
        BY <1>4, <2>2, <3>2
    <2> QED
      BY <1>5, <2>1, <2>2 DEF EndsBefore
  <1> QED
    BY <1>1, <1>2, <1>3, <1>4, <1>6 DEF e

\* An appended entry is followed by the next index.
LEMMA AppendNumbers ==
    ASSUME AuditInv, HashesNumbered, NEW p \in Proc, NEW b \in Body, NEW fails,
           AppendLog(p, b, fails)
    PROVE  HashesNumbered'
  <1> DEFINE e == NewEntry(chain[p], nextIndex[p], b)
  <1>1. /\ up[p] /\ up' = up /\ PersistEntry(p, e, fails)
        /\ chain' = [chain EXCEPT ![p] = Append(chain[p], e)]
        /\ nextIndex' = [nextIndex EXCEPT ![p] = nextIndex[p] + 1]
    BY DEF AppendLog
  <1>2. IsSequence(chain[p]) /\ e.idx = nextIndex[p] /\ e.hash[2] = nextIndex[p]
    BY <1>1, NewHashIsNew
  <1> HIDE DEF e
  <1>3. nextIndex[p] \in Nat
    BY DEF AuditInv, ProcessTypes
  <1>4. /\ chain'[p] = Append(chain[p], e) /\ nextIndex'[p] = nextIndex[p] + 1
        /\ \A q \in Proc : q # p => chain'[q] = chain[q] /\ nextIndex'[q] = nextIndex[q]
    BY <1>1 DEF AuditInv, ChainTypes, ProcessTypes
  <1>5. EndsBefore(chain'[p], nextIndex'[p])
    <2>1. chain'[p][Len(chain'[p])] = e
      BY <1>2, <1>4, AppendItem
    <2>2. nextIndex'[p] - 1 = nextIndex[p]
      BY <1>3, <1>4
    <2> QED
      BY <1>2, <2>1, <2>2 DEF EndsBefore
  <1>6. \A q \in Proc : up'[q] => EndsBefore(chain'[q], nextIndex'[q])
    BY <1>1, <1>4, <1>5 DEF HashesNumbered
  <1>7. \A i \in DOMAIN db' : db'[i].hash[2] = i
    BY <1>1, <1>2, RowsStayNumbered
  <1> QED
    BY <1>6, <1>7 DEF HashesNumbered

\* A start goes on after the last row, or begins with a genesis entry.
LEMMA BootNumbers ==
    ASSUME AuditInv, HashesNumbered, NEW p \in Proc, NEW b \in Body, NEW open \in BOOLEAN,
           NEW load \in BOOLEAN, NEW fails, Boot(p, b, open, load, fails)
    PROVE  HashesNumbered'
  <1> DEFINE rows == IF open /\ load THEN Rows ELSE <<>>
             g == Genesis(b)
  <1>1. /\ \A q \in Proc : q # p => up'[q] = up[q]
        /\ LoadChain(p, rows) \/ AppendGenesis(p, rows, b, fails)
    BY Started DEF Boot
  <1>2. CASE LoadChain(p, rows)
    <2> DEFINE last == Rows[Len(Rows)]
    <2>1. /\ Rows # <<>> /\ db' = db
          /\ chain' = [chain EXCEPT ![p] = Rows]
          /\ nextIndex' = [nextIndex EXCEPT ![p] = last.idx + 1]
      BY <1>2 DEF LoadChain
    <2>2. last.idx \in DOMAIN db /\ last.hash = db[last.idx].hash
      BY <2>1, LoadedRows DEF AuditInv
    <2>3. last.idx \in Nat /\ last.hash[2] = last.idx
      BY <2>2 DEF AuditInv, TableSound, IsEntry, HashesNumbered
    <2>4. /\ chain'[p] = Rows /\ nextIndex'[p] = last.idx + 1
          /\ \A q \in Proc : q # p => chain'[q] = chain[q] /\ nextIndex'[q] = nextIndex[q]
      BY <2>1 DEF AuditInv, ChainTypes, ProcessTypes
    <2>5. nextIndex'[p] - 1 = last.idx /\ chain'[p][Len(chain'[p])] = last
      BY <2>3, <2>4
    <2> HIDE DEF last
    <2>6. EndsBefore(chain'[p], nextIndex'[p])
      BY <2>3, <2>5 DEF EndsBefore
    <2> QED
      BY <1>1, <2>1, <2>4, <2>6 DEF HashesNumbered
  <1>3. CASE AppendGenesis(p, rows, b, fails)
    <2>1. /\ chain' = [chain EXCEPT ![p] = <<g>>]
          /\ nextIndex' = [nextIndex EXCEPT ![p] = 0]
          /\ PersistEntry(p, g, fails)
      BY <1>3 DEF AppendGenesis
    <2>2. g.idx = 0 /\ g.hash[2] = 0 /\ g.hash[4] = Zero
      <3> DEFINE x == <<"genesis, no details", b>>
      <3>1. g.idx = 0 /\ g.hash = CalculateHash(0, x, Zero)
        BY DEF Genesis
      <3> HIDE DEF g, x
      <3> QED
        BY <3>1, HashFields
    <2> HIDE DEF g
    <2>3. /\ chain'[p] = <<g>> /\ nextIndex'[p] = 0
          /\ \A q \in Proc : q # p => chain'[q] = chain[q] /\ nextIndex'[q] = nextIndex[q]
      BY <2>1 DEF AuditInv, ChainTypes, ProcessTypes
    <2>4. EndsBefore(chain'[p], nextIndex'[p])
      <3>1. chain'[p][Len(chain'[p])] = g
        BY <2>3
      <3> QED
        BY <2>2, <2>3, <3>1 DEF EndsBefore
    <2>5. \A i \in DOMAIN db' : db'[i].hash[2] = i
      BY <2>1, <2>2, RowsStayNumbered
    <2> QED
      BY <1>1, <2>3, <2>4, <2>5 DEF HashesNumbered
  <1> QED
    BY <1>1, <1>2, <1>3

\* A crash empties a chain of a process that no longer runs.
LEMMA CrashNumbers ==
    ASSUME AuditInv, HashesNumbered, NEW p \in Proc, Crash(p)
    PROVE  HashesNumbered'
  <1>1. /\ up' = [up EXCEPT ![p] = FALSE] /\ chain' = [chain EXCEPT ![p] = <<>>]
        /\ nextIndex' = [nextIndex EXCEPT ![p] = 0] /\ db' = db
    BY DEF Crash
  <1>2. ASSUME NEW q \in Proc, up'[q]
        PROVE  up[q] /\ chain'[q] = chain[q] /\ nextIndex'[q] = nextIndex[q]
    BY <1>1, <1>2 DEF AuditInv, ProcessTypes, ChainTypes
  <1> QED
    BY <1>1, <1>2 DEF HashesNumbered

\* The steps of a replica, one action at a time.
LEMMA ReplicaSteps ==
    ASSUME Next
    PROVE  \E p \in Proc :
              \/ \E b \in Body, open \in BOOLEAN, load \in BOOLEAN, fails \in BOOLEAN :
                     Boot(p, b, open, load, fails)
              \/ \E b \in Body, fails \in BOOLEAN : AppendLog(p, b, fails)
              \/ Crash(p)
  <1>1. PICK p \in Proc :
           \/ \E b \in Body, noDb \in MayFail("open"), noLoad \in MayFail("load"),
                 fails \in MayFail("persist") : Boot(p, b, ~noDb, ~noLoad, fails)
           \/ \E b \in Body, fails \in MayFail("persist") : AppendLog(p, b, fails)
           \/ Crash(p)
    BY DEF Next
  <1>2. \A f : MayFail(f) \subseteq BOOLEAN
    BY DEF MayFail
  <1>3. ASSUME NEW b \in Body, NEW noDb \in MayFail("open"), NEW noLoad \in MayFail("load"),
               NEW fails \in MayFail("persist"), Boot(p, b, ~noDb, ~noLoad, fails)
        PROVE  \E open \in BOOLEAN, load \in BOOLEAN, f \in BOOLEAN : Boot(p, b, open, load, f)
    <2>1. (~noDb) \in BOOLEAN /\ (~noLoad) \in BOOLEAN /\ fails \in BOOLEAN
      BY <1>2
    <2> QED
      BY <1>3, <2>1, Zenon
  <1>4. ASSUME NEW b \in Body, NEW fails \in MayFail("persist"), AppendLog(p, b, fails)
        PROVE  \E f \in BOOLEAN : AppendLog(p, b, f)
    BY <1>2, <1>4, Zenon
  <1> QED
    BY <1>1, <1>3, <1>4, Zenon

\* Every step keeps hashes numbered.
LEMMA NumberedStep == AuditInv /\ HashesNumbered /\ [Next]_vars => HashesNumbered'
  <1> SUFFICES ASSUME AuditInv, HashesNumbered, [Next]_vars PROVE HashesNumbered'
    OBVIOUS
  <1>1. CASE Next
    BY <1>1, ReplicaSteps, BootNumbers, AppendNumbers, CrashNumbers
  <1>2. CASE UNCHANGED vars
    BY <1>2 DEF vars, HashesNumbered
  <1> QED
    BY <1>1, <1>2

\* Hashes are numbered throughout.
LEMMA NumberedInvariance == Spec => []HashesNumbered
  <1>1. Init => HashesNumbered
    BY DEF Init, HashesNumbered
  <1> QED
    BY <1>1, NumberedStep, AuditInvariance, PTL DEF Spec

-----------------------------------------------------------------------------
(* The theorems *)

\* What a process appended itself always verifies; a reloaded chain fails at
\* its first link, whatever other processes, lost writes and crashes did.
THEOREM ReloadBreaksVerification == Spec => []VerifyOutcome
  <1>1. AuditInv => VerifyOutcome
    <2> SUFFICES ASSUME AuditInv, NEW p \in Proc, up[p]
                 PROVE  BrokenAtStep(chain[p]) = IF loaded[p] >= 2 THEN 1 ELSE 0
      BY DEF VerifyOutcome
    <2> DEFINE c == chain[p]
               n == loaded[p]
               bad == {i \in 2..Len(c) : ~StepVerifies(c, i)}
    <2>1. ChainSound(c, n) /\ n \in Nat
      BY DEF AuditInv, ChainsSound, ProcessTypes
    <2>2. Len(c) \in Nat
      BY DEF AuditInv, ChainTypes, IsSequence
    <2>3. CASE n < 2
      <3>1. bad = {}
        BY <2>1, <2>2, <2>3 DEF ChainSound
      <3> QED
        BY <2>1, <2>3, <3>1 DEF BrokenAtStep
    <2>4. CASE n >= 2
      <3>1. c[2].previousHash = Undefined /\ IsHash(c[1].hash) /\ 2 \in 2..Len(c)
        BY <2>1, <2>2, <2>4 DEF ChainSound
      <3>2. 2 \in bad
        BY <3>1, HashNotUndefined DEF StepVerifies
      <3>3. \A i \in bad : 2 <= i
        BY <2>2
      <3>4. (CHOOSE i \in bad : \A j \in bad : i <= j) = 2
        <4>1. \A i \in bad : i \in Int
          OBVIOUS
        <4> HIDE DEF bad
        <4>2. \E i \in bad : \A j \in bad : i <= j
          BY <3>2, <3>3
        <4>3. ASSUME NEW i \in bad, \A j \in bad : i <= j PROVE i = 2
          BY <3>2, <3>3, <4>1, <4>3
        <4> QED
          BY ONLY <4>2, <4>3, Zenon
      <3> QED
        BY <2>4, <3>2, <3>4 DEF BrokenAtStep
    <2> QED
      BY <2>1, <2>3, <2>4
  <1> QED
    BY <1>1, AuditInvariance, PTL

\* A lone process, in the sense of the properties.
LEMMA SingleIsSolo ==
    ASSUME AuditInv, Single
    PROVE  Solo
  <1> SUFFICES ASSUME NEW p \in writers, NEW q \in writers, p # q PROVE FALSE
    BY DEF Solo
  <1>1. IsFiniteSet(writers)
    BY DEF AuditInv, ProcessTypes
  <1>2. IsFiniteSet({p}) /\ Cardinality({p}) = 1
    BY FS_Singleton
  <1>3. Cardinality({p} \cup {q}) = 2
    BY <1>2, FS_AddElement
  <1>4. Cardinality({p} \cup {q}) <= Cardinality(writers)
    BY <1>1, FS_Subset
  <1>5. Cardinality(writers) \in Nat
    BY <1>1, FS_CardinalityType
  <1> QED
    BY <1>3, <1>4, <1>5 DEF Single

\* The rows a lone process leaves are linked, across crashes and lost writes.
THEOREM LoneRowsLinked == Spec => []RowsLinked
  <1>1. AuditInv => RowsLinked
    BY SingleIsSolo DEF RowsLinked, AuditInv, LoneWriterLinks, Linked
  <1> QED
    BY <1>1, AuditInvariance, PTL

\* What a lone process acknowledged, except at index 0, is in the table for good.
THEOREM AcknowledgedSurvives == Spec => []AckedIsDurableButFirst
  <1>1. AuditInv => AckedIsDurableButFirst
    BY SingleIsSolo DEF AckedIsDurableButFirst, AuditInv, Durable
  <1> QED
    BY <1>1, AuditInvariance, PTL

\* Adding an entry changes the Merkle root, however long the chain and however
\* often the last hash of a level is doubled.
THEOREM MerkleRootSound == Spec => MerkleRootChanges
  <1> DEFINE Changes == \A p \in Proc :
                 Len(chain'[p]) = Len(chain[p]) + 1 /\ up[p] =>
                     GetMerkleRoot(chain'[p]) # GetMerkleRoot(chain[p])
  <1>1. AuditInv /\ HashesNumbered /\ [Next]_vars => [Changes]_vars
    <2> SUFFICES ASSUME AuditInv, HashesNumbered, Next, NEW p \in Proc,
                        Len(chain'[p]) = Len(chain[p]) + 1, up[p]
                 PROVE  GetMerkleRoot(chain'[p]) # GetMerkleRoot(chain[p])
      OBVIOUS
    <2>1. Len(chain[p]) \in Nat /\ chain = [r \in Proc |-> chain[r]]
      BY DEF AuditInv, ChainTypes, IsSequence
    <2>2. PICK q \in Proc :
             \/ \E b \in Body, open \in BOOLEAN, load \in BOOLEAN, fails \in BOOLEAN :
                    Boot(q, b, open, load, fails)
             \/ \E b \in Body, fails \in BOOLEAN : AppendLog(q, b, fails)
             \/ Crash(q)
      BY ReplicaSteps
    <2>3. \E c : chain' = [chain EXCEPT ![q] = c]
      BY <2>2 DEF Boot, LoadChain, AppendGenesis, AppendLog, Crash
    <2>4. q = p
      <3>1. q # p => chain'[p] = chain[p]
        BY <2>1, <2>3
      <3> QED
        BY <2>1, <3>1
    <2>5. ~Crash(p)
      <3>1. Crash(p) => chain'[p] = <<>>
        BY <2>1 DEF Crash
      <3> QED
        BY <2>1, <3>1
    <2>6. PICK b \in Body, fails \in BOOLEAN : AppendLog(p, b, fails)
      BY <2>2, <2>4, <2>5 DEF Boot
    <2> DEFINE e == NewEntry(chain[p], nextIndex[p], b)
    <2>7. chain'[p] = Append(chain[p], e)
      BY <2>1, <2>6 DEF AppendLog
    <2>8. /\ IsSequence(chain[p]) /\ chain[p] # <<>> /\ IsHash(chain[p][1].hash)
          /\ e.hash # chain[p][Len(chain[p])].hash
      BY NewHashIsNew
    <2> HIDE DEF e
    <2> QED
      BY <2>7, <2>8, RootChanges
  <1> QED
    BY <1>1, AuditInvariance, NumberedInvariance, PTL DEF Spec, MerkleRootChanges

=============================================================================
