----------------------------- MODULE AuditChain -----------------------------
(***************************************************************************)
(* The audit trail of audit/audit_chain.ts: an in-memory hash chain per    *)
(* process and the SQLite table the processes share (k8s/deployment.yml    *)
(* runs three replicas on one volume).                                     *)
(*                                                                         *)
(* SHA-256 is modelled as an injective constructor: a hash is a tagged     *)
(* tuple of what was hashed.  The body of an entry stands for everything   *)
(* calculateHash covers besides the index and the previous hash            *)
(* (timestamp, action, actor, details).  The fields outside the hash       *)
(* (id, actorIp, signature) take part in no decision; id conflicts in the  *)
(* table only when idx does.                                               *)
(***************************************************************************)
EXTENDS Integers, Sequences, FiniteSets

Seqs == INSTANCE SequencesExt

CONSTANTS Proc,        \* server processes sharing ./data/audit_chain.db
          Body,        \* contents of log entries
          Faults,      \* which of "open", "load", "persist" may fail
          MaxEntries,  \* bound: distinct entries appendLog returns in a behaviour
          MaxBoots     \* bound: process starts in a behaviour

ASSUME FaultsAssumption == Faults \subseteq {"open", "load", "persist"}
ASSUME BoundsAssumption == MaxEntries \in Nat /\ MaxBoots \in Nat

VARIABLES
    db,         \* rows of audit_entries: a function from idx to a row
    up,         \* up[p]: the process runs
    hasDb,      \* hasDb[p]: the module variable db is not null
    chain,      \* memoryChain of p
    nextIndex,  \* nextIndex of p
    loaded,     \* how many entries of chain[p] came from the table
    acked,      \* entries appendLog returned to a caller
    boots,      \* process starts so far
    writers,    \* processes that have ever started
    past        \* faults that have happened

vars == <<db, up, hasDb, chain, nextIndex, loaded, acked, boots, writers, past>>

Zero == <<"zero">>              \* '0x0000000000000000'
Undefined == <<"undefined">>    \* a property the row object does not have

CalculateHash(idx, body, prev) == <<"entry", idx, body, prev>>

\* The entry appendGenesis pushes; its hash covers empty details, so the
\* body hashed is not the body stored.
Genesis(b) ==
    [idx |-> 0,
     body |-> <<"genesis", b>>,
     hash |-> CalculateHash(0, <<"genesis, no details", b>>, Zero),
     previousHash |-> Zero]

\* Mutant: every entry is linked to the first one.
NewEntry_LinksToFirst(c, idx, b) ==
    LET prev == IF c # <<>> THEN c[1].hash ELSE Zero IN
    [idx |-> idx,
     body |-> b,
     hash |-> CalculateHash(idx, b, prev),
     previousHash |-> prev]

\* The entry appendLog builds on the last entry of chain c.
NewEntry(c, idx, b) ==
    LET prev == IF c # <<>> THEN c[Len(c)].hash ELSE Zero IN
    [idx |-> idx,
     body |-> b,
     hash |-> CalculateHash(idx, b, prev),
     previousHash |-> prev]

\* INSERT OR IGNORE: a row whose idx is taken is dropped without an error.
Inserted(table, e) ==
    IF e.idx \in DOMAIN table
    THEN table
    ELSE [i \in DOMAIN table \cup {e.idx} |->
             IF i = e.idx THEN e ELSE table[i]]

\* persistEntry(entry); a failing statement is logged and forgotten.
PersistEntry(p, e, fails) ==
    db' = IF hasDb'[p] /\ ~fails THEN Inserted(db, e) ELSE db

\* SELECT * names the column previous_hash, so the objects it returns have
\* no property previousHash.
FromRow(r) == [r EXCEPT !.previousHash = Undefined]

\* ORDER BY idx: the order in which indices come, and all of them.
Ascending(order) ==
    \A i, j \in DOMAIN order : i < j => order[i] < order[j]

OrderByIdx(indices) ==
    CHOOSE order \in [1..Cardinality(indices) -> indices] : Ascending(order)

Rows == LET order == OrderByIdx(DOMAIN db)
        IN  [i \in DOMAIN order |-> FromRow(db[order[i]])]

-----------------------------------------------------------------------------
Init ==
    /\ db = <<>>
    /\ up = [p \in Proc |-> FALSE]
    /\ hasDb = [p \in Proc |-> FALSE]
    /\ chain = [p \in Proc |-> <<>>]
    /\ nextIndex = [p \in Proc |-> 0]
    /\ loaded = [p \in Proc |-> 0]
    /\ acked = {}
    /\ boots = 0
    /\ writers = {}
    /\ past = {}

\* Mutant: nextIndex is the index of the last row.
LoadChain_NoIncrement(p, rows) ==
    /\ rows # <<>>
    /\ chain' = [chain EXCEPT ![p] = rows]
    /\ nextIndex' = [nextIndex EXCEPT ![p] = rows[Len(rows)].idx]
    /\ loaded' = [loaded EXCEPT ![p] = Len(rows)]
    /\ UNCHANGED db

\* initChain() finds rows: they become the chain.
LoadChain(p, rows) ==
    /\ rows # <<>>
    /\ chain' = [chain EXCEPT ![p] = rows]
    /\ nextIndex' = [nextIndex EXCEPT ![p] = rows[Len(rows)].idx + 1]
    /\ loaded' = [loaded EXCEPT ![p] = Len(rows)]
    /\ UNCHANGED db

\* initChain() finds none: appendGenesis(), which leaves nextIndex at 0.
AppendGenesis(p, rows, b, fails) ==
    /\ rows = <<>>
    /\ chain' = [chain EXCEPT ![p] = <<Genesis(b)>>]
    /\ nextIndex' = [nextIndex EXCEPT ![p] = 0]
    /\ loaded' = [loaded EXCEPT ![p] = 0]
    /\ PersistEntry(p, Genesis(b), fails)

\* The module is imported: the table is opened or not, loadFromDB returns
\* the rows, or none when it throws.
Boot(p, b, open, load, fails) ==
    /\ ~up[p]
    /\ boots < MaxBoots
    /\ boots' = boots + 1
    /\ up' = [up EXCEPT ![p] = TRUE]
    /\ hasDb' = [hasDb EXCEPT ![p] = open]
    /\ LET rows == IF open /\ load THEN Rows ELSE <<>> IN
         LoadChain(p, rows) \/ AppendGenesis(p, rows, b, fails)
    /\ writers' = writers \cup {p}
    /\ past' = past \cup (IF open THEN {} ELSE {"open"})
                    \cup (IF load THEN {} ELSE {"load"})
                    \cup (IF fails THEN {"persist"} ELSE {})
    /\ UNCHANGED acked

\* appendLog(action, actor, details): push, persist, nextIndex++.
AppendLog(p, b, fails) ==
    /\ up[p]
    /\ Cardinality(acked) < MaxEntries
    /\ LET e == NewEntry(chain[p], nextIndex[p], b) IN
         /\ chain' = [chain EXCEPT ![p] = Append(@, e)]
         /\ UNCHANGED hasDb
         /\ PersistEntry(p, e, fails)
         /\ acked' = acked \cup {e}
    /\ nextIndex' = [nextIndex EXCEPT ![p] = @ + 1]
    /\ past' = IF fails THEN past \cup {"persist"} ELSE past
    /\ UNCHANGED <<up, loaded, boots, writers>>

\* The process ends; only the table survives.
Crash(p) ==
    /\ up[p]
    /\ up' = [up EXCEPT ![p] = FALSE]
    /\ chain' = [chain EXCEPT ![p] = <<>>]
    /\ nextIndex' = [nextIndex EXCEPT ![p] = 0]
    /\ loaded' = [loaded EXCEPT ![p] = 0]
    /\ UNCHANGED <<db, hasDb, acked, boots, writers, past>>

MayFail(f) == IF f \in Faults THEN BOOLEAN ELSE {FALSE}

Next ==
    \E p \in Proc :
        \/ \E b \in Body, noDb \in MayFail("open"), noLoad \in MayFail("load"),
              fails \in MayFail("persist") :
               Boot(p, b, ~noDb, ~noLoad, fails)
        \/ \E b \in Body, fails \in MayFail("persist") : AppendLog(p, b, fails)
        \/ Crash(p)

Spec == Init /\ [][Next]_vars

-----------------------------------------------------------------------------
(* Queries *)

\* Entry i (from 1 up) passes both comparisons of verifyChainIntegrity.
StepVerifies(c, i) ==
    /\ c[i].previousHash = c[i - 1].hash
    /\ c[i].hash = CalculateHash(c[i].idx, c[i].body, c[i].previousHash)

\* verifyChainIntegrity().brokenAtStep; 0 when the chain is valid.  The
\* first entry is never checked.
BrokenAtStep(c) ==
    LET bad == {i \in 2..Len(c) : ~StepVerifies(c, i)} IN
    IF bad = {} THEN 0 ELSE (CHOOSE i \in bad : \A j \in bad : i <= j) - 1

\* Mutant: an unpaired hash is dropped.
MerkleLevel_DropsOdd(h) ==
    [i \in 1..(Len(h) \div 2) |-> <<"node", h[2 * i - 1], h[2 * i]>>]

\* One level of getMerkleRoot: pairs, the last one doubled if it is alone.
MerkleLevel(h) ==
    [i \in 1..((Len(h) + 1) \div 2) |->
        LET left == h[2 * i - 1] IN
        <<"node", left, IF 2 * i <= Len(h) THEN h[2 * i] ELSE left>>]

GetMerkleRoot(c) ==
    IF c = <<>> THEN Zero
    ELSE LET leaves == [i \in 1..Len(c) |-> c[i].hash]
             Up(h, i) == IF Len(h) > 1 THEN MerkleLevel(h) ELSE h
         IN  Seqs!FoldLeft(Up, leaves, [i \in 1..Len(c) |-> i])[1]

-----------------------------------------------------------------------------
(* Properties *)

\* verifyChainIntegrity() tells a chain built since the process started from
\* a reloaded one, and nothing else: it reports a break, at the first
\* reloaded link, exactly when two or more rows came from the table.  What a
\* process appends itself always verifies, whatever the other replicas, lost
\* writes and earlier crashes did.
VerifyOutcome ==
    \A p \in Proc :
        up[p] => BrokenAtStep(chain[p]) = IF loaded[p] >= 2 THEN 1 ELSE 0

Single == Cardinality(writers) <= 1

\* As long as one process uses the table and it works, an acknowledged entry
\* other than the very first (index 0, which collides with the genesis row)
\* is durable, through every crash and restart.
AckedIsDurableButFirst ==
    Single /\ past = {} =>
        \A e \in acked : e.idx # 0 => e.idx \in DOMAIN db /\ db[e.idx] = e

\* As long as one process uses the table and its reads work, neighbouring rows
\* after the first are linked by their hashes, across crashes, lost writes and
\* runs without the table: only the link to the genesis row may be missing.
RowsLinked ==
    Single /\ "load" \notin past => \A i \in DOMAIN db : i >= 1 /\ i + 1 \in DOMAIN db =>
        db[i + 1].previousHash = db[i].hash

\* "Adding an entry must change the Merkle root": doubling an unpaired leaf
\* never makes two successive chains collide.
MerkleRootChanges ==
    [][\A p \in Proc :
          Len(chain'[p]) = Len(chain[p]) + 1 /\ up[p] =>
              GetMerkleRoot(chain'[p]) # GetMerkleRoot(chain[p])]_vars

=============================================================================
