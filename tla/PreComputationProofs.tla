------------------------ MODULE PreComputationProofs ------------------------
(***************************************************************************)
(* Proofs that, for every number of workers, stop() calls and messages and *)
(* for every batch size, queue bound and number of batches, the engine     *)
(* never lets a nonce sign two messages and implements NoncePool.          *)
(***************************************************************************)
EXTENDS PreComputation, FiniteSetTheorems, TLAPS

-----------------------------------------------------------------------------
(* The inductive invariant *)

\* Batches in the ports and tuples anywhere come from batches already made.
Known ==
    /\ \A w \in Worker : \A i \in DOMAIN port[w] : port[w][i] < nextBatch
    /\ \A t \in Queued \cup held \cup released : t[1] < nextBatch

\* A batch is in one port, once.
PortsDistinct ==
    \A v, w \in Worker : \A i \in DOMAIN port[v], j \in DOMAIN port[w] :
        port[v][i] = port[w][j] => v = w /\ i = j

\* A batch still in a port has no tuple in the engine or with a caller.
PortsUnseen ==
    \A w \in Worker : \A i \in DOMAIN port[w] :
        \A t \in Queued \cup held \cup released : t[1] # port[w][i]

\* The queue holds no tuple twice.
QueueDistinct ==
    \A i, j \in DOMAIN queue : queue[i] = queue[j] => i = j

\* A tuple that signed was consumed and is released.
SignedAreDead ==
    \A p \in sigs : p[1] \in held \cap released

IInv ==
    /\ TypeOK
    /\ Known
    /\ PortsDistinct
    /\ PortsUnseen
    /\ QueueBounded
    /\ QueueDistinct
    /\ QueuedAreLive
    /\ SignedAreDead
    /\ NonceSignsOnce

-----------------------------------------------------------------------------
(* What the queue operations do to the queue's contents *)

\* shift() moves every element one place forward.
LEMMA TailContents ==
    ASSUME NEW S, NEW s \in Seq(S), s # <<>>, NEW i \in DOMAIN Tail(s)
    PROVE  i + 1 \in DOMAIN s /\ Tail(s)[i] = s[i + 1]
  OBVIOUS

\* Appending t to s keeps the elements of s in place and adds those of t.
LEMMA ConcatContents ==
    ASSUME NEW S, NEW s \in Seq(S), NEW t \in Seq(S), NEW i \in DOMAIN (s \o t)
    PROVE  \/ i \in DOMAIN s /\ (s \o t)[i] = s[i]
           \/ /\ i \notin DOMAIN s
              /\ i - Len(s) \in 1..Len(t)
              /\ (s \o t)[i] = t[i - Len(s)]
  OBVIOUS

\* ingestBatch accepts a prefix of the batch, within the queue bound.
LEMMA AcceptedPrefix ==
    ASSUME NEW b \in Nat, TypeOK, QueueBounded
    PROVE  /\ Accepted(b) \in Seq(Tuple)
           /\ Len(Accepted(b)) <= BatchSize
           /\ Len(queue) + Len(Accepted(b)) <= QueueMaxSize
           /\ \A i \in 1..Len(Accepted(b)) : Accepted(b)[i] = <<b, i>>
  <1> DEFINE n == Lesser(BatchSize, QueueMaxSize - Len(queue))
  <1>1. /\ n \in Nat
        /\ n <= BatchSize
        /\ Len(queue) + n <= QueueMaxSize
    BY BatchSizeAssumption, QueueMaxSizeAssumption DEF TypeOK, QueueBounded, Lesser
  <1>2. Batch(b) \in Seq(Tuple) /\ Len(Batch(b)) = BatchSize
    BY BatchSizeAssumption DEF Batch, Tuple
  <1>3. CASE isRunning
    <2>1. Accepted(b) = SubSeq(Batch(b), 1, n)
      BY <1>3 DEF Accepted
    <2>2. /\ SubSeq(Batch(b), 1, n) \in Seq(Tuple)
          /\ Len(SubSeq(Batch(b), 1, n)) = n
          /\ \A i \in 1..n : SubSeq(Batch(b), 1, n)[i] = Batch(b)[i]
      BY <1>1, <1>2
    <2>3. \A i \in 1..n : Batch(b)[i] = <<b, i>>
      BY <1>1, BatchSizeAssumption DEF Batch
    <2> QED
      BY <1>1, <2>1, <2>2, <2>3
  <1>4. CASE ~isRunning
    <2>1. Accepted(b) = <<>>
      BY <1>4 DEF Accepted
    <2> QED
      BY <2>1, BatchSizeAssumption DEF TypeOK, QueueBounded
  <1> QED
    BY <1>3, <1>4 DEF TypeOK

-----------------------------------------------------------------------------
(* Type correctness *)

\* Every step of the engine, its workers and its callers keeps the types.
LEMMA TypeStep == TypeOK /\ QueueBounded /\ [Next]_vars => TypeOK'
  <1> SUFFICES ASSUME TypeOK, QueueBounded, [Next]_vars
               PROVE  TypeOK'
    OBVIOUS
  <1> USE DEF TypeOK
  <1>1. ASSUME NEW new \in SUBSET Worker, Start(new) PROVE TypeOK'
    BY <1>1 DEF Start, stops, callers
  <1>2. ASSUME NEW c \in StopCall, StopBegin(c) PROVE TypeOK'
    BY <1>2 DEF StopBegin, callers
  <1>3. ASSUME NEW c \in StopCall, StopFinish(c) PROVE TypeOK'
    BY <1>3 DEF StopFinish, ZeroizeQueue, Queued, threads
  <1>4. ASSUME NEW c \in StopCall, NEW w \in Worker, StopTimeout(c, w)
        PROVE  TypeOK'
    BY <1>4 DEF StopTimeout, engine, threads, callers
  <1>5. ASSUME NEW w \in Worker, GenerateBatch(w) PROVE TypeOK'
    BY <1>5 DEF GenerateBatch, engine, stops, callers
  <1>6. ASSUME NEW w \in Worker, WorkerStop(w) \/ WorkerCrash(w) PROVE TypeOK'
    BY <1>6 DEF WorkerStop, WorkerCrash, engine, stops, callers
  <1>7. ASSUME NEW w \in Worker, ExitEvent(w) PROVE TypeOK'
    BY <1>7 DEF ExitEvent, engine, callers
  <1>8. ASSUME NEW w \in Worker, IngestBatch(w) PROVE TypeOK'
    <2>1. Head(port[w]) \in Nat /\ Tail(port[w]) \in Seq(Nat)
      BY <1>8 DEF IngestBatch
    <2>2. Accepted(Head(port[w])) \in Seq(Tuple)
      BY <2>1, AcceptedPrefix
    <2> QED
      BY <1>8, <2>1, <2>2 DEF IngestBatch, stops, callers
  <1>9. CASE ConsumeTuple
    BY <1>9 DEF ConsumeTuple, stops, threads
  <1>10. ASSUME NEW t \in held, NEW m \in Message, NEW live \in BOOLEAN,
                ExecuteOnlineSign(t, m, live)
         PROVE  TypeOK'
    BY <1>10 DEF ExecuteOnlineSign, engine, stops, threads
  <1>11. CASE UNCHANGED vars
    BY <1>11 DEF vars, engine, stops, threads, callers
  <1> QED
    BY <1>1, <1>2, <1>3, <1>4, <1>5, <1>6, <1>7, <1>8, <1>9, <1>10, <1>11
    DEF Next

\* Every step keeps the queue within its bound.
LEMMA BoundStep == TypeOK /\ QueueBounded /\ [Next]_vars => QueueBounded'
  <1> SUFFICES ASSUME TypeOK, QueueBounded, [Next]_vars
               PROVE  QueueBounded'
    OBVIOUS
  <1>1. ASSUME NEW w \in Worker, IngestBatch(w) PROVE QueueBounded'
    <2>1. Head(port[w]) \in Nat
      BY <1>1 DEF IngestBatch, TypeOK
    <2>2. /\ Accepted(Head(port[w])) \in Seq(Tuple)
          /\ Len(queue) + Len(Accepted(Head(port[w]))) <= QueueMaxSize
      BY <2>1, AcceptedPrefix
    <2> QED
      BY <1>1, <2>2 DEF IngestBatch, QueueBounded, TypeOK
  <1>2. CASE ConsumeTuple
    BY <1>2, QueueMaxSizeAssumption DEF ConsumeTuple, QueueBounded, TypeOK
  <1>3. ASSUME NEW c \in StopCall, StopFinish(c) PROVE QueueBounded'
    BY <1>3, QueueMaxSizeAssumption DEF StopFinish, ZeroizeQueue, QueueBounded
  <1>4. CASE UNCHANGED queue
    BY <1>4 DEF QueueBounded
  <1> QED
    BY <1>1, <1>2, <1>3, <1>4
    DEF Next, vars, engine, Start, StopBegin, StopTimeout, GenerateBatch,
        WorkerStop, WorkerCrash, ExitEvent, ExecuteOnlineSign

\* The engine as constructed is well typed and its queue is empty.
LEMMA InitTypes == Init => TypeOK /\ QueueBounded
  <1> SUFFICES ASSUME Init PROVE TypeOK /\ QueueBounded
    OBVIOUS
  <1>1. queue \in Seq(Tuple) /\ Len(queue) = 0
    BY DEF Init
  <1>2. /\ port \in [Worker -> Seq(Nat)]
        /\ waitFor \in [StopCall -> SUBSET Worker]
        /\ thread \in [Worker -> {"unborn", "running", "exiting", "gone"}]
    BY DEF Init
  <1>3. isRunning \in BOOLEAN /\ stopMsg \in [Worker -> BOOLEAN]
    BY Zenon DEF Init
  <1> QED
    BY <1>1, <1>2, <1>3, QueueMaxSizeAssumption DEF Init, TypeOK, QueueBounded

\* The engine's state is always well typed and its queue never exceeds
\* queueMaxSize, for every batch size and queue bound.
THEOREM TypesAndBound == Spec => [](TypeOK /\ QueueBounded)
  <1>1. Init => TypeOK /\ QueueBounded
    BY InitTypes
  <1>2. TypeOK /\ QueueBounded /\ [Next]_vars => TypeOK' /\ QueueBounded'
    BY TypeStep, BoundStep
  <1> QED
    BY <1>1, <1>2, PTL DEF Spec

-----------------------------------------------------------------------------
(* No nonce signs twice *)

\* Every step keeps the inductive invariant.
LEMMA InvStep == IInv /\ [Next]_vars => IInv'
  <1> SUFFICES ASSUME IInv, [Next]_vars
               PROVE  IInv'
    OBVIOUS
  <1> DEFINE Rest == /\ Known
                     /\ PortsDistinct
                     /\ PortsUnseen
                     /\ QueueDistinct
                     /\ QueuedAreLive
                     /\ SignedAreDead
                     /\ NonceSignsOnce
  <1> USE DEF IInv
  <1>0. TypeOK' /\ QueueBounded'
    BY TypeStep, BoundStep
  <1>1. ASSUME UNCHANGED <<port, nextBatch, queue, held, released, sigs>>
        PROVE  Rest'
    BY <1>1 DEF Known, PortsDistinct, PortsUnseen, QueueDistinct, QueuedAreLive,
                SignedAreDead, NonceSignsOnce, Queued
  <1>2. ASSUME NEW c \in StopCall, StopFinish(c) PROVE Rest'
    <2>1. /\ queue' = <<>>
          /\ released' = released \cup Queued
          /\ UNCHANGED <<port, nextBatch, held, sigs>>
      BY <1>2 DEF StopFinish, ZeroizeQueue, threads
    <2>2. Queued' = {}
      BY <2>1 DEF Queued
    <2>3. Known' /\ PortsDistinct' /\ PortsUnseen'
      BY <2>1, <2>2 DEF Known, PortsDistinct, PortsUnseen
    <2>4. QueueDistinct' /\ QueuedAreLive'
      BY <2>1, <2>2 DEF QueueDistinct, QueuedAreLive
    <2>5. SignedAreDead' /\ NonceSignsOnce'
      BY <2>1 DEF SignedAreDead, NonceSignsOnce
    <2> QED
      BY <2>3, <2>4, <2>5
  <1>3. ASSUME NEW w \in Worker, GenerateBatch(w) PROVE Rest'
    <2>1. /\ port' = [port EXCEPT ![w] = Append(@, nextBatch)]
          /\ nextBatch' = nextBatch + 1
          /\ UNCHANGED <<queue, held, released, sigs>>
      BY <1>3 DEF GenerateBatch, engine, callers
    <2>2. Queued' = Queued
      BY <2>1 DEF Queued
    <2>3. \A v \in Worker : \A i \in DOMAIN port'[v] :
              \/ i \in DOMAIN port[v] /\ port'[v][i] = port[v][i]
              \/ /\ v = w
                 /\ i = Len(port[v]) + 1
                 /\ port'[v][i] = nextBatch
      BY <2>1 DEF TypeOK
    <2>4. \A t \in Queued \cup held \cup released : t[1] \in Nat
      BY DEF TypeOK, Queued, Tuple
    <2>5. Known'
      BY <2>1, <2>2, <2>3, <2>4 DEF Known, TypeOK
    <2>6. PortsDistinct'
      <3> SUFFICES ASSUME NEW u \in Worker, NEW v \in Worker,
                          NEW i \in DOMAIN port'[u], NEW j \in DOMAIN port'[v],
                          port'[u][i] = port'[v][j]
                   PROVE  u = v /\ i = j
        BY DEF PortsDistinct
      <3>1. \A x \in Worker : \A k \in DOMAIN port[x] :
                /\ port[x][k] # nextBatch
                /\ k # Len(port[x]) + 1
        BY DEF Known, TypeOK
      <3> QED
        BY <2>3, <3>1 DEF PortsDistinct
    <2>7. PortsUnseen'
      <3> SUFFICES ASSUME NEW v \in Worker, NEW i \in DOMAIN port'[v],
                          NEW t \in Queued \cup held \cup released
                   PROVE  t[1] # port'[v][i]
        BY <2>1, <2>2 DEF PortsUnseen
      <3>1. CASE i \in DOMAIN port[v] /\ port'[v][i] = port[v][i]
        BY <3>1 DEF PortsUnseen
      <3>2. CASE port'[v][i] = nextBatch
        <4>1. t[1] < nextBatch /\ t[1] \in Nat /\ nextBatch \in Nat
          BY <2>4 DEF Known, TypeOK
        <4> QED
          BY <3>2, <4>1
      <3> QED
        BY <2>3, <3>1, <3>2
    <2>8. QueueDistinct' /\ QueuedAreLive' /\ SignedAreDead' /\ NonceSignsOnce'
      BY <2>1, <2>2 DEF QueueDistinct, QueuedAreLive, SignedAreDead, NonceSignsOnce
    <2> QED
      BY <2>5, <2>6, <2>7, <2>8
  <1>4. ASSUME NEW w \in Worker, IngestBatch(w) PROVE Rest'
    <2> DEFINE b == Head(port[w])
    <2> DEFINE acc == Accepted(b)
    <2>1. /\ port[w] # <<>>
          /\ queue' = queue \o acc
          /\ port' = [port EXCEPT ![w] = Tail(@)]
          /\ UNCHANGED <<nextBatch, held, released, sigs>>
      BY <1>4 DEF IngestBatch, callers
    <2>2. b \in Nat /\ b = port[w][1] /\ 1 \in DOMAIN port[w]
      BY <2>1 DEF TypeOK
    <2>3. acc \in Seq(Tuple) /\ \A i \in 1..Len(acc) : acc[i] = <<b, i>>
      BY <2>2, AcceptedPrefix
    <2> HIDE DEF acc, b
    <2>4. \A i \in DOMAIN queue' :
              \/ i \in DOMAIN queue /\ queue'[i] = queue[i]
              \/ /\ i \notin DOMAIN queue
                 /\ i - Len(queue) \in 1..Len(acc)
                 /\ queue'[i] = <<b, i - Len(queue)>>
      <3>1. queue \in Seq(Tuple)
        BY DEF TypeOK
      <3> QED
        BY <2>1, <2>3, <3>1, ConcatContents
    <2>5. \A t \in Queued' : t \in Queued \/ t[1] = b
      BY <2>4 DEF Queued
    <2>6. \A v \in Worker : \A i \in DOMAIN port'[v] :
              \E j \in DOMAIN port[v] : /\ port'[v][i] = port[v][j]
                                       /\ (v = w => j = i + 1)
                                       /\ (v # w => j = i)
      <3> SUFFICES ASSUME NEW v \in Worker, NEW i \in DOMAIN port'[v]
                   PROVE  \E j \in DOMAIN port[v] : /\ port'[v][i] = port[v][j]
                                                   /\ (v = w => j = i + 1)
                                                   /\ (v # w => j = i)
        OBVIOUS
      <3>1. CASE v = w
        <4>1. port'[v] = Tail(port[w]) /\ port[w] \in Seq(Nat)
          BY <2>1, <3>1 DEF TypeOK
        <4>2. i + 1 \in DOMAIN port[w] /\ port'[v][i] = port[w][i + 1]
          BY <2>1, <4>1, TailContents
        <4> QED
          BY <3>1, <4>2
      <3>2. CASE v # w
        BY <2>1, <3>2 DEF TypeOK
      <3> QED
        BY <3>1, <3>2
    <2>7. \A v \in Worker : \A i \in DOMAIN port'[v] : port'[v][i] # b /\ i \in Nat \ {0}
      <3> SUFFICES ASSUME NEW v \in Worker, NEW i \in DOMAIN port'[v]
                   PROVE  port'[v][i] # b /\ i \in Nat \ {0}
        OBVIOUS
      <3>1. i \in Nat \ {0}
        <4>1. port'[v] \in Seq(Nat)
          BY <1>0 DEF TypeOK
        <4> QED
          BY <4>1
      <3>2. PICK j \in DOMAIN port[v] : /\ port'[v][i] = port[v][j]
                                       /\ (v = w => j = i + 1)
        BY <2>6
      <3>3. v = w /\ j = 1 => FALSE
        BY <3>1, <3>2
      <3> QED
        BY <2>2, <3>1, <3>2, <3>3 DEF PortsDistinct
    <2>8. Known'
      BY <2>1, <2>2, <2>5, <2>6 DEF Known
    <2>9. PortsDistinct'
      <3> SUFFICES ASSUME NEW u \in Worker, NEW v \in Worker,
                          NEW i \in DOMAIN port'[u], NEW j \in DOMAIN port'[v],
                          port'[u][i] = port'[v][j]
                   PROVE  u = v /\ i = j
        BY DEF PortsDistinct
      <3>1. PICK k \in DOMAIN port[u] : /\ port'[u][i] = port[u][k]
                                       /\ (u = w => k = i + 1)
                                       /\ (u # w => k = i)
        BY <2>6
      <3>2. PICK l \in DOMAIN port[v] : /\ port'[v][j] = port[v][l]
                                       /\ (v = w => l = j + 1)
                                       /\ (v # w => l = j)
        BY <2>6
      <3>3. u = v /\ k = l
        <4>1. port[u][k] = port[v][l]
          BY <3>1, <3>2
        <4>2. PortsDistinct
          OBVIOUS
        <4> QED
          BY <4>1, <4>2, Zenon DEF PortsDistinct
      <3>4. i \in Nat /\ j \in Nat
        BY <2>7
      <3> QED
        BY <3>1, <3>2, <3>3, <3>4
    <2>10. PortsUnseen'
      <3> SUFFICES ASSUME NEW v \in Worker, NEW i \in DOMAIN port'[v],
                          NEW t \in Queued' \cup held \cup released
                   PROVE  t[1] # port'[v][i]
        BY <2>1, Zenon DEF PortsUnseen
      <3>1. CASE t[1] = b
        BY <2>7, <3>1
      <3>2. CASE t \in Queued \cup held \cup released
        <4>1. PICK j \in DOMAIN port[v] : port'[v][i] = port[v][j]
          BY <2>6
        <4> QED
          BY <3>2, <4>1 DEF PortsUnseen
      <3> QED
        BY <2>5, <3>1, <3>2
    <2>11. \A i \in DOMAIN queue : queue[i][1] # b
      BY <2>2 DEF PortsUnseen, Queued
    <2>12. QueueDistinct'
      <3> SUFFICES ASSUME NEW i \in DOMAIN queue', NEW j \in DOMAIN queue',
                          queue'[i] = queue'[j]
                   PROVE  i = j
        BY DEF QueueDistinct
      <3>1. i \in Nat /\ j \in Nat /\ Len(queue) \in Nat
        <4>1. queue \in Seq(Tuple) /\ queue' \in Seq(Tuple)
          BY <1>0 DEF TypeOK
        <4> QED
          BY <4>1
      <3>2. CASE i \in DOMAIN queue /\ j \in DOMAIN queue
        BY <2>4, <3>2 DEF QueueDistinct
      <3>3. CASE i \notin DOMAIN queue /\ j \notin DOMAIN queue
        <4>1. <<b, i - Len(queue)>> = <<b, j - Len(queue)>>
          BY <2>4, <3>3
        <4> QED
          BY <3>1, <4>1
      <3>4. CASE i \in DOMAIN queue /\ j \notin DOMAIN queue
        BY <2>4, <2>11, <3>4
      <3>5. CASE i \notin DOMAIN queue /\ j \in DOMAIN queue
        BY <2>4, <2>11, <3>5
      <3> QED
        BY <3>2, <3>3, <3>4, <3>5
    <2>13. QueuedAreLive'
      BY <2>1, <2>2, <2>5 DEF QueuedAreLive, PortsUnseen
    <2>14. SignedAreDead' /\ NonceSignsOnce'
      BY <2>1 DEF SignedAreDead, NonceSignsOnce
    <2> QED
      BY <2>8, <2>9, <2>10, <2>12, <2>13, <2>14
  <1>5. ASSUME ConsumeTuple PROVE Rest'
    <2>1. /\ queue # <<>>
          /\ queue' = Tail(queue)
          /\ held' = held \cup {Head(queue)}
          /\ UNCHANGED <<port, nextBatch, released, sigs>>
      BY <1>5 DEF ConsumeTuple, threads
    <2>2. /\ Head(queue) = queue[1]
          /\ 1 \in DOMAIN queue
          /\ \A i \in DOMAIN queue' : /\ i \in Nat
                                      /\ i # 0
                                      /\ i + 1 \in DOMAIN queue
                                      /\ queue'[i] = queue[i + 1]
      BY <2>1 DEF TypeOK
    <2>3. Queued' \subseteq Queued /\ Head(queue) \in Queued
      BY <2>2 DEF Queued
    <2>4. Head(queue) \notin Queued'
      BY <2>2 DEF Queued, QueueDistinct
    <2>5. Known' /\ PortsDistinct' /\ PortsUnseen'
      BY <2>1, <2>3 DEF Known, PortsDistinct, PortsUnseen
    <2>6. QueueDistinct'
      BY <2>2 DEF QueueDistinct
    <2>7. QueuedAreLive'
      BY <2>1, <2>3, <2>4 DEF QueuedAreLive
    <2>8. SignedAreDead' /\ NonceSignsOnce'
      BY <2>1 DEF SignedAreDead, NonceSignsOnce
    <2> QED
      BY <2>5, <2>6, <2>7, <2>8
  <1>6. ASSUME NEW t \in held, NEW m \in Message, NEW live \in BOOLEAN,
               ExecuteOnlineSign(t, m, live)
        PROVE  Rest'
    <2>1. /\ released' = released \cup {t}
          /\ sigs' \subseteq sigs \cup {<<t, m>>}
          /\ t \in released => sigs' = sigs
          /\ UNCHANGED <<queue, port, nextBatch, held>>
      BY <1>6 DEF ExecuteOnlineSign, engine, threads
    <2>2. Queued' = Queued
      BY <2>1 DEF Queued
    <2>3. Known' /\ PortsDistinct' /\ PortsUnseen'
      BY <2>1, <2>2 DEF Known, PortsDistinct, PortsUnseen
    <2>4. QueueDistinct' /\ QueuedAreLive'
      BY <2>1, <2>2 DEF QueueDistinct, QueuedAreLive
    <2>5. SignedAreDead'
      BY <2>1 DEF SignedAreDead
    <2>6. NonceSignsOnce'
      BY <2>1 DEF SignedAreDead, NonceSignsOnce
    <2> QED
      BY <2>3, <2>4, <2>5, <2>6
  <1> QED
    <2> HIDE DEF IInv
    <2>1. CASE Rest'
      BY <1>0, <2>1 DEF IInv
    <2>2. CASE UNCHANGED <<port, nextBatch, queue, held, released, sigs>>
      BY <1>0, <1>1, <2>2 DEF IInv
    <2> QED
      BY <1>2, <1>3, <1>4, <1>5, <1>6, <2>1, <2>2
      DEF Next, vars, engine, threads, callers, Start, StopBegin, StopTimeout,
          WorkerStop, WorkerCrash, ExitEvent

\* The inductive invariant holds throughout.
LEMMA Invariance == Spec => []IInv
  <1>1. Init => IInv
    <2> SUFFICES ASSUME Init PROVE IInv
      OBVIOUS
    <2>1. TypeOK /\ QueueBounded
      BY InitTypes
    <2>2. /\ Queued = {}
          /\ held = {}
          /\ released = {}
          /\ sigs = {}
          /\ \A w \in Worker : DOMAIN port[w] = {}
          /\ DOMAIN queue = {}
      BY DEF Init, Queued
    <2> QED
      BY <2>1, <2>2 DEF IInv, Known, PortsDistinct, PortsUnseen, QueueDistinct,
                        QueuedAreLive, SignedAreDead, NonceSignsOnce
  <1> QED
    BY <1>1, InvStep, PTL DEF Spec

\* No interleaving of workers, start(), stop() and callers that retry makes
\* executeOnlineSign sign two messages with one nonce.
THEOREM NonceSafety == Spec => []NonceSignsOnce
  <1>1. IInv => NonceSignsOnce
    BY DEF IInv
  <1> QED
    BY <1>1, Invariance, PTL

\* A queued tuple was never handed out and never zeroized.
THEOREM QueueSafety == Spec => []QueuedAreLive
  <1>1. IInv => QueuedAreLive
    BY DEF IInv
  <1> QED
    BY <1>1, Invariance, PTL

\* What executeOnlineSign was ever given is zeroized, also when the call threw.
TriedAreDead == tried \subseteq released

\* The finally block and the final release keep every tried tuple zeroized.
LEMMA TriedStayDead == Spec => []TriedAreDead
  <1>1. Init => TriedAreDead
    BY DEF Init, TriedAreDead
  <1>2. TriedAreDead /\ [Next]_vars => TriedAreDead'
    <2> SUFFICES ASSUME TriedAreDead, [Next]_vars PROVE TriedAreDead'
      OBVIOUS
    <2> USE DEF TriedAreDead
    <2>1. ASSUME NEW t \in held, NEW m \in Message, NEW live \in BOOLEAN,
                 ExecuteOnlineSign(t, m, live)
          PROVE  TriedAreDead'
      BY <2>1 DEF ExecuteOnlineSign
    <2>2. ASSUME NEW c \in StopCall, StopFinish(c) PROVE TriedAreDead'
      BY <2>2 DEF StopFinish, ZeroizeQueue
    <2>3. CASE UNCHANGED <<released, tried>>
      BY <2>3
    <2> QED
      BY <2>1, <2>2, <2>3
      DEF Next, vars, callers, Start, StopBegin, StopTimeout, GenerateBatch,
          WorkerStop, WorkerCrash, ExitEvent, IngestBatch, ConsumeTuple
  <1> QED
    BY <1>1, <1>2, PTL DEF Spec

\* A tuple that executeOnlineSign was given once, with whatever outcome, never
\* makes a signature again.
THEOREM OneAttempt == Spec => OneAttemptPerNonce
  <1> DEFINE Step == \A p \in sigs' \ sigs : p[1] \notin tried
  <1>1. TriedAreDead /\ [Next]_vars => [Step]_vars
    <2> SUFFICES ASSUME TriedAreDead, Next PROVE Step
      OBVIOUS
    <2>1. ASSUME NEW t \in held, NEW m \in Message, NEW live \in BOOLEAN,
                 ExecuteOnlineSign(t, m, live)
          PROVE  Step
      BY <2>1 DEF ExecuteOnlineSign, TriedAreDead
    <2>2. CASE UNCHANGED sigs
      BY <2>2
    <2> QED
      BY <2>1, <2>2
      DEF Next, callers, Start, StopBegin, StopTimeout, StopFinish, GenerateBatch,
          WorkerStop, WorkerCrash, ExitEvent, IngestBatch, ConsumeTuple
  <1> QED
    BY <1>1, TriedStayDead, PTL DEF Spec, OneAttemptPerNonce

-----------------------------------------------------------------------------
(* Statistics *)

\* Only finitely many tuples were handed out or released.
Counted == IsFiniteSet(held) /\ IsFiniteSet(released)

\* A queue without repetitions has as many contents as places.
LEMMA QueueCounts ==
    ASSUME TypeOK, QueueDistinct
    PROVE  IsFiniteSet(Queued) /\ Cardinality(Queued) = Len(queue)
  <1> DEFINE n == Len(queue)
  <1>1. n \in Nat /\ DOMAIN queue = 1..n
    BY DEF TypeOK
  <1>2. queue \in [1..n -> Queued]
    BY <1>1 DEF TypeOK, Queued
  <1>3. queue \in Bijection(1..n, Queued)
    BY <1>1, <1>2 DEF Bijection, Injection, IsInjective, Surjection, Queued, QueueDistinct
  <1>4. ExistsBijection(1..n, Queued)
    BY <1>3 DEF ExistsBijection
  <1> HIDE DEF n
  <1>5. IsFiniteSet(1..n) /\ Cardinality(1..n) = n
    BY <1>1, FS_Interval
  <1> QED
    BY <1>4, <1>5, FS_Bijection DEF n

\* Every step keeps the statistics in agreement with the tuples.
LEMMA StatsStep ==
    IInv /\ Counted /\ StatsConserved /\ [Next]_vars => Counted' /\ StatsConserved'
  <1> SUFFICES ASSUME IInv, Counted, StatsConserved, [Next]_vars
               PROVE  Counted' /\ StatsConserved'
    OBVIOUS
  <1> DEFINE dead == released \ held
  <1>1. /\ IsFiniteSet(dead) /\ Cardinality(dead) \in Nat
        /\ Cardinality(held) \in Nat /\ Len(queue) \in Nat
        /\ totalConsumed = Cardinality(held)
        /\ totalGenerated = totalConsumed + Len(queue) + Cardinality(dead)
    <2>1. IsFiniteSet(dead)
      BY FS_Difference DEF Counted
    <2> QED
      BY <2>1, FS_CardinalityType DEF Counted, StatsConserved, IInv, TypeOK
  <1>2. ASSUME UNCHANGED <<queue, totalGenerated, totalConsumed, held, released>>
        PROVE  Counted' /\ StatsConserved'
    BY <1>2 DEF Counted, StatsConserved
  <1>3. ASSUME NEW c \in StopCall, StopFinish(c) PROVE Counted' /\ StatsConserved'
    <2>1. /\ queue' = <<>> /\ released' = released \cup Queued
          /\ UNCHANGED <<totalGenerated, totalConsumed, held>>
      BY <1>3 DEF StopFinish, ZeroizeQueue
    <2>2. IsFiniteSet(Queued) /\ Cardinality(Queued) = Len(queue)
      BY QueueCounts DEF IInv
    <2>3. released' \ held' = dead \cup Queued /\ dead \cap Queued = {}
      BY <2>1 DEF IInv, QueuedAreLive
    <2>4. Cardinality(dead \cup Queued) = Cardinality(dead) + Len(queue)
      <3>1. Cardinality(dead \cup Queued)
              = Cardinality(dead) + Cardinality(Queued) - Cardinality(dead \cap Queued)
        BY <1>1, <2>2, FS_Union
      <3>2. Cardinality(dead \cap Queued) = 0
        BY <2>3, FS_EmptySet
      <3> HIDE DEF dead
      <3> QED
        BY <1>1, <2>2, <3>1, <3>2
    <2>5. IsFiniteSet(released')
      BY <2>1, <2>2, FS_Union DEF Counted
    <2> HIDE DEF dead
    <2>6. Len(queue') = 0 /\ Cardinality(held') = Cardinality(held)
      BY <2>1
    <2>7. Cardinality(released' \ held') = Cardinality(dead) + Len(queue)
      BY <2>3, <2>4
    <2> QED
      BY <1>1, <2>1, <2>5, <2>6, <2>7 DEF Counted, StatsConserved
  <1>4. ASSUME NEW w \in Worker, IngestBatch(w) PROVE Counted' /\ StatsConserved'
    <2> DEFINE acc == Accepted(Head(port[w]))
    <2>1. /\ queue' = queue \o acc /\ totalGenerated' = totalGenerated + Len(acc)
          /\ UNCHANGED <<totalConsumed, held, released>>
      BY <1>4 DEF IngestBatch, callers
    <2>2. acc \in Seq(Tuple) /\ queue \in Seq(Tuple)
      <3>1. Head(port[w]) \in Nat
        BY <1>4 DEF IngestBatch, IInv, TypeOK
      <3> QED
        BY <3>1, AcceptedPrefix DEF IInv, TypeOK
    <2> HIDE DEF acc
    <2>3. Len(queue') = Len(queue) + Len(acc) /\ Len(acc) \in Nat
      BY <2>1, <2>2
    <2> HIDE DEF dead
    <2>4. Cardinality(released' \ held') = Cardinality(dead)
      BY <2>1 DEF dead
    <2> QED
      BY <1>1, <2>1, <2>3, <2>4 DEF Counted, StatsConserved
  <1>5. CASE ConsumeTuple
    <2> DEFINE t == Head(queue)
    <2>1. /\ queue # <<>> /\ queue' = Tail(queue) /\ totalConsumed' = totalConsumed + 1
          /\ held' = held \cup {t} /\ UNCHANGED <<totalGenerated, released>>
      BY <1>5 DEF ConsumeTuple
    <2>2. t \in Queued /\ Len(Tail(queue)) = Len(queue) - 1
      <3>1. queue \in Seq(Tuple)
        BY DEF IInv, TypeOK
      <3> QED
        BY <2>1, <3>1 DEF Queued
    <2>3. t \notin held /\ t \notin released
      BY <2>2 DEF IInv, QueuedAreLive
    <2>4. IsFiniteSet(held') /\ Cardinality(held') = Cardinality(held) + 1
      BY <2>1, <2>3, FS_AddElement DEF Counted
    <2>5. released' \ held' = dead
      BY <2>1, <2>3
    <2> HIDE DEF dead, t
    <2>6. /\ Len(queue') = Len(queue) - 1
          /\ Cardinality(released' \ held') = Cardinality(dead)
          /\ IsFiniteSet(released')
      BY <2>1, <2>2, <2>5 DEF Counted
    <2> QED
      BY <1>1, <2>1, <2>4, <2>6 DEF Counted, StatsConserved
  <1>6. ASSUME NEW t \in held, NEW m \in Message, NEW live \in BOOLEAN,
               ExecuteOnlineSign(t, m, live)
        PROVE  Counted' /\ StatsConserved'
    <2>1. /\ released' = released \cup {t}
          /\ UNCHANGED <<queue, totalGenerated, totalConsumed, held>>
      BY <1>6 DEF ExecuteOnlineSign, engine
    <2>2. released' \ held' = dead /\ IsFiniteSet(released')
      BY <2>1, FS_AddElement DEF Counted
    <2> QED
      BY <1>1, <2>1, <2>2 DEF Counted, StatsConserved
  <1> QED
    <2>1. CASE UNCHANGED <<queue, totalGenerated, totalConsumed, held, released>>
      BY <1>2, <2>1
    <2> QED
      BY <1>3, <1>4, <1>5, <1>6, <2>1
      DEF Next, vars, engine, callers, Start, StopBegin, StopTimeout, GenerateBatch,
          WorkerStop, WorkerCrash, ExitEvent

\* getStats() accounts for every tuple: what was generated is consumed, queued,
\* or was zeroized by a stop().
THEOREM StatsAddUp == Spec => []StatsConserved
  <1>1. Init => Counted /\ StatsConserved
    <2> SUFFICES ASSUME Init PROVE Counted /\ StatsConserved
      OBVIOUS
    <2>1. /\ held = {} /\ released = {} /\ queue = <<>>
          /\ totalGenerated = 0 /\ totalConsumed = 0
          /\ IsFiniteSet({}) /\ Cardinality({}) = 0
      BY FS_EmptySet DEF Init
    <2>2. released \ held = {} /\ Len(queue) = 0
      BY <2>1
    <2> QED
      BY <2>1, <2>2 DEF Counted, StatsConserved
  <1> QED
    BY <1>1, StatsStep, Invariance, PTL DEF Spec

-----------------------------------------------------------------------------
(* Shutdown *)

\* A stopped engine with no stop() in flight holds no nonce.
THEOREM StoppedEmpty == Spec => []StoppedIsEmpty
  <1>1. Init => StoppedIsEmpty
    BY DEF Init, StoppedIsEmpty
  <1>2. TypeOK /\ StoppedIsEmpty /\ [Next]_vars => StoppedIsEmpty'
    <2> SUFFICES ASSUME TypeOK, StoppedIsEmpty, [Next]_vars
                 PROVE  StoppedIsEmpty'
      OBVIOUS
    <2> USE DEF StoppedIsEmpty
    <2>1. ASSUME NEW c \in StopCall, StopBegin(c) PROVE StoppedIsEmpty'
      BY <2>1 DEF StopBegin
    <2>2. ASSUME NEW c \in StopCall, StopFinish(c) PROVE StoppedIsEmpty'
      BY <2>2 DEF StopFinish, ZeroizeQueue
    <2>3. ASSUME NEW w \in Worker, IngestBatch(w) PROVE StoppedIsEmpty'
      <3>1. CASE isRunning
        BY <2>3, <3>1 DEF IngestBatch, stops
      <3>2. CASE ~isRunning
        <4>1. Accepted(Head(port[w])) = <<>>
          BY <3>2 DEF Accepted
        <4>2. queue' = queue
          BY <2>3, <4>1 DEF IngestBatch, TypeOK
        <4> QED
          BY <2>3, <4>2 DEF IngestBatch, stops
      <3> QED
        BY <3>1, <3>2
    <2>4. CASE ConsumeTuple
      BY <2>4 DEF ConsumeTuple, stops
    <2>5. ASSUME NEW new \in SUBSET Worker, Start(new) PROVE StoppedIsEmpty'
      BY <2>5 DEF Start
    <2>6. CASE UNCHANGED <<isRunning, stopping, queue>>
      BY <2>6
    <2> QED
      BY <2>1, <2>2, <2>3, <2>4, <2>5, <2>6
      DEF Next, vars, engine, stops, StopTimeout, GenerateBatch, WorkerStop,
          WorkerCrash, ExitEvent, ExecuteOnlineSign
  <1> QED
    BY <1>1, <1>2, TypesAndBound, PTL DEF Spec

-----------------------------------------------------------------------------
(* Refinement of the nonce pool *)

\* A step that changes nothing the pool sees is a stuttering step of the pool.
LEMMA PoolStutter ==
    UNCHANGED <<queue, held, released, sigs>> => UNCHANGED Pool!pvars
  BY DEF Pool!pvars, Queued

\* Every step of the engine is a step of the pool or invisible to it.
LEMMA PoolStep == IInv /\ IInv' /\ [Next]_vars => [Pool!PoolNext]_(Pool!pvars)
  <1> SUFFICES ASSUME IInv, IInv', [Next]_vars
               PROVE  [Pool!PoolNext]_(Pool!pvars)
    OBVIOUS
  <1>1. ASSUME NEW c \in StopCall, StopFinish(c) PROVE Pool!Drain
    <2>1. /\ queue' = <<>>
          /\ released' = released \cup Queued
          /\ UNCHANGED <<held, sigs>>
      BY <1>1 DEF StopFinish, ZeroizeQueue
    <2>2. Queued' = {}
      BY <2>1 DEF Queued
    <2>3. Queued \cap held = {}
      BY DEF IInv, QueuedAreLive
    <2> QED
      BY <2>1, <2>2, <2>3 DEF Pool!Drain
  <1>2. ASSUME NEW w \in Worker, IngestBatch(w) PROVE Pool!Add
    <2>1. Queued \subseteq Queued'
      <3>1. queue \in Seq(Tuple) /\ Accepted(Head(port[w])) \in Seq(Tuple)
        <4>1. Head(port[w]) \in Nat
          BY <1>2 DEF IngestBatch, IInv, TypeOK
        <4> QED
          BY <4>1, AcceptedPrefix DEF IInv, TypeOK
      <3>2. \A i \in DOMAIN queue : i \in DOMAIN queue' /\ queue'[i] = queue[i]
        BY <1>2, <3>1 DEF IngestBatch
      <3> QED
        BY <3>2 DEF Queued
    <2>2. Queued' \subseteq Tuple
      BY DEF IInv, TypeOK, Queued
    <2>3. Queued' \cap (held' \cup released') = {}
      BY DEF IInv, QueuedAreLive
    <2>4. UNCHANGED <<held, released, sigs>>
      BY <1>2 DEF IngestBatch, callers
    <2> QED
      BY <2>1, <2>2, <2>3, <2>4 DEF Pool!Add
  <1>3. CASE ConsumeTuple
    <2>1. /\ queue # <<>>
          /\ queue' = Tail(queue)
          /\ held' = held \cup {Head(queue)}
          /\ UNCHANGED <<released, sigs>>
      BY <1>3 DEF ConsumeTuple
    <2>2. /\ queue \in Seq(Tuple)
          /\ Head(queue) = queue[1]
          /\ 1 \in DOMAIN queue
      BY <2>1 DEF IInv, TypeOK
    <2>3. Head(queue) \in Queued
      BY <2>2 DEF Queued
    <2>4. Queued' = Queued \ {Head(queue)}
      <3>1. Head(queue) \notin Queued'
        BY <2>1 DEF IInv, QueuedAreLive
      <3>2. \A i \in DOMAIN Tail(queue) : /\ i + 1 \in DOMAIN queue
                                         /\ Tail(queue)[i] = queue[i + 1]
        BY <2>1, <2>2, TailContents
      <3>3. \A i \in DOMAIN queue : i # 1 => /\ i - 1 \in DOMAIN Tail(queue)
                                           /\ Tail(queue)[i - 1] = queue[i]
        BY <2>1, <2>2
      <3>4. Queued' \subseteq Queued
        BY <2>1, <3>2 DEF Queued
      <3>5. \A t \in Queued : t # Head(queue) => t \in Queued'
        <4> SUFFICES ASSUME NEW t \in Queued, t # Head(queue)
                     PROVE  t \in Queued'
          OBVIOUS
        <4>1. PICK i \in DOMAIN queue : queue[i] = t
          BY DEF Queued
        <4>2. i - 1 \in DOMAIN queue' /\ queue'[i - 1] = t
          BY <2>1, <2>2, <3>3, <4>1
        <4> QED
          BY <4>2 DEF Queued
      <3> QED
        BY <3>1, <3>4, <3>5
    <2>5. Head(queue) \notin released
      BY <2>3 DEF IInv, QueuedAreLive
    <2>6. Pool!Take(Head(queue))
      BY <2>1, <2>3, <2>4, <2>5 DEF Pool!Take
    <2> QED
      BY <2>3, <2>6 DEF Pool!PoolNext
  <1>4. ASSUME NEW t \in held, NEW m \in Message, NEW live \in BOOLEAN,
               ExecuteOnlineSign(t, m, live)
        PROVE  [Pool!PoolNext]_(Pool!pvars)
    <2>1. /\ released' = released \cup {t}
          /\ UNCHANGED <<queue, held>>
      BY <1>4 DEF ExecuteOnlineSign, engine
    <2>2. Queued' = Queued
      BY <2>1 DEF Queued
    <2>3. CASE t \in released
      <3>1. released' = released /\ sigs' = sigs
        BY <1>4, <2>1, <2>3 DEF ExecuteOnlineSign
      <3> QED
        BY <2>1, <3>1, PoolStutter
    <2>4. CASE t \notin released /\ sigs' = sigs
      <3>1. Pool!Waste(t)
        BY <2>1, <2>2, <2>4 DEF Pool!Waste
      <3> QED
        BY <2>4, <3>1 DEF Pool!PoolNext
    <2>5. CASE t \notin released /\ sigs' # sigs
      <3>1. sigs' = sigs \cup {<<t, m>>}
        BY <1>4, <2>5 DEF ExecuteOnlineSign
      <3>2. Pool!Sign(t, m)
        BY <2>1, <2>2, <2>5, <3>1 DEF Pool!Sign
      <3>3. t \in held \ released
        BY <2>5
      <3> QED
        BY <3>2, <3>3 DEF Pool!PoolNext
    <2> QED
      BY <2>3, <2>4, <2>5
  <1>5. CASE UNCHANGED <<queue, held, released, sigs>>
    BY <1>5, PoolStutter
  <1> QED
    BY <1>1, <1>2, <1>3, <1>4, <1>5
    DEF Next, vars, engine, callers, Start, StopBegin, StopTimeout,
        GenerateBatch, WorkerStop, WorkerCrash, ExitEvent, Pool!PoolNext

\* The engine implements the abstract nonce pool, for every value of the
\* constants.
THEOREM Refinement == Spec => ImplementsNoncePool
  <1>1. Init => Pool!PoolInit
    BY DEF Init, Pool!PoolInit, Queued
  <1> QED
    BY <1>1, Invariance, PoolStep, PTL DEF Spec, ImplementsNoncePool, Pool!PoolSpec

=============================================================================
