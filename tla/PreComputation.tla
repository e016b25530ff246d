--------------------------- MODULE PreComputation ---------------------------
(***************************************************************************)
(* The offline pre-signature engine: worker threads that generate batches  *)
(* of (k, gamma, chi) tuples (protocol/signing_worker.ts), the engine that *)
(* queues them and hands them out (protocol/pre_computation_engine.ts) and *)
(* the release of secret buffers (security/secure_buffer.ts).              *)
(*                                                                         *)
(* A tuple is <<b, i>>: the i-th tuple of the b-th batch ever generated.   *)
(* randomScalar is taken to return a scalar that was never returned        *)
(* before, so the tuple stands for its nonce k.  Node delivers the         *)
(* messages of one worker in order and drains them before it raises the    *)
(* worker's 'exit' event.  Events that only notify listeners ('started',   *)
(* 'queue-low', 'queue-full', 'worker-ready', 'worker-error', ...) change  *)
(* no state of the engine and are left out.                                *)
(***************************************************************************)
EXTENDS Integers, Sequences, FiniteSets

CONSTANTS Worker,        \* identities for the threads that are ever spawned
          StopCall,      \* identities for the calls of stop() in flight
          Message,       \* message hashes callers sign
          WorkerCount,   \* config.workerCount
          BatchSize,     \* tuples per batch (10 in signing_worker.ts)
          QueueMaxSize,  \* config.queueMaxSize
          MaxBatches     \* bound: batches generated in a behaviour

ASSUME WorkerCountAssumption == WorkerCount \in Nat \ {0}
ASSUME BatchSizeAssumption == BatchSize \in Nat \ {0}
ASSUME QueueMaxSizeAssumption == QueueMaxSize \in Nat \ {0}
ASSUME MaxBatchesAssumption == MaxBatches \in Nat

VARIABLES
    \* PreComputationEngine
    isRunning,       \* this.isRunning
    workers,         \* this.workers
    queue,           \* this.queue
    totalGenerated,  \* this.totalGenerated
    totalConsumed,   \* this.totalConsumed
    \* calls of stop() suspended at their await
    stopping,        \* the calls in flight
    waitFor,         \* waitFor[c]: workers whose promise is still pending in call c
    \* worker threads and their message ports
    thread,          \* thread[w]: "unborn", "running", "exiting" or "gone"
    stopMsg,         \* stopMsg[w]: a STOP message is in w's port
    port,            \* port[w]: batches posted by w and not yet delivered
    nextBatch,       \* number of the next batch any worker generates
    \* callers
    held,            \* tuples consumeTuple ever returned
    released,        \* tuples whose buffers were released
    tried,           \* tuples any call of executeOnlineSign was given (history)
    sigs             \* signatures produced: pairs <<tuple, message>>

engine  == <<isRunning, workers, queue, totalGenerated, totalConsumed>>
stops   == <<stopping, waitFor>>
threads == <<thread, stopMsg, port, nextBatch>>
callers == <<held, released, tried, sigs>>
vars    == <<engine, stops, threads, callers>>

Tuple == Nat \X (1..BatchSize)

\* The tuples of a batch, in the order generateBatch pushed them.
Batch(b) == [i \in 1..BatchSize |-> <<b, i>>]

Queued == {queue[i] : i \in DOMAIN queue}

Lesser(a, b) == IF a <= b THEN a ELSE b

Init ==
    /\ isRunning = FALSE
    /\ workers = {}
    /\ queue = <<>>
    /\ totalGenerated = 0
    /\ totalConsumed = 0
    /\ stopping = {}
    /\ waitFor = [c \in StopCall |-> {}]
    /\ thread = [w \in Worker |-> "unborn"]
    /\ stopMsg = [w \in Worker |-> FALSE]
    /\ port = [w \in Worker |-> <<>>]
    /\ nextBatch = 0
    /\ held = {}
    /\ released = {}
    /\ tried = {}
    /\ sigs = {}

-----------------------------------------------------------------------------
(* Engine life cycle *)

\* start(): a second call while running returns at once.
Start(new) ==
    /\ ~isRunning
    /\ \A w \in new : thread[w] = "unborn"
    /\ Cardinality(new) = WorkerCount
    /\ isRunning' = TRUE
    /\ workers' = workers \cup new
    /\ thread' = [w \in Worker |-> IF w \in new THEN "running" ELSE thread[w]]
    /\ UNCHANGED <<queue, totalGenerated, totalConsumed, stops, stopMsg, port,
                   nextBatch, callers>>

\* stop() up to its await: one promise for each entry of this.workers.
StopBegin(c) ==
    /\ c \notin stopping
    /\ isRunning' = FALSE
    /\ stopMsg' = [w \in Worker |-> stopMsg[w] \/ w \in workers]
    /\ stopping' = stopping \cup {c}
    /\ waitFor' = [waitFor EXCEPT ![c] = workers]
    /\ UNCHANGED <<workers, queue, totalGenerated, totalConsumed, thread, port,
                   nextBatch, callers>>

\* Mutant: the promise has no timer.
StopTimeout_NoTimer(c, w) == c \in stopping /\ FALSE /\ waitFor' = {w}

\* The 5 s timer of worker w's promise fires in call c.
StopTimeout(c, w) ==
    /\ c \in stopping
    /\ w \in waitFor[c]
    /\ waitFor' = [waitFor EXCEPT ![c] = @ \ {w}]
    /\ UNCHANGED <<engine, stopping, threads, callers>>

\* Mutant: the buffers are released and the array is kept.
ZeroizeQueue_KeepsArray ==
    /\ released' = released \cup Queued
    /\ queue' = queue

\* zeroizeQueue(): release every queued tuple and empty the queue.
ZeroizeQueue ==
    /\ released' = released \cup Queued
    /\ queue' = <<>>

\* stop() after its await.  this.workers is cleared whatever it holds by now.
StopFinish(c) ==
    /\ c \in stopping
    /\ waitFor[c] = {}
    /\ stopping' = stopping \ {c}
    /\ workers' = {}
    /\ ZeroizeQueue
    /\ UNCHANGED <<isRunning, totalGenerated, totalConsumed, waitFor, threads,
                   held, tried, sigs>>

-----------------------------------------------------------------------------
(* Worker threads *)

\* generateBatch(): once at start-up, then from the 100 ms interval.
GenerateBatch(w) ==
    /\ thread[w] = "running"
    /\ nextBatch < MaxBatches
    /\ port' = [port EXCEPT ![w] = Append(@, nextBatch)]
    /\ nextBatch' = nextBatch + 1
    /\ UNCHANGED <<engine, stops, thread, stopMsg, callers>>

\* The worker handles STOP: clears its interval and exits.
WorkerStop(w) ==
    /\ thread[w] = "running"
    /\ stopMsg[w]
    /\ thread' = [thread EXCEPT ![w] = "exiting"]
    /\ UNCHANGED <<engine, stops, stopMsg, port, nextBatch, callers>>

\* An uncaught error ends the thread; the engine only emits 'worker-error'.
WorkerCrash(w) ==
    /\ thread[w] = "running"
    /\ thread' = [thread EXCEPT ![w] = "exiting"]
    /\ UNCHANGED <<engine, stops, stopMsg, port, nextBatch, callers>>

\* 'exit' reaches the engine's event loop; only listeners that stop()
\* registered before it see it.
ExitEvent(w) ==
    /\ thread[w] = "exiting"
    /\ port[w] = <<>>
    /\ thread' = [thread EXCEPT ![w] = "gone"]
    /\ waitFor' = [c \in StopCall |-> waitFor[c] \ {w}]
    /\ UNCHANGED <<engine, stopping, stopMsg, port, nextBatch, callers>>

-----------------------------------------------------------------------------
(* Queue operations *)

\* Mutant: a stopped engine still accepts.
Accepted_WhenStopped(b) ==
    SubSeq(Batch(b), 1, Lesser(BatchSize, QueueMaxSize - Len(queue)))

\* The tuples of batch b that ingestBatch accepts.
Accepted(b) ==
    IF isRunning
    THEN SubSeq(Batch(b), 1, Lesser(BatchSize, QueueMaxSize - Len(queue)))
    ELSE <<>>

\* Mutant: totalGenerated counts the tuples that were dropped too.
IngestBatch_CountsDropped(w) ==
    /\ port[w] # <<>>
    /\ queue' = queue \o Accepted(Head(port[w]))
    /\ totalGenerated' = totalGenerated + BatchSize
    /\ port' = [port EXCEPT ![w] = Tail(@)]
    /\ UNCHANGED <<isRunning, workers, totalConsumed, stops, thread, stopMsg,
                   nextBatch, callers>>

\* 'message' with a TUPLE_BATCH: ingestBatch(batch).
IngestBatch(w) ==
    /\ port[w] # <<>>
    /\ LET acc == Accepted(Head(port[w])) IN
         /\ queue' = queue \o acc
         /\ totalGenerated' = totalGenerated + Len(acc)
    /\ port' = [port EXCEPT ![w] = Tail(@)]
    /\ UNCHANGED <<isRunning, workers, totalConsumed, stops, thread, stopMsg,
                   nextBatch, callers>>

\* Mutant: the tuple is not shifted out.
ConsumeTuple_Peeks ==
    /\ queue # <<>>
    /\ totalConsumed' = totalConsumed + 1
    /\ held' = held \cup {Head(queue)}
    /\ UNCHANGED <<isRunning, workers, queue, totalGenerated, stops, threads,
                   released, tried, sigs>>

\* consumeTuple(); on an empty queue it returns null and changes nothing.
ConsumeTuple ==
    /\ queue # <<>>
    /\ queue' = Tail(queue)
    /\ totalConsumed' = totalConsumed + 1
    /\ held' = held \cup {Head(queue)}
    /\ UNCHANGED <<isRunning, workers, totalGenerated, stops, threads,
                   released, tried, sigs>>

\* Mutants: release on the error path only; release at the end of the try block.
ExecuteOnlineSign_NoFinally(t, m, shareLive) ==
    /\ t \in held
    /\ tried' = tried \cup {t}
    /\ IF t \notin released /\ shareLive
       THEN sigs' = sigs \cup {<<t, m>>} /\ UNCHANGED released
       ELSE released' = released \cup {t} /\ UNCHANGED sigs
    /\ UNCHANGED <<engine, stops, threads, held>>

ExecuteOnlineSign_KeepsOnThrow(t, m, shareLive) ==
    /\ t \in held
    /\ tried' = tried \cup {t}
    /\ IF t \notin released /\ shareLive
       THEN sigs' = sigs \cup {<<t, m>>} /\ released' = released \cup {t}
       ELSE UNCHANGED <<sigs, released>>
    /\ UNCHANGED <<engine, stops, threads, held>>

\* executeOnlineSign(m, share, t).  A caller may pass a tuple it has used
\* before: reading tuple.k.value then throws.  shareLive is FALSE when
\* privateShare.value throws.  The finally block releases the tuple on
\* every path.
ExecuteOnlineSign(t, m, shareLive) ==
    /\ t \in held
    /\ tried' = tried \cup {t}
    /\ sigs' = IF t \notin released /\ shareLive
               THEN sigs \cup {<<t, m>>}
               ELSE sigs
    /\ released' = released \cup {t}
    /\ UNCHANGED <<engine, stops, threads, held>>

-----------------------------------------------------------------------------
Next ==
    \/ \E new \in SUBSET Worker : Start(new)
    \/ \E c \in StopCall : StopBegin(c) \/ StopFinish(c)
    \/ \E c \in StopCall, w \in Worker : StopTimeout(c, w)
    \/ \E w \in Worker : \/ GenerateBatch(w)
                         \/ WorkerStop(w)
                         \/ WorkerCrash(w)
                         \/ ExitEvent(w)
                         \/ IngestBatch(w)
    \/ ConsumeTuple
    \/ \E t \in held, m \in Message, live \in BOOLEAN :
           ExecuteOnlineSign(t, m, live)

Spec == Init /\ [][Next]_vars

\* Timers fire and promise continuations run; workers and callers owe nothing.
Fairness ==
    /\ \A c \in StopCall : WF_vars(StopFinish(c))
    /\ \A c \in StopCall, w \in Worker : WF_vars(StopTimeout(c, w))

FairSpec == Spec /\ Fairness

-----------------------------------------------------------------------------
(* Properties *)

\* Every variable ranges over the values the engine's fields can take.
TypeOK ==
    /\ isRunning \in BOOLEAN
    /\ workers \in SUBSET Worker
    /\ queue \in Seq(Tuple)
    /\ totalGenerated \in Nat
    /\ totalConsumed \in Nat
    /\ stopping \in SUBSET StopCall
    /\ waitFor \in [StopCall -> SUBSET Worker]
    /\ thread \in [Worker -> {"unborn", "running", "exiting", "gone"}]
    /\ stopMsg \in [Worker -> BOOLEAN]
    /\ port \in [Worker -> Seq(Nat)]
    /\ nextBatch \in Nat
    /\ held \in SUBSET Tuple
    /\ released \in SUBSET Tuple
    /\ tried \in SUBSET Tuple
    /\ sigs \in SUBSET (Tuple \X Message)

\* No nonce signs two different messages, whatever the callers retry and
\* however start, stop and worker messages interleave: executeOnlineSign
\* releases the tuple on every path and the queue never hands one out twice.
NonceSignsOnce ==
    \A p, q \in sigs : p[1] = q[1] => p = q

\* A tuple still in the queue was never handed out and never zeroized:
\* consumeTuple always returns a tuple whose k can still be read.
QueuedAreLive ==
    Queued \cap (held \cup released) = {}

\* ingestBatch keeps the queue within queueMaxSize, also when a batch
\* straddles the limit.
QueueBounded ==
    Len(queue) <= QueueMaxSize

\* getStats() accounts for every tuple: what was generated is consumed,
\* queued, or was zeroized by a stop().
StatsConserved ==
    /\ totalConsumed = Cardinality(held)
    /\ totalGenerated =
         totalConsumed + Len(queue) + Cardinality(released \ held)

\* Once the engine is stopped and no stop() is in flight the queue holds no
\* nonce, late batches of workers that ignored STOP included.
StoppedIsEmpty ==
    ~isRunning /\ stopping = {} => queue = <<>>

\* Once the engine is stopped and no stop() is in flight, every thread that
\* still runs has at least been told to stop ("Stop all workers and zeroize
\* the queue.").
StoppedWorkersTold ==
    ~isRunning /\ stopping = {} =>
        \A w \in Worker : thread[w] = "running" => stopMsg[w]

\* A nonce has one attempt.  Whether executeOnlineSign returned a signature or
\* threw half way (a share already released, a gamma that is no point), calling
\* it again with the same tuple, for whatever message, never makes a signature.
OneAttemptPerNonce ==
    [][\A p \in sigs' \ sigs : p[1] \notin tried]_vars

\* Every call of stop() returns, even if its workers have crashed or exited
\* before the call registered its listeners: the 5 s timers guarantee it.
StopReturns ==
    \A c \in StopCall : c \in stopping ~> c \notin stopping

\* The nonce pool seen through the engine's state.
Pool == INSTANCE NoncePool WITH
            Nonce <- Tuple,
            avail <- Queued,
            taken <- held \ released,
            dead  <- released

\* The engine implements the abstract pool: every step of a worker, of
\* start/stop, of the queue or of a caller is a step of the pool or invisible.
ImplementsNoncePool == Pool!PoolSpec

=============================================================================
