SPECIFICATION Spec
CONSTANTS
    w1 = w1
    w2 = w2
    s1 = s1
    s2 = s2
    m1 = m1
    m2 = m2
    Worker <- MCWorker
    StopCall <- MCStopCall
    Message <- MCMessage
    WorkerCount = 1
    BatchSize = 1
    QueueMaxSize = 1
    MaxBatches = 1
INVARIANTS
    StoppedWorkersTold
CHECK_DEADLOCK FALSE
