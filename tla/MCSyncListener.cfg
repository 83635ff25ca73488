SPECIFICATION Spec
CONSTANTS
    Count = 2
    QueueSize <- MCQueueSize
    WorkerCount <- MCWorkerCount
    RetryDelay = 2
    MaxRetryDelay = 3
    MaxRevision = 3
    MaxFailures = 1
    MaxStops = 1
INVARIANTS
    AtMostOnce
    NothingForgotten
PROPERTIES
    InOrder
    EveryOperationHandled
    CancelledReturns
