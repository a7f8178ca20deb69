SPECIFICATION Spec
CONSTANTS
    w1 = w1
    w2 = w2
    e1 = e1
    e2 = e2
    Garbage = Garbage
    NoWorker = NoWorker
    Workers <- TwoWorkers
    Events <- OneEvent
    Seeded <- Nobody
    Sockets <- OneEvent
    LLMReplies <- MixedLLM
    Flaky <- ReplicaFaults
    Down <- Nobody
    MaxRetry = 1
    BaseDelay = 2
    MaxDelay = 3
    WordBits = 4
    MaxFaults = 3
SYMMETRY WorkerSymmetry
INVARIANTS TypeOK AtLeastOnce NoUnexplainedLoss AcceptedAccounted
