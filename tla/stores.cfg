SPECIFICATION Spec
CONSTANTS
    w1 = w1
    w2 = w2
    e1 = e1
    e2 = e2
    Garbage = Garbage
    NoWorker = NoWorker
    Workers <- OneWorker
    Events <- TwoEvents
    Seeded <- SecondEvent
    Sockets <- OneEvent
    LLMReplies <- MixedLLM
    Flaky <- StoreFaults
    Down <- Nobody
    MaxRetry = 0
    BaseDelay = 2
    MaxDelay = 3
    WordBits = 4
    MaxFaults = 1
INVARIANTS OrphansAreSeeded NoUnexplainedLoss AcceptedAccounted
