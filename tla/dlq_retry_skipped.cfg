SPECIFICATION Spec
CONSTANTS
    w1 = w1
    w2 = w2
    e1 = e1
    e2 = e2
    Garbage = Garbage
    NoWorker = NoWorker
    Workers <- OneWorker
    Events <- OneEvent
    Seeded <- Nobody
    Sockets <- Nobody
    LLMReplies <- MixedLLM
    Flaky <- Nobody
    Down <- Nobody
    MaxRetry = 1
    BaseDelay = 2
    MaxDelay = 3
    WordBits = 4
    MaxFaults = 0
INVARIANT RetryReprocesses
