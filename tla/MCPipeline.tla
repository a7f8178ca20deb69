----------------------------- MODULE MCPipeline -----------------------------
(***************************************************************************)
(* Instances of Pipeline for TLC.  Replicas are interchangeable, and so    *)
(* are events that come from the same source, in the runs that check only  *)
(* invariants.                                                             *)
(***************************************************************************)
EXTENDS Pipeline, TLC

CONSTANTS w1, w2, e1, e2

OneWorker == {w1}
TwoWorkers == {w1, w2}
OneEvent == {e1}
TwoEvents == {e1, e2}
SecondEvent == {e2}
Nobody == {}

WorkerSymmetry == Permutations({w1, w2})

\* Providers: one that always gets it right, one that never does, and both.
GoodLLM == Actions
BadLLM == Replies \ Actions
MixedLLM == GoodLLM \cup BadLLM

\* Which faults an instance allows.
ReplicaFaults == {"crash", "rebalance", "commit", "foreign", "api_stop"}
DeliveryFaults == {"rebalance", "duplicate", "expire", "redis"}
StoreFaults == {"mongo", "postgres", "produce", "delivery", "api_crash",
                "api_stop", "overrun", "foreign"}
LivenessFaults == {"crash", "sigterm", "rebalance", "commit", "api_crash",
                   "api_stop", "overrun", "produce", "delivery"}
SigtermOnly == {"sigterm"}
CrashOnly == {"crash"}
RebalanceOnly == {"rebalance"}
RedisOnly == {"redis"}

=============================================================================
