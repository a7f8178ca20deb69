------------------------------ MODULE Pipeline ------------------------------
(***************************************************************************)
(* EventMind as a whole: the ingestion path and the worker replicas,       *)
(* joined by the two topics and the stores of Platform.                    *)
(***************************************************************************)
EXTENDS Worker, Ingest

vars == <<kafkaVars, storeVars, faults, workerVars, lapse, ingestVars>>

Init == PlatformInit /\ WorkerInit /\ IngestInit

ServiceNext == \E t \in Topics : ForeignRecord(t)

Next ==
    \/ WorkerNext /\ UNCHANGED ingestVars
    \/ IngestNext /\ UNCHANGED <<workerVars, lapse>>
    \/ ServiceNext /\ UNCHANGED <<workerVars, lapse, ingestVars>>

Spec == Init /\ [][Next]_vars

(***************************************************************************)
(* Fairness: a goroutine that can run does, a request that was accepted is *)
(* served to its end, librdkafka's thread delivers (or reports the loss),  *)
(* the group assigns a free partition, a process that stops goes on to its *)
(* exit and is restarted (deployment restartPolicy).  Faults are not fair, *)
(* and neither is the arrival of requests.                                 *)
(***************************************************************************)
Fairness ==
    /\ \A l \in Loops :
          /\ WF_vars(LoopStep(l) /\ UNCHANGED ingestVars)
          /\ WF_vars((Deliver(l) \/ DeliveryFails(l)) /\ UNCHANGED ingestVars)
    /\ \A t \in Topics : WF_vars(\E w \in Workers : Assign(t, w) /\ UNCHANGED ingestVars)
    /\ \A w \in Workers :
          WF_vars((ShutdownStep(w) \/ Restart(w)) /\ UNCHANGED ingestVars)
    /\ \A e \in Events :
          /\ WF_vars(HandlerStep(e) /\ UNCHANGED <<workerVars, lapse>>)
          /\ WF_vars((DeliverEvent(e) \/ EventDeliveryFails(e))
                        /\ UNCHANGED <<workerVars, lapse>>)
    /\ WF_vars((StopStep \/ ApiRestart) /\ UNCHANGED <<workerVars, lapse>>)

FairSpec == Spec /\ Fairness

-----------------------------------------------------------------------------
(* Vocabulary of the properties *)

HasFate(t, i) == \E f \in Fates : <<t, i, f>> \in handled

\* The decisions table holds a final word on e.
Concluded(e) == rows[e]["completed"] > 0 \/ rows[e]["permanently_failed"] > 0

OnLog(t, e, from) == \E i \in from..Len(log[t]) : log[t][i].payload = e

\* Some part of the system still has e and has not finished with it.
InFlight(e) ==
    \/ \E l \in Loops : Busy(l) /\ pc[l] # "commit" /\ Ev(l) = e
    \/ e \in Queued(Loops)
    \/ \E t \in Topics : OnLog(t, e, committed[t] + 1)

Lapsed(e) == \E why \in Lapses : <<e, why>> \in lapse

\* e missed the events topic for a known cause.
Lost(e) == \E why \in Causes : <<e, why>> \in lost

-----------------------------------------------------------------------------
(* Safety *)

\* Every variable keeps its type.
TypeOK == PlatformTypeOK /\ WorkerTypeOK /\ IngestTypeOK

(***************************************************************************)
(* At-least-once (Run in consumer.go and dlq.go commits only after the     *)
(* handler): no offset of a topic is passed by its group's committed       *)
(* offset before some replica has dealt with that record, whatever         *)
(* rebalances, failed commits, shutdowns and crashes came in between.      *)
(***************************************************************************)
AtLeastOnce == \A t \in Topics : \A i \in 1..committed[t] : HasFate(t, i)

(***************************************************************************)
(* Nothing disappears without a cause: an event whose message reached the  *)
(* events topic is concluded in Postgres, or still in flight, or was lost  *)
(* for one of the causes in Lapses: a line of the code that only logs an   *)
(* error or skips a retry, a process that ended with the event in hand, or *)
(* a Redis reply that was lost.                                            *)
(***************************************************************************)
NoUnexplainedLoss ==
    \A e \in Events : OnLog("events", e, 1) => Concluded(e) \/ InFlight(e) \/ Lapsed(e)

(***************************************************************************)
(* A stop of the API loses nothing it has accepted and waits for (main of  *)
(* cmd/api: Shutdown first, then the producer's Close): an acknowledged    *)
(* event is on the topic or on its way, unless a cause is on record.  Only *)
(* a detached request, over a WebSocket or one that outlived Shutdown, may *)
(* be left unanswered short of a kill, be acknowledged when the producer   *)
(* is closed already, or miss a flush whose deliveries all succeed.        *)
(***************************************************************************)
AcceptedAccounted ==
    \A e \in Events :
        /\ req[e] = "acked" => e \in outbox \/ OnLog("events", e, 1) \/ Lost(e)
        /\ req[e] = "aborted" => e \in detached \/ <<e, "killed">> \in lost
        /\ \/ <<e, "closed">> \in lost
           \/ <<e, "unflushed">> \in lost /\ ~MayFail("delivery")
           => e \in detached

(***************************************************************************)
(* Idempotency (Seen in redis.go, used by the handler of cmd/worker): the  *)
(* agent's attempts at an event, those recorded completed and those that   *)
(* failed, are at most one, and one more for each time its key was absent  *)
(* again or could not be read, however often the record is delivered.      *)
(***************************************************************************)
IdempotentEffects ==
    \A e \in Events : rows[e]["completed"] + fails[e] <= 1 + passes[e]

(***************************************************************************)
(* While Redis answers and no key expires, an event is recorded completed  *)
(* once, across crashes and shutdowns too.  A handler that SIGTERM met     *)
(* before Seen goes on without a key (cmd/worker: "processing anyway");    *)
(* the ctx that made Seen fail keeps it from storing its decision, which   *)
(* another replica may be making of the same record.                       *)
(***************************************************************************)
CompletedOnce ==
    ~MayFail("redis") /\ "expire" \notin Flaky =>
        \A e \in Events : rows[e]["completed"] <= 1

(***************************************************************************)
(* The retry budget (dlq.go, retry-count): an event is declared            *)
(* permanently failed only after one failed attempt on the events topic    *)
(* and RETRY_MAX_ATTEMPTS failed retries, even when records are delivered  *)
(* twice, out of turn, or by several replicas.                             *)
(***************************************************************************)
PermanentFailureEarned ==
    \A e \in Events : rows[e]["permanently_failed"] > 0 => fails[e] >= MaxRetry + 1

(***************************************************************************)
(* The other side of the budget (dlq.go, Run and mergeHeaders): a failed   *)
(* retry never puts back a copy whose header exceeds RETRY_MAX_ATTEMPTS,   *)
(* so no line of copies, whoever handles them, is retried once too often.  *)
(***************************************************************************)
RetriesWithinBudget == \A i \in 1..Len(log["dlq"]) : log["dlq"][i].rc <= MaxRetry

(***************************************************************************)
(* The backoff (dlq.go, backoff): a retry always waits, never longer than  *)
(* the cap, and never longer than the failures of its event justify; the   *)
(* doubling does not wrap within the retry budget, however the header got  *)
(* its value across duplicates and replicas.                               *)
(***************************************************************************)
BackoffEarned ==
    \A l \in Loops : pc[l] = "wait" /\ Ev(l) \in Events =>
        /\ Delay(Rec(l).rc) \in 1..MaxDelay
        /\ Delay(Rec(l).rc) <= BaseDelay * 2 ^ (fails[Ev(l)] - 1)

(***************************************************************************)
(* SaveEvent before Publish (ingestEvent, IngestEvent) keeps the foreign   *)
(* key of decisions satisfied: only an event the seed script published     *)
(* can lose a decision to it.                                              *)
(***************************************************************************)
OrphansAreSeeded == \A e \in Events : <<e, "orphan">> \in lapse => e \in Seeded

(***************************************************************************)
(* "raw document to Mongo regardless of processing outcome" (main.go):     *)
(* while Mongo answers, an event with a completed decision has its raw     *)
(* document, even when the handler ran across a shutdown.                  *)
(***************************************************************************)
RawKept ==
    ~MayFail("mongo") => \A e \in Events : rows[e]["completed"] > 0 => e \in mongo

-----------------------------------------------------------------------------
(* Refinement *)

Tables == INSTANCE Ledger WITH
              events <- pgEvents, rows <- rows, failures <- fails, grants <- passes

(***************************************************************************)
(* The tables keep the promise of Ledger (SaveEvent, SaveDecision and      *)
(* onFailed), whatever replicas, redeliveries, duplicated records and      *)
(* crashes put in between: rows are only added, on stored events; each     *)
(* completed or failed row has an attempt of its own, and a give-up, which *)
(* a redelivery may record again, only comes once the budget is spent.     *)
(***************************************************************************)
KeepsLedger == Tables!LedgerSpec

-----------------------------------------------------------------------------
(* Liveness *)

\* Every record of a topic is eventually dealt with, across rebalances,
\* crashes, shutdowns, restarts and failed commits (both Run loops).
BacklogHandled ==
    \A t \in Topics : []<>(\A i \in 1..Len(log[t]) : HasFate(t, i))

(***************************************************************************)
(* A client that was answered 201 (ingestEvent) has its event concluded in *)
(* the end, unless its message never reached Kafka or the event was lost   *)
(* for one of the named causes: the pipeline never just holds on to it.    *)
(***************************************************************************)
AckedSettles ==
    \A e \in Events : req[e] = "acked" ~> Concluded(e) \/ Lapsed(e) \/ Lost(e)

(***************************************************************************)
(* The retry chain ends (dlq.go): while the idempotency check is out of    *)
(* the way (Redis unreachable, "processing anyway"), every event of the    *)
(* events topic ends as completed or permanently_failed.                   *)
(***************************************************************************)
RetryChainEnds == \A e \in Events : OnLog("events", e, 1) ~> Concluded(e)

-----------------------------------------------------------------------------
(* What the documentation says and the code does not do *)

\* docs/architecture.md, step 14a: the DLQ worker "Re-attempts Agent.Process",
\* so no retried record is skipped as a duplicate.
RetryReprocesses == \A i \in 1..Len(log["dlq"]) : <<"dlq", i, "duplicate">> \notin handled

\* consumer.go: "sends to DLQ, then commits. We never lose the message": a
\* committed event whose handler failed is on the DLQ, or on its way.
NeverLoseMessage ==
    \A i \in 1..committed["events"] :
        LET e == log["events"][i].payload IN
        e \in Events /\ fails[e] > 0 => OnLog("dlq", e, 1) \/ e \in Queued(Loops)

\* README: the worker "writes the full decision record ... to Postgres": an
\* event the agent has decided has a row in the decisions table.
DecisionRecorded ==
    \A i \in 1..Len(log["events"]) :
        <<"events", i, "decided">> \in handled => Decided(log["events"][i].payload)

\* redis.go: "Seen returns true if this event ID has already been processed":
\* a skipped event has a decision, or is being processed right now.
SeenMeansProcessed ==
    \A i \in 1..Len(log["events"]) :
        LET e == log["events"][i].payload IN
        <<"events", i, "duplicate">> \in handled =>
            \/ Decided(e)
            \/ \E l \in Loops : pc[l] \in {"process", "persist"} /\ Ev(l) = e

=============================================================================
