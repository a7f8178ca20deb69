------------------------------- MODULE Worker -------------------------------
(***************************************************************************)
(* The worker process (cmd/worker): the consumer loop and the dead-letter  *)
(* retry loop, two goroutines that share one handler, the asynchronous     *)
(* Kafka producer each of them owns, and the shutdown sequence that main   *)
(* runs without waiting for either goroutine.                              *)
(*                                                                         *)
(* One pc value per blocking call of a loop:                               *)
(*   poll     in ReadMessage            seen     about to call rdb.Seen    *)
(*   wait     in the backoff select     process  about to call ag.Process  *)
(*   save     about to call the Mongo   persist  about to call             *)
(*            SaveEvent                          db.SaveDecision           *)
(*   requeue  about to call publishRaw  giveup   about to call onFailed    *)
(*   commit   about to call             exited   Run has returned, or the  *)
(*            CommitMessage                      process is gone           *)
(***************************************************************************)
EXTENDS Integers, Platform, Agent

CONSTANTS
    MaxRetry,    \* RETRY_MAX_ATTEMPTS
    BaseDelay,   \* RETRY_BASE_DELAY_MS
    MaxDelay,    \* the cap of backoff (30000)
    WordBits,    \* the width of int (64)
    LLMReplies   \* the replies the provider may give in this instance

ASSUME WorkerAssumption ==
    /\ MaxRetry \in Nat /\ LLMReplies \subseteq Replies
    /\ BaseDelay \in Nat \ {0} /\ MaxDelay \in Nat \ {0} /\ WordBits \in Nat \ {0}

VARIABLES
    stage,    \* worker -> progress of the shutdown sequence
    pc,       \* loop -> where it is
    off,      \* loop -> offset (from 1) of the record in hand, 0 if none
    verdict,  \* loop -> what ag.Process returned for that record
    buf,      \* loop -> records produced and not yet acknowledged
    handled,  \* history: <<topic, offset, fate>> of every record dealt with
    lapse,    \* history: <<event, reason>> for every way to lose an event
    fails,    \* history: event -> errors returned by ag.Process
    passes    \* history: event -> times the idempotency key let it through
              \*          although it had been set (expired) or was not read

ctlVars == <<stage, pc, off, verdict>>
workerVars == <<ctlVars, buf, handled, fails, passes>>

\* A loop is the goroutine of one worker that reads one topic.
Loops == Workers \X Topics

PcValues == {"poll", "wait", "save", "seen", "process", "persist",
             "requeue", "giveup", "commit", "exited"}

\* What became of a record before its offset was committed.
Fates == {"unparseable", "duplicate", "decided", "requeued", "dropped", "gaveup"}

\* Why an event may never reach a conclusion.
Lapses == {"abandoned", "swallowed", "resent", "unsaved", "orphan",
           "refused", "undelivered"}

(***************************************************************************)
(* main's deferred calls run last-in first-out once ctx is cancelled: the  *)
(* dead-letter worker's Close, then the consumer's, each of which flushes  *)
(* its producer, closes it and closes its Kafka consumer.                  *)
(***************************************************************************)
Running == 0
Cancelled == 1
Closing(t) == IF t = "dlq" THEN Cancelled ELSE Cancelled + 3
Flushed(t) == Closing(t) + 1
ProducerClosed(t) == Closing(t) + 2
ConsumerClosed(t) == Closing(t) + 3
Stopped == 8

Ctx(l) == stage[l[1]] = Running                \* ctx.Err() = nil
Rec(l) == log[l[2]][off[l]]                    \* the message in hand
Ev(l) == Rec(l).payload
Busy(l) == pc[l] \notin {"poll", "exited"}

WorkerTypeOK ==
    /\ stage \in [Workers -> 0..Stopped]
    /\ pc \in [Loops -> PcValues]
    /\ off \in [Loops -> Nat]
    /\ verdict \in [Loops -> Outcomes \cup {"none"}]
    /\ buf \in [Loops -> Seq(EventRecords)]
    /\ handled \in SUBSET (Topics \X Nat \X Fates)
    /\ lapse \in SUBSET (Events \X Lapses)
    /\ fails \in [Events -> Nat]
    /\ passes \in [Events -> Nat]

\* Every replica has started and both its goroutines are in ReadMessage.
WorkerInit ==
    /\ stage = [w \in Workers |-> Running]
    /\ pc = [l \in Loops |-> "poll"]
    /\ off = [l \in Loops |-> 0]
    /\ verdict = [l \in Loops |-> "none"]
    /\ buf = [l \in Loops |-> <<>>]
    /\ handled = {}
    /\ lapse = {}
    /\ fails = [e \in Events |-> 0]
    /\ passes = [e \in Events |-> 0]

-----------------------------------------------------------------------------
(* Helpers shared by the steps of a loop *)

Goto(l, p) == pc' = [pc EXCEPT ![l] = p]

\* The record in hand meets its fate.
Settle(l, fate) == handled' = handled \cup {<<l[2], off[l], fate>>}

Lapse(e, why) == lapse' = lapse \cup {<<e, why>>}

\* Variant: a loop that returns where it should continue.
LoopHeadReturns(l) == "exited"

\* The select on ctx.Done() at the head of both loops.
LoopHead(l) == IF Ctx(l) THEN "poll" ELSE "exited"

\* The loop lets go of the record in hand.
Release(l) ==
    /\ off' = [off EXCEPT ![l] = 0]
    /\ verdict' = [verdict EXCEPT ![l] = "none"]

-----------------------------------------------------------------------------
(* Reading *)

\* Variant: enable.auto.commit, the offset is stored when the record is read.
FetchAutoCommit(l) ==
    /\ pc[l] = "poll"
    /\ owner[l[2]] = l[1]
    /\ pos[l[2]] < Len(log[l[2]])
    /\ off' = [off EXCEPT ![l] = pos[l[2]] + 1]
    /\ pos' = [pos EXCEPT ![l[2]] = @ + 1]
    /\ committed' = [committed EXCEPT ![l[2]] = pos[l[2]] + 1]
    /\ UNCHANGED <<stage, verdict, log, owner, storeVars, buf, lapse,
                   fails, passes, faults>>

\* ReadMessage returned the next record: the owner's position advances.
Fetch(l) ==
    /\ pc[l] = "poll"
    /\ owner[l[2]] = l[1]
    /\ pos[l[2]] < Len(log[l[2]])
    /\ off' = [off EXCEPT ![l] = pos[l[2]] + 1]
    /\ pos' = [pos EXCEPT ![l[2]] = @ + 1]
    /\ UNCHANGED <<stage, verdict, log, committed, owner, storeVars, buf, lapse,
                   fails, passes, faults>>

\* Variant: the error of json.Unmarshal is ignored.
ParseAnything(l, i) == Goto(l, "save") /\ UNCHANGED handled

\* json.Unmarshal of the record a loop continues with.
Parse(l, i) ==
    IF log[l[2]][i].payload = Garbage
    THEN /\ handled' = handled \cup {<<l[2], i, "unparseable">>}
         /\ Goto(l, "commit")
    ELSE /\ Goto(l, "save")
         /\ UNCHANGED handled

ConsumerRead(l) ==
    /\ l[2] = "events"
    /\ Fetch(l)
    /\ Parse(l, pos[l[2]] + 1)

\* Variant: gives up one attempt early.
DLQReadEarly(l) ==
    /\ l[2] = "dlq"
    /\ Fetch(l)
    /\ Goto(l, IF log["dlq"][pos["dlq"] + 1].rc + 1 >= MaxRetry THEN "giveup" ELSE "wait")
    /\ UNCHANGED handled

\* Variant: gives up one attempt late.
DLQReadLate(l) ==
    /\ l[2] = "dlq"
    /\ Fetch(l)
    /\ Goto(l, IF log["dlq"][pos["dlq"] + 1].rc > MaxRetry THEN "giveup" ELSE "wait")
    /\ UNCHANGED handled

\* The retry-count header decides between giving up and another attempt.
DLQRead(l) ==
    /\ l[2] = "dlq"
    /\ Fetch(l)
    /\ Goto(l, IF log["dlq"][pos["dlq"] + 1].rc >= MaxRetry THEN "giveup" ELSE "wait")
    /\ UNCHANGED handled

\* ReadMessage timed out or failed: back to the head of the loop.
PollTimeout(l) ==
    /\ pc[l] = "poll"
    /\ Goto(l, LoopHead(l))
    /\ UNCHANGED <<stage, off, verdict, kafkaVars, storeVars, buf, handled, lapse,
                   fails, passes, faults>>

\* The value of an int after arithmetic that may have overflowed.
Wrapped(n) == ((n + 2 ^ (WordBits - 1)) % 2 ^ WordBits) - 2 ^ (WordBits - 1)

\* Variant: the cap is applied to the base delay only.
DelayCapsBase(rc) ==
    Wrapped((IF BaseDelay > MaxDelay THEN MaxDelay ELSE BaseDelay) * 2 ^ rc)

\* backoff: how long a record with this header waits; a negative duration
\* is no wait at all.
Delay(rc) ==
    LET ms == Wrapped(BaseDelay * 2 ^ rc) IN IF ms > MaxDelay THEN MaxDelay ELSE ms

\* The backoff elapsed; the record is parsed only now.
Backoff(l) ==
    /\ pc[l] = "wait"
    /\ Parse(l, off[l])
    /\ UNCHANGED <<stage, off, verdict, kafkaVars, storeVars, buf, lapse,
                   fails, passes, faults>>

\* Variant: commits the record before it returns.
BackoffCancelledCommits(l) ==
    /\ pc[l] = "wait"
    /\ ~Ctx(l)
    /\ committed' = [committed EXCEPT ![l[2]] = off[l]]
    /\ Goto(l, "exited")
    /\ Release(l)
    /\ UNCHANGED <<stage, log, owner, pos, storeVars, buf, handled, lapse, fails,
                   passes, faults>>

\* ctx was cancelled during the backoff: Run returns without committing.
BackoffCancelled(l) ==
    /\ pc[l] = "wait"
    /\ ~Ctx(l)
    /\ Goto(l, "exited")
    /\ Release(l)
    /\ UNCHANGED <<stage, kafkaVars, storeVars, buf, handled, lapse, fails,
                   passes, faults>>

-----------------------------------------------------------------------------
(* The handler of cmd/worker/main.go; a call fails once ctx is cancelled *)

\* Variant: only the consumer loop stores the raw document.
SaveRawOnce(l) ==
    /\ pc[l] = "save"
    /\ IF l[2] = "events" /\ Ctx(l) THEN mongo' = mongo \cup {Ev(l)} ELSE UNCHANGED mongo
    /\ Goto(l, "seen")
    /\ UNCHANGED <<stage, off, verdict, kafkaVars, seen, pgEvents, rows, buf,
                   handled, lapse, fails, passes, faults>>

\* mdb.SaveEvent: an upsert by id; a failure is only logged.
SaveRaw(l) ==
    /\ pc[l] = "save"
    /\ \/ Ctx(l) /\ Answers("mongo") /\ mongo' = mongo \cup {Ev(l)}
       \/ (~Ctx(l) \/ MayFail("mongo")) /\ UNCHANGED mongo
    /\ Goto(l, "seen")
    /\ UNCHANGED <<stage, off, verdict, kafkaVars, seen, pgEvents, rows, buf,
                   handled, lapse, fails, passes, faults>>

\* Variant: EXISTS in place of SET NX.
SeenLookup(l) ==
    /\ Ctx(l) /\ Answers("redis")
    /\ Ev(l) \notin seen
    /\ Goto(l, "process")
    /\ UNCHANGED <<seen, handled, lapse, passes>>

\* SET NX created the key: this caller processes the event.
SeenFirst(l) ==
    /\ Ctx(l) /\ Answers("redis")
    /\ Ev(l) \notin seen
    /\ seen' = seen \cup {Ev(l)}
    /\ Goto(l, "process")
    /\ UNCHANGED <<handled, lapse, passes>>

\* The key exists: the handler returns nil, on the retry loop as well.
SeenDuplicate(l) ==
    /\ Ctx(l) /\ Answers("redis")
    /\ Ev(l) \in seen
    /\ Settle(l, "duplicate")
    /\ IF l[2] = "dlq" THEN Lapse(Ev(l), "swallowed") ELSE UNCHANGED lapse
    /\ Goto(l, "commit")
    /\ UNCHANGED <<seen, passes>>

\* The key was created, the reply was lost, and the client's own retry of the
\* command (three by default) finds the key: the handler returns nil.
SeenResent(l) ==
    /\ Ctx(l) /\ Answers("redis") /\ MayFail("redis")
    /\ Ev(l) \notin seen
    /\ seen' = seen \cup {Ev(l)}
    /\ Settle(l, "duplicate")
    /\ Lapse(Ev(l), "resent")
    /\ Goto(l, "commit")
    /\ UNCHANGED passes

\* Variant: an error of Seen skips the event.
SeenErrorSkips(l) ==
    /\ ~Ctx(l) \/ MayFail("redis")
    /\ Settle(l, "duplicate")
    /\ Goto(l, "commit")
    /\ UNCHANGED <<seen, lapse, passes>>

\* The call and its retries failed, its effect unknown: "processing anyway".
SeenError(l) ==
    /\ ~Ctx(l) \/ MayFail("redis")
    /\ \/ UNCHANGED seen
       \/ Ctx(l) /\ Answers("redis") /\ seen' = seen \cup {Ev(l)}
    /\ passes' = [passes EXCEPT ![Ev(l)] = @ + 1]
    /\ Goto(l, "process")
    /\ UNCHANGED <<handled, lapse>>

CheckSeen(l) ==
    /\ pc[l] = "seen"
    /\ SeenFirst(l) \/ SeenDuplicate(l) \/ SeenResent(l) \/ SeenError(l)
    /\ UNCHANGED <<stage, off, verdict, kafkaVars, pgEvents, rows, mongo, buf,
                   fails, faults>>

\* ag.Process; Complete fails when ctx is cancelled, except the mock's.
Process(l) ==
    /\ pc[l] = "process"
    /\ \E reply \in LLMReplies \cup (IF Ctx(l) THEN {} ELSE {"no_answer"}) :
          /\ verdict' = [verdict EXCEPT ![l] = Outcome(reply)]
          /\ fails' = [fails EXCEPT ![Ev(l)] =
                         IF Outcome(reply) = "error" THEN @ + 1 ELSE @]
    /\ Goto(l, "persist")
    /\ UNCHANGED <<stage, off, kafkaVars, storeVars, buf, handled, lapse,
                   passes, faults>>

\* Variant: one row per event, ON CONFLICT (event_id) DO UPDATE.
SaveDecisionUpserts(l, e, s) ==
    /\ Ctx(l) /\ Answers("postgres")
    /\ rows' = [rows EXCEPT ![e] = [t \in Statuses |-> IF t = s THEN 1 ELSE 0]]
    /\ UNCHANGED lapse

\* Variant: stores with context.Background(), so that a shutdown loses no row.
SaveDecisionDetached(l, e, s) ==
    \/ /\ Answers("postgres")
       /\ e \in pgEvents
       /\ rows' = [rows EXCEPT ![e][s] = @ + 1]
       /\ UNCHANGED lapse
    \/ /\ Answers("postgres")
       /\ e \notin pgEvents
       /\ Lapse(e, "orphan")
       /\ UNCHANGED rows
    \/ /\ MayFail("postgres")
       /\ Lapse(e, "unsaved")
       /\ UNCHANGED rows

(***************************************************************************)
(* db.SaveDecision inserts a row unless the event is missing from the      *)
(* events table (decisions.event_id REFERENCES events(id)).  An error is   *)
(* only logged, so a call that inserts its row and then fails is the       *)
(* first case too.                                                         *)
(***************************************************************************)
SaveDecision(l, e, s) ==
    \/ /\ Ctx(l) /\ Answers("postgres")
       /\ e \in pgEvents
       /\ rows' = [rows EXCEPT ![e][s] = @ + 1]
       /\ UNCHANGED lapse
    \/ /\ Ctx(l) /\ Answers("postgres")
       /\ e \notin pgEvents
       /\ Lapse(e, "orphan")
       /\ UNCHANGED rows
    \/ /\ ~Ctx(l) \/ MayFail("postgres")
       /\ Lapse(e, "unsaved")
       /\ UNCHANGED rows

Persist(l) ==
    /\ pc[l] = "persist"
    /\ SaveDecision(l, Ev(l), StatusOf(verdict[l]))
    /\ IF verdict[l] = "error"
       THEN Goto(l, "requeue") /\ UNCHANGED handled
       ELSE Goto(l, "commit") /\ Settle(l, "decided")
    /\ UNCHANGED <<stage, off, verdict, kafkaVars, seen, pgEvents, mongo, buf,
                   fails, passes, faults>>

-----------------------------------------------------------------------------
(* After a handler error, and after the last retry *)

\* The retry-count header of the copy: toDLQ writes 0, mergeHeaders rc + 1.
NextRc(l) == IF l[2] = "events" THEN 0 ELSE Rec(l).rc + 1

\* Variant: commits without sending the record to the DLQ.
RequeueNothing(l) ==
    /\ pc[l] = "requeue"
    /\ Settle(l, "requeued")
    /\ Goto(l, "commit")
    /\ UNCHANGED <<stage, off, verdict, kafkaVars, storeVars, buf, lapse, fails,
                   passes, faults>>

\* Variant: drops the record when the next attempt would be the give-up.
RequeueUnlessLast(l) ==
    /\ pc[l] = "requeue"
    /\ buf' = [buf EXCEPT ![l] = IF NextRc(l) >= MaxRetry THEN @
                   ELSE Append(@, [payload |-> Ev(l), rc |-> NextRc(l)])]
    /\ Settle(l, "requeued")
    /\ Goto(l, "commit")
    /\ UNCHANGED <<stage, off, verdict, kafkaVars, storeVars, lapse, fails,
                   passes, faults>>

\* publishRaw: Produce only queues the copy; an error is logged.
Requeue(l) ==
    /\ pc[l] = "requeue"
    /\ \/ /\ stage[l[1]] < ProducerClosed(l[2])
          /\ buf' = [buf EXCEPT ![l] = Append(@, [payload |-> Ev(l), rc |-> NextRc(l)])]
          /\ Settle(l, "requeued")
          /\ UNCHANGED lapse
       \/ /\ stage[l[1]] >= ProducerClosed(l[2]) \/ MayFail("produce")
          /\ Settle(l, "dropped")
          /\ Lapse(Ev(l), "refused")
          /\ UNCHANGED buf
    /\ Goto(l, "commit")
    /\ UNCHANGED <<stage, off, verdict, kafkaVars, storeVars, fails, passes, faults>>

\* Variant: no OnPermanentFailure callback is registered.
GiveUpSilently(l) ==
    /\ pc[l] = "giveup"
    /\ Settle(l, "gaveup")
    /\ Goto(l, "commit")
    /\ UNCHANGED <<stage, off, verdict, kafkaVars, storeVars, buf, lapse, fails,
                   passes, faults>>

\* onFailed: the permanently_failed row, unless the value does not parse.
GiveUp(l) ==
    /\ pc[l] = "giveup"
    /\ \/ Ev(l) = Garbage /\ UNCHANGED <<rows, lapse>>
       \/ Ev(l) # Garbage /\ SaveDecision(l, Ev(l), "permanently_failed")
    /\ Settle(l, "gaveup")
    /\ Goto(l, "commit")
    /\ UNCHANGED <<stage, off, verdict, kafkaVars, seen, pgEvents, mongo, buf,
                   fails, passes, faults>>

(***************************************************************************)
(* CommitMessage stores offset + 1 for the group; an error is only logged. *)
(* A loop that lost its partition while it worked may still get through.   *)
(***************************************************************************)
CommitSucceeds(l) ==
    /\ stage[l[1]] < ConsumerClosed(l[2])
    /\ committed' = [committed EXCEPT ![l[2]] = off[l]]
    /\ UNCHANGED faults

CommitFails(l) ==
    /\ \/ Fault("commit")
       \/ /\ stage[l[1]] >= ConsumerClosed(l[2]) \/ owner[l[2]] # l[1]
          /\ UNCHANGED faults
    /\ UNCHANGED committed

Commit(l) ==
    /\ pc[l] = "commit"
    /\ CommitSucceeds(l) \/ CommitFails(l)
    /\ Goto(l, LoopHead(l))
    /\ Release(l)
    /\ UNCHANGED <<stage, log, owner, pos, storeVars, buf, handled, lapse,
                   fails, passes>>

LoopStep(l) ==
    \/ ConsumerRead(l) \/ DLQRead(l) \/ PollTimeout(l)
    \/ Backoff(l) \/ BackoffCancelled(l)
    \/ SaveRaw(l) \/ CheckSeen(l) \/ Process(l) \/ Persist(l)
    \/ Requeue(l) \/ GiveUp(l) \/ Commit(l)

-----------------------------------------------------------------------------
(* The producer's background thread; delivery reports are only logged *)

Deliver(l) ==
    /\ buf[l] # <<>>
    /\ AppendTo("dlq", Head(buf[l]))
    /\ buf' = [buf EXCEPT ![l] = Tail(@)]
    /\ UNCHANGED <<ctlVars, committed, owner, pos, storeVars, handled, lapse,
                   fails, passes, faults>>

\* retries = 3 without idempotence: a lost acknowledgement writes it twice.
DeliverTwice(l) ==
    /\ buf[l] # <<>>
    /\ Fault("duplicate")
    /\ AppendTo("dlq", Head(buf[l]))
    /\ UNCHANGED <<ctlVars, buf, committed, owner, pos, storeVars, handled, lapse,
                   fails, passes>>

DeliveryFails(l) ==
    /\ buf[l] # <<>>
    /\ MayFail("delivery")
    /\ buf' = [buf EXCEPT ![l] = Tail(@)]
    /\ Lapse(Head(buf[l]).payload, "undelivered")
    /\ UNCHANGED <<ctlVars, kafkaVars, storeVars, handled, fails, passes, faults>>

ProducerStep(l) == Deliver(l) \/ DeliverTwice(l) \/ DeliveryFails(l)

-----------------------------------------------------------------------------
(* Group membership *)

\* An unowned partition goes to a live member, which resumes at the
\* committed offset (auto.offset.reset = earliest when there is none).
Assign(t, w) ==
    /\ owner[t] = NoWorker
    /\ stage[w] < ConsumerClosed(t)
    /\ owner' = [owner EXCEPT ![t] = w]
    /\ pos' = [pos EXCEPT ![t] = committed[t]]
    /\ UNCHANGED <<log, committed, storeVars, workerVars, lapse, faults>>

\* The group rebalances while its members work (max.poll.interval.ms, a
\* replica joining): the partition moves, or comes back to the same member.
Rebalance(t, w) ==
    /\ Fault("rebalance")
    /\ owner[t] # NoWorker
    /\ stage[w] < ConsumerClosed(t)
    /\ owner' = [owner EXCEPT ![t] = w]
    /\ pos' = [pos EXCEPT ![t] = committed[t]]
    /\ UNCHANGED <<log, committed, storeVars, workerVars, lapse>>

\* seenTTL: the key of an event nobody is working on expires.
Expire(e) ==
    /\ Fault("expire")
    /\ e \in seen
    /\ \A l \in Loops : Busy(l) => Ev(l) # e
    /\ seen' = seen \ {e}
    /\ passes' = [passes EXCEPT ![e] = @ + 1]
    /\ UNCHANGED <<kafkaVars, pgEvents, rows, mongo, ctlVars, buf, handled, lapse,
                   fails>>

-----------------------------------------------------------------------------
(* Shutdown, death and restart *)

\* SIGTERM cancels ctx; main leaves its select and starts the deferred calls.
Sigterm(w) ==
    /\ Fault("sigterm")
    /\ stage[w] = Running
    /\ stage' = [stage EXCEPT ![w] = Cancelled]
    /\ UNCHANGED <<kafkaVars, storeVars, pc, off, verdict, buf, handled, lapse,
                   fails, passes>>

\* Flush(5000) waits for the queue to empty, or for five seconds.
FlushProducer(w, t) ==
    /\ stage[w] = Closing(t)
    /\ buf[<<w, t>>] = <<>> \/ MayFail("delivery")
    /\ stage' = [stage EXCEPT ![w] = Flushed(t)]
    /\ UNCHANGED <<kafkaVars, storeVars, pc, off, verdict, buf, handled, lapse,
                   fails, passes, faults>>

\* Events with a copy in the producer queue of a loop in ls.
Queued(ls) == {e \in Events : \E l \in ls : \E i \in 1..Len(buf[l]) : buf[l][i].payload = e}

\* p.Close drops what was produced after the flush.
CloseProducer(w, t) ==
    /\ stage[w] = Flushed(t)
    /\ stage' = [stage EXCEPT ![w] = ProducerClosed(t)]
    /\ lapse' = lapse \cup (Queued({<<w, t>>}) \X {"undelivered"})
    /\ buf' = [buf EXCEPT ![<<w, t>>] = <<>>]
    /\ UNCHANGED <<kafkaVars, storeVars, pc, off, verdict, handled, fails,
                   passes, faults>>

\* Closing the consumer leaves the group.
CloseConsumer(w, t) ==
    /\ stage[w] = ProducerClosed(t)
    /\ stage' = [stage EXCEPT ![w] = ConsumerClosed(t)]
    /\ owner' = [owner EXCEPT ![t] = IF @ = w THEN NoWorker ELSE @]
    /\ UNCHANGED <<log, committed, pos, storeVars, pc, off, verdict, buf, handled,
                   lapse, fails, passes, faults>>

\* Events a loop of w had set the key of and not yet passed on.
Abandoned(w) ==
    {e \in seen : \E t \in Topics :
        pc[<<w, t>>] \in {"process", "persist", "requeue"} /\ Ev(<<w, t>>) = e}

\* Both goroutines end with the process, wherever they are.
Die(w) ==
    LET mine == {w} \X Topics IN
    /\ stage' = [stage EXCEPT ![w] = Stopped]
    /\ pc' = [l \in Loops |-> IF l \in mine THEN "exited" ELSE pc[l]]
    /\ off' = [l \in Loops |-> IF l \in mine THEN 0 ELSE off[l]]
    /\ verdict' = [l \in Loops |-> IF l \in mine THEN "none" ELSE verdict[l]]
    /\ buf' = [l \in Loops |-> IF l \in mine THEN <<>> ELSE buf[l]]
    /\ owner' = [t \in Topics |-> IF owner[t] = w THEN NoWorker ELSE owner[t]]
    /\ lapse' = lapse \cup (Abandoned(w) \X {"abandoned"})
                      \cup (Queued(mine) \X {"undelivered"})
    /\ UNCHANGED <<log, committed, pos, storeVars, handled, fails, passes>>

\* main returns after the deferred calls.
Exit(w) ==
    /\ stage[w] = ConsumerClosed("events")
    /\ Die(w)
    /\ UNCHANGED faults

\* A worker that is already stopping may be killed at any moment, at the end
\* of the pod's grace period.
Crash(w) ==
    /\ stage[w] # Stopped
    /\ Fault("crash") \/ (stage[w] # Running /\ UNCHANGED faults)
    /\ Die(w)

\* Variant: only the consumer goroutine is started.
RestartConsumerOnly(w) ==
    /\ stage[w] = Stopped
    /\ stage' = [stage EXCEPT ![w] = Running]
    /\ pc' = [pc EXCEPT ![<<w, "events">>] = "poll"]
    /\ UNCHANGED <<kafkaVars, storeVars, off, verdict, buf, handled, lapse,
                   fails, passes, faults>>

\* main starts again; it needs all three stores to answer its pings.
Restart(w) ==
    /\ stage[w] = Stopped
    /\ \A s \in {"postgres", "mongo", "redis"} : Answers(s)
    /\ stage' = [stage EXCEPT ![w] = Running]
    /\ pc' = [l \in Loops |-> IF l[1] = w THEN "poll" ELSE pc[l]]
    /\ UNCHANGED <<kafkaVars, storeVars, off, verdict, buf, handled, lapse,
                   fails, passes, faults>>

ShutdownStep(w) ==
    \/ \E t \in Topics : FlushProducer(w, t) \/ CloseProducer(w, t) \/ CloseConsumer(w, t)
    \/ Exit(w)

-----------------------------------------------------------------------------
WorkerNext ==
    \/ \E l \in Loops : LoopStep(l) \/ ProducerStep(l)
    \/ \E t \in Topics, w \in Workers : Assign(t, w) \/ Rebalance(t, w)
    \/ \E e \in Events : Expire(e)
    \/ \E w \in Workers : Sigterm(w) \/ ShutdownStep(w) \/ Crash(w) \/ Restart(w)

=============================================================================
