---------------------------- MODULE IngestProofs ----------------------------
(***************************************************************************)
(* The foreign key of the decisions table.  Both ingestion handlers write  *)
(* the event to Postgres before they publish it, so whatever is on a topic *)
(* or on its way to one is in the events table, unless the seed script     *)
(* published it; nothing is ever deleted from that table.                  *)
(***************************************************************************)
EXTENDS PipelineProofs

\* The event is in the events table, or the seed script created it.
Known(e) == e \in Seeded \cup pgEvents

SavedFirst == \A e \in Events : req[e] = "saved" => Known(e)

OutboxKnown == \A e \in outbox : Known(e)

LogKnown ==
    \A t \in Topics : \A i \in 1..Len(log[t]) :
        log[t][i].payload \in Events => Known(log[t][i].payload)

QueueKnown == \A l \in Loops : \A i \in 1..Len(buf[l]) : Known(buf[l][i].payload)

OriginInv == SavedFirst /\ OutboxKnown /\ LogKnown /\ QueueKnown /\ OrphansAreSeeded

USE PlatformAssumption, WorkerAssumption, IngestAssumption

-----------------------------------------------------------------------------
(* Nothing was requested, published or lost initially. *)
LEMMA InitOrigin == Init => OriginInv
  BY DEF Init, PlatformInit, WorkerInit, IngestInit, OriginInv, SavedFirst, OutboxKnown, LogKnown,
         QueueKnown, OrphansAreSeeded

(* The invariant only asks where new entries come from. *)
LEMMA OriginFrame ==
    ASSUME TypeInv, TypeInv', OriginInv, pgEvents \subseteq pgEvents',
           \A e \in Events : req'[e] = "saved" => req[e] = "saved" \/ Known(e)',
           \A e \in outbox' : e \in outbox \/ Known(e)',
           \/ UNCHANGED log
           \/ \E t \in Topics, r \in Record :
                 AppendTo(t, r) /\ (r.payload \in Events => Known(r.payload)'),
           \A l \in Loops : \A i \in 1..Len(buf'[l]) :
              \/ \E j \in 1..Len(buf[l]) : buf'[l][i] = buf[l][j]
              \/ Known(buf'[l][i].payload),
           \A e \in Events : <<e, "orphan">> \in lapse' => <<e, "orphan">> \in lapse \/ e \in Seeded
    PROVE  OriginInv'
  <1>a. TypeOK
    BY DEF TypeInv
  <1>1. \A e : Known(e) => Known(e)'
    BY DEF Known
  <1>2. SavedFirst' /\ OutboxKnown'
    BY <1>1 DEF OriginInv, SavedFirst, OutboxKnown
  <1>3. LogKnown'
    <2>1. CASE UNCHANGED log
      BY <1>1, <2>1 DEF OriginInv, LogKnown
    <2>2. ASSUME NEW t \in Topics, NEW r \in Record, AppendTo(t, r),
                 r.payload \in Events => Known(r.payload)',
                 NEW u \in Topics, NEW i \in 1..Len(log'[u]),
                 log'[u][i].payload \in Events
          PROVE  Known(log[u][i].payload)'
      <3>1. log[u] \in Seq(Record) /\ log'[u] \in {log[u], Append(log[u], r)}
        BY <1>a, <2>2 DEF AppendTo, TypeOK, PlatformTypeOK
      <3>2. (i \in 1..Len(log[u]) /\ log'[u][i] = log[u][i]) \/ log'[u][i] = r
        BY <2>2, <3>1, AppendParts
      <3> QED
        BY <1>1, <2>2, <3>2 DEF OriginInv, LogKnown
    <2> QED
      BY <2>1, <2>2 DEF LogKnown
  <1>4. QueueKnown'
    <2> SUFFICES ASSUME NEW l \in Loops, NEW i \in 1..Len(buf'[l])
                 PROVE  Known(buf[l][i].payload)'
      BY DEF QueueKnown
    <2>1. CASE \E j \in 1..Len(buf[l]) : buf'[l][i] = buf[l][j]
      BY <1>1, <2>1 DEF OriginInv, QueueKnown
    <2>2. CASE Known(buf'[l][i].payload)
      BY <2>2 DEF Known
    <2> QED
      BY <2>1, <2>2
  <1>5. OrphansAreSeeded'
    BY DEF OriginInv, OrphansAreSeeded
  <1> QED
    BY <1>2, <1>3, <1>4, <1>5 DEF OriginInv

(* An event in a loop's hand came from a topic. *)
LEMMA HandKnown ==
    ASSUME TypeInv, OriginInv, NEW l \in Loops, Busy(l), Ev(l) \in Events
    PROVE  Known(Ev(l))
  BY LoopParts DEF TypeInv, InHand, OriginInv, LogKnown, Ev, Rec

(* SaveDecision meets the foreign key, except for seeded events. *)
LEMMA SaveDecisionOrigin ==
    ASSUME NEW l \in Loops, NEW e \in Events, NEW s, Known(e), SaveDecision(l, e, s)
    PROVE  \A x \in Events : <<x, "orphan">> \in lapse' => <<x, "orphan">> \in lapse \/ x \in Seeded
  BY DEF SaveDecision, Lapse, Known

(* A step of a loop preserves the invariant. *)
LEMMA LoopOrigin ==
    ASSUME TypeInv, TypeInv', OriginInv, NEW l \in Loops, LoopStep(l), UNCHANGED ingestVars
    PROVE  OriginInv'
  <1>a. TypeOK /\ InHand
    BY DEF TypeInv
  <1>1. UNCHANGED <<log, pgEvents, req, outbox>>
    BY DEF LoopStep, ConsumerRead, DLQRead, Fetch, PollTimeout, Backoff, BackoffCancelled,
           SaveRaw, CheckSeen, Process, Persist, Requeue, GiveUp, Commit, kafkaVars, storeVars,
           ingestVars
  <1>2. \A k \in Loops : \A i \in 1..Len(buf'[k]) :
              \/ \E j \in 1..Len(buf[k]) : buf'[k][i] = buf[k][j]
              \/ Known(buf'[k][i].payload)
    <2>1. CASE Requeue(l)
      <3> DEFINE r == [payload |-> Ev(l), rc |-> NextRc(l)]
      <3>1. Busy(l) /\ Ev(l) \in Events
        BY <1>a, <2>1 DEF Requeue, InHand, Handling, Busy
      <3>2. NextRc(l) \in Nat
        BY <3>1, RecType DEF NextRc
      <3>3. r \in EventRecords /\ Known(r.payload)
        BY <3>1, <3>2, HandKnown DEF EventRecords
      <3>4. buf \in [Loops -> Seq(EventRecords)]
        BY <1>a DEF TypeOK, WorkerTypeOK
      <3>5. buf' = buf \/ buf' = [buf EXCEPT ![l] = Append(@, r)]
        BY <2>1 DEF Requeue
      <3> HIDE DEF r
      <3> SUFFICES ASSUME NEW k \in Loops, NEW i \in 1..Len(buf'[k])
                   PROVE  \/ \E j \in 1..Len(buf[k]) : buf'[k][i] = buf[k][j]
                          \/ Known(buf'[k][i].payload)
        OBVIOUS
      <3>6. buf'[k] = buf[k] \/ buf'[k] = Append(buf[k], r)
        BY <3>4, <3>5, Zenon
      <3>7. (i \in 1..Len(buf[k]) /\ buf'[k][i] = buf[k][i]) \/ buf'[k][i] = r
        <4>1. buf[k] \in Seq(EventRecords)
          BY <3>4
        <4> QED
          BY <3>3, <3>6, <4>1, AppendParts
      <3> QED
        BY <3>3, <3>7
    <2>2. CASE ~Requeue(l)
      BY <2>2 DEF LoopStep, ConsumerRead, DLQRead, Fetch, PollTimeout, Backoff, BackoffCancelled,
         SaveRaw, CheckSeen, Process, Persist, GiveUp, Commit
    <2> QED
      BY <2>1, <2>2
  <1>3. \A e \in Events : <<e, "orphan">> \in lapse' => <<e, "orphan">> \in lapse \/ e \in Seeded
    <2>1. CASE Persist(l)
      <3>1. Busy(l) /\ Ev(l) \in Events
        BY <1>a, <2>1 DEF Persist, InHand, Handling, Busy
      <3> QED
        BY <2>1, <3>1, HandKnown, SaveDecisionOrigin DEF Persist
    <2>2. CASE GiveUp(l)
      <3>1. Busy(l) /\ Ev(l) \in Events \cup {Garbage}
        BY <2>2, RecType DEF GiveUp, Busy
      <3> QED
        BY <2>2, <3>1, HandKnown, SaveDecisionOrigin DEF GiveUp
    <2>3. CASE Requeue(l) \/ CheckSeen(l)
      BY <2>3 DEF Requeue, CheckSeen, SeenFirst, SeenDuplicate, SeenResent, SeenError, Lapse
    <2>4. CASE ~(Persist(l) \/ GiveUp(l) \/ Requeue(l) \/ CheckSeen(l))
      BY <2>4 DEF LoopStep, ConsumerRead, DLQRead, Fetch, PollTimeout, Backoff, BackoffCancelled,
         SaveRaw, Process, Commit
    <2> QED
      BY <2>1, <2>2, <2>3, <2>4
  <1> QED
    BY <1>1, <1>2, <1>3, OriginFrame

(* Steps that touch only the queues and the history. *)
LEMMA WorkerOrigin ==
    ASSUME TypeInv, TypeInv', OriginInv, UNCHANGED <<pgEvents, req, outbox>>,
           \/ UNCHANGED log
           \/ \E l \in Loops : buf[l] # <<>> /\ AppendTo("dlq", Head(buf[l])),
           \A l \in Loops : buf'[l] = buf[l] \/ buf'[l] = <<>> \/
                            (buf[l] # <<>> /\ buf'[l] = Tail(buf[l])),
           \A e \in Events : <<e, "orphan">> \in lapse' => <<e, "orphan">> \in lapse
    PROVE  OriginInv'
  <1>a. TypeOK
    BY DEF TypeInv
  <1>1. \A l \in Loops : \A i \in 1..Len(buf'[l]) :
           \E j \in 1..Len(buf[l]) : buf'[l][i] = buf[l][j]
    BY <1>a, QueueCut
  <1>2. ASSUME NEW l \in Loops, buf[l] # <<>>
        PROVE  \E r \in Record : r = Head(buf[l]) /\ Known(r.payload)'
    <2>1. Head(buf[l]) = buf[l][1] /\ 1 \in 1..Len(buf[l])
      BY <1>a, <1>2 DEF TypeOK, WorkerTypeOK
    <2>2. Known(Head(buf[l]).payload)
      BY <2>1 DEF OriginInv, QueueKnown
    <2>3. PICK r \in Record : r = Head(buf[l])
      BY <1>a, <1>2, BufType
    <2>4. Known(r.payload)'
      BY <2>2, <2>3 DEF Known
    <2> QED
      BY <2>3, <2>4
  <1>3. \/ UNCHANGED log
        \/ \E t \in Topics, r \in Record :
              AppendTo(t, r) /\ (r.payload \in Events => Known(r.payload)')
    <2>1. "dlq" \in Topics
      BY DEF Topics
    <2> QED
      BY <1>2, <2>1
  <1> QED
    BY <1>1, <1>3, OriginFrame

(* The other steps of the worker preserve the invariant. *)
LEMMA WorldOrigin ==
    ASSUME TypeInv, TypeInv', OriginInv, WorkerNext, UNCHANGED ingestVars,
           ~\E l \in Loops : LoopStep(l)
    PROVE  OriginInv'
  <1>a. TypeOK
    BY DEF TypeInv
  <1>b. UNCHANGED <<req, outbox>>
    BY DEF ingestVars
  <1>1. ASSUME NEW l \in Loops, ProducerStep(l)
        PROVE  OriginInv'
    <2>1. UNCHANGED pgEvents /\ buf[l] # <<>>
      BY <1>1 DEF ProducerStep, Deliver, DeliverTwice, DeliveryFails, storeVars
    <2>2. UNCHANGED log \/ AppendTo("dlq", Head(buf[l]))
      BY <1>1 DEF ProducerStep, Deliver, DeliverTwice, DeliveryFails, kafkaVars
    <2>3. \A k \in Loops : buf'[k] = buf[k] \/ buf'[k] = <<>> \/
                           (buf[k] # <<>> /\ buf'[k] = Tail(buf[k]))
      BY <1>1, <1>a, <2>1 DEF ProducerStep, Deliver, DeliverTwice, DeliveryFails, TypeOK, WorkerTypeOK
    <2>4. \A e \in Events : <<e, "orphan">> \in lapse' => <<e, "orphan">> \in lapse
      BY <1>1 DEF ProducerStep, Deliver, DeliverTwice, DeliveryFails, Lapse
    <2> QED
      BY <1>b, <2>1, <2>2, <2>3, <2>4, WorkerOrigin
  <1>2. ASSUME NEW w \in Workers, Die(w)
        PROVE  OriginInv'
    <2>1. UNCHANGED <<pgEvents, log>>
      BY <1>2 DEF Die, storeVars
    <2>2. \A k \in Loops : buf'[k] = buf[k] \/ buf'[k] = <<>> \/
                           (buf[k] # <<>> /\ buf'[k] = Tail(buf[k]))
      BY <1>2 DEF Die
    <2>3. \A e \in Events : <<e, "orphan">> \in lapse' => <<e, "orphan">> \in lapse
      BY <1>2 DEF Die
    <2> QED
      BY <1>b, <2>1, <2>2, <2>3, WorkerOrigin
  <1>3. ASSUME NEW w \in Workers, NEW t \in Topics, CloseProducer(w, t)
        PROVE  OriginInv'
    <2>1. UNCHANGED <<pgEvents, log>>
      BY <1>3 DEF CloseProducer, kafkaVars, storeVars
    <2>2. \A k \in Loops : buf'[k] = buf[k] \/ buf'[k] = <<>> \/
                           (buf[k] # <<>> /\ buf'[k] = Tail(buf[k]))
      BY <1>3, <1>a DEF CloseProducer, TypeOK, WorkerTypeOK
    <2>3. \A e \in Events : <<e, "orphan">> \in lapse' => <<e, "orphan">> \in lapse
      BY <1>3 DEF CloseProducer
    <2> QED
      BY <1>b, <2>1, <2>2, <2>3, WorkerOrigin
  <1>4. CASE UNCHANGED <<pgEvents, log, buf, lapse>>
    BY <1>4, <1>b, WorkerOrigin
  <1>5. ASSUME NEW t \in Topics, NEW w \in Workers, Assign(t, w) \/ Rebalance(t, w)
        PROVE  OriginInv'
    BY <1>5, <1>4 DEF Assign, Rebalance, storeVars, workerVars
  <1>6. ASSUME NEW e \in Events, Expire(e)
        PROVE  OriginInv'
    BY <1>6, <1>4 DEF Expire, kafkaVars
  <1>7. ASSUME NEW w \in Workers, Sigterm(w) \/ Restart(w)
        PROVE  OriginInv'
    BY <1>7, <1>4 DEF Sigterm, Restart, kafkaVars, storeVars
  <1>8. ASSUME NEW w \in Workers, ShutdownStep(w)
        PROVE  OriginInv'
    <2>1. ASSUME NEW t \in Topics, FlushProducer(w, t) \/ CloseConsumer(w, t)
          PROVE  OriginInv'
      BY <2>1, <1>4 DEF FlushProducer, CloseConsumer, kafkaVars, storeVars
    <2> QED
      BY <1>8, <2>1, <1>2, <1>3 DEF ShutdownStep, Exit
  <1>9. ASSUME NEW w \in Workers, Crash(w)
        PROVE  OriginInv'
    BY <1>9, <1>2 DEF Crash
  <1> QED
    BY <1>1, <1>5, <1>6, <1>7, <1>8, <1>9 DEF WorkerNext

(* A step of the ingestion path preserves the invariant. *)
LEMMA IngestOrigin ==
    ASSUME TypeInv, TypeInv', OriginInv, IngestNext, UNCHANGED <<workerVars, lapse>>
    PROVE  OriginInv'
  <1>a. TypeOK
    BY DEF TypeInv
  <1>b. UNCHANGED <<buf, lapse>>
    BY DEF workerVars
  <1>1. ASSUME NEW e \in Events, Accept(e) \/ Reject(e)
        PROVE  OriginInv'
    <2>1. UNCHANGED <<pgEvents, log, outbox>>
      BY <1>1 DEF Accept, Reject, kafkaVars, storeVars
    <2>2. \A x \in Events : req'[x] = "saved" => req[x] = "saved"
      BY <1>1, <1>a DEF Accept, Reject, Respond, TypeOK, IngestTypeOK
    <2> QED
      BY <1>b, <2>1, <2>2, OriginFrame
  <1>2. ASSUME NEW e \in Events, SaveEvent(e)
        PROVE  OriginInv'
    <2>1. UNCHANGED <<log, outbox>> /\ pgEvents \subseteq pgEvents'
      BY <1>2 DEF SaveEvent, kafkaVars
    <2>2. \A x \in Events : req'[x] = "saved" => req[x] = "saved" \/ Known(x)'
      BY <1>2, <1>a DEF SaveEvent, Respond, Known, TypeOK, IngestTypeOK
    <2> QED
      BY <1>b, <2>1, <2>2, OriginFrame
  <1>3. ASSUME NEW e \in Events, Publish(e) \/ SeedPublish(e)
        PROVE  OriginInv'
    <2>1. UNCHANGED <<log, pgEvents>>
      BY <1>3 DEF Publish, SeedPublish, kafkaVars, storeVars
    <2>2. Known(e)'
      BY <1>3, <2>1 DEF Publish, SeedPublish, OriginInv, SavedFirst, Known
    <2>3. \A x \in outbox' : x \in outbox \/ x = e
      BY <1>3 DEF Publish, SeedPublish, Produce
    <2>4. \A x \in Events : req'[x] = "saved" => req[x] = "saved"
      BY <1>3, <1>a DEF Publish, SeedPublish, Respond, TypeOK, IngestTypeOK
    <2> QED
      BY <1>b, <2>1, <2>2, <2>3, <2>4, OriginFrame
  <1>4. ASSUME NEW e \in Events, OutboxStep(e)
        PROVE  OriginInv'
    <2>1. UNCHANGED <<req, pgEvents>> /\ outbox' \subseteq outbox /\ e \in outbox
      BY <1>4 DEF OutboxStep, DeliverEvent, DeliverEventTwice, EventDeliveryFails, ingestVars,
                  storeVars
    <2>2. UNCHANGED log \/ AppendTo("events", EventRecord(e))
      BY <1>4 DEF OutboxStep, DeliverEvent, DeliverEventTwice, EventDeliveryFails, kafkaVars
    <2>3. EventRecord(e) \in Record /\ EventRecord(e).payload = e /\ "events" \in Topics
      BY DEF EventRecord, Record, Topics
    <2>4. Known(e)'
      BY <2>1 DEF OriginInv, OutboxKnown, Known
    <2>5. \/ UNCHANGED log
          \/ \E t \in Topics, r \in Record :
                AppendTo(t, r) /\ (r.payload \in Events => Known(r.payload)')
      <3> DEFINE r == EventRecord(e)
      <3>1. r \in Record /\ r.payload = e
        BY <2>3
      <3>2. UNCHANGED log \/ AppendTo("events", r)
        BY <2>2
      <3>3. Known(r.payload)'
        BY <2>4, <3>1 DEF EventRecord
      <3> QED
        BY <2>3, <3>1, <3>2, <3>3
    <2> QED
      BY <1>b, <2>1, <2>5, OriginFrame
  <1>5. CASE ServerStep \/ SeedEnds
    <2>1. UNCHANGED <<pgEvents, log>> /\ outbox' \subseteq outbox
      BY <1>5 DEF ServerStep, StopStep, ApiSigterm, ApiShutdown, ApiCloseProducer, ApiExit, ApiCrash,
                  ApiRestart, ApiGone, SeedEnds, kafkaVars, storeVars
    <2>2. \A x \in Events : req'[x] = "saved" => req[x] = "saved"
      BY <1>5, <1>a DEF ServerStep, StopStep, ApiSigterm, ApiShutdown, ApiCloseProducer, ApiExit,
                        ApiCrash, ApiRestart, ApiGone, SeedEnds, InService, TypeOK, IngestTypeOK
    <2> QED
      BY <1>b, <2>1, <2>2, OriginFrame
  <1> QED
    BY <1>1, <1>2, <1>3, <1>4, <1>5 DEF IngestNext, RequestStep, HandlerStep

(* OriginInv is inductive relative to TypeInv. *)
LEMMA NextOrigin == TypeInv /\ TypeInv' /\ OriginInv /\ [Next]_vars => OriginInv'
  <1> SUFFICES ASSUME TypeInv, TypeInv', OriginInv, [Next]_vars PROVE OriginInv'
    OBVIOUS
  <1>1. CASE WorkerNext /\ UNCHANGED ingestVars
    BY <1>1, LoopOrigin, WorldOrigin
  <1>2. CASE IngestNext /\ UNCHANGED <<workerVars, lapse>>
    BY <1>2, IngestOrigin
  <1>3. CASE ServiceNext /\ UNCHANGED <<workerVars, lapse, ingestVars>>
    <2>1. UNCHANGED <<pgEvents, req, outbox, buf, lapse>>
      BY <1>3 DEF ServiceNext, ForeignRecord, workerVars, ingestVars, storeVars
    <2>2. /\ [payload |-> Garbage, rc |-> 0] \in Record
          /\ Garbage \notin Events
      BY PlatformAssumption DEF Record
    <2>3. \E t \in Topics : AppendTo(t, [payload |-> Garbage, rc |-> 0])
      BY <1>3 DEF ServiceNext, ForeignRecord
    <2> QED
      BY <2>1, <2>2, <2>3, OriginFrame
  <1>4. CASE UNCHANGED vars
    <2>1. UNCHANGED <<pgEvents, req, outbox, buf, lapse, log>>
      BY <1>4 DEF vars, kafkaVars, storeVars, workerVars, ingestVars
    <2> QED
      BY <2>1, OriginFrame
  <1> QED
    BY <1>1, <1>2, <1>3, <1>4 DEF Next

(***************************************************************************)
(* SaveEvent before Publish (ingestEvent, IngestEvent): only a decision    *)
(* about an event of the seed script can violate the foreign key.          *)
(***************************************************************************)
THEOREM ForeignKeyHolds == Spec => []OrphansAreSeeded
  <1>1. Init => TypeInv /\ OriginInv
    BY InitTypeInv, InitOrigin
  <1>2. (TypeInv /\ OriginInv) /\ [Next]_vars => (TypeInv /\ OriginInv)'
    BY NextTypeInv, NextOrigin
  <1>3. OriginInv => OrphansAreSeeded
    BY DEF OriginInv
  <1> QED
    BY <1>1, <1>2, <1>3, PTL DEF Spec

-----------------------------------------------------------------------------
(* What the API accepted.  Shutdown waits for the handlers of the server's *)
(* own connections before the producer is closed, so the requests that are *)
(* in service after it are the detached ones, and the queue is empty once  *)
(* the producer is closed.                                                 *)

StopInv ==
    /\ server \in {"flushing", "closing"} => InService \subseteq detached
    /\ server \in {"closing", "gone"} => Unflushed = {}
    /\ server = "gone" => InService = {}
    /\ AcceptedAccounted

(* Nothing has been accepted initially. *)
LEMMA InitStop == Init => StopInv
  BY DEF Init, IngestInit, StopInv, AcceptedAccounted, InService

\* What is on a topic stays there.
LEMMA OnLogStays ==
    ASSUME TypeInv, [Next]_vars, NEW t \in Topics, NEW e, OnLog(t, e, 1)
    PROVE  OnLog(t, e, 1)'
  <1>1. TypeOK /\ log[t] \in Seq(Record)
    BY DEF TypeInv, TypeOK, PlatformTypeOK
  <1>2. PICK i \in 1..Len(log[t]) : log[t][i].payload = e
    BY DEF OnLog
  <1>3. i \in 1..Len(log'[t]) /\ log'[t][i] = log[t][i]
    <2>1. CASE UNCHANGED log
      BY <2>1
    <2>2. CASE \E u \in Topics, r \in Record : AppendTo(u, r)
      <3>1. log' \in [Topics -> Seq(Record)] /\ Len(log[t]) <= Len(log'[t])
            /\ log'[t][i] = log[t][i]
        BY <1>1, <1>2, <2>2, AppendKeeps
      <3>2. Len(log[t]) \in Nat /\ Len(log'[t]) \in Nat
        BY <1>1, <3>1
      <3> QED
        BY <3>1, <3>2
    <2> QED
      BY <2>1, <2>2, LogGrows
  <1> QED
    BY <1>2, <1>3 DEF OnLog

\* An event that was delivered is on the topic.
LEMMA DeliveredOnLog ==
    ASSUME TypeInv, NEW e \in Events, AppendTo("events", EventRecord(e))
    PROVE  OnLog("events", e, 1)'
  <1>1. log["events"] \in Seq(Record) /\ EventRecord(e) \in Record /\ EventRecord(e).payload = e
    BY DEF TypeInv, TypeOK, PlatformTypeOK, Topics, EventRecord, Record
  <1>2. log'["events"] = Append(log["events"], EventRecord(e))
    BY DEF TypeInv, TypeOK, PlatformTypeOK, Topics, AppendTo
  <1> DEFINE n == Len(log["events"]) + 1
  <1>3. n \in 1..Len(log'["events"]) /\ log'["events"][n] = EventRecord(e)
    BY <1>1, <1>2
  <1> QED
    BY <1>1, <1>3 DEF OnLog

(* A request, an acknowledgement or a loss preserves the invariant. *)
LEMMA RequestStop ==
    ASSUME TypeInv, StopInv, [Next]_vars, NEW e \in Events,
           RequestStep(e) \/ OutboxStep(e) \/ SeedEnds
    PROVE  StopInv'
  <1>a. IngestTypeOK
    BY DEF TypeInv, TypeOK
  <1>b. \A x : OnLog("events", x, 1) => OnLog("events", x, 1)'
    BY OnLogStays DEF Topics
  <1>1. CASE Accept(e)
    <2>1. /\ UNCHANGED <<outbox, server, lost>> /\ detached \subseteq detached' /\ server # "gone"
          /\ server \in {"flushing", "closing"} => e \in detached'
      BY <1>1 DEF Accept
    <2>2. InService' \subseteq InService \cup {e} /\ Unflushed' = Unflushed
      BY <1>1, <1>a DEF Accept, Respond, InService, Unflushed, IngestTypeOK
    <2>3. \A x \in Events : req'[x] \in {"acked", "aborted"} => req'[x] = req[x]
      BY <1>1, <1>a DEF Accept, Respond, IngestTypeOK
    <2> QED
      BY <1>b, <2>1, <2>2, <2>3 DEF StopInv, AcceptedAccounted, Lost
  <1>2. CASE Reject(e) \/ SaveEvent(e)
    <2>1. UNCHANGED <<outbox, server, detached, lost>>
      BY <1>2 DEF Reject, SaveEvent
    <2>2. InService' \subseteq InService /\ Unflushed' = Unflushed
      BY <1>2, <1>a DEF Reject, SaveEvent, Respond, InService, Unflushed, IngestTypeOK
    <2>3. \A x \in Events : req'[x] \in {"acked", "aborted"} => req'[x] = req[x]
      BY <1>2, <1>a DEF Reject, SaveEvent, Respond, IngestTypeOK
    <2> QED
      BY <1>b, <2>1, <2>2, <2>3 DEF StopInv, AcceptedAccounted, Lost
  <1>3. CASE Publish(e)
    <2>1. server # "gone" /\ (server = "closing" => e \in detached) /\ UNCHANGED detached
      BY <1>3 DEF Publish, StopInv, InService
    <2>2. /\ lost \subseteq lost' /\ outbox \subseteq outbox'
          /\ e \in outbox' \/ Lost(e)'
      BY <1>3 DEF Publish, Produce, Lose, Lost, Causes
    <2>3. InService' \subseteq InService
      BY <1>3, <1>a DEF Publish, Respond, InService, IngestTypeOK
    <2>4. \A x \in Events : x = e \/ req'[x] = req[x]
      BY <1>3, <1>a DEF Publish, Respond, IngestTypeOK
    <2>5. req'[e] = "acked"
      BY <1>3, <1>a DEF Publish, Respond, IngestTypeOK
    <2>6. \A x \in Events :
             /\ <<x, "closed">> \in lost' => <<x, "closed">> \in lost \/ (x = e /\ server = "closing")
             /\ <<x, "unflushed">> \in lost' => <<x, "unflushed">> \in lost
      BY <1>3 DEF Publish, Produce, Lose
    <2>7. server' = server /\ (server = "closing" => Unflushed' = Unflushed)
      BY <1>3 DEF Publish, Unflushed
    <2>8. AcceptedAccounted'
      BY <1>b, <2>1, <2>2, <2>4, <2>5, <2>6 DEF StopInv, AcceptedAccounted, Lost
    <2> QED
      BY <2>1, <2>3, <2>7, <2>8 DEF StopInv
  <1>4. CASE SeedPublish(e)
    <2>1. /\ Unflushed' = Unflushed /\ InService' = InService
          /\ UNCHANGED <<server, detached>>
      BY <1>4, <1>a DEF SeedPublish, Produce, Respond, Unflushed, InService, IngestTypeOK
    <2>2. /\ lost \subseteq lost' /\ outbox \subseteq outbox'
          /\ \A x, why : why # "refused" /\ <<x, why>> \in lost' => <<x, why>> \in lost
      BY <1>4 DEF SeedPublish, Produce, Lose
    <2>3. \A x \in Events : req'[x] \in {"acked", "aborted"} => req'[x] = req[x]
      BY <1>4, <1>a DEF SeedPublish, Respond, IngestTypeOK
    <2> QED
      BY <1>b, <2>1, <2>2, <2>3 DEF StopInv, AcceptedAccounted, Lost
  <1>5. CASE OutboxStep(e) \/ SeedEnds
    <2>1. /\ UNCHANGED <<req, server, detached>> /\ lost \subseteq lost' /\ outbox' \subseteq outbox
          /\ \A x : <<x, "closed">> \in lost' => <<x, "closed">> \in lost
          /\ ~MayFail("delivery") => lost' = lost
      BY <1>5 DEF OutboxStep, DeliverEvent, DeliverEventTwice, EventDeliveryFails, SeedEnds,
                  Lose, ingestVars
    <2>2. \A x \in outbox \ outbox' : OnLog("events", x, 1)' \/ Lost(x)'
      <3>1. CASE DeliverEvent(e)
        BY <3>1, DeliveredOnLog DEF DeliverEvent
      <3>2. CASE DeliverEventTwice(e)
        BY <3>2 DEF DeliverEventTwice, ingestVars
      <3>3. CASE EventDeliveryFails(e) \/ SeedEnds
        BY <3>3 DEF EventDeliveryFails, SeedEnds, Lose, Lost, Causes
      <3> QED
        BY <1>5, <3>1, <3>2, <3>3 DEF OutboxStep
    <2>3. InService' = InService /\ Unflushed' \subseteq Unflushed
      BY <2>1 DEF InService, Unflushed
    <2> QED
      BY <1>b, <2>1, <2>2, <2>3 DEF StopInv, AcceptedAccounted, Lost
  <1> QED
    BY <1>1, <1>2, <1>3, <1>4, <1>5 DEF RequestStep, HandlerStep

(* A step of the API process preserves the invariant. *)
LEMMA ServerStop ==
    ASSUME TypeInv, StopInv, [Next]_vars, ServerStep
    PROVE  StopInv'
  <1>a. IngestTypeOK
    BY DEF TypeInv, TypeOK
  <1>b. \A x : OnLog("events", x, 1) => OnLog("events", x, 1)'
    BY OnLogStays DEF Topics
  <1>c. lost \subseteq lost' /\ detached \subseteq detached'
    BY DEF ServerStep, StopStep, ApiSigterm, ApiShutdown, ApiCloseProducer, ApiExit, ApiCrash,
           ApiRestart, Lose
  <1>1. CASE ApiSigterm \/ ApiRestart
    BY <1>1, <1>b DEF ApiSigterm, ApiRestart, StopInv, AcceptedAccounted, InService, Unflushed, Lost
  <1>2. CASE ApiShutdown
    <2>1. UNCHANGED <<req, outbox, lost>> /\ server' = "flushing" /\ detached' = detached \cup InService
      BY <1>2 DEF ApiShutdown
    <2>2. InService' = InService
      BY <2>1 DEF InService
    <2> QED
      BY <1>b, <2>1, <2>2 DEF StopInv, AcceptedAccounted, Lost
  <1>3. CASE ApiCloseProducer
    <2>1. /\ UNCHANGED <<req, detached>> /\ server = "flushing" /\ server' = "closing"
          /\ Unflushed' = {} /\ InService' = InService
      BY <1>3 DEF ApiCloseProducer, Unflushed, InService
    <2>2. \A e \in outbox \ outbox' : Lost(e)'
      BY <1>3 DEF ApiCloseProducer, Lose, Lost, Causes
    <2>3. \A e : /\ <<e, "closed">> \in lost' => <<e, "closed">> \in lost
                 /\ <<e, "killed">> \in lost => <<e, "killed">> \in lost'
                 /\ <<e, "unflushed">> \in lost' =>
                       <<e, "unflushed">> \in lost \/ MayFail("delivery") \/ e \in detached
      BY <1>3 DEF ApiCloseProducer, Lose
    <2> QED
      BY <1>b, <1>c, <2>1, <2>2, <2>3 DEF StopInv, AcceptedAccounted, Lost
  <1>4. CASE ApiExit \/ ApiCrash
    <2>1. server' = "gone" /\ Unflushed' = {} /\ InService' = {}
      BY <1>4, <1>a DEF ApiExit, ApiCrash, ApiGone, Unflushed, InService, IngestTypeOK
    <2>2. /\ \A e \in outbox \ outbox' : Lost(e)'
          /\ \A e \in InService : e \in detached \/ <<e, "killed">> \in lost'
      <3>1. CASE ApiExit
        BY <3>1 DEF ApiExit, ApiGone, StopInv
      <3>2. CASE ApiCrash
        BY <3>2 DEF ApiCrash, ApiGone, Lose, Lost, Causes
      <3> QED
        BY <1>4, <3>1, <3>2
    <2>3. \A e \in Events : \/ req'[e] = req[e]
                            \/ e \in InService /\ req'[e] = "aborted"
      BY <1>4, <1>a DEF ApiExit, ApiCrash, ApiGone, IngestTypeOK
    <2>4. /\ UNCHANGED detached
          /\ \A e, why : why # "killed" /\ <<e, why>> \in lost' => <<e, why>> \in lost
      BY <1>4 DEF ApiExit, ApiCrash, Lose
    <2> QED
      BY <1>b, <1>c, <2>1, <2>2, <2>3, <2>4 DEF StopInv, AcceptedAccounted, Lost
  <1> QED
    BY <1>1, <1>2, <1>3, <1>4 DEF ServerStep, StopStep

(* StopInv is inductive relative to TypeInv. *)
LEMMA NextStop == TypeInv /\ StopInv /\ [Next]_vars => StopInv'
  <1> SUFFICES ASSUME TypeInv, StopInv, [Next]_vars PROVE StopInv'
    OBVIOUS
  <1>1. CASE UNCHANGED ingestVars
    <2>1. \A x : OnLog("events", x, 1) => OnLog("events", x, 1)'
      BY OnLogStays DEF Topics
    <2>2. UNCHANGED <<req, outbox, server, detached, lost>>
      BY <1>1 DEF ingestVars
    <2>3. /\ UNCHANGED <<InService, Unflushed>>
          /\ \A x : Lost(x)' = Lost(x)
      BY <2>2 DEF InService, Unflushed, Lost
    <2> QED
      BY <2>1, <2>2, <2>3 DEF StopInv, AcceptedAccounted
  <1>2. CASE IngestNext
    <2>1. ASSUME NEW e \in Events, RequestStep(e) \/ OutboxStep(e)
          PROVE  StopInv'
      BY <2>1, RequestStop
    <2>2. CASE ServerStep
      BY <2>2, ServerStop
    <2>3. CASE SeedEnds
      <3>1. PICK e \in Events : e \in outbox
        BY <2>3 DEF SeedEnds, TypeInv, TypeOK, IngestTypeOK
      <3> QED
        BY <2>3, RequestStop
    <2> QED
      BY <1>2, <2>1, <2>2, <2>3 DEF IngestNext
  <1>3. CASE UNCHANGED vars
    BY <1>1, <1>3 DEF vars
  <1> QED
    BY <1>1, <1>2, <1>3 DEF Next

(***************************************************************************)
(* main of cmd/api: Shutdown before the producer's Close.  Whatever the    *)
(* API acknowledged is on its way to the events topic, or a cause is on    *)
(* record; that the producer was closed already, or that a flush without   *)
(* delivery failures left it behind, is a cause only of a request Shutdown *)
(* does not wait for, over a WebSocket or past its 30 seconds, and only    *)
(* such a request, or one that was killed, ends without an answer.         *)
(***************************************************************************)
THEOREM NothingAcceptedVanishes == Spec => []AcceptedAccounted
  <1>1. Init => TypeInv /\ StopInv
    BY InitTypeInv, InitStop
  <1>2. (TypeInv /\ StopInv) /\ [Next]_vars => (TypeInv /\ StopInv)'
    BY NextTypeInv, NextStop
  <1>3. StopInv => AcceptedAccounted
    BY DEF StopInv
  <1> QED
    BY <1>1, <1>2, <1>3, PTL DEF Spec
=============================================================================
