------------------------------ MODULE LossProofs ------------------------------
(***************************************************************************)
(* Nothing disappears without a cause, for any number of replicas, events  *)
(* and failures.  Once the idempotency key of an event is set, or a record *)
(* of it has been dealt with, somebody answers for the event: a final row, *)
(* a lapse on record, a producer's queue, a DLQ record nobody has looked   *)
(* at, or a loop between the key and the commit.  The only token that can  *)
(* die with a process without a trace is the last one, which is why it     *)
(* counts only while the key exists: then the crash is a recorded lapse.   *)
(* The last sections say what is left to go wrong when no service fails,   *)
(* and when two sentences of the documentation are true.                   *)
(***************************************************************************)
EXTENDS DeliveryProofs, StoreProofs, IngestProofs

\* A record of e has been dealt with.
Dealt(e) ==
    \E t \in Topics : \E i \in 1..Len(log[t]) : log[t][i].payload = e /\ HasFate(t, i)

\* A record of e on the DLQ has not been dealt with.
Waiting(e) == \E i \in 1..Len(log["dlq"]) : log["dlq"][i].payload = e /\ ~HasFate("dlq", i)

\* Where a loop answers for its event.
Holding == {"process", "persist", "requeue"}

Held(e) == e \in seen /\ \E l \in Loops : pc[l] \in Holding /\ Ev(l) = e

Answered(e) ==
    Concluded(e) \/ Lapsed(e) \/ e \in Queued(Loops) \/ Waiting(e) \/ Held(e)

\* Only records on the log have a fate.
FatesOnLog == \A t \in Topics, i \in Nat : HasFate(t, i) => i \in 1..Len(log[t])

\* The loops of a process that is gone are gone.
Gone == \A l \in Loops : stage[l[1]] = Stopped => pc[l] = "exited"

LossInv ==
    /\ FatesOnLog
    /\ \A e \in Events : e \in seen \/ Dealt(e) => Answered(e)

USE PlatformAssumption, WorkerAssumption, IngestAssumption

-----------------------------------------------------------------------------
LEMMA InitLoss == Init => LossInv
  <1> SUFFICES ASSUME Init PROVE LossInv
    OBVIOUS
  <1>1. handled = {} /\ seen = {}
    BY DEF Init, PlatformInit, WorkerInit
  <1> QED
    BY <1>1 DEF LossInv, FatesOnLog, Dealt, HasFate

(* LossInv, with what it needs of delivery, is the property. *)
LEMMA LossInvSuffices ==
    ASSUME TypeInv, AtLeastOnce, LossInv
    PROVE  NoUnexplainedLoss
  <1> SUFFICES ASSUME NEW e \in Events, OnLog("events", e, 1)
               PROVE  Concluded(e) \/ InFlight(e) \/ Lapsed(e)
    BY DEF NoUnexplainedLoss
  <1>a. /\ "events" \in Topics /\ "dlq" \in Topics
        /\ committed \in [Topics -> Nat] /\ log \in [Topics -> Seq(Record)]
    BY DEF TypeInv, TypeOK, PlatformTypeOK, Topics
  <1>b. \A t \in Topics : Len(log[t]) \in Nat
    BY <1>a
  <1>1. ASSUME NEW t \in Topics, NEW i \in 1..Len(log[t]), log[t][i].payload = e,
               ~HasFate(t, i)
        PROVE  InFlight(e)
    <2>1. i \in Nat /\ committed[t] \in Nat
      BY <1>a, <1>b
    <2>2. i \notin 1..committed[t]
      BY <1>1 DEF AtLeastOnce
    <2>3. i \in (committed[t] + 1)..Len(log[t])
      BY <1>b, <2>1, <2>2
    <2> QED
      BY <1>1, <2>3 DEF InFlight, OnLog
  <1>2. CASE Dealt(e)
    <2>1. Answered(e)
      BY <1>2 DEF LossInv
    <2>2. CASE Waiting(e)
      BY <1>1, <1>a, <2>2 DEF Waiting
    <2>3. CASE Held(e)
      BY <2>3 DEF Held, Holding, InFlight, Busy
    <2> QED
      BY <2>1, <2>2, <2>3 DEF Answered, InFlight
  <1>3. CASE ~Dealt(e)
    BY <1>1, <1>3, <1>a DEF OnLog, Dealt
  <1> QED
    BY <1>2, <1>3

-----------------------------------------------------------------------------
(* What every step keeps *)

\* Rows are added one at a time.
LEMMA RowsGrow ==
    ASSUME TypeInv, [Next]_vars
    PROVE  \/ UNCHANGED rows
           \/ \E x \in Events, s \in Statuses : rows' = [rows EXCEPT ![x][s] = @ + 1]
  <1>1. ASSUME NEW l \in Loops, LoopStep(l)
        PROVE  \/ UNCHANGED rows
               \/ \E x \in Events, s \in Statuses : rows' = [rows EXCEPT ![x][s] = @ + 1]
    <2>1. CASE Persist(l)
      <3>1. Ev(l) \in Events
        BY <2>1 DEF TypeInv, InHand, Handling, Persist
      <3> QED
        BY <2>1, <3>1 DEF Persist, SaveDecision, StatusOf, Statuses
    <2>2. CASE GiveUp(l)
      <3>1. Ev(l) \in Events \cup {Garbage}
        BY <2>2, RecType DEF GiveUp, Busy
      <3> QED
        BY <2>2, <3>1 DEF GiveUp, SaveDecision, Statuses
    <2> QED
      BY <1>1, <2>1, <2>2 DEF LoopStep, ConsumerRead, DLQRead, Fetch, PollTimeout, Backoff,
         BackoffCancelled, SaveRaw, CheckSeen, Process, Requeue, Commit, storeVars
  <1>2. ASSUME ~\E l \in Loops : LoopStep(l)
        PROVE  UNCHANGED rows
    <2>1. CASE WorkerNext
      BY <1>2, <2>1 DEF WorkerNext, ProducerStep, Deliver, DeliverTwice, DeliveryFails, Assign,
         Rebalance, Expire, Sigterm, ShutdownStep, FlushProducer, CloseProducer, CloseConsumer,
         Exit, Crash, Die, Restart, storeVars
    <2>2. CASE IngestNext
      BY <2>2, IngestParts
    <2> QED
      BY <2>1, <2>2 DEF Next, ServiceNext, ForeignRecord, storeVars, vars
  <1> QED
    BY <1>1, <1>2

\* A row or a lapse is never taken back.
LEMMA EndStays ==
    ASSUME TypeInv, TypeInv', [Next]_vars, NEW e \in Events, Concluded(e) \/ Lapsed(e)
    PROVE  Concluded(e)' \/ Lapsed(e)'
  <1>a. rows \in [Events -> [Statuses -> Nat]]
    BY DEF TypeInv, TypeOK, PlatformTypeOK
  <1>1. \/ UNCHANGED rows
        \/ \E x \in Events, s \in Statuses : rows' = [rows EXCEPT ![x][s] = @ + 1]
    BY RowsGrow
  <1>2. lapse \subseteq lapse'
    <2>1. ASSUME NEW l \in Loops, LoopStep(l)
          PROVE  lapse \subseteq lapse'
      BY <2>1 DEF LoopStep, ConsumerRead, DLQRead, Fetch, PollTimeout, Backoff, BackoffCancelled,
         SaveRaw, CheckSeen, SeenFirst, SeenDuplicate, SeenResent, SeenError, Process, Persist, SaveDecision,
         Requeue, GiveUp, Commit, Lapse
    <2>2. CASE WorkerNext
      BY <2>1, <2>2 DEF WorkerNext, ProducerStep, Deliver, DeliverTwice, DeliveryFails, Lapse,
         Assign, Rebalance, Expire, Sigterm, ShutdownStep, FlushProducer, CloseProducer,
         CloseConsumer, Exit, Crash, Die, Restart
    <2> QED
      BY <2>2 DEF Next, vars
  <1>3. CASE Concluded(e)
    <2>1. CASE UNCHANGED rows
      BY <1>3, <2>1 DEF Concluded
    <2>2. ASSUME NEW x \in Events, NEW s \in Statuses, rows' = [rows EXCEPT ![x][s] = @ + 1]
          PROVE  Concluded(e)'
      BY <1>a, <1>3, <2>2 DEF Concluded, Statuses
    <2> QED
      BY <1>1, <2>1, <2>2
  <1>4. CASE Lapsed(e)
    BY <1>2, <1>4 DEF Lapsed
  <1> QED
    BY <1>3, <1>4

\* A record stays where it is.
LEMMA RecordStays ==
    ASSUME TypeInv, [Next]_vars, NEW t \in Topics, NEW i \in 1..Len(log[t])
    PROVE  i \in 1..Len(log'[t]) /\ log'[t][i] = log[t][i]
  <1>1. TypeOK /\ log[t] \in Seq(Record)
    BY DEF TypeInv, TypeOK, PlatformTypeOK
  <1>2. CASE UNCHANGED log
    BY <1>2
  <1>3. CASE \E u \in Topics, r \in Record : AppendTo(u, r)
    <2>1. /\ log' \in [Topics -> Seq(Record)] /\ Len(log[t]) <= Len(log'[t])
          /\ log'[t][i] = log[t][i]
      BY <1>1, <1>3, AppendKeeps
    <2>2. Len(log[t]) \in Nat /\ Len(log'[t]) \in Nat
      BY <1>1, <2>1
    <2> QED
      BY <2>1, <2>2
  <1> QED
    BY <1>2, <1>3, LogGrows

(***************************************************************************)
(* The general step, for one event: no key and no fate is added for it,    *)
(* and whoever answered for it still does, or has ended its story.         *)
(***************************************************************************)
LEMMA AnswerStays ==
    ASSUME TypeInv, TypeInv', [Next]_vars, LossInv, NEW e \in Events,
           e \in seen' => e \in seen,
           \A t \in Topics : \A i \in 1..Len(log[t]) :
              log[t][i].payload = e => (HasFate(t, i)' <=> HasFate(t, i)),
           UNCHANGED log \/ UNCHANGED handled,
           e \in Queued(Loops) => e \in Queued(Loops)' \/ Waiting(e)' \/ Lapsed(e)',
           Held(e) => Held(e)' \/ Lapsed(e)'
    PROVE  e \in seen' \/ Dealt(e)' => Answered(e)'
  <1>a. "dlq" \in Topics
    BY DEF Topics
  <1>1. Dealt(e)' => Dealt(e)
    <2> SUFFICES ASSUME NEW t \in Topics, NEW i \in 1..Len(log'[t]),
                        log'[t][i].payload = e, HasFate(t, i)'
                 PROVE  Dealt(e)
      BY DEF Dealt
    <2>1. i \in 1..Len(log[t])
      <3>1. CASE UNCHANGED log
        BY <3>1
      <3>2. CASE UNCHANGED handled
        <4>1. HasFate(t, i) /\ i \in Nat
          BY <3>2 DEF HasFate
        <4> QED
          BY <4>1 DEF LossInv, FatesOnLog
      <3> QED
        BY <3>1, <3>2
    <2> QED
      BY <2>1, RecordStays DEF Dealt
  <1>2. Waiting(e) => Waiting(e)'
    <2> SUFFICES ASSUME NEW i \in 1..Len(log["dlq"]), log["dlq"][i].payload = e,
                        ~HasFate("dlq", i)
                 PROVE  Waiting(e)'
      BY DEF Waiting
    <2>1. ~HasFate("dlq", i)'
      BY <1>a
    <2> QED
      BY <1>a, <2>1, RecordStays DEF Waiting
  <1> QED
    BY <1>1, <1>2, EndStays DEF LossInv, Answered

-----------------------------------------------------------------------------
(* The steps of a loop *)

\* A copy that Produce accepted is queued, behind what was queued before.
LEMMA ProducedIsQueued ==
    ASSUME TypeInv, TypeInv', NEW l \in Loops, NEW r \in EventRecords,
           buf' = [buf EXCEPT ![l] = Append(@, r)]
    PROVE  r.payload \in Queued(Loops)' /\ Queued(Loops) \subseteq Queued(Loops)'
  <1>a. buf \in [Loops -> Seq(EventRecords)] /\ r.payload \in Events
    BY DEF TypeInv, TypeOK, WorkerTypeOK, EventRecords
  <1>b. buf[l] \in Seq(EventRecords) /\ buf'[l] = Append(buf[l], r)
    BY <1>a
  <1>1. /\ Len(buf'[l]) = Len(buf[l]) + 1 /\ Len(buf[l]) \in Nat
        /\ buf'[l][Len(buf[l]) + 1] = r
        /\ \A i \in 1..Len(buf[l]) : i \in 1..Len(buf'[l]) /\ buf'[l][i] = buf[l][i]
    BY <1>b
  <1>2. r.payload \in Queued(Loops)'
    BY <1>a, <1>1 DEF Queued
  <1>3. ASSUME NEW e \in Events, NEW k \in Loops, NEW i \in 1..Len(buf[k]),
               buf[k][i].payload = e
        PROVE  e \in Queued(Loops)'
    <2>1. CASE k = l
      BY <1>1, <1>3, <2>1 DEF Queued
    <2>2. CASE k # l
      BY <1>a, <1>3, <2>2 DEF Queued
    <2> QED
      BY <2>1, <2>2
  <1> QED
    BY <1>2, <1>3 DEF Queued

\* The copy a loop is about to queue.
LEMMA CopyType ==
    ASSUME TypeInv, NEW l \in Loops, pc[l] = "requeue"
    PROVE  [payload |-> Ev(l), rc |-> NextRc(l)] \in EventRecords
  <1>1. Ev(l) \in Events /\ Busy(l)
    BY DEF TypeInv, InHand, Handling, Busy
  <1>2. NextRc(l) \in Nat
    BY <1>1, RecType DEF NextRc
  <1> QED
    BY <1>1, <1>2 DEF EventRecords

\* A loop gives a fate to a value that does not parse, or to its record.
LEMMA LoopFate ==
    ASSUME TypeInv, NEW l \in Loops, LoopStep(l)
    PROVE  \/ UNCHANGED handled
           \/ \E i \in 1..Len(log[l[2]]), f \in Fates :
                 /\ handled' = handled \cup {<<l[2], i, f>>}
                 /\ log[l[2]][i].payload = Garbage \/ (Busy(l) /\ log[l[2]][i].payload = Ev(l))
  <1>a. /\ l[2] \in Topics /\ pos \in [Topics -> Nat] /\ log \in [Topics -> Seq(Record)]
        /\ Busy(l) => off[l] \in 1..Len(log[l[2]])
    BY LoopParts DEF TypeInv, TypeOK, PlatformTypeOK, InHand
  <1>1. CASE ConsumerRead(l)
    <2>1. pos[l[2]] + 1 \in 1..Len(log[l[2]])
      <3>1. pos[l[2]] \in Nat /\ Len(log[l[2]]) \in Nat /\ pos[l[2]] < Len(log[l[2]])
        BY <1>1, <1>a DEF ConsumerRead, Fetch
      <3> QED
        BY <3>1
    <2> QED
      BY <1>1, <2>1 DEF ConsumerRead, Parse, Fates
  <1>2. CASE Backoff(l)
    BY <1>2, <1>a DEF Backoff, Busy, Parse, Fates
  <1>3. CASE UNCHANGED handled
    BY <1>3
  <1>4. CASE DLQRead(l) \/ PollTimeout(l) \/ BackoffCancelled(l) \/ SaveRaw(l) \/ Process(l)
             \/ Commit(l)
    BY <1>4 DEF DLQRead, PollTimeout, BackoffCancelled, SaveRaw, Process, Commit
  <1>5. ASSUME Busy(l), NEW f \in Fates, Settle(l, f)
        PROVE  \E i \in 1..Len(log[l[2]]), g \in Fates :
                 /\ handled' = handled \cup {<<l[2], i, g>>}
                 /\ log[l[2]][i].payload = Garbage \/ (Busy(l) /\ log[l[2]][i].payload = Ev(l))
    BY <1>5, <1>a DEF Settle, Ev, Rec
  <1>6. CASE CheckSeen(l)
    BY <1>5, <1>6 DEF CheckSeen, SeenFirst, SeenDuplicate, SeenResent, SeenError, Busy, Fates
  <1>7. CASE Persist(l)
    BY <1>5, <1>7 DEF Persist, Busy, Fates
  <1>8. CASE Requeue(l) \/ GiveUp(l)
    BY <1>5, <1>8 DEF Requeue, GiveUp, Busy, Fates
  <1> QED
    BY <1>1, <1>2, <1>4, <1>6, <1>7, <1>8 DEF LoopStep

\* For an event other than the one the loop has in hand nothing changes, and
\* for its own neither before the check of the key nor after the commit.
LEMMA LoopOthers ==
    ASSUME TypeInv, TypeInv', [Next]_vars, LossInv, NEW l \in Loops, LoopStep(l),
           NEW e \in Events,
           \/ Busy(l) => Ev(l) # e
           \/ UNCHANGED <<seen, buf>> /\ pc[l] \notin Holding
              /\ (UNCHANGED handled \/ \E i \in 1..Len(log[l[2]]), f \in Fates :
                    /\ handled' = handled \cup {<<l[2], i, f>>}
                    /\ log[l[2]][i].payload = Garbage)
    PROVE  e \in seen' \/ Dealt(e)' => Answered(e)'
  <1>a. /\ UNCHANGED log
        /\ \A k \in Loops \ {l} : pc'[k] = pc[k] /\ off'[k] = off[k]
    BY LoopFrame
  <1>b. Garbage # e
    BY PlatformAssumption
  <1>1. /\ e \in seen' => e \in seen
        /\ e \in seen => e \in seen'
    BY DEF LoopStep, ConsumerRead, DLQRead, Fetch, PollTimeout, Backoff, BackoffCancelled, SaveRaw,
       CheckSeen, SeenFirst, SeenDuplicate, SeenResent, SeenError, Process, Persist, Requeue, GiveUp, Commit,
       storeVars, Busy
  <1>2. \A t \in Topics : \A i \in 1..Len(log[t]) :
           log[t][i].payload = e => (HasFate(t, i)' <=> HasFate(t, i))
    <2>1. CASE UNCHANGED handled
      BY <2>1 DEF HasFate
    <2>2. ASSUME NEW i \in 1..Len(log[l[2]]), NEW f \in Fates,
                 handled' = handled \cup {<<l[2], i, f>>}, log[l[2]][i].payload # e
          PROVE  \A t \in Topics : \A j \in 1..Len(log[t]) :
                    log[t][j].payload = e => (HasFate(t, j)' <=> HasFate(t, j))
      BY <2>2 DEF HasFate
    <2> QED
      BY <1>b, <2>1, <2>2, LoopFate
  <1>3. e \in Queued(Loops) => e \in Queued(Loops)'
    <2>1. CASE UNCHANGED buf
      BY <2>1 DEF Queued
    <2>2. CASE Requeue(l)
      BY <2>1, <2>2, CopyType, ProducedIsQueued DEF Requeue
    <2> QED
      BY <2>1, <2>2 DEF LoopStep, ConsumerRead, DLQRead, Fetch, PollTimeout, Backoff,
         BackoffCancelled, SaveRaw, CheckSeen, Process, Persist, GiveUp, Commit
  <1>4. Held(e) => Held(e)'
    <2> SUFFICES ASSUME e \in seen, NEW k \in Loops, pc[k] \in Holding, Ev(k) = e
                 PROVE  Held(e)'
      BY DEF Held
    <2>1. k # l
      BY DEF Holding, Busy
    <2>2. pc'[k] = pc[k] /\ Ev(k)' = Ev(k)
      BY <1>a, <2>1 DEF Ev, Rec
    <2> QED
      BY <1>1, <2>2 DEF Held
  <1> QED
    BY <1>a, <1>1, <1>2, <1>3, <1>4, AnswerStays

\* For the event in hand.
LEMMA LoopOwn ==
    ASSUME TypeInv, TypeInv', [Next]_vars, LossInv, NEW l \in Loops, LoopStep(l), Concludes(l),
           Busy(l), NEW e \in Events, Ev(l) = e
    PROVE  e \in seen' \/ Dealt(e)' => Answered(e)'
  <1>a. /\ UNCHANGED log
        /\ \A k \in Loops \ {l} : pc'[k] = pc[k] /\ off'[k] = off[k]
    BY LoopFrame
  <1>b. pc \in [Loops -> PcValues] /\ rows \in [Events -> [Statuses -> Nat]]
    BY DEF TypeInv, TypeOK, PlatformTypeOK, WorkerTypeOK
  <1>1. CASE Concluded(e)' \/ Lapsed(e)'
    BY <1>1 DEF Answered
  <1>2. CASE Held(e)'
    BY <1>2 DEF Answered
  <1>3. ASSUME NEW s \in {"completed", "permanently_failed"}, SaveDecision(l, e, s)
        PROVE  Concluded(e)' \/ Lapsed(e)'
    <2>1. CASE rows' = [rows EXCEPT ![e][s] = @ + 1]
      BY <1>b, <2>1 DEF Concluded, Statuses
    <2>2. CASE Lapse(e, "orphan") \/ Lapse(e, "unsaved")
      BY <2>2 DEF Lapse, Lapsed, Lapses
    <2> QED
      BY <1>3, <2>1, <2>2 DEF SaveDecision
  <1>4. CASE ConsumerRead(l) \/ DLQRead(l) \/ PollTimeout(l)
    BY <1>4 DEF ConsumerRead, DLQRead, Fetch, PollTimeout, Busy
  <1>5. CASE Backoff(l) \/ BackoffCancelled(l) \/ SaveRaw(l) \/ Commit(l)
    <2>1. UNCHANGED <<seen, buf>> /\ pc[l] \notin Holding
      BY <1>5 DEF Backoff, BackoffCancelled, SaveRaw, Commit, storeVars, Holding
    <2>2. UNCHANGED handled
      <3>1. CASE Backoff(l)
        BY <3>1, PlatformAssumption DEF Backoff, Parse, Ev, Rec
      <3> QED
        BY <1>5, <3>1 DEF BackoffCancelled, SaveRaw, Commit
    <2> QED
      BY <2>1, <2>2, LoopOthers
  <1>6. CASE CheckSeen(l)
    <2>1. pc[l] = "seen" /\ UNCHANGED <<off, buf, rows>>
      BY <1>6 DEF CheckSeen, kafkaVars
    <2>2. CASE SeenFirst(l)
      <3>1. pc'[l] = "process" /\ e \in seen' /\ Ev(l)' = e
        BY <1>a, <1>b, <2>1, <2>2 DEF SeenFirst, Goto, Ev, Rec
      <3> QED
        BY <1>2, <3>1 DEF Held, Holding
    <2>3. CASE SeenDuplicate(l)
      <3>1. CASE l[2] = "dlq"
        BY <1>1, <2>3, <3>1 DEF SeenDuplicate, Lapse, Lapsed, Lapses
      <3>2. CASE l[2] = "events"
        <4>1. Answered(e)
          BY <2>3 DEF SeenDuplicate, LossInv
        <4>2. Concluded(e) \/ Lapsed(e) => Answered(e)'
          BY EndStays DEF Answered
        <4>3. e \in Queued(Loops) => Answered(e)'
          BY <2>1 DEF Queued, Answered
        <4>4. Waiting(e) => Answered(e)'
          <5>1. \A i : HasFate("dlq", i)' => HasFate("dlq", i)
            BY <2>3, <3>2 DEF SeenDuplicate, Settle, HasFate
          <5> QED
            BY <1>a, <5>1 DEF Waiting, Answered
        <4>5. Held(e) => Held(e)'
          <5> SUFFICES ASSUME NEW k \in Loops, pc[k] \in Holding, Ev(k) = e, e \in seen
                       PROVE  Held(e)'
            BY DEF Held
          <5>1. k # l
            BY <2>1 DEF Holding
          <5>2. pc'[k] = pc[k] /\ Ev(k)' = e /\ e \in seen'
            BY <1>a, <2>3, <5>1 DEF SeenDuplicate, Ev, Rec
          <5> QED
            BY <5>2 DEF Held
        <4> QED
          BY <1>2, <4>1, <4>2, <4>3, <4>4, <4>5 DEF Answered
      <3> QED
        BY <3>1, <3>2, LoopParts DEF Topics
    <2>4. CASE SeenError(l)
      <3>1. CASE e \in seen'
        <4>1. pc'[l] = "process" /\ Ev(l)' = e
          BY <1>a, <1>b, <2>1, <2>4 DEF SeenError, Goto, Ev, Rec
        <4> QED
          BY <1>2, <3>1, <4>1 DEF Held, Holding
      <3>2. CASE e \notin seen'
        <4>1. UNCHANGED <<seen, handled>>
          BY <2>4, <3>2 DEF SeenError
        <4> QED
          BY <2>1, <4>1, LoopOthers DEF Holding
      <3> QED
        BY <3>1, <3>2
    <2>5. CASE SeenResent(l)
      BY <1>1, <2>5 DEF SeenResent, Lapse, Lapsed, Lapses
    <2> QED
      BY <1>6, <2>2, <2>3, <2>4, <2>5 DEF CheckSeen
  <1>7. CASE Process(l) \/ (Persist(l) /\ verdict[l] = "error")
    <2>1. /\ pc[l] \in Holding /\ pc'[l] \in Holding
          /\ UNCHANGED <<off, handled, seen, buf>>
      BY <1>7, <1>b DEF Process, Persist, Goto, Holding, storeVars
    <2>2. Held(e) => Held(e)'
      BY <1>a, <2>1 DEF Held, Ev, Rec
    <2>3. \A t, i : HasFate(t, i)' <=> HasFate(t, i)
      BY <2>1 DEF HasFate
    <2>4. e \in Queued(Loops) => e \in Queued(Loops)'
      BY <2>1 DEF Queued
    <2> QED
      BY <1>a, <2>1, <2>2, <2>3, <2>4, AnswerStays
  <1>8. CASE Persist(l) /\ verdict[l] # "error"
    <2>1. StatusOf(verdict[l]) = "completed"
      BY <1>8 DEF Concludes, Persist, StatusOf
    <2> QED
      BY <1>1, <1>3, <1>8, <2>1 DEF Persist
  <1>9. CASE Requeue(l)
    <2>1. CASE buf' = [buf EXCEPT ![l] = Append(@, [payload |-> Ev(l), rc |-> NextRc(l)])]
      <3>1. e \in Queued(Loops)'
        BY <1>9, <2>1, CopyType, ProducedIsQueued DEF Requeue
      <3> QED
        BY <3>1 DEF Answered
    <2>2. CASE Lapse(e, "refused")
      BY <1>1, <2>2 DEF Lapse, Lapsed, Lapses
    <2> QED
      BY <1>9, <2>1, <2>2 DEF Requeue
  <1>10. CASE GiveUp(l)
    BY <1>1, <1>3, <1>10, PlatformAssumption DEF GiveUp
  <1> QED
    BY <1>4, <1>5, <1>6, <1>7, <1>8, <1>9, <1>10 DEF LoopStep

(* A step of a loop preserves the invariant. *)
LEMMA LoopLoss ==
    ASSUME TypeInv, TypeInv', [Next]_vars, LossInv, NEW l \in Loops, LoopStep(l), Concludes(l)
    PROVE  LossInv'
  <1>1. FatesOnLog'
    <2>1. UNCHANGED log
      BY LoopFrame
    <2>2. \A t \in Topics, i \in Nat : HasFate(t, i)' => HasFate(t, i) \/ i \in 1..Len(log[t])
      BY LoopFate DEF HasFate
    <2> QED
      BY <2>1, <2>2 DEF LossInv, FatesOnLog
  <1>2. ASSUME NEW e \in Events
        PROVE  e \in seen' \/ Dealt(e)' => Answered(e)'
    BY LoopOwn, LoopOthers
  <1> QED
    BY <1>1, <1>2 DEF LossInv

-----------------------------------------------------------------------------
(* Everything else *)

\* A loop that stays where it is keeps its event.
LEMMA HeldStays ==
    ASSUME TypeInv, [Next]_vars, NEW e \in Events, Held(e), e \in seen',
           \A k \in Loops : pc[k] \in Holding /\ Ev(k) = e => pc'[k] = pc[k] /\ off'[k] = off[k]
    PROVE  Held(e)'
  <1>1. PICK k \in Loops : pc[k] \in Holding /\ Ev(k) = e
    BY DEF Held
  <1>2. k[2] \in Topics /\ off[k] \in 1..Len(log[k[2]])
    BY <1>1, LoopParts DEF TypeInv, InHand, Busy, Holding
  <1>3. log'[k[2]][off[k]] = log[k[2]][off[k]]
    BY <1>2, RecordStays
  <1>4. pc'[k] \in Holding /\ Ev(k)' = e
    BY <1>1, <1>3 DEF Ev, Rec
  <1> QED
    BY <1>4 DEF Held

\* A step that deals with no record and leaves the keys alone.
LEMMA QuietLoss ==
    ASSUME TypeInv, TypeInv', [Next]_vars, LossInv, UNCHANGED <<handled, seen>>,
           \A e \in Events :
              /\ e \in Queued(Loops) => e \in Queued(Loops)' \/ Waiting(e)' \/ Lapsed(e)'
              /\ Held(e) => Held(e)' \/ Lapsed(e)'
    PROVE  LossInv'
  <1>1. \A t, i : HasFate(t, i)' <=> HasFate(t, i)
    BY DEF HasFate
  <1>2. FatesOnLog'
    BY <1>1, RecordStays DEF LossInv, FatesOnLog
  <1>3. ASSUME NEW e \in Events
        PROVE  e \in seen' \/ Dealt(e)' => Answered(e)'
    BY <1>1, AnswerStays
  <1> QED
    BY <1>2, <1>3 DEF LossInv

\* A copy leaves the producer's queue for the DLQ, or for the record of lapses.
LEMMA ProducerLoss ==
    ASSUME TypeInv, TypeInv', [Next]_vars, LossInv, NEW l \in Loops, ProducerStep(l)
    PROVE  LossInv'
  <1>a. /\ buf \in [Loops -> Seq(EventRecords)] /\ buf[l] # <<>>
        /\ log \in [Topics -> Seq(Record)] /\ "dlq" \in Topics
    BY DEF TypeInv, TypeOK, PlatformTypeOK, WorkerTypeOK, Topics, ProducerStep, Deliver,
       DeliverTwice, DeliveryFails
  <1>b. UNCHANGED <<handled, seen, pc, off>>
    BY DEF ProducerStep, Deliver, DeliverTwice, DeliveryFails, ctlVars, storeVars
  <1>c. buf[l] \in Seq(EventRecords)
    BY <1>a
  <1>1. \A e \in Events : Held(e) => Held(e)'
    BY <1>b, HeldStays DEF Held
  <1>2. PICK h \in EventRecords : h = Head(buf[l])
    BY <1>a, <1>c
  <1>3. h \in Record /\ h.payload \in Events
    BY DEF EventRecords, Record
  <1>4. Waiting(h.payload)' \/ Lapsed(h.payload)'
    <2>1. CASE AppendTo("dlq", h)
      <3>1. PICK n \in Nat : n = Len(log["dlq"]) + 1
        BY <1>a
      <3>2. log'["dlq"] = Append(log["dlq"], h) /\ log["dlq"] \in Seq(Record)
        BY <1>a, <2>1 DEF AppendTo
      <3>3. n \in 1..Len(log'["dlq"]) /\ log'["dlq"][n] = h /\ n \notin 1..Len(log["dlq"])
        BY <1>3, <3>1, <3>2
      <3>4. ~HasFate("dlq", n)'
        BY <1>a, <1>b, <3>3 DEF LossInv, FatesOnLog, HasFate
      <3> QED
        BY <3>3, <3>4 DEF Waiting
    <2>2. CASE Lapse(h.payload, "undelivered")
      BY <1>3, <2>2 DEF Lapse, Lapsed, Lapses
    <2> QED
      BY <1>2, <2>1, <2>2 DEF ProducerStep, Deliver, DeliverTwice, DeliveryFails
  <1>5. ASSUME NEW e \in Events, e \in Queued(Loops), e # h.payload
        PROVE  e \in Queued(Loops)'
    <2>1. PICK k \in Loops : \E i \in 1..Len(buf[k]) : buf[k][i].payload = e
      BY <1>5 DEF Queued
    <2>2. PICK i \in 1..Len(buf[k]) : buf[k][i].payload = e
      BY <2>1
    <2>3. CASE buf'[k] = buf[k]
      BY <2>2, <2>3 DEF Queued
    <2>4. CASE k = l /\ buf'[l] = Tail(buf[l])
      <3>1. i # 1
        BY <1>2, <1>5, <1>c, <2>2, <2>4
      <3>2. i - 1 \in 1..Len(buf'[l]) /\ buf'[l][i - 1] = buf[l][i]
        BY <1>a, <1>c, <2>2, <2>4, <3>1
      <3> QED
        BY <2>2, <2>4, <3>2 DEF Queued
    <2> QED
      BY <1>a, <2>3, <2>4 DEF ProducerStep, Deliver, DeliverTwice, DeliveryFails
  <1>6. \A e \in Events : e \in Queued(Loops) => e \in Queued(Loops)' \/ Waiting(e)' \/ Lapsed(e)'
    BY <1>4, <1>5
  <1> QED
    BY <1>b, <1>1, <1>6, QuietLoss

\* A process that dies, or closes a producer, leaves a lapse for each event it
\* answered for.
LEMMA DieLoss ==
    ASSUME TypeInv, TypeInv', [Next]_vars, LossInv, NEW w \in Workers, Die(w)
    PROVE  LossInv'
  <1>a. UNCHANGED <<handled, seen>>
    BY DEF Die, storeVars
  <1>b. \A k \in Loops : k[1] # w => pc'[k] = pc[k] /\ off'[k] = off[k] /\ buf'[k] = buf[k]
    BY DEF Die
  <1>c. \A k \in Loops : k[1] = w => \E t \in Topics : k = <<w, t>>
    BY LoopParts
  <1>1. ASSUME NEW e \in Events, Held(e)
        PROVE  Held(e)' \/ Lapsed(e)'
    <2>1. CASE \E k \in Loops : pc[k] \in Holding /\ Ev(k) = e /\ k[1] = w
      <3>1. e \in Abandoned(w)
        BY <1>1, <1>c, <2>1 DEF Held, Abandoned, Holding
      <3> QED
        BY <3>1 DEF Die, Lapsed, Lapses
    <2>2. CASE \A k \in Loops : pc[k] \in Holding /\ Ev(k) = e => k[1] # w
      BY <1>1, <1>a, <1>b, <2>2, HeldStays DEF Held
    <2> QED
      BY <2>1, <2>2
  <1>2. ASSUME NEW e \in Events, e \in Queued(Loops)
        PROVE  e \in Queued(Loops)' \/ Lapsed(e)'
    <2>1. PICK k \in Loops : \E i \in 1..Len(buf[k]) : buf[k][i].payload = e
      BY <1>2 DEF Queued
    <2>2. CASE k[1] = w
      <3>1. k \in {w} \X Topics
        BY <2>2, LoopParts
      <3>2. e \in Queued({w} \X Topics)
        BY <2>1, <3>1 DEF Queued
      <3> QED
        BY <3>2 DEF Die, Lapsed, Lapses
    <2>3. CASE k[1] # w
      BY <1>b, <2>1, <2>3 DEF Queued
    <2> QED
      BY <2>2, <2>3
  <1> QED
    BY <1>a, <1>1, <1>2, QuietLoss

LEMMA CloseProducerLoss ==
    ASSUME TypeInv, TypeInv', [Next]_vars, LossInv, NEW w \in Workers, NEW t \in Topics,
           CloseProducer(w, t)
    PROVE  LossInv'
  <1>a. UNCHANGED <<handled, seen, pc, off>> /\ buf \in [Loops -> Seq(EventRecords)]
    BY DEF CloseProducer, storeVars, TypeInv, TypeOK, WorkerTypeOK
  <1>1. \A e \in Events : Held(e) => Held(e)'
    BY <1>a, HeldStays DEF Held
  <1>2. ASSUME NEW e \in Events, e \in Queued(Loops)
        PROVE  e \in Queued(Loops)' \/ Lapsed(e)'
    <2>1. PICK k \in Loops : \E i \in 1..Len(buf[k]) : buf[k][i].payload = e
      BY <1>2 DEF Queued
    <2>2. CASE k = <<w, t>>
      <3>1. e \in Queued({<<w, t>>})
        BY <2>1, <2>2 DEF Queued
      <3> QED
        BY <3>1 DEF CloseProducer, Lapsed, Lapses
    <2>3. CASE k # <<w, t>>
      <3>1. buf'[k] = buf[k]
        BY <1>a, <2>3 DEF CloseProducer
      <3> QED
        BY <2>1, <3>1 DEF Queued
    <2> QED
      BY <2>2, <2>3
  <1> QED
    BY <1>a, <1>1, <1>2, QuietLoss

\* A key expires only while no loop answers for its event.
LEMMA ExpireLoss ==
    ASSUME TypeInv, TypeInv', [Next]_vars, LossInv, NEW x \in Events, Expire(x)
    PROVE  LossInv'
  <1>a. UNCHANGED <<handled, pc, off, buf, log>> /\ seen' = seen \ {x}
    BY DEF Expire, ctlVars, kafkaVars
  <1>1. \A t, i : HasFate(t, i)' <=> HasFate(t, i)
    BY <1>a DEF HasFate
  <1>2. FatesOnLog'
    BY <1>a, <1>1 DEF LossInv, FatesOnLog
  <1>3. ASSUME NEW e \in Events
        PROVE  e \in seen' \/ Dealt(e)' => Answered(e)'
    <2>1. e \in Queued(Loops) => e \in Queued(Loops)'
      BY <1>a DEF Queued
    <2>2. Held(e) => e # x
      BY DEF Held, Expire, Holding, Busy
    <2>3. Held(e) => Held(e)'
      BY <1>a, <2>2, HeldStays DEF Held
    <2> QED
      BY <1>a, <1>1, <2>1, <2>3, AnswerStays
  <1> QED
    BY <1>2, <1>3 DEF LossInv

(* Nothing runs in a process that is gone. *)
LEMMA NextGone ==
    ASSUME TypeInv, Gone, [Next]_vars
    PROVE  Gone'
  <1>a. /\ stage \in [Workers -> 0..Stopped] /\ pc \in [Loops -> PcValues]
        /\ "dlq" \in Topics /\ "events" \in Topics
    BY DEF TypeInv, TypeOK, WorkerTypeOK, Topics
  <1>1. ASSUME NEW l \in Loops, LoopStep(l)
        PROVE  Gone'
    <2>1. UNCHANGED stage /\ pc[l] # "exited" /\ \A k \in Loops \ {l} : pc'[k] = pc[k]
      BY <1>1, <1>a DEF LoopStep, ConsumerRead, DLQRead, Fetch, PollTimeout, Backoff, Parse, Goto,
         BackoffCancelled, SaveRaw, CheckSeen, SeenFirst, SeenDuplicate, SeenResent, SeenError, Process,
         Persist, Requeue, GiveUp, Commit
    <2> QED
      BY <2>1 DEF Gone
  <1>2. CASE UNCHANGED <<stage, pc>>
    BY <1>2 DEF Gone
  <1>3. ASSUME NEW w \in Workers, NEW t \in Topics,
               \/ Sigterm(w) \/ FlushProducer(w, t) \/ CloseProducer(w, t)
               \/ CloseConsumer(w, t) \/ Restart(w)
        PROVE  Gone'
    <2>1. /\ stage' = [stage EXCEPT ![w] = stage'[w]] /\ stage'[w] # Stopped
          /\ \A k \in Loops : k[1] # w => pc'[k] = pc[k]
      BY <1>3, <1>a DEF Sigterm, FlushProducer, CloseProducer, CloseConsumer, Restart, Running,
         Cancelled, Closing, Flushed, ProducerClosed, ConsumerClosed, Stopped, Topics
    <2> QED
      BY <1>a, <2>1, LoopParts DEF Gone
  <1>4. ASSUME NEW w \in Workers, Die(w)
        PROVE  Gone'
    <2>1. \A l \in Loops : l[1] = w => pc'[l] = "exited"
      <3>1. \A l \in Loops : l[1] = w => l \in {w} \X Topics
        BY LoopParts
      <3> QED
        BY <1>4, <3>1 DEF Die
    <2>2. \A l \in Loops : l[1] # w => pc'[l] = pc[l] /\ stage'[l[1]] = stage[l[1]]
      BY <1>4, <1>a, LoopParts DEF Die
    <2> QED
      BY <2>1, <2>2 DEF Gone
  <1>5. CASE WorkerNext
    BY <1>1, <1>2, <1>3, <1>4, <1>5, <1>a DEF WorkerNext, ProducerStep, Deliver, DeliverTwice,
       DeliveryFails, Assign, Rebalance, Expire, ShutdownStep, Exit, Crash, workerVars, ctlVars
  <1> QED
    BY <1>2, <1>5 DEF Next, vars, workerVars, ctlVars

(* The steps outside the loops preserve the invariant. *)
LEMMA WorldLoss ==
    ASSUME TypeInv, TypeInv', Gone, [Next]_vars, LossInv, ~\E l \in Loops : LoopStep(l)
    PROVE  LossInv'
  <1>1. CASE /\ UNCHANGED <<handled, seen, off, buf>>
             /\ \A k \in Loops : pc[k] \in Holding => pc'[k] = pc[k]
    <2>1. \A e \in Events : Held(e) => Held(e)'
      BY <1>1, HeldStays DEF Held
    <2>2. Queued(Loops)' = Queued(Loops)
      BY <1>1 DEF Queued
    <2> QED
      BY <1>1, <2>1, <2>2, QuietLoss
  <1>2. ASSUME NEW t \in Topics, NEW w \in Workers, Assign(t, w) \/ Rebalance(t, w)
        PROVE  LossInv'
    BY <1>1, <1>2 DEF Assign, Rebalance, storeVars, workerVars, ctlVars
  <1>3. ASSUME NEW w \in Workers, Sigterm(w) \/ ShutdownStep(w) \/ Crash(w)
        PROVE  LossInv'
    <2>1. CASE Exit(w) \/ Crash(w)
      BY <2>1, DieLoss DEF Exit, Crash
    <2>2. ASSUME NEW t \in Topics, Sigterm(w) \/ FlushProducer(w, t) \/ CloseConsumer(w, t)
          PROVE  LossInv'
      BY <1>1, <2>2 DEF Sigterm, FlushProducer, CloseConsumer, storeVars
    <2>3. "dlq" \in Topics
      BY DEF Topics
    <2> QED
      BY <1>3, <2>1, <2>2, <2>3, CloseProducerLoss DEF ShutdownStep
  <1>4. ASSUME NEW w \in Workers, Restart(w)
        PROVE  LossInv'
    <2>1. \A k \in Loops : pc[k] \in Holding => k[1] # w
      BY <1>4 DEF Gone, Holding, Restart
    <2>2. \A k \in Loops : pc[k] \in Holding => pc'[k] = pc[k]
      BY <1>4, <2>1 DEF Restart
    <2> QED
      BY <1>1, <1>4, <2>2 DEF Restart, storeVars
  <1>5. CASE IngestNext /\ UNCHANGED <<workerVars, lapse>>
    BY <1>1, <1>5, IngestParts DEF workerVars, ctlVars
  <1>6. CASE ServiceNext /\ UNCHANGED <<workerVars, lapse, ingestVars>>
    BY <1>1, <1>6 DEF ServiceNext, ForeignRecord, workerVars, ctlVars, storeVars
  <1>7. CASE UNCHANGED vars
    BY <1>1, <1>7 DEF vars, workerVars, ctlVars, storeVars
  <1> QED
    BY <1>2, <1>3, <1>4, <1>5, <1>6, <1>7, ProducerLoss, ExpireLoss DEF Next, WorkerNext

-----------------------------------------------------------------------------
\* What the invariant of loss needs of the others.
AccountInv == TypeInv /\ DeliveryInv /\ LedgerInv /\ Gone /\ LossInv

LEMMA InitAccount == Init => AccountInv
  <1>1. Init => Gone
    BY LoopParts DEF Init, WorkerInit, Gone, Running, Stopped
  <1> QED
    BY <1>1, InitTypeInv, InitDelivery, InitLedger, InitLoss DEF AccountInv

(* AccountInv is inductive. *)
LEMMA NextAccount == AccountInv /\ [Next]_vars => AccountInv'
  <1> SUFFICES ASSUME AccountInv, [Next]_vars PROVE AccountInv'
    OBVIOUS
  <1> USE DEF AccountInv
  <1>1. TypeInv'
    BY NextTypeInv
  <1>2. DeliveryInv' /\ LedgerInv' /\ Gone'
    BY <1>1, NextDelivery, NextLedger, NextGone
  <1>3. LossInv'
    <2>1. \A l \in Loops : Concludes(l)
      BY DEF LedgerInv
    <2> QED
      BY <1>1, <2>1, LoopLoss, WorldLoss
  <1> QED
    BY <1>1, <1>2, <1>3

(***************************************************************************)
(* Nothing disappears without a cause (the error paths of consumer.go,     *)
(* dlq.go and cmd/worker that only log): an event whose message reached    *)
(* the events topic is concluded, still in flight, or lost for a cause on  *)
(* record, whatever crashes, rebalances and duplicates came in between.    *)
(***************************************************************************)
THEOREM NothingLostUnexplained == Spec => []NoUnexplainedLoss
  <1>1. AccountInv => NoUnexplainedLoss
    BY LossInvSuffices DEF AccountInv, DeliveryInv
  <1> QED
    BY <1>1, InitAccount, NextAccount, PTL DEF Spec

(***************************************************************************)
(* The two halves together: an event whose client was answered 201         *)
(* (ingestEvent), over HTTP or a WebSocket, is concluded, or some queue,   *)
(* topic or goroutine still has it, or the cause of its loss is on record, *)
(* on either side of the events topic.                                     *)
(***************************************************************************)
AckedAccounted ==
    \A e \in Events : req[e] = "acked" =>
        e \in outbox \/ InFlight(e) \/ Concluded(e) \/ Lost(e) \/ Lapsed(e)

THEOREM AcceptedNeverForgotten == Spec => []AckedAccounted
  <1>1. AcceptedAccounted /\ NoUnexplainedLoss => AckedAccounted
    BY DEF AcceptedAccounted, NoUnexplainedLoss, AckedAccounted
  <1> QED
    BY <1>1, NothingAcceptedVanishes, NothingLostUnexplained, PTL

-----------------------------------------------------------------------------
(* Without faults *)

\* Nothing stops, nothing is dropped on the way, and a lapse is one of the two
\* that the code itself decides on.
HealthyInv ==
    /\ \A w \in Workers : stage[w] = Running
    /\ server = "serving" /\ lost = {}
    /\ \A e \in Seeded : req[e] \in {"idle", "seeded"}
    /\ lapse \subseteq Events \X {"swallowed", "orphan"}

\* Initially nothing has been asked for and everything runs.
LEMMA InitHealthy == Init => HealthyInv
  BY DEF Init, WorkerInit, IngestInit, HealthyInv, Running

\* Without faults only the code's own decisions add to the lapses.
LEMMA HealthyStep ==
    ASSUME Flaky = {}, Down = {}, TypeInv, HealthyInv, [Next]_vars
    PROVE  HealthyInv'
  <1>a. (\A s : ~MayFail(s)) /\ (\A k : ~Fault(k)) /\ \A l \in Loops : Ctx(l)
    BY LoopParts DEF MayFail, Fault, HealthyInv, Ctx
  <1>1. ASSUME NEW l \in Loops, LoopStep(l)
        PROVE  UNCHANGED stage /\ lapse' \subseteq Events \X {"swallowed", "orphan"}
    <2>1. UNCHANGED stage
      BY <1>1 DEF LoopStep, ConsumerRead, DLQRead, Fetch, PollTimeout, Backoff, BackoffCancelled,
         SaveRaw, CheckSeen, Process, Persist, Requeue, GiveUp, Commit
    <2>2. CASE UNCHANGED lapse
      BY <2>1, <2>2 DEF HealthyInv
    <2>3. CASE CheckSeen(l) \/ Persist(l)
      <3>1. Ev(l) \in Events
        BY <2>3 DEF TypeInv, InHand, Handling, CheckSeen, Persist
      <3>2. UNCHANGED lapse \/ Lapse(Ev(l), "swallowed") \/ Lapse(Ev(l), "orphan")
        BY <1>a, <2>3 DEF CheckSeen, SeenFirst, SeenDuplicate, SeenResent, SeenError, Persist, SaveDecision
      <3> QED
        BY <2>1, <3>1, <3>2 DEF Lapse, HealthyInv
    <2>4. CASE GiveUp(l)
      <3>1. Ev(l) \in Events \cup {Garbage}
        BY <2>4, RecType DEF GiveUp, Busy
      <3>2. UNCHANGED lapse \/ (Ev(l) # Garbage /\ Lapse(Ev(l), "orphan"))
        BY <1>a, <2>4 DEF GiveUp, SaveDecision
      <3> QED
        BY <2>1, <3>1, <3>2 DEF Lapse, HealthyInv
    <2>5. CASE Requeue(l)
      <3>1. stage[l[1]] = Running
        BY LoopParts DEF HealthyInv
      <3>2. UNCHANGED lapse
        BY <1>a, <2>5, <3>1 DEF Requeue, ProducerClosed, Closing, Running, Cancelled
      <3> QED
        BY <2>1, <3>2 DEF HealthyInv
    <2> QED
      BY <1>1, <2>1, <2>2, <2>3, <2>4, <2>5 DEF LoopStep, ConsumerRead, DLQRead, Fetch, PollTimeout,
         Backoff, BackoffCancelled, SaveRaw, Process, Commit
  <1>2. CASE WorkerNext /\ UNCHANGED ingestVars
    <2>1. ASSUME NEW l \in Loops, ProducerStep(l)
          PROVE  UNCHANGED <<stage, lapse>>
      BY <1>a, <2>1 DEF ProducerStep, Deliver, DeliverTwice, DeliveryFails, ctlVars
    <2>2. ASSUME NEW t \in Topics, NEW w \in Workers, Assign(t, w) \/ Rebalance(t, w)
          PROVE  UNCHANGED <<stage, lapse>>
      BY <1>a, <2>2 DEF Assign, Rebalance, workerVars, ctlVars
    <2>3. ~\E e \in Events : Expire(e)
      BY <1>a DEF Expire
    <2>4. ~\E w \in Workers : Sigterm(w) \/ ShutdownStep(w) \/ Crash(w) \/ Restart(w)
      <3> SUFFICES ASSUME NEW w \in Workers
                   PROVE  ~(Sigterm(w) \/ ShutdownStep(w) \/ Crash(w) \/ Restart(w))
        OBVIOUS
      <3>1. stage[w] = 0
        BY DEF HealthyInv, Running
      <3>2. ~(Sigterm(w) \/ Crash(w) \/ Restart(w) \/ Exit(w))
        BY <1>a, <3>1 DEF Sigterm, Crash, Restart, Exit, Running, Stopped, ConsumerClosed,
           Closing, Cancelled
      <3>3. \A t \in Topics : ~(FlushProducer(w, t) \/ CloseProducer(w, t) \/ CloseConsumer(w, t))
        BY <3>1 DEF FlushProducer, CloseProducer, CloseConsumer, Flushed, ProducerClosed,
           Closing, Cancelled
      <3> QED
        BY <3>2, <3>3 DEF ShutdownStep
    <2>5. UNCHANGED stage /\ lapse' \subseteq Events \X {"swallowed", "orphan"}
      BY <1>1, <1>2, <2>1, <2>2, <2>3, <2>4 DEF WorkerNext, HealthyInv
    <2>6. \A w \in Workers : stage'[w] = Running
      BY <2>5 DEF HealthyInv
    <2> QED
      BY <1>2, <2>5, <2>6 DEF HealthyInv, ingestVars
  <1>3. CASE IngestNext /\ UNCHANGED <<workerVars, lapse>>
    <2>1. UNCHANGED <<server, lost>>
      BY <1>3, <1>a DEF IngestNext, RequestStep, HandlerStep, Accept, Reject, SaveEvent, Publish,
         Produce, SeedPublish, OutboxStep, DeliverEvent, DeliverEventTwice, EventDeliveryFails,
         ServerStep, StopStep, ApiSigterm, ApiShutdown, ApiCloseProducer, ApiExit, ApiCrash,
         ApiRestart, SeedEnds, HealthyInv, ingestVars
    <2>2. \A e \in Seeded : req'[e] \in {"idle", "seeded"}
      <3>1. req \in [Events -> ReqStates]
        BY DEF TypeInv, TypeOK, IngestTypeOK
      <3>2. \/ UNCHANGED req
            \/ \E e \in Events, r \in ReqStates :
                  Respond(e, r) /\ (e \in Seeded => r = "seeded")
        BY <1>3, <1>a DEF IngestNext, RequestStep, HandlerStep, Accept, Reject, SaveEvent, Publish,
           SeedPublish, OutboxStep, DeliverEvent, DeliverEventTwice, EventDeliveryFails,
           ServerStep, StopStep, ApiSigterm, ApiShutdown, ApiCloseProducer, ApiExit, ApiCrash,
           ApiRestart, SeedEnds, HealthyInv, ingestVars, ReqStates
      <3> QED
        BY <3>1, <3>2 DEF Respond, HealthyInv
    <2> QED
      BY <1>3, <2>1, <2>2 DEF HealthyInv, workerVars, ctlVars
  <1>4. CASE UNCHANGED <<workerVars, lapse, ingestVars>>
    BY <1>4 DEF HealthyInv, workerVars, ctlVars, ingestVars
  <1> QED
    BY <1>2, <1>3, <1>4 DEF Next, vars

(***************************************************************************)
(* When nothing fails and no process stops (no fault is enabled), the      *)
(* duplicate check on the retry loop is the only way to lose an            *)
(* acknowledged event: SeenDuplicate on the DLQ (handler of cmd/worker)    *)
(* skips the retry of an event whose key its first attempt has set.        *)
(***************************************************************************)
HealthyOutcome ==
    \A e \in Events : req[e] = "acked" =>
        e \in outbox \/ InFlight(e) \/ Concluded(e) \/ <<e, "swallowed">> \in lapse

THEOREM OnlySkippedRetriesAreLost ==
    ASSUME Flaky = {}, Down = {}
    PROVE  Spec => []HealthyOutcome
  <1>1. Init => TypeInv /\ HealthyInv
    BY InitTypeInv, InitHealthy
  <1>2. (TypeInv /\ HealthyInv) /\ [Next]_vars => (TypeInv /\ HealthyInv)'
    BY NextTypeInv, HealthyStep
  <1>3. HealthyInv /\ AckedAccounted /\ OrphansAreSeeded => HealthyOutcome
    <2> SUFFICES ASSUME HealthyInv, AckedAccounted, OrphansAreSeeded,
                        NEW e \in Events, req[e] = "acked",
                        ~(e \in outbox \/ InFlight(e) \/ Concluded(e))
                 PROVE  <<e, "swallowed">> \in lapse
      BY DEF HealthyOutcome
    <2>1. Lapsed(e) /\ e \notin Seeded
      BY DEF AckedAccounted, HealthyInv, Lost
    <2>2. PICK why \in {"swallowed", "orphan"} : <<e, why>> \in lapse
      BY <2>1 DEF Lapsed, HealthyInv
    <2> QED
      BY <2>1, <2>2 DEF OrphansAreSeeded
  <1> QED
    BY <1>1, <1>2, <1>3, AcceptedNeverForgotten, ForeignKeyHolds, PTL DEF Spec

-----------------------------------------------------------------------------
(***************************************************************************)
(* What the documentation says of decisions and of the idempotency key,    *)
(* and when it is so.  README.md: the worker "writes the full decision     *)
(* record"; redis.go: "Seen returns true if this event ID has already been *)
(* processed".  TLC refutes both as they stand; they hold when every event *)
(* came through the API, Postgres answers and nobody cancels ctx, and the  *)
(* second also needs that Redis answers and that no process dies.          *)
(***************************************************************************)

\* Nobody is stopping, and nobody has died unless that may happen.
Unstopped == \A w \in Workers : stage[w] = Running \/ (stage[w] = Stopped /\ "crash" \in Flaky)

\* Without SIGTERM no shutdown begins.
LEMMA StaysUnstopped ==
    ASSUME "sigterm" \notin Flaky, TypeInv, Unstopped, [Next]_vars
    PROVE  Unstopped'
  <1>a. stage \in [Workers -> 0..Stopped]
    BY DEF TypeInv, TypeOK, WorkerTypeOK
  <1>1. CASE UNCHANGED stage
    BY <1>1 DEF Unstopped
  <1>2. ASSUME NEW l \in Loops, LoopStep(l) \/ ProducerStep(l)
        PROVE  Unstopped'
    <2>1. UNCHANGED stage
      BY <1>2 DEF LoopStep, ConsumerRead, DLQRead, Fetch, PollTimeout, Backoff, BackoffCancelled,
         SaveRaw, CheckSeen, Process, Persist, Requeue, GiveUp, Commit, ProducerStep, Deliver,
         DeliverTwice, DeliveryFails, ctlVars
    <2> QED
      BY <1>1, <2>1
  <1>3. ASSUME NEW w \in Workers, Sigterm(w) \/ ShutdownStep(w)
        PROVE  FALSE
    <2>1. stage[w] \in {0, 8}
      BY DEF Unstopped, Running, Stopped
    <2>2. \A t \in Topics : /\ Closing(t) \notin {0, 8} /\ Flushed(t) \notin {0, 8}
                            /\ ProducerClosed(t) \notin {0, 8}
      BY DEF Closing, Flushed, ProducerClosed, Cancelled, Topics
    <2>3. ConsumerClosed("events") \notin {0, 8}
      BY DEF ConsumerClosed, Closing, Cancelled
    <2>4. ~Sigterm(w)
      BY DEF Sigterm, Fault
    <2> QED
      BY <1>3, <2>1, <2>2, <2>3, <2>4 DEF ShutdownStep, FlushProducer, CloseProducer,
         CloseConsumer, Exit
  <1>4. ASSUME NEW w \in Workers, Crash(w) \/ Restart(w)
        PROVE  Unstopped'
    BY <1>4, <1>a DEF Crash, Die, Fault, Restart, Unstopped
  <1>5. CASE WorkerNext
    <2>1. ASSUME NEW t \in Topics, NEW w \in Workers, Assign(t, w) \/ Rebalance(t, w)
          PROVE  Unstopped'
      BY <1>1, <2>1 DEF Assign, Rebalance, workerVars, ctlVars
    <2>2. ASSUME NEW e \in Events, Expire(e)
          PROVE  Unstopped'
      BY <1>1, <2>2 DEF Expire, ctlVars
    <2> QED
      BY <1>2, <1>3, <1>4, <1>5, <2>1, <2>2 DEF WorkerNext
  <1> QED
    BY <1>1, <1>5 DEF Next, vars, workerVars, ctlVars

\* A loop that runs has a live ctx.
LEMMA UnstoppedCtx ==
    ASSUME Unstopped, Gone, NEW l \in Loops, pc[l] # "exited"
    PROVE  Ctx(l)
  BY LoopParts DEF Unstopped, Gone, Ctx

\* A decision is never taken back.
LEMMA DecidedStays ==
    ASSUME TypeInv, [Next]_vars, NEW e \in Events, Decided(e)
    PROVE  Decided(e)'
  <1>1. rows \in [Events -> [Statuses -> Nat]]
    BY DEF TypeInv, TypeOK, PlatformTypeOK
  <1>2. CASE UNCHANGED rows
    BY <1>2 DEF Decided
  <1>3. ASSUME NEW x \in Events, NEW s \in Statuses, rows' = [rows EXCEPT ![x][s] = @ + 1]
        PROVE  Decided(e)'
    <2>1. PICK u \in Statuses : rows[e][u] > 0
      BY DEF Decided
    <2>2. rows'[e][u] > 0
      BY <1>1, <1>3, <2>1
    <2> QED
      BY <2>2 DEF Decided
  <1> QED
    BY <1>2, <1>3, RowsGrow

\* With its event stored and Postgres there, a handler records its decision.
LEMMA PersistDecides ==
    ASSUME Seeded = {}, ~MayFail("postgres"), TypeInv, OriginInv,
           NEW l \in Loops, Ctx(l), Persist(l), NEW e \in Events, Ev(l) = e
    PROVE  Decided(e)'
  <1>1. rows \in [Events -> [Statuses -> Nat]]
    BY DEF TypeInv, TypeOK, PlatformTypeOK
  <1>2. e \in pgEvents
    <2>1. Busy(l)
      BY DEF Persist, Busy
    <2> QED
      BY <2>1, HandKnown DEF Known
  <1>3. PICK s \in Statuses : rows' = [rows EXCEPT ![e][s] = @ + 1]
    BY <1>2 DEF Persist, SaveDecision, StatusOf, Statuses
  <1>4. rows'[e][s] > 0
    BY <1>1, <1>3
  <1> QED
    BY <1>4 DEF Decided

\* Only the end of a handler, and the check of the key, say these fates.
LEMMA LoopFates ==
    ASSUME NEW l \in Loops, LoopStep(l), NEW t, NEW i
    PROVE  /\ <<t, i, "decided">> \in handled' =>
                 <<t, i, "decided">> \in handled \/ (Persist(l) /\ t = l[2] /\ i = off[l])
           /\ <<t, i, "duplicate">> \in handled' =>
                 \/ <<t, i, "duplicate">> \in handled
                 \/ /\ CheckSeen(l) /\ (SeenDuplicate(l) \/ SeenResent(l))
                    /\ t = l[2] /\ i = off[l]
  BY DEF LoopStep, ConsumerRead, DLQRead, Parse, PollTimeout, Backoff, BackoffCancelled,
     SaveRaw, CheckSeen, SeenFirst, SeenDuplicate, SeenResent, SeenError, Process, Persist, Requeue,
     GiveUp, Commit, Settle

\* Outside the loops no record meets its fate.
LEMMA WorldFates ==
    ASSUME [Next]_vars, ~\E l \in Loops : LoopStep(l)
    PROVE  UNCHANGED handled
  <1>1. CASE WorkerNext
    BY <1>1 DEF WorkerNext, ProducerStep, Deliver, DeliverTwice, DeliveryFails, Assign,
       Rebalance, Expire, Sigterm, ShutdownStep, FlushProducer, CloseProducer, CloseConsumer,
       Exit, Crash, Die, Restart, workerVars
  <1> QED
    BY <1>1 DEF Next, vars, workerVars

\* A record that is new has no fate yet.
LEMMA NoFateAhead ==
    ASSUME TypeInv, FatesOnLog, [Next]_vars, NEW t \in Topics, NEW i \in 1..Len(log'[t]),
           HasFate(t, i)
    PROVE  i \in 1..Len(log[t]) /\ log'[t][i] = log[t][i]
  BY RecordStays DEF FatesOnLog

RecordInv ==
    \A i \in 1..Len(log["events"]) :
        LET e == log["events"][i].payload IN
        <<"events", i, "decided">> \in handled => e \in Events /\ Decided(e)

\* Each step keeps the decisions recorded.
LEMMA RecordStep ==
    ASSUME Seeded = {}, ~MayFail("postgres"), AccountInv, OriginInv, Unstopped, RecordInv,
           [Next]_vars
    PROVE  RecordInv'
  <1> SUFFICES ASSUME NEW i \in 1..Len(log'["events"]), <<"events", i, "decided">> \in handled'
               PROVE  /\ log'["events"][i].payload \in Events
                      /\ \E s \in Statuses : rows'[log'["events"][i].payload][s] > 0
    BY DEF RecordInv, Decided
  <1>a. TypeInv /\ Gone /\ FatesOnLog /\ "events" \in Topics
    BY DEF AccountInv, LossInv, Topics
  <1>1. CASE <<"events", i, "decided">> \in handled
    <2>1. HasFate("events", i)
      BY <1>1 DEF HasFate, Fates
    <2>2. i \in 1..Len(log["events"]) /\ log'["events"][i] = log["events"][i]
      BY <1>a, <2>1, NoFateAhead
    <2>3. PICK e \in Events : e = log["events"][i].payload /\ Decided(e)
      BY <1>1, <2>2 DEF RecordInv
    <2>4. Decided(e)'
      BY <1>a, <2>3, DecidedStays
    <2> QED
      BY <2>2, <2>3, <2>4 DEF Decided
  <1>2. CASE <<"events", i, "decided">> \notin handled
    <2>1. PICK l \in Loops : LoopStep(l)
      BY <1>2, WorldFates
    <2>2. Persist(l) /\ l[2] = "events" /\ off[l] = i
      BY <1>2, <2>1, LoopFates
    <2>3. PICK e \in Events : e = Ev(l)
      BY <1>a, <2>2 DEF TypeInv, InHand, Handling, Persist
    <2>4. Ctx(l)
      BY <1>a, <2>2, UnstoppedCtx DEF Persist
    <2>5. Decided(e)'
      BY <1>a, <2>2, <2>3, <2>4, PersistDecides
    <2>6. log'["events"][i].payload = e
      <3>1. UNCHANGED log
        BY <2>2 DEF Persist, kafkaVars
      <3> QED
        BY <2>2, <2>3, <3>1 DEF Ev, Rec
    <2> QED
      BY <2>5, <2>6 DEF Decided
  <1> QED
    BY <1>1, <1>2

(***************************************************************************)
(* README.md, "writes the full decision record ... to Postgres": so it is, *)
(* through every crash, rebalance and duplicate, for events that came      *)
(* through the API while Postgres answers and no SIGTERM cancels ctx.      *)
(***************************************************************************)
THEOREM ApiDecisionsRecorded ==
    ASSUME Seeded = {}, "sigterm" \notin Flaky, ~MayFail("postgres")
    PROVE  Spec => []DecisionRecorded
  <1> DEFINE Inv == AccountInv /\ OriginInv /\ Unstopped /\ RecordInv
  <1>1. Init => Inv
    <2>1. Init => Unstopped /\ RecordInv
      BY DEF Init, WorkerInit, Unstopped, RecordInv
    <2> QED
      BY <2>1, InitAccount, InitOrigin
  <1>2. Inv /\ [Next]_vars => Inv'
    <2> SUFFICES ASSUME Inv, [Next]_vars PROVE Inv'
      OBVIOUS
    <2>1. AccountInv'
      BY NextAccount
    <2>2. TypeInv /\ TypeInv'
      BY <2>1 DEF AccountInv
    <2>3. OriginInv' /\ Unstopped'
      BY <2>2, NextOrigin, StaysUnstopped
    <2> QED
      BY <2>1, <2>3, RecordStep
  <1>3. Inv => DecisionRecorded
    BY DEF RecordInv, DecisionRecorded
  <1> QED
    BY <1>1, <1>2, <1>3, PTL DEF Spec

\* A loop is between the check of e's key and e's decision row.
AtWork(e) == \E l \in Loops : pc[l] \in {"process", "persist"} /\ Ev(l) = e

\* A record of e was skipped as a duplicate.
Skipped(e) ==
    \E i \in 1..Len(log["events"]) :
        log["events"][i].payload = e /\ <<"events", i, "duplicate">> \in handled

KeyInv == \A e \in Events : e \in seen \/ Skipped(e) => Decided(e) \/ AtWork(e)

\* Only an event can be skipped: the check comes after the parsing.
SkipsEvents ==
    \A i \in 1..Len(log["events"]) :
        <<"events", i, "duplicate">> \in handled => log["events"][i].payload \in Events

\* A loop that keeps its place keeps its event.
LEMMA WorkStays ==
    ASSUME TypeInv, [Next]_vars, NEW e \in Events, NEW k \in Loops,
           pc[k] \in {"process", "persist"}, Ev(k) = e,
           pc'[k] \in {"process", "persist"}, off'[k] = off[k]
    PROVE  AtWork(e)'
  <1>1. k[2] \in Topics /\ off[k] \in 1..Len(log[k[2]])
    BY LoopParts DEF TypeInv, InHand, Busy
  <1>2. log'[k[2]][off[k]] = log[k[2]][off[k]]
    BY <1>1, RecordStays
  <1>3. Ev(k)' = e
    BY <1>2 DEF Ev, Rec
  <1> QED
    BY <1>3 DEF AtWork

\* A step of a loop.
LEMMA LoopKey ==
    ASSUME Seeded = {}, ~MayFail("postgres"), ~MayFail("redis"), AccountInv, OriginInv, Unstopped, KeyInv,
           [Next]_vars, NEW l \in Loops, LoopStep(l), NEW e \in Events, e \in seen' \/ Skipped(e)'
    PROVE  Decided(e)' \/ AtWork(e)'
  <1>a. TypeInv /\ Gone /\ pc \in [Loops -> PcValues]
    BY DEF AccountInv, TypeInv, TypeOK, WorkerTypeOK
  <1>b. /\ UNCHANGED log
        /\ \A k \in Loops \ {l} : pc'[k] = pc[k] /\ off'[k] = off[k]
    BY <1>a, LoopFrame
  <1>1. CASE Decided(e)
    BY <1>1, <1>a, DecidedStays
  <1>2. ASSUME NEW k \in Loops, pc[k] \in {"process", "persist"}, Ev(k) = e
        PROVE  Decided(e)' \/ AtWork(e)'
    <2>1. CASE k # l
      BY <1>2, <1>a, <1>b, <2>1, WorkStays
    <2>2. CASE k = l /\ pc[l] = "process"
      <3>1. Process(l)
        BY <2>2 DEF LoopStep, ConsumerRead, DLQRead, Fetch, PollTimeout, Backoff,
           BackoffCancelled, SaveRaw, CheckSeen, Persist, Requeue, GiveUp, Commit
      <3>2. pc'[l] = "persist" /\ off'[l] = off[l]
        BY <1>a, <3>1 DEF Process, Goto
      <3> QED
        BY <1>2, <1>a, <2>2, <3>2, WorkStays
    <2>3. CASE k = l /\ pc[l] = "persist"
      <3>1. Persist(l)
        BY <2>3 DEF LoopStep, ConsumerRead, DLQRead, Fetch, PollTimeout, Backoff,
           BackoffCancelled, SaveRaw, CheckSeen, Process, Requeue, GiveUp, Commit
      <3>2. Ctx(l)
        BY <1>a, <2>3, UnstoppedCtx
      <3> QED
        BY <1>2, <1>a, <2>3, <3>1, <3>2, PersistDecides
    <2> QED
      BY <1>2, <2>1, <2>2, <2>3
  <1>3. CASE e \in seen \/ Skipped(e)
    BY <1>1, <1>2, <1>3 DEF KeyInv, AtWork
  <1>4. CASE e \notin seen /\ e \in seen'
    <2>1. CheckSeen(l) /\ (SeenFirst(l) \/ SeenError(l))
      BY <1>4 DEF LoopStep, ConsumerRead, DLQRead, Fetch, PollTimeout, Backoff,
         BackoffCancelled, SaveRaw, CheckSeen, SeenDuplicate, SeenResent, Process, Persist,
         Requeue, GiveUp, Commit, storeVars
    <2>2. Ev(l) = e /\ pc'[l] = "process" /\ off'[l] = off[l]
      BY <1>4, <1>a, <2>1 DEF CheckSeen, SeenFirst, SeenError, Goto
    <2>3. Ev(l)' = e
      BY <1>b, <2>2 DEF Ev, Rec
    <2> QED
      BY <2>2, <2>3 DEF AtWork
  <1>5. CASE e \notin seen /\ ~Skipped(e) /\ Skipped(e)'
    <2>1. PICK i \in 1..Len(log["events"]) : /\ log["events"][i].payload = e
                                             /\ <<"events", i, "duplicate">> \in handled'
                                             /\ <<"events", i, "duplicate">> \notin handled
      BY <1>5, <1>b DEF Skipped
    <2>2. SeenDuplicate(l) /\ l[2] = "events" /\ off[l] = i
      BY <2>1, LoopFates DEF SeenResent
    <2>3. Ev(l) = e /\ e \in seen
      BY <2>1, <2>2 DEF SeenDuplicate, Ev, Rec
    <2> QED
      BY <1>5, <2>3
  <1> QED
    BY <1>3, <1>4, <1>5

\* With no death and no shutdown the loops are alone in moving themselves.
LEMMA WorldStill ==
    ASSUME "sigterm" \notin Flaky, "crash" \notin Flaky, TypeInv, Unstopped, [Next]_vars,
           ~\E l \in Loops : LoopStep(l)
    PROVE  UNCHANGED <<pc, off>> /\ seen' \subseteq seen
  <1>a. \A w \in Workers : stage[w] = Running
    BY DEF Unstopped
  <1>1. ASSUME NEW w \in Workers, Sigterm(w) \/ ShutdownStep(w) \/ Crash(w) \/ Restart(w)
        PROVE  FALSE
    <2>1. \A t \in Topics : Closing(t) # 0 /\ Flushed(t) # 0 /\ ProducerClosed(t) # 0
      BY DEF Closing, Flushed, ProducerClosed, Cancelled, Topics
    <2>2. ConsumerClosed("events") # 0 /\ Stopped # 0
      BY DEF ConsumerClosed, Closing, Cancelled, Stopped
    <2>3. ~Sigterm(w) /\ ~Crash(w) /\ stage[w] = 0
      BY <1>a DEF Sigterm, Crash, Fault, Running
    <2> QED
      BY <1>1, <2>1, <2>2, <2>3 DEF ShutdownStep, FlushProducer, CloseProducer, CloseConsumer,
         Exit, Restart
  <1>2. CASE WorkerNext
    BY <1>1, <1>2 DEF WorkerNext, ProducerStep, Deliver, DeliverTwice, DeliveryFails, Assign,
       Rebalance, Expire, ctlVars, storeVars, workerVars
  <1>3. CASE IngestNext /\ UNCHANGED <<workerVars, lapse>>
    BY <1>3, IngestParts DEF workerVars, ctlVars
  <1> QED
    BY <1>2, <1>3 DEF Next, ServiceNext, ForeignRecord, vars, workerVars, ctlVars, storeVars

\* Each step keeps a decision, or a handler, behind the key.
LEMMA KeyStep ==
    ASSUME Seeded = {}, ~MayFail("postgres"), ~MayFail("redis"),
           "sigterm" \notin Flaky, "crash" \notin Flaky,
           AccountInv, OriginInv, Unstopped, KeyInv, [Next]_vars
    PROVE  KeyInv'
  <1> SUFFICES ASSUME NEW e \in Events, e \in seen' \/ Skipped(e)'
               PROVE  Decided(e)' \/ AtWork(e)'
    BY DEF KeyInv
  <1>a. TypeInv /\ FatesOnLog /\ "events" \in Topics
    BY DEF AccountInv, LossInv, Topics
  <1>1. CASE \E l \in Loops : LoopStep(l)
    BY <1>1, LoopKey
  <1>2. CASE ~\E l \in Loops : LoopStep(l)
    <2>1. UNCHANGED <<pc, off, handled>> /\ seen' \subseteq seen
      BY <1>2, <1>a, WorldStill, WorldFates
    <2>2. Skipped(e)' => Skipped(e)
      <3> SUFFICES ASSUME NEW i \in 1..Len(log'["events"]), log'["events"][i].payload = e,
                          <<"events", i, "duplicate">> \in handled
                   PROVE  Skipped(e)
        BY <2>1 DEF Skipped
      <3>1. HasFate("events", i)
        BY DEF HasFate, Fates
      <3>2. i \in 1..Len(log["events"]) /\ log'["events"][i] = log["events"][i]
        BY <1>a, <3>1, NoFateAhead
      <3> QED
        BY <3>2 DEF Skipped
    <2>3. Decided(e) \/ AtWork(e)
      BY <2>1, <2>2 DEF KeyInv
    <2>4. CASE AtWork(e)
      BY <1>a, <2>1, <2>4, WorkStays DEF AtWork
    <2> QED
      BY <1>a, <2>3, <2>4, DecidedStays
  <1> QED
    BY <1>1, <1>2

LEMMA SkipsStep ==
    ASSUME AccountInv, SkipsEvents, [Next]_vars
    PROVE  SkipsEvents'
  <1> SUFFICES ASSUME NEW i \in 1..Len(log'["events"]), <<"events", i, "duplicate">> \in handled'
               PROVE  log'["events"][i].payload \in Events
    BY DEF SkipsEvents
  <1>a. TypeInv /\ FatesOnLog /\ "events" \in Topics
    BY DEF AccountInv, LossInv, Topics
  <1>1. CASE <<"events", i, "duplicate">> \in handled
    <2>1. HasFate("events", i)
      BY <1>1 DEF HasFate, Fates
    <2> QED
      BY <1>1, <1>a, <2>1, NoFateAhead DEF SkipsEvents
  <1>2. CASE <<"events", i, "duplicate">> \notin handled
    <2>1. PICK l \in Loops : LoopStep(l)
      BY <1>2, WorldFates
    <2>2. CheckSeen(l) /\ l[2] = "events" /\ off[l] = i
      BY <1>2, <2>1, LoopFates
    <2>3. Ev(l) \in Events
      BY <1>a, <2>2 DEF TypeInv, InHand, Handling, CheckSeen
    <2>4. UNCHANGED log
      BY <2>2 DEF CheckSeen, kafkaVars
    <2> QED
      BY <2>2, <2>3, <2>4 DEF Ev, Rec
  <1> QED
    BY <1>1, <1>2

(***************************************************************************)
(* redis.go, "true if this event ID has already been processed": so it is, *)
(* up to a handler at work on the event at that moment, for events that    *)
(* came through the API, while Postgres and Redis answer and no worker     *)
(* dies or is stopped, however records are repeated and partitions moved.  *)
(* When Redis may lose a reply, the client's resend of the command makes   *)
(* Seen call an event processed that nobody has looked at (SeenResent).    *)
(***************************************************************************)
THEOREM SkippedAreProcessed ==
    ASSUME Seeded = {}, "sigterm" \notin Flaky, "crash" \notin Flaky,
           ~MayFail("postgres"), ~MayFail("redis")
    PROVE  Spec => []SeenMeansProcessed
  <1> DEFINE Inv == AccountInv /\ OriginInv /\ Unstopped /\ KeyInv /\ SkipsEvents
  <1>1. Init => Inv
    <2>1. Init => Unstopped /\ KeyInv /\ SkipsEvents
      BY DEF Init, PlatformInit, WorkerInit, Unstopped, KeyInv, Skipped, SkipsEvents
    <2> QED
      BY <2>1, InitAccount, InitOrigin
  <1>2. Inv /\ [Next]_vars => Inv'
    <2> SUFFICES ASSUME Inv, [Next]_vars PROVE Inv'
      OBVIOUS
    <2>1. AccountInv'
      BY NextAccount
    <2>2. TypeInv /\ TypeInv'
      BY <2>1 DEF AccountInv
    <2>3. OriginInv' /\ Unstopped'
      BY <2>2, NextOrigin, StaysUnstopped
    <2> QED
      BY <2>1, <2>3, KeyStep, SkipsStep
  <1>3. Inv => SeenMeansProcessed
    <2> SUFFICES ASSUME Inv, NEW i \in 1..Len(log["events"]),
                        <<"events", i, "duplicate">> \in handled
                 PROVE  \/ Decided(log["events"][i].payload)
                        \/ AtWork(log["events"][i].payload)
      BY DEF SeenMeansProcessed, AtWork
    <2>1. log["events"][i].payload \in Events
      BY DEF SkipsEvents
    <2> QED
      BY <2>1 DEF KeyInv, Skipped
  <1> QED
    BY <1>1, <1>2, <1>3, PTL DEF Spec
=============================================================================
