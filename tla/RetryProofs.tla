----------------------------- MODULE RetryProofs -----------------------------
(***************************************************************************)
(* The retry budget, for any RETRY_MAX_ATTEMPTS.  The retry-count header   *)
(* is trustworthy: a record with count n is on the DLQ, in a producer      *)
(* queue or about to be queued only after n + 1 failed attempts at its     *)
(* event, so the give-up at MaxRetry comes after MaxRetry + 1 of them,     *)
(* whatever is delivered twice, out of turn or by several replicas; and    *)
(* no count exceeds MaxRetry, so no copy is retried once too often.        *)
(***************************************************************************)
EXTENDS PipelineProofs, FiniteSetTheorems

\* A record with this retry count is backed by failed attempts.
Backed(r) == r.payload \in Events => fails[r.payload] >= r.rc + 1

DLQBacked == \A i \in 1..Len(log["dlq"]) : Backed(log["dlq"][i])

QueueBacked == \A l \in Loops : \A i \in 1..Len(buf[l]) : Backed(buf[l][i])

\* A loop that saw its attempt fail may queue the next one.
Pending(l) ==
    pc[l] = "requeue" \/ (pc[l] = "persist" /\ verdict[l] = "error") =>
        fails[Ev(l)] >= NextRc(l) + 1

\* Only a record of the DLQ whose count reached the budget is given up, and
\* only one whose count did not waits for its retry.
Due(l) ==
    /\ pc[l] = "giveup" => l[2] = "dlq" /\ Rec(l).rc >= MaxRetry
    /\ pc[l] = "wait" => l[2] = "dlq" /\ ~(Rec(l).rc >= MaxRetry)

BudgetInv ==
    /\ DLQBacked
    /\ QueueBacked
    /\ \A l \in Loops : Pending(l) /\ Due(l)
    /\ PermanentFailureEarned

USE PlatformAssumption, WorkerAssumption, IngestAssumption

-----------------------------------------------------------------------------
(* Nothing has failed and nothing is queued initially. *)
LEMMA InitBudget == Init => BudgetInv
  <1> SUFFICES ASSUME Init PROVE BudgetInv
    OBVIOUS
  <1>1. DLQBacked /\ QueueBacked
    BY DEF Init, PlatformInit, WorkerInit, DLQBacked, QueueBacked, Topics
  <1>2. \A l \in Loops : Pending(l) /\ Due(l)
    BY DEF Init, WorkerInit, Pending, Due
  <1>3. PermanentFailureEarned
    BY DEF Init, PlatformInit, PermanentFailureEarned, Statuses
  <1> QED
    BY <1>1, <1>2, <1>3 DEF BudgetInv

(* More failures back a record all the more. *)
LEMMA BackedStays ==
    ASSUME TypeOK, TypeOK', \A e \in Events : fails[e] <= fails'[e],
           NEW r \in Record, Backed(r)
    PROVE  r.payload \in Events => fails'[r.payload] >= r.rc + 1
  <1>1. r.rc \in Nat
    BY DEF Record
  <1> QED
    BY <1>1 DEF Backed, TypeOK, WorkerTypeOK

(* The loops that do not move keep their part of the invariant. *)
LEMMA OthersBudget ==
    ASSUME TypeInv, TypeInv', BudgetInv, NEW l \in Loops,
           UNCHANGED log, \A e \in Events : fails[e] <= fails'[e],
           \A k \in Loops \ {l} : pc'[k] = pc[k] /\ off'[k] = off[k] /\ verdict'[k] = verdict[k],
           Pending(l)', Due(l)'
    PROVE  DLQBacked' /\ \A k \in Loops : Pending(k)' /\ Due(k)'
  <1>a. TypeOK /\ TypeOK' /\ InHand
    BY DEF TypeInv
  <1>1. DLQBacked'
    <2> SUFFICES ASSUME NEW i \in 1..Len(log["dlq"]) PROVE Backed(log["dlq"][i])'
      BY DEF DLQBacked
    <2>1. log["dlq"][i] \in Record
      BY <1>a DEF TypeOK, PlatformTypeOK, Topics
    <2>2. Backed(log["dlq"][i])
      BY DEF BudgetInv, DLQBacked
    <2> QED
      BY <1>a, <2>1, <2>2, BackedStays DEF Backed
  <1>2. ASSUME NEW k \in Loops, k # l
        PROVE  Pending(k)' /\ Due(k)'
    <2>1. Pending(k) /\ Due(k)
      BY DEF BudgetInv
    <2>2. pc'[k] = pc[k] /\ verdict'[k] = verdict[k] /\ Rec(k)' = Rec(k)
      BY <1>2 DEF Rec
    <2>3. Pending(k)'
      <3> SUFFICES ASSUME pc[k] = "requeue" \/ (pc[k] = "persist" /\ verdict[k] = "error")
                   PROVE  fails'[Ev(k)] >= NextRc(k) + 1
        BY <2>2 DEF Pending, Ev, NextRc
      <3>1. Ev(k) \in Events /\ Busy(k)
        BY <1>a DEF InHand, Handling, Busy
      <3>2. NextRc(k) \in Nat
        BY <3>1, RecType DEF NextRc
      <3> QED
        BY <1>a, <2>1, <3>1, <3>2 DEF Pending, TypeOK, WorkerTypeOK
    <2>4. Due(k)'
      BY <2>1, <2>2 DEF Due
    <2> QED
      BY <2>3, <2>4
  <1> QED
    BY <1>1, <1>2

(* What a loop step leaves alone. *)
LEMMA LoopFrame ==
    ASSUME TypeInv, NEW l \in Loops, LoopStep(l)
    PROVE  /\ UNCHANGED log
           /\ \A e \in Events : fails[e] <= fails'[e]
           /\ \A k \in Loops \ {l} : /\ pc'[k] = pc[k] /\ off'[k] = off[k]
                                     /\ verdict'[k] = verdict[k]
  <1>a. pc \in [Loops -> PcValues] /\ fails \in [Events -> Nat]
    BY DEF TypeInv, TypeOK, WorkerTypeOK
  <1>1. UNCHANGED log
    BY DEF LoopStep, ConsumerRead, DLQRead, Fetch, PollTimeout, Backoff, BackoffCancelled,
           SaveRaw, CheckSeen, Process, Persist, Requeue, GiveUp, Commit, kafkaVars
  <1>2. \A e \in Events : fails[e] <= fails'[e]
    <2>1. CASE Process(l)
      <3>1. \/ fails' = [fails EXCEPT ![Ev(l)] = @ + 1]
            \/ fails' = [fails EXCEPT ![Ev(l)] = @]
        BY <2>1 DEF Process
      <3> QED
        BY <1>a, <3>1
    <2>2. CASE ~Process(l)
      BY <1>a, <2>2 DEF LoopStep, ConsumerRead, DLQRead, Fetch, PollTimeout, Backoff,
         BackoffCancelled, SaveRaw, CheckSeen, Persist, Requeue, GiveUp, Commit
    <2> QED
      BY <2>1, <2>2
  <1>3. ASSUME NEW k \in Loops \ {l}
        PROVE  pc'[k] = pc[k]
    BY <1>a, <1>3 DEF LoopStep, ConsumerRead, DLQRead, Parse, Goto, PollTimeout, Backoff,
       BackoffCancelled, SaveRaw, CheckSeen, SeenFirst, SeenDuplicate, SeenResent, SeenError, Process,
       Persist, Requeue, GiveUp, Commit
  <1>4. ASSUME NEW k \in Loops \ {l}
        PROVE  off'[k] = off[k] /\ verdict'[k] = verdict[k]
    BY <1>4 DEF TypeInv, TypeOK, WorkerTypeOK, LoopStep, ConsumerRead, DLQRead, Fetch, PollTimeout,
       Backoff, BackoffCancelled, SaveRaw, CheckSeen, Process, Persist, Requeue, GiveUp,
       Commit, Release
  <1> QED
    BY <1>1, <1>2, <1>3, <1>4

(* A queue that does not grow stays backed. *)
LEMMA QueueStays ==
    ASSUME TypeOK, TypeOK', QueueBacked, UNCHANGED buf,
           \A e \in Events : fails[e] <= fails'[e]
    PROVE  QueueBacked'
  <1> SUFFICES ASSUME NEW l \in Loops, NEW i \in 1..Len(buf[l])
               PROVE  Backed(buf[l][i])'
    BY DEF QueueBacked
  <1>1. buf[l][i] \in Record
    <2>1. buf[l] \in Seq(EventRecords)
      BY DEF TypeOK, WorkerTypeOK
    <2>2. buf[l][i] \in EventRecords
      BY <2>1
    <2> QED
      BY <2>2 DEF EventRecords, Record
  <1>2. Backed(buf[l][i])
    BY DEF QueueBacked
  <1> QED
    BY <1>1, <1>2, BackedStays DEF Backed

(* The verdict on an event stands while failures only grow. *)
LEMMA EarnedStays ==
    ASSUME TypeOK, TypeOK', PermanentFailureEarned,
           \A e \in Events : fails[e] <= fails'[e],
           \A e \in Events : rows'[e]["permanently_failed"] > 0 =>
              rows[e]["permanently_failed"] > 0
    PROVE  PermanentFailureEarned'
  BY DEF PermanentFailureEarned, TypeOK, WorkerTypeOK

(* A step of a loop preserves the invariant. *)
LEMMA LoopBudget ==
    ASSUME TypeInv, TypeInv', BudgetInv, NEW l \in Loops, LoopStep(l)
    PROVE  BudgetInv'
  <1>a. TypeOK /\ TypeOK' /\ InHand /\ QueueBacked /\ PermanentFailureEarned
    BY DEF TypeInv, BudgetInv
  <1>b. /\ UNCHANGED log
        /\ \A e \in Events : fails[e] <= fails'[e]
        /\ \A k \in Loops \ {l} : /\ pc'[k] = pc[k] /\ off'[k] = off[k]
                                  /\ verdict'[k] = verdict[k]
    BY LoopFrame
  <1>c. ASSUME Pending(l)', Due(l)', QueueBacked', PermanentFailureEarned'
        PROVE  BudgetInv'
    BY <1>b, <1>c, OthersBudget DEF BudgetInv
  <1>d. pc \in [Loops -> PcValues]
    BY <1>a DEF TypeOK, WorkerTypeOK
  <1>1. CASE /\ pc'[l] \notin {"requeue", "persist", "giveup", "wait"}
             /\ UNCHANGED <<buf, rows>>
    <2>1. Pending(l)' /\ Due(l)'
      BY <1>1 DEF Pending, Due
    <2>2. QueueBacked'
      BY <1>1, <1>a, <1>b, QueueStays
    <2>3. PermanentFailureEarned'
      BY <1>1, <1>a, <1>b, EarnedStays
    <2> QED
      BY <1>c, <2>1, <2>2, <2>3
  <1>2. CASE ConsumerRead(l) \/ PollTimeout(l) \/ Backoff(l) \/ BackoffCancelled(l)
    <2>1. pc'[l] \in {"commit", "save", "poll", "exited"}
      BY <1>2, <1>d DEF ConsumerRead, Parse, Goto, PollTimeout, LoopHead, Backoff, BackoffCancelled
    <2>2. UNCHANGED <<buf, rows>>
      BY <1>2 DEF ConsumerRead, Fetch, PollTimeout, Backoff, BackoffCancelled, storeVars
    <2> QED
      BY <1>1, <2>1, <2>2
  <1>3. CASE SaveRaw(l) \/ CheckSeen(l) \/ Commit(l)
    <2>1. pc'[l] \in {"seen", "process", "commit", "poll", "exited"}
      BY <1>3, <1>d DEF SaveRaw, CheckSeen, SeenFirst, SeenDuplicate, SeenResent, SeenError, Commit, Goto, LoopHead
    <2>2. UNCHANGED <<buf, rows>>
      BY <1>3 DEF SaveRaw, CheckSeen, Commit, storeVars
    <2> QED
      BY <1>1, <2>1, <2>2
  <1>4. CASE DLQRead(l)
    <2>1. pc'[l] = IF log["dlq"][pos["dlq"] + 1].rc >= MaxRetry THEN "giveup" ELSE "wait"
      BY <1>4, <1>d DEF DLQRead, Goto
    <2>2. /\ l[2] = "dlq" /\ off'[l] = pos["dlq"] + 1 /\ UNCHANGED <<buf, rows>>
      BY <1>4, <1>a DEF DLQRead, Fetch, TypeOK, WorkerTypeOK, storeVars
    <2>3. Pending(l)' /\ Due(l)'
      BY <1>b, <2>1, <2>2 DEF Pending, Due, Rec
    <2>4. QueueBacked'
      BY <1>a, <1>b, <2>2, QueueStays
    <2>5. PermanentFailureEarned'
      BY <1>a, <1>b, <2>2, EarnedStays
    <2> QED
      BY <1>c, <2>3, <2>4, <2>5
  <1>5. CASE Process(l)
    <2>1. PICK reply \in LLMReplies \cup (IF Ctx(l) THEN {} ELSE {"no_answer"}) :
            /\ verdict' = [verdict EXCEPT ![l] = Outcome(reply)]
            /\ fails' = [fails EXCEPT ![Ev(l)] = IF Outcome(reply) = "error" THEN @ + 1 ELSE @]
      BY <1>5 DEF Process
    <2>2. pc'[l] = "persist" /\ UNCHANGED <<off, buf, rows>>
      BY <1>5, <1>d DEF Process, Goto, storeVars
    <2>3. Ev(l) \in Events /\ Busy(l) /\ off[l] \in 1..Len(log[l[2]])
      BY <1>5, <1>a DEF Process, InHand, Handling, Busy
    <2>4. Pending(l)'
      <3> SUFFICES ASSUME verdict'[l] = "error"
                   PROVE  fails'[Ev(l)] >= NextRc(l) + 1
        BY <1>b, <2>2 DEF Pending, Ev, Rec, NextRc
      <3>1. fails'[Ev(l)] = fails[Ev(l)] + 1
        BY <1>a, <2>1, <2>3 DEF TypeOK, WorkerTypeOK
      <3>2. CASE l[2] = "events"
        BY <1>a, <2>3, <3>1, <3>2 DEF NextRc, TypeOK, WorkerTypeOK
      <3>3. CASE l[2] = "dlq"
        <4>1. Backed(Rec(l))
          BY <2>3, <3>3 DEF BudgetInv, DLQBacked, Rec
        <4>2. Rec(l).rc \in Nat
          BY <2>3, RecType
        <4> QED
          BY <1>a, <2>3, <3>1, <3>3, <4>1, <4>2 DEF Backed, Ev, NextRc, TypeOK, WorkerTypeOK
      <3> QED
        BY <3>2, <3>3, LoopParts DEF Topics
    <2>5. Due(l)'
      BY <2>2 DEF Due
    <2>6. QueueBacked'
      BY <1>a, <1>b, <2>2, QueueStays
    <2>7. PermanentFailureEarned'
      BY <1>a, <1>b, <2>2, EarnedStays
    <2> QED
      BY <1>c, <2>4, <2>5, <2>6, <2>7
  <1>6. CASE Persist(l)
    <2>1. /\ pc[l] = "persist" /\ UNCHANGED <<off, verdict, buf, fails>>
          /\ pc'[l] = IF verdict[l] = "error" THEN "requeue" ELSE "commit"
      BY <1>6, <1>d DEF Persist, Goto
    <2>2. Pending(l)'
      BY <1>b, <2>1 DEF BudgetInv, Pending, Ev, Rec, NextRc
    <2>3. Due(l)'
      BY <2>1 DEF Due
    <2>4. QueueBacked'
      BY <1>a, <1>b, <2>1, QueueStays
    <2>5. PermanentFailureEarned'
      <3>1. StatusOf(verdict[l]) # "permanently_failed"
        BY DEF StatusOf
      <3>2. rows \in [Events -> [Statuses -> Nat]]
        BY <1>a DEF TypeOK, PlatformTypeOK
      <3>3. \/ rows' = [rows EXCEPT ![Ev(l)][StatusOf(verdict[l])] = @ + 1]
            \/ UNCHANGED rows
        BY <1>6 DEF Persist, SaveDecision
      <3>4. \A e \in Events : rows'[e]["permanently_failed"] = rows[e]["permanently_failed"]
        BY <3>1, <3>2, <3>3 DEF Statuses
      <3> QED
        BY <1>a, <1>b, <3>4, EarnedStays
    <2> QED
      BY <1>c, <2>2, <2>3, <2>4, <2>5
  <1>7. CASE Requeue(l)
    <2>1. pc[l] = "requeue" /\ pc'[l] = "commit" /\ UNCHANGED <<rows, fails>>
      BY <1>7, <1>d DEF Requeue, Goto, storeVars
    <2>2. Pending(l)' /\ Due(l)'
      BY <2>1 DEF Pending, Due
    <2>3. fails[Ev(l)] >= NextRc(l) + 1
      BY <2>1 DEF BudgetInv, Pending
    <2>4. QueueBacked'
      <3> DEFINE r == [payload |-> Ev(l), rc |-> NextRc(l)]
      <3>1. buf \in [Loops -> Seq(EventRecords)]
        BY <1>a DEF TypeOK, WorkerTypeOK
      <3>2. Backed(r)
        BY <2>3 DEF Backed
      <3>3. buf' = buf \/ buf' = [buf EXCEPT ![l] = Append(@, r)]
        BY <1>7 DEF Requeue
      <3>4. \A k \in Loops : \A i \in 1..Len(buf'[k]) :
               (i \in 1..Len(buf[k]) /\ buf'[k][i] = buf[k][i]) \/ buf'[k][i] = r
        <4>1. r \in EventRecords
          <5>1. Ev(l) \in Events /\ Busy(l)
            BY <2>1, <1>a DEF InHand, Handling, Busy
          <5>2. NextRc(l) \in Nat
            BY <5>1, RecType DEF NextRc
          <5> QED
            BY <5>1, <5>2 DEF EventRecords
        <4> HIDE DEF r
        <4> SUFFICES ASSUME NEW k \in Loops, NEW i \in 1..Len(buf'[k])
                     PROVE  (i \in 1..Len(buf[k]) /\ buf'[k][i] = buf[k][i]) \/ buf'[k][i] = r
          OBVIOUS
        <4>2. buf'[k] = buf[k] \/ buf'[k] = Append(buf[k], r)
          BY <3>1, <3>3, Zenon
        <4>3. buf[k] \in Seq(EventRecords)
          BY <3>1
        <4> QED
          BY <4>1, <4>2, <4>3, AppendParts
      <3>5. \A k \in Loops : \A i \in 1..Len(buf'[k]) : Backed(buf'[k][i])
        BY <1>a, <3>2, <3>4 DEF QueueBacked
      <3> QED
        BY <2>1, <3>5 DEF QueueBacked, Backed
    <2>5. PermanentFailureEarned'
      BY <1>a, <1>b, <2>1, EarnedStays
    <2> QED
      BY <1>c, <2>2, <2>4, <2>5
  <1>8. CASE GiveUp(l)
    <2>1. pc[l] = "giveup" /\ pc'[l] = "commit" /\ UNCHANGED <<buf, fails>>
      BY <1>8, <1>d DEF GiveUp, Goto
    <2>2. Pending(l)' /\ Due(l)'
      BY <2>1 DEF Pending, Due
    <2>3. QueueBacked'
      BY <1>a, <1>b, <2>1, QueueStays
    <2>4. l[2] = "dlq" /\ Rec(l).rc >= MaxRetry
      BY <2>1 DEF BudgetInv, Due
    <2>5. Busy(l) /\ off[l] \in 1..Len(log["dlq"])
      BY <1>a, <2>1, <2>4 DEF InHand, Busy
    <2>6. Backed(Rec(l)) /\ Rec(l).rc \in Nat
      BY <2>4, <2>5, RecType DEF BudgetInv, DLQBacked, Rec
    <2>7. Ev(l) \in Events => fails[Ev(l)] >= MaxRetry + 1
      BY <1>a, <2>4, <2>6, WorkerAssumption DEF Backed, Ev, TypeOK, WorkerTypeOK
    <2>8. PermanentFailureEarned'
      <3>1. rows \in [Events -> [Statuses -> Nat]]
        BY <1>a DEF TypeOK, PlatformTypeOK
      <3>2. \/ rows' = [rows EXCEPT ![Ev(l)]["permanently_failed"] = @ + 1]
            \/ UNCHANGED rows
        BY <1>8 DEF GiveUp, SaveDecision
      <3>3. \A e \in Events : e # Ev(l) => rows'[e] = rows[e]
        BY <3>1, <3>2
      <3> QED
        BY <1>a, <2>1, <2>7, <3>2, <3>3 DEF PermanentFailureEarned
    <2> QED
      BY <1>c, <2>2, <2>3, <2>8
  <1> QED
    BY <1>2, <1>3, <1>4, <1>5, <1>6, <1>7, <1>8 DEF LoopStep

(* Steps outside the loops: loops stand still or stop, the DLQ and the      *)
(* queues gain only backed records.                                         *)
LEMMA OutsideBudget ==
    ASSUME TypeInv, TypeInv', BudgetInv, UNCHANGED <<rows, fails>>,
           \A l \in Loops :
              \/ pc'[l] \in {"poll", "exited"}
              \/ pc'[l] = pc[l] /\ off'[l] = off[l] /\ verdict'[l] = verdict[l],
           \/ UNCHANGED log
           \/ \E t \in Topics, r \in Record : AppendTo(t, r) /\ (t = "dlq" => Backed(r)),
           \A l \in Loops : \A i \in 1..Len(buf'[l]) :
              \E j \in 1..Len(buf[l]) : buf'[l][i] = buf[l][j]
    PROVE  BudgetInv'
  <1>a. TypeOK /\ TypeOK' /\ InHand
    BY DEF TypeInv
  <1>1. /\ log \in [Topics -> Seq(Record)] /\ log' \in [Topics -> Seq(Record)]
        /\ \A u \in Topics : \A i \in 1..Len(log[u]) : log'[u][i] = log[u][i]
    BY <1>a, AppendKeeps DEF TypeOK, PlatformTypeOK
  <1>2. DLQBacked'
    <2>0. \A i \in 1..Len(log["dlq"]) : Backed(log["dlq"][i])
      BY DEF BudgetInv, DLQBacked
    <2>1. \A i \in 1..Len(log'["dlq"]) : Backed(log'["dlq"][i])
      <3>1. CASE UNCHANGED log
        BY <2>0, <3>1
      <3>2. ASSUME NEW t \in Topics, NEW r \in Record, AppendTo(t, r), t = "dlq" => Backed(r),
                   NEW i \in 1..Len(log'["dlq"])
            PROVE  Backed(log'["dlq"][i])
        <4>1. \/ i \in 1..Len(log["dlq"]) /\ log'["dlq"][i] = log["dlq"][i]
              \/ t = "dlq" /\ log'["dlq"][i] = r
          BY <1>1, <3>2 DEF AppendTo, Topics
        <4> QED
          BY <2>0, <3>2, <4>1
      <3> QED
        BY <3>1, <3>2
    <2> QED
      BY <2>1 DEF DLQBacked, Backed
  <1>3. QueueBacked'
    <2>1. \A l \in Loops : \A i \in 1..Len(buf'[l]) : Backed(buf'[l][i])
      BY DEF BudgetInv, QueueBacked
    <2> QED
      BY <2>1 DEF QueueBacked, Backed
  <1>4. ASSUME NEW l \in Loops
        PROVE  Pending(l)' /\ Due(l)'
    <2>1. CASE pc'[l] \in {"poll", "exited"}
      BY <2>1 DEF Pending, Due
    <2>2. CASE /\ pc'[l] = pc[l] /\ off'[l] = off[l] /\ verdict'[l] = verdict[l]
               /\ Busy(l)
      <3>1. Rec(l)' = Rec(l)
        BY <1>1, <1>a, <2>2, LoopParts DEF InHand, Rec
      <3> QED
        BY <2>2, <3>1 DEF BudgetInv, Pending, Due, Ev, NextRc
    <2> QED
      BY <2>1, <2>2 DEF Busy
  <1>5. PermanentFailureEarned'
    BY DEF BudgetInv, PermanentFailureEarned
  <1> QED
    BY <1>2, <1>3, <1>4, <1>5 DEF BudgetInv

(* The steps outside the loops preserve the invariant. *)
LEMMA WorldBudget ==
    ASSUME TypeInv, TypeInv', BudgetInv, Next,
           ~\E l \in Loops : LoopStep(l)
    PROVE  BudgetInv'
  <1>a. TypeOK
    BY DEF TypeInv
  <1>b. "dlq" \in Topics /\ "events" \in Topics
    BY DEF Topics
  <1>c. \A l \in Loops : pc[l] = pc[l] /\ off[l] = off[l] /\ verdict[l] = verdict[l]
    OBVIOUS
  <1>1. ASSUME NEW l \in Loops, ProducerStep(l)
        PROVE  BudgetInv'
    <2>1. buf[l] # <<>> /\ UNCHANGED <<rows, fails, pc, off, verdict>>
      BY <1>1 DEF ProducerStep, Deliver, DeliverTwice, DeliveryFails, storeVars, ctlVars
    <2>2. Head(buf[l]) \in Record /\ Backed(Head(buf[l]))
      <3>1. Head(buf[l]) = buf[l][1] /\ 1 \in 1..Len(buf[l])
        BY <1>a, <2>1 DEF TypeOK, WorkerTypeOK
      <3> QED
        BY <1>a, <2>1, <3>1, BufType DEF BudgetInv, QueueBacked
    <2>3. UNCHANGED log \/ AppendTo("dlq", Head(buf[l]))
      BY <1>1 DEF ProducerStep, Deliver, DeliverTwice, DeliveryFails, kafkaVars
    <2>4. \A k \in Loops : buf'[k] = buf[k] \/ buf'[k] = <<>> \/
                           (buf[k] # <<>> /\ buf'[k] = Tail(buf[k]))
      BY <1>1, <1>a, <2>1 DEF ProducerStep, Deliver, DeliverTwice, DeliveryFails, TypeOK, WorkerTypeOK
    <2>5. \A k \in Loops : \A i \in 1..Len(buf'[k]) :
              \E j \in 1..Len(buf[k]) : buf'[k][i] = buf[k][j]
      BY <1>a, <2>4, QueueCut
    <2> QED
      BY <1>b, <2>1, <2>2, <2>3, <2>5, OutsideBudget
  <1>2. ASSUME NEW w \in Workers, Die(w)
        PROVE  BudgetInv'
    <2>1. UNCHANGED <<rows, fails, log>>
      BY <1>2 DEF Die, storeVars
    <2>2. \A l \in Loops :
              \/ pc'[l] \in {"poll", "exited"}
              \/ pc'[l] = pc[l] /\ off'[l] = off[l] /\ verdict'[l] = verdict[l]
      BY <1>2 DEF Die
    <2>3. \A k \in Loops : buf'[k] = buf[k] \/ buf'[k] = <<>> \/
                           (buf[k] # <<>> /\ buf'[k] = Tail(buf[k]))
      BY <1>2 DEF Die
    <2>4. \A k \in Loops : \A i \in 1..Len(buf'[k]) :
              \E j \in 1..Len(buf[k]) : buf'[k][i] = buf[k][j]
      BY <1>a, <2>3, QueueCut
    <2> QED
      BY <2>1, <2>2, <2>4, OutsideBudget
  <1>3. ASSUME NEW w \in Workers, Restart(w)
        PROVE  BudgetInv'
    <2>1. UNCHANGED <<rows, fails, log, buf, off, verdict>>
      BY <1>3 DEF Restart, kafkaVars, storeVars
    <2>2. \A l \in Loops : pc'[l] = "poll" \/ pc'[l] = pc[l]
      BY <1>3 DEF Restart
    <2> QED
      BY <2>1, <2>2, OutsideBudget
  <1>4. ASSUME NEW w \in Workers, NEW t \in Topics, CloseProducer(w, t)
        PROVE  BudgetInv'
    <2>1. UNCHANGED <<rows, fails, log, pc, off, verdict>>
      BY <1>4 DEF CloseProducer, kafkaVars, storeVars
    <2>2. \A k \in Loops : buf'[k] = buf[k] \/ buf'[k] = <<>> \/
                           (buf[k] # <<>> /\ buf'[k] = Tail(buf[k]))
      BY <1>4, <1>a DEF CloseProducer, TypeOK, WorkerTypeOK
    <2>3. \A k \in Loops : \A i \in 1..Len(buf'[k]) :
              \E j \in 1..Len(buf[k]) : buf'[k][i] = buf[k][j]
      BY <1>a, <2>2, QueueCut
    <2> QED
      BY <2>1, <2>3, OutsideBudget
  <1>5. CASE /\ UNCHANGED <<rows, fails, pc, off, verdict, buf>>
             /\ \/ UNCHANGED log
                \/ \E t \in Topics, r \in Record : AppendTo(t, r) /\ (t = "dlq" => Backed(r))
    BY <1>5, OutsideBudget
  <1>6. CASE IngestNext /\ UNCHANGED <<workerVars, lapse>>
    <2>1. UNCHANGED <<rows, fails, pc, off, verdict, buf>>
      BY <1>6, IngestParts DEF workerVars, ctlVars
    <2>2. UNCHANGED log \/ \E e \in Events : AppendTo("events", EventRecord(e))
      BY <1>6, IngestParts
    <2>3. \A e \in Events : EventRecord(e) \in Record
      BY DEF EventRecord, Record
    <2> QED
      BY <1>5, <1>b, <2>1, <2>2, <2>3
  <1>7. CASE ServiceNext /\ UNCHANGED <<workerVars, lapse, ingestVars>>
    <2>1. [payload |-> Garbage, rc |-> 0] \in Record /\ Backed([payload |-> Garbage, rc |-> 0])
      BY PlatformAssumption DEF Record, Backed
    <2> QED
      BY <1>5, <1>7, <2>1 DEF ServiceNext, ForeignRecord, workerVars, ctlVars, storeVars
  <1>8. CASE WorkerNext
    <2>1. ASSUME NEW t \in Topics, NEW w \in Workers, Assign(t, w) \/ Rebalance(t, w)
          PROVE  BudgetInv'
      BY <2>1, <1>5 DEF Assign, Rebalance, storeVars, workerVars, ctlVars
    <2>2. ASSUME NEW e \in Events, Expire(e)
          PROVE  BudgetInv'
      BY <2>2, <1>5 DEF Expire, kafkaVars, ctlVars
    <2>3. ASSUME NEW w \in Workers, Sigterm(w)
          PROVE  BudgetInv'
      BY <2>3, <1>5 DEF Sigterm, kafkaVars, storeVars
    <2>4. ASSUME NEW w \in Workers, ShutdownStep(w)
          PROVE  BudgetInv'
      <3>1. ASSUME NEW t \in Topics, FlushProducer(w, t) \/ CloseConsumer(w, t)
            PROVE  BudgetInv'
        BY <3>1, <1>5 DEF FlushProducer, CloseConsumer, kafkaVars, storeVars
      <3> QED
        BY <2>4, <3>1, <1>2, <1>4 DEF ShutdownStep, Exit
    <2>5. ASSUME NEW w \in Workers, Crash(w)
          PROVE  BudgetInv'
      BY <2>5, <1>2 DEF Crash
    <2> QED
      BY <1>8, <1>1, <1>3, <2>1, <2>2, <2>3, <2>4, <2>5 DEF WorkerNext
  <1> QED
    BY <1>6, <1>7, <1>8 DEF Next

(* BudgetInv is inductive relative to TypeInv. *)
LEMMA NextBudget == TypeInv /\ TypeInv' /\ BudgetInv /\ [Next]_vars => BudgetInv'
  <1> SUFFICES ASSUME TypeInv, TypeInv', BudgetInv, [Next]_vars PROVE BudgetInv'
    OBVIOUS
  <1>1. CASE \E l \in Loops : LoopStep(l)
    BY <1>1, LoopBudget
  <1>2. CASE Next /\ ~\E l \in Loops : LoopStep(l)
    BY <1>2, WorldBudget
  <1>3. CASE UNCHANGED vars
    <2>1. UNCHANGED <<rows, fails, pc, off, verdict, buf, log>>
      BY <1>3 DEF vars, kafkaVars, storeVars, workerVars, ctlVars
    <2> QED
      BY <2>1, OutsideBudget
  <1> QED
    BY <1>1, <1>2, <1>3

(***************************************************************************)
(* The retry budget (dlq.go): an event is recorded as permanently failed   *)
(* only after RETRY_MAX_ATTEMPTS + 1 attempts at it failed.                *)
(***************************************************************************)
THEOREM BudgetRespected == Spec => []PermanentFailureEarned
  <1>1. Init => TypeInv /\ BudgetInv
    BY InitTypeInv, InitBudget
  <1>2. (TypeInv /\ BudgetInv) /\ [Next]_vars => (TypeInv /\ BudgetInv)'
    BY NextTypeInv, NextBudget
  <1>3. BudgetInv => PermanentFailureEarned
    BY DEF BudgetInv
  <1> QED
    BY <1>1, <1>2, <1>3, PTL DEF Spec

-----------------------------------------------------------------------------
(* The other side of the budget: no record is retried once too often.       *)

\* Where the retry loop has a record it does not give up.
Retrying == {"wait", "save", "seen", "process", "persist", "requeue"}

QueueLimited == \A l \in Loops : \A i \in 1..Len(buf[l]) : buf[l][i].rc <= MaxRetry

Spared == \A l \in Loops : l[2] = "dlq" /\ pc[l] \in Retrying => Rec(l).rc < MaxRetry

LimitInv == RetriesWithinBudget /\ QueueLimited /\ Spared

(* Nothing is queued initially. *)
LEMMA InitLimit == Init => LimitInv
  BY DEF Init, PlatformInit, WorkerInit, LimitInv, RetriesWithinBudget, QueueLimited, Spared,
         Retrying, Topics

(* The invariant asks where new retries and new records come from. *)
LEMMA LimitFrame ==
    ASSUME TypeInv, LimitInv, [Next]_vars,
           \A l \in Loops : l[2] = "dlq" /\ pc'[l] \in Retrying =>
              \/ pc[l] \in Retrying /\ off'[l] = off[l]
              \/ log'["dlq"][off'[l]].rc < MaxRetry,
           \/ UNCHANGED log
           \/ \E t \in Topics, r \in Record : AppendTo(t, r) /\ (t = "dlq" => r.rc <= MaxRetry),
           \A l \in Loops : \A i \in 1..Len(buf'[l]) :
              \/ \E j \in 1..Len(buf[l]) : buf'[l][i] = buf[l][j]
              \/ buf'[l][i].rc <= MaxRetry
    PROVE  LimitInv'
  <1>a. TypeOK /\ InHand /\ log \in [Topics -> Seq(Record)] /\ "dlq" \in Topics
    BY DEF TypeInv, TypeOK, PlatformTypeOK, Topics
  <1>1. RetriesWithinBudget'
    <2>1. CASE UNCHANGED log
      BY <2>1 DEF LimitInv, RetriesWithinBudget
    <2>2. ASSUME NEW t \in Topics, NEW r \in Record, AppendTo(t, r),
                 t = "dlq" => r.rc <= MaxRetry, NEW i \in 1..Len(log'["dlq"])
          PROVE  log'["dlq"][i].rc <= MaxRetry
      <3>1. log["dlq"] \in Seq(Record) /\ log'["dlq"] \in {log["dlq"], Append(log["dlq"], r)}
            /\ (t # "dlq" => log'["dlq"] = log["dlq"])
        BY <1>a, <2>2 DEF AppendTo
      <3>2. (i \in 1..Len(log["dlq"]) /\ log'["dlq"][i] = log["dlq"][i])
            \/ (t = "dlq" /\ log'["dlq"][i] = r)
        BY <2>2, <3>1, AppendParts
      <3> QED
        BY <2>2, <3>2 DEF LimitInv, RetriesWithinBudget
    <2> QED
      BY <2>1, <2>2 DEF RetriesWithinBudget
  <1>2. QueueLimited'
    BY DEF LimitInv, QueueLimited
  <1>3. Spared'
    <2> SUFFICES ASSUME NEW l \in Loops, l[2] = "dlq", pc'[l] \in Retrying,
                        pc[l] \in Retrying, off'[l] = off[l]
                 PROVE  log'["dlq"][off[l]].rc < MaxRetry
      BY DEF Spared, Rec
    <2>1. off[l] \in 1..Len(log["dlq"])
      BY <1>a DEF InHand, Busy, Retrying
    <2>2. log'["dlq"][off[l]] = log["dlq"][off[l]]
      BY <1>a, <2>1, AppendKeeps
    <2> QED
      BY <2>2 DEF LimitInv, Spared, Rec
  <1> QED
    BY <1>1, <1>2, <1>3 DEF LimitInv

(* A step of a loop preserves the invariant. *)
LEMMA LoopLimit ==
    ASSUME TypeInv, LimitInv, [Next]_vars, NEW l \in Loops, LoopStep(l)
    PROVE  LimitInv'
  <1>a. /\ UNCHANGED log
        /\ \A k \in Loops \ {l} : pc'[k] = pc[k] /\ off'[k] = off[k]
    BY LoopFrame
  <1>b. /\ pc \in [Loops -> PcValues] /\ off \in [Loops -> Nat]
        /\ buf \in [Loops -> Seq(EventRecords)] /\ MaxRetry \in Nat
    BY DEF TypeInv, TypeOK, WorkerTypeOK
  <1>1. CASE DLQRead(l)
    <2>1. off'[l] = pos["dlq"] + 1 /\ UNCHANGED buf
      BY <1>1, <1>b DEF DLQRead, Fetch
    <2>2. pc'[l] = IF log["dlq"][pos["dlq"] + 1].rc >= MaxRetry THEN "giveup" ELSE "wait"
      BY <1>1, <1>b DEF DLQRead, Goto
    <2>3. pos["dlq"] + 1 \in 1..Len(log["dlq"]) /\ log["dlq"] \in Seq(Record)
      <3>1. pos["dlq"] \in Nat /\ log["dlq"] \in Seq(Record) /\ pos["dlq"] < Len(log["dlq"])
        BY <1>1 DEF DLQRead, Fetch, TypeInv, TypeOK, PlatformTypeOK, Topics
      <3> QED
        BY <3>1
    <2>4. log["dlq"][pos["dlq"] + 1].rc \in Nat
      <3>1. log["dlq"][pos["dlq"] + 1] \in Record
        BY <2>3
      <3> QED
        BY <3>1 DEF Record
    <2>5. pc'[l] \in Retrying => log'["dlq"][off'[l]].rc < MaxRetry
      BY <1>a, <1>b, <2>1, <2>2, <2>4 DEF Retrying
    <2> QED
      BY <1>a, <2>1, <2>5, LimitFrame
  <1>2. CASE ConsumerRead(l)
    <2>1. l[2] # "dlq" /\ UNCHANGED buf
      BY <1>2 DEF ConsumerRead, Fetch
    <2> QED
      BY <1>a, <2>1, LimitFrame
  <1>3. CASE Requeue(l)
    <2> DEFINE r == [payload |-> Ev(l), rc |-> NextRc(l)]
    <2>1. pc[l] = "requeue" /\ pc'[l] = "commit"
      BY <1>3, <1>b DEF Requeue, Goto
    <2>2. r \in EventRecords /\ r.rc <= MaxRetry
      <3>1. Ev(l) \in Events /\ Rec(l).rc \in Nat
        BY <2>1, RecType DEF TypeInv, InHand, Handling, Busy
      <3>2. l[2] = "events" \/ (l[2] = "dlq" /\ Rec(l).rc < MaxRetry)
        BY <2>1, LoopParts DEF LimitInv, Spared, Retrying, Topics
      <3>3. NextRc(l) \in Nat /\ NextRc(l) <= MaxRetry
        BY <1>b, <3>1, <3>2 DEF NextRc
      <3> QED
        BY <3>1, <3>3 DEF EventRecords
    <2>3. buf' = buf \/ buf' = [buf EXCEPT ![l] = Append(@, r)]
      BY <1>3 DEF Requeue
    <2> HIDE DEF r
    <2>4. ASSUME NEW k \in Loops, NEW i \in 1..Len(buf'[k])
          PROVE  (\E j \in 1..Len(buf[k]) : buf'[k][i] = buf[k][j]) \/ buf'[k][i].rc <= MaxRetry
      <3>1. buf'[k] = buf[k] \/ buf'[k] = Append(buf[k], r)
        BY <1>b, <2>3, Zenon
      <3>2. buf[k] \in Seq(EventRecords)
        BY <1>b
      <3>3. (i \in 1..Len(buf[k]) /\ buf'[k][i] = buf[k][i]) \/ buf'[k][i] = r
        BY <2>2, <2>4, <3>1, <3>2, AppendParts
      <3> QED
        BY <2>2, <3>3
    <2>5. pc'[l] \notin Retrying
      BY <2>1 DEF Retrying
    <2> QED
      BY <1>a, <2>4, <2>5, LimitFrame
  <1>4. CASE UNCHANGED buf /\ (pc'[l] \in Retrying => pc[l] \in Retrying /\ off'[l] = off[l])
    BY <1>a, <1>4, LimitFrame
  <1>5. CASE PollTimeout(l) \/ Backoff(l) \/ BackoffCancelled(l) \/ GiveUp(l) \/ Commit(l)
    <2>1. UNCHANGED buf
      BY <1>5 DEF PollTimeout, Backoff, BackoffCancelled, GiveUp, Commit
    <2>2. pc'[l] \in Retrying => pc[l] \in Retrying /\ off'[l] = off[l]
      BY <1>5, <1>b DEF PollTimeout, Backoff, BackoffCancelled, GiveUp, Commit, Parse, Goto,
         LoopHead, Retrying
    <2> QED
      BY <1>4, <2>1, <2>2
  <1>6. CASE SaveRaw(l) \/ CheckSeen(l) \/ Process(l) \/ Persist(l)
    <2>1. UNCHANGED <<buf, off>> /\ pc[l] \in Retrying
      BY <1>6 DEF SaveRaw, CheckSeen, Process, Persist, Retrying
    <2> QED
      BY <1>4, <2>1
  <1> QED
    BY <1>1, <1>2, <1>3, <1>5, <1>6 DEF LoopStep

(* The steps outside the loops preserve the invariant. *)
LEMMA WorldLimit ==
    ASSUME TypeInv, LimitInv, [Next]_vars, ~\E l \in Loops : LoopStep(l)
    PROVE  LimitInv'
  <1>a. TypeOK /\ "dlq" \in Topics /\ "events" \in Topics /\ MaxRetry \in Nat
    BY DEF TypeInv, Topics
  <1>1. CASE /\ \A l \in Loops : /\ pc'[l] \in Retrying => pc'[l] = pc[l] /\ off'[l] = off[l]
                                 /\ buf'[l] = buf[l] \/ buf'[l] = <<>> \/
                                    (buf[l] # <<>> /\ buf'[l] = Tail(buf[l]))
             /\ \/ UNCHANGED log
                \/ \E t \in Topics, r \in Record : AppendTo(t, r) /\ (t = "dlq" => r.rc <= MaxRetry)
    <2>1. \A l \in Loops : \A i \in 1..Len(buf'[l]) :
              \E j \in 1..Len(buf[l]) : buf'[l][i] = buf[l][j]
      BY <1>1, <1>a, QueueCut
    <2>2. \A l \in Loops : pc'[l] \in Retrying => pc[l] \in Retrying /\ off'[l] = off[l]
      BY <1>1
    <2> QED
      BY <1>1, <2>1, <2>2, LimitFrame
  <1>2. ASSUME NEW l \in Loops, ProducerStep(l)
        PROVE  LimitInv'
    <2>1. buf[l] # <<>> /\ UNCHANGED <<pc, off>>
      BY <1>2 DEF ProducerStep, Deliver, DeliverTwice, DeliveryFails, ctlVars
    <2>2. Head(buf[l]) \in Record /\ Head(buf[l]).rc <= MaxRetry
      <3>1. Head(buf[l]) = buf[l][1] /\ 1 \in 1..Len(buf[l])
        BY <1>a, <2>1 DEF TypeOK, WorkerTypeOK
      <3> QED
        BY <1>a, <2>1, <3>1, BufType DEF LimitInv, QueueLimited
    <2>3. UNCHANGED log \/ AppendTo("dlq", Head(buf[l]))
      BY <1>2 DEF ProducerStep, Deliver, DeliverTwice, DeliveryFails, kafkaVars
    <2>4. \A k \in Loops : buf'[k] = buf[k] \/ buf'[k] = <<>> \/
                           (buf[k] # <<>> /\ buf'[k] = Tail(buf[k]))
      BY <1>2, <1>a, <2>1 DEF ProducerStep, Deliver, DeliverTwice, DeliveryFails, TypeOK, WorkerTypeOK
    <2> QED
      BY <1>1, <1>a, <2>1, <2>2, <2>3, <2>4
  <1>3. ASSUME NEW w \in Workers, Die(w)
        PROVE  LimitInv'
    BY <1>1, <1>3 DEF Die, Retrying
  <1>4. ASSUME NEW w \in Workers, NEW t \in Topics,
               \/ Restart(w) \/ CloseProducer(w, t) \/ Sigterm(w) \/ FlushProducer(w, t)
               \/ CloseConsumer(w, t) \/ Assign(t, w) \/ Rebalance(t, w)
        PROVE  LimitInv'
    <2>1. \A l \in Loops : /\ pc'[l] \in Retrying => pc'[l] = pc[l]
                           /\ buf'[l] = buf[l] \/ buf'[l] = <<>>
      BY <1>4, <1>a DEF Restart, CloseProducer, Sigterm, FlushProducer, CloseConsumer, Assign,
         Rebalance, Retrying, workerVars, ctlVars, TypeOK, WorkerTypeOK
    <2>2. UNCHANGED <<off, log>>
      BY <1>4 DEF Restart, CloseProducer, Sigterm, FlushProducer, CloseConsumer, Assign,
         Rebalance, workerVars, ctlVars, kafkaVars
    <2> QED
      BY <1>1, <2>1, <2>2
  <1>5. ASSUME NEW e \in Events, Expire(e)
        PROVE  LimitInv'
    BY <1>1, <1>5 DEF Expire, kafkaVars, ctlVars
  <1>6. CASE IngestNext /\ UNCHANGED <<workerVars, lapse>>
    <2>1. UNCHANGED log \/ \E e \in Events : AppendTo("events", EventRecord(e))
      BY <1>6, IngestParts
    <2>2. \A e \in Events : EventRecord(e) \in Record
      BY DEF EventRecord, Record
    <2>3. UNCHANGED <<pc, off, buf>>
      BY <1>6 DEF workerVars, ctlVars
    <2> QED
      BY <1>1, <1>a, <2>1, <2>2, <2>3
  <1>7. CASE ServiceNext /\ UNCHANGED <<workerVars, lapse, ingestVars>>
    <2>1. [payload |-> Garbage, rc |-> 0] \in Record
      BY DEF Record
    <2>2. \E t \in Topics : AppendTo(t, [payload |-> Garbage, rc |-> 0])
      BY <1>7 DEF ServiceNext, ForeignRecord
    <2>3. UNCHANGED <<pc, off, buf>>
      BY <1>7 DEF workerVars, ctlVars
    <2> QED
      BY <1>1, <1>a, <2>1, <2>2, <2>3
  <1>8. CASE WorkerNext
    BY <1>2, <1>3, <1>4, <1>5, <1>8, <1>a DEF WorkerNext, ShutdownStep, Exit, Crash
  <1>9. CASE UNCHANGED vars
    BY <1>1, <1>9 DEF vars, kafkaVars, workerVars, ctlVars
  <1> QED
    BY <1>6, <1>7, <1>8, <1>9 DEF Next

(***************************************************************************)
(* The budget from above (dlq.go, Run and mergeHeaders): no copy on the    *)
(* DLQ has a retry-count beyond RETRY_MAX_ATTEMPTS, for any value of it,   *)
(* so no chain of copies of an event is retried more often than that.      *)
(***************************************************************************)
THEOREM RetriesBounded == Spec => []RetriesWithinBudget
  <1>1. Init => TypeInv /\ LimitInv
    BY InitTypeInv, InitLimit
  <1>2. (TypeInv /\ LimitInv) /\ [Next]_vars => (TypeInv /\ LimitInv)'
    BY NextTypeInv, LoopLimit, WorldLimit
  <1>3. LimitInv => RetriesWithinBudget
    BY DEF LimitInv
  <1> QED
    BY <1>1, <1>2, <1>3, PTL DEF Spec

-----------------------------------------------------------------------------
(* The backoff.  The library counts the subsets of 1..n, which is what is   *)
(* known here of 2 ^ n.                                                     *)

\* The subsets of an initial segment of the naturals.
LEMMA PowerCounts ==
    ASSUME NEW n \in Nat
    PROVE  /\ IsFiniteSet(SUBSET (1..n)) /\ Cardinality(SUBSET (1..n)) = 2 ^ n
           /\ 2 ^ n \in Nat \ {0}
  <1>1. IsFiniteSet(1..n) /\ Cardinality(1..n) = n
    BY FS_Interval
  <1>2. IsFiniteSet(SUBSET (1..n)) /\ Cardinality(SUBSET (1..n)) = 2 ^ n
    BY <1>1, FS_SUBSET
  <1>3. {} \in SUBSET (1..n)
    OBVIOUS
  <1>4. Cardinality(SUBSET (1..n)) \in Nat /\ Cardinality(SUBSET (1..n)) # 0
    BY <1>2, <1>3, FS_CardinalityType, FS_EmptySet
  <1> QED
    BY <1>2, <1>4

\* Powers of two are monotonic.
LEMMA PowerGrows ==
    ASSUME NEW m \in Nat, NEW n \in Nat, m <= n
    PROVE  2 ^ m <= 2 ^ n
  <1>1. SUBSET (1..m) \subseteq SUBSET (1..n)
    OBVIOUS
  <1>2. /\ IsFiniteSet(SUBSET (1..n)) /\ Cardinality(SUBSET (1..n)) = 2 ^ n
        /\ Cardinality(SUBSET (1..m)) = 2 ^ m
    BY PowerCounts
  <1>3. Cardinality(SUBSET (1..m)) <= Cardinality(SUBSET (1..n))
    BY <1>1, <1>2, FS_Subset, Zenon
  <1> QED
    BY <1>2, <1>3

\* The sign bit is half of the word.
LEMMA PowerDoubles ==
    ASSUME NEW n \in Nat
    PROVE  2 ^ (n + 1) >= 2 * 2 ^ n
  <1> DEFINE A == SUBSET (1..n)
             f == [s \in A |-> s \cup {n + 1}]
             B == {f[s] : s \in A}
  <1>1. IsFiniteSet(A) /\ Cardinality(A) = 2 ^ n /\ 2 ^ n \in Nat
    BY PowerCounts
  <1>2. f \in Bijection(A, B)
    <2>1. \A s, t \in A : f[s] = f[t] => s = t
      OBVIOUS
    <2> QED
      BY <2>1 DEF Bijection, Injection, Surjection, IsInjective
  <1>3. IsFiniteSet(B) /\ Cardinality(B) = 2 ^ n
    BY <1>1, <1>2, FS_Bijection DEF ExistsBijection
  <1>4. A \cap B = {}
    <2>1. \A s \in A : n + 1 \notin s
      OBVIOUS
    <2>2. \A t \in B : n + 1 \in t
      OBVIOUS
    <2> HIDE DEF A, B
    <2> QED
      BY <2>1, <2>2
  <1>5. IsFiniteSet(A \cup B) /\ Cardinality(A \cup B) = 2 ^ n + 2 ^ n
    <2>1. Cardinality(A \cap B) = 0
      BY <1>4, FS_EmptySet
    <2>2. IsFiniteSet(A \cup B)
          /\ Cardinality(A \cup B) = Cardinality(A) + Cardinality(B) - Cardinality(A \cap B)
      BY <1>1, <1>3, FS_Union
    <2> QED
      BY <1>1, <1>3, <2>1, <2>2
  <1>6. A \cup B \subseteq SUBSET (1..(n + 1))
    <2>1. 1..n \subseteq 1..(n + 1) /\ n + 1 \in 1..(n + 1)
      OBVIOUS
    <2>2. \A s \in A : s \subseteq 1..(n + 1)
      BY <2>1
    <2>3. \A t \in B : t \subseteq 1..(n + 1)
      BY <2>1, <2>2
    <2> HIDE DEF A, B
    <2> QED
      BY <2>2, <2>3
  <1> HIDE DEF A, B
  <1>7. Cardinality(A \cup B) <= 2 ^ (n + 1)
    <2>1. n + 1 \in Nat
      OBVIOUS
    <2>2. IsFiniteSet(SUBSET (1..(n + 1))) /\ Cardinality(SUBSET (1..(n + 1))) = 2 ^ (n + 1)
      BY <2>1, PowerCounts
    <2> QED
      BY <1>6, <2>2, FS_Subset
  <1>8. 2 ^ (n + 1) \in Nat
    <2>1. n + 1 \in Nat
      OBVIOUS
    <2> QED
      BY <2>1, PowerCounts
  <1> QED
    BY <1>1, <1>5, <1>7, <1>8

\* A value below the modulus is its own remainder.
LEMMA SmallRemainder ==
    ASSUME NEW b \in Nat \ {0}, NEW a \in 0..(b - 1)
    PROVE  a % b = a
  OBVIOUS

\* A product that fits the word is not changed by it.
LEMMA NoWrap ==
    ASSUME NEW x \in Nat, x < 2 ^ (WordBits - 1)
    PROVE  Wrapped(x) = x
  <1>1. PICK h \in Nat : h = 2 ^ (WordBits - 1)
    BY PowerCounts
  <1>2. PICK b \in Nat \ {0} : b = 2 ^ WordBits
    BY PowerCounts
  <1>3. b >= 2 * h
    <2>1. WordBits - 1 \in Nat /\ (WordBits - 1) + 1 = WordBits
      OBVIOUS
    <2>2. 2 ^ ((WordBits - 1) + 1) >= 2 * 2 ^ (WordBits - 1)
      BY <2>1, PowerDoubles
    <2> QED
      BY <1>1, <1>2, <2>1, <2>2
  <1>4. (x + h) \in 0..(b - 1)
    BY <1>1, <1>3
  <1>5. (x + h) % b = x + h
    BY <1>4, SmallRemainder
  <1> QED
    BY <1>1, <1>2, <1>5 DEF Wrapped

\* The last doubling within the retry budget stays below the sign bit; with
\* the defaults (1000 ms, int64) that holds up to RETRY_MAX_ATTEMPTS = 54.
DoublingFits == MaxRetry > 0 => BaseDelay * 2 ^ (MaxRetry - 1) < 2 ^ (WordBits - 1)

\* More doublings, a longer wait.
LEMMA ScaledGrows ==
    ASSUME NEW b \in Nat \ {0}, NEW x \in Nat \ {0}, NEW y \in Nat, x <= y
    PROVE  b * x \in Nat \ {0} /\ b * y \in Nat /\ b * x <= b * y
  <1>1. PICK d \in Nat : y = x + d
    <2>1. y - x \in Nat /\ y = x + (y - x)
      OBVIOUS
    <2> QED
      BY <2>1
  <1>2. b * y = b * x + b * d
    BY <1>1
  <1>3. b * x \in Nat /\ b * d \in Nat /\ b * x # 0
    OBVIOUS
  <1> QED
    BY <1>2, <1>3

\* Within the budget the delay is the capped product.
LEMMA DelayWithinBudget ==
    ASSUME DoublingFits, NEW rc \in Nat, rc < MaxRetry
    PROVE  /\ BaseDelay * 2 ^ rc \in Nat
           /\ Delay(rc) \in 1..MaxDelay /\ Delay(rc) <= BaseDelay * 2 ^ rc
  <1>1. /\ MaxRetry - 1 \in Nat /\ rc <= MaxRetry - 1
        /\ BaseDelay \in Nat \ {0} /\ MaxDelay \in Nat \ {0}
    OBVIOUS
  <1>2. PICK p \in Nat \ {0} : p = 2 ^ rc
    BY PowerCounts
  <1>3. PICK q \in Nat : q = 2 ^ (MaxRetry - 1) /\ p <= q
    BY <1>1, <1>2, PowerCounts, PowerGrows
  <1>4. PICK h \in Nat : h = 2 ^ (WordBits - 1)
    <2>1. WordBits - 1 \in Nat
      OBVIOUS
    <2> QED
      BY <2>1, PowerCounts
  <1>5. BaseDelay * p \in Nat \ {0} /\ BaseDelay * q \in Nat /\ BaseDelay * p <= BaseDelay * q
    BY <1>1, <1>2, <1>3, ScaledGrows
  <1>6. BaseDelay * q < h
    BY <1>1, <1>3, <1>4 DEF DoublingFits
  <1>7. PICK ms \in Nat \ {0} : ms = BaseDelay * p
    BY <1>5
  <1>8. ms < 2 ^ (WordBits - 1)
    BY <1>4, <1>5, <1>6, <1>7
  <1>9. Wrapped(ms) = ms
    BY <1>8, NoWrap
  <1>10. Delay(rc) = IF ms > MaxDelay THEN MaxDelay ELSE ms
    BY <1>2, <1>7, <1>9 DEF Delay
  <1> QED
    BY <1>1, <1>2, <1>7, <1>10

(***************************************************************************)
(* The backoff (dlq.go, backoff): a retry always waits, never beyond the   *)
(* cap and never longer than the failures of its event justify, whatever   *)
(* is delivered twice or out of turn, as long as the last doubling of the  *)
(* budget fits the word; the code checks neither number against it.        *)
(***************************************************************************)
THEOREM RetriesWaitAsEarned ==
    ASSUME DoublingFits
    PROVE  Spec => []BackoffEarned
  <1>1. Init => TypeInv /\ BudgetInv
    BY InitTypeInv, InitBudget
  <1>2. (TypeInv /\ BudgetInv) /\ [Next]_vars => (TypeInv /\ BudgetInv)'
    BY NextTypeInv, NextBudget
  <1>3. TypeInv /\ BudgetInv => BackoffEarned
    <2> SUFFICES ASSUME TypeInv, BudgetInv, NEW l \in Loops, pc[l] = "wait", Ev(l) \in Events
                 PROVE  /\ Delay(Rec(l).rc) \in 1..MaxDelay
                        /\ Delay(Rec(l).rc) <= BaseDelay * 2 ^ (fails[Ev(l)] - 1)
      BY DEF BackoffEarned
    <2>1. PICK rc \in Nat : rc = Rec(l).rc
      BY RecType DEF Busy
    <2>2. l[2] = "dlq" /\ rc < MaxRetry
      BY <2>1 DEF BudgetInv, Due
    <2>3. off[l] \in 1..Len(log["dlq"])
      BY <2>2 DEF TypeInv, InHand, Busy
    <2>4. fails[Ev(l)] >= rc + 1 /\ fails[Ev(l)] \in Nat
      BY <2>1, <2>2, <2>3 DEF BudgetInv, DLQBacked, Backed, Rec, Ev, TypeInv, TypeOK, WorkerTypeOK
    <2>5. PICK n \in Nat : n = fails[Ev(l)] - 1 /\ rc <= n
      BY <2>4
    <2>6. /\ BaseDelay * 2 ^ rc \in Nat
          /\ Delay(rc) \in 1..MaxDelay /\ Delay(rc) <= BaseDelay * 2 ^ rc
      BY <2>2, DelayWithinBudget
    <2>7. BaseDelay * 2 ^ rc <= BaseDelay * 2 ^ n /\ BaseDelay * 2 ^ n \in Nat
      <3>1. 2 ^ rc \in Nat \ {0} /\ 2 ^ n \in Nat /\ 2 ^ rc <= 2 ^ n
        BY <2>5, PowerCounts, PowerGrows
      <3> QED
        BY <3>1, ScaledGrows
    <2> QED
      BY <2>1, <2>5, <2>6, <2>7
  <1> QED
    BY <1>1, <1>2, <1>3, PTL DEF Spec
=============================================================================
