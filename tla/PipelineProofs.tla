--------------------------- MODULE PipelineProofs ---------------------------
(***************************************************************************)
(* What holds of Pipeline for any number of replicas and events, any       *)
(* retry budget and any combination of faults.                             *)
(***************************************************************************)
EXTENDS Pipeline, TLAPS

\* Where a loop holds an event that the handler has been given.
Handling == {"save", "seen", "process", "persist", "requeue"}

\* A busy loop has a record of its topic in hand, the handler an event.
InHand ==
    \A l \in Loops :
        /\ Busy(l) => off[l] \in 1..Len(log[l[2]])
        /\ pc[l] \in Handling => Ev(l) \in Events

TypeInv == TypeOK /\ InHand

USE PlatformAssumption, WorkerAssumption, IngestAssumption

-----------------------------------------------------------------------------
(* A loop is a worker and a topic. *)
LEMMA LoopParts ==
    ASSUME NEW l \in Loops
    PROVE  l[1] \in Workers /\ l[2] \in Topics /\ l = <<l[1], l[2]>>
  BY DEF Loops

(* An append leaves the records before it where they were. *)
LEMMA AppendKeeps ==
    ASSUME TypeOK, NEW t \in Topics, NEW r \in Record, AppendTo(t, r)
    PROVE  /\ log' \in [Topics -> Seq(Record)]
           /\ \A u \in Topics : Len(log[u]) <= Len(log'[u])
           /\ \A u \in Topics : \A i \in 1..Len(log[u]) : log'[u][i] = log[u][i]
  BY DEF TypeOK, PlatformTypeOK, AppendTo

(* An appended sequence holds what it held, and the new element. *)
LEMMA AppendParts ==
    ASSUME NEW S, NEW q \in Seq(S), NEW r \in S, NEW i \in 1..Len(Append(q, r))
    PROVE  (i \in 1..Len(q) /\ Append(q, r)[i] = q[i]) \/ Append(q, r)[i] = r
  OBVIOUS

(* A producer queue that is kept, cut at the head or emptied. *)
LEMMA QueueCut ==
    ASSUME TypeOK,
           \A l \in Loops : buf'[l] = buf[l] \/ buf'[l] = <<>> \/
                            (buf[l] # <<>> /\ buf'[l] = Tail(buf[l]))
    PROVE  \A l \in Loops : \A i \in 1..Len(buf'[l]) :
              \E j \in 1..Len(buf[l]) : buf'[l][i] = buf[l][j]
  <1> SUFFICES ASSUME NEW l \in Loops, NEW i \in 1..Len(buf'[l])
               PROVE  \E j \in 1..Len(buf[l]) : buf'[l][i] = buf[l][j]
    OBVIOUS
  <1>1. buf[l] \in Seq(EventRecords)
    BY DEF TypeOK, WorkerTypeOK
  <1>2. CASE buf'[l] = buf[l]
    BY <1>2
  <1>3. CASE buf'[l] = <<>>
    BY <1>3
  <1>4. CASE buf[l] # <<>> /\ buf'[l] = Tail(buf[l])
    <2>1. i + 1 \in 1..Len(buf[l]) /\ buf'[l][i] = buf[l][i + 1]
      BY <1>1, <1>4
    <2> QED
      BY <2>1
  <1> QED
    BY <1>2, <1>3, <1>4

\* A queue that takes one more record is still a queue of records.
LEMMA QueueType ==
    ASSUME NEW q \in [Loops -> Seq(EventRecords)], NEW l \in Loops,
           NEW r \in EventRecords
    PROVE  [q EXCEPT ![l] = Append(@, r)] \in [Loops -> Seq(EventRecords)]
  <1>1. Append(q[l], r) \in Seq(EventRecords)
    OBVIOUS
  <1> QED
    BY <1>1

(* The value in hand is a record. *)
LEMMA RecType ==
    ASSUME TypeInv, NEW l \in Loops, Busy(l)
    PROVE  Rec(l) \in Record /\ Ev(l) \in Events \cup {Garbage} /\ Rec(l).rc \in Nat
  <1>1. l[2] \in Topics
    BY LoopParts
  <1>2. log[l[2]] \in Seq(Record) /\ off[l] \in 1..Len(log[l[2]])
    BY <1>1 DEF TypeInv, TypeOK, PlatformTypeOK, InHand
  <1>3. Rec(l) \in Record
    BY <1>2 DEF Rec
  <1> QED
    BY <1>3 DEF Ev, Record

-----------------------------------------------------------------------------
(* The initial state is well-typed. *)
LEMMA InitTypeInv == Init => TypeInv
  <1> SUFFICES ASSUME Init PROVE TypeInv
    OBVIOUS
  <1>1. PlatformTypeOK
    BY DEF Init, PlatformInit, PlatformTypeOK, Statuses
  <1>2. WorkerTypeOK
    BY DEF Init, WorkerInit, WorkerTypeOK, PcValues, Running, Stopped
  <1>3. IngestTypeOK
    BY DEF Init, IngestInit, IngestTypeOK, ReqStates, ServerStates
  <1>4. InHand
    BY DEF Init, WorkerInit, InHand, Busy, Handling
  <1> QED
    BY <1>1, <1>2, <1>3, <1>4 DEF TypeInv, TypeOK

(* Adding a fate keeps the type of the history. *)
LEMMA SettleType ==
    ASSUME TypeOK, NEW t \in Topics, NEW i \in Nat, NEW f \in Fates,
           handled' = handled \cup {<<t, i, f>>}
    PROVE  handled' \in SUBSET (Topics \X Nat \X Fates)
  BY DEF TypeOK, WorkerTypeOK

(* Recording a lapse keeps the type of the history. *)
LEMMA LapseType ==
    ASSUME TypeOK, NEW e \in Events, NEW why \in Lapses, Lapse(e, why)
    PROVE  lapse' \in SUBSET (Events \X Lapses)
  BY DEF TypeOK, WorkerTypeOK, Lapse

(* Where a loop goes with the record at offset i once it is parsed. *)
LEMMA ParseGoto ==
    ASSUME TypeOK, NEW l \in Loops, NEW i \in 1..Len(log[l[2]]), Parse(l, i)
    PROVE  \/ pc' = [pc EXCEPT ![l] = "commit"]
           \/ pc' = [pc EXCEPT ![l] = "save"] /\ log[l[2]][i].payload \in Events
  <1>1. log[l[2]] \in Seq(Record)
    BY LoopParts DEF TypeOK, PlatformTypeOK
  <1>2. log[l[2]][i] \in Record
    BY <1>1
  <1>3. log[l[2]][i].payload \in Events \cup {Garbage}
    BY <1>2 DEF Record
  <1> QED
    BY <1>3 DEF Parse, Goto

(* Parsing keeps the type of the history. *)
LEMMA ParseFate ==
    ASSUME TypeOK, NEW l \in Loops, NEW i \in 1..Len(log[l[2]]), Parse(l, i)
    PROVE  handled' \in SUBSET (Topics \X Nat \X Fates)
  <1>1. l[2] \in Topics /\ i \in Nat /\ "unparseable" \in Fates
    BY LoopParts DEF Fates
  <1>2. CASE handled' = handled \cup {<<l[2], i, "unparseable">>}
    BY <1>1, <1>2, SettleType
  <1>3. CASE UNCHANGED handled
    BY <1>3 DEF TypeOK, WorkerTypeOK
  <1> QED
    BY <1>2, <1>3 DEF Parse

(* SaveDecision keeps the types of what it writes. *)
LEMMA SaveDecisionType ==
    ASSUME TypeOK, NEW l \in Loops, NEW e \in Events, NEW s \in Statuses,
           SaveDecision(l, e, s)
    PROVE  /\ rows' \in [Events -> [Statuses -> Nat]]
           /\ lapse' \in SUBSET (Events \X Lapses)
  <1>1. CASE rows' = [rows EXCEPT ![e][s] = @ + 1] /\ UNCHANGED lapse
    BY <1>1 DEF TypeOK, PlatformTypeOK, WorkerTypeOK
  <1>2. CASE (Lapse(e, "orphan") \/ Lapse(e, "unsaved")) /\ UNCHANGED rows
    <2>1. "orphan" \in Lapses /\ "unsaved" \in Lapses
      BY DEF Lapses
    <2> QED
      BY <1>2, <2>1, LapseType DEF TypeOK, PlatformTypeOK
  <1> QED
    BY <1>1, <1>2 DEF SaveDecision

(* A step of a loop keeps the types. *)
LEMMA LoopTypeInv ==
    ASSUME TypeInv, NEW l \in Loops, LoopStep(l), UNCHANGED ingestVars
    PROVE  TypeInv'
  <1>a. l[1] \in Workers /\ l[2] \in Topics
    BY LoopParts
  <1>b. TypeOK /\ InHand
    BY DEF TypeInv
  <1>c. IngestTypeOK'
    BY DEF TypeInv, TypeOK, IngestTypeOK, ingestVars
  <1> USE DEF TypeInv
  <1>1. CASE ConsumerRead(l)
    <2>1. pos[l[2]] + 1 \in 1..Len(log[l[2]]) /\ Parse(l, pos[l[2]] + 1)
      BY <1>1, <1>a DEF ConsumerRead, Fetch, TypeOK, PlatformTypeOK
    <2>2. \/ pc' = [pc EXCEPT ![l] = "commit"]
          \/ pc' = [pc EXCEPT ![l] = "save"] /\ log[l[2]][pos[l[2]] + 1].payload \in Events
      BY <2>1, <1>b, ParseGoto
    <2>3. PlatformTypeOK'
      BY <1>1, <1>a DEF ConsumerRead, Fetch, TypeOK, PlatformTypeOK, storeVars
    <2>4. WorkerTypeOK'
      <3>1. off' \in [Loops -> Nat]
        BY <1>1, <2>1 DEF ConsumerRead, Fetch, TypeOK, WorkerTypeOK
      <3>2. pc' \in [Loops -> PcValues]
        BY <2>2 DEF TypeOK, WorkerTypeOK, PcValues
      <3>3. handled' \in SUBSET (Topics \X Nat \X Fates)
        BY <2>1, <1>b, ParseFate
      <3>4. UNCHANGED <<stage, verdict, buf, lapse, fails, passes>>
        BY <1>1 DEF ConsumerRead, Fetch
      <3> QED
        BY <1>b, <3>1, <3>2, <3>3, <3>4 DEF TypeOK, WorkerTypeOK
    <2>5. InHand'
      BY <1>1, <2>1, <2>2 DEF ConsumerRead, Fetch, TypeOK, WorkerTypeOK, InHand, Busy, Handling, Ev, Rec
    <2> QED
      BY <2>3, <2>4, <2>5, <1>c DEF TypeOK
  <1>2. CASE DLQRead(l)
    <2>1. pos[l[2]] + 1 \in 1..Len(log[l[2]])
      BY <1>2, <1>a DEF DLQRead, Fetch, TypeOK, PlatformTypeOK
    <2>2. pc' = [pc EXCEPT ![l] = "giveup"] \/ pc' = [pc EXCEPT ![l] = "wait"]
      BY <1>2 DEF DLQRead, Goto
    <2>3. PlatformTypeOK'
      BY <1>2, <1>a DEF DLQRead, Fetch, TypeOK, PlatformTypeOK, storeVars
    <2>4. WorkerTypeOK'
      <3>1. off' \in [Loops -> Nat]
        BY <1>2, <2>1 DEF DLQRead, Fetch, TypeOK, WorkerTypeOK
      <3>2. pc' \in [Loops -> PcValues]
        BY <2>2 DEF TypeOK, WorkerTypeOK, PcValues
      <3>3. UNCHANGED <<stage, verdict, buf, handled, lapse, fails, passes>>
        BY <1>2 DEF DLQRead, Fetch
      <3> QED
        BY <1>b, <3>1, <3>2, <3>3 DEF TypeOK, WorkerTypeOK
    <2>5. InHand'
      BY <1>2, <2>1, <2>2 DEF DLQRead, Fetch, TypeOK, WorkerTypeOK, InHand, Busy, Handling, Ev, Rec
    <2> QED
      BY <2>3, <2>4, <2>5, <1>c DEF TypeOK
  <1>3. CASE PollTimeout(l)
    <2>1. pc' = [pc EXCEPT ![l] = "poll"] \/ pc' = [pc EXCEPT ![l] = "exited"]
      BY <1>3 DEF PollTimeout, Goto, LoopHead
    <2>2. PlatformTypeOK'
      BY <1>3 DEF PollTimeout, TypeOK, PlatformTypeOK, kafkaVars, storeVars
    <2>3. WorkerTypeOK'
      BY <1>3, <2>1 DEF PollTimeout, TypeOK, WorkerTypeOK, PcValues
    <2>4. InHand'
      BY <1>3, <2>1 DEF PollTimeout, TypeOK, WorkerTypeOK, InHand, Busy, Handling, Ev, Rec, kafkaVars
    <2> QED
      BY <2>2, <2>3, <2>4, <1>c DEF TypeOK
  <1>4. CASE Backoff(l)
    <2>1. off[l] \in 1..Len(log[l[2]]) /\ Parse(l, off[l])
      BY <1>4 DEF Backoff, InHand, Busy
    <2>2. \/ pc' = [pc EXCEPT ![l] = "commit"]
          \/ pc' = [pc EXCEPT ![l] = "save"] /\ log[l[2]][off[l]].payload \in Events
      BY <2>1, <1>b, ParseGoto
    <2>3. PlatformTypeOK'
      BY <1>4 DEF Backoff, TypeOK, PlatformTypeOK, kafkaVars, storeVars
    <2>4. WorkerTypeOK'
      <3>1. pc' \in [Loops -> PcValues]
        BY <2>2 DEF TypeOK, WorkerTypeOK, PcValues
      <3>2. handled' \in SUBSET (Topics \X Nat \X Fates)
        BY <2>1, <1>b, ParseFate
      <3> QED
        BY <1>4, <3>1, <3>2 DEF Backoff, TypeOK, WorkerTypeOK
    <2>5. InHand'
      BY <1>4, <2>1, <2>2 DEF Backoff, TypeOK, WorkerTypeOK, InHand, Busy, Handling, Ev, Rec, kafkaVars
    <2> QED
      BY <2>3, <2>4, <2>5, <1>c DEF TypeOK
  <1>5. CASE BackoffCancelled(l)
    <2>1. PlatformTypeOK'
      BY <1>5 DEF BackoffCancelled, TypeOK, PlatformTypeOK, kafkaVars, storeVars
    <2>2. WorkerTypeOK'
      BY <1>5 DEF BackoffCancelled, Goto, Release, TypeOK, WorkerTypeOK, PcValues
    <2>3. InHand'
      BY <1>5 DEF BackoffCancelled, Goto, Release, TypeOK, WorkerTypeOK, InHand, Busy, Handling, Ev, Rec, kafkaVars
    <2> QED
      BY <2>1, <2>2, <2>3, <1>c DEF TypeOK
  <1>6. CASE SaveRaw(l)
    <2>1. PlatformTypeOK'
      BY <1>6 DEF SaveRaw, TypeOK, PlatformTypeOK, kafkaVars, InHand, Handling
    <2>2. WorkerTypeOK'
      BY <1>6 DEF SaveRaw, Goto, TypeOK, WorkerTypeOK, PcValues
    <2>3. InHand'
      BY <1>6 DEF SaveRaw, Goto, TypeOK, WorkerTypeOK, InHand, Busy, Handling, Ev, Rec, kafkaVars
    <2> QED
      BY <2>1, <2>2, <2>3, <1>c DEF TypeOK
  <1>7. CASE CheckSeen(l)
    <2>0. Ev(l) \in Events /\ off[l] \in Nat
      BY <1>7 DEF CheckSeen, InHand, Handling, TypeOK, WorkerTypeOK
    <2>1. pc' = [pc EXCEPT ![l] = "process"] \/ pc' = [pc EXCEPT ![l] = "commit"]
      BY <1>7 DEF CheckSeen, SeenFirst, SeenDuplicate, SeenResent, SeenError, Goto
    <2>2. handled' \in SUBSET (Topics \X Nat \X Fates)
      <3>1. "duplicate" \in Fates
        BY DEF Fates
      <3> QED
        BY <1>7, <1>a, <1>b, <2>0, <3>1, SettleType
        DEF CheckSeen, SeenFirst, SeenDuplicate, SeenResent, SeenError, Settle, TypeOK, WorkerTypeOK
    <2>3. lapse' \in SUBSET (Events \X Lapses)
      <3>1. "swallowed" \in Lapses /\ "resent" \in Lapses
        BY DEF Lapses
      <3> QED
        BY <1>7, <1>b, <2>0, <3>1, LapseType
        DEF CheckSeen, SeenFirst, SeenDuplicate, SeenResent, SeenError, TypeOK, WorkerTypeOK
    <2>4. passes' \in [Events -> Nat]
      <3>1. passes' = passes \/ passes' = [passes EXCEPT ![Ev(l)] = @ + 1]
        BY <1>7 DEF CheckSeen, SeenFirst, SeenDuplicate, SeenResent, SeenError
      <3>2. passes \in [Events -> Nat]
        BY <1>b DEF TypeOK, WorkerTypeOK
      <3> QED
        BY <2>0, <3>1, <3>2
    <2>5. seen' \in SUBSET Events
      BY <1>7, <2>0 DEF CheckSeen, SeenFirst, SeenDuplicate, SeenResent, SeenError, TypeOK, PlatformTypeOK
    <2>6. PlatformTypeOK'
      BY <1>7, <2>5 DEF CheckSeen, TypeOK, PlatformTypeOK, kafkaVars
    <2>7. WorkerTypeOK'
      BY <1>7, <2>1, <2>2, <2>3, <2>4 DEF CheckSeen, TypeOK, WorkerTypeOK, PcValues
    <2>8. InHand'
      BY <1>7, <2>1 DEF CheckSeen, TypeOK, WorkerTypeOK, InHand, Busy, Handling, Ev, Rec, kafkaVars
    <2> QED
      BY <2>6, <2>7, <2>8, <1>c DEF TypeOK
  <1>8. CASE Process(l)
    <2>1. PICK reply \in LLMReplies \cup (IF Ctx(l) THEN {} ELSE {"no_answer"}) :
            /\ verdict' = [verdict EXCEPT ![l] = Outcome(reply)]
            /\ fails' = [fails EXCEPT ![Ev(l)] = IF Outcome(reply) = "error" THEN @ + 1 ELSE @]
      BY <1>8 DEF Process
    <2>2. Outcome(reply) \in Outcomes
      BY DEF Outcome, Outcomes
    <2>3. fails' \in [Events -> Nat]
      <3>1. fails \in [Events -> Nat]
        BY <1>b DEF TypeOK, WorkerTypeOK
      <3>2. fails' = [fails EXCEPT ![Ev(l)] = @ + 1] \/ fails' = fails
        BY <2>1, <3>1
      <3> QED
        BY <3>1, <3>2
    <2>4. PlatformTypeOK'
      BY <1>8 DEF Process, TypeOK, PlatformTypeOK, kafkaVars, storeVars
    <2>5. WorkerTypeOK'
      BY <1>8, <2>1, <2>2, <2>3 DEF Process, Goto, TypeOK, WorkerTypeOK, PcValues
    <2>6. InHand'
      BY <1>8 DEF Process, Goto, TypeOK, WorkerTypeOK, InHand, Busy, Handling, Ev, Rec, kafkaVars
    <2> QED
      BY <2>4, <2>5, <2>6, <1>c DEF TypeOK
  <1>9. CASE Persist(l)
    <2>0. Ev(l) \in Events /\ off[l] \in Nat /\ StatusOf(verdict[l]) \in Statuses
      BY <1>9 DEF Persist, InHand, Handling, TypeOK, WorkerTypeOK, StatusOf, Statuses
    <2>1. pc' = [pc EXCEPT ![l] = "requeue"] \/ pc' = [pc EXCEPT ![l] = "commit"]
      BY <1>9 DEF Persist, Goto
    <2>2. handled' \in SUBSET (Topics \X Nat \X Fates)
      <3>1. "decided" \in Fates
        BY DEF Fates
      <3> QED
        BY <1>9, <1>a, <1>b, <2>0, <3>1, SettleType DEF Persist, Settle, TypeOK, WorkerTypeOK
    <2>3. /\ rows' \in [Events -> [Statuses -> Nat]]
          /\ lapse' \in SUBSET (Events \X Lapses)
      BY <1>9, <1>b, <2>0, SaveDecisionType DEF Persist
    <2>4. PlatformTypeOK'
      BY <1>9, <2>3 DEF Persist, TypeOK, PlatformTypeOK, kafkaVars
    <2>5. WorkerTypeOK'
      BY <1>9, <2>1, <2>2, <2>3 DEF Persist, TypeOK, WorkerTypeOK, PcValues
    <2>6. InHand'
      BY <1>9, <2>1 DEF Persist, TypeOK, WorkerTypeOK, InHand, Busy, Handling, Ev, Rec, kafkaVars
    <2> QED
      BY <2>4, <2>5, <2>6, <1>c DEF TypeOK
  <1>10. CASE Requeue(l)
    <2>0. Ev(l) \in Events /\ off[l] \in Nat /\ Rec(l).rc \in Nat
      BY <1>10, RecType DEF Requeue, InHand, Handling, TypeOK, WorkerTypeOK, Busy
    <2>1. [payload |-> Ev(l), rc |-> NextRc(l)] \in EventRecords
      BY <2>0 DEF EventRecords, NextRc
    <2>2. buf' \in [Loops -> Seq(EventRecords)]
      <3>1. buf \in [Loops -> Seq(EventRecords)]
        BY DEF TypeOK, WorkerTypeOK
      <3>2. \/ buf' = buf
            \/ buf' = [buf EXCEPT ![l] = Append(@, [payload |-> Ev(l), rc |-> NextRc(l)])]
        BY <1>10 DEF Requeue
      <3>3. [buf EXCEPT ![l] = Append(@, [payload |-> Ev(l), rc |-> NextRc(l)])]
               \in [Loops -> Seq(EventRecords)]
        <4> DEFINE r == [payload |-> Ev(l), rc |-> NextRc(l)]
        <4>1. r \in EventRecords
          BY <2>1
        <4> HIDE DEF r
        <4>2. [buf EXCEPT ![l] = Append(@, r)] \in [Loops -> Seq(EventRecords)]
          BY <3>1, <4>1, QueueType
        <4> QED
          BY <4>2 DEF r
      <3> QED
        BY <3>1, <3>2, <3>3
    <2>3. handled' \in SUBSET (Topics \X Nat \X Fates)
      <3>1. "requeued" \in Fates /\ "dropped" \in Fates
        BY DEF Fates
      <3> QED
        BY <1>10, <1>a, <1>b, <2>0, <3>1, SettleType DEF Requeue, Settle
    <2>4. lapse' \in SUBSET (Events \X Lapses)
      <3>1. "refused" \in Lapses
        BY DEF Lapses
      <3> QED
        BY <1>10, <1>b, <2>0, <3>1, LapseType DEF Requeue, TypeOK, WorkerTypeOK
    <2>5. PlatformTypeOK'
      BY <1>10 DEF Requeue, TypeOK, PlatformTypeOK, kafkaVars, storeVars
    <2>6. WorkerTypeOK'
      BY <1>10, <2>2, <2>3, <2>4 DEF Requeue, Goto, TypeOK, WorkerTypeOK, PcValues
    <2>7. InHand'
      BY <1>10 DEF Requeue, Goto, TypeOK, WorkerTypeOK, InHand, Busy, Handling, Ev, Rec, kafkaVars
    <2> QED
      BY <2>5, <2>6, <2>7, <1>c DEF TypeOK
  <1>11. CASE GiveUp(l)
    <2>0. Ev(l) \in Events \cup {Garbage} /\ off[l] \in Nat
      BY <1>11, RecType DEF GiveUp, TypeOK, WorkerTypeOK, Busy
    <2>1. handled' \in SUBSET (Topics \X Nat \X Fates)
      <3>1. "gaveup" \in Fates
        BY DEF Fates
      <3> QED
        BY <1>11, <1>a, <1>b, <2>0, <3>1, SettleType DEF GiveUp, Settle
    <2>2. /\ rows' \in [Events -> [Statuses -> Nat]]
          /\ lapse' \in SUBSET (Events \X Lapses)
      <3>1. "permanently_failed" \in Statuses
        BY DEF Statuses
      <3> QED
        BY <1>11, <1>b, <2>0, <3>1, SaveDecisionType
        DEF GiveUp, TypeOK, PlatformTypeOK, WorkerTypeOK
    <2>3. PlatformTypeOK'
      BY <1>11, <2>2 DEF GiveUp, TypeOK, PlatformTypeOK, kafkaVars
    <2>4. WorkerTypeOK'
      BY <1>11, <2>1, <2>2 DEF GiveUp, Goto, TypeOK, WorkerTypeOK, PcValues
    <2>5. InHand'
      BY <1>11 DEF GiveUp, Goto, TypeOK, WorkerTypeOK, InHand, Busy, Handling, Ev, Rec, kafkaVars
    <2> QED
      BY <2>3, <2>4, <2>5, <1>c DEF TypeOK
  <1>12. CASE Commit(l)
    <2>0. pc' = [pc EXCEPT ![l] = "poll"] \/ pc' = [pc EXCEPT ![l] = "exited"]
      BY <1>12 DEF Commit, Goto, LoopHead
    <2>1. committed' \in [Topics -> Nat] /\ faults' \in Nat
      <3>1. off[l] \in Nat /\ committed \in [Topics -> Nat] /\ faults \in Nat
        BY DEF TypeOK, PlatformTypeOK, WorkerTypeOK
      <3>2. CASE CommitSucceeds(l)
        BY <3>1, <3>2 DEF CommitSucceeds
      <3>3. CASE CommitFails(l)
        BY <3>1, <3>3 DEF CommitFails, Fault
      <3> QED
        BY <1>12, <3>2, <3>3 DEF Commit
    <2>2. PlatformTypeOK'
      BY <1>12, <2>1 DEF Commit, TypeOK, PlatformTypeOK, storeVars
    <2>3. WorkerTypeOK'
      BY <1>12, <2>0 DEF Commit, Release, TypeOK, WorkerTypeOK, PcValues
    <2>4. InHand'
      BY <1>12, <2>0 DEF Commit, Release, TypeOK, WorkerTypeOK, InHand, Busy, Handling, Ev, Rec
    <2> QED
      BY <2>2, <2>3, <2>4, <1>c DEF TypeOK
  <1> QED
    BY <1>1, <1>2, <1>3, <1>4, <1>5, <1>6, <1>7, <1>8, <1>9, <1>10, <1>11, <1>12 DEF LoopStep

(* A loop keeps its record when the log grows and its control does not move. *)
LEMMA AppendInHand ==
    ASSUME TypeInv, NEW t \in Topics, NEW r \in Record, AppendTo(t, r),
           UNCHANGED <<pc, off>>
    PROVE  InHand'
  <1>1. /\ log' \in [Topics -> Seq(Record)]
        /\ \A u \in Topics : Len(log[u]) <= Len(log'[u])
        /\ \A u \in Topics : \A i \in 1..Len(log[u]) : log'[u][i] = log[u][i]
    BY AppendKeeps DEF TypeInv
  <1> SUFFICES ASSUME NEW l \in Loops
               PROVE  /\ Busy(l)' => off'[l] \in 1..Len(log'[l[2]])
                      /\ pc'[l] \in Handling => Ev(l)' \in Events
    BY DEF InHand
  <1>2. l[2] \in Topics /\ log[l[2]] \in Seq(Record) /\ log'[l[2]] \in Seq(Record)
    BY <1>1, LoopParts DEF TypeInv, TypeOK, PlatformTypeOK
  <1>3. CASE Busy(l)
    <2>1. off[l] \in 1..Len(log[l[2]])
      BY <1>3 DEF TypeInv, InHand
    <2>2. Ev(l)' = Ev(l)
      BY <1>1, <1>2, <2>1 DEF Ev, Rec
    <2> QED
      BY <1>1, <1>2, <2>1, <2>2 DEF TypeInv, InHand
  <1>4. CASE ~Busy(l)
    BY <1>4 DEF Busy, Handling
  <1> QED
    BY <1>3, <1>4

(* The records of a producer queue are records. *)
LEMMA BufType ==
    ASSUME TypeOK, NEW l \in Loops, buf[l] # <<>>
    PROVE  /\ Head(buf[l]) \in EventRecords
           /\ Head(buf[l]) \in Record
           /\ Tail(buf[l]) \in Seq(EventRecords)
  <1>1. Head(buf[l]) \in EventRecords /\ Tail(buf[l]) \in Seq(EventRecords)
    BY DEF TypeOK, WorkerTypeOK
  <1> QED
    BY <1>1 DEF EventRecords, Record

(* A step of a producer keeps the types. *)
LEMMA ProducerTypeInv ==
    ASSUME TypeInv, NEW l \in Loops, ProducerStep(l), UNCHANGED ingestVars
    PROVE  TypeInv'
  <1>b. TypeOK /\ InHand
    BY DEF TypeInv
  <1>c. IngestTypeOK'
    BY DEF TypeInv, TypeOK, IngestTypeOK, ingestVars
  <1>d. "dlq" \in Topics
    BY DEF Topics
  <1> USE DEF TypeInv
  <1>1. CASE Deliver(l)
    <2>1. Head(buf[l]) \in Record /\ Tail(buf[l]) \in Seq(EventRecords)
      BY <1>1, <1>b, BufType DEF Deliver
    <2>2. log' \in [Topics -> Seq(Record)]
      BY <1>1, <1>b, <1>d, <2>1, AppendKeeps DEF Deliver
    <2>3. PlatformTypeOK'
      BY <1>1, <2>2 DEF Deliver, TypeOK, PlatformTypeOK, storeVars
    <2>4. WorkerTypeOK'
      BY <1>1, <2>1 DEF Deliver, TypeOK, WorkerTypeOK, ctlVars
    <2>5. InHand'
      BY <1>1, <1>d, <2>1, AppendInHand DEF Deliver, ctlVars
    <2> QED
      BY <2>3, <2>4, <2>5, <1>c DEF TypeOK
  <1>2. CASE DeliverTwice(l)
    <2>1. Head(buf[l]) \in Record
      BY <1>2, <1>b, BufType DEF DeliverTwice
    <2>2. log' \in [Topics -> Seq(Record)]
      BY <1>2, <1>b, <1>d, <2>1, AppendKeeps DEF DeliverTwice
    <2>3. PlatformTypeOK'
      BY <1>2, <2>2 DEF DeliverTwice, Fault, TypeOK, PlatformTypeOK, storeVars
    <2>4. WorkerTypeOK'
      BY <1>2 DEF DeliverTwice, TypeOK, WorkerTypeOK, ctlVars
    <2>5. InHand'
      BY <1>2, <1>d, <2>1, AppendInHand DEF DeliverTwice, ctlVars
    <2> QED
      BY <2>3, <2>4, <2>5, <1>c DEF TypeOK
  <1>3. CASE DeliveryFails(l)
    <2>1. Head(buf[l]) \in Record /\ Tail(buf[l]) \in Seq(EventRecords)
      BY <1>3, <1>b, BufType DEF DeliveryFails
    <2>2. PlatformTypeOK'
      BY <1>3 DEF DeliveryFails, TypeOK, PlatformTypeOK, kafkaVars, storeVars
    <2>3. lapse' \in SUBSET (Events \X Lapses)
      <3>1. Head(buf[l]).payload \in Events /\ "undelivered" \in Lapses
        BY <1>3, <1>b, BufType DEF DeliveryFails, EventRecords, Lapses
      <3> QED
        BY <1>3, <1>b, <3>1, LapseType DEF DeliveryFails
    <2>4. WorkerTypeOK'
      BY <1>3, <2>1, <2>3 DEF DeliveryFails, TypeOK, WorkerTypeOK, ctlVars
    <2>5. InHand'
      BY <1>3 DEF DeliveryFails, InHand, Busy, Ev, Rec, ctlVars, kafkaVars
    <2> QED
      BY <2>2, <2>4, <2>5, <1>c DEF TypeOK
  <1> QED
    BY <1>1, <1>2, <1>3 DEF ProducerStep

(* The numbering of the shutdown sequence. *)
LEMMA Stages ==
    ASSUME NEW t \in Topics
    PROVE  /\ Closing(t) \in 1..4 /\ Flushed(t) \in 2..5
           /\ ProducerClosed(t) \in 3..6 /\ ConsumerClosed(t) \in 4..7
           /\ Flushed(t) = Closing(t) + 1
           /\ ProducerClosed(t) = Closing(t) + 2
           /\ ConsumerClosed(t) = Closing(t) + 3
  BY DEF Closing, Flushed, ProducerClosed, ConsumerClosed, Cancelled

(* A replica's death keeps the types. *)
LEMMA DieTypeInv ==
    ASSUME TypeInv, NEW w \in Workers, Die(w), faults' \in Nat, UNCHANGED ingestVars
    PROVE  TypeInv'
  <1>b. TypeOK /\ InHand
    BY DEF TypeInv
  <1>c. IngestTypeOK'
    BY <1>b DEF TypeOK, IngestTypeOK, ingestVars
  <1>1. PlatformTypeOK'
    <2>1. owner' \in [Topics -> Workers \cup {NoWorker}]
      BY <1>b DEF Die, TypeOK, PlatformTypeOK
    <2>2. UNCHANGED <<log, committed, pos, seen, pgEvents, rows, mongo>>
      BY DEF Die, storeVars
    <2> QED
      BY <1>b, <2>1, <2>2 DEF TypeOK, PlatformTypeOK
  <1>2. WorkerTypeOK'
    <2>1. stage' \in [Workers -> 0..Stopped]
      BY <1>b DEF Die, TypeOK, WorkerTypeOK, Stopped
    <2>2. pc' \in [Loops -> PcValues]
      BY <1>b DEF Die, TypeOK, WorkerTypeOK, PcValues
    <2>3. off' \in [Loops -> Nat]
      BY <1>b DEF Die, TypeOK, WorkerTypeOK
    <2>4. verdict' \in [Loops -> Outcomes \cup {"none"}]
      BY <1>b DEF Die, TypeOK, WorkerTypeOK
    <2>5. buf' \in [Loops -> Seq(EventRecords)]
      BY <1>b DEF Die, TypeOK, WorkerTypeOK
    <2>6. lapse' \in SUBSET (Events \X Lapses)
      <3>1. Abandoned(w) \subseteq Events
        BY <1>b DEF Abandoned, TypeOK, PlatformTypeOK
      <3>2. Queued({w} \X Topics) \subseteq Events
        BY DEF Queued
      <3>3. "abandoned" \in Lapses /\ "undelivered" \in Lapses
        BY DEF Lapses
      <3>4. lapse \in SUBSET (Events \X Lapses)
        BY <1>b DEF TypeOK, WorkerTypeOK
      <3>5. lapse' = lapse \cup (Abandoned(w) \X {"abandoned"})
                           \cup (Queued({w} \X Topics) \X {"undelivered"})
        BY DEF Die
      <3> QED
        BY <3>1, <3>2, <3>3, <3>4, <3>5
    <2>7. UNCHANGED <<handled, fails, passes>>
      BY DEF Die
    <2> QED
      BY <1>b, <2>1, <2>2, <2>3, <2>4, <2>5, <2>6, <2>7 DEF TypeOK, WorkerTypeOK
  <1>3. InHand'
    <2> SUFFICES ASSUME NEW l \in Loops
                 PROVE  /\ Busy(l)' => off'[l] \in 1..Len(log'[l[2]])
                        /\ pc'[l] \in Handling => Ev(l)' \in Events
      BY DEF InHand
    <2>1. CASE l \in {w} \X Topics
      BY <2>1 DEF Die, Busy, Handling
    <2>2. CASE l \notin {w} \X Topics
      BY <1>b, <2>2 DEF Die, InHand, Busy, Ev, Rec
    <2> QED
      BY <2>1, <2>2
  <1> QED
    BY <1>1, <1>2, <1>3, <1>c DEF TypeInv, TypeOK

(* The steps of the consumer groups keep the types. *)
LEMMA GroupTypeInv ==
    ASSUME TypeInv, NEW t \in Topics, NEW w \in Workers,
           Assign(t, w) \/ Rebalance(t, w), UNCHANGED ingestVars
    PROVE  TypeInv'
  <1>b. TypeOK /\ InHand
    BY DEF TypeInv
  <1>1. PlatformTypeOK'
    <2>1. UNCHANGED <<log, committed, seen, pgEvents, rows, mongo>>
      BY DEF Assign, Rebalance, storeVars
    <2>2. /\ owner' = [owner EXCEPT ![t] = w]
          /\ pos' = [pos EXCEPT ![t] = committed[t]]
      BY DEF Assign, Rebalance
    <2>3. faults' \in Nat
      BY <1>b DEF Assign, Rebalance, Fault, TypeOK, PlatformTypeOK
    <2> QED
      BY <1>b, <2>1, <2>2, <2>3 DEF TypeOK, PlatformTypeOK
  <1>2. UNCHANGED <<stage, pc, off, verdict, buf, handled, lapse, fails, passes, log>>
    BY DEF Assign, Rebalance, workerVars, ctlVars
  <1>3. WorkerTypeOK'
    BY <1>b, <1>2 DEF TypeOK, WorkerTypeOK
  <1>4. InHand'
    BY <1>b, <1>2 DEF InHand, Busy, Ev, Rec
  <1>5. IngestTypeOK'
    BY <1>b DEF TypeOK, IngestTypeOK, ingestVars
  <1> QED
    BY <1>1, <1>3, <1>4, <1>5 DEF TypeInv, TypeOK

(* The expiry of an idempotency key keeps the types. *)
LEMMA ExpireTypeInv ==
    ASSUME TypeInv, NEW e \in Events, Expire(e), UNCHANGED ingestVars
    PROVE  TypeInv'
  <1>b. TypeOK /\ InHand
    BY DEF TypeInv
  <1>1. PlatformTypeOK'
    BY <1>b DEF Expire, Fault, TypeOK, PlatformTypeOK, kafkaVars
  <1>2. WorkerTypeOK'
    BY <1>b DEF Expire, TypeOK, WorkerTypeOK, ctlVars
  <1>3. InHand'
    BY <1>b DEF Expire, InHand, Busy, Ev, Rec, ctlVars, kafkaVars
  <1>4. IngestTypeOK'
    BY <1>b DEF TypeOK, IngestTypeOK, ingestVars
  <1> QED
    BY <1>1, <1>2, <1>3, <1>4 DEF TypeInv, TypeOK

(* The life cycle of a replica keeps the types. *)
LEMMA LifeTypeInv ==
    ASSUME TypeInv, NEW w \in Workers, UNCHANGED ingestVars,
           Sigterm(w) \/ ShutdownStep(w) \/ Crash(w) \/ Restart(w)
    PROVE  TypeInv'
  <1>b. TypeOK /\ InHand
    BY DEF TypeInv
  <1>c. IngestTypeOK'
    BY <1>b DEF TypeOK, IngestTypeOK, ingestVars
  <1>1. CASE Sigterm(w)
    <2>1. PlatformTypeOK'
      BY <1>1, <1>b DEF Sigterm, Fault, TypeOK, PlatformTypeOK, kafkaVars, storeVars
    <2>2. WorkerTypeOK'
      BY <1>1, <1>b DEF Sigterm, TypeOK, WorkerTypeOK, Cancelled, Stopped
    <2>3. InHand'
      BY <1>1, <1>b DEF Sigterm, InHand, Busy, Ev, Rec, kafkaVars
    <2> QED
      BY <2>1, <2>2, <2>3, <1>c DEF TypeInv, TypeOK
  <1>2. ASSUME NEW t \in Topics, FlushProducer(w, t)
        PROVE  TypeInv'
    <2>1. PlatformTypeOK'
      BY <1>2, <1>b DEF FlushProducer, TypeOK, PlatformTypeOK, kafkaVars, storeVars
    <2>2. WorkerTypeOK'
      BY <1>2, <1>b, Stages DEF FlushProducer, TypeOK, WorkerTypeOK, Stopped
    <2>3. InHand'
      BY <1>2, <1>b DEF FlushProducer, InHand, Busy, Ev, Rec, kafkaVars
    <2> QED
      BY <2>1, <2>2, <2>3, <1>c DEF TypeInv, TypeOK
  <1>3. ASSUME NEW t \in Topics, CloseProducer(w, t)
        PROVE  TypeInv'
    <2>1. PlatformTypeOK'
      BY <1>3, <1>b DEF CloseProducer, TypeOK, PlatformTypeOK, kafkaVars, storeVars
    <2>2. lapse' \in SUBSET (Events \X Lapses)
      <3>1. Queued({<<w, t>>}) \subseteq Events /\ "undelivered" \in Lapses
        BY DEF Queued, Lapses
      <3> QED
        BY <1>3, <1>b, <3>1 DEF CloseProducer, TypeOK, WorkerTypeOK
    <2>3. stage' \in [Workers -> 0..Stopped]
      BY <1>3, <1>b, Stages DEF CloseProducer, TypeOK, WorkerTypeOK, Stopped
    <2>4. buf' \in [Loops -> Seq(EventRecords)]
      <3>1. buf \in [Loops -> Seq(EventRecords)]
        BY <1>b DEF TypeOK, WorkerTypeOK
      <3>2. buf' = [buf EXCEPT ![<<w, t>>] = <<>>]
        BY <1>3 DEF CloseProducer
      <3>3. <<>> \in Seq(EventRecords)
        OBVIOUS
      <3>4. \A k, q : q \in Seq(EventRecords) =>
                        [buf EXCEPT ![k] = q] \in [Loops -> Seq(EventRecords)]
        BY <3>1
      <3> QED
        BY <3>2, <3>3, <3>4, Zenon
    <2>5. UNCHANGED <<pc, off, verdict, handled, fails, passes>>
      BY <1>3 DEF CloseProducer
    <2>6. WorkerTypeOK'
      BY <1>b, <2>2, <2>3, <2>4, <2>5 DEF TypeOK, WorkerTypeOK
    <2>7. InHand'
      BY <1>3, <1>b DEF CloseProducer, InHand, Busy, Ev, Rec, kafkaVars
    <2> QED
      BY <2>1, <2>6, <2>7, <1>c DEF TypeInv, TypeOK
  <1>4. ASSUME NEW t \in Topics, CloseConsumer(w, t)
        PROVE  TypeInv'
    <2>1. PlatformTypeOK'
      BY <1>4, <1>b DEF CloseConsumer, TypeOK, PlatformTypeOK, storeVars
    <2>2. WorkerTypeOK'
      BY <1>4, <1>b, Stages DEF CloseConsumer, TypeOK, WorkerTypeOK, Stopped
    <2>3. InHand'
      BY <1>4, <1>b DEF CloseConsumer, InHand, Busy, Ev, Rec
    <2> QED
      BY <2>1, <2>2, <2>3, <1>c DEF TypeInv, TypeOK
  <1>5. CASE Exit(w)
    BY <1>5, <1>b, DieTypeInv DEF Exit, TypeOK, PlatformTypeOK
  <1>6. CASE Crash(w)
    <2>1. Die(w)
      BY <1>6 DEF Crash
    <2>2. faults \in Nat
      BY <1>b DEF TypeOK, PlatformTypeOK
    <2>3. faults' = faults + 1 \/ faults' = faults
      BY <1>6 DEF Crash, Fault
    <2> QED
      BY <2>1, <2>2, <2>3, DieTypeInv
  <1>7. CASE Restart(w)
    <2>1. PlatformTypeOK'
      BY <1>7, <1>b DEF Restart, TypeOK, PlatformTypeOK, kafkaVars, storeVars
    <2>2. WorkerTypeOK'
      <3>1. stage' \in [Workers -> 0..Stopped]
        BY <1>7, <1>b DEF Restart, TypeOK, WorkerTypeOK, Running, Stopped
      <3>2. pc' \in [Loops -> PcValues]
        BY <1>7, <1>b DEF Restart, TypeOK, WorkerTypeOK, PcValues
      <3>3. UNCHANGED <<off, verdict, buf, handled, lapse, fails, passes>>
        BY <1>7 DEF Restart
      <3> QED
        BY <1>b, <3>1, <3>2, <3>3 DEF TypeOK, WorkerTypeOK
    <2>3. InHand'
      BY <1>7, <1>b DEF Restart, TypeOK, WorkerTypeOK, InHand, Busy, Handling, Ev, Rec, kafkaVars
    <2> QED
      BY <2>1, <2>2, <2>3, <1>c DEF TypeInv, TypeOK
  <1>8. CASE ShutdownStep(w)
    <2>1. (\E t \in Topics : FlushProducer(w, t) \/ CloseProducer(w, t) \/ CloseConsumer(w, t))
          \/ Exit(w)
      BY <1>8 DEF ShutdownStep
    <2> QED
      BY <2>1, <1>2, <1>3, <1>4, <1>5
  <1> QED
    BY <1>1, <1>6, <1>7, <1>8

(* The ingestion path appends events of the queue to the events topic, adds *)
(* rows to the events table and touches nothing else of the platform.       *)
LEMMA IngestParts ==
    ASSUME IngestNext
    PROVE  /\ UNCHANGED <<committed, owner, pos, seen, rows, mongo>>
           /\ pgEvents \subseteq pgEvents' /\ pgEvents' \subseteq pgEvents \cup Events
           /\ UNCHANGED log \/ \E e \in Events \cap outbox : AppendTo("events", EventRecord(e))
           /\ UNCHANGED faults \/ faults' = faults + 1
  <1>1. ASSUME NEW e \in Events, RequestStep(e)
        PROVE  /\ UNCHANGED <<log, committed, owner, pos, seen, rows, mongo, faults>>
               /\ pgEvents \subseteq pgEvents' /\ pgEvents' \subseteq pgEvents \cup Events
    BY <1>1 DEF RequestStep, HandlerStep, Accept, Reject, SaveEvent, Publish, SeedPublish,
                kafkaVars, storeVars
  <1>2. ASSUME NEW e \in Events, OutboxStep(e)
        PROVE  /\ UNCHANGED <<committed, owner, pos, seen, rows, mongo, pgEvents>>
               /\ UNCHANGED log \/ (e \in outbox /\ AppendTo("events", EventRecord(e)))
               /\ UNCHANGED faults \/ faults' = faults + 1
    BY <1>2 DEF OutboxStep, DeliverEvent, DeliverEventTwice, EventDeliveryFails, Fault,
                kafkaVars, storeVars
  <1>3. ASSUME ServerStep \/ SeedEnds
        PROVE  /\ UNCHANGED <<log, committed, owner, pos, seen, rows, mongo, pgEvents>>
               /\ UNCHANGED faults \/ faults' = faults + 1
    BY <1>3 DEF ServerStep, StopStep, ApiSigterm, ApiShutdown, ApiCloseProducer, ApiExit, ApiCrash,
                ApiRestart, SeedEnds, Fault, kafkaVars, storeVars
  <1> QED
    BY <1>1, <1>2, <1>3 DEF IngestNext

(* The ingestion path keeps its own types. *)
LEMMA IngestOwnTypes ==
    ASSUME IngestTypeOK, IngestNext
    PROVE  IngestTypeOK'
  <1>1. ASSUME NEW e \in Events, RequestStep(e)
        PROVE  IngestTypeOK'
    BY <1>1 DEF RequestStep, HandlerStep, Accept, Reject, SaveEvent, Publish, SeedPublish,
                Produce, Lose, Respond, IngestTypeOK, ReqStates, Causes
  <1>2. ASSUME NEW e \in Events, OutboxStep(e)
        PROVE  IngestTypeOK'
    BY <1>2 DEF OutboxStep, DeliverEvent, DeliverEventTwice, EventDeliveryFails, Lose,
                ingestVars, IngestTypeOK, Causes
  <1>3. CASE ServerStep \/ SeedEnds
    <2>1. req' \in [Events -> ReqStates]
      BY <1>3 DEF ServerStep, StopStep, ApiSigterm, ApiShutdown, ApiCloseProducer, ApiExit, ApiCrash,
                  ApiRestart, ApiGone, SeedEnds, IngestTypeOK, ReqStates
    <2>2. outbox' \in SUBSET Events /\ server' \in ServerStates
      BY <1>3 DEF ServerStep, StopStep, ApiSigterm, ApiShutdown, ApiCloseProducer, ApiExit, ApiCrash,
                  ApiRestart, ApiGone, SeedEnds, IngestTypeOK, ServerStates
    <2>3. detached' \in SUBSET Events
      BY <1>3 DEF ServerStep, StopStep, ApiSigterm, ApiShutdown, ApiCloseProducer, ApiExit, ApiCrash,
                  ApiRestart, SeedEnds, InService, IngestTypeOK
    <2>4. lost' \in SUBSET (Events \X Causes)
      BY <1>3 DEF ServerStep, StopStep, ApiSigterm, ApiShutdown, ApiCloseProducer, ApiExit, ApiCrash,
                  ApiRestart, SeedEnds, Lose, InService, Unflushed, IngestTypeOK, Causes
    <2> QED
      BY <2>1, <2>2, <2>3, <2>4 DEF IngestTypeOK
  <1> QED
    BY <1>1, <1>2, <1>3 DEF IngestNext

(* The ingestion path and foreign producers keep the types. *)
LEMMA IngestTypeInv ==
    ASSUME TypeInv, IngestNext, UNCHANGED <<workerVars, lapse>>
    PROVE  TypeInv'
  <1>b. TypeOK /\ InHand
    BY DEF TypeInv
  <1>c. UNCHANGED <<stage, pc, off, verdict, buf, handled, lapse, fails, passes>>
    BY DEF workerVars, ctlVars
  <1>d. WorkerTypeOK' /\ IngestTypeOK'
    BY <1>b, <1>c, IngestOwnTypes DEF TypeOK, WorkerTypeOK
  <1>1. CASE UNCHANGED log
    <2>1. PlatformTypeOK'
      BY <1>1, <1>b, IngestParts DEF TypeOK, PlatformTypeOK
    <2>2. InHand'
      BY <1>b, <1>c, <1>1 DEF InHand, Busy, Ev, Rec
    <2> QED
      BY <1>d, <2>1, <2>2 DEF TypeInv, TypeOK
  <1>2. ASSUME NEW e \in Events, AppendTo("events", EventRecord(e))
        PROVE  TypeInv'
    <2>1. "events" \in Topics /\ EventRecord(e) \in Record
      BY DEF Topics, EventRecord, Record
    <2>2. log' \in [Topics -> Seq(Record)]
      BY <1>b, <1>2, <2>1, AppendKeeps
    <2>3. PlatformTypeOK'
      BY <1>b, <2>2, IngestParts DEF TypeOK, PlatformTypeOK
    <2>4. InHand'
      BY <1>c, <1>2, <2>1, AppendInHand
    <2> QED
      BY <1>d, <2>3, <2>4 DEF TypeInv, TypeOK
  <1> QED
    BY <1>1, <1>2, IngestParts

\* A foreign producer's record is one of the topic's records.
LEMMA ServiceTypeInv ==
    ASSUME TypeInv, ServiceNext, UNCHANGED <<workerVars, lapse, ingestVars>>
    PROVE  TypeInv'
  <1>b. TypeOK /\ InHand
    BY DEF TypeInv
  <1>c. UNCHANGED <<stage, pc, off, verdict, buf, handled, lapse, fails, passes,
                  req, outbox, server, detached, lost>>
    BY DEF workerVars, ctlVars, ingestVars
  <1> PICK t \in Topics : ForeignRecord(t)
    BY DEF ServiceNext
  <1>1. [payload |-> Garbage, rc |-> 0] \in Record /\ AppendTo(t, [payload |-> Garbage, rc |-> 0])
    BY DEF ForeignRecord, Record
  <1>2. log' \in [Topics -> Seq(Record)]
    BY <1>b, <1>1, AppendKeeps
  <1>3. PlatformTypeOK'
    BY <1>b, <1>2 DEF ForeignRecord, Fault, TypeOK, PlatformTypeOK, storeVars
  <1>4. InHand'
    BY <1>c, <1>1, AppendInHand
  <1>5. WorkerTypeOK' /\ IngestTypeOK'
    BY <1>b, <1>c DEF TypeOK, WorkerTypeOK, IngestTypeOK
  <1> QED
    BY <1>3, <1>4, <1>5 DEF TypeInv, TypeOK

\* A step appends at most one record to a topic.
LEMMA LogGrows ==
    ASSUME TypeInv, [Next]_vars
    PROVE  \/ UNCHANGED log
           \/ \E t \in Topics, r \in Record : AppendTo(t, r)
  <1>a. TypeOK /\ "dlq" \in Topics /\ "events" \in Topics
    BY DEF TypeInv, Topics
  <1>1. ASSUME NEW l \in Loops, LoopStep(l)
        PROVE  UNCHANGED log
    BY <1>1 DEF LoopStep, ConsumerRead, DLQRead, Fetch, PollTimeout, Backoff, BackoffCancelled,
           SaveRaw, CheckSeen, Process, Persist, Requeue, GiveUp, Commit, kafkaVars
  <1>2. ASSUME NEW l \in Loops, ProducerStep(l)
        PROVE  \/ UNCHANGED log
               \/ \E t \in Topics, r \in Record : AppendTo(t, r)
    BY <1>2, <1>a, BufType DEF ProducerStep, Deliver, DeliverTwice, DeliveryFails, kafkaVars
  <1>3. ASSUME WorkerNext, ~\E l \in Loops : LoopStep(l) \/ ProducerStep(l)
        PROVE  UNCHANGED log
    BY <1>3 DEF WorkerNext, Assign, Rebalance, Expire, Sigterm, ShutdownStep, FlushProducer,
       CloseProducer, CloseConsumer, Exit, Crash, Die, Restart, kafkaVars
  <1>4. ASSUME IngestNext
        PROVE  \/ UNCHANGED log
               \/ \E t \in Topics, r \in Record : AppendTo(t, r)
    <2>1. \A e \in Events : EventRecord(e) \in Record
      BY DEF EventRecord, Record
    <2> QED
      BY <1>a, <1>4, <2>1, IngestParts
  <1>5. ASSUME ServiceNext
        PROVE  \E t \in Topics, r \in Record : AppendTo(t, r)
    <2>1. [payload |-> Garbage, rc |-> 0] \in Record
      BY DEF Record
    <2> QED
      BY <1>5, <2>1 DEF ServiceNext, ForeignRecord
  <1>6. CASE UNCHANGED vars
    BY <1>6 DEF vars, kafkaVars
  <1> QED
    BY <1>1, <1>2, <1>3, <1>4, <1>5, <1>6 DEF Next

(***************************************************************************)
(* TypeInv is inductive.                                                   *)
(***************************************************************************)
LEMMA NextTypeInv == TypeInv /\ [Next]_vars => TypeInv'
  <1> SUFFICES ASSUME TypeInv, [Next]_vars PROVE TypeInv'
    OBVIOUS
  <1>1. CASE WorkerNext /\ UNCHANGED ingestVars
    BY <1>1, LoopTypeInv, ProducerTypeInv, GroupTypeInv, ExpireTypeInv, LifeTypeInv DEF WorkerNext
  <1>2. CASE IngestNext /\ UNCHANGED <<workerVars, lapse>>
    BY <1>2, IngestTypeInv
  <1>3. CASE ServiceNext /\ UNCHANGED <<workerVars, lapse, ingestVars>>
    BY <1>3, ServiceTypeInv
  <1>4. CASE UNCHANGED vars
    BY <1>4 DEF vars, kafkaVars, storeVars, workerVars, ctlVars, ingestVars, TypeInv, TypeOK,
       PlatformTypeOK, WorkerTypeOK, IngestTypeOK, InHand, Busy, Ev, Rec
  <1> QED
    BY <1>1, <1>2, <1>3, <1>4 DEF Next

(* Every variable keeps its type, and no loop handles a value that did not *)
(* parse (Run in consumer.go and dlq.go).                                  *)
THEOREM TypeCorrect == Spec => []TypeOK
  <1>1. TypeInv => TypeOK
    BY DEF TypeInv
  <1> QED
    BY <1>1, InitTypeInv, NextTypeInv, PTL DEF Spec
=============================================================================
