--------------------------- MODULE DeliveryProofs ---------------------------
(***************************************************************************)
(* At-least-once delivery, for any number of replicas.  A committed offset *)
(* is behind records that were dealt with because a loop commits the       *)
(* record in its hand, that record has a fate by then, and everything      *)
(* before it had one when the loop fetched it: the position of a partition *)
(* never runs ahead of the handled records by more than the record in the  *)
(* hand of its owner.                                                      *)
(***************************************************************************)
EXTENDS PipelineProofs

\* The first n records of topic t have been dealt with.
Done(t, n) == \A i \in 1..n : HasFate(t, i)

\* Neither offset points past the end of the partition.
WithinLog == \A t \in Topics : committed[t] <= Len(log[t]) /\ pos[t] <= Len(log[t])

\* Everything before the record in a loop's hand has been dealt with.
DoneBefore == \A l \in Loops : Busy(l) => Done(l[2], off[l] - 1)

\* A loop about to commit has dealt with its record.
ReadyToCommit == \A l \in Loops : pc[l] = "commit" => HasFate(l[2], off[l])

\* What the owner has fetched is dealt with, except the record in its hand.
OwnerPosition ==
    \A l \in Loops :
        owner[l[2]] = l[1] /\ pc[l] # "exited" =>
            Done(l[2], pos[l[2]]) \/ (Busy(l) /\ pos[l[2]] = off[l])

\* A replica that closed its consumer owns nothing.
LeftGroup ==
    \A w \in Workers, t \in Topics : stage[w] >= ConsumerClosed(t) => owner[t] # w

DeliveryInv ==
    /\ WithinLog
    /\ AtLeastOnce
    /\ DoneBefore
    /\ ReadyToCommit
    /\ OwnerPosition
    /\ LeftGroup

USE PlatformAssumption, WorkerAssumption, IngestAssumption

-----------------------------------------------------------------------------
(* A fate once met stays met. *)
LEMMA FateStays ==
    ASSUME handled \subseteq handled', NEW t, NEW i, HasFate(t, i)
    PROVE  HasFate(t, i)'
  BY DEF HasFate

(* Extending the handled prefix by the next record. *)
LEMMA DoneNext ==
    ASSUME NEW t, NEW n \in Nat, Done(t, n - 1), HasFate(t, n)
    PROVE  Done(t, n)
  BY DEF Done

(* Nothing is handled, owned or in hand initially. *)
LEMMA InitDelivery == Init => DeliveryInv
  <1> SUFFICES ASSUME Init PROVE DeliveryInv
    OBVIOUS
  <1>1. WithinLog /\ AtLeastOnce
    BY DEF Init, PlatformInit, WithinLog, AtLeastOnce
  <1>2. DoneBefore /\ ReadyToCommit
    BY DEF Init, WorkerInit, DoneBefore, ReadyToCommit, Busy
  <1>3. OwnerPosition /\ LeftGroup
    BY LoopParts DEF Init, PlatformInit, OwnerPosition, LeftGroup
  <1> QED
    BY <1>1, <1>2, <1>3 DEF DeliveryInv

(* Steps that only add to the log, or to neither log nor control. *)
LEMMA QuietDelivery ==
    ASSUME TypeInv, TypeInv', DeliveryInv,
           UNCHANGED <<stage, pc, off, handled, committed, owner, pos>>,
           \A t \in Topics : Len(log[t]) <= Len(log'[t])
    PROVE  DeliveryInv'
  <1>1. WithinLog'
    BY DEF DeliveryInv, WithinLog, TypeInv, TypeOK, PlatformTypeOK
  <1>2. /\ AtLeastOnce' /\ DoneBefore' /\ ReadyToCommit'
        /\ OwnerPosition' /\ LeftGroup'
    BY DEF DeliveryInv, AtLeastOnce, DoneBefore, ReadyToCommit, OwnerPosition, LeftGroup,
           Done, HasFate, Busy
  <1> QED
    BY <1>1, <1>2 DEF DeliveryInv

(* Steps of a loop that keep the record in its hand. *)
LEMMA HoldDelivery ==
    ASSUME TypeInv, DeliveryInv, NEW l \in Loops, Busy(l),
           UNCHANGED <<stage, off, log, committed, owner, pos>>,
           handled \subseteq handled',
           NEW p \in PcValues \ {"poll", "exited"}, Goto(l, p),
           p = "commit" => HasFate(l[2], off[l])'
    PROVE  DeliveryInv'
  <1>1. pc \in [Loops -> PcValues] /\ pc' = [pc EXCEPT ![l] = p]
    BY DEF TypeInv, TypeOK, WorkerTypeOK, Goto
  <1>2. \A k \in Loops : Busy(k)' <=> Busy(k)
    BY <1>1 DEF Busy
  <1>3. \A t, n : Done(t, n) => \A i \in 1..n : HasFate(t, i)'
    BY FateStays DEF Done
  <1>4. WithinLog' /\ LeftGroup'
    BY DEF DeliveryInv, WithinLog, LeftGroup
  <1>5. AtLeastOnce'
    BY <1>3 DEF DeliveryInv, AtLeastOnce, Done
  <1>6. DoneBefore'
    BY <1>2, <1>3 DEF DeliveryInv, DoneBefore, Done
  <1>7. ReadyToCommit'
    BY <1>1, FateStays DEF DeliveryInv, ReadyToCommit
  <1>8. OwnerPosition'
    <2> SUFFICES ASSUME NEW k \in Loops, owner[k[2]] = k[1], pc'[k] # "exited"
                 PROVE  Done(k[2], pos[k[2]])' \/ (Busy(k)' /\ pos[k[2]] = off[k])
      BY DEF OwnerPosition
    <2>1. pc[k] # "exited"
      BY <1>1 DEF Busy
    <2>2. Done(k[2], pos[k[2]]) \/ (Busy(k) /\ pos[k[2]] = off[k])
      BY <2>1 DEF DeliveryInv, OwnerPosition
    <2> QED
      BY <1>2, <1>3, <2>2 DEF Done
  <1> QED
    BY <1>4, <1>5, <1>6, <1>7, <1>8 DEF DeliveryInv

(* Fetching the next record. *)
LEMMA FetchDelivery ==
    ASSUME TypeInv, TypeInv', DeliveryInv, NEW l \in Loops, Fetch(l),
           handled \subseteq handled',
           NEW p \in PcValues \ {"poll", "exited"}, Goto(l, p),
           p = "commit" => HasFate(l[2], off[l])'
    PROVE  DeliveryInv'
  <1>0. l[1] \in Workers /\ l[2] \in Topics /\ l = <<l[1], l[2]>>
    BY LoopParts
  <1>a. TypeOK /\ InHand
    BY DEF TypeInv
  <1>1. /\ pc \in [Loops -> PcValues] /\ pc' = [pc EXCEPT ![l] = p]
        /\ off \in [Loops -> Nat] /\ off' = [off EXCEPT ![l] = pos[l[2]] + 1]
        /\ pos \in [Topics -> Nat] /\ pos' = [pos EXCEPT ![l[2]] = pos[l[2]] + 1]
        /\ pc[l] = "poll" /\ owner[l[2]] = l[1]
        /\ pos[l[2]] < Len(log[l[2]])
    BY <1>a DEF TypeOK, PlatformTypeOK, WorkerTypeOK, Goto, Fetch
  <1>2. UNCHANGED <<stage, log, committed, owner>>
    BY DEF Fetch
  <1>3. \A t, n : Done(t, n) => \A i \in 1..n : HasFate(t, i)'
    BY FateStays DEF Done
  <1>4. Done(l[2], pos[l[2]])
    BY <1>1 DEF DeliveryInv, OwnerPosition, Busy
  <1>5. WithinLog'
    BY <1>0, <1>1, <1>2, <1>a DEF DeliveryInv, WithinLog, TypeOK, PlatformTypeOK
  <1>6. AtLeastOnce'
    BY <1>2, <1>3 DEF DeliveryInv, AtLeastOnce, Done
  <1>7. DoneBefore'
    <2> SUFFICES ASSUME NEW k \in Loops, Busy(k)', NEW i \in 1..(off'[k] - 1)
                 PROVE  HasFate(k[2], i)'
      BY DEF DoneBefore, Done
    <2>1. CASE k = l
      <3>1. off'[k] - 1 = pos[l[2]]
        BY <1>0, <1>1, <2>1
      <3> QED
        BY <1>3, <1>4, <2>1, <3>1
    <2>2. CASE k # l
      <3>1. Busy(k) /\ off'[k] = off[k]
        BY <1>1, <2>2 DEF Busy
      <3> QED
        BY <1>3, <3>1 DEF DeliveryInv, DoneBefore
    <2> QED
      BY <2>1, <2>2
  <1>8. ReadyToCommit'
    <2> SUFFICES ASSUME NEW k \in Loops, pc'[k] = "commit"
                 PROVE  HasFate(k[2], off[k])'
      BY DEF ReadyToCommit
    <2>1. CASE k = l
      BY <1>1, <2>1
    <2>2. CASE k # l
      BY <1>1, <2>2, FateStays DEF DeliveryInv, ReadyToCommit
    <2> QED
      BY <2>1, <2>2
  <1>9. OwnerPosition'
    <2> SUFFICES ASSUME NEW k \in Loops, owner[k[2]] = k[1], pc'[k] # "exited"
                 PROVE  Done(k[2], pos[k[2]])' \/ (Busy(k)' /\ pos'[k[2]] = off'[k])
      BY <1>2 DEF OwnerPosition
    <2>1. CASE k = l
      BY <1>0, <1>1, <2>1 DEF Busy
    <2>2. CASE k # l
      <3>1. k[2] \in Topics /\ k = <<k[1], k[2]>>
        BY LoopParts
      <3>2. k[2] # l[2]
        BY <1>0, <1>1, <2>2, <3>1
      <3>3. pos'[k[2]] = pos[k[2]] /\ pc'[k] = pc[k] /\ off'[k] = off[k]
        BY <1>1, <2>2, <3>1, <3>2
      <3>4. Done(k[2], pos[k[2]]) \/ (Busy(k) /\ pos[k[2]] = off[k])
        BY <3>3 DEF DeliveryInv, OwnerPosition
      <3> QED
        BY <1>3, <3>3, <3>4 DEF Done, Busy
    <2> QED
      BY <2>1, <2>2
  <1>10. LeftGroup'
    BY <1>2 DEF DeliveryInv, LeftGroup
  <1> QED
    BY <1>5, <1>6, <1>7, <1>8, <1>9, <1>10 DEF DeliveryInv

(* Going back to the head of the loop, or leaving it. *)
LEMMA ReleaseDelivery ==
    ASSUME TypeInv, DeliveryInv, NEW l \in Loops,
           UNCHANGED <<stage, log, owner, pos, handled>>,
           NEW p \in {"poll", "exited"}, Goto(l, p),
           \/ UNCHANGED off
           \/ off' = [off EXCEPT ![l] = 0],
           \/ UNCHANGED committed
           \/ pc[l] = "commit" /\ committed' = [committed EXCEPT ![l[2]] = off[l]],
           p = "poll" => pc[l] \in {"poll", "commit"}
    PROVE  DeliveryInv'
  <1>0. l[1] \in Workers /\ l[2] \in Topics /\ l = <<l[1], l[2]>>
    BY LoopParts
  <1>a. TypeOK /\ InHand
    BY DEF TypeInv
  <1>1. /\ pc \in [Loops -> PcValues] /\ pc' = [pc EXCEPT ![l] = p]
        /\ off \in [Loops -> Nat]
        /\ committed \in [Topics -> Nat]
    BY <1>a DEF TypeOK, PlatformTypeOK, WorkerTypeOK, Goto
  <1>2. pc[l] = "commit" => off[l] \in 1..Len(log[l[2]]) /\ Done(l[2], off[l])
    BY <1>1, <1>a, DoneNext DEF InHand, Busy, DeliveryInv, DoneBefore, ReadyToCommit
  <1>3. WithinLog'
    <2> SUFFICES ASSUME NEW t \in Topics
                 PROVE  committed'[t] <= Len(log[t]) /\ pos[t] <= Len(log[t])
      BY DEF WithinLog
    <2>1. committed[t] <= Len(log[t]) /\ pos[t] <= Len(log[t])
      BY DEF DeliveryInv, WithinLog
    <2>2. CASE pc[l] = "commit" /\ committed' = [committed EXCEPT ![l[2]] = off[l]]
      <3>1. off[l] <= Len(log[l[2]])
        BY <1>0, <1>2, <1>a, <2>2 DEF TypeOK, PlatformTypeOK
      <3> QED
        BY <1>1, <2>1, <2>2, <3>1
    <2> QED
      BY <2>1, <2>2
  <1>4. AtLeastOnce'
    BY <1>0, <1>1, <1>2 DEF DeliveryInv, AtLeastOnce, Done, HasFate
  <1>5. \A k \in Loops : k # l => pc'[k] = pc[k] /\ off'[k] = off[k]
    BY <1>1
  <1>6. ~Busy(l)' /\ pc'[l] # "commit"
    BY <1>1 DEF Busy
  <1>7. DoneBefore' /\ ReadyToCommit'
    BY <1>5, <1>6 DEF DeliveryInv, DoneBefore, ReadyToCommit, Done, HasFate, Busy
  <1>8. OwnerPosition'
    <2> SUFFICES ASSUME NEW k \in Loops, owner[k[2]] = k[1], pc'[k] # "exited"
                 PROVE  Done(k[2], pos[k[2]])' \/ (Busy(k)' /\ pos[k[2]] = off'[k])
      BY DEF OwnerPosition
    <2>1. CASE k = l
      <3>1. pc[l] \in {"poll", "commit"}
        BY <1>1, <2>1
      <3>2. Done(l[2], pos[l[2]]) \/ (Busy(l) /\ pos[l[2]] = off[l])
        BY <2>1, <3>1 DEF DeliveryInv, OwnerPosition
      <3>3. Done(l[2], pos[l[2]])
        BY <1>2, <3>1, <3>2 DEF Busy
      <3> QED
        BY <2>1, <3>3 DEF Done, HasFate
    <2>2. CASE k # l
      BY <1>5, <2>2 DEF DeliveryInv, OwnerPosition, Done, HasFate, Busy
    <2> QED
      BY <2>1, <2>2
  <1>9. LeftGroup'
    BY DEF DeliveryInv, LeftGroup
  <1> QED
    BY <1>3, <1>4, <1>7, <1>8, <1>9 DEF DeliveryInv

(* A step of a loop preserves the invariant. *)
LEMMA LoopDelivery ==
    ASSUME TypeInv, TypeInv', DeliveryInv, NEW l \in Loops, LoopStep(l)
    PROVE  DeliveryInv'
  <1>a. TypeOK /\ InHand
    BY DEF TypeInv
  <1>1. CASE ConsumerRead(l)
    <2>0. off'[l] = pos[l[2]] + 1
      BY <1>1, <1>a DEF ConsumerRead, Fetch, TypeOK, WorkerTypeOK
    <2>1. \/ Goto(l, "commit") /\ HasFate(l[2], off[l])'
          \/ Goto(l, "save")
      BY <1>1, <2>0 DEF ConsumerRead, Parse, HasFate, Fates
    <2>2. Fetch(l) /\ handled \subseteq handled'
      BY <1>1 DEF ConsumerRead, Parse
    <2>3. "commit" \in PcValues \ {"poll", "exited"} /\ "save" \in PcValues \ {"poll", "exited"}
      BY DEF PcValues
    <2> QED
      BY <2>1, <2>2, <2>3, FetchDelivery
  <1>2. CASE DLQRead(l)
    <2>1. (Goto(l, "giveup") \/ Goto(l, "wait")) /\ Fetch(l) /\ handled \subseteq handled'
      BY <1>2 DEF DLQRead
    <2>2. "giveup" \in PcValues \ {"poll", "exited"} /\ "wait" \in PcValues \ {"poll", "exited"}
      BY DEF PcValues
    <2> QED
      BY <2>1, <2>2, FetchDelivery
  <1>3. CASE PollTimeout(l)
    <2>1. PICK p \in {"poll", "exited"} : Goto(l, p)
      BY <1>3 DEF PollTimeout, LoopHead
    <2>2. pc[l] = "poll" /\ UNCHANGED <<stage, off, log, committed, owner, pos, handled>>
      BY <1>3 DEF PollTimeout, kafkaVars
    <2> QED
      BY <2>1, <2>2, ReleaseDelivery
  <1>4. CASE Backoff(l)
    <2>1. \/ Goto(l, "commit") /\ HasFate(l[2], off[l])'
          \/ Goto(l, "save")
      BY <1>4 DEF Backoff, Parse, HasFate, Fates
    <2>2. /\ Busy(l) /\ UNCHANGED <<stage, off, log, committed, owner, pos>>
          /\ handled \subseteq handled'
      BY <1>4 DEF Backoff, Parse, Busy, kafkaVars
    <2>3. "commit" \in PcValues \ {"poll", "exited"} /\ "save" \in PcValues \ {"poll", "exited"}
      BY DEF PcValues
    <2> QED
      BY <2>1, <2>2, <2>3, HoldDelivery
  <1>5. CASE BackoffCancelled(l)
    <2>1. /\ Goto(l, "exited") /\ off' = [off EXCEPT ![l] = 0]
          /\ UNCHANGED <<stage, log, committed, owner, pos, handled>>
      BY <1>5 DEF BackoffCancelled, Release, kafkaVars
    <2> QED
      BY <2>1, ReleaseDelivery
  <1>6. CASE SaveRaw(l) \/ Process(l)
    <2>1. /\ Busy(l) /\ UNCHANGED <<stage, off, log, committed, owner, pos, handled>>
          /\ Goto(l, "seen") \/ Goto(l, "persist")
      BY <1>6 DEF SaveRaw, Process, Busy, kafkaVars
    <2>2. "seen" \in PcValues \ {"poll", "exited"} /\ "persist" \in PcValues \ {"poll", "exited"}
      BY DEF PcValues
    <2> QED
      BY <2>1, <2>2, HoldDelivery
  <1>7. CASE CheckSeen(l)
    <2>1. \/ Goto(l, "commit") /\ HasFate(l[2], off[l])'
          \/ Goto(l, "process")
      BY <1>7 DEF CheckSeen, SeenFirst, SeenDuplicate, SeenResent, SeenError, Settle, HasFate, Fates
    <2>2. /\ Busy(l) /\ UNCHANGED <<stage, off, log, committed, owner, pos>>
          /\ handled \subseteq handled'
      BY <1>7 DEF CheckSeen, SeenFirst, SeenDuplicate, SeenResent, SeenError, Settle, Busy, kafkaVars
    <2>3. "commit" \in PcValues \ {"poll", "exited"} /\ "process" \in PcValues \ {"poll", "exited"}
      BY DEF PcValues
    <2> QED
      BY <2>1, <2>2, <2>3, HoldDelivery
  <1>8. CASE Persist(l)
    <2>1. \/ Goto(l, "commit") /\ HasFate(l[2], off[l])'
          \/ Goto(l, "requeue")
      BY <1>8 DEF Persist, Settle, HasFate, Fates
    <2>2. /\ Busy(l) /\ UNCHANGED <<stage, off, log, committed, owner, pos>>
          /\ handled \subseteq handled'
      BY <1>8 DEF Persist, Settle, Busy, kafkaVars
    <2>3. "commit" \in PcValues \ {"poll", "exited"} /\ "requeue" \in PcValues \ {"poll", "exited"}
      BY DEF PcValues
    <2> QED
      BY <2>1, <2>2, <2>3, HoldDelivery
  <1>9. CASE Requeue(l) \/ GiveUp(l)
    <2>1. Goto(l, "commit") /\ HasFate(l[2], off[l])'
      BY <1>9 DEF Requeue, GiveUp, Settle, HasFate, Fates
    <2>2. /\ Busy(l) /\ UNCHANGED <<stage, off, log, committed, owner, pos>>
          /\ handled \subseteq handled'
      BY <1>9 DEF Requeue, GiveUp, Settle, Busy, kafkaVars
    <2>3. "commit" \in PcValues \ {"poll", "exited"}
      BY DEF PcValues
    <2> QED
      BY <2>1, <2>2, <2>3, HoldDelivery
  <1>10. CASE Commit(l)
    <2>1. PICK p \in {"poll", "exited"} : Goto(l, p)
      BY <1>10 DEF Commit, LoopHead
    <2>2. /\ pc[l] = "commit" /\ off' = [off EXCEPT ![l] = 0]
          /\ UNCHANGED <<stage, log, owner, pos, handled>>
          /\ UNCHANGED committed \/ committed' = [committed EXCEPT ![l[2]] = off[l]]
      BY <1>10 DEF Commit, CommitSucceeds, CommitFails, Release
    <2> QED
      BY <2>1, <2>2, ReleaseDelivery
  <1> QED
    BY <1>1, <1>2, <1>3, <1>4, <1>5, <1>6, <1>7, <1>8, <1>9, <1>10 DEF LoopStep

(* The log never shrinks in the steps that append to it. *)
LEMMA GrowDelivery ==
    ASSUME TypeInv, TypeInv', DeliveryInv,
           UNCHANGED <<stage, pc, off, handled, committed, owner, pos>>,
           \/ UNCHANGED log
           \/ \E t \in Topics, r \in Record : AppendTo(t, r)
    PROVE  DeliveryInv'
  <1>a. TypeOK
    BY DEF TypeInv
  <1>1. \A t \in Topics : Len(log[t]) <= Len(log'[t])
    <2>1. CASE UNCHANGED log
      BY <1>a, <2>1 DEF TypeOK, PlatformTypeOK
    <2>2. CASE \E t \in Topics, r \in Record : AppendTo(t, r)
      BY <1>a, <2>2, AppendKeeps
    <2> QED
      BY <2>1, <2>2
  <1> QED
    BY <1>1, QuietDelivery

(* A partition that changes hands resumes at the committed offset. *)
LEMMA GroupDelivery ==
    ASSUME TypeInv, DeliveryInv, NEW t \in Topics, NEW w \in Workers,
           Assign(t, w) \/ Rebalance(t, w)
    PROVE  DeliveryInv'
  <1>a. TypeOK
    BY DEF TypeInv
  <1>1. /\ UNCHANGED <<stage, pc, off, handled, log, committed>>
        /\ owner' = [owner EXCEPT ![t] = w]
        /\ pos' = [pos EXCEPT ![t] = committed[t]]
        /\ stage[w] < ConsumerClosed(t)
    BY DEF Assign, Rebalance, workerVars, ctlVars
  <1>2. /\ owner \in [Topics -> Workers \cup {NoWorker}] /\ pos \in [Topics -> Nat]
        /\ committed \in [Topics -> Nat] /\ stage \in [Workers -> 0..Stopped]
    BY <1>a DEF TypeOK, PlatformTypeOK, WorkerTypeOK
  <1>3. WithinLog' /\ AtLeastOnce' /\ DoneBefore' /\ ReadyToCommit'
    BY <1>1, <1>2 DEF DeliveryInv, WithinLog, AtLeastOnce, DoneBefore, ReadyToCommit, Done,
       HasFate, Busy
  <1>4. OwnerPosition'
    <2> SUFFICES ASSUME NEW k \in Loops, owner'[k[2]] = k[1], pc[k] # "exited"
                 PROVE  Done(k[2], pos'[k[2]]) \/ (Busy(k) /\ pos'[k[2]] = off[k])
      BY <1>1 DEF OwnerPosition, Done, HasFate, Busy
    <2>0. k[2] \in Topics
      BY LoopParts
    <2>1. CASE k[2] = t
      BY <1>1, <1>2, <2>0, <2>1 DEF DeliveryInv, AtLeastOnce, Done
    <2>2. CASE k[2] # t
      BY <1>1, <1>2, <2>0, <2>2 DEF DeliveryInv, OwnerPosition
    <2> QED
      BY <2>1, <2>2
  <1>5. LeftGroup'
    <2> SUFFICES ASSUME NEW v \in Workers, NEW u \in Topics, stage[v] >= ConsumerClosed(u)
                 PROVE  owner'[u] # v
      BY <1>1 DEF LeftGroup, ConsumerClosed, Closing
    <2>1. ConsumerClosed(u) \in Nat /\ ConsumerClosed(t) \in Nat /\ stage[v] \in Nat /\ stage[w] \in Nat
      BY <1>2, Stages
    <2>2. owner[u] # v
      BY DEF DeliveryInv, LeftGroup
    <2>3. CASE u = t
      BY <1>1, <1>2, <2>1, <2>3
    <2>4. CASE u # t
      BY <1>1, <1>2, <2>2, <2>4
    <2> QED
      BY <2>3, <2>4
  <1> QED
    BY <1>3, <1>4, <1>5 DEF DeliveryInv

(* A stage of the shutdown moves on. *)
LEMMA StageDelivery ==
    ASSUME TypeInv, DeliveryInv, NEW w \in Workers,
           UNCHANGED <<pc, off, handled, log, committed, pos>>,
           NEW n \in 0..Stopped, stage' = [stage EXCEPT ![w] = n],
           \A t \in Topics :
              \/ owner'[t] = owner[t]
              \/ owner'[t] = NoWorker,
           \A t \in Topics : n >= ConsumerClosed(t) =>
              stage[w] >= ConsumerClosed(t) \/ owner'[t] # w
    PROVE  DeliveryInv'
  <1>a. TypeOK
    BY DEF TypeInv
  <1>1. WithinLog' /\ AtLeastOnce' /\ DoneBefore' /\ ReadyToCommit'
    BY DEF DeliveryInv, WithinLog, AtLeastOnce, DoneBefore, ReadyToCommit, Done, HasFate, Busy
  <1>2. OwnerPosition'
    BY LoopParts, PlatformAssumption DEF DeliveryInv, OwnerPosition, Done, HasFate, Busy
  <1>3. LeftGroup'
    <2> SUFFICES ASSUME NEW v \in Workers, NEW u \in Topics, stage'[v] >= ConsumerClosed(u)
                 PROVE  owner'[u] # v
      BY DEF LeftGroup, ConsumerClosed, Closing
    <2>1. stage \in [Workers -> 0..Stopped]
      BY <1>a DEF TypeOK, WorkerTypeOK
    <2>2. CASE v = w
      BY <2>1, <2>2 DEF DeliveryInv, LeftGroup
    <2>3. CASE v # w
      BY <2>1, <2>3 DEF DeliveryInv, LeftGroup
    <2> QED
      BY <2>2, <2>3
  <1> QED
    BY <1>1, <1>2, <1>3 DEF DeliveryInv

(* A replica that dies owns nothing and holds nothing. *)
LEMMA DieDelivery ==
    ASSUME TypeInv, DeliveryInv, NEW w \in Workers, Die(w)
    PROVE  DeliveryInv'
  <1>a. TypeOK
    BY DEF TypeInv
  <1>1. /\ UNCHANGED <<log, committed, pos, handled>>
        /\ stage' = [stage EXCEPT ![w] = Stopped]
        /\ \A t \in Topics : owner'[t] = IF owner[t] = w THEN NoWorker ELSE owner[t]
    BY DEF Die
  <1>2. \A l \in Loops :
          \/ pc'[l] = "exited" /\ l[1] = w
          \/ pc'[l] = pc[l] /\ off'[l] = off[l] /\ l[1] # w
    BY LoopParts DEF Die
  <1>3. WithinLog' /\ AtLeastOnce'
    BY <1>1 DEF DeliveryInv, WithinLog, AtLeastOnce, HasFate
  <1>4. DoneBefore' /\ ReadyToCommit'
    BY <1>1, <1>2 DEF DeliveryInv, DoneBefore, ReadyToCommit, Done, HasFate, Busy
  <1>5. OwnerPosition'
    <2> SUFFICES ASSUME NEW l \in Loops, owner'[l[2]] = l[1], pc'[l] # "exited"
                 PROVE  Done(l[2], pos[l[2]])' \/ (Busy(l)' /\ pos'[l[2]] = off'[l])
      BY DEF OwnerPosition
    <2>1. l[1] \in Workers /\ l[2] \in Topics
      BY LoopParts
    <2>2. owner[l[2]] = l[1] /\ pc'[l] = pc[l] /\ off'[l] = off[l]
      BY <1>1, <1>2, <2>1
    <2> QED
      BY <1>1, <2>2 DEF DeliveryInv, OwnerPosition, Done, HasFate, Busy
  <1>6. LeftGroup'
    <2> SUFFICES ASSUME NEW v \in Workers, NEW u \in Topics, stage'[v] >= ConsumerClosed(u)
                 PROVE  owner'[u] # v
      BY DEF LeftGroup, ConsumerClosed, Closing
    <2>1. CASE v = w
      BY <1>1, <2>1
    <2>2. CASE v # w
      BY <1>1, <2>2, <1>a DEF DeliveryInv, LeftGroup, TypeOK, WorkerTypeOK
    <2> QED
      BY <2>1, <2>2
  <1> QED
    BY <1>3, <1>4, <1>5, <1>6 DEF DeliveryInv

(* A replica that restarts does not own anything yet. *)
LEMMA RestartDelivery ==
    ASSUME TypeInv, DeliveryInv, NEW w \in Workers, Restart(w)
    PROVE  DeliveryInv'
  <1>a. TypeOK
    BY DEF TypeInv
  <1>1. /\ UNCHANGED <<log, committed, owner, pos, off, handled>>
        /\ stage' = [stage EXCEPT ![w] = Running]
        /\ stage[w] = Stopped
    BY DEF Restart, kafkaVars
  <1>2. \A l \in Loops :
          \/ l[1] = w /\ pc'[l] = "poll"
          \/ l[1] # w /\ pc'[l] = pc[l]
    BY DEF Restart
  <1>3. \A t \in Topics : owner[t] # w
    BY <1>1, Stages DEF DeliveryInv, LeftGroup, Stopped
  <1>4. WithinLog' /\ AtLeastOnce'
    BY <1>1 DEF DeliveryInv, WithinLog, AtLeastOnce, HasFate
  <1>5. DoneBefore' /\ ReadyToCommit'
    BY <1>1, <1>2 DEF DeliveryInv, DoneBefore, ReadyToCommit, Done, HasFate, Busy
  <1>6. OwnerPosition'
    BY <1>1, <1>2, <1>3, LoopParts DEF DeliveryInv, OwnerPosition, Done, HasFate, Busy
  <1>7. LeftGroup'
    <2> SUFFICES ASSUME NEW v \in Workers, NEW u \in Topics, stage'[v] >= ConsumerClosed(u)
                 PROVE  owner'[u] # v
      BY DEF LeftGroup, ConsumerClosed, Closing
    <2> QED
      BY <1>1, <1>3, <1>a DEF DeliveryInv, LeftGroup, TypeOK, WorkerTypeOK
  <1> QED
    BY <1>4, <1>5, <1>6, <1>7 DEF DeliveryInv

(* The life cycle of a replica preserves the invariant. *)
LEMMA LifeDelivery ==
    ASSUME TypeInv, DeliveryInv, NEW w \in Workers,
           Sigterm(w) \/ ShutdownStep(w) \/ Crash(w) \/ Restart(w)
    PROVE  DeliveryInv'
  <1>a. TypeOK
    BY DEF TypeInv
  <1>1. CASE Sigterm(w)
    <2>1. /\ UNCHANGED <<pc, off, handled, log, committed, pos, owner>>
          /\ stage' = [stage EXCEPT ![w] = Cancelled]
      BY <1>1 DEF Sigterm, kafkaVars
    <2>2. Cancelled \in 0..Stopped /\ \A t \in Topics : ~(Cancelled >= ConsumerClosed(t))
      BY Stages DEF Cancelled, Stopped
    <2> QED
      BY <2>1, <2>2, StageDelivery
  <1>2. ASSUME NEW t \in Topics, FlushProducer(w, t) \/ CloseProducer(w, t)
        PROVE  DeliveryInv'
    <2>1. PICK n \in {Flushed(t), ProducerClosed(t)} :
            stage' = [stage EXCEPT ![w] = n] /\ stage[w] = n - 1
      BY <1>2, Stages DEF FlushProducer, CloseProducer
    <2>2. UNCHANGED <<pc, off, handled, log, committed, pos, owner>>
      BY <1>2 DEF FlushProducer, CloseProducer, kafkaVars
    <2>3. n \in 0..Stopped
      BY <2>1, Stages DEF Stopped
    <2>4. \A u \in Topics : n >= ConsumerClosed(u) => stage[w] >= ConsumerClosed(u)
      BY <2>1 DEF Topics, Flushed, ProducerClosed, ConsumerClosed, Closing, Cancelled
    <2> QED
      BY <2>1, <2>2, <2>3, <2>4, StageDelivery
  <1>3. ASSUME NEW t \in Topics, CloseConsumer(w, t)
        PROVE  DeliveryInv'
    <2>1. /\ UNCHANGED <<pc, off, handled, log, committed, pos>>
          /\ stage' = [stage EXCEPT ![w] = ConsumerClosed(t)]
          /\ stage[w] = ProducerClosed(t)
          /\ owner' = [owner EXCEPT ![t] = IF @ = w THEN NoWorker ELSE @]
      BY <1>3 DEF CloseConsumer
    <2>2. ConsumerClosed(t) \in 0..Stopped
      BY Stages DEF Stopped
    <2>3. \A u \in Topics : owner'[u] = owner[u] \/ owner'[u] = NoWorker
      BY <2>1, <1>a DEF TypeOK, PlatformTypeOK
    <2>4. \A u \in Topics : ConsumerClosed(t) >= ConsumerClosed(u) =>
            stage[w] >= ConsumerClosed(u) \/ owner'[u] # w
      <3>1. owner'[t] # w
        BY <2>1, <1>a, PlatformAssumption DEF TypeOK, PlatformTypeOK
      <3> QED
        BY <2>1, <3>1 DEF Topics, ProducerClosed, ConsumerClosed, Closing, Cancelled
    <2> QED
      BY <2>1, <2>2, <2>3, <2>4, StageDelivery
  <1>4. CASE Exit(w) \/ Crash(w)
    BY <1>4, DieDelivery DEF Exit, Crash
  <1>5. CASE Restart(w)
    BY <1>5, RestartDelivery
  <1> QED
    BY <1>1, <1>2, <1>3, <1>4, <1>5 DEF ShutdownStep

(* The ingestion path touches nothing of the worker but the log. *)
LEMMA IngestDelivery ==
    ASSUME TypeInv, TypeInv', DeliveryInv, IngestNext, UNCHANGED <<workerVars, lapse>>
    PROVE  DeliveryInv'
  <1>1. UNCHANGED <<stage, pc, off, handled>>
    BY DEF workerVars, ctlVars
  <1>2. UNCHANGED <<committed, owner, pos>>
    BY IngestParts
  <1>3. UNCHANGED log \/ \E e \in Events : AppendTo("events", EventRecord(e))
    BY IngestParts
  <1>4. "events" \in Topics /\ \A e \in Events : EventRecord(e) \in Record
    BY DEF Topics, EventRecord, Record
  <1> QED
    BY <1>1, <1>2, <1>3, <1>4, GrowDelivery

(* DeliveryInv is inductive relative to TypeInv. *)
LEMMA NextDelivery == TypeInv /\ TypeInv' /\ DeliveryInv /\ [Next]_vars => DeliveryInv'
  <1> SUFFICES ASSUME TypeInv, TypeInv', DeliveryInv, [Next]_vars PROVE DeliveryInv'
    OBVIOUS
  <1>a. TypeOK
    BY DEF TypeInv
  <1>1. CASE WorkerNext
    <2>1. ASSUME NEW l \in Loops, LoopStep(l)
          PROVE  DeliveryInv'
      BY <2>1, LoopDelivery
    <2>2. ASSUME NEW l \in Loops, ProducerStep(l)
          PROVE  DeliveryInv'
      <3>1. UNCHANGED <<stage, pc, off, handled, committed, owner, pos>>
        BY <2>2 DEF ProducerStep, Deliver, DeliverTwice, DeliveryFails, ctlVars, kafkaVars
      <3>2. "dlq" \in Topics /\ (buf[l] # <<>> => Head(buf[l]) \in Record)
        BY <1>a, BufType DEF Topics
      <3>3. UNCHANGED log \/ \E r \in Record : AppendTo("dlq", r)
        BY <2>2, <3>2 DEF ProducerStep, Deliver, DeliverTwice, DeliveryFails, kafkaVars
      <3> QED
        BY <3>1, <3>2, <3>3, GrowDelivery
    <2>3. ASSUME NEW t \in Topics, NEW w \in Workers, Assign(t, w) \/ Rebalance(t, w)
          PROVE  DeliveryInv'
      BY <2>3, GroupDelivery
    <2>4. ASSUME NEW e \in Events, Expire(e)
          PROVE  DeliveryInv'
      BY <2>4, GrowDelivery DEF Expire, kafkaVars, ctlVars
    <2>5. ASSUME NEW w \in Workers, Sigterm(w) \/ ShutdownStep(w) \/ Crash(w) \/ Restart(w)
          PROVE  DeliveryInv'
      BY <2>5, LifeDelivery
    <2> QED
      BY <1>1, <2>1, <2>2, <2>3, <2>4, <2>5 DEF WorkerNext
  <1>2. CASE IngestNext /\ UNCHANGED <<workerVars, lapse>>
    BY <1>2, IngestDelivery
  <1>3. CASE ServiceNext /\ UNCHANGED <<workerVars, lapse, ingestVars>>
    <2>1. [payload |-> Garbage, rc |-> 0] \in Record
      BY DEF Record
    <2> QED
      BY <1>3, <2>1, GrowDelivery DEF ServiceNext, ForeignRecord, workerVars, ctlVars
  <1>4. CASE UNCHANGED vars
    BY <1>4, GrowDelivery DEF vars, kafkaVars, workerVars, ctlVars
  <1> QED
    BY <1>1, <1>2, <1>3, <1>4 DEF Next

(***************************************************************************)
(* At-least-once delivery (Run in consumer.go and dlq.go): no committed    *)
(* offset passes a record that no replica has dealt with.                  *)
(***************************************************************************)
THEOREM DeliveredAtLeastOnce == Spec => []AtLeastOnce
  <1>1. Init => TypeInv /\ DeliveryInv
    BY InitTypeInv, InitDelivery
  <1>2. (TypeInv /\ DeliveryInv) /\ [Next]_vars => (TypeInv /\ DeliveryInv)'
    BY NextTypeInv, NextDelivery
  <1>3. DeliveryInv => AtLeastOnce
    BY DEF DeliveryInv
  <1> QED
    BY <1>1, <1>2, <1>3, PTL DEF Spec
=============================================================================
