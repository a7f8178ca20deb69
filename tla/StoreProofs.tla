----------------------------- MODULE StoreProofs -----------------------------
(***************************************************************************)
(* What the stores hold.  Pipeline keeps the promise of Ledger: every      *)
(* attempt the agent makes at an event, whether it completes or fails, is  *)
(* covered by the idempotency key or by a pass that was recorded when the  *)
(* key was absent or unreadable, and every failed row by a failed attempt  *)
(* of its own; both are counts over the loops that hold the event then.  A        *)
(* completed decision has its raw document in Mongo, and while Redis can   *)
(* be relied on there is one such decision for an event.                   *)
(***************************************************************************)
EXTENDS RetryProofs, FiniteSetTheorems

\* The loops whose attempt at e may still end in a completed decision.
Holders(e) ==
    {l \in Loops : /\ pc[l] = "process" \/ (pc[l] = "persist" /\ verdict[l] = "completed")
                   /\ Ev(l) = e}

\* The loops about to record a failed attempt at e.
Failing(e) == {l \in Loops : pc[l] = "persist" /\ verdict[l] = "error" /\ Ev(l) = e}

Key(e) == IF e \in seen THEN 1 ELSE 0

\* The attempts at e that have ended, completed or failed.
Spent(e) == rows[e]["completed"] + fails[e]

AttemptsCovered(e) ==
    /\ IsFiniteSet(Holders(e))
    /\ Spent(e) + Cardinality(Holders(e)) <= passes[e] + Key(e)

FailuresCovered(e) ==
    /\ IsFiniteSet(Failing(e))
    /\ rows[e]["failed"] + Cardinality(Failing(e)) <= fails[e]

\* Every tool is a stub that succeeds, so Process completes or fails.
Concludes(l) == pc[l] = "persist" => verdict[l] \in {"completed", "error"}

LedgerInv ==
    /\ \A e \in Events : AttemptsCovered(e) /\ FailuresCovered(e)
    /\ \A l \in Loops : Concludes(l)

USE PlatformAssumption, WorkerAssumption, IngestAssumption

-----------------------------------------------------------------------------
(* Counting *)

\* A subset of a finite set counts no more.
LEMMA CountDown ==
    ASSUME NEW S, NEW T, IsFiniteSet(S), T \subseteq S
    PROVE  /\ IsFiniteSet(T) /\ Cardinality(T) \in Nat /\ Cardinality(S) \in Nat
           /\ Cardinality(T) <= Cardinality(S)
  BY FS_Subset, FS_CardinalityType

\* One more element counts for one more.
LEMMA CountUp ==
    ASSUME NEW S, NEW T, NEW x, IsFiniteSet(S), T \subseteq S \cup {x}
    PROVE  /\ IsFiniteSet(T) /\ Cardinality(T) \in Nat /\ Cardinality(S) \in Nat
           /\ Cardinality(T) <= Cardinality(S) + 1
  <1>1. /\ IsFiniteSet(S \cup {x}) /\ Cardinality(S) \in Nat
        /\ Cardinality(S \cup {x}) <= Cardinality(S) + 1
    <2>1. /\ IsFiniteSet(S \cup {x})
          /\ Cardinality(S \cup {x}) = IF x \in S THEN Cardinality(S) ELSE Cardinality(S) + 1
      BY FS_AddElement
    <2>2. Cardinality(S) \in Nat
      BY FS_CardinalityType
    <2> QED
      BY <2>1, <2>2
  <1> QED
    BY <1>1, CountDown

\* A set that loses an element counts one less.
LEMMA CountOut ==
    ASSUME NEW S, NEW T, NEW x \in S, IsFiniteSet(S), T \subseteq S \ {x}
    PROVE  /\ IsFiniteSet(T) /\ Cardinality(T) \in Nat /\ Cardinality(S) \in Nat
           /\ Cardinality(T) + 1 <= Cardinality(S)
  <1>1. /\ IsFiniteSet(S \ {x}) /\ Cardinality(S) \in Nat
        /\ Cardinality(S \ {x}) = Cardinality(S) - 1
    BY FS_RemoveElement, FS_CardinalityType
  <1> QED
    BY <1>1, CountDown

(* The three ways the balance of attempts at e can change. *)
LEMMA AttemptsMove ==
    ASSUME TypeOK, TypeOK', NEW e \in Events, NEW l, AttemptsCovered(e),
           \/ /\ Holders(e)' \subseteq Holders(e)
              /\ Spent(e)' = Spent(e)
              /\ passes[e] + Key(e) <= passes'[e] + Key(e)'
           \/ /\ Holders(e)' \subseteq Holders(e) \cup {l}
              /\ Spent(e)' = Spent(e)
              /\ passes[e] + Key(e) + 1 <= passes'[e] + Key(e)'
           \/ /\ l \in Holders(e) /\ Holders(e)' \subseteq Holders(e) \ {l}
              /\ Spent(e)' <= Spent(e) + 1
              /\ passes[e] + Key(e) <= passes'[e] + Key(e)'
    PROVE  AttemptsCovered(e)'
  <1>1. /\ Spent(e) \in Nat /\ Spent(e)' \in Nat
        /\ passes[e] \in Nat /\ passes'[e] \in Nat /\ Key(e) \in Nat /\ Key(e)' \in Nat
    BY DEF TypeOK, PlatformTypeOK, WorkerTypeOK, Statuses, Key, Spent
  <1> DEFINE H == Holders(e)
             HH == Holders(e)'
  <1>2. IsFiniteSet(H) /\ Spent(e) + Cardinality(H) <= passes[e] + Key(e)
    BY DEF AttemptsCovered
  <1>3. IsFiniteSet(HH) /\ Spent(e)' + Cardinality(HH) <= passes'[e] + Key(e)'
    <2> HIDE DEF H, HH
    <2>1. CASE /\ HH \subseteq H /\ Spent(e)' = Spent(e)
               /\ passes[e] + Key(e) <= passes'[e] + Key(e)'
      <3>1. IsFiniteSet(HH) /\ Cardinality(HH) \in Nat /\ Cardinality(H) \in Nat
            /\ Cardinality(HH) <= Cardinality(H)
        BY <1>2, <2>1, CountDown
      <3> QED
        BY <1>1, <1>2, <2>1, <3>1
    <2>2. CASE /\ HH \subseteq H \cup {l} /\ Spent(e)' = Spent(e)
               /\ passes[e] + Key(e) + 1 <= passes'[e] + Key(e)'
      <3>1. IsFiniteSet(HH) /\ Cardinality(HH) \in Nat /\ Cardinality(H) \in Nat
            /\ Cardinality(HH) <= Cardinality(H) + 1
        BY <1>2, <2>2, CountUp
      <3> QED
        BY <1>1, <1>2, <2>2, <3>1
    <2>3. CASE /\ l \in H /\ HH \subseteq H \ {l}
               /\ Spent(e)' <= Spent(e) + 1
               /\ passes[e] + Key(e) <= passes'[e] + Key(e)'
      <3>1. IsFiniteSet(HH) /\ Cardinality(HH) \in Nat /\ Cardinality(H) \in Nat
            /\ Cardinality(HH) + 1 <= Cardinality(H)
        BY <1>2, <2>3, CountOut
      <3> QED
        BY <1>1, <1>2, <2>3, <3>1
    <2> QED
      BY <2>1, <2>2, <2>3 DEF H, HH
  <1> QED
    BY <1>3 DEF AttemptsCovered

(* The three ways the balance of failures of e can change. *)
LEMMA FailuresMove ==
    ASSUME TypeOK, TypeOK', NEW e \in Events, NEW l, FailuresCovered(e),
           \/ /\ Failing(e)' \subseteq Failing(e)
              /\ rows'[e]["failed"] = rows[e]["failed"] /\ fails'[e] = fails[e]
           \/ /\ Failing(e)' \subseteq Failing(e) \cup {l}
              /\ rows'[e]["failed"] = rows[e]["failed"] /\ fails'[e] = fails[e] + 1
           \/ /\ l \in Failing(e) /\ Failing(e)' \subseteq Failing(e) \ {l}
              /\ rows'[e]["failed"] <= rows[e]["failed"] + 1 /\ fails'[e] = fails[e]
    PROVE  FailuresCovered(e)'
  <1>1. /\ rows[e]["failed"] \in Nat /\ rows'[e]["failed"] \in Nat
        /\ fails[e] \in Nat /\ fails'[e] \in Nat
    BY DEF TypeOK, PlatformTypeOK, WorkerTypeOK, Statuses
  <1> DEFINE F == Failing(e)
             FF == Failing(e)'
  <1>2. IsFiniteSet(F) /\ rows[e]["failed"] + Cardinality(F) <= fails[e]
    BY DEF FailuresCovered
  <1>3. IsFiniteSet(FF) /\ rows'[e]["failed"] + Cardinality(FF) <= fails'[e]
    <2> HIDE DEF F, FF
    <2>1. CASE /\ FF \subseteq F /\ rows'[e]["failed"] = rows[e]["failed"]
               /\ fails'[e] = fails[e]
      <3>1. IsFiniteSet(FF) /\ Cardinality(FF) \in Nat /\ Cardinality(F) \in Nat
            /\ Cardinality(FF) <= Cardinality(F)
        BY <1>2, <2>1, CountDown
      <3> QED
        BY <1>1, <1>2, <2>1, <3>1
    <2>2. CASE /\ FF \subseteq F \cup {l} /\ rows'[e]["failed"] = rows[e]["failed"]
               /\ fails'[e] = fails[e] + 1
      <3>1. IsFiniteSet(FF) /\ Cardinality(FF) \in Nat /\ Cardinality(F) \in Nat
            /\ Cardinality(FF) <= Cardinality(F) + 1
        BY <1>2, <2>2, CountUp
      <3> QED
        BY <1>1, <1>2, <2>2, <3>1
    <2>3. CASE /\ l \in F /\ FF \subseteq F \ {l}
               /\ rows'[e]["failed"] <= rows[e]["failed"] + 1 /\ fails'[e] = fails[e]
      <3>1. IsFiniteSet(FF) /\ Cardinality(FF) \in Nat /\ Cardinality(F) \in Nat
            /\ Cardinality(FF) + 1 <= Cardinality(F)
        BY <1>2, <2>3, CountOut
      <3> QED
        BY <1>1, <1>2, <2>3, <3>1
    <2> QED
      BY <2>1, <2>2, <2>3 DEF F, FF
  <1> QED
    BY <1>3 DEF FailuresCovered

-----------------------------------------------------------------------------
(* The invariant and the steps of Pipeline *)

\* Nobody holds an event initially.
LEMMA InitLedger == Init => LedgerInv
  <1> SUFFICES ASSUME Init PROVE LedgerInv
    OBVIOUS
  <1>1. \A l \in Loops : pc[l] = "poll"
    BY DEF Init, WorkerInit
  <1>2. ASSUME NEW e \in Events
        PROVE  AttemptsCovered(e) /\ FailuresCovered(e)
    <2>1. Holders(e) = {} /\ Failing(e) = {}
      BY <1>1 DEF Holders, Failing
    <2>2. rows[e]["completed"] = 0 /\ rows[e]["failed"] = 0 /\ passes[e] = 0 /\ fails[e] = 0 /\ Key(e) = 0
      BY DEF Init, PlatformInit, WorkerInit, Statuses, Key
    <2> QED
      BY <2>1, <2>2, FS_EmptySet DEF AttemptsCovered, FailuresCovered, Spent
  <1> QED
    BY <1>1, <1>2 DEF LedgerInv, Concludes

(* Only the loops in M come to hold an event. *)
LEMMA HoldersFrame ==
    ASSUME TypeInv, NEW M,
           UNCHANGED log \/ \E t \in Topics, r \in Record : AppendTo(t, r),
           \A k \in Loops \ M :
              \/ pc'[k] \notin {"process", "persist"}
              \/ pc'[k] = pc[k] /\ off'[k] = off[k] /\ verdict'[k] = verdict[k]
    PROVE  /\ \A e : Holders(e)' \subseteq Holders(e) \cup M
           /\ \A e : Failing(e)' \subseteq Failing(e) \cup M
           /\ (\A k \in Loops : Concludes(k)) => \A k \in Loops \ M : Concludes(k)'
  <1>1. ASSUME NEW k \in Loops, pc[k] \in {"process", "persist"}, off'[k] = off[k]
        PROVE  Ev(k)' = Ev(k)
    <2>1. TypeOK /\ k[2] \in Topics /\ off[k] \in 1..Len(log[k[2]])
      BY <1>1, LoopParts DEF TypeInv, InHand, Busy
    <2>2. log'[k[2]][off[k]] = log[k[2]][off[k]]
      BY <2>1, AppendKeeps
    <2> QED
      BY <1>1, <2>2 DEF Ev, Rec
  <1>2. ASSUME NEW e
        PROVE  /\ Holders(e)' \subseteq Holders(e) \cup M
               /\ Failing(e)' \subseteq Failing(e) \cup M
    BY <1>1 DEF Holders, Failing
  <1> QED
    BY <1>2 DEF Concludes

(* A step in which no loop gains an event and no row or failure is added. *)
LEMMA QuietLedger ==
    ASSUME TypeInv, TypeInv', LedgerInv,
           UNCHANGED log \/ \E t \in Topics, r \in Record : AppendTo(t, r),
           \A k \in Loops :
              \/ pc'[k] \notin {"process", "persist"}
              \/ pc'[k] = pc[k] /\ off'[k] = off[k] /\ verdict'[k] = verdict[k],
           \A e \in Events : /\ rows'[e]["completed"] = rows[e]["completed"]
                              /\ rows'[e]["failed"] = rows[e]["failed"]
                              /\ fails'[e] = fails[e]
                              /\ passes[e] + Key(e) <= passes'[e] + Key(e)'
    PROVE  LedgerInv'
  <1>1. /\ \A e : Holders(e)' \subseteq Holders(e) /\ Failing(e)' \subseteq Failing(e)
        /\ \A k \in Loops : Concludes(k)'
    BY HoldersFrame DEF LedgerInv
  <1>2. ASSUME NEW e \in Events
        PROVE  AttemptsCovered(e)' /\ FailuresCovered(e)'
    <2>1. Spent(e)' = Spent(e)
      BY <1>2 DEF Spent
    <2> QED
      BY <1>1, <1>2, <2>1, AttemptsMove, FailuresMove DEF LedgerInv, TypeInv
  <1> QED
    BY <1>1, <1>2 DEF LedgerInv

(* Each loop step that leaves the idempotency key, the rows and the        *)
(* failures alone takes its loop away from its event, or keeps it short of *)
(* the agent.                                                              *)
LEMMA PlainLoopLedger ==
    ASSUME TypeInv, TypeInv', LedgerInv, NEW l \in Loops,
           \/ ConsumerRead(l) \/ DLQRead(l) \/ PollTimeout(l) \/ Backoff(l)
           \/ BackoffCancelled(l) \/ SaveRaw(l) \/ Requeue(l) \/ GiveUp(l) \/ Commit(l)
    PROVE  LedgerInv'
  <1>a. LoopStep(l)
    BY DEF LoopStep
  <1>b. /\ UNCHANGED log
        /\ \A k \in Loops \ {l} : /\ pc'[k] = pc[k] /\ off'[k] = off[k]
                                  /\ verdict'[k] = verdict[k]
    BY <1>a, LoopFrame
  <1>c. /\ pc \in [Loops -> PcValues] /\ rows \in [Events -> [Statuses -> Nat]]
        /\ passes \in [Events -> Nat]
    BY DEF TypeInv, TypeOK, PlatformTypeOK, WorkerTypeOK
  <1>1. pc'[l] \notin {"process", "persist"}
    BY <1>c DEF ConsumerRead, DLQRead, Parse, Goto, PollTimeout, LoopHead, Backoff,
       BackoffCancelled, SaveRaw, Requeue, GiveUp, Commit
  <1>2. UNCHANGED <<fails, passes, seen>>
    BY DEF ConsumerRead, DLQRead, Fetch, PollTimeout, Backoff, BackoffCancelled, SaveRaw,
       Requeue, GiveUp, Commit, storeVars
  <1>3. \/ UNCHANGED rows
        \/ rows' = [rows EXCEPT ![Ev(l)]["permanently_failed"] = @ + 1]
    BY DEF ConsumerRead, DLQRead, Fetch, PollTimeout, Backoff, BackoffCancelled, SaveRaw,
       Requeue, GiveUp, SaveDecision, Commit, storeVars
  <1>4. \A e \in Events : /\ rows'[e]["completed"] = rows[e]["completed"]
                           /\ rows'[e]["failed"] = rows[e]["failed"]
    BY <1>c, <1>3 DEF Statuses
  <1>5. \A e \in Events : passes[e] + Key(e) <= passes'[e] + Key(e)'
    BY <1>c, <1>2 DEF Key
  <1> QED
    BY <1>b, <1>1, <1>2, <1>4, <1>5, QuietLedger

(* The idempotency check gives its event to at most this loop, and against *)
(* a new key or a new pass.                                                *)
LEMMA CheckSeenLedger ==
    ASSUME TypeInv, TypeInv', LedgerInv, NEW l \in Loops, CheckSeen(l)
    PROVE  LedgerInv'
  <1>a. /\ UNCHANGED log
        /\ \A k \in Loops \ {l} : /\ pc'[k] = pc[k] /\ off'[k] = off[k]
                                  /\ verdict'[k] = verdict[k]
    BY LoopFrame DEF LoopStep
  <1>b. /\ pc[l] = "seen" /\ UNCHANGED <<off, verdict, rows, fails>>
        /\ pc'[l] \in {"process", "commit"} /\ Ev(l) \in Events
    BY DEF CheckSeen, SeenFirst, SeenDuplicate, SeenResent, SeenError, Goto, TypeInv, TypeOK, WorkerTypeOK,
       InHand, Handling
  <1>c. passes \in [Events -> Nat]
    BY DEF TypeInv, TypeOK, WorkerTypeOK
  <1>1. CASE SeenDuplicate(l) \/ SeenResent(l)
    <2>1. pc'[l] = "commit" /\ seen \subseteq seen' /\ UNCHANGED passes
      BY <1>1, <1>b DEF SeenDuplicate, SeenResent, Goto, TypeInv, TypeOK, WorkerTypeOK
    <2>2. \A e \in Events : passes[e] + Key(e) <= passes'[e] + Key(e)'
      BY <1>c, <2>1 DEF Key
    <2> QED
      BY <1>a, <1>b, <2>1, <2>2, QuietLedger
  <1>2. CASE SeenFirst(l) \/ SeenError(l)
    <2>1. /\ \A e : Holders(e)' \subseteq Holders(e) \cup {l}
          /\ \A e : Failing(e)' \subseteq Failing(e) \cup {l}
          /\ \A k \in Loops \ {l} : Concludes(k)'
      BY <1>a, HoldersFrame DEF LedgerInv
    <2>2. pc'[l] = "process" /\ Ev(l)' = Ev(l)
      BY <1>2, <1>a, <1>b DEF SeenFirst, SeenError, Goto, Ev, Rec, TypeInv, TypeOK, WorkerTypeOK
    <2>3. Concludes(l)' /\ \A e : Failing(e)' \subseteq Failing(e)
      BY <2>1, <2>2 DEF Concludes, Failing
    <2>4. \A e \in Events : e # Ev(l) => Holders(e)' \subseteq Holders(e)
      BY <2>1, <2>2 DEF Holders
    <2>5. \A e \in Events : passes[e] + Key(e) <= passes'[e] + Key(e)'
      BY <1>2, <1>c DEF SeenFirst, SeenError, Key
    <2>6. passes[Ev(l)] + Key(Ev(l)) + 1 <= passes'[Ev(l)] + (IF Ev(l) \in seen' THEN 1 ELSE 0)
      <3>1. CASE SeenFirst(l)
        BY <3>1, <1>b, <1>c DEF SeenFirst, Key
      <3>2. CASE SeenError(l)
        BY <3>2, <1>b, <1>c DEF SeenError, Key
      <3> QED
        BY <1>2, <3>1, <3>2
    <2>7. ASSUME NEW e \in Events
          PROVE  AttemptsCovered(e)' /\ FailuresCovered(e)'
      <3>a. Spent(e)' = Spent(e)
        BY <1>b DEF Spent
      <3>1. FailuresCovered(e)'
        BY <1>b, <2>3, FailuresMove DEF LedgerInv, TypeInv
      <3>2. CASE e = Ev(l)
        <4>1. passes[e] + Key(e) + 1 <= passes'[e] + Key(e)'
          BY <3>2, <2>6 DEF Key
        <4> QED
          BY <2>1, <3>a, <3>1, <4>1, AttemptsMove DEF LedgerInv, TypeInv
      <3>3. CASE e # Ev(l)
        BY <2>4, <2>5, <3>a, <3>1, <3>3, AttemptsMove DEF LedgerInv, TypeInv
      <3> QED
        BY <3>2, <3>3
    <2> QED
      BY <2>1, <2>3, <2>7 DEF LedgerInv
  <1> QED
    BY <1>1, <1>2 DEF CheckSeen

(* An attempt that failed moves its loop from one balance to the other. *)
LEMMA ProcessLedger ==
    ASSUME TypeInv, TypeInv', LedgerInv, NEW l \in Loops, Process(l)
    PROVE  LedgerInv'
  <1>a. /\ UNCHANGED log
        /\ \A k \in Loops \ {l} : /\ pc'[k] = pc[k] /\ off'[k] = off[k]
                                  /\ verdict'[k] = verdict[k]
    BY LoopFrame DEF LoopStep
  <1>b. /\ pc[l] = "process" /\ pc'[l] = "persist" /\ UNCHANGED <<off, rows, passes, seen>>
        /\ Ev(l) \in Events /\ Ev(l)' = Ev(l)
    BY <1>a DEF Process, Goto, TypeInv, TypeOK, WorkerTypeOK, InHand, Handling, storeVars, Ev, Rec
  <1>c. /\ verdict \in [Loops -> Outcomes \cup {"none"}] /\ fails \in [Events -> Nat]
        /\ passes \in [Events -> Nat]
    BY DEF TypeInv, TypeOK, WorkerTypeOK
  <1>d. \A e \in Events : rows[e]["completed"] \in Nat
    BY DEF TypeInv, TypeOK, PlatformTypeOK, Statuses
  <1>1. PICK reply \in LLMReplies \cup (IF Ctx(l) THEN {} ELSE {"no_answer"}) :
          /\ verdict' = [verdict EXCEPT ![l] = Outcome(reply)]
          /\ fails' = [fails EXCEPT ![Ev(l)] = IF Outcome(reply) = "error" THEN @ + 1 ELSE @]
    BY DEF Process
  <1>2. verdict'[l] = Outcome(reply) /\ Outcome(reply) \in {"completed", "error"}
    BY <1>c, <1>1 DEF Outcome, Valid, ExecuteAction
  <1>3. /\ \A e : Holders(e)' \subseteq Holders(e) \cup {l}
        /\ \A e : Failing(e)' \subseteq Failing(e) \cup {l}
        /\ \A k \in Loops \ {l} : Concludes(k)'
    BY <1>a, HoldersFrame DEF LedgerInv
  <1>4. Concludes(l)'
    BY <1>2 DEF Concludes
  <1>5. ASSUME NEW e \in Events
        PROVE  AttemptsCovered(e)'
    <2>1. passes[e] + Key(e) <= passes'[e] + Key(e)'
      BY <1>b, <1>c DEF Key
    <2>2. CASE verdict'[l] = "error" /\ e = Ev(l)
      <3>1. l \in Holders(e) /\ Holders(e)' \subseteq Holders(e) \ {l}
        BY <1>3, <1>b, <2>2 DEF Holders
      <3>2. Spent(e)' <= Spent(e) + 1
        <4>1. fails'[e] = fails[e] + 1
          BY <1>1, <1>2, <1>c, <2>2
        <4> QED
          BY <1>b, <1>c, <1>d, <4>1 DEF Spent
      <3> QED
        BY <2>1, <3>1, <3>2, AttemptsMove DEF LedgerInv, TypeInv
    <2>3. CASE ~(verdict'[l] = "error" /\ e = Ev(l))
      <3>1. Holders(e)' \subseteq Holders(e)
        BY <1>3, <1>b DEF Holders
      <3>2. Spent(e)' = Spent(e)
        <4>1. fails'[e] = fails[e]
          BY <1>1, <1>2, <1>c, <2>3
        <4> QED
          BY <1>b, <4>1 DEF Spent
      <3> QED
        BY <2>1, <3>1, <3>2, AttemptsMove DEF LedgerInv, TypeInv
    <2> QED
      BY <2>2, <2>3
  <1>6. ASSUME NEW e \in Events
        PROVE  FailuresCovered(e)'
    <2>1. CASE verdict'[l] = "error" /\ e = Ev(l)
      <3>1. fails'[e] = fails[e] + 1
        BY <1>1, <1>2, <1>c, <2>1
      <3> QED
        BY <1>b, <1>3, <2>1, <3>1, FailuresMove DEF LedgerInv, TypeInv
    <2>2. CASE ~(verdict'[l] = "error" /\ e = Ev(l))
      <3>1. Failing(e)' \subseteq Failing(e)
        BY <1>b, <1>3, <2>2 DEF Failing
      <3>2. fails'[e] = fails[e]
        BY <1>1, <1>2, <1>c, <2>2
      <3> QED
        BY <1>b, <3>1, <3>2, FailuresMove DEF LedgerInv, TypeInv
    <2> QED
      BY <2>1, <2>2
  <1> QED
    BY <1>3, <1>4, <1>5, <1>6 DEF LedgerInv

(* The row of an attempt takes the place of the loop that held it. *)
LEMMA PersistLedger ==
    ASSUME TypeInv, TypeInv', LedgerInv, NEW l \in Loops, Persist(l)
    PROVE  LedgerInv'
  <1>a. /\ UNCHANGED log
        /\ \A k \in Loops \ {l} : /\ pc'[k] = pc[k] /\ off'[k] = off[k]
                                  /\ verdict'[k] = verdict[k]
    BY LoopFrame DEF LoopStep
  <1>b. /\ pc[l] = "persist" /\ pc'[l] \in {"requeue", "commit"}
        /\ UNCHANGED <<off, verdict, fails, passes, seen>> /\ Ev(l) \in Events
    BY DEF Persist, Goto, TypeInv, TypeOK, WorkerTypeOK, InHand, Handling
  <1>c. rows \in [Events -> [Statuses -> Nat]] /\ passes \in [Events -> Nat]
    BY DEF TypeInv, TypeOK, PlatformTypeOK, WorkerTypeOK
  <1>1. \/ rows' = [rows EXCEPT ![Ev(l)][StatusOf(verdict[l])] = @ + 1]
        \/ UNCHANGED rows
    BY DEF Persist, SaveDecision
  <1>2. \A e : /\ Holders(e)' \subseteq Holders(e) \ {l}
               /\ Failing(e)' \subseteq Failing(e) \ {l}
    <2>1. \A e : Holders(e)' \subseteq Holders(e) \cup {l} /\ Failing(e)' \subseteq Failing(e) \cup {l}
      BY <1>a, HoldersFrame
    <2> QED
      BY <1>b, <2>1 DEF Holders, Failing
  <1>3. \A k \in Loops : Concludes(k)'
    BY <1>a, <1>b DEF LedgerInv, Concludes
  <1>4. \A e \in Events : passes[e] + Key(e) <= passes'[e] + Key(e)'
    BY <1>b, <1>c DEF Key
  <1>5. ASSUME NEW e \in Events, e # Ev(l) \/ verdict[l] # "completed"
        PROVE  AttemptsCovered(e)'
    <2>1. rows'[e]["completed"] = rows[e]["completed"]
      <3>1. e # Ev(l) \/ StatusOf(verdict[l]) = "failed"
        BY <1>5 DEF StatusOf
      <3> QED
        BY <1>c, <1>1, <3>1 DEF Statuses
    <2>2. Spent(e)' = Spent(e)
      BY <1>b, <2>1 DEF Spent
    <2> QED
      BY <1>2, <1>4, <2>2, AttemptsMove DEF LedgerInv, TypeInv
  <1>6. ASSUME NEW e \in Events, e # Ev(l) \/ verdict[l] = "completed"
        PROVE  FailuresCovered(e)'
    <2>1. rows'[e]["failed"] = rows[e]["failed"]
      <3>1. e # Ev(l) \/ StatusOf(verdict[l]) = "completed"
        BY <1>6 DEF StatusOf
      <3> QED
        BY <1>c, <1>1, <3>1 DEF Statuses
    <2> QED
      BY <1>b, <1>2, <2>1, FailuresMove DEF LedgerInv, TypeInv
  <1>7. CASE verdict[l] = "completed"
    <2>1. l \in Holders(Ev(l)) /\ StatusOf(verdict[l]) = "completed"
      BY <1>b, <1>7 DEF Holders, StatusOf
    <2>2. rows'[Ev(l)]["completed"] <= rows[Ev(l)]["completed"] + 1
      BY <1>b, <1>c, <1>1, <2>1 DEF Statuses
    <2>3. ASSUME NEW e \in Events, e = Ev(l)
          PROVE  AttemptsCovered(e)'
      <3>1. Spent(e)' <= Spent(e) + 1
        <4>1. /\ rows'[e]["completed"] <= rows[e]["completed"] + 1 /\ fails'[e] = fails[e]
              /\ rows[e]["completed"] \in Nat /\ rows'[e]["completed"] \in Nat /\ fails[e] \in Nat
          BY <1>b, <2>2, <2>3 DEF TypeInv, TypeOK, PlatformTypeOK, WorkerTypeOK, Statuses
        <4> QED
          BY <4>1 DEF Spent
      <3> QED
        BY <1>2, <1>4, <2>1, <2>3, <3>1, AttemptsMove DEF LedgerInv, TypeInv
    <2> QED
      BY <1>3, <1>5, <1>6, <1>7, <2>3 DEF LedgerInv
  <1>8. CASE verdict[l] # "completed"
    <2>1. verdict[l] = "error"
      BY <1>b, <1>8 DEF LedgerInv, Concludes
    <2>2. l \in Failing(Ev(l)) /\ StatusOf(verdict[l]) = "failed"
      BY <1>b, <2>1 DEF Failing, StatusOf
    <2>3. rows'[Ev(l)]["failed"] <= rows[Ev(l)]["failed"] + 1
      BY <1>b, <1>c, <1>1, <2>2 DEF Statuses
    <2>4. ASSUME NEW e \in Events, e = Ev(l)
          PROVE  FailuresCovered(e)'
      BY <1>b, <1>2, <2>2, <2>3, <2>4, FailuresMove DEF LedgerInv, TypeInv
    <2> QED
      BY <1>3, <1>5, <1>6, <1>8, <2>4 DEF LedgerInv
  <1> QED
    BY <1>7, <1>8

\* Outside the loops an event can only be let go of, or its key expire.
LEMMA WorldLedger ==
    ASSUME TypeInv, TypeInv', LedgerInv, [Next]_vars, ~\E l \in Loops : LoopStep(l)
    PROVE  LedgerInv'
  <1>a. UNCHANGED log \/ \E t \in Topics, r \in Record : AppendTo(t, r)
    BY LogGrows
  <1>b. passes \in [Events -> Nat] /\ seen \in SUBSET Events
    BY DEF TypeInv, TypeOK, PlatformTypeOK, WorkerTypeOK
  <1>1. CASE /\ UNCHANGED <<rows, fails, passes, seen>>
             /\ \A k \in Loops :
                  \/ pc'[k] \notin {"process", "persist"}
                  \/ pc'[k] = pc[k] /\ off'[k] = off[k] /\ verdict'[k] = verdict[k]
    <2>1. \A e \in Events : passes[e] + Key(e) <= passes'[e] + Key(e)'
      BY <1>b, <1>1 DEF Key
    <2> QED
      BY <1>a, <1>1, <2>1, QuietLedger
  <1>2. ASSUME NEW e \in Events, Expire(e)
        PROVE  LedgerInv'
    <2>1. UNCHANGED <<pc, off, verdict, rows, fails>>
      BY <1>2 DEF Expire, ctlVars
    <2>2. \A x \in Events : passes[x] + Key(x) <= passes'[x] + Key(x)'
      BY <1>b, <1>2 DEF Expire, Key
    <2> QED
      BY <1>a, <2>1, <2>2, QuietLedger
  <1>3. ASSUME NEW l \in Loops, ProducerStep(l)
        PROVE  LedgerInv'
    BY <1>1, <1>3 DEF ProducerStep, Deliver, DeliverTwice, DeliveryFails, ctlVars, storeVars
  <1>4. ASSUME NEW t \in Topics, NEW w \in Workers, Assign(t, w) \/ Rebalance(t, w)
        PROVE  LedgerInv'
    BY <1>1, <1>4 DEF Assign, Rebalance, storeVars, workerVars, ctlVars
  <1>5. ASSUME NEW w \in Workers, Die(w)
        PROVE  LedgerInv'
    <2>1. UNCHANGED <<rows, fails, passes, seen>>
      BY <1>5 DEF Die, storeVars
    <2>2. \A k \in Loops :
             \/ pc'[k] = "exited"
             \/ pc'[k] = pc[k] /\ off'[k] = off[k] /\ verdict'[k] = verdict[k]
      BY <1>5 DEF Die
    <2> QED
      BY <1>1, <2>1, <2>2
  <1>6. ASSUME NEW w \in Workers, Sigterm(w) \/ ShutdownStep(w) \/ Crash(w)
        PROVE  LedgerInv'
    <2>1. CASE Exit(w) \/ Crash(w)
      BY <2>1, <1>5 DEF Exit, Crash
    <2>2. CASE Sigterm(w)
      BY <2>2, <1>1 DEF Sigterm, storeVars
    <2>3. ASSUME NEW t \in Topics,
                 FlushProducer(w, t) \/ CloseProducer(w, t) \/ CloseConsumer(w, t)
          PROVE  LedgerInv'
      BY <2>3, <1>1 DEF FlushProducer, CloseProducer, CloseConsumer, storeVars
    <2> QED
      BY <1>6, <2>1, <2>2, <2>3 DEF ShutdownStep
  <1>7. ASSUME NEW w \in Workers, Restart(w)
        PROVE  LedgerInv'
    <2>1. \A k \in Loops : pc'[k] = "poll" \/ pc'[k] = pc[k]
      BY <1>7 DEF Restart
    <2> QED
      BY <1>1, <1>7, <2>1 DEF Restart, storeVars
  <1>8. CASE IngestNext /\ UNCHANGED <<workerVars, lapse>>
    BY <1>1, <1>8, IngestParts DEF workerVars, ctlVars
  <1>9. CASE ServiceNext /\ UNCHANGED <<workerVars, lapse, ingestVars>>
    BY <1>1, <1>9 DEF ServiceNext, ForeignRecord, workerVars, ctlVars, storeVars
  <1>10. CASE UNCHANGED vars
    BY <1>1, <1>10 DEF vars, workerVars, ctlVars, storeVars
  <1> QED
    BY <1>2, <1>3, <1>4, <1>6, <1>7, <1>8, <1>9, <1>10 DEF Next, WorkerNext

(* LedgerInv is inductive relative to TypeInv. *)
LEMMA NextLedger == TypeInv /\ TypeInv' /\ LedgerInv /\ [Next]_vars => LedgerInv'
  <1> SUFFICES ASSUME TypeInv, TypeInv', LedgerInv, [Next]_vars PROVE LedgerInv'
    OBVIOUS
  <1>1. ASSUME NEW l \in Loops, LoopStep(l)
        PROVE  LedgerInv'
    BY <1>1, PlainLoopLedger, CheckSeenLedger, ProcessLedger, PersistLedger DEF LoopStep
  <1> QED
    BY <1>1, WorldLedger

(***************************************************************************)
(* Idempotency (Seen in redis.go): however often a record is delivered,    *)
(* and however many replicas work on it, the agent attempts an event at    *)
(* most once, failed attempts included, plus once per time its key was     *)
(* absent again or unreadable.                                             *)
(***************************************************************************)
THEOREM EffectsIdempotent == Spec => []IdempotentEffects
  <1>1. Init => TypeInv /\ LedgerInv
    BY InitTypeInv, InitLedger
  <1>2. (TypeInv /\ LedgerInv) /\ [Next]_vars => (TypeInv /\ LedgerInv)'
    BY NextTypeInv, NextLedger
  <1>3. TypeInv /\ LedgerInv => IdempotentEffects
    <2> SUFFICES ASSUME TypeInv, LedgerInv, NEW e \in Events
                 PROVE  Spent(e) <= 1 + passes[e]
      BY DEF IdempotentEffects, Spent
    <2>1. /\ Spent(e) \in Nat /\ passes[e] \in Nat /\ Key(e) \in {0, 1}
      BY DEF TypeInv, TypeOK, PlatformTypeOK, WorkerTypeOK, Statuses, Key, Spent
    <2>2. /\ Cardinality(Holders(e)) \in Nat
          /\ Spent(e) + Cardinality(Holders(e)) <= passes[e] + Key(e)
      BY FS_CardinalityType DEF LedgerInv, AttemptsCovered
    <2> QED
      BY <2>1, <2>2
  <1> QED
    BY <1>1, <1>2, <1>3, PTL DEF Spec

-----------------------------------------------------------------------------
(* Refinement *)

(* The tables are empty initially. *)
LEMMA TablesInit == Init => Tables!LedgerInit
  BY DEF Init, PlatformInit, WorkerInit, Statuses, Tables!LedgerInit

(* Every call of SaveDecision is an addition Ledger allows, or no change. *)
LEMMA TablesAddDecision ==
    ASSUME NEW l \in Loops, NEW e \in Events, NEW s \in Statuses, SaveDecision(l, e, s),
           Tables!Earned(e, s), UNCHANGED <<pgEvents, fails, passes>>
    PROVE  [Tables!LedgerNext]_(Tables!ledgerVars)
  <1>1. CASE rows' = [rows EXCEPT ![e][s] = @ + 1] /\ e \in pgEvents
    <2>1. Tables!AddDecision(e, s)
      BY <1>1 DEF Tables!AddDecision
    <2> QED
      BY <2>1 DEF Tables!LedgerNext, Statuses
  <1>2. CASE UNCHANGED rows
    BY <1>2 DEF Tables!ledgerVars
  <1> QED
    BY <1>1, <1>2 DEF SaveDecision

(* A loop that holds an event has an attempt that has not ended.           *)
LEMMA HolderMayAttempt ==
    ASSUME TypeInv, LedgerInv, NEW e \in Events, NEW l \in Holders(e)
    PROVE  Tables!MayAttempt(e)
  <1>1. /\ Cardinality(Holders(e)) \in Nat /\ Cardinality(Holders(e)) # 0
        /\ Spent(e) + Cardinality(Holders(e)) <= passes[e] + Key(e)
    BY FS_CardinalityType, FS_EmptySet DEF LedgerInv, AttemptsCovered
  <1>2. Spent(e) \in Nat /\ passes[e] \in Nat /\ Key(e) \in {0, 1}
    BY DEF TypeInv, TypeOK, PlatformTypeOK, WorkerTypeOK, Statuses, Spent, Key
  <1>3. Spent(e) <= passes[e]
    BY <1>1, <1>2
  <1> QED
    BY <1>3 DEF Spent, Tables!MayAttempt

(* A step of a loop is a step of Ledger or leaves the tables alone. *)
LEMMA TablesLoop ==
    ASSUME TypeInv, TypeInv', LedgerInv, BudgetInv', NEW l \in Loops, LoopStep(l)
    PROVE  [Tables!LedgerNext]_(Tables!ledgerVars)
  <1>a. /\ rows \in [Events -> [Statuses -> Nat]] /\ passes \in [Events -> Nat]
        /\ fails \in [Events -> Nat] /\ pc \in [Loops -> PcValues]
    BY DEF TypeInv, TypeOK, PlatformTypeOK, WorkerTypeOK
  <1>b. pc[l] \in Handling => Ev(l) \in Events
    BY DEF TypeInv, InHand
  <1>1. CASE \/ ConsumerRead(l) \/ DLQRead(l) \/ PollTimeout(l) \/ Backoff(l)
             \/ BackoffCancelled(l) \/ SaveRaw(l) \/ Requeue(l) \/ Commit(l)
    BY <1>1 DEF ConsumerRead, DLQRead, Fetch, PollTimeout, Backoff, BackoffCancelled, SaveRaw,
       Requeue, Commit, storeVars, Tables!ledgerVars
  <1>2. CASE CheckSeen(l)
    <2>1. UNCHANGED <<pgEvents, rows, fails>> /\ Ev(l) \in Events
      BY <1>2, <1>b DEF CheckSeen, Handling
    <2>2. UNCHANGED passes \/ passes' = [passes EXCEPT ![Ev(l)] = @ + 1]
      BY <1>2 DEF CheckSeen, SeenFirst, SeenDuplicate, SeenResent, SeenError
    <2> QED
      BY <2>1, <2>2 DEF Tables!LedgerNext, Tables!Grant, Tables!ledgerVars
  <1>3. CASE Process(l)
    <2>1. /\ UNCHANGED <<pgEvents, rows, passes>> /\ Ev(l) \in Events
          /\ l \in Holders(Ev(l))
      BY <1>3, <1>b DEF Process, storeVars, Handling, Holders
    <2>2. \/ fails' = [fails EXCEPT ![Ev(l)] = @ + 1]
          \/ fails' = [fails EXCEPT ![Ev(l)] = @]
      BY <1>3 DEF Process
    <2>3. UNCHANGED fails \/ fails' = [fails EXCEPT ![Ev(l)] = @ + 1]
      BY <1>a, <2>2
    <2> QED
      BY <2>1, <2>3, HolderMayAttempt DEF Tables!LedgerNext, Tables!Fail, Tables!ledgerVars
  <1>4. CASE Persist(l)
    <2> DEFINE e == Ev(l)
    <2>1. pc[l] = "persist" /\ e \in Events /\ UNCHANGED <<pgEvents, fails, passes>>
      BY <1>4, <1>b DEF Persist, Handling
    <2>2. StatusOf(verdict[l]) \in Statuses /\ SaveDecision(l, e, StatusOf(verdict[l]))
      BY <1>4 DEF Persist, StatusOf, Statuses
    <2>3. Tables!Earned(e, StatusOf(verdict[l]))
      <3>1. CASE verdict[l] = "completed"
        <4>1. l \in Holders(e)
          BY <2>1, <3>1 DEF Holders
        <4> QED
          BY <2>1, <3>1, <4>1, HolderMayAttempt DEF Tables!Earned, StatusOf
      <3>2. CASE verdict[l] = "error"
        <4>1. l \in Failing(e)
          BY <2>1, <3>2 DEF Failing
        <4>2. /\ Cardinality(Failing(e)) \in Nat /\ Cardinality(Failing(e)) # 0
              /\ rows[e]["failed"] + Cardinality(Failing(e)) <= fails[e]
          BY <2>1, <4>1, FS_CardinalityType, FS_EmptySet DEF LedgerInv, FailuresCovered
        <4>3. rows[e]["failed"] \in Nat /\ fails[e] \in Nat
          BY <1>a, <2>1 DEF Statuses
        <4>4. rows[e]["failed"] < fails[e]
          <5> HIDE DEF e
          <5> QED
            BY <4>2, <4>3
        <4> QED
          BY <3>2, <4>4 DEF Tables!Earned, StatusOf
      <3> QED
        BY <2>1, <3>1, <3>2 DEF LedgerInv, Concludes
    <2> QED
      BY <2>1, <2>2, <2>3, TablesAddDecision
  <1>5. CASE GiveUp(l)
    <2>1. UNCHANGED <<pgEvents, fails, passes>>
      BY <1>5 DEF GiveUp
    <2>2. CASE UNCHANGED rows
      BY <2>1, <2>2 DEF Tables!ledgerVars
    <2>3. CASE ~UNCHANGED rows
      <3>1. /\ SaveDecision(l, Ev(l), "permanently_failed") /\ Ev(l) # Garbage
            /\ pc[l] = "giveup"
        BY <1>5, <2>3 DEF GiveUp
      <3>2. Ev(l) \in Events
        BY <3>1, RecType DEF Busy
      <3>3. rows' = [rows EXCEPT ![Ev(l)]["permanently_failed"] = @ + 1]
        BY <2>3, <3>1 DEF SaveDecision
      <3>4. rows'[Ev(l)]["permanently_failed"] > 0
        BY <1>a, <3>2, <3>3 DEF Statuses
      <3>5. fails[Ev(l)] > MaxRetry
        BY <1>a, <2>1, <3>2, <3>4 DEF BudgetInv, PermanentFailureEarned
      <3>6. Tables!Earned(Ev(l), "permanently_failed")
        BY <3>5 DEF Tables!Earned
      <3> QED
        BY <2>1, <3>1, <3>2, <3>6, TablesAddDecision DEF Statuses
    <2> QED
      BY <2>2, <2>3
  <1> QED
    BY <1>1, <1>2, <1>3, <1>4, <1>5 DEF LoopStep

(* The ingestion path adds one event at a time. *)
LEMMA TablesIngest ==
    ASSUME IngestNext, UNCHANGED <<workerVars, lapse>>
    PROVE  [Tables!LedgerNext]_(Tables!ledgerVars)
  <1>1. UNCHANGED <<rows, fails, passes>>
    BY IngestParts DEF workerVars
  <1>2. ASSUME NEW e \in Events, RequestStep(e)
        PROVE  UNCHANGED pgEvents \/ pgEvents' = pgEvents \cup {e}
    BY <1>2 DEF RequestStep, HandlerStep, Accept, Reject, SaveEvent, Publish, SeedPublish, storeVars
  <1>3. ASSUME ~\E e \in Events : RequestStep(e)
        PROVE  UNCHANGED pgEvents
    BY <1>3 DEF IngestNext, OutboxStep, DeliverEvent, DeliverEventTwice, EventDeliveryFails,
       ServerStep, StopStep, ApiSigterm, ApiShutdown, ApiCloseProducer, ApiExit, ApiCrash,
       ApiRestart, SeedEnds, storeVars
  <1> QED
    BY <1>1, <1>2, <1>3 DEF Tables!LedgerNext, Tables!AddEvent, Tables!ledgerVars

(* Every step of Pipeline is a step of Ledger or leaves the tables alone. *)
LEMMA TablesStep ==
    ASSUME TypeInv, TypeInv', LedgerInv, BudgetInv', [Next]_vars
    PROVE  [Tables!LedgerNext]_(Tables!ledgerVars)
  <1>1. ASSUME NEW l \in Loops, LoopStep(l)
        PROVE  [Tables!LedgerNext]_(Tables!ledgerVars)
    BY <1>1, TablesLoop
  <1>2. ASSUME NEW e \in Events, Expire(e)
        PROVE  [Tables!LedgerNext]_(Tables!ledgerVars)
    BY <1>2 DEF Expire, Tables!LedgerNext, Tables!Grant, Tables!ledgerVars
  <1>3. CASE UNCHANGED <<pgEvents, rows, fails, passes>>
    BY <1>3 DEF Tables!ledgerVars
  <1>4. ASSUME WorkerNext, ~\E l \in Loops : LoopStep(l), ~\E e \in Events : Expire(e)
        PROVE  UNCHANGED <<pgEvents, rows, fails, passes>>
    BY <1>4 DEF WorkerNext, ProducerStep, Deliver, DeliverTwice, DeliveryFails, Assign, Rebalance,
       Sigterm, ShutdownStep, FlushProducer, CloseProducer, CloseConsumer, Exit, Crash, Die,
       Restart, storeVars, workerVars
  <1>5. CASE ServiceNext /\ UNCHANGED <<workerVars, lapse, ingestVars>>
    BY <1>3, <1>5 DEF ServiceNext, ForeignRecord, storeVars, workerVars
  <1>6. CASE UNCHANGED vars
    BY <1>3, <1>6 DEF vars, storeVars, workerVars
  <1> QED
    BY <1>1, <1>2, <1>3, <1>4, <1>5, <1>6, TablesIngest DEF Next

(***************************************************************************)
(* Pipeline implements Ledger: whoever reads the tables, at any moment and *)
(* whatever fails, finds decisions only on stored events, added one by     *)
(* one: a completed or failed one for an attempt of its own, a             *)
(* permanently_failed one, which may be repeated, for a spent budget.      *)
(***************************************************************************)
THEOREM PipelineKeepsLedger == Spec => KeepsLedger
  <1>1. Init => TypeInv /\ LedgerInv /\ BudgetInv
    BY InitTypeInv, InitLedger, InitBudget
  <1>2. (TypeInv /\ LedgerInv /\ BudgetInv) /\ [Next]_vars
            => (TypeInv /\ LedgerInv /\ BudgetInv)'
    BY NextTypeInv, NextLedger, NextBudget
  <1>3. /\ (TypeInv /\ LedgerInv /\ BudgetInv) /\ (TypeInv /\ LedgerInv /\ BudgetInv)'
        /\ [Next]_vars
        => [Tables!LedgerNext]_(Tables!ledgerVars)
    BY TablesStep
  <1> QED
    BY <1>1, <1>2, <1>3, TablesInit, PTL DEF Spec, KeepsLedger, Tables!LedgerSpec

-----------------------------------------------------------------------------
(***************************************************************************)
(* The raw document.  The handler that writes the decision may run across  *)
(* a SIGTERM, which makes it skip the document; a handler past the         *)
(* document either has stored it or works with a cancelled ctx, which      *)
(* keeps it from storing a decision.                                       *)
(***************************************************************************)

\* Where the handler is once SaveRaw is behind it.
PastRaw == {"seen", "process", "persist"}

Stored(l) == pc[l] \in PastRaw /\ Ctx(l) => Ev(l) \in mongo

RawInv ==
    ~MayFail("mongo") =>
        /\ \A l \in Loops : Stored(l)
        /\ \A e \in Events : rows[e]["completed"] > 0 => e \in mongo

LEMMA InitRaw == Init => RawInv
  BY DEF Init, PlatformInit, WorkerInit, RawInv, Stored, PastRaw, Statuses

(* A loop that stays where it is, under a ctx that is not revived, keeps   *)
(* its event and the document of it.                                       *)
LEMMA StoredFrame ==
    ASSUME TypeInv, [Next]_vars, mongo \subseteq mongo', NEW k \in Loops, Stored(k),
           \/ pc'[k] \notin PastRaw
           \/ /\ pc[k] \in PastRaw /\ off'[k] = off[k]
              /\ Ctx(k)' => Ctx(k)
    PROVE  Stored(k)'
  <1>1. CASE pc'[k] \notin PastRaw
    BY <1>1 DEF Stored
  <1>2. CASE pc[k] \in PastRaw /\ off'[k] = off[k] /\ (Ctx(k)' => Ctx(k))
    <2>1. TypeOK /\ k[2] \in Topics /\ off[k] \in 1..Len(log[k[2]])
      BY <1>2, LoopParts DEF TypeInv, InHand, Busy, PastRaw
    <2>2. log'[k[2]][off[k]] = log[k[2]][off[k]]
      BY <2>1, LogGrows, AppendKeeps
    <2>3. Ev(k)' = Ev(k)
      BY <1>2, <2>2 DEF Ev, Rec
    <2> QED
      BY <1>2, <2>3 DEF Stored
  <1> QED
    BY <1>1, <1>2

(* A step in which no loop gets past SaveRaw and no row is completed. *)
LEMMA QuietRaw ==
    ASSUME TypeInv, TypeInv', [Next]_vars, RawInv, mongo \subseteq mongo',
           \A e \in Events : rows'[e]["completed"] = rows[e]["completed"],
           \A k \in Loops :
              \/ pc'[k] \notin PastRaw
              \/ /\ pc[k] \in PastRaw /\ off'[k] = off[k]
                 /\ Ctx(k)' => Ctx(k)
    PROVE  RawInv'
  <1>1. SUFFICES ASSUME ~MayFail("mongo")
                 PROVE  /\ \A k \in Loops : Stored(k)'
                        /\ \A e \in Events : rows'[e]["completed"] > 0 => e \in mongo'
    BY DEF RawInv, MayFail
  <1>2. /\ \A k \in Loops : Stored(k)
        /\ \A e \in Events : rows[e]["completed"] > 0 => e \in mongo
    BY <1>1 DEF RawInv
  <1> QED
    BY <1>2, StoredFrame

(* Each step of a loop. *)
LEMMA LoopRaw ==
    ASSUME TypeInv, TypeInv', [Next]_vars, RawInv, NEW l \in Loops, LoopStep(l)
    PROVE  RawInv'
  <1>a. /\ UNCHANGED log
        /\ \A k \in Loops \ {l} : pc'[k] = pc[k] /\ off'[k] = off[k]
    BY LoopFrame
  <1>b. /\ pc \in [Loops -> PcValues] /\ rows \in [Events -> [Statuses -> Nat]]
    BY DEF TypeInv, TypeOK, PlatformTypeOK, WorkerTypeOK
  <1>c. UNCHANGED stage
    BY DEF LoopStep, ConsumerRead, DLQRead, Fetch, PollTimeout, Backoff, BackoffCancelled,
       SaveRaw, CheckSeen, Process, Persist, Requeue, GiveUp, Commit, ctlVars
  <1>d. \A k \in Loops : Ctx(k)' <=> Ctx(k)
    BY <1>c DEF Ctx
  <1>1. CASE /\ UNCHANGED mongo
             /\ \A e \in Events : rows'[e]["completed"] = rows[e]["completed"]
             /\ \/ pc'[l] \notin PastRaw
                \/ pc[l] \in PastRaw /\ off'[l] = off[l]
    <2>1. \A k \in Loops : \/ pc'[k] \notin PastRaw
                           \/ /\ pc[k] \in PastRaw /\ off'[k] = off[k]
                              /\ Ctx(k)' => Ctx(k)
      BY <1>1, <1>a, <1>d
    <2> QED
      BY <1>1, <2>1, QuietRaw
  <1>2. CASE \/ ConsumerRead(l) \/ DLQRead(l) \/ PollTimeout(l) \/ Backoff(l)
             \/ BackoffCancelled(l) \/ Requeue(l) \/ Commit(l)
    <2>1. pc'[l] \notin PastRaw
      BY <1>2, <1>b DEF ConsumerRead, DLQRead, Parse, Goto, PollTimeout, LoopHead, Backoff,
         BackoffCancelled, Requeue, Commit, PastRaw
    <2>2. UNCHANGED <<mongo, rows>>
      BY <1>2 DEF ConsumerRead, DLQRead, Fetch, PollTimeout, Backoff, BackoffCancelled,
         Requeue, Commit, storeVars
    <2> QED
      BY <1>1, <2>1, <2>2
  <1>3. CASE SaveRaw(l)
    <2>1. SUFFICES ASSUME ~MayFail("mongo")
                   PROVE  /\ \A k \in Loops : Stored(k)'
                          /\ \A e \in Events : rows'[e]["completed"] > 0 => e \in mongo'
      BY DEF RawInv, MayFail
    <2>2. /\ \A k \in Loops : Stored(k)
          /\ \A e \in Events : rows[e]["completed"] > 0 => e \in mongo
      BY <2>1 DEF RawInv
    <2>3. mongo \subseteq mongo' /\ UNCHANGED <<rows, off>>
      BY <1>3 DEF SaveRaw
    <2>4. \A k \in Loops \ {l} : Stored(k)'
      BY <1>a, <1>d, <2>2, <2>3, StoredFrame DEF Stored
    <2>5. Stored(l)'
      <3>1. Ev(l)' = Ev(l)
        BY <1>a, <2>3 DEF Ev, Rec
      <3> QED
        BY <1>3, <1>d, <2>1, <3>1 DEF SaveRaw, Stored, MayFail
    <2> QED
      BY <2>2, <2>3, <2>4, <2>5
  <1>4. CASE CheckSeen(l) \/ Process(l)
    <2>1. pc[l] \in PastRaw /\ UNCHANGED <<mongo, rows, off>>
      BY <1>4 DEF CheckSeen, Process, PastRaw, storeVars
    <2> QED
      BY <1>1, <2>1
  <1>5. CASE GiveUp(l)
    <2>1. pc'[l] \notin PastRaw /\ UNCHANGED mongo
      BY <1>5, <1>b DEF GiveUp, Goto, PastRaw
    <2>2. UNCHANGED rows \/ rows' = [rows EXCEPT ![Ev(l)]["permanently_failed"] = @ + 1]
      BY <1>5 DEF GiveUp, SaveDecision
    <2>3. \A e \in Events : rows'[e]["completed"] = rows[e]["completed"]
      BY <1>b, <2>2 DEF Statuses
    <2> QED
      BY <1>1, <2>1, <2>3
  <1>6. CASE Persist(l)
    <2>1. pc[l] = "persist" /\ pc'[l] \notin PastRaw /\ UNCHANGED <<mongo, off>>
      BY <1>6, <1>b DEF Persist, Goto, PastRaw
    <2>2. CASE UNCHANGED rows
      BY <1>1, <2>1, <2>2
    <2>3. CASE Ctx(l) /\ rows' = [rows EXCEPT ![Ev(l)][StatusOf(verdict[l])] = @ + 1]
      <3>1. SUFFICES ASSUME ~MayFail("mongo")
                     PROVE  /\ \A k \in Loops : Stored(k)'
                            /\ \A e \in Events : rows'[e]["completed"] > 0 => e \in mongo'
        BY DEF RawInv, MayFail
      <3>2. /\ \A k \in Loops : Stored(k)
            /\ \A e \in Events : rows[e]["completed"] > 0 => e \in mongo
        BY <3>1 DEF RawInv
      <3>3. Ev(l) \in mongo
        BY <2>1, <2>3, <3>2 DEF Stored, PastRaw
      <3>4. \A e \in Events \ {Ev(l)} : rows'[e] = rows[e]
        BY <1>b, <2>3
      <3>5. \A k \in Loops : Stored(k)'
        <4>1. \A k \in Loops \ {l} : Stored(k)'
          BY <1>a, <1>d, <2>1, <3>2, StoredFrame DEF Stored
        <4> QED
          BY <2>1, <4>1 DEF Stored
      <3> QED
        BY <2>1, <3>2, <3>3, <3>4, <3>5
    <2> QED
      BY <1>6, <2>2, <2>3 DEF Persist, SaveDecision
  <1> QED
    BY <1>2, <1>3, <1>4, <1>5, <1>6 DEF LoopStep

(* Everything that is not a step of a loop leaves a loop where it is, with *)
(* its ctx or less, or puts it outside the handler; the decisions and the  *)
(* documents stay, and a key goes only when it expires.                    *)
LEMMA WorldKeeps ==
    ASSUME TypeInv, [Next]_vars, ~\E l \in Loops : LoopStep(l)
    PROVE  /\ UNCHANGED <<rows, mongo>>
           /\ "expire" \notin Flaky => UNCHANGED seen
           /\ \A k \in Loops :
                 \/ pc'[k] \in {"poll", "exited"}
                 \/ /\ pc'[k] = pc[k] /\ off'[k] = off[k]
                    /\ Ctx(k)' => Ctx(k)
  <1> DEFINE Kept == /\ UNCHANGED <<rows, mongo>>
                     /\ "expire" \notin Flaky => UNCHANGED seen
                     /\ \A k \in Loops :
                           \/ pc'[k] \in {"poll", "exited"}
                           \/ /\ pc'[k] = pc[k] /\ off'[k] = off[k]
                              /\ Ctx(k)' => Ctx(k)
  <1>a. stage \in [Workers -> 0..Stopped]
    BY DEF TypeInv, TypeOK, WorkerTypeOK
  <1>2. CASE UNCHANGED <<rows, mongo, seen, pc, off, stage>>
    BY <1>2 DEF Ctx
  <1>3. ASSUME NEW l \in Loops, ProducerStep(l)
        PROVE  Kept
    BY <1>2, <1>3 DEF ProducerStep, Deliver, DeliverTwice, DeliveryFails, ctlVars, storeVars
  <1>4. ASSUME NEW t \in Topics, NEW w \in Workers, Assign(t, w) \/ Rebalance(t, w)
        PROVE  Kept
    BY <1>2, <1>4 DEF Assign, Rebalance, storeVars, workerVars, ctlVars
  <1>5. ASSUME NEW e \in Events, Expire(e)
        PROVE  Kept
    BY <1>5 DEF Expire, Fault, ctlVars, Ctx
  <1>6. ASSUME NEW w \in Workers, Die(w)
        PROVE  Kept
    <2>1. \A k \in Loops : \/ pc'[k] = "exited"
                           \/ /\ pc'[k] = pc[k] /\ off'[k] = off[k]
                              /\ k[1] # w
      BY <1>6, LoopParts DEF Die
    <2>2. \A k \in Loops : k[1] # w => (Ctx(k)' => Ctx(k))
      BY <1>6, <1>a, LoopParts DEF Die, Ctx
    <2> QED
      BY <1>6, <2>1, <2>2 DEF Die, storeVars
  <1>7. ASSUME NEW w \in Workers, NEW s \in 1..Stopped, stage' = [stage EXCEPT ![w] = s],
               UNCHANGED <<rows, mongo, seen, pc, off>>
        PROVE  Kept
    <2>1. \A k \in Loops : Ctx(k)' => Ctx(k)
      BY <1>7, <1>a, LoopParts DEF Ctx, Running, Stopped
    <2> QED
      BY <1>7, <2>1
  <1>8. ASSUME NEW w \in Workers, Sigterm(w) \/ ShutdownStep(w) \/ Crash(w)
        PROVE  Kept
    <2>1. CASE Exit(w) \/ Crash(w)
      BY <2>1, <1>6 DEF Exit, Crash
    <2>2. CASE Sigterm(w)
      <3>1. Cancelled \in 1..Stopped
        BY DEF Cancelled, Stopped
      <3>2. /\ stage' = [stage EXCEPT ![w] = Cancelled]
            /\ UNCHANGED <<rows, mongo, seen, pc, off>>
        BY <2>2 DEF Sigterm, storeVars
      <3> QED
        BY <3>1, <3>2, <1>7
    <2>3. ASSUME NEW t \in Topics,
                 FlushProducer(w, t) \/ CloseProducer(w, t) \/ CloseConsumer(w, t)
          PROVE  Kept
      BY <2>3, <1>7 DEF FlushProducer, CloseProducer, CloseConsumer, storeVars, Flushed,
         ProducerClosed, ConsumerClosed, Closing, Cancelled, Stopped
    <2> QED
      BY <1>8, <2>1, <2>2, <2>3 DEF ShutdownStep
  <1>9. ASSUME NEW w \in Workers, Restart(w)
        PROVE  Kept
    <2>1. \A k \in Loops : IF k[1] = w THEN pc'[k] = "poll" ELSE pc'[k] = pc[k]
      BY <1>9 DEF Restart
    <2>2. \A k \in Loops : k[1] # w => (Ctx(k)' => Ctx(k))
      BY <1>9, <1>a, LoopParts DEF Restart, Ctx
    <2> QED
      BY <1>9, <2>1, <2>2 DEF Restart, storeVars
  <1>10. CASE IngestNext /\ UNCHANGED <<workerVars, lapse>>
    BY <1>2, <1>10, IngestParts DEF workerVars, ctlVars
  <1>11. CASE ServiceNext /\ UNCHANGED <<workerVars, lapse, ingestVars>>
    BY <1>2, <1>11 DEF ServiceNext, ForeignRecord, workerVars, ctlVars, storeVars
  <1>12. CASE UNCHANGED vars
    BY <1>2, <1>12 DEF vars, workerVars, ctlVars, storeVars
  <1>13. Kept
    BY <1>3, <1>4, <1>5, <1>8, <1>9, <1>10, <1>11, <1>12 DEF Next, WorkerNext
  <1> QED
    BY <1>13

(* Each step of everything else. *)
LEMMA WorldRaw ==
    ASSUME TypeInv, TypeInv', [Next]_vars, RawInv, ~\E l \in Loops : LoopStep(l)
    PROVE  RawInv'
  <1>1. "poll" \notin PastRaw /\ "exited" \notin PastRaw
    BY DEF PastRaw
  <1> QED
    BY <1>1, WorldKeeps, QuietRaw

(***************************************************************************)
(* "raw document to Mongo regardless of processing outcome" (main.go):     *)
(* while Mongo answers, an event whose decision says completed has its raw *)
(* document, whatever shutdowns and crashes the handler ran across.        *)
(***************************************************************************)
THEOREM CompletedHaveRaw == Spec => []RawKept
  <1>1. Init => TypeInv /\ RawInv
    BY InitTypeInv, InitRaw
  <1>2. (TypeInv /\ RawInv) /\ [Next]_vars => (TypeInv /\ RawInv)'
    <2> SUFFICES ASSUME TypeInv, RawInv, [Next]_vars PROVE TypeInv' /\ RawInv'
      OBVIOUS
    <2>1. TypeInv'
      BY NextTypeInv
    <2> QED
      BY <2>1, LoopRaw, WorldRaw
  <1>3. RawInv => RawKept
    BY DEF RawInv, RawKept
  <1> QED
    BY <1>1, <1>2, <1>3, PTL DEF Spec

-----------------------------------------------------------------------------
(***************************************************************************)
(* Completed once.  With Redis reliable, a handler under a live ctx is the *)
(* only one that has passed the check for its event, and no decision says  *)
(* completed yet.  The handlers that passed it because SIGTERM had         *)
(* cancelled their ctx cannot store what they decide.                      *)
(***************************************************************************)
KeyLasts == ~MayFail("redis") /\ "expire" \notin Flaky

Attempting(l) == pc[l] \in {"process", "persist"} /\ Ctx(l)

HoldsKey(l) == Attempting(l) => Ev(l) \in seen /\ rows[Ev(l)]["completed"] = 0

Alone(l, k) == Attempting(l) /\ Attempting(k) /\ Ev(l) = Ev(k) => l = k

RowHasKey(e) == rows[e]["completed"] > 0 => e \in seen /\ rows[e]["completed"] = 1

OnceInv ==
    KeyLasts =>
        /\ \A l \in Loops : HoldsKey(l) /\ \A k \in Loops : Alone(l, k)
        /\ \A e \in Events : RowHasKey(e)

LEMMA InitOnce == Init => OnceInv
  BY DEF Init, PlatformInit, WorkerInit, OnceInv, HoldsKey, Alone, RowHasKey, Attempting, Statuses

(* A loop that enters neither the agent nor a live ctx attempts nothing    *)
(* new.                                                                    *)
LEMMA AttemptFrame ==
    ASSUME TypeInv, [Next]_vars, NEW k \in Loops,
           \/ pc'[k] \notin {"process", "persist"}
           \/ ~Ctx(k)'
           \/ /\ pc[k] \in {"process", "persist"} /\ off'[k] = off[k]
              /\ Ctx(k)' => Ctx(k)
    PROVE  Attempting(k)' => Attempting(k) /\ Ev(k)' = Ev(k) /\ Ev(k) \in Events
  <1> SUFFICES ASSUME Attempting(k)'
               PROVE  Attempting(k) /\ Ev(k)' = Ev(k) /\ Ev(k) \in Events
    OBVIOUS
  <1>1. pc[k] \in {"process", "persist"} /\ off'[k] = off[k] /\ Ctx(k)
    BY DEF Attempting
  <1>2. /\ TypeOK /\ k[2] \in Topics /\ off[k] \in 1..Len(log[k[2]])
        /\ Ev(k) \in Events
    BY <1>1, LoopParts DEF TypeInv, InHand, Busy, Handling
  <1>3. log'[k[2]][off[k]] = log[k[2]][off[k]]
    BY <1>2, LogGrows, AppendKeeps
  <1> QED
    BY <1>1, <1>2, <1>3 DEF Attempting, Ev, Rec

(* A step in which no attempt starts, no key goes and no row is completed. *)
LEMMA QuietOnce ==
    ASSUME TypeInv, [Next]_vars, OnceInv, KeyLasts => seen \subseteq seen',
           \A e \in Events : rows'[e]["completed"] = rows[e]["completed"],
           \A k \in Loops : Attempting(k)' => Attempting(k) /\ Ev(k)' = Ev(k) /\ Ev(k) \in Events
    PROVE  OnceInv'
  <1>1. SUFFICES ASSUME KeyLasts
                 PROVE  /\ \A l \in Loops : HoldsKey(l)' /\ \A k \in Loops : Alone(l, k)'
                        /\ \A e \in Events : RowHasKey(e)'
    BY DEF OnceInv, KeyLasts, MayFail
  <1>2. /\ \A l \in Loops : HoldsKey(l) /\ \A k \in Loops : Alone(l, k)
        /\ \A e \in Events : RowHasKey(e)
    BY <1>1 DEF OnceInv
  <1>3. ASSUME NEW l \in Loops
        PROVE  HoldsKey(l)'
    BY <1>1, <1>2 DEF HoldsKey
  <1>4. ASSUME NEW l \in Loops, NEW k \in Loops
        PROVE  Alone(l, k)'
    BY <1>2 DEF Alone
  <1>5. ASSUME NEW e \in Events
        PROVE  RowHasKey(e)'
    BY <1>1, <1>2 DEF RowHasKey
  <1> QED
    BY <1>3, <1>4, <1>5

(* SET NX lets one handler through; the others it stops, or they have no   *)
(* ctx left.                                                               *)
LEMMA CheckSeenOnce ==
    ASSUME TypeInv, TypeInv', [Next]_vars, OnceInv, NEW l \in Loops, CheckSeen(l)
    PROVE  OnceInv'
  <1>a. \A k \in Loops \ {l} : pc'[k] = pc[k] /\ off'[k] = off[k]
    BY LoopFrame DEF LoopStep
  <1>b. /\ pc[l] = "seen" /\ UNCHANGED <<off, rows, stage>> /\ Ev(l) \in Events
    BY DEF CheckSeen, TypeInv, InHand, Handling
  <1>c. pc \in [Loops -> PcValues] /\ rows \in [Events -> [Statuses -> Nat]]
    BY DEF TypeInv, TypeOK, WorkerTypeOK, PlatformTypeOK
  <1>d. ASSUME NEW k \in Loops \ {l}
        PROVE  Attempting(k)' => Attempting(k) /\ Ev(k)' = Ev(k) /\ Ev(k) \in Events
    BY <1>a, <1>b, AttemptFrame DEF Ctx, Attempting
  <1>e. seen \subseteq seen'
    BY DEF CheckSeen, SeenFirst, SeenDuplicate, SeenResent, SeenError
  <1>1. CASE ~Attempting(l)'
    BY <1>1, <1>b, <1>d, <1>e, QuietOnce
  <1>2. CASE Attempting(l)' /\ KeyLasts
    <2>1. pc'[l] # "commit" /\ Ctx(l)
      BY <1>2, <1>b DEF Attempting, Ctx
    <2>2. SeenFirst(l)
      BY <1>2, <1>c, <2>1 DEF CheckSeen, SeenDuplicate, SeenResent, SeenError, Goto, KeyLasts
    <2>3. Ev(l) \notin seen /\ seen' = seen \cup {Ev(l)} /\ Ev(l)' = Ev(l)
      <3>1. UNCHANGED log
        BY DEF CheckSeen, kafkaVars
      <3> QED
        BY <1>b, <2>2, <3>1 DEF SeenFirst, Ev, Rec
    <2>4. /\ \A k \in Loops : HoldsKey(k) /\ \A m \in Loops : Alone(k, m)
          /\ \A e \in Events : RowHasKey(e)
      BY <1>2 DEF OnceInv
    <2>5. rows[Ev(l)]["completed"] = 0
      BY <1>b, <1>c, <2>3, <2>4 DEF RowHasKey, Statuses
    <2>6. \A k \in Loops : HoldsKey(k)'
      BY <1>b, <1>d, <1>e, <2>3, <2>4, <2>5 DEF HoldsKey
    <2>7. \A k \in Loops \ {l} : Attempting(k)' => Ev(k)' # Ev(l)
      BY <1>d, <2>3, <2>4 DEF HoldsKey
    <2>8. ASSUME NEW k \in Loops, NEW m \in Loops
          PROVE  Alone(k, m)'
      BY <1>d, <2>3, <2>4, <2>7 DEF Alone
    <2>9. \A e \in Events : RowHasKey(e)'
      BY <1>b, <1>e, <2>4 DEF RowHasKey
    <2> QED
      BY <2>6, <2>8, <2>9 DEF OnceInv
  <1>3. CASE ~KeyLasts
    BY <1>3 DEF OnceInv, KeyLasts, MayFail
  <1> QED
    BY <1>1, <1>2, <1>3

(* The one attempt under a live ctx adds the one row. *)
LEMMA PersistOnce ==
    ASSUME TypeInv, TypeInv', [Next]_vars, OnceInv, NEW l \in Loops, Persist(l)
    PROVE  OnceInv'
  <1>a. \A k \in Loops \ {l} : pc'[k] = pc[k] /\ off'[k] = off[k]
    BY LoopFrame DEF LoopStep
  <1>b. /\ pc[l] = "persist" /\ UNCHANGED <<off, seen, stage>> /\ Ev(l) \in Events
    BY DEF Persist, TypeInv, InHand, Handling
  <1>c. pc \in [Loops -> PcValues] /\ rows \in [Events -> [Statuses -> Nat]]
    BY DEF TypeInv, TypeOK, WorkerTypeOK, PlatformTypeOK
  <1>d. \A k \in Loops : Ctx(k)' <=> Ctx(k)
    BY <1>b DEF Ctx
  <1>e. ~Attempting(l)'
    BY <1>c DEF Persist, Goto, Attempting
  <1>f. ASSUME NEW k \in Loops
        PROVE  Attempting(k)' => Attempting(k) /\ Ev(k)' = Ev(k) /\ Ev(k) \in Events /\ k # l
    BY <1>a, <1>b, <1>d, <1>e, AttemptFrame DEF Attempting
  <1>1. CASE \A e \in Events : rows'[e]["completed"] = rows[e]["completed"]
    BY <1>1, <1>b, <1>f, QuietOnce
  <1>2. CASE Ctx(l) /\ rows' = [rows EXCEPT ![Ev(l)]["completed"] = @ + 1] /\ KeyLasts
    <2>1. /\ \A k \in Loops : HoldsKey(k) /\ \A m \in Loops : Alone(k, m)
          /\ \A e \in Events : RowHasKey(e)
      BY <1>2 DEF OnceInv
    <2>2. /\ Attempting(l) /\ Ev(l) \in seen /\ rows[Ev(l)]["completed"] = 0
      BY <1>2, <1>b, <2>1 DEF Attempting, HoldsKey
    <2>3. /\ rows'[Ev(l)]["completed"] = 1
          /\ \A e \in Events \ {Ev(l)} : rows'[e] = rows[e]
      BY <1>2, <1>b, <1>c, <2>2 DEF Statuses
    <2>4. ASSUME NEW k \in Loops
          PROVE  HoldsKey(k)'
      BY <1>b, <1>f, <2>1, <2>2, <2>3 DEF HoldsKey, Alone
    <2>5. ASSUME NEW k \in Loops, NEW m \in Loops
          PROVE  Alone(k, m)'
      BY <1>f, <2>1 DEF Alone
    <2>6. ASSUME NEW e \in Events
          PROVE  RowHasKey(e)'
      BY <1>b, <2>1, <2>2, <2>3 DEF RowHasKey
    <2> QED
      BY <2>4, <2>5, <2>6 DEF OnceInv
  <1>3. CASE ~KeyLasts
    BY <1>3 DEF OnceInv, KeyLasts, MayFail
  <1>4. \/ UNCHANGED rows
        \/ Ctx(l) /\ rows' = [rows EXCEPT ![Ev(l)][StatusOf(verdict[l])] = @ + 1]
    BY DEF Persist, SaveDecision
  <1>5. CASE Ctx(l) /\ rows' = [rows EXCEPT ![Ev(l)][StatusOf(verdict[l])] = @ + 1]
              /\ StatusOf(verdict[l]) # "completed"
    <2>1. \A e \in Events : rows'[e]["completed"] = rows[e]["completed"]
      BY <1>5, <1>c DEF Statuses
    <2> QED
      BY <1>1, <2>1
  <1> QED
    BY <1>1, <1>2, <1>3, <1>4, <1>5

(* Each step of a loop. *)
LEMMA LoopOnce ==
    ASSUME TypeInv, TypeInv', [Next]_vars, OnceInv, NEW l \in Loops, LoopStep(l)
    PROVE  OnceInv'
  <1>a. \A k \in Loops \ {l} : pc'[k] = pc[k] /\ off'[k] = off[k]
    BY LoopFrame
  <1>b. /\ pc \in [Loops -> PcValues] /\ rows \in [Events -> [Statuses -> Nat]]
    BY DEF TypeInv, TypeOK, PlatformTypeOK, WorkerTypeOK
  <1>1. CASE /\ UNCHANGED <<seen, stage>>
             /\ \A e \in Events : rows'[e]["completed"] = rows[e]["completed"]
             /\ \/ pc'[l] \notin {"process", "persist"}
                \/ pc[l] \in {"process", "persist"} /\ off'[l] = off[l]
    <2>1. \A k \in Loops : Ctx(k)' <=> Ctx(k)
      BY <1>1 DEF Ctx
    <2>2. ASSUME NEW k \in Loops
          PROVE  Attempting(k)' => Attempting(k) /\ Ev(k)' = Ev(k) /\ Ev(k) \in Events
      BY <1>1, <1>a, <2>1, AttemptFrame DEF Attempting
    <2> QED
      BY <1>1, <2>2, QuietOnce
  <1>2. CASE \/ ConsumerRead(l) \/ DLQRead(l) \/ PollTimeout(l) \/ Backoff(l)
             \/ BackoffCancelled(l) \/ SaveRaw(l) \/ Requeue(l) \/ Commit(l)
    <2>1. pc'[l] \notin {"process", "persist"}
      BY <1>2, <1>b DEF ConsumerRead, DLQRead, Parse, Goto, PollTimeout, LoopHead, Backoff,
         BackoffCancelled, SaveRaw, Requeue, Commit
    <2>2. UNCHANGED <<seen, rows, stage>>
      BY <1>2 DEF ConsumerRead, DLQRead, Fetch, PollTimeout, Backoff, BackoffCancelled,
         SaveRaw, Requeue, Commit, storeVars, ctlVars
    <2> QED
      BY <1>1, <2>1, <2>2
  <1>3. CASE Process(l)
    <2>1. pc[l] = "process" /\ UNCHANGED <<seen, rows, off, stage>>
      BY <1>3 DEF Process, storeVars
    <2> QED
      BY <1>1, <2>1
  <1>4. CASE GiveUp(l)
    <2>1. pc'[l] \notin {"process", "persist"} /\ UNCHANGED <<seen, stage>>
      BY <1>4, <1>b DEF GiveUp, Goto
    <2>2. UNCHANGED rows \/ rows' = [rows EXCEPT ![Ev(l)]["permanently_failed"] = @ + 1]
      BY <1>4 DEF GiveUp, SaveDecision
    <2>3. \A e \in Events : rows'[e]["completed"] = rows[e]["completed"]
      BY <1>b, <2>2 DEF Statuses
    <2> QED
      BY <1>1, <2>1, <2>3
  <1> QED
    BY <1>2, <1>3, <1>4, CheckSeenOnce, PersistOnce DEF LoopStep

(* Each step of everything else. *)
LEMMA WorldOnce ==
    ASSUME TypeInv, [Next]_vars, OnceInv, ~\E l \in Loops : LoopStep(l)
    PROVE  OnceInv'
  <1>1. ASSUME NEW k \in Loops
        PROVE  Attempting(k)' => Attempting(k) /\ Ev(k)' = Ev(k) /\ Ev(k) \in Events
    BY WorldKeeps, AttemptFrame DEF Attempting
  <1> QED
    BY <1>1, WorldKeeps, QuietOnce DEF KeyLasts

(***************************************************************************)
(* While Redis answers and no key expires, an event is recorded completed  *)
(* at most once, for any number of replicas, redeliveries, duplicates,     *)
(* crashes and shutdowns: the handler that SIGTERM lets past the check is  *)
(* kept from its decision row by the same cancelled ctx.                   *)
(***************************************************************************)
THEOREM NoSecondCompletion == Spec => []CompletedOnce
  <1>1. Init => TypeInv /\ OnceInv
    BY InitTypeInv, InitOnce
  <1>2. (TypeInv /\ OnceInv) /\ [Next]_vars => (TypeInv /\ OnceInv)'
    <2> SUFFICES ASSUME TypeInv, OnceInv, [Next]_vars PROVE TypeInv' /\ OnceInv'
      OBVIOUS
    <2>1. TypeInv'
      BY NextTypeInv
    <2> QED
      BY <2>1, LoopOnce, WorldOnce
  <1>3. TypeInv /\ OnceInv => CompletedOnce
    <2> SUFFICES ASSUME TypeInv, OnceInv, KeyLasts, NEW e \in Events
                 PROVE  rows[e]["completed"] <= 1
      BY DEF CompletedOnce, KeyLasts
    <2>1. rows[e]["completed"] \in Nat
      BY DEF TypeInv, TypeOK, PlatformTypeOK, Statuses
    <2> QED
      BY <2>1 DEF OnceInv, RowHasKey
  <1> QED
    BY <1>1, <1>2, <1>3, PTL DEF Spec
=============================================================================
