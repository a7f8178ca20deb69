------------------------------- MODULE Ledger -------------------------------
(***************************************************************************)
(* What the Postgres tables promise a reader, without Kafka, Redis and     *)
(* processes: events and decisions are only ever added, one at a time, a   *)
(* decision refers to a stored event, and the agent is asked about an      *)
(* event once, and once more for every grant: an attempt fails, or         *)
(* completes, and counts against that allowance either way.                *)
(***************************************************************************)
EXTENDS Naturals

CONSTANTS
    Events,     \* the events
    MaxRetry    \* RETRY_MAX_ATTEMPTS

VARIABLES
    events,     \* ids in the events table
    rows,       \* event -> status -> rows of the decisions table
    failures,   \* event -> attempts that returned an error
    grants      \* event -> extra attempts the idempotency check let through

ledgerVars == <<events, rows, failures, grants>>

LedgerInit ==
    /\ events = {}
    /\ rows = [e \in Events |-> [s \in {"completed", "failed", "permanently_failed"} |-> 0]]
    /\ failures = [e \in Events |-> 0]
    /\ grants = [e \in Events |-> 0]

\* A client's event is stored; storing it again changes nothing.
AddEvent(e) == events' = events \cup {e} /\ UNCHANGED <<rows, failures, grants>>

\* The first attempt, and every granted one, ends at most once.
MayAttempt(e) == rows[e]["completed"] + failures[e] <= grants[e]

Fail(e) ==
    /\ MayAttempt(e)
    /\ failures' = [failures EXCEPT ![e] = @ + 1]
    /\ UNCHANGED <<events, rows, grants>>

Grant(e) ==
    grants' = [grants EXCEPT ![e] = @ + 1] /\ UNCHANGED <<events, rows, failures>>

(***************************************************************************)
(* When a decision with status s may be recorded: a completed one ends an  *)
(* attempt, a failed one reports a failure not reported before.  A         *)
(* permanently_failed one reports no attempt: it needs a spent retry       *)
(* budget, and may be repeated when the give-up is delivered again.        *)
(***************************************************************************)
Earned(e, s) ==
    \/ s = "completed" /\ MayAttempt(e)
    \/ s = "failed" /\ rows[e][s] < failures[e]
    \/ s = "permanently_failed" /\ failures[e] > MaxRetry

AddDecision(e, s) ==
    /\ e \in events
    /\ Earned(e, s)
    /\ rows' = [rows EXCEPT ![e][s] = @ + 1]
    /\ UNCHANGED <<events, failures, grants>>

LedgerNext ==
    \E e \in Events :
        \/ AddEvent(e) \/ Fail(e) \/ Grant(e)
        \/ \E s \in {"completed", "failed", "permanently_failed"} : AddDecision(e, s)

LedgerSpec == LedgerInit /\ [][LedgerNext]_ledgerVars

=============================================================================
