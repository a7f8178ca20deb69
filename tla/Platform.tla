------------------------------ MODULE Platform ------------------------------
(***************************************************************************)
(* The services EventMind runs on and the state its processes share        *)
(* through them: the two Kafka topics with their consumer groups, the      *)
(* Redis idempotency keys, the Postgres tables and the Mongo collection.   *)
(* None of this is code of the repository; it is modelled from the way     *)
(* internal/messaging, internal/cache and internal/storage use it.         *)
(***************************************************************************)
EXTENDS Naturals, Sequences

CONSTANTS
    Workers,     \* the worker processes (replicas of cmd/worker)
    Events,      \* the events, named by their UUID
    Garbage,     \* a message value that json.Unmarshal rejects
    NoWorker,    \* "this partition is assigned to nobody"
    Flaky,       \* the services and faults that may fail in this instance
    Down,        \* the services whose calls always fail in this instance
    MaxFaults    \* how many of the counted faults may happen

ASSUME PlatformAssumption ==
    /\ Garbage \notin Events
    /\ NoWorker \notin Workers
    /\ MaxFaults \in Nat

VARIABLES
    log,        \* topic -> the records of its partition, in offset order
    committed,  \* topic -> number of records committed by the topic's group
    owner,      \* topic -> the worker its partition is assigned to
    pos,        \* topic -> number of records the owner has fetched
    seen,       \* Redis: events whose key em:seen:<id> exists
    pgEvents,   \* Postgres: ids in the events table
    rows,       \* Postgres: event -> status -> rows of the decisions table
    mongo,      \* Mongo: ids in the events collection
    faults      \* counted faults so far

kafkaVars == <<log, committed, owner, pos>>
storeVars == <<seen, pgEvents, rows, mongo>>

Topics == {"events", "dlq"}

\* Decision.Status: what the decisions table may say about an event.
Statuses == {"completed", "failed", "permanently_failed"}

(***************************************************************************)
(* A record is the message value and the retry-count header, which         *)
(* headerInt reads as 0 when it is missing.                                *)
(***************************************************************************)
Record == [payload : Events \cup {Garbage}, rc : Nat]

\* The records EventMind itself writes.
EventRecords == [payload : Events, rc : Nat]

PlatformTypeOK ==
    /\ log \in [Topics -> Seq(Record)]
    /\ committed \in [Topics -> Nat]
    /\ owner \in [Topics -> Workers \cup {NoWorker}]
    /\ pos \in [Topics -> Nat]
    /\ seen \in SUBSET Events
    /\ pgEvents \in SUBSET Events
    /\ rows \in [Events -> [Statuses -> Nat]]
    /\ mongo \in SUBSET Events
    /\ faults \in Nat

PlatformInit ==
    /\ log = [t \in Topics |-> <<>>]
    /\ committed = [t \in Topics |-> 0]
    /\ owner = [t \in Topics |-> NoWorker]
    /\ pos = [t \in Topics |-> 0]
    /\ seen = {}
    /\ pgEvents = {}
    /\ rows = [e \in Events |-> [s \in Statuses |-> 0]]
    /\ mongo = {}
    /\ faults = 0

-----------------------------------------------------------------------------
\* Calls: a service answers unless it is down, and may fail when it is flaky.
Answers(s) == s \notin Down
MayFail(s) == s \in Flaky \cup Down

\* One counted fault of kind k happens.
Fault(k) ==
    /\ k \in Flaky
    /\ faults < MaxFaults
    /\ faults' = faults + 1

\* The broker appends record r to topic t.
AppendTo(t, r) == log' = [log EXCEPT ![t] = Append(@, r)]

\* A decision was recorded for event e, whatever it says.
Decided(e) == \E s \in Statuses : rows[e][s] > 0

(***************************************************************************)
(* Environment steps of the services themselves.                           *)
(***************************************************************************)

\* A producer that is not EventMind writes a value that is not an event.
ForeignRecord(t) ==
    /\ Fault("foreign")
    /\ AppendTo(t, [payload |-> Garbage, rc |-> 0])
    /\ UNCHANGED <<committed, owner, pos, storeVars>>

=============================================================================
