------------------------------ MODULE Startup ------------------------------
(***************************************************************************)
(* The start of cmd/api and cmd/worker: every replica connects to          *)
(* Postgres, migrates the schema in the one implicit transaction of        *)
(* storage.New's Exec, then connects to Mongo, Redis and Kafka, and        *)
(* serves.  Any failure on the way is log.Fatal: the process exits and the *)
(* deployment starts it again.                                             *)
(*                                                                         *)
(* Postgres is modelled as far as the migration needs it: the advisory     *)
(* lock ends with its transaction; CREATE ... IF NOT EXISTS looks for the  *)
(* relation first and creates it after, waits for another transaction that *)
(* is creating it, and fails when that one commits.                        *)
(***************************************************************************)
EXTENDS Naturals, Sequences

CONSTANTS
    Procs,      \* the replicas of cmd/api and cmd/worker
    NoProc,     \* "nobody holds the lock"
    MaxFaults   \* how many failures may happen

ASSUME StartupAssumption == NoProc \notin Procs /\ MaxFaults \in Nat

VARIABLES
    pc,       \* process -> where it is in main
    stmt,     \* process -> the statement of the schema it executes
    made,     \* process -> relations its open transaction has created
    lock,     \* holder of pg_advisory_xact_lock(1234567890)
    schema,   \* committed relations
    faults    \* failures so far

vars == <<pc, stmt, made, lock, schema, faults>>

\* The statements of const schema, each named for what it creates.
Statements == <<"events", "decisions", "idx_event_type", "idx_processed_at">>
Relations == {Statements[k] : k \in 1..4}

Stages == {"down", "postgres", "lock", "check", "create", "commit",
           "mongo", "redis", "kafka", "serving"}
Migrating == {"check", "create", "commit"}
Migrated == {"mongo", "redis", "kafka", "serving"}

TypeOK ==
    /\ pc \in [Procs -> Stages]
    /\ stmt \in [Procs -> 1..5]
    /\ \A p \in Procs : pc[p] \in {"check", "create"} => stmt[p] \in 1..4
    /\ made \in [Procs -> SUBSET Relations]
    /\ lock \in Procs \cup {NoProc}
    /\ schema \in SUBSET Relations
    /\ faults \in Nat

Init ==
    /\ pc = [p \in Procs |-> "down"]
    /\ stmt = [p \in Procs |-> 1]
    /\ made = [p \in Procs |-> {}]
    /\ lock = NoProc
    /\ schema \in {{}, Relations}
    /\ faults = 0

-----------------------------------------------------------------------------
Goto(p, s) == pc' = [pc EXCEPT ![p] = s]

\* Variant: the transaction ends one statement late.
AdvancePast(p) ==
    /\ stmt' = [stmt EXCEPT ![p] = @ + 1]
    /\ Goto(p, IF stmt[p] = 5 THEN "commit" ELSE "check")

\* The next statement of the transaction, or its end.
Advance(p) ==
    /\ stmt' = [stmt EXCEPT ![p] = @ + 1]
    /\ Goto(p, IF stmt[p] = 4 THEN "commit" ELSE "check")

\* Variant: a session lock that outlives the transaction.
EndKeepsLock(p) ==
    /\ made' = [made EXCEPT ![p] = {}]
    /\ stmt' = [stmt EXCEPT ![p] = 1]
    /\ UNCHANGED lock

\* The transaction of p ends, and the lock with it.
End(p) ==
    /\ made' = [made EXCEPT ![p] = {}]
    /\ stmt' = [stmt EXCEPT ![p] = 1]
    /\ lock' = IF lock = p THEN NoProc ELSE lock

\* main goes on from one stage to the next.
MoveOn(p, here, next) ==
    /\ pc[p] = here
    /\ Goto(p, next)
    /\ UNCHANGED <<stmt, made, lock, schema, faults>>

\* The deployment starts the process.
Launch(p) == MoveOn(p, "down", "postgres")

\* storage.New: ParseConfig, NewWithConfig and Ping.
DialPostgres(p) == MoveOn(p, "postgres", "lock")

\* Variant: the lock is not waited for (pg_try_advisory_xact_lock).
TryLock(p) ==
    /\ pc[p] = "lock"
    /\ lock' = IF lock = NoProc THEN p ELSE lock
    /\ Goto(p, "check")
    /\ UNCHANGED <<stmt, made, schema, faults>>

\* SELECT pg_advisory_xact_lock(1234567890).
TakeLock(p) ==
    /\ pc[p] = "lock"
    /\ lock = NoProc
    /\ lock' = p
    /\ Goto(p, "check")
    /\ UNCHANGED <<stmt, made, schema, faults>>

\* CREATE ... IF NOT EXISTS: is the relation there?
CheckExists(p) ==
    /\ pc[p] = "check"
    /\ IF Statements[stmt[p]] \in schema \cup made[p]
       THEN Advance(p)
       ELSE Goto(p, "create") /\ UNCHANGED stmt
    /\ UNCHANGED <<made, lock, schema, faults>>

\* The name of p's relation, once no other transaction is creating it.
NameFree(p) == \A q \in Procs \ {p} : Statements[stmt[p]] \notin made[q]

\* Variant: every statement is a transaction of its own.
CreateCommitted(p) ==
    /\ pc[p] = "create"
    /\ NameFree(p)
    /\ schema' = schema \cup {Statements[stmt[p]]}
    /\ Advance(p)
    /\ UNCHANGED <<made, lock, faults>>

\* It was not: create it.  A relation committed since is a unique violation,
\* which aborts the transaction; New returns the error and main is fatal.
CreateRelation(p) ==
    /\ pc[p] = "create"
    /\ NameFree(p)
    /\ IF Statements[stmt[p]] \in schema
       THEN End(p) /\ Goto(p, "down")
       ELSE /\ made' = [made EXCEPT ![p] = @ \cup {Statements[stmt[p]]}]
            /\ Advance(p)
            /\ UNCHANGED lock
    /\ UNCHANGED <<schema, faults>>

\* The implicit transaction of the multi-statement Exec commits.
CommitSchema(p) ==
    /\ pc[p] = "commit"
    /\ schema' = schema \cup made[p]
    /\ End(p)
    /\ Goto(p, "mongo")
    /\ UNCHANGED faults

\* NewMongo: Connect and Ping; an error of CreateMany is ignored.
DialMongo(p) == MoveOn(p, "mongo", "redis")

\* cache.New: Ping, whatever has become of ctx.
DialRedis(p) == MoveOn(p, "redis", "kafka")

\* NewProducer in cmd/api; NewConsumer and NewDLQWorker in cmd/worker.
DialKafka(p) == MoveOn(p, "kafka", "serving")

DialStores(p) == DialMongo(p) \/ DialRedis(p) \/ DialKafka(p)

Fault == faults < MaxFaults /\ faults' = faults + 1

(***************************************************************************)
(* A call fails (an outage, SIGTERM cancelling ctx), or the process is     *)
(* killed or told to stop: it goes, and Postgres rolls its transaction     *)
(* back.                                                                   *)
(***************************************************************************)
Fatal(p) ==
    /\ Fault
    /\ pc[p] # "down"
    /\ End(p)
    /\ Goto(p, "down")
    /\ UNCHANGED schema

\* Exec fails although the transaction was committed.
AnswerLost(p) ==
    /\ Fault
    /\ pc[p] = "commit"
    /\ schema' = schema \cup made[p]
    /\ End(p)
    /\ Goto(p, "down")

Step(p) ==
    \/ Launch(p) \/ DialPostgres(p) \/ TakeLock(p) \/ CheckExists(p)
    \/ CreateRelation(p) \/ CommitSchema(p) \/ DialStores(p)

Next == \E p \in Procs : Step(p) \/ Fatal(p) \/ AnswerLost(p)

Spec == Init /\ [][Next]_vars

\* A process that can take its next step does; failures are not fair.
FairSpec == Spec /\ \A p \in Procs : WF_vars(Step(p))

-----------------------------------------------------------------------------
(***************************************************************************)
(* "advisory lock ensures only one process runs migrations at a time"      *)
(* (storage.New): a CREATE that has found its relation missing never loses *)
(* the race for it to another replica.                                     *)
(***************************************************************************)
NoMigrationClash ==
    \A p \in Procs : pc[p] = "create" =>
        Statements[stmt[p]] \notin schema /\ NameFree(p)

\* The processes that answer requests or consume messages.
Serving == {p \in Procs : pc[p] = "serving"}

Promise == INSTANCE SchemaInstall WITH serving <- Serving

(***************************************************************************)
(* storage.New keeps its promise: however replicas race, die or lose the   *)
(* answer of their Exec, the schema appears as a whole and a process       *)
(* serves only on all of it.                                               *)
(***************************************************************************)
InstallsAtomically == Promise!Spec

(***************************************************************************)
(* No start-up is stuck (main of cmd/api and cmd/worker): once failures    *)
(* stop, every replica gets through the lock and serves.                   *)
(***************************************************************************)
EveryoneServes == \A p \in Procs : <>[](pc[p] = "serving")

=============================================================================
