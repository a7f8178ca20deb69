--------------------------- MODULE StartupProofs ---------------------------
(***************************************************************************)
(* What Startup guarantees for any number of replicas and failures.  The   *)
(* invariant is that whoever is inside the migration holds the lock, that  *)
(* nobody else has an open transaction, and that the holder has got        *)
(* through the statements before the one it executes.                      *)
(***************************************************************************)
EXTENDS Startup, TLAPS

\* Only the holder of the lock is in the migration.
HolderMigrates == \A p \in Procs : pc[p] \in Migrating => lock = p

\* Only a migrating process has created something it has not committed.
OthersClean == \A p \in Procs : pc[p] \notin Migrating => made[p] = {}

\* The statements before the current one have had their effect.
StatementsDone ==
    \A p \in Procs : pc[p] \in Migrating =>
        /\ \A k \in 1..4 : k < stmt[p] => Statements[k] \in schema \cup made[p]
        /\ pc[p] = "commit" => stmt[p] = 5
        /\ pc[p] = "create" => Statements[stmt[p]] \notin schema

StatementsFromOne == \A p \in Procs : pc[p] \notin Migrating => stmt[p] = 1

SchemaWhole == schema \in {{}, Relations}

MigratedFirst == \A p \in Procs : pc[p] \in Migrated => schema = Relations

StartupInv ==
    /\ TypeOK /\ HolderMigrates /\ OthersClean /\ StatementsDone
    /\ StatementsFromOne /\ SchemaWhole /\ MigratedFirst

-----------------------------------------------------------------------------
\* A relation of the schema is what one of its statements creates.
LEMMA RelationOfStatement ==
    /\ \A k \in 1..4 : Statements[k] \in Relations
    /\ \A r \in Relations : \E k \in 1..4 : r = Statements[k]
  BY DEF Relations

\* The invariant holds at the start, on a new or a migrated database.
LEMMA StartupInvInit == Init => StartupInv
  BY DEF Init, StartupInv, TypeOK, HolderMigrates, OthersClean, StatementsDone,
         StatementsFromOne, SchemaWhole, MigratedFirst, Stages, Migrating, Migrated

\* A committed migration has installed the whole schema.
LEMMA CommitCompletes ==
  ASSUME StartupInv, NEW p \in Procs, pc[p] = "commit"
  PROVE  schema \cup made[p] = Relations
  <1>1. \A k \in 1..4 : Statements[k] \in schema \cup made[p]
    BY DEF StartupInv, TypeOK, StatementsDone, Migrating
  <1>2. schema \cup made[p] \subseteq Relations
    BY DEF StartupInv, TypeOK
  <1> QED
    BY <1>1, <1>2, RelationOfStatement

-----------------------------------------------------------------------------
(* The steps that only p's own place is changed by *)

\* Launch, DialPostgres and DialStores leave the migration alone.
LEMMA DialInv ==
  ASSUME StartupInv, NEW p \in Procs,
         Launch(p) \/ DialPostgres(p) \/ DialStores(p)
  PROVE  StartupInv'
  <1> USE DEF StartupInv, TypeOK, HolderMigrates, OthersClean, StatementsDone,
              StatementsFromOne, SchemaWhole, MigratedFirst, Migrating, Migrated,
              Stages, Goto
  <1>1. CASE Launch(p)
    BY <1>1 DEF Launch, MoveOn
  <1>2. CASE DialPostgres(p)
    BY <1>2 DEF DialPostgres, MoveOn
  <1>3. CASE DialStores(p)
    BY <1>3 DEF DialStores, DialMongo, DialRedis, DialKafka, MoveOn
  <1> QED
    BY <1>1, <1>2, <1>3

\* Taking the lock: nobody is in the migration while it is free.
LEMMA TakeLockInv ==
  ASSUME StartupInv, NEW p \in Procs, TakeLock(p)
  PROVE  StartupInv'
  <1> USE DEF StartupInv, TypeOK, TakeLock, Goto, Migrating, Migrated, Stages
  <1>1. TypeOK'
    BY DEF StatementsFromOne
  <1>2. \A q \in Procs : pc[q] \notin Migrating
    BY StartupAssumption DEF HolderMigrates
  <1>3. HolderMigrates' /\ OthersClean'
    BY <1>2 DEF HolderMigrates, OthersClean
  <1>4. StatementsDone' /\ StatementsFromOne'
    BY <1>2 DEF StatementsDone, StatementsFromOne
  <1>5. SchemaWhole' /\ MigratedFirst'
    BY DEF SchemaWhole, MigratedFirst
  <1> QED
    BY <1>1, <1>3, <1>4, <1>5

\* The existence check finds the relation, or finds it missing.
LEMMA CheckExistsInv ==
  ASSUME StartupInv, NEW p \in Procs, CheckExists(p)
  PROVE  StartupInv'
  <1> USE DEF StartupInv, CheckExists, Advance, Goto, Migrating, Migrated, Stages
  <1>1. pc[p] = "check" /\ stmt[p] \in 1..4 /\ UNCHANGED <<made, lock, schema, faults>>
    BY DEF TypeOK
  <1>2. TypeOK'
    BY <1>1 DEF TypeOK
  <1>3. HolderMigrates' /\ OthersClean' /\ StatementsFromOne'
    BY <1>1 DEF TypeOK, HolderMigrates, OthersClean, StatementsFromOne
  <1>4. StatementsDone'
    <2>1. CASE Statements[stmt[p]] \in schema \cup made[p]
      BY <1>1, <2>1 DEF TypeOK, StatementsDone
    <2>2. CASE Statements[stmt[p]] \notin schema \cup made[p]
      BY <1>1, <2>2 DEF TypeOK, StatementsDone
    <2> QED
      BY <2>1, <2>2
  <1>5. SchemaWhole' /\ MigratedFirst'
    BY <1>1 DEF TypeOK, SchemaWhole, MigratedFirst
  <1> QED
    BY <1>2, <1>3, <1>4, <1>5

\* The holder creates a relation nobody else can have committed.
LEMMA CreateRelationInv ==
  ASSUME StartupInv, NEW p \in Procs, CreateRelation(p)
  PROVE  StartupInv'
  <1> USE DEF StartupInv, CreateRelation, Advance, Goto, Migrating, Migrated, Stages
  <1>1. /\ pc[p] = "create" /\ stmt[p] \in 1..4
        /\ Statements[stmt[p]] \notin schema
        /\ Statements[stmt[p]] \in Relations
    BY RelationOfStatement DEF TypeOK, StatementsDone
  <1>2. /\ made' = [made EXCEPT ![p] = @ \cup {Statements[stmt[p]]}]
        /\ stmt' = [stmt EXCEPT ![p] = @ + 1]
        /\ pc' = [pc EXCEPT ![p] = IF stmt[p] = 4 THEN "commit" ELSE "check"]
        /\ UNCHANGED <<lock, schema, faults>>
    BY <1>1
  <1>3. TypeOK'
    BY <1>1, <1>2 DEF TypeOK
  <1>4. HolderMigrates' /\ OthersClean' /\ StatementsFromOne'
    BY <1>1, <1>2 DEF TypeOK, HolderMigrates, OthersClean, StatementsFromOne
  <1>5. StatementsDone'
    BY <1>1, <1>2 DEF TypeOK, StatementsDone
  <1>6. SchemaWhole' /\ MigratedFirst'
    BY <1>1, <1>2 DEF TypeOK, SchemaWhole, MigratedFirst
  <1> QED
    BY <1>3, <1>4, <1>5, <1>6

\* The commit installs the whole schema, whether or not p learns of it.
LEMMA CommitSchemaInv ==
  ASSUME StartupInv, NEW p \in Procs, CommitSchema(p) \/ AnswerLost(p)
  PROVE  StartupInv' /\ schema' = Relations
  <1> USE DEF StartupInv, CommitSchema, AnswerLost, Fault, End, Goto, Migrating,
              Migrated, Stages
  <1>1. pc[p] = "commit" /\ lock = p
    BY DEF HolderMigrates
  <1>2. schema' = Relations
    BY <1>1, CommitCompletes
  <1>3. TypeOK'
    BY <1>2, StartupAssumption DEF TypeOK
  <1>4. \A q \in Procs \ {p} : pc[q] \notin Migrating
    BY <1>1 DEF HolderMigrates
  <1>5. HolderMigrates' /\ OthersClean' /\ StatementsDone' /\ StatementsFromOne'
    BY <1>4 DEF TypeOK, HolderMigrates, OthersClean, StatementsDone, StatementsFromOne
  <1>6. SchemaWhole' /\ MigratedFirst'
    BY <1>2 DEF TypeOK, SchemaWhole, MigratedFirst
  <1> QED
    BY <1>2, <1>3, <1>5, <1>6

\* A process that goes takes its uncommitted relations and its lock with it.
LEMMA FatalInv ==
  ASSUME StartupInv, NEW p \in Procs, Fatal(p)
  PROVE  StartupInv'
  <1> USE DEF StartupInv, Fatal, Fault, End, Goto, Migrating, Migrated, Stages
  <1>1. TypeOK'
    BY StartupAssumption DEF TypeOK
  <1>2. HolderMigrates' /\ OthersClean'
    BY DEF TypeOK, HolderMigrates, OthersClean
  <1>3. StatementsDone' /\ StatementsFromOne'
    BY DEF TypeOK, StatementsDone, StatementsFromOne
  <1>4. SchemaWhole' /\ MigratedFirst'
    BY DEF TypeOK, SchemaWhole, MigratedFirst
  <1> QED
    BY <1>1, <1>2, <1>3, <1>4

\* Every step keeps the invariant.
LEMMA StartupInvStep == StartupInv /\ [Next]_vars => StartupInv'
  <1> SUFFICES ASSUME StartupInv, [Next]_vars PROVE StartupInv'
    OBVIOUS
  <1>1. CASE Next
    <2>1. PICK p \in Procs : Step(p) \/ Fatal(p) \/ AnswerLost(p)
      BY <1>1 DEF Next
    <2> QED
      BY <2>1, DialInv, TakeLockInv, CheckExistsInv, CreateRelationInv,
         CommitSchemaInv, FatalInv DEF Step
  <1>2. CASE UNCHANGED vars
    BY <1>2 DEF vars, StartupInv, TypeOK, HolderMigrates, OthersClean, StatementsDone,
                StatementsFromOne, SchemaWhole, MigratedFirst
  <1> QED
    BY <1>1, <1>2

\* The invariant is one of every reachable state.
LEMMA StartupInvariant == Spec => []StartupInv
  BY StartupInvInit, StartupInvStep, PTL DEF Spec

(***************************************************************************)
(* The variables of a start keep their types; in particular no process     *)
(* executes a statement past the last one of the schema (storage.New).     *)
(***************************************************************************)
THEOREM StartupTypeCorrect == Spec => []TypeOK
  <1>1. StartupInv => TypeOK
    BY DEF StartupInv
  <1> QED
    BY <1>1, StartupInvariant, PTL

-----------------------------------------------------------------------------
(***************************************************************************)
(* The lock does what its comment says (storage.New): for any number of    *)
(* replicas starting, dying and starting again, a CREATE that found its    *)
(* relation missing never meets another replica's.                         *)
(***************************************************************************)
THEOREM MigrationsNeverClash == Spec => []NoMigrationClash
  <1>1. StartupInv => NoMigrationClash
    <2> SUFFICES ASSUME StartupInv, NEW p \in Procs, pc[p] = "create"
                 PROVE  Statements[stmt[p]] \notin schema /\ NameFree(p)
      BY DEF NoMigrationClash
    <2>1. Statements[stmt[p]] \notin schema
      BY DEF StartupInv, StatementsDone, Migrating
    <2>2. \A q \in Procs \ {p} : made[q] = {}
      BY DEF StartupInv, HolderMigrates, OthersClean, Migrating
    <2> QED
      BY <2>1, <2>2 DEF NameFree
  <1> QED
    BY <1>1, StartupInvariant, PTL

\* Startup starts where its promise starts: nobody serves.
LEMMA PromiseInit == Init => Promise!Init
  BY DEF Init, Promise!Init, Serving

\* Every step of a start-up is a step of the promise, or none.
LEMMA PromiseStep ==
  StartupInv /\ [Next]_vars => [Promise!Next]_<<schema, Serving>>
  <1> SUFFICES ASSUME StartupInv, [Next]_vars
               PROVE  [Promise!Next]_<<schema, Serving>>
    OBVIOUS
  <1>1. CASE UNCHANGED vars
    BY <1>1 DEF vars, Serving
  <1>2. CASE Next
    <2>1. PICK p \in Procs : Step(p) \/ Fatal(p) \/ AnswerLost(p)
      BY <1>2 DEF Next
    <2>2. CASE Launch(p) \/ DialPostgres(p) \/ TakeLock(p)
      BY <2>2 DEF Launch, DialPostgres, MoveOn, TakeLock, Goto, Serving, StartupInv, TypeOK
    <2>3. CASE CheckExists(p)
      BY <2>3 DEF CheckExists, Advance, Goto, Serving, StartupInv, TypeOK
    <2>4. CASE CreateRelation(p)
      BY <2>4 DEF CreateRelation, Advance, End, Goto, Serving, StartupInv, TypeOK
    <2>5. CASE CommitSchema(p) \/ AnswerLost(p)
      <3>1. schema' = Relations /\ schema \in {{}, Relations}
        BY <2>5, CommitSchemaInv DEF StartupInv, SchemaWhole
      <3>2. Serving' = Serving
        BY <2>5 DEF CommitSchema, AnswerLost, Goto, Serving, StartupInv, TypeOK
      <3> QED
        BY <3>1, <3>2 DEF Promise!Next, Promise!Install
    <2>6. CASE DialStores(p)
      <3>1. CASE pc[p] = "kafka"
        <4>1. schema = Relations /\ UNCHANGED schema
          BY <2>6, <3>1 DEF DialStores, DialMongo, DialRedis, DialKafka, MoveOn,
                           StartupInv, MigratedFirst, Migrated
        <4>2. Serving' = Serving \cup {p}
          BY <2>6, <3>1 DEF DialStores, DialMongo, DialRedis, DialKafka, MoveOn, Goto,
                           Serving, StartupInv, TypeOK
        <4> QED
          BY <4>1, <4>2 DEF Promise!Next, Promise!Serve
      <3>2. CASE pc[p] # "kafka"
        BY <2>6, <3>2 DEF DialStores, DialMongo, DialRedis, DialKafka, MoveOn, Goto,
                         Serving, StartupInv, TypeOK
      <3> QED
        BY <3>1, <3>2
    <2>7. CASE Fatal(p)
      <3>1. Serving' = Serving \ {p} /\ UNCHANGED schema
        BY <2>7 DEF Fatal, Goto, Serving, StartupInv, TypeOK
      <3> QED
        BY <3>1 DEF Promise!Next, Promise!Leave
    <2> QED
      BY <2>1, <2>2, <2>3, <2>4, <2>5, <2>6, <2>7 DEF Step
  <1> QED
    BY <1>1, <1>2

(***************************************************************************)
(* Startup implements SchemaInstall (storage.New): the schema becomes      *)
(* visible in one step, and nobody serves before it is.                    *)
(***************************************************************************)
THEOREM SchemaInstalledAtomically == Spec => InstallsAtomically
  BY StartupInvariant, PromiseInit, PromiseStep, PTL
     DEF Spec, InstallsAtomically, Promise!Spec

=============================================================================
