--------------------------- MODULE SchemaInstall ---------------------------
(***************************************************************************)
(* What storage.New promises to the processes that call it: the schema is  *)
(* installed once, as a whole, and a process serves only on the whole      *)
(* schema.                                                                 *)
(***************************************************************************)
CONSTANTS Procs,      \* the processes that share the database
          Relations   \* the tables and indexes of the schema

VARIABLES schema,     \* the relations every process can see
          serving     \* the processes that serve

\* A new database, or one an earlier release has migrated.
Init == schema \in {{}, Relations} /\ serving = {}

Install == schema = {} /\ schema' = Relations /\ UNCHANGED serving

Serve(p) == schema = Relations /\ serving' = serving \cup {p} /\ UNCHANGED schema

Leave(p) == serving' = serving \ {p} /\ UNCHANGED schema

Next == Install \/ \E p \in Procs : Serve(p) \/ Leave(p)

Spec == Init /\ [][Next]_<<schema, serving>>
=============================================================================
