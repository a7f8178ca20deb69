------------------------------ MODULE MCQueries ------------------------------
(***************************************************************************)
(* Instances of Queries for TLC: three rows, the newest two with the same  *)
(* time, pages of at most one row.                                         *)
(***************************************************************************)
EXTENDS Queries, TLC

CONSTANTS d1, d2, d3, r1, r2, p1

ManyRows == {d1, d2, d3}
ManyStamps == (d1 :> 2) @@ (d2 :> 2) @@ (d3 :> 1)
OneRow == {d1}
OneStamp == (d1 :> 1)
TwoReaders == {r1, r2}
OnePager == {p1}
Nobody == {}

\* Below, at and above the limits of the handlers.
SomeAsks == {-1, 1, 2}
SomeFirsts == {-1, 0}
Stores == {"redis", "postgres"}

ReaderSymmetry == Permutations({r1, r2})

=============================================================================
