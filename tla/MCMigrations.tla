------------------------- MODULE MCMigrations -------------------------
(***************************************************************************)
(* Migrations on a small instance: a build, one made before version 2 was   *)
(* merged, and one whose version 2 was edited.                             *)
(***************************************************************************)
EXTENDS Migrations, TLC

CONSTANTS new, fork, edited, a, b, i, j

\* Version 2 is an index made concurrently; the others are tables.
ThreeBuilds ==
    (new :> <<a, i, b>>) @@ (fork :> <<a, Absent, b>>) @@ (edited :> <<a, j, Absent>>)

=======================================================================
