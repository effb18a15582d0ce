--------------------------- MODULE MCRounds ---------------------------
(* One instance, with another elsewhere. *)
EXTENDS Rounds, TLC

CONSTANTS i1

=======================================================================
