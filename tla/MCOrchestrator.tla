--------------------------- MODULE MCOrchestrator ---------------------------
(* A small instance of Orchestrator for TLC. *)
EXTENDS Orchestrator, TLC

CONSTANTS edit1, edit2, file1, file2    \* two changes, of one file or of two

MCPathOfTwo == [r \in Reqs |-> IF r = edit1 THEN file1 ELSE file2]
MCPathOfOne == [r \in Reqs |-> file1]
MCSymmetry == Permutations(Reqs)
MCStrangers == {[tree |-> [x \in Paths |-> r], maker |-> "other"] : r \in Reqs}
=============================================================================
