---------------------------- MODULE MCWorkspace ----------------------------
(***************************************************************************)
(* Instances of Workspace.  A scene is a set of commands, and the ones of  *)
(* them that may be under way at the same time.                            *)
(***************************************************************************)
EXTENDS Workspace, TLC
CONSTANTS p1, p2, a, b, s1, s2, home, dep, text, other

Scene(used, together, n) == [used |-> used, together |-> together, runs |-> n]

MCBlueprints == {[sup |-> a, agents |-> {a}, edges |-> {<<a, EndNode>>}, prd |-> text, stories |-> {s1}]}

MCSymmetry == Permutations(Procs)

\* clean and rollback alone in the workspace, at any point between runs and after kills; stories while runs go on;
\* plans made, changed and run while another command changes them.
Kept == Scene({"run", "clean", "accept", "delete"}, {}, 2)
Told == Scene({"run", "resume", "accept"}, {"run", "resume", "accept"}, 2)
Made == Scene({"run", "compile", "change"}, {"run", "change"}, 1)
Remade == Scene({"run", "compile", "change"}, {"compile", "change"}, 1)
Tidied == Scene({"run", "resume", "reconcile", "rollback"}, {}, 2)
Grown == Scene({"run", "add", "accept", "invalidate"}, {"run", "add", "accept", "invalidate"}, 1)
SafeScenes == {Kept, Told, Made, Remade, Grown, Tidied}

Cleaned == {Scene({"run", "clean"}, {"run"}, 2)}
=============================================================================
