------------------------------ MODULE MCKeys ------------------------------
(***************************************************************************)
(* Instances of Keys.  One process at a time may rotate twice, be killed   *)
(* and lose power; two at once may install one key, and a session alone    *)
(* makes the keys of a new workspace.                                      *)
(***************************************************************************)
EXTENDS Keys
CONSTANTS p1, p2

Bounds(procs, installs, crashes, cuts, fresh) ==
    [procs |-> procs, installs |-> installs, crashes |-> crashes, cuts |-> cuts, fresh |-> fresh]
SafeScenes == {Bounds({p1}, 2, 2, 1, FALSE), Bounds({p1, p2}, 1, 1, 1, FALSE), Bounds({p1}, 1, 1, 0, TRUE)}
===========================================================================
