------------------------------ MODULE Delivery ------------------------------
(***************************************************************************)
(* What a run promises, whatever is interrupted (GLOSSARY and the package  *)
(* comments of internal/orchestrator): changes are approved one at a time; *)
(* the run's branch moves once, to exactly what all the approvals make of  *)
(* the base, reviewed as a whole by a person where part of it was approved *)
(* by less; after that nothing more is approved.                           *)
(*                                                                         *)
(* Run.tla, Resume.tla and Recover.tla together implement this             *)
(* (Orchestrator.tla, Promise).                                            *)
(***************************************************************************)
EXTENDS History

CONSTANTS
    Numbers,     \* the numbers proposals may have
    Approvers    \* who may approve

VARIABLES
    decided,     \* the approvals so far
    reviewed,    \* the whole states a person approved
    delivered    \* the tree on the run's branch, or nothing

Nothing == [p \in Paths |-> None]
promise == <<decided, reviewed, delivered>>

PromiseInit == decided = {} /\ reviewed = {} /\ delivered = Nothing

Approve(n, r, source) ==
    /\ delivered = Nothing
    /\ \A d \in decided : d.seq < n
    /\ decided' = decided \cup {[seq |-> n, req |-> r, source |-> source]}
    /\ UNCHANGED <<reviewed, delivered>>

Review(tree) ==
    /\ delivered = Nothing
    /\ tree = TreeOf(decided)
    /\ reviewed' = reviewed \cup {tree}
    /\ UNCHANGED <<decided, delivered>>

Move ==
    /\ delivered = Nothing
    /\ decided # {}
    /\ (\E d \in decided : d.source = "task") => TreeOf(decided) \in reviewed
    /\ delivered' = TreeOf(decided)
    /\ UNCHANGED <<decided, reviewed>>

PromiseNext ==
    \/ \E n \in Numbers, r \in Reqs, source \in Approvers : Approve(n, r, source)
    \/ \E tree \in Trees : Review(tree)
    \/ Move

PromiseSpec == PromiseInit /\ [][PromiseNext]_promise
=============================================================================
