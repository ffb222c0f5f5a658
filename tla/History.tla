------------------------------ MODULE History ------------------------------
(***************************************************************************)
(* What the audit chain of one run means: the fold of internal/history     *)
(* (history.go, replay) and the questions asked of it.                     *)
(*                                                                         *)
(* A chain is kept here as the value the fold has reached.  There is one   *)
(* operator per event type a run writes; it gives the history after that   *)
(* event.  An event the grammar refuses makes the history broken: from     *)
(* then on history.Read fails for every command, so ~broken is what "the   *)
(* chain can still be read" means.                                         *)
(*                                                                         *)
(* Proposal numbers increase along the chain, so the set of decisions      *)
(* determines their order.  Contents are abstracted: a request changes one *)
(* file to one content and is its own digest.                              *)
(***************************************************************************)
EXTENDS Integers, Sequences

CONSTANTS
    Reqs,     \* proposals an agent can make, each a change of one file
    Paths,    \* the files of the project
    PathOf,   \* PathOf[r] is the file proposal r changes
    Base,     \* the content of a file at the base commit
    None      \* no request

ASSUME PathAssumption == PathOf \in [Reqs -> Paths]
ASSUME BaseAssumption == Base \notin Reqs
ASSUME NoneAssumption == None \notin Reqs

Trees == [Paths -> Reqs \cup {Base}]
BaseTree == [p \in Paths |-> Base]

\* How a launch of the agent ended: it has no outcome on the chain yet, its end is
\* established (exited, failed, stopped), or it is not (unresponsive, unknown).
Outcomes == {"open", "known", "lost"}
Launch == [outcome : Outcomes, acked : BOOLEAN]

\* Who decided: "operator" stands for a person or a policy rule, "task" for the
\* sources whose approvals a person must still review (the agreed task,
\* evidence, reviewer models), "orchestrator" for a decision that expired.
Sources == {"operator", "task", "orchestrator"}

\* A file edit decides a request, a final review a tree.
Decision ==
    {d \in [seq : Nat, kind : {"file_edit", "final_review"}, req : Reqs \cup {None},
            source : Sources, approved : BOOLEAN, unconsumed : BOOLEAN, tree : Trees] :
        d.kind = "file_edit" => d.req \in Reqs}

\* A commit is its tree and who made it; "base" is the run's base commit.
Commits == [tree : Trees, maker : {"base", "run", "recovery", "other"}]
BaseCommit == [tree |-> BaseTree, maker |-> "base"]
Events == {"commit_prepared", "certificate_issued", "run_recovered"}

Histories ==
    [bound : BOOLEAN, policy : BOOLEAN, segment : Nat, pending : Reqs \cup {None},
     decisions : SUBSET Decision, lastDecided : Nat, launches : Seq(Launch),
     halted : BOOLEAN, delivered : SUBSET [event : Events, commit : Commits],
     broken : BOOLEAN]

NoHistory ==
    [bound |-> FALSE, policy |-> FALSE, segment |-> 1, pending |-> None,
     decisions |-> {}, lastDecided |-> 0, launches |-> << >>,
     halted |-> FALSE, delivered |-> {}, broken |-> FALSE]

-----------------------------------------------------------------------------
(* Questions asked of a history.                                           *)

Ended(h) == \E d \in h.delivered : d.event # "commit_prepared"
AgentEnded(h) == \E d \in h.delivered : d.event = "commit_prepared"
Sealed(h) == h.delivered # {}
Delivers(h, event, c) == [event |-> event, commit |-> c] \in h.delivered

OpenLaunch(h) ==
    /\ h.launches # << >>
    /\ h.launches[Len(h.launches)].outcome = "open"

Lost(h) == {i \in DOMAIN h.launches : h.launches[i].outcome # "known"}
LaunchParked(h) ==
    /\ h.launches # << >>
    /\ Len(h.launches) \in Lost(h)
    /\ ~h.launches[Len(h.launches)].acked

Approvals(h) == {d \in h.decisions : d.approved /\ d.kind = "file_edit"}
Unconsumed(h) == {d \in h.decisions : d.unconsumed /\ ~d.approved}
TaskApproved(h) == \E d \in Approvals(h) : d.source = "task"

\* The content file p has once the approvals A are applied in order.
ContentOf(A, p) ==
    LET of == {d \in A : PathOf[d.req] = p}
        last == {d \in of : \A e \in of : e.seq <= d.seq}
    IN  IF last = {} THEN Base ELSE (CHOOSE d \in last : TRUE).req

\* The approved state: what applying the approvals, in order, to the base gives.
TreeOf(A) == [p \in Paths |-> ContentOf(A, p)]

\* Final reviews a person approved after the last approval.
LateReviews(h) ==
    {d \in h.decisions : /\ d.kind = "final_review" /\ d.approved
                         /\ \A a \in Approvals(h) : a.seq < d.seq}
FinalReviewed(h) == \E d \in LateReviews(h) : d.tree = TreeOf(Approvals(h))
ReviewedOtherBytes(h) == \E d \in LateReviews(h) : d.tree # TreeOf(Approvals(h))

-----------------------------------------------------------------------------
(* Events.                                                                 *)

\* The chain begins with run_bound, and each event has its rule.
Accept(h, rule, next) == IF h.bound /\ rule THEN next ELSE [h EXCEPT !.broken = TRUE]

RunBound(h) == IF h.bound THEN [h EXCEPT !.broken = TRUE] ELSE [h EXCEPT !.bound = TRUE]

PolicySnapshot(h) == Accept(h, TRUE, [h EXCEPT !.policy = TRUE])

RunResumed(h, ackDrift) ==
    LET next == [h EXCEPT !.segment = @ + 1, !.pending = None] IN
    Accept(h, ~Ended(h) /\ ~AgentEnded(h) /\ ~OpenLaunch(h),
           IF ackDrift THEN [next EXCEPT !.halted = FALSE] ELSE next)

LaunchClaimed(h) ==
    Accept(h, ~Ended(h) /\ ~AgentEnded(h) /\ ~OpenLaunch(h),
           [h EXCEPT !.launches = Append(@, [outcome |-> "open", acked |-> FALSE])])

LaunchEnded(h, outcome) ==
    Accept(h, ~Ended(h) /\ OpenLaunch(h),
           [h EXCEPT !.launches[Len(h.launches)].outcome = outcome])

LaunchAcknowledged(h) ==
    Accept(h, ~Ended(h) /\ LaunchParked(h) /\ ~OpenLaunch(h),
           [h EXCEPT !.launches[Len(h.launches)].acked = TRUE])

DriftHalt(h) == Accept(h, TRUE, [h EXCEPT !.halted = TRUE])

YieldRequest(h, r) == Accept(h, ~AgentEnded(h), [h EXCEPT !.pending = r])

\* A decision takes a number above every earlier one; unless it is a final review
\* it uses up a request of its own segment and comes before the run's commit.
YieldDecided(h, d) ==
    Accept(h, /\ ~Ended(h)
              /\ d.seq > h.lastDecided
              /\ d.kind = "file_edit" => ~AgentEnded(h) /\ h.pending = d.req,
           [h EXCEPT !.decisions = @ \cup {d}, !.lastDecided = d.seq,
                     !.pending = IF d.kind = "file_edit" THEN None ELSE @])

CommitEvent(h, event, c) ==
    Accept(h, TRUE, [h EXCEPT !.delivered = @ \cup {[event |-> event, commit |-> c]}])
=============================================================================
