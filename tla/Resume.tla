------------------------------- MODULE Resume -------------------------------
(***************************************************************************)
(* Continuing an interrupted run, and acknowledging its lost launch        *)
(* (internal/orchestrator: resume.go, resume_state.go, acknowledge.go,     *)
(* openrun.go, recover_history.go, segment.go).                            *)
(*                                                                         *)
(* `staircase resume` owns the run from its first check, settles a launch  *)
(* whose process was lost, checks that the worktree holds the approved     *)
(* state, reopens the run and goes on as its next segment, in the same     *)
(* process: the steps after "trim" are those of Run.tla.                   *)
(***************************************************************************)
EXTENDS Run, FiniteSets

CONSTANTS
    MaxLostLaunches,  \* launches whose end could not be established (history.MaxLostLaunches)
    MaxSegments       \* bound: segments of a run

ASSUME LaunchAssumption == MaxLostLaunches \in Nat \ {0}
ASSUME SegmentsAssumption == MaxSegments \in Nat

LostCount(h) == Cardinality(Lost(h))

\* The journal has every approval on the chain, and no other line up to the last
\* decision but authorizations the chain says were never consumed.
Reconciles(h, j) ==
    /\ \A a \in Approvals(h) : [seq |-> a.seq, req |-> a.req] \in j.lines
    /\ \A l \in j.lines :
          \/ l.seq > h.lastDecided
          \/ \E d \in Approvals(h) \cup Unconsumed(h) : d.seq = l.seq /\ d.req = l.req

\* An existing run read from its records: the chain replays, the journal fits it.
Opens == ~hist.broken /\ hist.bound /\ Reconciles(hist, journal)

\* What a continuation asks of the records, under the owner lock.
Continuable ==
    /\ db.commit = NoCommit
    /\ db.status \in {"RUNNING", "KILLED"}
    /\ ~op.made
    /\ Opens
    /\ ~Sealed(hist)
    /\ hist.policy

Claim ==
    /\ run.pc = "none"
    /\ owner = "none"
    /\ Continuable
    /\ hist.segment < MaxSegments
    /\ owner' = "run"
    /\ run' = [NoRun EXCEPT !.pc = "settle", !.ending = "KILLED"]
    /\ UNCHANGED <<db, hist, journal, branch, worktree, op, told, crashes>>

\* The chain has no outcome for a launch whose process is gone: it is unknown.
RecordLostLaunch ==
    /\ run.pc = "settle"
    /\ OpenLaunch(hist)
    /\ hist' = LaunchEnded(hist, "lost")
    /\ UNCHANGED <<db, journal, branch, worktree, op, owner, run, told, crashes>>

ParkedAtLimit == LostCount(hist) >= MaxLostLaunches    \* mutant: no acknowledgement asked

Parked == LostCount(hist) >= MaxLostLaunches \/ LaunchParked(hist)

\* A refusal gives the run up as it is.
Refuse == run' = NoRun /\ owner' = "none"

RefuseParked ==
    /\ run.pc = "settle"
    /\ ~OpenLaunch(hist)
    /\ Parked
    /\ Refuse
    /\ UNCHANGED <<db, hist, journal, branch, worktree, op, told, crashes>>

\* --ack-unknown: the acknowledgement, then the resume.
SettleAcknowledged ==
    /\ run.pc = "settle"
    /\ ~OpenLaunch(hist)
    /\ LaunchParked(hist)
    /\ LostCount(hist) < MaxLostLaunches
    /\ hist' = LaunchAcknowledged(hist)
    /\ Goto("check")
    /\ UNCHANGED <<db, journal, branch, worktree, op, owner, told, crashes>>

SettleUnparked ==
    /\ run.pc = "settle"
    /\ ~OpenLaunch(hist)
    /\ ~Parked
    /\ Goto("check")
    /\ UNCHANGED <<durable, told, crashes>>

\* The time limit used up, a halt for drift not acknowledged, a context that cannot be
\* carried, a branch that moved: refused before the worktree is looked at.
RefuseRecords ==
    /\ run.pc = "check"
    /\ Refuse
    /\ UNCHANGED <<db, hist, journal, branch, worktree, op, told, crashes>>

Approved == TreeOf(Approvals(hist))
Unapplied == {p \in Paths : worktree[p] = Base /\ Approved[p] # Base}
Unapproved == {p \in Paths \ Unapplied : worktree[p] # Approved[p]}
Applied == [p \in Paths |-> IF p \in Unapplied THEN Approved[p] ELSE worktree[p]]

\* The worktree must hold exactly the approved state.  Approved changes the agent had
\* not made yet are made; anything else is put back, or the continuation refuses.
CheckWorktree ==
    /\ run.pc = "check"
    /\ branch = BaseCommit
    /\ \/ /\ worktree' = Approved      \* nothing unapproved, or --discard-unapproved
          /\ Goto("reopen")
          /\ UNCHANGED owner
       \/ /\ Unapproved # {}
          /\ worktree' = Applied
          /\ Refuse
    /\ UNCHANGED <<db, hist, journal, branch, op, told, crashes>>

\* The row says RUNNING again.
Reopen ==
    /\ run.pc = "reopen"
    /\ db.status \in {"RUNNING", "KILLED"}
    /\ db.commit = NoCommit
    /\ db' = [db EXCEPT !.status = "RUNNING"]
    /\ Goto("resumed")
    /\ UNCHANGED <<hist, journal, branch, worktree, op, owner, told, crashes>>

\* run_resumed is on the chain before anything else happens.  A halt for drift got
\* here only acknowledged.
AppendResumed ==
    /\ run.pc = "resumed"
    /\ hist' = RunResumed(hist, TRUE)
    /\ Goto("trim")
    /\ UNCHANGED <<db, journal, branch, worktree, op, owner, told, crashes>>

TrimUpTo(n, files, task) ==
    /\ run.pc = "trim"
    /\ journal' = [lines |-> {l \in journal.lines : l.seq <= n}, torn |-> FALSE]
    /\ run' = [run EXCEPT !.pc = "launch", !.total = hist.lastDecided, !.files = files, !.task = task]
    /\ UNCHANGED <<db, hist, branch, worktree, op, owner, told, crashes>>

TrimTooMuch ==    \* mutant: the last decision's own line is dropped too
    TrimUpTo(hist.lastDecided - 1, Approved, TaskApproved(hist))
TrimForgetsTask ==    \* mutant: earlier segments' approvals need no review
    TrimUpTo(hist.lastDecided, Approved, FALSE)

\* Lines no decision followed are dropped, and the segment takes over the approved
\* state and the counts.
Trim == TrimUpTo(hist.lastDecided, Approved, TaskApproved(hist))

\* staircase acknowledge: the same two events under the owner lock, and nothing else.
\* (Interrupted between them it leaves what RecordLostLaunch and a refusal leave.)
Acknowledge ==
    LET ended == IF OpenLaunch(hist) THEN LaunchEnded(hist, "lost") ELSE hist IN
    /\ owner = "none"
    /\ ~hist.broken
    /\ ~Sealed(hist)
    /\ hist.launches # << >> /\ Len(hist.launches) \in Lost(hist)
    /\ hist' = IF LaunchParked(ended) /\ LostCount(ended) < MaxLostLaunches
               THEN LaunchAcknowledged(ended) ELSE ended
    /\ UNCHANGED <<db, journal, branch, worktree, op, owner, run, told, crashes>>
=============================================================================
