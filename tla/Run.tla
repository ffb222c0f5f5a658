-------------------------------- MODULE Run --------------------------------
(***************************************************************************)
(* The process that drives a run, or one segment of it                     *)
(* (internal/orchestrator: runner.go, runphases.go, segment.go,            *)
(* consume.go, agent.go), and the agent it launched.                       *)
(*                                                                         *)
(* The durable records are the run's row, its audit chain, its approval    *)
(* journal, its branch and worktree and the record of a recovery; `run` is *)
(* the memory of the run's process, lost in a crash.  Resume.tla and       *)
(* Recover.tla are the other commands that work on the same records.       *)
(***************************************************************************)
EXTENDS History

CONSTANTS
    RunSources,       \* who may approve: a subset of {"operator", "task"}
    MaxSeq,           \* bound: proposals of a run
    MaxCrashes        \* bound: crashes of any process working on the run

ASSUME SourcesAssumption == RunSources \subseteq {"operator", "task"}
ASSUME BoundsAssumption == MaxSeq \in Nat /\ MaxCrashes \in Nat

VARIABLES
    db,         \* the run's row in the store: its status and its commit
    hist,       \* the audit chain, as the history it folds to
    journal,    \* the approval journal: its lines, and whether a torn one ends it
    branch,     \* the commit the run branch is at
    worktree,   \* the files of the run's worktree
    op,         \* the record of a recovery (journal/run-N.recovery.json)
    owner,      \* who holds the owner lock
    run,        \* the memory of the run's process
    told,       \* the approvals an agent was told of (nothing in the code: for properties)
    crashes     \* crashes so far (a bound)

durable == <<db, hist, journal, branch, worktree, op, owner>>
vars == <<db, hist, journal, branch, worktree, op, owner, run, told, crashes>>

NoCommit == [tree |-> BaseTree, maker |-> "none"]
AnyCommit == Commits \cup {NoCommit}

Statuses == {"NONE", "RUNNING", "SUCCESS", "FAILED", "KILLED"}
Rows == [status : Statuses, commit : AnyCommit]

\* A journal line: the number of a proposal and its request.
Lines == [seq : Nat, req : Reqs]
Journals == [lines : SUBSET Lines, torn : BOOLEAN]

NoOp == [made |-> FALSE, tree |-> BaseTree, approvals |-> {}, commit |-> NoCommit]
Ops == [made : BOOLEAN, tree : Trees, approvals : SUBSET Decision, commit : AnyCommit]

\* What the decision loop holds about the proposal in its hands.
NoRuling == [req |-> None, source |-> "orchestrator", approved |-> FALSE, journaled |-> FALSE]
Rulings == [req : Reqs \cup {None}, source : Sources, approved : BOOLEAN, journaled : BOOLEAN]

PCs == {"none", "bind", "policy", "settle", "check", "reopen", "resumed", "trim",
        "launch", "mark", "loop", "decide", "ruled", "append", "answer", "stopping",
        "verify", "review", "prepare", "named", "deliver", "certify", "finish", "release"}

\* live: "live" while decisions are good, "deadline" once the run's time is up
\* (waitCtx), "cancelled" once the run is (ctx, and with it waitCtx).
NoRun == [pc |-> "none", live |-> "live", ruling |-> NoRuling, total |-> 0, files |-> BaseTree,
          task |-> FALSE, ending |-> "FAILED", exited |-> FALSE, commit |-> NoCommit]
Runs == [pc : PCs, live : {"live", "deadline", "cancelled"}, ruling : Rulings, total : Nat,
         files : Trees, task : BOOLEAN, ending : {"SUCCESS", "FAILED", "KILLED"},
         exited : BOOLEAN, commit : AnyCommit]

Goto(pc) == run' = [run EXCEPT !.pc = pc]
EndAs(status, pc) == run' = [run EXCEPT !.ending = status, !.pc = pc]

Init ==
    /\ db = [status |-> "NONE", commit |-> NoCommit]
    /\ hist = NoHistory
    /\ journal = [lines |-> {}, torn |-> FALSE]
    /\ branch = BaseCommit
    /\ worktree = BaseTree
    /\ op = NoOp
    /\ owner = "none"
    /\ run = NoRun
    /\ told = {}
    /\ crashes = 0

-----------------------------------------------------------------------------
(* Getting going: the first segment.                                       *)

\* The run's record is made and owned.
Open ==
    /\ run.pc = "none"
    /\ db.status = "NONE"
    /\ db' = [db EXCEPT !.status = "RUNNING"]
    /\ owner' = "run"
    /\ Goto("bind")
    /\ UNCHANGED <<hist, journal, branch, worktree, op, told, crashes>>

\* Branch and worktree at the base; run_bound puts on the chain what the run starts from.
Bind ==
    /\ run.pc = "bind"
    /\ hist' = RunBound(hist)
    /\ Goto("policy")
    /\ UNCHANGED <<db, journal, branch, worktree, op, owner, told, crashes>>

ReadPolicy ==
    /\ run.pc = "policy"
    /\ hist' = PolicySnapshot(hist)
    /\ Goto("launch")
    /\ UNCHANGED <<db, journal, branch, worktree, op, owner, told, crashes>>

\* An error before the agent is launched: the run ends as its segment's init says,
\* FAILED for the first, KILLED for a continuation.
SetupFails ==
    /\ run.pc \in {"bind", "policy", "reopen", "resumed", "trim", "launch"}
    /\ Goto("finish")
    /\ UNCHANGED <<durable, told, crashes>>

-----------------------------------------------------------------------------
(* The agent's launch.                                                     *)

\* The claim is on the chain before the agent's process starts.
ClaimLaunch ==
    /\ run.pc = "launch"
    /\ hist' = LaunchClaimed(hist)
    /\ Goto("mark")
    /\ UNCHANGED <<db, journal, branch, worktree, op, owner, told, crashes>>

\* The agent runs; the case is marked running, or the run stops.
MarkRunning ==
    /\ run.pc = "mark"
    /\ \/ Goto("loop")
       \/ Goto("stopping")
    /\ UNCHANGED <<durable, told, crashes>>

\* An agent that may still be there: it was launched, and it was not seen to end.
AgentAlive == LaunchParked(hist) /\ ~run.exited

\* An agent writes what it likes, approved or not, in the run's worktree.
AgentWrites(p, content) ==
    /\ AgentAlive
    /\ content \in {Base} \cup {r \in Reqs : PathOf[r] = p}
    /\ worktree[p] # content
    /\ worktree' = [worktree EXCEPT ![p] = content]
    /\ UNCHANGED <<db, hist, journal, branch, op, owner, run, told, crashes>>

EndLaunchUnworded(outcome) ==    \* mutant: an outcome the replay has no word for
    /\ run.pc = "stopping"
    /\ outcome = "known"
    /\ hist' = LaunchEnded(hist, IF run.exited THEN "known" ELSE "gone")
    /\ Goto(IF run.ending = "SUCCESS" THEN "verify" ELSE "finish")
    /\ UNCHANGED <<db, journal, branch, worktree, op, owner, told, crashes>>

\* How the launch ended is put on the chain.  An agent the run stopped may not have
\* stopped (unresponsive); an outcome that cannot be written leaves the launch open.
EndLaunch(outcome) ==
    /\ run.pc = "stopping"
    /\ outcome = "known" \/ (outcome = "lost" /\ ~run.exited)
    /\ \/ hist' = LaunchEnded(hist, outcome)
       \/ hist' = hist
    /\ Goto(IF run.ending = "SUCCESS" THEN "verify" ELSE "finish")
    /\ UNCHANGED <<db, journal, branch, worktree, op, owner, told, crashes>>

-----------------------------------------------------------------------------
(* One proposal: decided, journaled, put on the chain, answered.           *)

\* The agent proposes a change and waits; the loop takes it up.
Propose(r) ==
    /\ run.pc = "loop"
    /\ run.total < MaxSeq
    /\ hist' = YieldRequest(hist, r)
    /\ run' = [run EXCEPT !.pc = "decide", !.total = @ + 1, !.ruling = [NoRuling EXCEPT !.req = r]]
    /\ UNCHANGED <<db, journal, branch, worktree, op, owner, told, crashes>>

Rule(source, approved) ==
    run' = [run EXCEPT !.pc = "ruled", !.task = @ \/ (approved /\ source = "task"),
                       !.ruling.source = source, !.ruling.approved = approved]

\* Somebody approves or rejects.  A rule of the policy or a model may answer after
\* the run's time is up; a person's answer then counts for nothing.
Decide(source, approved) ==
    /\ run.pc = "decide"
    /\ Rule(source, approved)
    /\ UNCHANGED <<durable, told, crashes>>

WaitOutlivesLimit ==    \* mutant: the wait ends with a cancellation only
    /\ run.pc = "decide"
    /\ run.live = "cancelled"
    /\ Rule("operator", FALSE)
    /\ UNCHANGED <<durable, told, crashes>>

\* The wait for a person ends with the run.
WaitEnds ==
    /\ run.pc = "decide"
    /\ run.live # "live"
    /\ Rule("operator", FALSE)
    /\ UNCHANGED <<durable, told, crashes>>

\* No longer live before the journal: the decision becomes the rejection recorded instead.
Expire ==
    /\ run.pc = "ruled"
    /\ run.ruling.approved
    /\ run.live # "live"
    /\ run' = [run EXCEPT !.pc = "append", !.ruling.approved = FALSE, !.ruling.source = "orchestrator"]
    /\ UNCHANGED <<durable, told, crashes>>

\* The approval's journal line, after a torn line is dropped.
Line == [seq |-> run.total, req |-> run.ruling.req]
Kept == [lines |-> journal.lines \cup {Line}, torn |-> FALSE]

\* A line with the same number and bytes stands; one with other bytes is refused.
KeepApproval ==
    /\ run.pc = "ruled"
    /\ run.ruling.approved
    /\ run.live = "live"
    /\ \A l \in journal.lines : l.seq = Line.seq => l = Line
    /\ journal' = Kept
    /\ run' = [run EXCEPT !.pc = "append", !.ruling.journaled = TRUE]
    /\ UNCHANGED <<db, hist, branch, worktree, op, owner, told, crashes>>

\* A rejection needs no journal line.
PassRejection ==
    /\ run.pc = "ruled"
    /\ ~run.ruling.approved
    /\ Goto("append")
    /\ UNCHANGED <<durable, told, crashes>>

\* A write that fails stops the run: the journal line (whole, cut or not there) or
\* the decision on the chain.  The agent is told it was not decided.
ConsumeFails ==
    /\ \/ /\ run.pc = "ruled" /\ run.ruling.approved
          /\ journal' \in {Kept} \cup [lines : {journal.lines}, torn : BOOLEAN]
       \/ run.pc = "append" /\ UNCHANGED journal
    /\ EndAs("FAILED", "stopping")
    /\ UNCHANGED <<db, hist, branch, worktree, op, owner, told, crashes>>

RecordDecision(approved, unconsumed) ==
    /\ run.pc = "append"
    /\ hist' = YieldDecided(hist,
                   [seq |-> run.total, kind |-> "file_edit", req |-> run.ruling.req,
                    source |-> IF approved = run.ruling.approved THEN run.ruling.source ELSE "orchestrator",
                    approved |-> approved, unconsumed |-> unconsumed, tree |-> BaseTree])
    /\ run' = [run EXCEPT !.pc = "answer", !.ruling.approved = approved]
    /\ UNCHANGED <<db, journal, branch, worktree, op, owner, told, crashes>>

AppendLate == RecordDecision(run.ruling.approved, FALSE)    \* mutant: no look under the append lock

AppendUnmarked ==    \* mutant: an expired authorization is not marked
    RecordDecision(run.ruling.approved /\ run.live = "live", FALSE)

\* The decision reaches the chain.  That the run is live is checked under the append
\* lock; a run that ended while this waited records a rejection, unconsumed when its
\* journal line is written.
AppendDecision ==
    LET good == run.ruling.approved /\ run.live = "live" IN
    RecordDecision(good, run.ruling.journaled /\ ~good)

\* The agent is told.  An approval joins the approved state; a rejected change that a
\* command already made is put back.  Then the loop goes on, or the run is halted for
\* drift, or killed over its budget.
Answer ==
    LET p == PathOf[run.ruling.req]
        files == [run.files EXCEPT ![p] = run.ruling.req]
        answered == [run EXCEPT !.files = IF run.ruling.approved THEN files ELSE @,
                                !.ruling = NoRuling]
    IN  /\ run.pc = "answer"
        /\ told' = IF run.ruling.approved
                   THEN told \cup {[seq |-> run.total, req |-> run.ruling.req]} ELSE told
        /\ \/ UNCHANGED worktree
           \/ ~run.ruling.approved /\ worktree' = [worktree EXCEPT ![p] = run.files[p]]
        /\ \/ run' = [answered EXCEPT !.pc = "loop"] /\ UNCHANGED hist
           \/ /\ run' = [answered EXCEPT !.pc = "stopping", !.ending = "KILLED"]
              /\ hist' \in {hist, DriftHalt(hist)}
        /\ UNCHANGED <<db, journal, branch, op, owner, crashes>>

-----------------------------------------------------------------------------
(* The loop ends.                                                          *)

\* Time is up, or the run is cancelled, at any moment.
Deadline ==
    /\ run.pc \in {"loop", "decide", "ruled", "append"}
    /\ run.live = "live"
    /\ run' = [run EXCEPT !.live = "deadline"]
    /\ UNCHANGED <<durable, told, crashes>>

Cancel ==
    /\ run.pc \in {"loop", "decide", "ruled", "append", "verify", "review", "prepare", "named", "deliver"}
    /\ run.live # "cancelled"
    /\ run' = [run EXCEPT !.live = "cancelled"]
    /\ UNCHANGED <<durable, told, crashes>>

\* The agent's own end; what it means depends on what ended first.
AgentExits(ok) ==
    /\ run.pc = "loop"
    /\ run.live = "live"
    /\ run' = [run EXCEPT !.pc = "stopping", !.exited = TRUE,
                          !.ending = IF ok THEN "SUCCESS" ELSE "FAILED"]
    /\ UNCHANGED <<durable, told, crashes>>

\* The limit is reached or the run is cancelled: the agent is stopped.  Only the first
\* is a halt for drift, put on the chain if it can be.
LoopEnds ==
    /\ run.pc = "loop"
    /\ \/ run.live # "live" /\ UNCHANGED hist
       \/ run.live = "deadline" /\ hist' = DriftHalt(hist)
    /\ EndAs("KILLED", "stopping")
    /\ UNCHANGED <<db, journal, branch, worktree, op, owner, told, crashes>>

OverBudget ==
    /\ run.pc = "loop"
    /\ EndAs("KILLED", "stopping")
    /\ UNCHANGED <<durable, told, crashes>>

-----------------------------------------------------------------------------
(* The end: verify, review, deliver, record.                               *)

Cancelled == run.live = "cancelled"

\* The worktree must hold the approved state, on the base commit.
Verify ==
    /\ run.pc = "verify"
    /\ IF worktree # run.files \/ branch # BaseCommit THEN EndAs("FAILED", "finish")
       ELSE IF Cancelled THEN EndAs("KILLED", "finish")
       ELSE Goto(IF run.task THEN "review" ELSE "prepare")
    /\ UNCHANGED <<durable, told, crashes>>

\* A person is asked once for the whole change when part of it was approved by less
\* than a person or a rule; their answer takes the next number.
FinalReview(approved) ==
    /\ run.pc = "review"
    /\ approved => ~Cancelled
    /\ hist' = YieldDecided(hist,
                   [seq |-> run.total + 1, kind |-> "final_review", req |-> None, source |-> "operator",
                    approved |-> approved, unconsumed |-> FALSE, tree |-> run.files])
    /\ IF approved THEN Goto("prepare") ELSE EndAs("FAILED", "finish")
    /\ UNCHANGED <<db, journal, branch, worktree, op, owner, told, crashes>>

\* The commit is named on the chain before any branch holds it.
Prepare ==
    LET commit == [tree |-> run.files, maker |-> "run"] IN
    /\ run.pc = "prepare"
    /\ ~Cancelled
    /\ run.files # BaseTree
    /\ hist' = CommitEvent(hist, "commit_prepared", commit)
    /\ Goto("named")
    /\ UNCHANGED <<db, journal, branch, worktree, op, owner, told, crashes>>

\* Nothing approved, or cancelled: the run ends without a commit.
PrepareNothing ==
    /\ run.pc = "prepare"
    /\ Cancelled \/ run.files = BaseTree
    /\ EndAs(IF Cancelled THEN "KILLED" ELSE "SUCCESS", "finish")
    /\ UNCHANGED <<durable, told, crashes>>

\* The last look at the cancellation, after the commit was named.
StillGoing ==
    /\ run.pc = "named"
    /\ IF Cancelled THEN EndAs("KILLED", "finish") ELSE Goto("deliver")
    /\ UNCHANGED <<durable, told, crashes>>

DeliverAnywhere ==    \* mutant: update-ref without the old value
    LET commit == [tree |-> run.files, maker |-> "run"] IN
    /\ run.pc = "deliver"
    /\ branch' = commit
    /\ run' = [run EXCEPT !.pc = "certify", !.commit = commit]
    /\ UNCHANGED <<db, hist, journal, worktree, op, owner, told, crashes>>

\* update-ref from the base to the prepared commit, or an error.
Deliver ==
    LET commit == [tree |-> run.files, maker |-> "run"] IN
    /\ run.pc = "deliver"
    /\ branch = BaseCommit
    /\ branch' = commit
    /\ run' = [run EXCEPT !.pc = "certify", !.commit = commit]
    /\ UNCHANGED <<db, hist, journal, worktree, op, owner, told, crashes>>

\* The certificate is issued, or what is missing is only reported.
Certify ==
    /\ run.pc = "certify"
    /\ hist' \in {hist, CommitEvent(hist, "certificate_issued", run.commit)}
    /\ Goto("finish")
    /\ UNCHANGED <<db, journal, branch, worktree, op, owner, told, crashes>>

\* An error on the way to the delivery.
FinalizeFails ==
    /\ run.pc \in {"verify", "review", "prepare", "deliver"}
    /\ EndAs("FAILED", "finish")
    /\ UNCHANGED <<durable, told, crashes>>

FinishNamed ==    \* mutant: the row takes the prepared commit, delivered or not
    /\ run.pc = "finish"
    /\ db' \in [status : {run.ending, "FAILED"},
               commit : {IF run.files = BaseTree THEN NoCommit ELSE [tree |-> run.files, maker |-> "run"]}]
    /\ Goto("release")
    /\ UNCHANGED <<hist, journal, branch, worktree, op, owner, told, crashes>>

\* The run's row, FAILED when something about recording the end fails; a store that
\* keeps failing leaves it as it was.
FinishRun ==
    /\ run.pc = "finish"
    /\ \/ db' \in [status : {run.ending, "FAILED"}, commit : {run.commit}]
       \/ db' = db
    /\ Goto("release")
    /\ UNCHANGED <<hist, journal, branch, worktree, op, owner, told, crashes>>

\* run_path on the chain (no rule reads it), then the owner lock is released last.
Release ==
    /\ run.pc = "release"
    /\ owner' = "none"
    /\ run' = NoRun
    /\ UNCHANGED <<db, hist, journal, branch, worktree, op, told, crashes>>

\* The process dies.  A journal line being written may be cut or whole.
Crash ==
    /\ run.pc # "none"
    /\ crashes < MaxCrashes
    /\ crashes' = crashes + 1
    /\ \/ UNCHANGED journal
       \/ /\ run.pc = "ruled" /\ run.ruling.approved
          /\ journal' = [journal EXCEPT !.torn = TRUE]
    /\ run' = NoRun
    /\ owner' = "none"
    /\ UNCHANGED <<db, hist, branch, worktree, op, told>>
=============================================================================
