---------------------------- MODULE Orchestrator ----------------------------
(***************************************************************************)
(* One run and every command that works on its records: the process that   *)
(* drives it, a continuation, an acknowledgement, a recovery, an agent     *)
(* nobody knows the end of, and someone else's commit on the run's branch. *)
(***************************************************************************)
EXTENDS Recover

CONSTANTS
    Overlap,      \* whether the run may be driven between a recovery's reading and its claim
    Strangers     \* commits someone else may put on the run branch

ASSUME OverlapAssumption == Overlap \in BOOLEAN
ASSUME StrangersAssumption == Strangers \subseteq [tree : Trees, maker : {"other"}]

allVars == <<vars, rec>>

\* Someone else moves the run branch off the base.
BranchMoved(c) ==
    /\ db.status # "NONE"
    /\ branch = BaseCommit
    /\ branch' = c
    /\ UNCHANGED <<db, hist, journal, worktree, op, owner, run, told, crashes>>

\* What the run's process does by itself.
ProcessStep ==
    \/ Bind \/ ReadPolicy \/ ClaimLaunch \/ MarkRunning
    \/ WaitEnds \/ Expire \/ KeepApproval \/ PassRejection \/ ConsumeFails \/ AppendDecision \/ Answer
    \/ LoopEnds
    \/ \E o \in Outcomes : EndLaunch(o)
    \/ Verify \/ Prepare \/ PrepareNothing \/ StillGoing \/ Deliver \/ Certify
    \/ FinishRun \/ Release
    \/ SetupFails \/ FinalizeFails

\* What a continuation does before it is a run again.
ResumeStep ==
    \/ RecordLostLaunch \/ RefuseParked \/ SettleAcknowledged \/ SettleUnparked
    \/ RefuseRecords \/ CheckWorktree \/ Reopen \/ AppendResumed \/ Trim

\* What agents, people, time and failures do to it.
OutsideStep ==
    \/ Open
    \/ \E r \in Reqs : Propose(r)
    \/ \E s \in RunSources : Decide(s, TRUE)
    \/ Decide("operator", FALSE)
    \/ \E approved \in BOOLEAN : FinalReview(approved)
    \/ \E ok \in BOOLEAN : AgentExits(ok)
    \/ \E p \in Paths, c \in Reqs \cup {Base} : AgentWrites(p, c)
    \/ OverBudget \/ Deadline \/ Cancel \/ Crash
    \/ Acknowledge
    \/ \E c \in Strangers : BranchMoved(c)

RunStep ==
    /\ \/ ProcessStep
       \/ ResumeStep
       \/ OutsideStep
       \/ Claim /\ (Overlap \/ rec.pc = "none")
    /\ UNCHANGED rec

RecoverStep ==
    \/ RecoverRead /\ (Overlap \/ owner = "none")
    \/ RecoverClaim
    \/ \E approved \in BOOLEAN : RecoverReview(approved)
    \/ RecoverOp \/ RecoverDeliver \/ RecoverKeep \/ RecoverCertify \/ RecoverRecord
    \/ RecoverFinish \/ RecoverStops \/ RecoverCrash

OrchestratorInit == Init /\ rec = NoRec
Next == RunStep \/ RecoverStep
Spec == OrchestratorInit /\ [][Next]_allVars

\* The process is scheduled, a run with a limit reaches it, and whoever is asked for
\* the final review answers; the loop's select does not pass over its limit for ever.
Fairness ==
    /\ WF_allVars(RunStep /\ (ProcessStep \/ ResumeStep))
    /\ SF_allVars(RunStep /\ LoopEnds)
    /\ WF_allVars(RunStep /\ Deadline)
    /\ WF_allVars(RunStep /\ \E approved \in BOOLEAN : FinalReview(approved))
FairSpec == Spec /\ Fairness

-----------------------------------------------------------------------------
(* Properties.                                                             *)

\* Every variable keeps its shape.
TypeOK ==
    /\ db \in Rows
    /\ hist \in Histories
    /\ journal \in Journals
    /\ branch \in Commits
    /\ worktree \in Trees
    /\ op \in Ops
    /\ owner \in {"none", "run", "recovery"}
    /\ run \in Runs
    /\ run.pc \in {"decide", "ruled", "append", "answer"} => run.ruling.req \in Reqs
    /\ run.pc = "certify" => run.commit \in Commits
    /\ told \subseteq Lines
    /\ crashes \in Nat
    /\ rec \in Recs
    /\ rec.pc \in {"keep", "certify", "record", "finish"} => rec.commit \in Commits

\* consume.go: an approval an agent was told of is on the chain and its request is in
\* the journal, whatever crashed, failed or was recovered since: no released approval
\* can be missing from a recovery.
ReleasedIsRecoverable ==
    ~hist.broken =>
    \A t \in told : /\ \E d \in Approvals(hist) : d.seq = t.seq /\ d.req = t.req
                    /\ t \in journal.lines

\* recover_history.go: no crash, failed write or expired decision leaves a journal
\* that reconcile refuses; a run can always be opened again.
JournalReconciles == hist.bound /\ ~hist.broken => Reconciles(hist, journal)

\* history.go: no order of the commands' events is refused by the replay.
ChainReadable == ~hist.broken

Moved == branch.maker \in {"run", "recovery"}

\* The commit on the branch was named durably before the branch moved: on the chain by
\* the run, in the recovery record by a recovery.
NamedBeforeMoved ==
    /\ branch.maker = "run" => Delivers(hist, "commit_prepared", branch)
    /\ branch.maker = "recovery" => op.made /\ branch = OwnCommit

\* The commit of the row is the commit of the branch; what a recovery records as its
\* commit is too.
RecordNamesBranch ==
    /\ db.commit # NoCommit => db.commit = branch
    /\ op.commit # NoCommit => op.commit = branch

\* A run whose row says SUCCESS has delivered everything that was approved.
SuccessIsDelivered == db.status = "SUCCESS" /\ Approvals(hist) # {} => Moved /\ db.commit = branch

\* The records tell what is on the branch, at every step and after every crash: it was named first, the row and the recovery
\* record name it, and a success has all that was approved on it (finalize, Recover).
RecordsAgree == NamedBeforeMoved /\ RecordNamesBranch /\ SuccessIsDelivered

\* runowner.go: one process drives, continues or recovers a run at a time.
OneDriver == ~(run.pc # "none" /\ rec.pc \notin {"none", "claim"})

\* The branch leaves the base once and never moves again, whoever moved it.
BranchMovesOnce == [][branch # BaseCommit => branch' = branch]_allVars

\* An agent is launched only when every earlier launch that was lost has been
\* acknowledged by a person, fewer than the limit were lost, and the worktree it gets
\* holds exactly the approved state.
Launches == Len(hist'.launches) > Len(hist.launches)
LaunchedSafely ==
    [][Launches => /\ LostCount(hist) < MaxLostLaunches
                   /\ \A i \in Lost(hist) : hist.launches[i].acked
                   /\ worktree = TreeOf(Approvals(hist))]_allVars

\* After the limit or a cancellation no approval is consumed, on whatever path it was
\* decided, and a journaled one is on the chain as unconsumed.
ExpiredIsNotConsumed ==
    [][(run.pc = "append" /\ hist' # hist /\ run.live # "live") =>
          /\ Approvals(hist') = Approvals(hist)
          /\ run.ruling.journaled => \E d \in Unconsumed(hist') : d.seq = run.total]_allVars

\* The promise of Delivery.tla, kept by all the commands together.
Promised == INSTANCE Delivery WITH
    Numbers <- 1..MaxSeq,
    Approvers <- RunSources,
    decided <- {[seq |-> d.seq, req |-> d.req, source |-> d.source] : d \in Approvals(hist)},
    reviewed <- {d.tree : d \in {e \in hist.decisions : e.kind = "final_review" /\ e.approved}},
    delivered <- IF Moved THEN branch.tree ELSE [p \in Paths |-> None]
Promise == Promised!PromiseSpec

\* A process that has taken a run lets it go: no wait for an agent or a person is
\* without an end.
RunEnds == run.pc # "none" ~> run.pc = "none"
=============================================================================
