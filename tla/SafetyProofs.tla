---------------------------- MODULE SafetyProofs ----------------------------
(***************************************************************************)
(* Safety theorems about Orchestrator.tla: the branch moves once, and no   *)
(* approval an agent was told of can be lost.                              *)
(*                                                                         *)
(* ReleasedIsRecoverable is not inductive: it says nothing of the approval *)
(* that is being consumed, nor of the numbers that keep a continuation     *)
(* from dropping its journal line.  Durable adds both.                     *)
(***************************************************************************)
EXTENDS OrchestratorProofs

\* Anything a step changes.
LEMMA StepCases ==
    ASSUME [Next]_allVars
    PROVE  RunStep \/ RecoverStep \/ UNCHANGED allVars
BY DEF Next

-----------------------------------------------------------------------------
(* The branch.                                                             *)

LEMMA RunMovesBranch == RunStep => branch' = branch \/ branch = BaseCommit
<1> SUFFICES ASSUME RunStep PROVE branch' = branch \/ branch = BaseCommit
    OBVIOUS
<1>1. CASE ProcessStep
    BY <1>1 DEF ProcessStep, durable, Bind, ReadPolicy, ClaimLaunch, MarkRunning, WaitEnds, Expire,
       KeepApproval, PassRejection, ConsumeFails, AppendDecision, RecordDecision, Answer, LoopEnds,
       EndLaunch, Verify, Prepare, PrepareNothing, StillGoing, Deliver, Certify, FinishRun, Release,
       SetupFails, FinalizeFails
<1>2. CASE ResumeStep
    BY <1>2 DEF ResumeStep, durable, RecordLostLaunch, RefuseParked, SettleAcknowledged,
       SettleUnparked, RefuseRecords, CheckWorktree, Reopen, AppendResumed, Trim, TrimUpTo
<1>3. CASE OutsideStep
    BY <1>3 DEF OutsideStep, durable, Open, Propose, Decide, FinalReview, AgentExits, AgentWrites,
       OverBudget, Deadline, Cancel, Crash, Acknowledge, BranchMoved
<1>4. CASE Claim
    BY <1>4 DEF Claim
<1> QED BY <1>1, <1>2, <1>3, <1>4 DEF RunStep

\* A recovery that finds its own commit, or the run's, on the branch leaves it there.
LEMMA RecoveryMovesBranch == RecoverStep => branch' = branch \/ branch = BaseCommit
BY DEF RecoverStep, RecoverRead, ReadNeeding, vars, RecoverClaim, RecoverReview, ReviewNumbered,
   RecoverOp, RecoverDeliver, RecoverKeep, RecoverCertify, RecoverRecord, RecoverFinish,
   RecoverStops, RecoverCrash

\* update-ref with the base as the old value, in approval.go and in recover.go: whatever
\* is retried, interrupted or done by someone else, the branch moves off the base once.
THEOREM MovesOnce == Spec => BranchMovesOnce
<1>1. [Next]_allVars => [branch # BaseCommit => branch' = branch]_allVars
    BY StepCases, RunMovesBranch, RecoveryMovesBranch
<1> QED BY <1>1, PTL DEF Spec, BranchMovesOnce

-----------------------------------------------------------------------------
(* Histories only grow.                                                    *)

\* g continues h: what was decided stays decided, and a broken chain stays broken.
Continues(h, g) == h.decisions \subseteq g.decisions /\ (h.broken => g.broken)

\* Numbers are given in order.
Ordered(h) == \A d \in h.decisions : d.seq <= h.lastDecided

Grows(h, g) == Continues(h, g) /\ (Ordered(h) => Ordered(g))

LEMMA EventsGrow ==
    ASSUME NEW h \in Histories
    PROVE  /\ Grows(h, h)
           /\ Grows(h, RunBound(h))
           /\ Grows(h, PolicySnapshot(h))
           /\ Grows(h, DriftHalt(h))
           /\ \A ack \in BOOLEAN : Grows(h, RunResumed(h, ack))
           /\ Grows(h, LaunchClaimed(h))
           /\ \A outcome \in Outcomes : Grows(h, LaunchEnded(h, outcome))
           /\ Grows(h, LaunchAcknowledged(h))
           /\ \A r \in Reqs : Grows(h, YieldRequest(h, r))
           /\ \A d \in Decision : Grows(h, YieldDecided(h, d))
           /\ \A event \in Events, c \in Commits : Grows(h, CommitEvent(h, event, c))
<1>0. ASSUME NEW g \in Histories, g.decisions = h.decisions, g.lastDecided = h.lastDecided,
             h.broken => g.broken
      PROVE  Grows(h, g)
    BY <1>0 DEF Grows, Continues, Ordered
<1>1. /\ RunBound(h).decisions = h.decisions /\ RunBound(h).lastDecided = h.lastDecided
      /\ h.broken => RunBound(h).broken
    BY DEF RunBound, Histories
<1>2. /\ PolicySnapshot(h).decisions = h.decisions /\ PolicySnapshot(h).lastDecided = h.lastDecided
      /\ h.broken => PolicySnapshot(h).broken
    BY DEF PolicySnapshot, Accept, Histories
<1>3. /\ DriftHalt(h).decisions = h.decisions /\ DriftHalt(h).lastDecided = h.lastDecided
      /\ h.broken => DriftHalt(h).broken
    BY DEF DriftHalt, Accept, Histories
<1>4. ASSUME NEW ack \in BOOLEAN
      PROVE  /\ RunResumed(h, ack).decisions = h.decisions
             /\ RunResumed(h, ack).lastDecided = h.lastDecided
             /\ h.broken => RunResumed(h, ack).broken
    BY DEF RunResumed, Accept, Histories
<1>5. /\ LaunchClaimed(h).decisions = h.decisions /\ LaunchClaimed(h).lastDecided = h.lastDecided
      /\ h.broken => LaunchClaimed(h).broken
    BY DEF LaunchClaimed, Accept, Histories
<1>6. ASSUME NEW outcome \in Outcomes
      PROVE  /\ LaunchEnded(h, outcome).decisions = h.decisions
             /\ LaunchEnded(h, outcome).lastDecided = h.lastDecided
             /\ h.broken => LaunchEnded(h, outcome).broken
    BY DEF LaunchEnded, Accept, Histories
<1>7. /\ LaunchAcknowledged(h).decisions = h.decisions
      /\ LaunchAcknowledged(h).lastDecided = h.lastDecided
      /\ h.broken => LaunchAcknowledged(h).broken
    BY DEF LaunchAcknowledged, Accept, Histories
<1>8. ASSUME NEW r \in Reqs
      PROVE  /\ YieldRequest(h, r).decisions = h.decisions
             /\ YieldRequest(h, r).lastDecided = h.lastDecided
             /\ h.broken => YieldRequest(h, r).broken
    BY DEF YieldRequest, Accept, Histories
<1>9. ASSUME NEW event \in Events, NEW c \in Commits
      PROVE  /\ CommitEvent(h, event, c).decisions = h.decisions
             /\ CommitEvent(h, event, c).lastDecided = h.lastDecided
             /\ h.broken => CommitEvent(h, event, c).broken
    BY DEF CommitEvent, Accept, Histories
<1>10. ASSUME NEW d \in Decision PROVE Grows(h, YieldDecided(h, d))
    <2> DEFINE next == [h EXCEPT !.decisions = @ \cup {d}, !.lastDecided = d.seq,
                                 !.pending = IF d.kind = "file_edit" THEN None ELSE @]
    <2>1. \/ YieldDecided(h, d) = [h EXCEPT !.broken = TRUE]
          \/ d.seq > h.lastDecided /\ YieldDecided(h, d) = next
        BY DEF YieldDecided, Accept
    <2>2. d.seq \in Nat /\ h.lastDecided \in Nat /\ \A e \in h.decisions : e.seq \in Nat
        BY DEF Decision, Histories
    <2>3. Grows(h, [h EXCEPT !.broken = TRUE])
        BY DEF Grows, Continues, Ordered, Histories
    <2>4. /\ next.decisions = h.decisions \cup {d} /\ next.lastDecided = d.seq
          /\ next.broken = h.broken
        BY DEF Histories
    <2>5. d.seq > h.lastDecided => Grows(h, next)
        BY <2>2, <2>4 DEF Grows, Continues, Ordered
    <2> QED BY <2>1, <2>3, <2>5
<1>11. Grows(h, h)
    BY DEF Grows, Continues, Ordered
<1> QED BY <1>0, <1>1, <1>2, <1>3, <1>4, <1>5, <1>6, <1>7, <1>8, <1>9, <1>10, <1>11, EventTypes, LaunchTypes

LEMMA ProcessGrows == TypeOK /\ (ProcessStep \/ ResumeStep) => Grows(hist, hist')
<1> SUFFICES ASSUME TypeOK, ProcessStep \/ ResumeStep PROVE Grows(hist, hist')
    OBVIOUS
<1>0. hist \in Histories /\ run \in Runs /\ Grows(hist, hist)
    BY EventsGrow DEF TypeOK
<1>1. CASE Bind \/ ReadPolicy \/ ClaimLaunch \/ LoopEnds \/ Answer \/ \E o \in Outcomes : EndLaunch(o)
    BY <1>0, <1>1, EventsGrow DEF Bind, ReadPolicy, ClaimLaunch, LoopEnds, Answer, EndLaunch
<1>2. CASE AppendDecision
    <2>1. PICK d \in Decision : hist' = YieldDecided(hist, d)
        BY <1>2, AppendIsDecision
    <2> QED BY <1>0, <2>1, EventsGrow
<1>3. CASE Prepare \/ Certify
    <2>1. \E event \in Events, c \in Commits : hist' = CommitEvent(hist, event, c) \/ hist' = hist
        BY <1>0, <1>3, CommitType DEF Prepare, Certify, TypeOK, Runs, Events
    <2> QED BY <1>0, <2>1, EventsGrow
<1>4. CASE RecordLostLaunch \/ SettleAcknowledged \/ AppendResumed
    BY <1>0, <1>4, EventsGrow DEF RecordLostLaunch, SettleAcknowledged, AppendResumed, Outcomes
<1>5. CASE hist' = hist
    BY <1>0, <1>5
<1> QED BY <1>1, <1>2, <1>3, <1>4, <1>5
    DEF ProcessStep, ResumeStep, durable, MarkRunning, WaitEnds, Expire, KeepApproval, PassRejection,
        ConsumeFails, Verify, PrepareNothing, StillGoing, Deliver, FinishRun, Release, SetupFails,
        FinalizeFails, RefuseParked, SettleUnparked, RefuseRecords, CheckWorktree, Reopen, Trim, TrimUpTo

LEMMA OutsideGrows == TypeOK /\ (OutsideStep \/ Claim) => Grows(hist, hist')
<1> SUFFICES ASSUME TypeOK, OutsideStep \/ Claim PROVE Grows(hist, hist')
    OBVIOUS
<1>0. hist \in Histories /\ run.total + 1 \in Nat /\ run.files \in Trees /\ Grows(hist, hist)
    BY EventsGrow DEF TypeOK, Runs
<1>1. CASE \E r \in Reqs : Propose(r)
    BY <1>0, <1>1, EventsGrow DEF Propose
<1>2. CASE \E approved \in BOOLEAN : FinalReview(approved)
    BY <1>0, <1>2, ReviewType, EventsGrow DEF FinalReview
<1>3. CASE Acknowledge
    <2> DEFINE ended == IF OpenLaunch(hist) THEN LaunchEnded(hist, "lost") ELSE hist
    <2>1. ended \in Histories /\ Grows(hist, ended)
        BY <1>0, LaunchTypes, EventsGrow DEF Outcomes
    <2>2. hist' \in {ended, LaunchAcknowledged(ended)}
        BY <1>3 DEF Acknowledge
    <2> HIDE DEF ended
    <2>3. Grows(ended, LaunchAcknowledged(ended))
        BY <2>1, EventsGrow
    <2> QED BY <2>1, <2>2, <2>3 DEF Grows, Continues
<1>4. CASE hist' = hist
    BY <1>0, <1>4
<1> QED BY <1>1, <1>2, <1>3, <1>4
    DEF OutsideStep, durable, Open, Decide, AgentExits, AgentWrites, OverBudget, Deadline, Cancel,
        Crash, BranchMoved, Claim

LEMMA RecoveryGrows == TypeOK /\ RecoverStep => Grows(hist, hist')
<1> SUFFICES ASSUME TypeOK, RecoverStep PROVE Grows(hist, hist')
    OBVIOUS
<1>0. hist \in Histories /\ rec \in Recs /\ Grows(hist, hist)
    BY EventsGrow DEF TypeOK
<1>1. CASE \E approved \in BOOLEAN : RecoverReview(approved)
    <2>1. rec.seen.lastDecided + 1 \in Nat /\ Want \in Trees
        BY <1>0, WantType DEF Recs, Histories
    <2> QED BY <1>0, <1>1, <2>1, ReviewType, EventsGrow DEF RecoverReview, ReviewNumbered
<1>2. CASE RecoverCertify \/ RecoverRecord
    <2>1. rec.commit \in Commits
        BY <1>2 DEF RecoverCertify, RecoverRecord, TypeOK
    <2> QED BY <1>0, <1>2, <2>1, EventsGrow DEF RecoverCertify, RecoverRecord, Events
<1>3. CASE hist' = hist
    BY <1>0, <1>3
<1> QED BY <1>1, <1>2, <1>3
    DEF RecoverStep, RecoverRead, ReadNeeding, vars, RecoverClaim, RecoverOp, RecoverDeliver,
        RecoverKeep, RecoverFinish, RecoverStops, RecoverCrash

\* What is decided stays decided, whatever process writes.
LEMMA HistoryGrows == TypeOK /\ [Next]_allVars => Grows(hist, hist')
<1> SUFFICES ASSUME TypeOK, [Next]_allVars PROVE Grows(hist, hist')
    OBVIOUS
<1>1. CASE UNCHANGED allVars
    BY <1>1, EventsGrow DEF allVars, vars, TypeOK
<1> QED BY <1>1, StepCases, ProcessGrows, OutsideGrows, RecoveryGrows DEF RunStep

-----------------------------------------------------------------------------
(* No released approval is lost.                                           *)

\* The proposal in the loop's hands is approved on the chain.
OnChain == \E d \in Approvals(hist) : d.seq = run.total /\ d.req = run.ruling.req

\* The inductive invariant: an approval is in the journal before the chain has it, and
\* in both before an agent is told, so a continuation, which drops only what is numbered
\* after the last decision, drops no line of it.
Durable ==
    /\ Ordered(hist)
    /\ ReleasedIsRecoverable
    /\ run.pc = "append" /\ run.ruling.approved => Line \in journal.lines
    /\ run.pc = "answer" /\ run.ruling.approved /\ ~hist.broken => Line \in journal.lines /\ OnChain

LEMMA DurableInit == OrchestratorInit => Durable
BY DEF OrchestratorInit, Init, NoHistory, NoRun, Durable, Ordered, ReleasedIsRecoverable

\* A step that tells no agent anything, drops no journal line and takes no approval further.
Quiet ==
    /\ told' = told
    /\ journal.lines \subseteq journal'.lines
    /\ \/ run'.pc \notin {"append", "answer"}
       \/ ~run'.ruling.approved
       \/ run'.pc = run.pc /\ run'.ruling = run.ruling /\ run'.total = run.total

LEMMA ApprovalsGrow ==
    ASSUME NEW h, NEW g, Continues(h, g)
    PROVE  Approvals(h) \subseteq Approvals(g)
BY DEF Continues, Approvals

LEMMA QuietKeeps ==
    ASSUME Durable, Grows(hist, hist'), Quiet
    PROVE  Durable'
<1>1. Ordered(hist') /\ Approvals(hist) \subseteq Approvals(hist') /\ (~hist'.broken => ~hist.broken)
    BY ApprovalsGrow DEF Durable, Grows, Continues
<1>2. ReleasedIsRecoverable'
    BY <1>1 DEF Durable, ReleasedIsRecoverable, Quiet
<1>3. CASE run'.pc \notin {"append", "answer"} \/ ~run'.ruling.approved
    BY <1>1, <1>2, <1>3 DEF Durable
<1>4. CASE run'.pc = run.pc /\ run'.ruling = run.ruling /\ run'.total = run.total
    BY <1>1, <1>2, <1>4 DEF Durable, Quiet, Line, OnChain
<1> QED BY <1>3, <1>4 DEF Quiet

LEMMA OutsideQuiet == TypeOK /\ (OutsideStep \/ Claim) => Quiet
<1> SUFFICES ASSUME TypeOK, OutsideStep \/ Claim PROVE Quiet
    OBVIOUS
<1>0. run \in Runs /\ journal \in Journals
    BY DEF TypeOK
<1>1. CASE (\E r \in Reqs : Propose(r)) \/ Open \/ OverBudget
    BY <1>0, <1>1 DEF Propose, Open, OverBudget, Goto, EndAs, durable, Runs, Quiet
<1>2. CASE (\E ok \in BOOLEAN : AgentExits(ok)) \/ \E approved \in BOOLEAN : FinalReview(approved)
    BY <1>0, <1>2 DEF AgentExits, FinalReview, Goto, EndAs, durable, Runs, Quiet
<1>3. CASE (\E s \in RunSources : Decide(s, TRUE)) \/ Decide("operator", FALSE)
    BY <1>0, <1>3 DEF Decide, Rule, durable, Runs, Quiet
<1>4. CASE Deadline \/ Cancel
    BY <1>0, <1>4 DEF Deadline, Cancel, durable, Runs, Quiet
<1>5. CASE Crash
    BY <1>0, <1>5 DEF Crash, NoRun, Journals, Quiet
<1>6. CASE \/ \E f \in Paths, c \in Reqs \cup {Base} : AgentWrites(f, c)
           \/ Acknowledge
           \/ \E c \in Strangers : BranchMoved(c)
    BY <1>6 DEF AgentWrites, Acknowledge, BranchMoved, Quiet
<1>7. CASE Claim
    BY <1>7 DEF Claim, NoRun, Quiet
<1> QED BY <1>1, <1>2, <1>3, <1>4, <1>5, <1>6, <1>7 DEF OutsideStep

LEMMA ResumeQuiet == TypeOK /\ ResumeStep => Quiet \/ Trim
<1> SUFFICES ASSUME TypeOK, ResumeStep PROVE Quiet \/ Trim
    OBVIOUS
<1>0. run \in Runs
    BY DEF TypeOK
<1>1. CASE RecordLostLaunch
    BY <1>1 DEF RecordLostLaunch, Quiet
<1>2. CASE RefuseParked \/ RefuseRecords
    BY <1>2 DEF RefuseParked, RefuseRecords, Refuse, NoRun, Quiet
<1>3. CASE SettleAcknowledged \/ SettleUnparked
    BY <1>0, <1>3 DEF SettleAcknowledged, SettleUnparked, Goto, durable, Runs, Quiet
<1>4. CASE CheckWorktree
    <2>1. Goto("reopen") \/ run' = NoRun
        BY <1>4 DEF CheckWorktree, Refuse
    <2>2. run'.pc \in {"reopen", "none"}
        BY <1>0, <2>1 DEF Goto, Runs, NoRun
    <2> QED BY <1>4, <2>2 DEF CheckWorktree, Quiet
<1>5. CASE Reopen \/ AppendResumed
    BY <1>0, <1>5 DEF Reopen, AppendResumed, Goto, Runs, Quiet
<1> QED BY <1>1, <1>2, <1>3, <1>4, <1>5 DEF ResumeStep

LEMMA ProcessQuiet == TypeOK /\ ProcessStep => Quiet \/ KeepApproval \/ AppendDecision \/ Answer
<1> SUFFICES ASSUME TypeOK, ProcessStep PROVE Quiet \/ KeepApproval \/ AppendDecision \/ Answer
    OBVIOUS
<1>0. run \in Runs /\ journal \in Journals
    BY DEF TypeOK
<1>1. CASE Bind \/ ReadPolicy \/ ClaimLaunch \/ MarkRunning \/ SetupFails \/ FinishRun
    BY <1>0, <1>1 DEF Bind, ReadPolicy, ClaimLaunch, MarkRunning, SetupFails,
       FinishRun, Goto, durable, Runs, Quiet
<1>2. CASE Verify \/ Prepare \/ PrepareNothing \/ StillGoing \/ Deliver \/ Certify \/ FinalizeFails
    <2>1. CASE Verify \/ StillGoing
        BY <1>0, <2>1 DEF Verify, StillGoing, Goto, EndAs, durable, Runs, Quiet
    <2>2. CASE Prepare \/ Certify
        BY <1>0, <2>2 DEF Prepare, Certify, Goto, Runs, Quiet
    <2>3. CASE PrepareNothing \/ FinalizeFails
        BY <1>0, <2>3 DEF PrepareNothing, FinalizeFails, EndAs, durable, Runs, Quiet
    <2>4. CASE Deliver
        BY <1>0, <2>4 DEF Deliver, Runs, Quiet
    <2> QED BY <1>2, <2>1, <2>2, <2>3, <2>4
<1>3. CASE WaitEnds
    BY <1>0, <1>3 DEF WaitEnds, Rule, durable, Runs, Quiet
<1>4. CASE Expire
    BY <1>0, <1>4 DEF Expire, durable, Runs, Rulings, Quiet
<1>5. CASE PassRejection
    BY <1>0, <1>5 DEF PassRejection, Goto, durable, Runs, Quiet
<1>6. CASE ConsumeFails
    BY <1>0, <1>6 DEF ConsumeFails, EndAs, Kept, Runs, Quiet
<1>7. CASE LoopEnds
    BY <1>0, <1>7 DEF LoopEnds, EndAs, Runs, Quiet
<1>8. CASE Release
    BY <1>8 DEF Release, NoRun, Quiet
<1>9. CASE \E o \in Outcomes : EndLaunch(o)
    <2>1. run'.pc \in {"verify", "finish"}
        BY <1>0, <1>9 DEF EndLaunch, Goto, Runs
    <2> QED BY <1>9, <2>1 DEF EndLaunch, Quiet
<1> QED BY <1>1, <1>2, <1>3, <1>4, <1>5, <1>6, <1>7, <1>8, <1>9 DEF ProcessStep

LEMMA RecoveryQuiet == RecoverStep => Quiet
BY DEF RecoverStep, RecoverRead, ReadNeeding, vars, RecoverClaim, RecoverReview, ReviewNumbered,
   RecoverOp, RecoverDeliver, RecoverKeep, RecoverCertify, RecoverRecord, RecoverFinish,
   RecoverStops, RecoverCrash, Quiet

\* The journal line comes first.
LEMMA KeepApprovalDurable == TypeOK /\ Durable /\ KeepApproval => Durable'
<1> SUFFICES ASSUME TypeOK, Durable, KeepApproval PROVE Durable'
    OBVIOUS
<1>1. run'.pc = "append" /\ Line' = Line
    BY DEF KeepApproval, TypeOK, Runs, Rulings, Line
<1>2. journal'.lines = journal.lines \cup {Line}
    BY DEF KeepApproval, Kept
<1> QED BY <1>1, <1>2 DEF KeepApproval, Durable, ReleasedIsRecoverable

\* Then the chain.
LEMMA AppendDurable ==
    ASSUME TypeOK, Durable, AppendDecision, Grows(hist, hist')
    PROVE  Durable'
<1>1. PICK good \in BOOLEAN, d \in Decision :
         /\ hist' = YieldDecided(hist, d)
         /\ d.seq = run.total /\ d.req = run.ruling.req /\ d.kind = "file_edit" /\ d.approved = good
         /\ run' = [run EXCEPT !.pc = "answer", !.ruling.approved = good]
         /\ good => run.ruling.approved
    BY AppendIsDecision
<1>2. /\ run'.pc = "answer" /\ run'.ruling.approved = good /\ run'.ruling.req = run.ruling.req
      /\ run'.total = run.total
    BY <1>1 DEF TypeOK, Runs, Rulings
<1>3. run.pc = "append" /\ journal' = journal /\ told' = told
    BY DEF AppendDecision, RecordDecision
<1>4. Ordered(hist') /\ Approvals(hist) \subseteq Approvals(hist') /\ (~hist'.broken => ~hist.broken)
    BY ApprovalsGrow DEF Durable, Grows, Continues
<1>5. ReleasedIsRecoverable'
    BY <1>3, <1>4 DEF Durable, ReleasedIsRecoverable
<1>6. ASSUME good, ~hist'.broken PROVE Line' \in journal'.lines /\ OnChain'
    <2>1. Line' = Line /\ Line \in journal.lines
        BY <1>1, <1>2, <1>3, <1>6 DEF Durable, Line
    <2>2. d \in Approvals(hist')
        BY <1>1, <1>6 DEF YieldDecided, Accept, Approvals, TypeOK, Histories
    <2> QED BY <1>1, <1>2, <1>3, <2>1, <2>2 DEF OnChain
<1> QED BY <1>2, <1>4, <1>5, <1>6 DEF Durable

\* And only then the agent is told.
LEMMA AnswerDurable ==
    ASSUME TypeOK, Durable, Answer, Grows(hist, hist')
    PROVE  Durable'
<1>1. Ordered(hist') /\ Approvals(hist) \subseteq Approvals(hist') /\ (~hist'.broken => ~hist.broken)
    BY ApprovalsGrow DEF Durable, Grows, Continues
<1>2. run'.pc \in {"loop", "stopping"} /\ journal' = journal
    BY DEF Answer, TypeOK, Runs
<1>3. ReleasedIsRecoverable'
    BY <1>1, <1>2 DEF Answer, Durable, ReleasedIsRecoverable, Line, OnChain
<1> QED BY <1>1, <1>2, <1>3 DEF Durable

\* A continuation drops only lines that no decision followed.
LEMMA TrimDurable == TypeOK /\ Durable /\ Trim => Durable'
<1> SUFFICES ASSUME TypeOK, Durable, Trim PROVE Durable'
    OBVIOUS
<1>1. /\ hist' = hist /\ told' = told /\ run'.pc = "launch"
      /\ journal'.lines = {l \in journal.lines : l.seq <= hist.lastDecided}
    BY DEF Trim, TrimUpTo, TypeOK, Runs
<1>2. ReleasedIsRecoverable'
    BY <1>1 DEF Durable, ReleasedIsRecoverable, Ordered, Approvals
<1> QED BY <1>1, <1>2 DEF Durable

LEMMA DurableStep == TypeOK /\ Durable /\ [Next]_allVars => Durable'
<1> SUFFICES ASSUME TypeOK, Durable, [Next]_allVars PROVE Durable'
    OBVIOUS
<1>1. Grows(hist, hist')
    BY HistoryGrows
<1>2. \/ Quiet \/ KeepApproval \/ AppendDecision \/ Answer \/ Trim
    <2>1. CASE UNCHANGED allVars
        BY <2>1 DEF allVars, vars, Quiet
    <2> QED BY <2>1, StepCases, OutsideQuiet, ResumeQuiet, ProcessQuiet, RecoveryQuiet DEF RunStep
<1> QED BY <1>1, <1>2, QuietKeeps, KeepApprovalDurable, AppendDurable, AnswerDurable, TrimDurable

\* consume.go, segment.go, recover.go: an approval an agent was told of is never lost, for
\* every number of crashes, continuations and recoveries.
THEOREM NothingReleasedIsLost == Spec => []ReleasedIsRecoverable
<1>1. Durable => ReleasedIsRecoverable
    BY DEF Durable
<1> QED BY <1>1, DurableInit, DurableStep, Typed, PTL DEF Spec

-----------------------------------------------------------------------------
(* One process at a time.                                                  *)

Recovering == rec.pc \notin {"none", "claim"}

\* The owner lock says who works on the run.
Owned ==
    /\ owner = "run" <=> run.pc # "none"
    /\ owner = "recovery" <=> Recovering
    /\ db.status = "NONE" => owner = "none" /\ rec.pc = "none"
    /\ Recovering => rec.status # "NONE"

LEMMA OwnedInit == OrchestratorInit => Owned
BY DEF OrchestratorInit, Init, NoRun, NoRec, Owned, Recovering

\* The run's process goes on, or gives the run up.
GoesOn ==
    /\ UNCHANGED <<owner, rec>>
    /\ (run'.pc = "none") = (run.pc = "none")
    /\ db' = db \/ db'.status # "NONE"
GivesUp == run.pc # "none" /\ run'.pc = "none" /\ owner' = "none" /\ UNCHANGED <<db, rec>>

LEMMA GoesOnOwned == Owned /\ (GoesOn \/ GivesUp) => Owned'
BY DEF GoesOn, GivesUp, Owned, Recovering

LEMMA ProcessGoesOn == TypeOK /\ ProcessStep /\ UNCHANGED rec => GoesOn \/ GivesUp
<1> SUFFICES ASSUME TypeOK, ProcessStep, UNCHANGED rec PROVE GoesOn \/ GivesUp
    OBVIOUS
<1>0. run \in Runs /\ run.ending # "NONE"
    BY DEF TypeOK, Runs
<1>1. CASE Bind \/ ReadPolicy \/ ClaimLaunch \/ MarkRunning \/ SetupFails
    BY <1>0, <1>1 DEF Bind, ReadPolicy, ClaimLaunch, MarkRunning, SetupFails, Goto, durable, Runs, GoesOn
<1>2. CASE WaitEnds \/ Expire \/ KeepApproval \/ PassRejection
    BY <1>0, <1>2 DEF WaitEnds, Rule, Expire, KeepApproval, PassRejection, Goto, durable, Runs, GoesOn
<1>3. CASE ConsumeFails \/ LoopEnds \/ PrepareNothing \/ FinalizeFails
    BY <1>0, <1>3 DEF ConsumeFails, LoopEnds, PrepareNothing, FinalizeFails, EndAs, durable, Runs, GoesOn
<1>4. CASE AppendDecision \/ Answer
    <2>1. run'.pc \in {"answer", "loop", "stopping"} /\ run.pc \in {"append", "answer"}
        BY <1>0, <1>4 DEF AppendDecision, RecordDecision, Answer, Runs
    <2> QED BY <1>4, <2>1 DEF AppendDecision, RecordDecision, Answer, GoesOn
<1>5. CASE \E o \in Outcomes : EndLaunch(o)
    <2>1. run'.pc \in {"verify", "finish"} /\ run.pc = "stopping"
        BY <1>0, <1>5 DEF EndLaunch, Goto, Runs
    <2> QED BY <1>5, <2>1 DEF EndLaunch, GoesOn
<1>6. CASE Verify \/ StillGoing
    BY <1>0, <1>6 DEF Verify, StillGoing, Goto, EndAs, durable, Runs, GoesOn
<1>7. CASE Prepare \/ Deliver \/ Certify
    BY <1>0, <1>7 DEF Prepare, Deliver, Certify, Goto, Runs, GoesOn
<1>8. CASE FinishRun
    BY <1>0, <1>8 DEF FinishRun, Goto, Runs, GoesOn
<1>9. CASE Release
    BY <1>9 DEF Release, NoRun, GivesUp
<1> QED BY <1>1, <1>2, <1>3, <1>4, <1>5, <1>6, <1>7, <1>8, <1>9 DEF ProcessStep

LEMMA ResumeGoesOn == TypeOK /\ ResumeStep /\ UNCHANGED rec => GoesOn \/ GivesUp
<1> SUFFICES ASSUME TypeOK, ResumeStep, UNCHANGED rec PROVE GoesOn \/ GivesUp
    OBVIOUS
<1>0. run \in Runs
    BY DEF TypeOK
<1>1. CASE RecordLostLaunch \/ SettleAcknowledged \/ SettleUnparked
    BY <1>0, <1>1 DEF RecordLostLaunch, SettleAcknowledged, SettleUnparked, Goto, durable, Runs, GoesOn
<1>2. CASE RefuseParked \/ RefuseRecords
    BY <1>2 DEF RefuseParked, RefuseRecords, Refuse, NoRun, GivesUp
<1>3. CASE CheckWorktree
    <2>1. CASE Refuse
        BY <1>3, <2>1 DEF CheckWorktree, Refuse, NoRun, GivesUp
    <2>2. CASE Goto("reopen") /\ UNCHANGED owner
        BY <1>0, <1>3, <2>2 DEF CheckWorktree, Goto, Runs, GoesOn
    <2> QED BY <1>3, <2>1, <2>2 DEF CheckWorktree
<1>4. CASE AppendResumed \/ Trim
    BY <1>0, <1>4 DEF AppendResumed, Trim, TrimUpTo, Goto, Runs, GoesOn
<1>5. CASE Reopen
    BY <1>0, <1>5 DEF Reopen, Goto, TypeOK, Rows, Runs, GoesOn
<1> QED BY <1>1, <1>2, <1>3, <1>4, <1>5 DEF ResumeStep

LEMMA OutsideOwned == TypeOK /\ Owned /\ (OutsideStep \/ Claim) /\ UNCHANGED rec => Owned'
<1> SUFFICES ASSUME TypeOK, Owned, OutsideStep \/ Claim, UNCHANGED rec PROVE Owned'
    OBVIOUS
<1>0. run \in Runs
    BY DEF TypeOK
<1>1. CASE Open
    BY <1>0, <1>1 DEF Open, Goto, TypeOK, Rows, Runs, Owned, Recovering
<1>2. CASE Claim
    BY <1>2 DEF Claim, Continuable, NoRun, Owned, Recovering
<1>3. CASE Crash
    BY <1>3, GoesOnOwned DEF Crash, NoRun, GivesUp
<1>4. CASE (\E r \in Reqs : Propose(r)) \/ (\E s \in RunSources : Decide(s, TRUE)) \/ Decide("operator", FALSE)
    BY <1>0, <1>4, GoesOnOwned DEF Propose, Decide, Rule, durable, Runs, GoesOn
<1>5. CASE (\E ok \in BOOLEAN : AgentExits(ok)) \/ \E approved \in BOOLEAN : FinalReview(approved)
    BY <1>0, <1>5, GoesOnOwned DEF AgentExits, FinalReview, Goto, EndAs, durable, Runs, GoesOn
<1>6. CASE OverBudget \/ Deadline \/ Cancel
    BY <1>0, <1>6, GoesOnOwned DEF OverBudget, Deadline, Cancel, EndAs, durable, Runs, GoesOn
<1>7. CASE \/ \E f \in Paths, c \in Reqs \cup {Base} : AgentWrites(f, c)
           \/ Acknowledge
           \/ \E c \in Strangers : BranchMoved(c)
    BY <1>7, GoesOnOwned DEF AgentWrites, Acknowledge, BranchMoved, GoesOn
<1> QED BY <1>1, <1>2, <1>3, <1>4, <1>5, <1>6, <1>7 DEF OutsideStep

LEMMA RecoveryOwned == TypeOK /\ Owned /\ RecoverStep => Owned'
<1> SUFFICES ASSUME TypeOK, Owned, RecoverStep PROVE Owned'
    OBVIOUS
<1>0. rec \in Recs
    BY DEF TypeOK
<1>1. CASE RecoverRead
    BY <1>1 DEF RecoverRead, ReadNeeding, Recoverable, NoRec, vars, Owned, Recovering
<1>2. CASE RecoverClaim
    <2>1. rec'.status = db.status /\ rec'.pc \in {"deliver", "review", "op"}
        BY <1>0, <1>2 DEF RecoverClaim, Recs
    <2> QED BY <1>2, <2>1 DEF RecoverClaim, Owned, Recovering
<1>3. CASE \E approved \in BOOLEAN : RecoverReview(approved)
    BY <1>0, <1>3 DEF RecoverReview, ReviewNumbered, RecGoto, NoRec, Recs, Owned, Recovering
<1>4. CASE RecoverOp \/ RecoverKeep \/ RecoverCertify \/ RecoverRecord \/ RecoverDeliver
    BY <1>0, <1>4 DEF RecoverOp, RecoverKeep, RecoverCertify, RecoverRecord, RecoverDeliver, RecGoto,
       Recs, Owned, Recovering
<1>5. CASE RecoverFinish
    BY <1>5 DEF RecoverFinish, NoRec, Owned, Recovering
<1>6. CASE RecoverStops \/ RecoverCrash
    BY <1>6 DEF RecoverStops, RecoverCrash, NoRec, Owned, Recovering
<1> QED BY <1>1, <1>2, <1>3, <1>4, <1>5, <1>6 DEF RecoverStep

LEMMA OwnedStep == TypeOK /\ Owned /\ [Next]_allVars => Owned'
<1> SUFFICES ASSUME TypeOK, Owned, [Next]_allVars PROVE Owned'
    OBVIOUS
<1>1. CASE UNCHANGED allVars
    BY <1>1 DEF allVars, vars, Owned, Recovering
<1> QED BY <1>1, StepCases, GoesOnOwned, ProcessGoesOn, ResumeGoesOn, OutsideOwned, RecoveryOwned DEF RunStep

\* runowner.go: no process drives, continues or recovers a run that another one owns,
\* also when a recovery read the records before somebody else took the run.
THEOREM OneDriverAtATime == Spec => []OneDriver
<1>1. Owned => OneDriver
    BY DEF Owned, OneDriver, Recovering
<1> QED BY <1>1, OwnedInit, OwnedStep, Typed, PTL DEF Spec
=============================================================================
