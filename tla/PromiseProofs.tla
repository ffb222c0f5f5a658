---------------------------- MODULE PromiseProofs ----------------------------
(***************************************************************************)
(* The processes of Orchestrator.tla, with every crash, failed write and   *)
(* recovery, implement the promise of Delivery.tla: the theorem that the   *)
(* one specification refines the other when nobody drives a run between a  *)
(* recovery's reading and its claim.                                       *)
(*                                                                         *)
(* An approval is an Approve when the chain has it, a final review a       *)
(* Review, and the branch's own move, by the run or by a recovery, is the  *)
(* Move.  Every other step changes nothing the promise speaks of.          *)
(***************************************************************************)
EXTENDS ChainProofs

-----------------------------------------------------------------------------
(* What the promise sees of the run.                                       *)

Summary(A) == {[seq |-> d.seq, req |-> d.req, source |-> d.source] : d \in A}
FinalTrees(h) == {d.tree : d \in {e \in h.decisions : e.kind = "final_review" /\ e.approved}}
OnBranch == IF Moved THEN branch.tree ELSE [p \in Paths |-> None]

\* Nobody decides two things under one number.
OneEach == \A d, e \in hist.decisions : d.seq = e.seq => d = e

LEMMA OneEachInit == OrchestratorInit => OneEach
BY DEF OrchestratorInit, Init, NoHistory, OneEach

\* A number of its own is what makes a summary tell the same tree.
LEMMA SummaryTree ==
    ASSUME NEW A, \A a \in A : a.seq \in Nat, \A a, b \in A : a.seq = b.seq => a = b
    PROVE  TreeOf(Summary(A)) = TreeOf(A)
<1> DEFINE of(S, f) == {e \in S : PathOf[e.req] = f}
           last(S, f) == {x \in of(S, f) : \A e \in of(S, f) : e.seq <= x.seq}
           sum(a) == [seq |-> a.seq, req |-> a.req, source |-> a.source]
<1>1. ASSUME NEW f \in Paths PROVE ContentOf(Summary(A), f) = ContentOf(A, f)
    <2>0. \A a : sum(a).seq = a.seq /\ sum(a).req = a.req
        OBVIOUS
    <2>1. \A a \in A : sum(a) \in Summary(A)
        BY DEF Summary
    <2>2. \A s \in Summary(A) : \E a \in A : s = sum(a)
        BY DEF Summary
    <2> HIDE DEF sum
    <2>3. \A a \in A : a \in of(A, f) <=> sum(a) \in of(Summary(A), f)
        BY <2>0, <2>1
    <2>4. ASSUME NEW a \in A PROVE a \in last(A, f) <=> sum(a) \in last(Summary(A), f)
        BY <2>0, <2>1, <2>2, <2>3
    <2>5. CASE last(A, f) = {}
        <3>1. last(Summary(A), f) = {}
            BY <2>2, <2>5, <2>4
        <3> QED BY <2>5, <3>1 DEF ContentOf
    <2>6. CASE last(A, f) # {}
        <3>1. PICK x : x \in last(A, f)
            BY <2>6
        <3>2. \A y \in last(A, f) : y.seq = x.seq
            BY <3>1
        <3>3. last(A, f) = {x}
            BY <3>1, <3>2
        <3>4. last(Summary(A), f) = {sum(x)}
            BY <2>2, <2>4, <3>1, <3>3
        <3> QED BY <2>0, <2>6, <3>3, <3>4 DEF ContentOf
    <2> QED BY <2>5, <2>6
<1> QED BY <1>1 DEF TreeOf

LEMMA ApprovedTree ==
    ASSUME TypeOK, OneEach
    PROVE  TreeOf(Summary(Approvals(hist))) = TreeOf(Approvals(hist))
<1>1. \A a \in Approvals(hist) : a.seq \in Nat
    BY ApprovalsType DEF TypeOK, Decision
<1>2. \A a, b \in Approvals(hist) : a.seq = b.seq => a = b
    BY DEF OneEach, Approvals
<1> QED BY <1>1, <1>2, SummaryTree

-----------------------------------------------------------------------------
(* Who changes it.                                                         *)

LEMMA WhoDecides ==
    ASSUME TypeOK, [Next]_allVars
    PROVE  \/ hist'.decisions = hist.decisions
           \/ AppendDecision
           \/ \E approved \in BOOLEAN : FinalReview(approved) \/ RecoverReview(approved)
<1>1. CASE Plain(hist, hist') \/ UNCHANGED allVars
    BY <1>1 DEF Plain, allVars, vars
<1>2. CASE Bind
    BY <1>2, RunBoundBinds DEF Bind, TypeOK
<1>3. CASE Prepare \/ Certify \/ RecoverCertify \/ RecoverRecord
    <2>1. [tree |-> run.files, maker |-> "run"] \in Commits
        BY CommitType DEF TypeOK, Runs
    <2>2. hist' = hist \/ \E event \in Events, c \in Commits : hist' = CommitEvent(hist, event, c)
        BY <1>3, <2>1 DEF Prepare, Certify, RecoverCertify, RecoverRecord, TypeOK, Events
    <2> QED BY <2>2, CommitEventDelivers DEF TypeOK
<1> QED BY <1>1, <1>2, <1>3, StepCases, RunHistory, RecoverHistory

LEMMA WhoMoves ==
    ASSUME [Next]_allVars
    PROVE  branch' = branch \/ Deliver \/ RecoverDeliver \/ \E c \in Strangers : BranchMoved(c)
<1>1. CASE RunStep
    <2>1. ProcessStep \/ ResumeStep => branch' = branch \/ Deliver
        BY DEF ProcessStep, ResumeStep, durable, Bind, ReadPolicy, ClaimLaunch, MarkRunning, WaitEnds, Expire,
           KeepApproval, PassRejection, ConsumeFails, AppendDecision, RecordDecision, Answer, LoopEnds, EndLaunch, Verify,
           Prepare, PrepareNothing, StillGoing, Certify, FinishRun, Release, SetupFails, FinalizeFails, RecordLostLaunch,
           RefuseParked, SettleAcknowledged, SettleUnparked, RefuseRecords, CheckWorktree, Reopen, AppendResumed, Trim,
           TrimUpTo
    <2>2. OutsideStep \/ Claim => branch' = branch \/ \E c \in Strangers : BranchMoved(c)
        BY DEF OutsideStep, durable, Open, Propose, Decide, FinalReview, AgentExits, AgentWrites, OverBudget, Deadline,
           Cancel, Crash, Acknowledge, Claim
    <2> QED BY <1>1, <2>1, <2>2 DEF RunStep
<1>2. CASE RecoverStep
    BY <1>2 DEF RecoverStep, RecoverRead, ReadNeeding, vars, RecoverClaim, RecoverReview, ReviewNumbered, RecoverOp,
       RecoverKeep, RecoverCertify, RecoverRecord, RecoverFinish, RecoverStops, RecoverCrash
<1> QED BY <1>1, <1>2, StepCases DEF allVars, vars

LEMMA DecidesOnce ==
    ASSUME TypeOK, [Next]_allVars, hist'.decisions # hist.decisions
    PROVE  /\ branch' = branch
           /\ \E d \in Decision : DecidesOrBreaks(hist, hist', d)
<1>1. run.total + 1 \in Nat /\ run.files \in Trees /\ Want \in Trees /\ rec.seen.lastDecided + 1 \in Nat
    BY WantType DEF TypeOK, Runs, Recs, Histories
<1>2. CASE AppendDecision
    <2>1. branch' = branch
        BY <1>2 DEF AppendDecision, RecordDecision
    <2>2. \E d \in Decision : hist' = YieldDecided(hist, d)
        BY <1>2, AppendIsDecision
    <2> QED BY <2>1, <2>2, YieldDecidedDecides DEF TypeOK
<1>3. CASE \E approved \in BOOLEAN : FinalReview(approved) \/ RecoverReview(approved)
    <2>1. branch' = branch
        BY <1>3 DEF FinalReview, RecoverReview, ReviewNumbered
    <2>2. \E d \in Decision : hist' = YieldDecided(hist, d)
        BY <1>1, <1>3, ReviewType DEF FinalReview, RecoverReview, ReviewNumbered
    <2> QED BY <2>1, <2>2, YieldDecidedDecides DEF TypeOK
<1> QED BY <1>2, <1>3, WhoDecides

LEMMA OneEachStep == TypeOK /\ Ordered(hist) /\ OneEach /\ [Next]_allVars => OneEach'
<1> SUFFICES ASSUME TypeOK, Ordered(hist), OneEach, [Next]_allVars, hist'.decisions # hist.decisions PROVE OneEach'
    BY DEF OneEach
<1>1. PICK d \in Decision : hist'.decisions = hist.decisions \cup {d} /\ d.seq > hist.lastDecided
    BY DecidesOnce DEF DecidesOrBreaks
<1>2. \A e \in hist.decisions : e.seq < d.seq
    <2>1. \A e \in hist.decisions : e.seq \in Nat
        BY DEF TypeOK, Histories, Decision
    <2>2. d.seq \in Nat /\ hist.lastDecided \in Nat
        BY DEF TypeOK, Histories, Decision
    <2> QED BY <1>1, <2>1, <2>2 DEF Ordered
<1>3. d.seq \in Nat
    BY DEF Decision
<1> QED BY <1>1, <1>2, <1>3 DEF OneEach

-----------------------------------------------------------------------------
(* Each step keeps the promise.                                            *)

Everything == TypeOK /\ Owned /\ Ordered(hist) /\ Held /\ Recorded /\ FitsWhileRead /\ Whole /\ OneEach

\* Nothing of the run's own is on the branch while it may still decide.
LEMMA NotMovedYet ==
    ASSUME Everything, hist.delivered = {}, ~op.made
    PROVE  OnBranch = [p \in Paths |-> None]
<1>1. ~Moved
    BY DEF Everything, Recorded, NamedBeforeMoved, Delivers, Moved
<1> QED BY <1>1 DEF OnBranch

LEMMA SamePromise ==
    ASSUME NEW h, NEW g, g.decisions = h.decisions
    PROVE  Approvals(g) = Approvals(h) /\ FinalTrees(g) = FinalTrees(h)
BY DEF Approvals, FinalTrees

LEMMA AppendPromised ==
    ASSUME Everything, Whole', AppendDecision
    PROVE  [Promised!PromiseNext]_(Promised!promise)
<1>1. PICK good \in BOOLEAN, d \in Decision :
         /\ hist' = YieldDecided(hist, d)
         /\ d.seq = run.total /\ d.req = run.ruling.req /\ d.kind = "file_edit" /\ d.approved = good
         /\ good => run.ruling.approved /\ d.source = run.ruling.source
    BY AppendIsDecision DEF Everything
<1>2. run.pc = "append" /\ branch' = branch
    BY DEF AppendDecision, RecordDecision
<1>3. hist \in Histories /\ hist' \in Histories
    BY <1>1, EventTypes DEF Everything, TypeOK
<1>4. hist'.decisions = hist.decisions \cup {d} /\ d.seq > hist.lastDecided
    BY <1>1, <1>3, AcceptedEvents DEF Whole
<1>5. Fits /\ run.total \in 1..MaxSeq /\ hist.delivered = {} /\ ~op.made
    BY <1>2 DEF Everything, FitsWhileRead, Whole, Fits, Deciding, Unnamed, Bounded
<1>6. OnBranch = [p \in Paths |-> None] /\ OnBranch' = OnBranch
    BY <1>2, <1>5, NotMovedYet DEF OnBranch, Moved
<1>7. FinalTrees(hist') = FinalTrees(hist)
    BY <1>1, <1>4 DEF FinalTrees
<1>8. CASE good
    <2>1. d.source \in RunSources /\ d.req \in Reqs
        BY <1>1, <1>2, <1>5, <1>8 DEF Fits, MayApprove, Decision
    <2>2. Summary(Approvals(hist')) = Summary(Approvals(hist)) \cup {[seq |-> d.seq, req |-> d.req, source |-> d.source]}
        <3>1. Approvals(hist') = Approvals(hist) \cup {d}
            BY <1>1, <1>3, <1>4, <1>8, DecisionApproves
        <3> QED BY <3>1 DEF Summary
    <2>3. \A s \in Summary(Approvals(hist)) : s.seq < d.seq
        <3>1. \A a \in Approvals(hist) : a.seq \in Nat /\ a.seq <= hist.lastDecided
            BY <1>3 DEF Everything, Ordered, Approvals, Histories, Decision
        <3>2. hist.lastDecided \in Nat /\ d.seq \in Nat
            BY <1>3 DEF Histories, Decision
        <3> QED BY <1>4, <3>1, <3>2 DEF Summary
    <2>4. Promised!Approve(d.seq, d.req, d.source)
        BY <1>6, <1>7, <2>2, <2>3 DEF Promised!Approve, Promised!Nothing, Summary, FinalTrees, OnBranch
    <2> QED BY <1>1, <1>5, <2>1, <2>4 DEF Promised!PromiseNext
<1>9. CASE ~good
    <2>1. Approvals(hist') = Approvals(hist)
        BY <1>1, <1>3, <1>4, <1>9, DecisionApproves
    <2> QED BY <1>6, <1>7, <2>1 DEF Promised!promise, Summary, FinalTrees, OnBranch
<1> QED BY <1>8, <1>9

\* The person answers about the approved state: of the run, or of a recovery.
LEMMA ReviewPromised ==
    ASSUME Everything, Whole', NEW approved \in BOOLEAN, FinalReview(approved) \/ RecoverReview(approved)
    PROVE  [Promised!PromiseNext]_(Promised!promise)
<1>1. /\ run.total + 1 \in Nat /\ run.files \in Trees /\ Want \in Trees /\ rec.seen.lastDecided + 1 \in Nat
      /\ hist \in Histories
    BY WantType DEF Everything, TypeOK, Runs, Recs, Histories
<1> DEFINE tree == TreeOf(Approvals(hist))
<1>2. \E d \in Decision : /\ hist' = YieldDecided(hist, d)
                          /\ d.kind = "final_review" /\ d.approved = approved /\ d.tree = tree
    <2>1. CASE FinalReview(approved)
        <3>1. run.files = tree
            BY <2>1 DEF FinalReview, Everything, FitsWhileRead, Whole, Fits, InHand, Driving, Bounded
        <3> QED BY <1>1, <2>1, <3>1, ReviewType DEF FinalReview
    <2>2. CASE RecoverReview(approved)
        <3>1. Want = tree
            BY <2>2 DEF RecoverReview, ReviewNumbered, Want, Everything, Whole
        <3> QED BY <1>1, <2>2, <3>1, ReviewType DEF RecoverReview, ReviewNumbered
    <2> QED BY <2>1, <2>2
<1>3. PICK d \in Decision : /\ hist' = YieldDecided(hist, d)
                           /\ d.kind = "final_review" /\ d.approved = approved /\ d.tree = tree
    BY <1>2
<1>4. hist' \in Histories /\ hist'.decisions = hist.decisions \cup {d}
    BY <1>1, <1>3, AcceptedEvents, EventTypes DEF Whole
<1>5. Approvals(hist') = Approvals(hist)
    BY <1>1, <1>3, <1>4, DecisionApproves
<1>6. hist.delivered = {} /\ ~op.made /\ branch' = branch
    <2>1. CASE FinalReview(approved)
        BY <2>1 DEF FinalReview, Everything, FitsWhileRead, Whole, Fits, Unnamed, Bounded
    <2>2. CASE RecoverReview(approved)
        BY <2>2 DEF RecoverReview, ReviewNumbered, Everything, Whole, SeenStands, Recorded
    <2> QED BY <2>1, <2>2
<1>7. OnBranch = [p \in Paths |-> None] /\ OnBranch' = OnBranch
    BY <1>6, NotMovedYet DEF OnBranch, Moved
<1>8. CASE approved
    <2>1. FinalTrees(hist') = FinalTrees(hist) \cup {tree}
        <3> HIDE DEF tree
        <3> QED BY <1>3, <1>4, <1>8 DEF FinalTrees
    <2>2. tree = TreeOf(Summary(Approvals(hist))) /\ tree \in Trees
        BY <1>1, ApprovedTree, ApprovedType DEF Everything
    <2>3. TreeOf(Summary(Approvals(hist))) = Promised!TreeOf(Summary(Approvals(hist)))
        BY DEF TreeOf, ContentOf, Promised!TreeOf, Promised!ContentOf
    <2> HIDE DEF tree
    <2>4. Promised!Review(d.tree)
        BY <1>3, <1>5, <1>7, <2>1, <2>2, <2>3 DEF Promised!Review, Promised!Nothing, Summary, FinalTrees, OnBranch
    <2>5. d.tree \in Promised!Trees
        BY <1>3, <2>2 DEF Promised!Trees, Trees
    <2> QED BY <2>4, <2>5 DEF Promised!PromiseNext
<1>9. CASE ~approved
    <2>1. FinalTrees(hist') = FinalTrees(hist)
        <3> HIDE DEF tree
        <3> QED BY <1>3, <1>4, <1>9 DEF FinalTrees
    <2> QED BY <1>5, <1>7, <2>1 DEF Promised!promise, Summary, FinalTrees, OnBranch
<1> QED BY <1>8, <1>9

\* The branch moves to what was approved, and reviewed where it has to be.
LEMMA MovePromised ==
    ASSUME Everything, hist' = hist, branch = BaseCommit, Moved', branch'.tree = TreeOf(Approvals(hist)),
           Approvals(hist) # {}, Reviewed(hist)
    PROVE  Promised!Move
<1> DEFINE tree == TreeOf(Approvals(hist))
<1>1. OnBranch = [p \in Paths |-> None] /\ OnBranch' = tree
    BY DEF OnBranch, Moved, BaseCommit
<1>2. Summary(Approvals(hist)) # {}
    BY DEF Summary
<1>3. (\E s \in Summary(Approvals(hist)) : s.source = "task") => tree \in FinalTrees(hist)
    BY DEF Summary, Reviewed, TaskApproved, FinalReviewed, LateReviews, FinalTrees
<1>4. tree = TreeOf(Summary(Approvals(hist)))
    BY ApprovedTree DEF Everything
<1>5. TreeOf(Summary(Approvals(hist))) = Promised!TreeOf(Summary(Approvals(hist)))
    BY DEF TreeOf, ContentOf, Promised!TreeOf, Promised!ContentOf
<1> HIDE DEF tree
<1> QED BY <1>1, <1>2, <1>3, <1>4, <1>5 DEF Promised!Move, Promised!Nothing, Summary, FinalTrees, OnBranch

LEMMA BranchPromised ==
    ASSUME Everything, [Next]_allVars, branch' # branch
    PROVE  [Promised!PromiseNext]_(Promised!promise)
<1>1. hist' = hist
    BY WhoMoves DEF Deliver, RecoverDeliver, BranchMoved
<1>2. CASE Deliver
    <2>1. run.pc = "deliver" /\ branch = BaseCommit /\ branch' = [tree |-> run.files, maker |-> "run"]
        BY <1>2 DEF Deliver
    <2>2. run.files = TreeOf(Approvals(hist)) /\ run.files # BaseTree /\ Reviewed(hist)
        BY <2>1 DEF Everything, FitsWhileRead, Whole, Fits, InHand, Driving, Bounded, Cleared
    <2>3. Approvals(hist) # {}
        BY <2>2, NothingApplied
    <2>4. Moved' /\ branch'.tree = TreeOf(Approvals(hist))
        BY <2>1, <2>2 DEF Moved
    <2> QED BY <1>1, <2>1, <2>2, <2>3, <2>4, MovePromised DEF Promised!PromiseNext
<1>3. CASE RecoverDeliver
    <2>1. rec.pc = "deliver" /\ branch = BaseCommit /\ branch' = OwnCommit
        BY <1>3 DEF RecoverDeliver
    <2>2. op.tree = TreeOf(Approvals(hist)) /\ Approvals(hist) # {} /\ Reviewed(hist)
        BY <2>1 DEF Everything, Recorded, Whole
    <2>3. Moved' /\ branch'.tree = TreeOf(Approvals(hist))
        BY <2>1, <2>2 DEF Moved, OwnCommit
    <2> QED BY <1>1, <2>1, <2>2, <2>3, MovePromised DEF Promised!PromiseNext
<1>4. CASE \E c \in Strangers : BranchMoved(c)
    <2>1. branch = BaseCommit /\ branch'.maker = "other"
        BY <1>4, StrangersAssumption DEF BranchMoved
    <2>2. OnBranch' = OnBranch
        BY <2>1 DEF OnBranch, Moved, BaseCommit
    <2> QED BY <1>1, <2>2 DEF Promised!promise, OnBranch
<1> QED BY <1>2, <1>3, <1>4, WhoMoves

LEMMA StepPromised ==
    ASSUME Everything, Whole', [Next]_allVars
    PROVE  [Promised!PromiseNext]_(Promised!promise)
<1>1. CASE hist'.decisions = hist.decisions /\ branch' = branch
    <2>1. Approvals(hist') = Approvals(hist) /\ FinalTrees(hist') = FinalTrees(hist)
        BY <1>1, SamePromise
    <2> QED BY <1>1, <2>1 DEF Promised!promise, FinalTrees, Moved
<1>2. CASE branch' # branch
    BY <1>2, BranchPromised
<1>3. CASE hist'.decisions # hist.decisions
    BY <1>3, WhoDecides, AppendPromised, ReviewPromised DEF Everything
<1> QED BY <1>1, <1>2, <1>3

LEMMA InitPromised == OrchestratorInit => Promised!PromiseInit
BY DEF OrchestratorInit, Init, NoHistory, BaseCommit, Approvals, Moved, Promised!PromiseInit, Promised!Nothing

\* GLOSSARY, approval.go, recover.go: run, continuation, acknowledgement and recovery,
\* whatever dies or fails between two of their writes, keep the promise of Delivery.tla:
\* approvals one at a time, a branch that moves once, to what all of them make of the
\* base, after the review it needs.
THEOREM PromiseKept ==
    ASSUME ~Overlap
    PROVE  Spec => Promise
<1>1. Everything /\ [Next]_allVars => Everything'
    BY StepTyped, OwnedStep, HistoryGrows, HeldStep, RecordedStep, FitsStep, WholeStep, OneEachStep DEF Everything, Grows
<1>2. Everything /\ [Next]_allVars => [Promised!PromiseNext]_(Promised!promise)
    BY <1>1, StepPromised DEF Everything
<1>3. OrchestratorInit => Everything
    BY InitTyped, OwnedInit, DurableInit, HeldInit, RecordedInit, FitsInit, WholeInit, OneEachInit DEF Everything, Durable
<1> QED BY <1>1, <1>2, <1>3, InitPromised, PTL DEF Spec, Promise, Promised!PromiseSpec
=============================================================================
