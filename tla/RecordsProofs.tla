--------------------------- MODULE RecordsProofs ---------------------------
(***************************************************************************)
(* The records of a run agree with its branch: the theorem that            *)
(* RecordsAgree holds of Orchestrator.tla, for all values of its           *)
(* constants.                                                              *)
(*                                                                         *)
(* RecordsAgree is not inductive.  What a process holds in memory has to   *)
(* fit the chain (Held), and the commits in every record and every memory  *)
(* have to be the branch's (Recorded).                                     *)
(***************************************************************************)
EXTENDS SafetyProofs

-----------------------------------------------------------------------------
(* What an event changes.                                                  *)

\* An event that decides and delivers nothing.
Plain(h, g) ==
    /\ g.bound = h.bound
    /\ g.decisions = h.decisions
    /\ g.lastDecided = h.lastDecided
    /\ g.delivered = h.delivered

LEMMA PlainEvents ==
    ASSUME NEW h \in Histories
    PROVE  /\ Plain(h, h)
           /\ Plain(h, PolicySnapshot(h))
           /\ Plain(h, DriftHalt(h))
           /\ \A ack \in BOOLEAN : Plain(h, RunResumed(h, ack))
           /\ Plain(h, LaunchClaimed(h))
           /\ \A outcome \in Outcomes : Plain(h, LaunchEnded(h, outcome))
           /\ Plain(h, LaunchAcknowledged(h))
           /\ \A r \in Reqs : Plain(h, YieldRequest(h, r))
<1>1. Plain(h, h) /\ Plain(h, PolicySnapshot(h)) /\ Plain(h, DriftHalt(h))
    BY DEF Plain, PolicySnapshot, DriftHalt, Accept, Histories
<1>2. ASSUME NEW ack \in BOOLEAN PROVE Plain(h, RunResumed(h, ack))
    BY DEF Plain, RunResumed, Accept, Histories
<1>3. Plain(h, LaunchClaimed(h)) /\ Plain(h, LaunchAcknowledged(h))
    BY DEF Plain, LaunchClaimed, LaunchAcknowledged, Accept, Histories
<1>4. ASSUME NEW outcome \in Outcomes PROVE Plain(h, LaunchEnded(h, outcome))
    BY DEF Plain, LaunchEnded, Accept, Histories
<1>5. ASSUME NEW r \in Reqs PROVE Plain(h, YieldRequest(h, r))
    BY DEF Plain, YieldRequest, Accept, Histories
<1> QED BY <1>1, <1>2, <1>3, <1>4, <1>5

\* A decision is on the chain with its number, or the chain is broken and has nothing new.
DecidesOrBreaks(h, g, d) ==
    /\ g.bound = h.bound
    /\ g.delivered = h.delivered
    /\ \/ /\ g.decisions = h.decisions \cup {d}
          /\ g.lastDecided = d.seq
          /\ d.seq > h.lastDecided
          /\ h.bound
       \/ g.broken /\ g.decisions = h.decisions /\ g.lastDecided = h.lastDecided

LEMMA YieldDecidedDecides ==
    ASSUME NEW h \in Histories, NEW d \in Decision
    PROVE  DecidesOrBreaks(h, YieldDecided(h, d), d)
BY DEF DecidesOrBreaks, YieldDecided, Accept, Histories

\* A commit is named on a bound chain.
LEMMA CommitEventDelivers ==
    ASSUME NEW h \in Histories, NEW event \in Events, NEW c \in Commits
    PROVE  LET g == CommitEvent(h, event, c) IN
           /\ g.bound = h.bound /\ g.decisions = h.decisions /\ g.lastDecided = h.lastDecided
           /\ h.delivered \subseteq g.delivered
           /\ h.bound => g.delivered = h.delivered \cup {[event |-> event, commit |-> c]}
BY DEF CommitEvent, Accept, Histories

LEMMA RunBoundBinds ==
    ASSUME NEW h \in Histories
    PROVE  LET g == RunBound(h) IN
           /\ g.bound /\ g.decisions = h.decisions /\ g.lastDecided = h.lastDecided
           /\ g.delivered = h.delivered
BY DEF RunBound, Histories

-----------------------------------------------------------------------------
(* The approved state.                                                     *)

LEMMA NothingApplied == TreeOf({}) = BaseTree
BY DEF TreeOf, ContentOf, BaseTree

\* A later approval replaces one file and leaves every other file alone.
LEMMA AppliedLast ==
    ASSUME NEW A, \A a \in A : a.seq \in Nat, NEW d, d.seq \in Nat, d.req \in Reqs,
           \A a \in A : a.seq < d.seq
    PROVE  TreeOf(A \cup {d}) = [TreeOf(A) EXCEPT ![PathOf[d.req]] = d.req]
<1> DEFINE B == A \cup {d}
           of(S, f) == {e \in S : PathOf[e.req] = f}
           last(S, f) == {x \in of(S, f) : \A e \in of(S, f) : e.seq <= x.seq}
<1>1. ASSUME NEW f \in Paths, f = PathOf[d.req] PROVE ContentOf(B, f) = d.req
    <2>1. d \in of(B, f) /\ \A e \in of(B, f) : e.seq <= d.seq
        BY <1>1
    <2>2. \A x \in last(B, f) : x = d
        <3> SUFFICES ASSUME NEW x \in last(B, f), x # d PROVE FALSE
            OBVIOUS
        <3>1. x \in A /\ d.seq <= x.seq
            BY <2>1
        <3> QED BY <3>1
    <2>3. last(B, f) = {d}
        BY <2>1, <2>2
    <2> QED BY <2>3 DEF ContentOf
<1>2. ASSUME NEW f \in Paths, f # PathOf[d.req] PROVE ContentOf(B, f) = ContentOf(A, f)
    <2> DEFINE latest(o) == {x \in o : \A e \in o : e.seq <= x.seq}
               pick(o) == IF latest(o) = {} THEN Base ELSE (CHOOSE x \in latest(o) : TRUE).req
    <2>1. of(B, f) = of(A, f)
        BY <1>2
    <2>2. ContentOf(B, f) = pick(of(B, f)) /\ ContentOf(A, f) = pick(of(A, f))
        BY DEF ContentOf
    <2> HIDE DEF pick, of
    <2> QED BY <2>1, <2>2
<1>3. PathOf[d.req] \in Paths
    BY PathAssumption
<1> HIDE DEF B
<1>4. ASSUME NEW f \in Paths
      PROVE  TreeOf(B)[f] = [TreeOf(A) EXCEPT ![PathOf[d.req]] = d.req][f]
    BY <1>1, <1>2, <1>3 DEF TreeOf
<1> QED BY <1>4 DEF TreeOf, B

\* A change that was approved is in the approved state.
Touched(h) == \A a \in Approvals(h) : TreeOf(Approvals(h))[PathOf[a.req]] # Base

LEMMA DecisionApproves ==
    ASSUME NEW h \in Histories, NEW g \in Histories, NEW d \in Decision, g.decisions = h.decisions \cup {d}
    PROVE  /\ d.approved /\ d.kind = "file_edit" => Approvals(g) = Approvals(h) \cup {d}
           /\ ~d.approved \/ d.kind = "final_review" => Approvals(g) = Approvals(h)
BY DEF Approvals, Decision

LEMMA DecisionTree ==
    ASSUME NEW h \in Histories, NEW g \in Histories, NEW d \in Decision, Ordered(h),
           g.decisions = h.decisions \cup {d}, d.seq > h.lastDecided, d.approved, d.kind = "file_edit"
    PROVE  /\ d.req \in Reqs
           /\ TreeOf(Approvals(g)) = [TreeOf(Approvals(h)) EXCEPT ![PathOf[d.req]] = d.req]
<1>1. d.req \in Reqs /\ d.seq \in Nat
    BY DEF Decision
<1>2. \A a \in Approvals(h) : a.seq \in Nat /\ a.seq < d.seq
    BY <1>1 DEF Ordered, Approvals, Histories, Decision
<1>3. Approvals(g) = Approvals(h) \cup {d}
    BY DecisionApproves
<1> QED BY <1>1, <1>2, <1>3, AppliedLast

LEMMA DecisionTouches ==
    ASSUME NEW h \in Histories, NEW g \in Histories, NEW d \in Decision, Ordered(h), Touched(h),
           DecidesOrBreaks(h, g, d)
    PROVE  Touched(g)
<1>1. CASE g.decisions = h.decisions
    BY <1>1 DEF Touched, Approvals
<1>2. CASE g.decisions = h.decisions \cup {d} /\ d.seq > h.lastDecided
    <2>1. CASE d.approved /\ d.kind = "file_edit"
        <3> DEFINE T == TreeOf(Approvals(h))
        <3>1. T \in Trees /\ PathOf[d.req] \in Paths /\ d.req # Base
            BY <2>1, ApprovedType, PathAssumption, BaseAssumption DEF Decision
        <3>2. TreeOf(Approvals(g)) = [T EXCEPT ![PathOf[d.req]] = d.req]
            BY <1>2, <2>1, DecisionTree
        <3>3. Approvals(g) = Approvals(h) \cup {d}
            BY <1>2, <2>1, DecisionApproves
        <3>4. \A a \in Approvals(h) : PathOf[a.req] \in Paths /\ T[PathOf[a.req]] # Base
            BY ApprovalsType, PathAssumption DEF Touched
        <3> HIDE DEF T
        <3> QED BY <3>1, <3>2, <3>3, <3>4 DEF Touched, Trees
    <2>2. CASE ~d.approved \/ d.kind = "final_review"
        BY <1>2, <2>2, DecisionApproves DEF Touched
    <2> QED BY <2>1, <2>2 DEF Decision
<1> QED BY <1>1, <1>2 DEF DecidesOrBreaks

-----------------------------------------------------------------------------
(* What a process holds in memory fits the chain.                          *)

\* The process has bound its chain, or read a bound one.
Bounded == {"policy", "settle", "check", "reopen", "resumed", "trim", "launch", "mark", "loop", "decide", "ruled",
            "append", "answer", "stopping", "verify", "review", "prepare", "named", "deliver", "certify"}
\* It has the approved state in its hands.
Driving == {"bind"} \cup (Bounded \ {"settle", "check", "reopen", "resumed", "trim"})

\* The approved state in the hands of the process; between the chain and the answer the
\* last approval is not among its files yet.
InHand ==
    IF run.pc = "answer" /\ run.ruling.approved
    THEN [run.files EXCEPT ![PathOf[run.ruling.req]] = run.ruling.req] ELSE run.files

Prepared(files) == Delivers(hist, "commit_prepared", [tree |-> files, maker |-> "run"])

Held ==
    /\ Touched(hist)
    /\ ~hist.bound => hist.decisions = {}
    /\ db.status = "NONE" \/ run.pc = "bind" => ~hist.bound
    /\ run.pc \in Bounded => hist.bound
    /\ run.pc \in Driving => \A a \in Approvals(hist) : InHand[PathOf[a.req]] # Base
    /\ run.pc \in {"named", "deliver"} => Prepared(run.files)
    /\ run.pc = "none" => run = NoRun

LEMMA HeldInit == OrchestratorInit => Held
BY DEF OrchestratorInit, Init, NoHistory, NoRun, Held, Touched, Approvals, Bounded, Driving

LEMMA RunHistory ==
    TypeOK /\ RunStep =>
        \/ Plain(hist, hist') \/ Bind \/ AppendDecision \/ Prepare \/ Certify
        \/ \E approved \in BOOLEAN : FinalReview(approved)
<1> SUFFICES ASSUME TypeOK, RunStep
             PROVE  \/ Plain(hist, hist') \/ Bind \/ AppendDecision \/ Prepare \/ Certify
                    \/ \E approved \in BOOLEAN : FinalReview(approved)
    OBVIOUS
<1>0. hist \in Histories /\ Plain(hist, hist)
    BY PlainEvents DEF TypeOK
<1>1. CASE ReadPolicy \/ ClaimLaunch \/ LoopEnds \/ Answer \/ \E o \in Outcomes : EndLaunch(o)
    BY <1>0, <1>1, PlainEvents DEF ReadPolicy, ClaimLaunch, LoopEnds, Answer, EndLaunch
<1>2. CASE RecordLostLaunch \/ SettleAcknowledged \/ AppendResumed \/ \E r \in Reqs : Propose(r)
    BY <1>0, <1>2, PlainEvents DEF RecordLostLaunch, SettleAcknowledged, AppendResumed, Propose, Outcomes
<1>3. CASE Acknowledge
    <2> DEFINE ended == IF OpenLaunch(hist) THEN LaunchEnded(hist, "lost") ELSE hist
    <2>1. ended \in Histories /\ Plain(hist, ended)
        BY <1>0, LaunchTypes, PlainEvents DEF Outcomes
    <2>2. hist' \in {ended, LaunchAcknowledged(ended)}
        BY <1>3 DEF Acknowledge
    <2> HIDE DEF ended
    <2>3. Plain(ended, LaunchAcknowledged(ended))
        BY <2>1, PlainEvents
    <2> QED BY <2>1, <2>2, <2>3 DEF Plain
<1>4. CASE hist' = hist
    BY <1>0, <1>4
<1> QED BY <1>1, <1>2, <1>3, <1>4
    DEF RunStep, ProcessStep, ResumeStep, OutsideStep, durable, MarkRunning, WaitEnds, Expire, KeepApproval,
        PassRejection, ConsumeFails, Verify, PrepareNothing, StillGoing, Deliver, FinishRun, Release, SetupFails,
        FinalizeFails, RefuseParked, SettleUnparked, RefuseRecords, CheckWorktree, Reopen, Trim, TrimUpTo, Open,
        Decide, AgentExits, AgentWrites, OverBudget, Deadline, Cancel, Crash, BranchMoved, Claim

LEMMA RecoverHistory ==
    TypeOK /\ RecoverStep =>
        \/ Plain(hist, hist') \/ RecoverCertify \/ RecoverRecord
        \/ \E approved \in BOOLEAN : RecoverReview(approved)
<1> SUFFICES ASSUME TypeOK, RecoverStep, hist' = hist PROVE Plain(hist, hist')
    BY DEF RecoverStep, RecoverRead, ReadNeeding, vars, RecoverClaim, RecoverOp, RecoverDeliver,
        RecoverKeep, RecoverFinish, RecoverStops, RecoverCrash
<1> QED BY PlainEvents DEF TypeOK

\* A step that decides and delivers nothing, and after which the process holds what it
\* held, or what the chain says, or starts.
Follows ==
    /\ Plain(hist, hist')
    /\ db'.status = "NONE" => db.status = "NONE"
    /\ run'.pc = "bind" => run.pc = "bind" \/ db.status = "NONE"
    /\ run'.pc \in Bounded => run.pc \in Bounded \/ hist.bound
    /\ run'.pc \in Driving => \/ run.pc \in Driving /\ InHand' = InHand
                              \/ InHand' = TreeOf(Approvals(hist))
                              \/ db.status = "NONE"
    /\ run'.pc \in {"named", "deliver"} => run.pc \in {"named", "deliver"} /\ run'.files = run.files
    /\ run'.pc = "none" => run' = NoRun \/ run' = run

LEMMA FollowsHeld == Held /\ Follows => Held'
<1> SUFFICES ASSUME Held, Follows PROVE Held'
    OBVIOUS
<1>1. Approvals(hist') = Approvals(hist)
    BY DEF Follows, Plain, Approvals
<1>2. hist'.bound = hist.bound /\ hist'.decisions = hist.decisions /\ hist'.delivered = hist.delivered
    BY DEF Follows, Plain
<1>3. Touched(hist')
    BY <1>1 DEF Held, Touched
<1>4. run'.pc \in Driving => \A a \in Approvals(hist) : InHand'[PathOf[a.req]] # Base
    BY DEF Held, Follows, Touched, Approvals
<1>5. run'.pc \in {"named", "deliver"} => Prepared(run.files)' /\ run'.files = run.files
    BY <1>2 DEF Held, Follows, Prepared, Delivers
<1> QED BY <1>1, <1>2, <1>3, <1>4, <1>5 DEF Held, Follows, Prepared

LEMMA ProcessFollows ==
    TypeOK /\ Plain(hist, hist') /\ ProcessStep => Follows \/ Bind \/ AppendDecision \/ Prepare \/ Certify
<1> SUFFICES ASSUME TypeOK, Plain(hist, hist'), ProcessStep
             PROVE  Follows \/ Bind \/ AppendDecision \/ Prepare \/ Certify
    OBVIOUS
<1>0. run \in Runs
    BY DEF TypeOK
<1> USE DEF Follows, InHand, Bounded, Driving
<1>1. CASE ReadPolicy \/ ClaimLaunch \/ MarkRunning \/ SetupFails
    BY <1>0, <1>1 DEF ReadPolicy, ClaimLaunch, MarkRunning, SetupFails, Goto, durable, Runs
<1>2. CASE WaitEnds \/ Expire \/ KeepApproval \/ PassRejection
    BY <1>0, <1>2 DEF WaitEnds, Rule, Expire, KeepApproval, PassRejection, Goto, durable, Runs
<1>3. CASE ConsumeFails \/ LoopEnds \/ PrepareNothing \/ FinalizeFails
    BY <1>0, <1>3 DEF ConsumeFails, LoopEnds, PrepareNothing, FinalizeFails, EndAs, durable, Runs
<1>4. CASE Answer
    BY <1>0, <1>4 DEF Answer, NoRuling, Runs
<1>5. CASE \E o \in Outcomes : EndLaunch(o)
    BY <1>0, <1>5 DEF EndLaunch, Goto, Runs
<1>6. CASE Verify \/ StillGoing
    BY <1>0, <1>6 DEF Verify, StillGoing, Goto, EndAs, durable, Runs
<1>7. CASE Deliver
    BY <1>0, <1>7 DEF Deliver, Runs
<1>8. CASE FinishRun
    BY <1>0, <1>8 DEF FinishRun, Goto, Runs
<1>9. CASE Release
    BY <1>9 DEF Release, NoRun
<1> QED BY <1>1, <1>2, <1>3, <1>4, <1>5, <1>6, <1>7, <1>8, <1>9 DEF ProcessStep

LEMMA ResumeFollows == TypeOK /\ Held /\ Plain(hist, hist') /\ ResumeStep => Follows
<1> SUFFICES ASSUME TypeOK, Held, Plain(hist, hist'), ResumeStep PROVE Follows
    OBVIOUS
<1>0. run \in Runs
    BY DEF TypeOK
<1> USE DEF Follows, InHand, Bounded, Driving
<1>1. CASE RecordLostLaunch \/ SettleAcknowledged \/ SettleUnparked \/ AppendResumed
    BY <1>0, <1>1 DEF RecordLostLaunch, SettleAcknowledged, SettleUnparked, AppendResumed, Goto, durable, Runs
<1>2. CASE RefuseParked \/ RefuseRecords
    BY <1>2 DEF RefuseParked, RefuseRecords, Refuse, NoRun
<1>3. CASE CheckWorktree
    <2>1. CASE Refuse
        BY <1>3, <2>1 DEF CheckWorktree, Refuse, NoRun
    <2>2. CASE Goto("reopen")
        BY <1>0, <1>3, <2>2 DEF CheckWorktree, Goto, Runs
    <2> QED BY <1>3, <2>1, <2>2 DEF CheckWorktree
<1>4. CASE Reopen
    BY <1>0, <1>4 DEF Reopen, Goto, TypeOK, Rows, Runs
<1>5. CASE Trim
    <2>1. /\ run'.pc = "launch" /\ run'.files = TreeOf(Approvals(hist))
          /\ db' = db /\ run.pc = "trim"
        BY <1>0, <1>5 DEF Trim, TrimUpTo, Approved, Runs
    <2> QED BY <2>1
<1> QED BY <1>1, <1>2, <1>3, <1>4, <1>5 DEF ResumeStep

LEMMA OutsideFollows ==
    TypeOK /\ Plain(hist, hist') /\ (OutsideStep \/ Claim)
    => Follows \/ \E approved \in BOOLEAN : FinalReview(approved)
<1> SUFFICES ASSUME TypeOK, Plain(hist, hist'), OutsideStep \/ Claim
             PROVE  Follows \/ \E approved \in BOOLEAN : FinalReview(approved)
    OBVIOUS
<1>0. run \in Runs
    BY DEF TypeOK
<1> USE DEF Follows, InHand, Bounded, Driving
<1>1. CASE Open
    BY <1>0, <1>1 DEF Open, Goto, TypeOK, Rows, Runs
<1>2. CASE Claim
    BY <1>2 DEF Claim, Continuable, Opens, NoRun
<1>3. CASE Crash
    BY <1>3 DEF Crash, NoRun
<1>4. CASE (\E r \in Reqs : Propose(r)) \/ (\E s \in RunSources : Decide(s, TRUE)) \/ Decide("operator", FALSE)
    BY <1>0, <1>4 DEF Propose, Decide, Rule, durable, Runs
<1>5. CASE \E ok \in BOOLEAN : AgentExits(ok)
    BY <1>0, <1>5 DEF AgentExits, durable, Runs
<1>6. CASE OverBudget \/ Deadline \/ Cancel
    BY <1>0, <1>6 DEF OverBudget, Deadline, Cancel, EndAs, durable, Runs
<1>7. CASE \/ \E f \in Paths, c \in Reqs \cup {Base} : AgentWrites(f, c)
           \/ Acknowledge
           \/ \E c \in Strangers : BranchMoved(c)
    BY <1>7 DEF AgentWrites, Acknowledge, BranchMoved
<1> QED BY <1>1, <1>2, <1>3, <1>4, <1>5, <1>6, <1>7 DEF OutsideStep

LEMMA RecoveryFollows ==
    TypeOK /\ Owned /\ Plain(hist, hist') /\ RecoverStep
    => Follows \/ RecoverCertify \/ RecoverRecord \/ \E approved \in BOOLEAN : RecoverReview(approved)
<1> SUFFICES ASSUME TypeOK, Owned, Plain(hist, hist'), RecoverStep, run' = run,
                    db' = db \/ (RecoverFinish /\ rec.pc = "finish")
             PROVE  Follows
    BY DEF RecoverStep, RecoverRead, ReadNeeding, vars, RecoverClaim, RecoverOp, RecoverDeliver,
        RecoverKeep, RecoverFinish, RecoverStops, RecoverCrash
<1>1. db'.status = "NONE" => db.status = "NONE"
    BY DEF RecoverFinish, Owned, Recovering
<1> QED BY <1>1 DEF Follows, InHand

\* The steps that write on the chain what Plain does not describe.
LEMMA BindHeld == TypeOK /\ Owned /\ Held /\ Bind => Held'
<1> SUFFICES ASSUME TypeOK, Owned, Held, Bind PROVE Held'
    OBVIOUS
<1>1. /\ run'.pc = "policy" /\ run.pc = "bind" /\ hist'.bound /\ hist'.decisions = hist.decisions
      /\ hist.decisions = {} /\ db' = db
    BY RunBoundBinds DEF Bind, Goto, TypeOK, Runs, Held
<1>2. db.status # "NONE"
    BY <1>1 DEF Owned
<1> QED BY <1>1, <1>2 DEF Held, Touched, Approvals, Bounded, Driving

\* The approval that reaches the chain is in the process's hands.
LEMMA AppendHeld == TypeOK /\ Ordered(hist) /\ Held /\ AppendDecision => Held'
<1> SUFFICES ASSUME TypeOK, Ordered(hist), Held, AppendDecision PROVE Held'
    OBVIOUS
<1>1. PICK good \in BOOLEAN, d \in Decision :
         /\ hist' = YieldDecided(hist, d)
         /\ d.seq = run.total /\ d.req = run.ruling.req /\ d.kind = "file_edit" /\ d.approved = good
         /\ run' = [run EXCEPT !.pc = "answer", !.ruling.approved = good]
    BY AppendIsDecision
<1>2. DecidesOrBreaks(hist, hist', d) /\ hist \in Histories /\ hist' \in Histories
    BY <1>1, YieldDecidedDecides, EventTypes DEF TypeOK
<1>3. /\ run'.pc = "answer" /\ run'.ruling.approved = good /\ run'.ruling.req = run.ruling.req
      /\ run'.files = run.files /\ run.files \in Trees /\ run.pc = "append" /\ db' = db
    <2>1. run \in Runs /\ run.ruling \in Rulings /\ run.pc = "append" /\ db' = db
        BY DEF AppendDecision, RecordDecision, TypeOK, Runs
    <2>2. run' = [run EXCEPT !.pc = "answer", !.ruling = [run.ruling EXCEPT !.approved = good]]
        BY <1>1, <2>1 DEF Runs
    <2>3. /\ [run.ruling EXCEPT !.approved = good].approved = good
          /\ [run.ruling EXCEPT !.approved = good].req = run.ruling.req
        BY <2>1 DEF Rulings
    <2> QED BY <2>1, <2>2, <2>3 DEF Runs
<1>4. hist.bound /\ hist'.bound
    BY <1>2, <1>3 DEF Held, Bounded, DecidesOrBreaks
<1>5. Touched(hist')
    BY <1>2, DecisionTouches DEF Held
<1>6. \A a \in Approvals(hist') : InHand'[PathOf[a.req]] # Base
    <2>1. \A a \in Approvals(hist) : run.files[PathOf[a.req]] # Base /\ PathOf[a.req] \in Paths
        BY <1>2, <1>3, ApprovalsType, PathAssumption DEF Held, InHand, Driving, Bounded
    <2>2. d.req \in Reqs /\ d.req # Base /\ PathOf[d.req] \in Paths
        BY <1>1, PathAssumption, BaseAssumption DEF Decision
    <2>3. CASE good
        <3>1. InHand' = [run.files EXCEPT ![PathOf[d.req]] = d.req]
            BY <1>1, <1>3, <2>3 DEF InHand
        <3>2. Approvals(hist') \subseteq Approvals(hist) \cup {d}
            BY <1>2 DEF DecidesOrBreaks, Approvals
        <3> QED BY <1>3, <2>1, <2>2, <3>1, <3>2 DEF Trees
    <2>4. CASE ~good
        <3>1. Approvals(hist') = Approvals(hist) /\ InHand' = run.files
            BY <1>1, <1>2, <1>3, <2>4, DecisionApproves DEF DecidesOrBreaks, Approvals, InHand
        <3> QED BY <2>1, <3>1
    <2> QED BY <2>3, <2>4
<1> QED BY <1>3, <1>4, <1>5, <1>6 DEF Held

\* A final review approves no change.
LEMMA ReviewHeld ==
    ASSUME TypeOK, Ordered(hist), Held, NEW d \in Decision, d.kind = "final_review", hist' = YieldDecided(hist, d),
           UNCHANGED db, run'.pc \notin {"none", "bind", "named", "deliver"} \/ run' = run,
           run'.pc \in Bounded => run.pc \in Bounded,
           run'.pc \in Driving => run.pc \in Driving /\ InHand' = InHand
    PROVE  Held'
<1>1. DecidesOrBreaks(hist, hist', d) /\ hist \in Histories /\ hist' \in Histories
    BY YieldDecidedDecides, EventTypes DEF TypeOK
<1>2. Touched(hist') /\ Approvals(hist') = Approvals(hist)
    BY <1>1, DecisionTouches, DecisionApproves DEF Held, DecidesOrBreaks, Approvals
<1>3. hist'.bound = hist.bound /\ hist'.delivered = hist.delivered /\ (~hist.bound => hist'.decisions = hist.decisions)
    BY <1>1 DEF DecidesOrBreaks
<1>4. run'.pc \in {"named", "deliver"} => Prepared(run.files)' /\ run' = run
    BY <1>3 DEF Held, Prepared, Delivers
<1> QED BY <1>2, <1>3, <1>4 DEF Held, Prepared, Delivers

LEMMA FinalReviewHeld == TypeOK /\ Ordered(hist) /\ Held /\ (\E approved \in BOOLEAN : FinalReview(approved)) => Held'
<1> SUFFICES ASSUME TypeOK, Ordered(hist), Held, NEW approved \in BOOLEAN, FinalReview(approved) PROVE Held'
    OBVIOUS
<1>1. run \in Runs /\ run.total + 1 \in Nat /\ run.files \in Trees
    BY DEF TypeOK, Runs
<1>2. \E d \in Decision : d.kind = "final_review" /\ hist' = YieldDecided(hist, d)
    BY <1>1, ReviewType DEF FinalReview
<1>3. run'.pc \in {"prepare", "finish"} /\ run'.files = run.files /\ run.pc = "review" /\ UNCHANGED db
    BY <1>1 DEF FinalReview, Goto, EndAs, Runs
<1> QED BY <1>2, <1>3, ReviewHeld DEF Bounded, Driving, InHand

LEMMA RecoverReviewHeld ==
    TypeOK /\ Ordered(hist) /\ Held /\ (\E approved \in BOOLEAN : RecoverReview(approved)) => Held'
<1> SUFFICES ASSUME TypeOK, Ordered(hist), Held, NEW approved \in BOOLEAN, RecoverReview(approved) PROVE Held'
    OBVIOUS
<1>1. rec.seen.lastDecided + 1 \in Nat /\ Want \in Trees
    BY WantType DEF TypeOK, Recs, Histories
<1>2. \E d \in Decision : d.kind = "final_review" /\ hist' = YieldDecided(hist, d)
    BY <1>1, ReviewType DEF RecoverReview, ReviewNumbered
<1>3. UNCHANGED <<run, db>>
    BY DEF RecoverReview, ReviewNumbered
<1> QED BY <1>2, <1>3, ReviewHeld DEF Bounded, Driving, InHand

\* A commit named on the chain stays named.
LEMMA CommitHeld ==
    ASSUME TypeOK, Held, NEW event \in Events, NEW c \in Commits, hist' = CommitEvent(hist, event, c),
           UNCHANGED db, run'.pc \notin {"none", "bind"} \/ run' = run,
           run'.pc \in Bounded => run.pc \in Bounded,
           run'.pc \in Driving => run.pc \in Driving /\ InHand' = InHand,
           run'.pc \in {"named", "deliver"} => Prepared(run.files)' /\ run'.files = run.files
    PROVE  Held'
<1>1. hist'.bound = hist.bound /\ hist'.decisions = hist.decisions
    BY CommitEventDelivers DEF TypeOK
<1>2. Touched(hist') /\ Approvals(hist') = Approvals(hist)
    BY <1>1 DEF Held, Touched, Approvals
<1> QED BY <1>1, <1>2 DEF Held, Prepared, Delivers

LEMMA CommitsHeld == TypeOK /\ Held /\ (Prepare \/ Certify \/ RecoverCertify \/ RecoverRecord) => Held'
<1> SUFFICES ASSUME TypeOK, Held, Prepare \/ Certify \/ RecoverCertify \/ RecoverRecord PROVE Held'
    OBVIOUS
<1>0. run \in Runs /\ hist \in Histories /\ Plain(hist, hist)
    BY PlainEvents DEF TypeOK
<1> DEFINE commit == [tree |-> run.files, maker |-> "run"]
<1>1. CASE Prepare
    <2>1. commit \in Commits /\ "commit_prepared" \in Events
        BY <1>0, CommitType DEF Events, Runs
    <2>2. hist' = CommitEvent(hist, "commit_prepared", commit) /\ UNCHANGED db /\ run.pc = "prepare"
          /\ run'.pc = "named" /\ run'.files = run.files
        BY <1>0, <1>1 DEF Prepare, Goto, Runs
    <2>3. hist'.delivered = hist.delivered \cup {[event |-> "commit_prepared", commit |-> commit]}
        BY <1>0, <2>1, <2>2, CommitEventDelivers DEF Held, Bounded
    <2>4. Prepared(run.files)'
        BY <2>2, <2>3 DEF Prepared, Delivers
    <2> QED BY <2>1, <2>2, <2>4, CommitHeld DEF Bounded, Driving, InHand
<1>2. CASE Certify
    <2>1. run'.pc = "finish" /\ UNCHANGED db
        BY <1>0, <1>2 DEF Certify, Goto, Runs
    <2>2. CASE hist' = hist
        BY <1>0, <2>1, <2>2, FollowsHeld DEF Follows, Bounded, Driving
    <2>3. CASE hist' # hist
        BY <1>2, <2>1, <2>3, CommitHeld DEF Certify, Events, TypeOK, Bounded, Driving
    <2> QED BY <2>2, <2>3
<1>3. CASE RecoverCertify \/ RecoverRecord
    <2>1. UNCHANGED <<run, db>> /\ rec.commit \in Commits
        BY <1>3 DEF RecoverCertify, RecoverRecord, TypeOK
    <2>2. CASE hist' = hist
        BY <1>0, <2>1, <2>2, FollowsHeld DEF Follows, InHand
    <2>3. CASE hist' # hist
        <3>1. PICK event \in Events : hist' = CommitEvent(hist, event, rec.commit)
            BY <1>3, <2>3 DEF RecoverCertify, RecoverRecord, Events
        <3>2. run.pc \in {"named", "deliver"} => Prepared(run.files)'
            BY <1>0, <2>1, <3>1, CommitEventDelivers DEF Held, Prepared, Delivers
        <3> QED BY <2>1, <3>1, <3>2, CommitHeld DEF InHand
    <2> QED BY <2>2, <2>3
<1> QED BY <1>1, <1>2, <1>3

LEMMA HeldStep == TypeOK /\ Ordered(hist) /\ Owned /\ Held /\ [Next]_allVars => Held'
<1> SUFFICES ASSUME TypeOK, Ordered(hist), Owned, Held, [Next]_allVars PROVE Held'
    OBVIOUS
<1>1. CASE RunStep
    BY <1>1, RunHistory, ProcessFollows, ResumeFollows, OutsideFollows, FollowsHeld, BindHeld, AppendHeld,
       FinalReviewHeld, CommitsHeld DEF RunStep
<1>2. CASE RecoverStep
    BY <1>2, RecoverHistory, RecoveryFollows, FollowsHeld, RecoverReviewHeld, CommitsHeld
<1>3. CASE UNCHANGED allVars
    BY <1>3 DEF allVars, vars, Held, InHand, Prepared
<1> QED BY <1>1, <1>2, <1>3, StepCases

-----------------------------------------------------------------------------
(* The commit in every record and every memory is the branch's.            *)

\* What a commit is named for stays named, and only the loop approves a change.
LEMMA ChainKeeps ==
    TypeOK /\ [Next]_allVars =>
        /\ hist.delivered \subseteq hist'.delivered
        /\ Approvals(hist') = Approvals(hist) \/ AppendDecision
<1> SUFFICES ASSUME TypeOK, [Next]_allVars
             PROVE  /\ hist.delivered \subseteq hist'.delivered
                    /\ Approvals(hist') = Approvals(hist) \/ AppendDecision
    OBVIOUS
<1>0. hist \in Histories /\ run.total + 1 \in Nat /\ run.files \in Trees /\ Want \in Trees
      /\ rec.seen.lastDecided + 1 \in Nat
    BY WantType DEF TypeOK, Runs, Recs, Histories
<1>1. CASE Plain(hist, hist')
    BY <1>1 DEF Plain, Approvals
<1>2. CASE Bind
    BY <1>0, <1>2, RunBoundBinds DEF Bind, Approvals
<1>3. CASE Prepare \/ Certify \/ RecoverCertify \/ RecoverRecord
    <2>1. hist' = hist \/ \E event \in Events, c \in Commits : hist' = CommitEvent(hist, event, c)
        BY <1>0, <1>3, CommitType DEF Prepare, Certify, RecoverCertify, RecoverRecord, TypeOK, Events
    <2> QED BY <1>0, <2>1, CommitEventDelivers DEF Approvals
<1>4. CASE AppendDecision
    <2>1. \E d \in Decision : hist' = YieldDecided(hist, d)
        BY <1>4, AppendIsDecision
    <2> QED BY <1>0, <1>4, <2>1, YieldDecidedDecides DEF DecidesOrBreaks
<1>5. CASE \E approved \in BOOLEAN : FinalReview(approved) \/ RecoverReview(approved)
    <2>1. PICK d \in Decision : hist' = YieldDecided(hist, d) /\ d.kind = "final_review"
        BY <1>0, <1>5, ReviewType DEF FinalReview, RecoverReview, ReviewNumbered
    <2> QED BY <1>0, <2>1, YieldDecidedDecides DEF DecidesOrBreaks, Approvals
<1>6. CASE UNCHANGED allVars
    BY <1>6 DEF allVars, vars
<1> QED BY <1>1, <1>2, <1>3, <1>4, <1>5, <1>6, StepCases, RunHistory, RecoverHistory

\* Nothing the process has done yet can be a success.
Early == {"bind", "policy", "settle", "check", "reopen", "resumed", "trim", "launch", "mark", "loop", "decide", "ruled",
          "append", "answer"}

Recorded ==
    /\ NamedBeforeMoved
    /\ rec.pc \in {"review", "op"} => ~op.made
    /\ rec.pc \in {"deliver"} \cup Delivering => op.made
    /\ \A c \in {run.commit, rec.commit, op.commit, db.commit} : c # NoCommit => c = branch /\ Moved
    /\ run.pc \notin {"none", "release"} => db.status \in {"RUNNING", "KILLED"}
    /\ run.pc \in Early => run.ending # "SUCCESS"
    /\ run.pc = "finish" /\ run.ending = "SUCCESS" => Approvals(hist) = {} \/ run.commit # NoCommit
    /\ SuccessIsDelivered

LEMMA RecordedInit == OrchestratorInit => Recorded
BY DEF OrchestratorInit, Init, NoRun, NoRec, NoOp, BaseCommit, Recorded, NamedBeforeMoved, SuccessIsDelivered,
   Early, Delivering

\* The process goes on without touching the branch, the row or a recovery's record.
Along ==
    /\ UNCHANGED <<branch, op, rec, db>>
    /\ run'.commit \in {run.commit, NoCommit}
    /\ run'.pc \notin {"none", "release"} => run.pc \notin {"none", "release"}
    /\ run'.pc \in Early => run.pc \in Early /\ run'.ending = run.ending
    /\ run'.pc = "finish" /\ run'.ending = "SUCCESS" =>
          Approvals(hist) = {} \/ run'.commit # NoCommit \/ (run.pc = "finish" /\ run' = run)

LEMMA AlongRecorded ==
    ASSUME TypeOK, Recorded, Along, hist.delivered \subseteq hist'.delivered,
           Approvals(hist') = Approvals(hist) \/ AppendDecision
    PROVE  Recorded'
<1>1. NamedBeforeMoved'
    BY DEF Recorded, Along, NamedBeforeMoved, Delivers, OwnCommit
<1>2. AppendDecision => run.pc = "append" /\ run'.pc = "answer"
    <2> SUFFICES ASSUME AppendDecision PROVE run.pc = "append" /\ run'.pc = "answer"
        OBVIOUS
    <2>1. PICK good \in BOOLEAN : run' = [run EXCEPT !.pc = "answer", !.ruling.approved = good]
        BY AppendIsDecision
    <2> QED BY <2>1 DEF AppendDecision, RecordDecision, TypeOK, Runs
<1>3. SuccessIsDelivered'
    BY <1>2 DEF Recorded, Along, SuccessIsDelivered, Moved
<1> QED BY <1>1, <1>2, <1>3 DEF Recorded, Along, Moved

LEMMA ProcessAlong ==
    TypeOK /\ Held /\ Recorded /\ ProcessStep /\ UNCHANGED rec => Along \/ Deliver \/ FinishRun
<1> SUFFICES ASSUME TypeOK, Held, Recorded, ProcessStep, UNCHANGED rec PROVE Along \/ Deliver \/ FinishRun
    OBVIOUS
<1>0. run \in Runs
    BY DEF TypeOK
<1> USE DEF Along, Early
<1>1. CASE ReadPolicy \/ ClaimLaunch \/ MarkRunning \/ Bind
    BY <1>0, <1>1 DEF ReadPolicy, ClaimLaunch, MarkRunning, Bind, Goto, durable, Runs
<1>2. CASE SetupFails
    BY <1>0, <1>2 DEF SetupFails, Goto, durable, Runs, Recorded
<1>3. CASE WaitEnds \/ Expire \/ KeepApproval \/ PassRejection
    BY <1>0, <1>3 DEF WaitEnds, Rule, Expire, KeepApproval, PassRejection, Goto, durable, Runs
<1>4. CASE ConsumeFails \/ LoopEnds \/ FinalizeFails
    BY <1>0, <1>4 DEF ConsumeFails, LoopEnds, FinalizeFails, EndAs, durable, Runs
<1>5. CASE AppendDecision
    <2>1. PICK good \in BOOLEAN : run' = [run EXCEPT !.pc = "answer", !.ruling.approved = good]
        BY <1>5, AppendIsDecision
    <2> QED BY <1>0, <1>5, <2>1 DEF AppendDecision, RecordDecision, Runs
<1>6. CASE Answer
    BY <1>0, <1>6 DEF Answer, Runs
<1>7. CASE \E o \in Outcomes : EndLaunch(o)
    BY <1>0, <1>7 DEF EndLaunch, Goto, Runs
<1>8. CASE Verify \/ StillGoing
    BY <1>0, <1>8 DEF Verify, StillGoing, Goto, EndAs, durable, Runs
<1>9. CASE Prepare
    BY <1>0, <1>9 DEF Prepare, Goto, Runs
<1>10. CASE PrepareNothing
    <2>1. run.files = BaseTree => Approvals(hist) = {}
        BY <1>10, ApprovalsType, PathAssumption DEF PrepareNothing, Held, Driving, Bounded, InHand, BaseTree, TypeOK
    <2> QED BY <1>0, <1>10, <2>1 DEF PrepareNothing, EndAs, durable, Runs
<1>11. CASE Certify
    <2>1. run.commit # NoCommit
        BY <1>11 DEF Certify, TypeOK, Commits, NoCommit
    <2> QED BY <1>0, <1>11, <2>1 DEF Certify, Goto, Runs
<1>12. CASE Release
    BY <1>12 DEF Release, NoRun
<1> QED BY <1>1, <1>2, <1>3, <1>4, <1>5, <1>6, <1>7, <1>8, <1>9, <1>10, <1>11, <1>12 DEF ProcessStep

LEMMA ResumeAlong ==
    TypeOK /\ Recorded /\ ResumeStep /\ UNCHANGED rec => Along \/ Reopen
<1> SUFFICES ASSUME TypeOK, Recorded, ResumeStep, UNCHANGED rec PROVE Along \/ Reopen
    OBVIOUS
<1>0. run \in Runs
    BY DEF TypeOK
<1> USE DEF Along, Early
<1>1. CASE RecordLostLaunch \/ SettleAcknowledged \/ SettleUnparked \/ AppendResumed
    BY <1>0, <1>1 DEF RecordLostLaunch, SettleAcknowledged, SettleUnparked, AppendResumed, Goto, durable, Runs
<1>2. CASE RefuseParked \/ RefuseRecords
    BY <1>2 DEF RefuseParked, RefuseRecords, Refuse, NoRun
<1>3. CASE CheckWorktree
    <2>1. CASE Refuse
        BY <1>3, <2>1 DEF CheckWorktree, Refuse, NoRun
    <2>2. CASE Goto("reopen")
        BY <1>0, <1>3, <2>2 DEF CheckWorktree, Goto, Runs
    <2> QED BY <1>3, <2>1, <2>2 DEF CheckWorktree
<1>4. CASE Trim
    <2>1. /\ run'.pc = "launch" /\ run'.ending = run.ending /\ run'.commit = run.commit
          /\ UNCHANGED <<branch, op, db>> /\ run.pc = "trim"
        BY <1>0, <1>4 DEF Trim, TrimUpTo, Runs
    <2> QED BY <2>1
<1> QED BY <1>1, <1>2, <1>3, <1>4 DEF ResumeStep

LEMMA OutsideAlong ==
    TypeOK /\ Recorded /\ OutsideStep /\ UNCHANGED rec
    => Along \/ Open \/ \E c \in Strangers : BranchMoved(c)
<1> SUFFICES ASSUME TypeOK, Recorded, OutsideStep, UNCHANGED rec
             PROVE  Along \/ Open \/ \E c \in Strangers : BranchMoved(c)
    OBVIOUS
<1>0. run \in Runs
    BY DEF TypeOK
<1> USE DEF Along, Early
<1>1. CASE Crash
    BY <1>1 DEF Crash, NoRun
<1>2. CASE (\E r \in Reqs : Propose(r)) \/ (\E s \in RunSources : Decide(s, TRUE)) \/ Decide("operator", FALSE)
    BY <1>0, <1>2 DEF Propose, Decide, Rule, durable, Runs
<1>3. CASE (\E ok \in BOOLEAN : AgentExits(ok)) \/ \E approved \in BOOLEAN : FinalReview(approved)
    BY <1>0, <1>3 DEF AgentExits, FinalReview, Goto, EndAs, durable, Runs
<1>4. CASE OverBudget \/ Deadline \/ Cancel
    BY <1>0, <1>4 DEF OverBudget, Deadline, Cancel, EndAs, durable, Runs
<1>5. CASE (\E f \in Paths, c \in Reqs \cup {Base} : AgentWrites(f, c)) \/ Acknowledge
    BY <1>5 DEF AgentWrites, Acknowledge
<1> QED BY <1>1, <1>2, <1>3, <1>4, <1>5 DEF OutsideStep

\* While the branch is at the base no record names a commit.
LEMMA NothingNamed ==
    Recorded /\ branch = BaseCommit =>
        /\ ~Moved
        /\ run.commit = NoCommit /\ rec.commit = NoCommit /\ op.commit = NoCommit /\ db.commit = NoCommit
BY DEF Recorded, Moved, BaseCommit

LEMMA DeliverRecorded == TypeOK /\ Held /\ Recorded /\ Deliver /\ UNCHANGED rec => Recorded'
<1> SUFFICES ASSUME TypeOK, Held, Recorded, Deliver, UNCHANGED rec PROVE Recorded'
    OBVIOUS
<1>1. /\ run'.pc = "certify" /\ run'.commit = branch' /\ branch' = [tree |-> run.files, maker |-> "run"]
      /\ run.pc = "deliver" /\ UNCHANGED <<db, hist, op>>
    BY DEF Deliver, TypeOK, Runs
<1>2. branch'.maker = "run" /\ Delivers(hist', "commit_prepared", branch')
    BY <1>1 DEF Held, Prepared
<1>3. NamedBeforeMoved' /\ Moved'
    BY <1>2 DEF NamedBeforeMoved, Moved
<1>4. SuccessIsDelivered'
    BY <1>1 DEF Recorded, SuccessIsDelivered
<1>5. rec.commit = NoCommit /\ op.commit = NoCommit /\ db.commit = NoCommit
    BY NothingNamed DEF Deliver
<1> QED BY <1>1, <1>3, <1>4, <1>5 DEF Recorded, Early

LEMMA RowsRecorded ==
    TypeOK /\ Owned /\ Held /\ Recorded /\ (FinishRun \/ Reopen \/ Open \/ Claim) /\ UNCHANGED rec => Recorded'
<1> SUFFICES ASSUME TypeOK, Owned, Held, Recorded, FinishRun \/ Reopen \/ Open \/ Claim, UNCHANGED rec PROVE Recorded'
    OBVIOUS
<1>0. run \in Runs /\ UNCHANGED <<branch, op, hist>>
    BY DEF TypeOK, FinishRun, Reopen, Open, Claim
<1>1. NamedBeforeMoved'
    BY <1>0 DEF Recorded, NamedBeforeMoved, OwnCommit
<1>2. CASE FinishRun
    <2>1. run'.pc = "release" /\ run'.commit = run.commit /\ run.pc = "finish"
        BY <1>0, <1>2 DEF FinishRun, Goto, Runs
    <2>2. db' = db \/ (db'.commit = run.commit /\ db'.status \in {run.ending, "FAILED"})
        BY <1>2 DEF FinishRun
    <2>3. SuccessIsDelivered'
        BY <1>0, <2>1, <2>2 DEF Recorded, SuccessIsDelivered, Moved
    <2> QED BY <1>0, <1>1, <2>1, <2>2, <2>3 DEF Recorded, Moved, Early
<1>3. CASE Reopen
    <2>1. run'.pc = "resumed" /\ run'.commit = run.commit /\ run.pc = "reopen" /\ run'.ending = run.ending
        BY <1>0, <1>3 DEF Reopen, Goto, Runs
    <2>2. db'.status = "RUNNING" /\ db'.commit = db.commit
        BY <1>3 DEF Reopen, TypeOK, Rows
    <2>3. SuccessIsDelivered'
        BY <2>2 DEF SuccessIsDelivered
    <2> QED BY <1>0, <1>1, <2>1, <2>2, <2>3 DEF Recorded, Moved, Early
<1>4. CASE Open
    <2>1. run'.pc = "bind" /\ run'.commit = run.commit /\ run'.ending = run.ending
        BY <1>0, <1>4 DEF Open, Goto, Runs
    <2>2. db'.status = "RUNNING" /\ db'.commit = db.commit
        BY <1>4 DEF Open, TypeOK, Rows
    <2>3. SuccessIsDelivered'
        BY <2>2 DEF SuccessIsDelivered
    <2>4. run.ending = "FAILED"
        BY <1>4 DEF Open, Held, NoRun
    <2> QED BY <1>0, <1>1, <2>1, <2>2, <2>3, <2>4 DEF Recorded, Moved, Early
<1>5. CASE Claim
    <2>1. run'.pc = "settle" /\ run'.commit = NoCommit /\ run'.ending = "KILLED" /\ db' = db
        BY <1>5 DEF Claim, NoRun
    <2> QED BY <1>0, <1>1, <1>5, <2>1 DEF Recorded, Moved, Early, Claim, Continuable, SuccessIsDelivered
<1> QED BY <1>2, <1>3, <1>4, <1>5

LEMMA MovedRecorded == \A c \in Strangers : TypeOK /\ Recorded /\ BranchMoved(c) /\ UNCHANGED rec => Recorded'
<1> SUFFICES ASSUME NEW c \in Strangers, TypeOK, Recorded, BranchMoved(c), UNCHANGED rec PROVE Recorded'
    OBVIOUS
<1>1. branch'.maker = "other" /\ UNCHANGED <<db, hist, op, run>> /\ ~Moved
    BY StrangersAssumption, NothingNamed DEF BranchMoved
<1>2. run.commit = NoCommit /\ rec.commit = NoCommit /\ op.commit = NoCommit /\ db.commit = NoCommit
    BY NothingNamed DEF BranchMoved
<1>3. SuccessIsDelivered'
    BY <1>1 DEF Recorded, SuccessIsDelivered
<1>4. NamedBeforeMoved'
    BY <1>1 DEF NamedBeforeMoved
<1> QED BY <1>1, <1>2, <1>3, <1>4 DEF Recorded

\* A recovery that leaves branch, row and recovery record alone.
LEMMA RecoveryAlong ==
    ASSUME TypeOK, Recorded, UNCHANGED <<branch, op, run, db>>,
           hist.delivered \subseteq hist'.delivered, Approvals(hist') = Approvals(hist),
           rec'.commit \in {rec.commit, NoCommit},
           rec'.pc \in {"review", "op"} => ~op.made,
           rec'.pc \in {"deliver"} \cup Delivering => op.made
    PROVE  Recorded'
<1>1. NamedBeforeMoved'
    BY DEF Recorded, NamedBeforeMoved, Delivers, OwnCommit
<1>2. SuccessIsDelivered'
    BY DEF Recorded, SuccessIsDelivered, Moved
<1> QED BY <1>1, <1>2 DEF Recorded, Moved

LEMMA RecoverAlongRecorded ==
    ASSUME TypeOK, Recorded, [Next]_allVars,
           \/ RecoverRead \/ RecoverClaim \/ RecoverCertify \/ RecoverRecord \/ RecoverStops \/ RecoverCrash
           \/ \E approved \in BOOLEAN : RecoverReview(approved)
    PROVE  Recorded'
<1>0. rec \in Recs
    BY DEF TypeOK
<1>1. UNCHANGED <<branch, op, run, db>>
    BY DEF RecoverRead, ReadNeeding, vars, RecoverClaim, RecoverCertify, RecoverRecord, RecoverStops, RecoverCrash,
       RecoverReview, ReviewNumbered
<1>2. ~AppendDecision \/ Approvals(hist') = Approvals(hist)
    <2>1. AppendDecision => run'.pc = "answer" /\ run.pc = "append"
        <3> SUFFICES ASSUME AppendDecision PROVE run.pc = "append" /\ run'.pc = "answer"
            OBVIOUS
        <3>1. PICK good \in BOOLEAN : run' = [run EXCEPT !.pc = "answer", !.ruling.approved = good]
            BY AppendIsDecision
        <3> QED BY <3>1 DEF AppendDecision, RecordDecision, TypeOK, Runs
    <2> QED BY <1>1, <2>1
<1>3. hist.delivered \subseteq hist'.delivered /\ Approvals(hist') = Approvals(hist)
    BY <1>2, ChainKeeps
<1>4. CASE RecoverRead
    BY <1>1, <1>3, <1>4, RecoveryAlong DEF RecoverRead, ReadNeeding, NoRec, Delivering
<1>5. CASE RecoverClaim
    <2>1. rec'.commit = rec.commit /\ rec'.pc = IF op.made THEN "deliver" ELSE IF rec.review THEN "review" ELSE "op"
        BY <1>0, <1>5 DEF RecoverClaim, Recs
    <2> QED BY <1>1, <1>3, <2>1, RecoveryAlong DEF Delivering
<1>6. CASE RecoverCertify \/ RecoverRecord
    <2>1. rec'.commit = rec.commit /\ rec'.pc \in Delivering /\ rec.pc \in Delivering
        BY <1>0, <1>6 DEF RecoverCertify, RecoverRecord, RecGoto, Recs, Delivering
    <2>2. rec'.pc \notin {"review", "op"} /\ op.made
        BY <2>1 DEF Recorded, Delivering
    <2> QED BY <1>1, <1>3, <2>1, <2>2, RecoveryAlong
<1>7. CASE RecoverStops \/ RecoverCrash
    BY <1>1, <1>3, <1>7, RecoveryAlong DEF RecoverStops, RecoverCrash, NoRec, Delivering
<1>8. CASE \E approved \in BOOLEAN : RecoverReview(approved)
    <2>1. rec.pc = "review" /\ (rec' = NoRec \/ (rec'.commit = rec.commit /\ rec'.pc = "op"))
        BY <1>0, <1>8 DEF RecoverReview, ReviewNumbered, RecGoto, Recs
    <2> QED BY <1>1, <1>3, <2>1, RecoveryAlong DEF NoRec, Delivering, Recorded
<1> QED BY <1>4, <1>5, <1>6, <1>7, <1>8

LEMMA RecoverOpRecorded == TypeOK /\ Recorded /\ RecoverOp => Recorded'
<1> SUFFICES ASSUME TypeOK, Recorded, RecoverOp PROVE Recorded'
    OBVIOUS
<1>1. /\ rec.pc = "op" /\ rec'.pc = "deliver" /\ rec'.commit = rec.commit /\ op'.made /\ op'.commit = NoCommit
      /\ UNCHANGED <<branch, hist, run, db>>
    BY DEF RecoverOp, RecGoto, TypeOK, Recs
<1>2. NamedBeforeMoved'
    BY <1>1 DEF Recorded, NamedBeforeMoved
<1>3. SuccessIsDelivered'
    BY <1>1 DEF Recorded, SuccessIsDelivered, Moved
<1> QED BY <1>1, <1>2, <1>3 DEF Recorded, Moved

LEMMA RecoverDeliverRecorded == TypeOK /\ Recorded /\ RecoverDeliver => Recorded'
<1> SUFFICES ASSUME TypeOK, Recorded, RecoverDeliver PROVE Recorded'
    OBVIOUS
<1>1. /\ rec.pc = "deliver" /\ rec'.pc = "keep" /\ rec'.commit = branch' /\ op.made
      /\ UNCHANGED <<op, hist, run, db>>
    BY DEF RecoverDeliver, TypeOK, Recs, Recorded
<1>2. branch' \in {OwnCommit, branch} /\ Moved'
    BY DEF RecoverDeliver, OwnCommit, Moved
<1>3. NamedBeforeMoved'
    BY <1>1, <1>2 DEF Recorded, NamedBeforeMoved, OwnCommit
<1>4. \A c \in {run.commit, op.commit, db.commit} : c # NoCommit => c = branch'
    BY <1>2, NothingNamed DEF Recorded, RecoverDeliver
<1>5. SuccessIsDelivered'
    BY <1>1, <1>2, <1>4 DEF Recorded, SuccessIsDelivered, RecoverDeliver, BaseCommit, Moved
<1> QED BY <1>1, <1>2, <1>3, <1>4, <1>5 DEF Recorded, Delivering

LEMMA RecoverEndRecorded == TypeOK /\ Owned /\ Recorded /\ (RecoverKeep \/ RecoverFinish) => Recorded'
<1> SUFFICES ASSUME TypeOK, Owned, Recorded, RecoverKeep \/ RecoverFinish PROVE Recorded'
    OBVIOUS
<1>1. rec.pc \in {"keep", "finish"} /\ rec.commit # NoCommit /\ op.made /\ UNCHANGED <<branch, hist, run>>
    BY DEF RecoverKeep, RecoverFinish, TypeOK, Commits, NoCommit, Recorded, Delivering
<1>2. rec.commit = branch /\ Moved
    BY <1>1 DEF Recorded
<1>3. CASE RecoverKeep
    <2>1. rec'.pc = "certify" /\ rec'.commit = rec.commit /\ db' = db /\ op'.made /\ op'.tree = op.tree
          /\ op'.commit \in {op.commit, rec.commit}
        BY <1>1, <1>3 DEF RecoverKeep, RecGoto, TypeOK, Recs, Ops
    <2>2. NamedBeforeMoved' /\ SuccessIsDelivered'
        BY <1>1, <2>1 DEF Recorded, NamedBeforeMoved, SuccessIsDelivered, OwnCommit, Moved
    <2> QED BY <1>1, <1>2, <2>1, <2>2 DEF Recorded, Delivering, Moved
<1>4. CASE RecoverFinish
    <2>1. rec'.pc = "none" /\ rec'.commit = NoCommit /\ UNCHANGED op
          /\ (db' = db \/ db'.commit = rec.commit)
        BY <1>4 DEF RecoverFinish, NoRec
    <2>2. NamedBeforeMoved'
        BY <1>1, <2>1 DEF Recorded, NamedBeforeMoved, OwnCommit
    <2>3. SuccessIsDelivered'
        BY <1>1, <1>2, <2>1 DEF Recorded, SuccessIsDelivered, Moved
    <2>4. run.pc = "none"
        BY <1>4 DEF RecoverFinish, Owned, Recovering
    <2> QED BY <1>1, <1>2, <2>1, <2>2, <2>3, <2>4 DEF Recorded, Delivering, Moved
<1> QED BY <1>3, <1>4

LEMMA RecordedStep == TypeOK /\ Owned /\ Held /\ Recorded /\ [Next]_allVars => Recorded'
<1> SUFFICES ASSUME TypeOK, Owned, Held, Recorded, [Next]_allVars PROVE Recorded'
    OBVIOUS
<1>1. CASE RunStep
    <2>1. UNCHANGED rec
        BY <1>1 DEF RunStep
    <2>2. CASE Along
        BY <2>2, ChainKeeps, AlongRecorded
    <2> QED BY <1>1, <2>1, <2>2, ProcessAlong, ResumeAlong, OutsideAlong, DeliverRecorded, RowsRecorded, MovedRecorded
        DEF RunStep
<1>2. CASE RecoverStep
    BY <1>2, RecoverAlongRecorded, RecoverOpRecorded, RecoverDeliverRecorded, RecoverEndRecorded DEF RecoverStep
<1>3. CASE UNCHANGED allVars
    BY <1>3 DEF allVars, vars, Recorded, NamedBeforeMoved, OwnCommit, SuccessIsDelivered, Moved
<1> QED BY <1>1, <1>2, <1>3, StepCases

\* finalize.go, recover.go: whatever process died where, the run's row, the record of a
\* recovery and the memory of a process name no commit but the one on the run's branch,
\* which was named durably before the branch moved, and a run that succeeded has it.
THEOREM RecordsAlwaysAgree == Spec => []RecordsAgree
<1>1. Recorded => RecordsAgree
    BY DEF Recorded, RecordsAgree, RecordNamesBranch
<1>2. Durable => Ordered(hist)
    BY DEF Durable
<1> QED BY <1>1, <1>2, Typed, DurableInit, DurableStep, OwnedInit, OwnedStep, HeldInit, HeldStep, RecordedInit, RecordedStep,
    PTL DEF Spec
=============================================================================
