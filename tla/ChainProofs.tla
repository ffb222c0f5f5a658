---------------------------- MODULE ChainProofs ----------------------------
(***************************************************************************)
(* Every event the processes of Orchestrator.tla write is one the replay   *)
(* of the chain accepts, and an approval that comes too late is consumed   *)
(* by nobody.                                                              *)
(*                                                                         *)
(* Fits says what the place a process has reached means for a chain that   *)
(* can be read: which events it has seen, and what the process has in      *)
(* hand.  Whole adds what a recovery has read and what it has begun.       *)
(***************************************************************************)
EXTENDS RecordsProofs

-----------------------------------------------------------------------------
(* What an event changes when the replay accepts it.                       *)

LEMMA AcceptedEvents ==
    ASSUME NEW h \in Histories
    PROVE  /\ ~RunBound(h).broken => ~h.broken /\ ~h.bound /\ RunBound(h).launches = h.launches
           /\ ~PolicySnapshot(h).broken => PolicySnapshot(h).launches = h.launches
           /\ ~DriftHalt(h).broken => DriftHalt(h).launches = h.launches /\ DriftHalt(h).pending = h.pending
           /\ \A ack \in BOOLEAN : ~RunResumed(h, ack).broken => RunResumed(h, ack).launches = h.launches
           /\ \A r \in Reqs : ~YieldRequest(h, r).broken =>
                 YieldRequest(h, r).launches = h.launches /\ YieldRequest(h, r).pending = r
           /\ \A d \in Decision : ~YieldDecided(h, d).broken =>
                 /\ YieldDecided(h, d).launches = h.launches
                 /\ YieldDecided(h, d).decisions = h.decisions \cup {d}
                 /\ YieldDecided(h, d).lastDecided = d.seq
                 /\ d.seq > h.lastDecided
           /\ \A event \in Events, c \in Commits : ~CommitEvent(h, event, c).broken =>
                 CommitEvent(h, event, c).launches = h.launches
<1>1. ~RunBound(h).broken => ~h.broken /\ ~h.bound /\ RunBound(h).launches = h.launches
    BY DEF RunBound, Histories
<1>2. ~PolicySnapshot(h).broken => PolicySnapshot(h).launches = h.launches
    BY DEF PolicySnapshot, Accept, Histories
<1>3. ~DriftHalt(h).broken => DriftHalt(h).launches = h.launches /\ DriftHalt(h).pending = h.pending
    BY DEF DriftHalt, Accept, Histories
<1>4. ASSUME NEW ack \in BOOLEAN, ~RunResumed(h, ack).broken PROVE RunResumed(h, ack).launches = h.launches
    BY <1>4 DEF RunResumed, Accept, Histories
<1>5. ASSUME NEW r \in Reqs, ~YieldRequest(h, r).broken
      PROVE  YieldRequest(h, r).launches = h.launches /\ YieldRequest(h, r).pending = r
    BY <1>5 DEF YieldRequest, Accept, Histories
<1>6. ASSUME NEW d \in Decision, ~YieldDecided(h, d).broken
      PROVE  /\ YieldDecided(h, d).launches = h.launches
             /\ YieldDecided(h, d).decisions = h.decisions \cup {d}
             /\ YieldDecided(h, d).lastDecided = d.seq
             /\ d.seq > h.lastDecided
    BY <1>6 DEF YieldDecided, Accept, Histories
<1>7. ASSUME NEW event \in Events, NEW c \in Commits, ~CommitEvent(h, event, c).broken
      PROVE  CommitEvent(h, event, c).launches = h.launches
    BY <1>7 DEF CommitEvent, Accept, Histories
<1> QED BY <1>1, <1>2, <1>3, <1>4, <1>5, <1>6, <1>7

\* Whether a launch is open follows its events.
LEMMA AcceptedLaunches ==
    ASSUME NEW h \in Histories
    PROVE  /\ ~LaunchClaimed(h).broken => h.bound /\ OpenLaunch(LaunchClaimed(h))
           /\ \A outcome \in Outcomes \ {"open"} : ~LaunchEnded(h, outcome).broken =>
                 h.bound /\ ~OpenLaunch(LaunchEnded(h, outcome))
           /\ ~LaunchAcknowledged(h).broken => h.bound /\ ~OpenLaunch(LaunchAcknowledged(h))
<1>0. h.launches \in Seq(Launch)
    BY DEF Histories
<1>1. ASSUME ~LaunchClaimed(h).broken PROVE h.bound /\ OpenLaunch(LaunchClaimed(h))
    <2> DEFINE new == [outcome |-> "open", acked |-> FALSE]
    <2>1. h.bound /\ LaunchClaimed(h).launches = Append(h.launches, new)
        BY <1>1 DEF LaunchClaimed, Accept, Histories
    <2>2. new \in Launch /\ new.outcome = "open"
        BY DEF Launch, Outcomes
    <2> HIDE DEF new
    <2>3. /\ Append(h.launches, new) # << >>
          /\ Append(h.launches, new)[Len(Append(h.launches, new))] = new
        BY <1>0, <2>2
    <2> QED BY <2>1, <2>2, <2>3 DEF OpenLaunch
<1>2. ASSUME NEW outcome \in Outcomes \ {"open"}, ~LaunchEnded(h, outcome).broken
      PROVE  h.bound /\ ~OpenLaunch(LaunchEnded(h, outcome))
    <2> DEFINE n == Len(h.launches)
               s == [h.launches EXCEPT ![n].outcome = outcome]
    <2>1. h.bound /\ OpenLaunch(h) /\ LaunchEnded(h, outcome).launches = s
        BY <1>2 DEF LaunchEnded, Accept, Histories
    <2>2. n \in DOMAIN h.launches /\ h.launches[n] \in Launch
        BY <1>0, <2>1 DEF OpenLaunch
    <2>3. s[n].outcome = outcome
        BY <2>2 DEF Launch
    <2>4. Len(s) = n
        BY <1>0, <2>2
    <2> HIDE DEF s
    <2> QED BY <2>1, <2>3, <2>4 DEF OpenLaunch
<1>3. ASSUME ~LaunchAcknowledged(h).broken PROVE h.bound /\ ~OpenLaunch(LaunchAcknowledged(h))
    <2> DEFINE n == Len(h.launches)
               s == [h.launches EXCEPT ![n].acked = TRUE]
    <2>1. h.bound /\ LaunchParked(h) /\ ~OpenLaunch(h) /\ LaunchAcknowledged(h).launches = s
        BY <1>3 DEF LaunchAcknowledged, Accept, Histories
    <2>2. n \in DOMAIN h.launches /\ h.launches[n] \in Launch
        BY <1>0, <2>1 DEF LaunchParked
    <2>3. s[n].outcome = h.launches[n].outcome /\ h.launches[n].outcome # "open"
        BY <2>1, <2>2 DEF Launch, OpenLaunch, LaunchParked
    <2>4. Len(s) = n
        BY <1>0, <2>2
    <2> HIDE DEF s
    <2> QED BY <2>1, <2>3, <2>4 DEF OpenLaunch
<1> QED BY <1>1, <1>2, <1>3

LEMMA SameLaunches ==
    ASSUME NEW h, NEW g, g.launches = h.launches
    PROVE  OpenLaunch(g) <=> OpenLaunch(h)
BY DEF OpenLaunch

-----------------------------------------------------------------------------
(* Where a process stands, on a chain that can be read.                    *)

\* Its commit is not named yet.
Unnamed == Bounded \ {"named", "deliver", "certify"}
\* No agent of its own segment was launched yet, or its end is on the chain.
Closed == {"policy", "check", "reopen", "resumed", "trim", "launch"}
\* Its agent's launch has no outcome yet.
Launched == {"mark", "loop", "decide", "ruled", "append", "answer", "stopping"}
Deciding == {"decide", "ruled", "append"}
\* The number of its last proposal is the last number decided, or above it.
Counting == Driving \ {"prepare", "named", "deliver", "certify"}
\* The whole change has the review it needs.
Cleared == {"prepare", "named", "deliver", "certify"}

Reviewed(h) == TaskApproved(h) => FinalReviewed(h)

\* Who approves is allowed to, and a task's approval is remembered.
MayApprove == run.ruling.source \in RunSources /\ (run.ruling.source = "task" => run.task)

Fits ==
    /\ ~hist.bound => hist.delivered = {} /\ hist.launches = << >> /\ hist.lastDecided = 0
    /\ run.pc \in Unnamed => hist.delivered = {}
    /\ run.pc \in Closed => ~OpenLaunch(hist)
    /\ run.pc \in Launched => OpenLaunch(hist)
    /\ run.pc \in Counting => hist.lastDecided <= run.total
    /\ run.pc \in Deciding => /\ hist.lastDecided < run.total
                              /\ hist.pending = run.ruling.req
                              /\ run.total \in 1..MaxSeq
    /\ run.pc \in Driving => InHand = TreeOf(Approvals(hist)) /\ (TaskApproved(hist) => run.task)
    /\ run.pc \in {"ruled", "append"} /\ run.ruling.approved => MayApprove
    /\ run.pc \in Cleared => Reviewed(hist)
    /\ run.pc \in {"named", "deliver"} => run.files # BaseTree

FitsWhileRead == ~hist.broken => Fits

LEMMA FitsInit == OrchestratorInit => FitsWhileRead
BY DEF OrchestratorInit, Init, NoHistory, NoRun, FitsWhileRead, Fits, Unnamed, Bounded, Driving, Closed, Launched,
   Deciding, Counting, Cleared

\* A step that decides and delivers nothing leaves what the process knows about the chain
\* true: it goes where that is still known, or what is to be known there is so.
Keeps ==
    /\ Plain(hist, hist')
    /\ ~hist.bound => hist'.launches = hist.launches
    /\ run'.pc \in Unnamed => run.pc \in Unnamed \/ hist.delivered = {}
    /\ run'.pc \in Closed => ~OpenLaunch(hist')
    /\ run'.pc \in Launched => OpenLaunch(hist')
    /\ run'.pc \in Counting => (run.pc \in Counting /\ run.total <= run'.total) \/ hist.lastDecided <= run'.total
    /\ run'.pc \in Deciding => /\ hist.lastDecided < run'.total
                               /\ hist'.pending = run'.ruling.req
                               /\ run'.total \in 1..MaxSeq
    /\ run'.pc \in Driving => \/ run.pc \in Driving /\ InHand' = InHand /\ (run.task => run'.task)
                              \/ InHand' = TreeOf(Approvals(hist)) /\ (TaskApproved(hist) => run'.task)
    /\ run'.pc \in {"ruled", "append"} /\ run'.ruling.approved => MayApprove'
    /\ run'.pc \in Cleared => run.pc \in Cleared \/ Reviewed(hist)
    /\ run'.pc \in {"named", "deliver"} => run.pc \in {"named", "deliver"} /\ run'.files = run.files

LEMMA SameApprovals ==
    ASSUME NEW h, NEW g, g.decisions = h.decisions
    PROVE  Approvals(g) = Approvals(h) /\ TaskApproved(g) = TaskApproved(h) /\ Reviewed(g) = Reviewed(h)
BY DEF Approvals, TaskApproved, Reviewed, FinalReviewed, LateReviews

LEMMA KeepsFits == TypeOK /\ TypeOK' /\ Fits /\ Keeps => Fits'
<1> SUFFICES ASSUME TypeOK, TypeOK', Fits, Keeps PROVE Fits'
    OBVIOUS
<1>1. /\ hist'.bound = hist.bound /\ hist'.delivered = hist.delivered /\ hist'.lastDecided = hist.lastDecided
      /\ hist'.decisions = hist.decisions
    BY DEF Keeps, Plain
<1>2. /\ Approvals(hist') = Approvals(hist) /\ TaskApproved(hist') = TaskApproved(hist)
      /\ Reviewed(hist') = Reviewed(hist)
    BY <1>1, SameApprovals
<1>3. run'.pc \in Driving => InHand' = TreeOf(Approvals(hist')) /\ (TaskApproved(hist') => run'.task)
    BY <1>2 DEF Fits, Keeps
<1>4. run'.pc \in Counting => hist'.lastDecided <= run'.total
    <2>1. run'.pc \in Counting /\ run.pc \in Counting => hist.lastDecided <= run.total
        BY DEF Fits
    <2>2. hist.lastDecided \in Nat /\ run.total \in Nat /\ run'.total \in Nat
        BY DEF TypeOK, Histories, Runs
    <2> QED BY <1>1, <2>1, <2>2 DEF Keeps
<1>5. run'.pc \in Cleared => Reviewed(hist')
    BY <1>2 DEF Fits, Keeps
<1>6. /\ run'.pc \in Unnamed => hist'.delivered = {}
      /\ ~hist'.bound => hist'.delivered = {} /\ hist'.launches = << >> /\ hist'.lastDecided = 0
    BY <1>1 DEF Fits, Keeps
<1>7. run'.pc \in {"named", "deliver"} => run'.files # BaseTree
    BY DEF Fits, Keeps
<1> QED BY <1>1, <1>3, <1>4, <1>5, <1>6, <1>7 DEF Fits, Keeps

\* The process's own steps, on a chain that stays readable.
LEMMA ProcessKeeps ==
    ASSUME TypeOK, TypeOK', Owned, Held, Fits, ~hist'.broken, Plain(hist, hist'), ProcessStep
    PROVE  Keeps \/ Bind \/ AppendDecision \/ Prepare \/ Certify
<1>0. run \in Runs /\ hist \in Histories
    BY DEF TypeOK
<1> USE DEF Keeps, Unnamed, Closed, Launched, Deciding, Counting, Cleared, Bounded, Driving, InHand
<1>1. CASE ReadPolicy
    <2>1. /\ run.pc = "policy" /\ run'.pc = "launch" /\ run'.total = run.total /\ run'.files = run.files
          /\ run'.task = run.task
        BY <1>0, <1>1 DEF ReadPolicy, Goto, Runs
    <2>2. hist'.launches = hist.launches
        BY <1>0, <1>1, AcceptedEvents DEF ReadPolicy
    <2>3. ~OpenLaunch(hist')
        BY <2>1, <2>2, SameLaunches DEF Fits
    <2> QED BY <2>1, <2>2, <2>3 DEF TypeOK, Runs
<1>2. CASE ClaimLaunch
    <2>1. /\ run.pc = "launch" /\ run'.pc = "mark" /\ run'.total = run.total /\ run'.files = run.files
          /\ run'.task = run.task
        BY <1>0, <1>2 DEF ClaimLaunch, Goto, Runs
    <2>2. hist.bound /\ OpenLaunch(hist')
        BY <1>0, <1>2, AcceptedLaunches DEF ClaimLaunch
    <2> QED BY <2>1, <2>2 DEF TypeOK, Runs
<1>3. CASE MarkRunning \/ SetupFails
    <2>1. hist' = hist
        BY <1>3 DEF MarkRunning, SetupFails, durable
    <2> QED BY <1>0, <1>3, <2>1 DEF MarkRunning, SetupFails, Goto, Runs, Fits
<1>4. CASE WaitEnds
    BY <1>0, <1>4 DEF WaitEnds, Rule, durable, Runs, Rulings, Fits
<1>5. CASE Expire \/ KeepApproval \/ PassRejection
    <2>1. hist' = hist
        BY <1>5 DEF Expire, KeepApproval, PassRejection, durable
    <2>2. CASE Expire
        BY <1>0, <2>1, <2>2 DEF Expire, Runs, Rulings, Fits, TypeOK
    <2>3. CASE KeepApproval
        BY <1>0, <2>1, <2>3 DEF KeepApproval, Runs, Rulings, Fits, MayApprove, TypeOK
    <2>4. CASE PassRejection
        BY <1>0, <2>1, <2>4 DEF PassRejection, Goto, Runs, Fits, TypeOK
    <2> QED BY <1>5, <2>2, <2>3, <2>4
<1>6. CASE ConsumeFails \/ FinalizeFails \/ PrepareNothing
    <2>1. hist' = hist
        BY <1>6 DEF ConsumeFails, FinalizeFails, PrepareNothing, durable
    <2> QED BY <1>0, <1>6, <2>1 DEF ConsumeFails, FinalizeFails, PrepareNothing, EndAs, Runs, Fits
<1>7. CASE Answer
    <2>1. /\ run.pc = "answer" /\ run'.pc \in {"loop", "stopping"} /\ run'.total = run.total
          /\ run'.task = run.task /\ InHand' = InHand
        BY <1>0, <1>7 DEF Answer, NoRuling, Runs
    <2>2. hist'.launches = hist.launches
        BY <1>0, <1>7, AcceptedEvents DEF Answer
    <2>3. OpenLaunch(hist')
        BY <2>1, <2>2, SameLaunches DEF Fits
    <2> QED BY <2>1, <2>2, <2>3 DEF TypeOK, Runs
<1>8. CASE LoopEnds
    <2>1. /\ run.pc = "loop" /\ run'.pc = "stopping" /\ run'.total = run.total
          /\ run'.task = run.task /\ run'.files = run.files
        BY <1>0, <1>8 DEF LoopEnds, EndAs, Runs
    <2>2. hist'.launches = hist.launches
        BY <1>0, <1>8, AcceptedEvents DEF LoopEnds
    <2>3. OpenLaunch(hist')
        BY <2>1, <2>2, SameLaunches DEF Fits
    <2> QED BY <2>1, <2>2, <2>3 DEF TypeOK, Runs
<1>9. CASE \E o \in Outcomes : EndLaunch(o)
    <2>1. /\ run.pc = "stopping" /\ run'.pc \in {"verify", "finish"} /\ run'.total = run.total
          /\ run'.task = run.task /\ run'.files = run.files
        BY <1>0, <1>9 DEF EndLaunch, Goto, Runs
    <2>2. hist.bound
        BY <2>1 DEF Held
    <2> QED BY <2>1, <2>2 DEF TypeOK, Runs
<1>10. CASE Verify
    <2>1. hist' = hist /\ run.pc = "verify" /\ run'.total = run.total /\ run'.task = run.task /\ run'.files = run.files
          /\ run'.pc \in {"finish", "review", "prepare"} /\ (run'.pc = "prepare" => ~run.task)
        BY <1>0, <1>10 DEF Verify, Goto, EndAs, durable, Runs
    <2> QED BY <2>1 DEF Fits, Reviewed, TypeOK, Runs
<1>11. CASE StillGoing \/ Deliver
    <2>1. /\ hist' = hist /\ run.pc \in {"named", "deliver"} /\ run'.pc \in {"deliver", "finish", "certify"}
          /\ run'.files = run.files /\ run'.task = run.task
        BY <1>0, <1>11 DEF StillGoing, Deliver, Goto, EndAs, durable, Runs
    <2> QED BY <2>1
<1>12. CASE FinishRun
    <2>1. run'.pc = "release" /\ hist' = hist
        BY <1>0, <1>12 DEF FinishRun, Goto, Runs
    <2> QED BY <2>1
<1>13. CASE Release
    <2>1. run'.pc = "none" /\ hist' = hist
        BY <1>13 DEF Release, NoRun
    <2> QED BY <2>1
<1> QED BY <1>1, <1>2, <1>3, <1>4, <1>5, <1>6, <1>7, <1>8, <1>9, <1>10, <1>11, <1>12, <1>13 DEF ProcessStep

LEMMA ResumeKeeps ==
    ASSUME TypeOK, TypeOK', Owned, Held, Fits, ~hist'.broken, Plain(hist, hist'), ResumeStep
    PROVE  Keeps
<1>0. run \in Runs /\ hist \in Histories
    BY DEF TypeOK
<1> USE DEF Keeps, Unnamed, Closed, Launched, Deciding, Counting, Cleared, Bounded, Driving, InHand
<1>1. CASE RecordLostLaunch
    <2>1. run' = run /\ run.pc = "settle"
        BY <1>1 DEF RecordLostLaunch
    <2>2. hist.bound
        BY <2>1 DEF Held
    <2> QED BY <2>1, <2>2
<1>2. CASE RefuseParked \/ RefuseRecords
    <2>1. run'.pc = "none" /\ hist' = hist
        BY <1>2 DEF RefuseParked, RefuseRecords, Refuse, NoRun
    <2> QED BY <2>1
<1>3. CASE SettleAcknowledged \/ SettleUnparked
    <2>1. run.pc = "settle" /\ run'.pc = "check"
        BY <1>0, <1>3 DEF SettleAcknowledged, SettleUnparked, Goto, Runs
    <2>2. ~OpenLaunch(hist')
        BY <1>0, <1>3, AcceptedLaunches DEF SettleAcknowledged, SettleUnparked, durable
    <2>3. hist.bound
        BY <2>1 DEF Held
    <2> QED BY <2>1, <2>2, <2>3
<1>4. CASE CheckWorktree
    <2>1. hist' = hist /\ run.pc = "check" /\ run'.pc \in {"none", "reopen"}
        BY <1>0, <1>4 DEF CheckWorktree, Refuse, NoRun, Goto, Runs
    <2> QED BY <2>1 DEF Fits
<1>5. CASE Reopen
    <2>1. hist' = hist /\ run.pc = "reopen" /\ run'.pc = "resumed"
        BY <1>0, <1>5 DEF Reopen, Goto, Runs
    <2> QED BY <2>1 DEF Fits
<1>6. CASE AppendResumed
    <2>1. run.pc = "resumed" /\ run'.pc = "trim"
        BY <1>0, <1>6 DEF AppendResumed, Goto, Runs
    <2>2. hist'.launches = hist.launches
        BY <1>0, <1>6, AcceptedEvents DEF AppendResumed
    <2>3. ~OpenLaunch(hist')
        BY <2>1, <2>2, SameLaunches DEF Fits
    <2> QED BY <2>1, <2>2, <2>3
<1>7. CASE Trim
    <2>1. /\ hist' = hist /\ run.pc = "trim" /\ run'.pc = "launch" /\ run'.total = hist.lastDecided
          /\ run'.files = TreeOf(Approvals(hist)) /\ run'.task = TaskApproved(hist)
        BY <1>0, <1>7 DEF Trim, TrimUpTo, Approved, Runs
    <2> QED BY <2>1 DEF Fits, TypeOK, Histories
<1> QED BY <1>1, <1>2, <1>3, <1>4, <1>5, <1>6, <1>7 DEF ResumeStep

LEMMA OutsideKeeps ==
    ASSUME TypeOK, TypeOK', Owned, Held, Fits, ~hist'.broken, Plain(hist, hist'), OutsideStep \/ Claim
    PROVE  Keeps \/ \E approved \in BOOLEAN : FinalReview(approved)
<1>0. run \in Runs /\ hist \in Histories
    BY DEF TypeOK
<1> USE DEF Keeps, Unnamed, Closed, Launched, Deciding, Counting, Cleared, Bounded, Driving, InHand
<1>1. CASE Open
    <2>1. hist' = hist /\ run'.pc = "bind" /\ run'.total = 0 /\ run'.files = BaseTree /\ db.status = "NONE"
        BY <1>0, <1>1 DEF Open, Goto, Held, NoRun, Runs
    <2>2. hist.decisions = {} /\ hist.lastDecided = 0
        BY <2>1 DEF Held, Fits
    <2>3. Approvals(hist) = {} /\ ~TaskApproved(hist) /\ TreeOf(Approvals(hist)) = BaseTree
        BY <2>2, NothingApplied DEF Approvals, TaskApproved
    <2> QED BY <2>1, <2>2, <2>3
<1>2. ASSUME NEW r \in Reqs, Propose(r) PROVE Keeps
    <2>1. /\ run.pc = "loop" /\ run'.pc = "decide" /\ run'.total = run.total + 1 /\ run.total < MaxSeq
          /\ run'.files = run.files /\ run'.task = run.task /\ run'.ruling.req = r
        BY <1>0, <1>2 DEF Propose, NoRuling, Runs
    <2>2. hist'.launches = hist.launches /\ hist'.pending = r
        BY <1>0, <1>2, AcceptedEvents DEF Propose
    <2>3. OpenLaunch(hist') /\ hist.lastDecided <= run.total
        BY <2>1, <2>2, SameLaunches DEF Fits
    <2>4. hist.lastDecided \in Nat /\ run.total \in Nat /\ MaxSeq \in Nat
        BY BoundsAssumption DEF TypeOK, Histories, Runs
    <2> QED BY <2>1, <2>2, <2>3, <2>4
<1>3. ASSUME NEW s \in RunSources, Decide(s, TRUE) PROVE Keeps
    <2>1. /\ hist' = hist /\ run.pc = "decide" /\ run'.pc = "ruled" /\ run'.total = run.total /\ run'.files = run.files
          /\ run'.ruling.req = run.ruling.req /\ run'.ruling.source = s
          /\ (run.task => run'.task) /\ (s = "task" => run'.task)
        BY <1>0, <1>3 DEF Decide, Rule, durable, Runs, Rulings
    <2> QED BY <2>1 DEF Fits, MayApprove, TypeOK, Runs
<1>4. CASE Decide("operator", FALSE)
    <2>1. /\ hist' = hist /\ run.pc = "decide" /\ run'.pc = "ruled" /\ run'.total = run.total /\ run'.files = run.files
          /\ run'.ruling.req = run.ruling.req /\ ~run'.ruling.approved /\ run'.task = run.task
        BY <1>0, <1>4 DEF Decide, Rule, durable, Runs, Rulings
    <2> QED BY <2>1 DEF Fits, TypeOK, Runs
<1>5. CASE (\E ok \in BOOLEAN : AgentExits(ok)) \/ OverBudget
    <2>1. /\ hist' = hist /\ run.pc = "loop" /\ run'.pc = "stopping" /\ run'.total = run.total
          /\ run'.files = run.files /\ run'.task = run.task
        BY <1>0, <1>5 DEF AgentExits, OverBudget, EndAs, durable, Runs
    <2> QED BY <2>1 DEF Fits, TypeOK, Runs
<1>6. CASE Deadline \/ Cancel
    <2>1. /\ hist' = hist /\ run'.pc = run.pc /\ run'.total = run.total /\ run'.ruling = run.ruling
          /\ run'.files = run.files /\ run'.task = run.task
        BY <1>0, <1>6 DEF Deadline, Cancel, durable, Runs
    <2> QED BY <2>1 DEF Fits, MayApprove, TypeOK, Runs
<1>7. CASE Crash
    <2>1. run'.pc = "none" /\ hist' = hist
        BY <1>7 DEF Crash, NoRun
    <2> QED BY <2>1
<1>8. CASE Acknowledge
    <2>1. run' = run /\ run.pc = "none" /\ hist.bound
        BY <1>8 DEF Acknowledge, Owned, Fits
    <2> QED BY <2>1
<1>9. CASE (\E f \in Paths, c \in Reqs \cup {Base} : AgentWrites(f, c)) \/ (\E c \in Strangers : BranchMoved(c))
    <2>1. run' = run /\ hist' = hist
        BY <1>9 DEF AgentWrites, BranchMoved
    <2> QED BY <2>1 DEF Fits, MayApprove, TypeOK, Runs
<1>10. CASE Claim
    <2>1. run'.pc = "settle" /\ hist' = hist /\ hist.delivered = {}
        BY <1>10 DEF Claim, Continuable, Sealed, NoRun
    <2> QED BY <2>1
<1> QED BY <1>1, <1>2, <1>3, <1>4, <1>5, <1>6, <1>7, <1>8, <1>9, <1>10 DEF OutsideStep

LEMMA BindFits ==
    ASSUME TypeOK, TypeOK', Owned, Held, Fits, ~hist'.broken, Bind
    PROVE  Fits'
<1>1. run \in Runs /\ hist \in Histories
    BY DEF TypeOK
<1>2. /\ run.pc = "bind" /\ run'.pc = "policy" /\ run'.total = run.total /\ run'.files = run.files
      /\ run'.task = run.task
    BY <1>1 DEF Bind, Goto, Runs
<1>3. /\ hist'.bound /\ hist'.decisions = hist.decisions /\ hist'.lastDecided = hist.lastDecided
      /\ hist'.delivered = hist.delivered /\ hist'.launches = hist.launches /\ ~hist.bound
    BY <1>1, RunBoundBinds, AcceptedEvents DEF Bind
<1>4. /\ Approvals(hist') = Approvals(hist) /\ TaskApproved(hist') = TaskApproved(hist)
    BY <1>3, SameApprovals
<1>5. hist.delivered = {} /\ ~OpenLaunch(hist')
    BY <1>3 DEF Fits, OpenLaunch
<1> QED BY <1>2, <1>3, <1>4, <1>5 DEF Fits, Unnamed, Closed, Launched, Deciding, Counting, Cleared, Bounded, Driving, InHand

\* The decision of the loop is the next one, about the proposal it was asked about.
LEMMA AppendFits ==
    ASSUME TypeOK, TypeOK', Owned, Ordered(hist), Held, Fits, ~hist'.broken, AppendDecision
    PROVE  Fits'
<1>1. PICK good \in BOOLEAN, d \in Decision :
         /\ hist' = YieldDecided(hist, d)
         /\ d.seq = run.total /\ d.req = run.ruling.req /\ d.kind = "file_edit" /\ d.approved = good
         /\ run' = [run EXCEPT !.pc = "answer", !.ruling.approved = good]
         /\ good => run.ruling.approved /\ run.live = "live" /\ d.source = run.ruling.source
    BY AppendIsDecision
<1>2. /\ run.pc = "append" /\ run'.pc = "answer" /\ run'.total = run.total /\ run'.files = run.files
      /\ run'.task = run.task /\ run'.ruling.approved = good /\ run'.ruling.req = run.ruling.req
    <2>1. run \in Runs /\ run.ruling \in Rulings /\ run.pc = "append"
        BY DEF AppendDecision, RecordDecision, TypeOK, Runs
    <2>2. run' = [run EXCEPT !.pc = "answer", !.ruling = [run.ruling EXCEPT !.approved = good]]
        BY <1>1, <2>1 DEF Runs
    <2>3. /\ [run.ruling EXCEPT !.approved = good].approved = good
          /\ [run.ruling EXCEPT !.approved = good].req = run.ruling.req
        BY <2>1 DEF Rulings
    <2> QED BY <2>1, <2>2, <2>3 DEF Runs
<1>3. hist \in Histories /\ hist' \in Histories
    BY DEF TypeOK
<1>4. /\ hist'.decisions = hist.decisions \cup {d} /\ hist'.lastDecided = d.seq /\ hist'.launches = hist.launches
      /\ d.seq > hist.lastDecided
    BY <1>1, <1>3, AcceptedEvents
<1>5. hist'.bound = hist.bound /\ hist'.delivered = hist.delivered /\ hist.bound
    BY <1>1, <1>2, <1>3, YieldDecidedDecides DEF DecidesOrBreaks, Held, Bounded
<1>6. run.files = TreeOf(Approvals(hist)) /\ (TaskApproved(hist) => run.task)
    BY <1>2 DEF Fits, Driving, Bounded, InHand
<1>7. InHand' = TreeOf(Approvals(hist')) /\ (TaskApproved(hist') => run'.task)
    <2>1. CASE good
        <3>1. TreeOf(Approvals(hist')) = [TreeOf(Approvals(hist)) EXCEPT ![PathOf[d.req]] = d.req]
            <4>1. d.approved /\ d.kind = "file_edit"
                BY <1>1, <2>1
            <4> QED BY <4>1, <1>3, <1>4, DecisionTree
        <3>2. InHand' = [run.files EXCEPT ![PathOf[d.req]] = d.req]
            BY <1>1, <1>2, <2>1 DEF InHand
        <3>3. Approvals(hist') = Approvals(hist) \cup {d} /\ (d.source = "task" => run.task)
            BY <1>1, <1>2, <1>3, <1>4, <2>1, DecisionApproves DEF Fits, MayApprove
        <3> QED BY <1>2, <1>6, <3>1, <3>2, <3>3 DEF TaskApproved
    <2>2. CASE ~good
        <3>1. Approvals(hist') = Approvals(hist) /\ InHand' = run.files
            BY <1>1, <1>2, <1>3, <1>4, <2>2, DecisionApproves DEF InHand
        <3> QED BY <1>2, <1>6, <3>1 DEF TaskApproved
    <2> QED BY <2>1, <2>2
<1>8. OpenLaunch(hist') /\ hist'.delivered = {}
    BY <1>2, <1>4, <1>5, SameLaunches DEF Fits, Launched, Unnamed, Bounded
<1>9. hist'.lastDecided <= run'.total
    BY <1>1, <1>2, <1>4 DEF TypeOK, Runs
<1> QED BY <1>2, <1>5, <1>7, <1>8, <1>9
    DEF Fits, Unnamed, Closed, Launched, Deciding, Counting, Cleared, Bounded, Driving

\* A final review of the approved state, after the last approval, reviews it.
LEMMA ReviewReviews ==
    ASSUME NEW h \in Histories, NEW g \in Histories, NEW d \in Decision, Ordered(h),
           g.decisions = h.decisions \cup {d}, d.seq > h.lastDecided, d.kind = "final_review"
    PROVE  /\ Approvals(g) = Approvals(h)
           /\ TaskApproved(g) = TaskApproved(h)
           /\ d.approved /\ d.tree = TreeOf(Approvals(h)) => Reviewed(g)
<1>1. Approvals(g) = Approvals(h)
    BY DecisionApproves
<1>2. ASSUME d.approved, d.tree = TreeOf(Approvals(h)) PROVE FinalReviewed(g)
    <2>1. \A a \in Approvals(h) : a.seq < d.seq
        <3>1. \A a \in Approvals(h) : a.seq \in Nat /\ a.seq <= h.lastDecided
            BY DEF Ordered, Approvals, Histories, Decision
        <3>2. d.seq \in Nat /\ h.lastDecided \in Nat
            BY DEF Decision, Histories
        <3> QED BY <3>1, <3>2
    <2>2. d \in LateReviews(g)
        BY <1>1, <1>2, <2>1 DEF LateReviews
    <2> QED BY <1>1, <1>2, <2>2 DEF FinalReviewed
<1> QED BY <1>1, <1>2 DEF TaskApproved, Reviewed

LEMMA FinalReviewFits ==
    ASSUME TypeOK, TypeOK', Owned, Ordered(hist), Held, Fits, ~hist'.broken, NEW approved \in BOOLEAN, FinalReview(approved)
    PROVE  Fits'
<1> DEFINE d == [seq |-> run.total + 1, kind |-> "final_review", req |-> None, source |-> "operator",
                 approved |-> approved, unconsumed |-> FALSE, tree |-> run.files]
<1>1. run \in Runs /\ run.total + 1 \in Nat /\ run.files \in Trees /\ hist \in Histories /\ hist' \in Histories
    BY DEF TypeOK, Runs
<1>2. /\ d \in Decision /\ d.kind = "final_review" /\ d.approved = approved /\ d.tree = run.files
      /\ hist' = YieldDecided(hist, d)
    BY <1>1, ReviewType DEF FinalReview
<1> HIDE DEF d
<1>3. /\ run.pc = "review" /\ run'.pc = IF approved THEN "prepare" ELSE "finish"
      /\ run'.files = run.files /\ run'.task = run.task
    BY <1>1 DEF FinalReview, Goto, EndAs, Runs
<1>4. /\ hist'.decisions = hist.decisions \cup {d} /\ d.seq > hist.lastDecided
      /\ hist'.bound = hist.bound /\ hist'.delivered = hist.delivered /\ hist.bound
    BY <1>1, <1>2, <1>3, AcceptedEvents, YieldDecidedDecides DEF DecidesOrBreaks, Held, Bounded
<1>5. run.files = TreeOf(Approvals(hist)) /\ (TaskApproved(hist) => run.task) /\ hist.delivered = {}
    BY <1>3 DEF Fits, Driving, Unnamed, Bounded, InHand
<1>6. /\ Approvals(hist') = Approvals(hist) /\ TaskApproved(hist') = TaskApproved(hist)
      /\ approved => Reviewed(hist')
    BY <1>1, <1>2, <1>4, <1>5, ReviewReviews
<1> QED BY <1>3, <1>4, <1>5, <1>6
    DEF Fits, Unnamed, Closed, Launched, Deciding, Counting, Cleared, Bounded, Driving, InHand

LEMMA PrepareFits ==
    ASSUME TypeOK, TypeOK', Owned, Held, Fits, ~hist'.broken, Prepare
    PROVE  Fits'
<1>1. run \in Runs /\ hist \in Histories
    BY DEF TypeOK
<1>2. /\ run.pc = "prepare" /\ run'.pc = "named" /\ run'.files = run.files /\ run'.task = run.task
      /\ run.files # BaseTree
    BY <1>1 DEF Prepare, Goto, Runs
<1>3. hist'.decisions = hist.decisions /\ hist'.bound = hist.bound /\ hist.bound
    <2>1. [tree |-> run.files, maker |-> "run"] \in Commits /\ "commit_prepared" \in Events
        BY <1>1, CommitType DEF Events, Runs
    <2> QED BY <1>1, <1>2, <2>1, CommitEventDelivers DEF Prepare, Held, Bounded
<1>4. Approvals(hist') = Approvals(hist) /\ TaskApproved(hist') = TaskApproved(hist) /\ Reviewed(hist') = Reviewed(hist)
    BY <1>3, SameApprovals
<1> QED BY <1>2, <1>3, <1>4
    DEF Fits, Unnamed, Closed, Launched, Deciding, Counting, Cleared, Bounded, Driving, InHand

\* A step after which the process has no chain before it any more.
LEMMA DoneFits ==
    ASSUME run'.pc \in {"none", "finish"}, hist'.bound
    PROVE  Fits'
BY DEF Fits, Unnamed, Closed, Launched, Deciding, Counting, Cleared, Bounded, Driving

\* An event on an unbound chain breaks it.
LEMMA EventBound ==
    ASSUME NEW h \in Histories
    PROVE  /\ \A event \in Events, c \in Commits : ~CommitEvent(h, event, c).broken => CommitEvent(h, event, c).bound
           /\ \A d \in Decision : ~YieldDecided(h, d).broken => YieldDecided(h, d).bound
<1>1. ASSUME NEW event \in Events, NEW c \in Commits, ~CommitEvent(h, event, c).broken
      PROVE  CommitEvent(h, event, c).bound
    BY <1>1 DEF CommitEvent, Accept, Histories
<1>2. ASSUME NEW d \in Decision, ~YieldDecided(h, d).broken PROVE YieldDecided(h, d).bound
    BY <1>2 DEF YieldDecided, Accept, Histories
<1> QED BY <1>1, <1>2

LEMMA CertifyFits ==
    ASSUME TypeOK, TypeOK', Held, Fits, ~hist'.broken, Certify
    PROVE  Fits'
<1>1. run'.pc = "finish" /\ run.pc = "certify" /\ hist \in Histories
    BY DEF Certify, Goto, TypeOK, Runs
<1>2. hist.bound
    BY <1>1 DEF Held, Bounded
<1>3. hist'.bound
    BY <1>1, <1>2, EventBound DEF Certify, TypeOK, Events
<1> QED BY <1>1, <1>3, DoneFits

\* A recovery has the run to itself.
LEMMA RecoveryFits ==
    ASSUME TypeOK, TypeOK', Owned, Held, Fits, ~hist'.broken, RecoverStep
    PROVE  Fits'
<1>1. CASE hist' = hist
    <2>1. run' = run
        BY DEF RecoverStep, RecoverRead, ReadNeeding, vars, RecoverClaim, RecoverReview, ReviewNumbered, RecoverOp,
           RecoverDeliver, RecoverKeep, RecoverCertify, RecoverRecord, RecoverFinish, RecoverStops, RecoverCrash
    <2> QED BY <1>1, <2>1 DEF Fits, InHand, MayApprove
<1>2. CASE hist' # hist
    <2>1. RecoverCertify \/ RecoverRecord \/ \E approved \in BOOLEAN : RecoverReview(approved)
        BY <1>2 DEF RecoverStep, RecoverRead, ReadNeeding, vars, RecoverClaim, RecoverOp, RecoverDeliver,
           RecoverKeep, RecoverFinish, RecoverStops, RecoverCrash
    <2>2. run'.pc = "none"
        BY <2>1 DEF RecoverCertify, RecoverRecord, RecoverReview, ReviewNumbered, Owned, Recovering
    <2>3. hist'.bound
        <3>1. CASE RecoverCertify \/ RecoverRecord
            BY <1>2, <3>1, EventBound DEF RecoverCertify, RecoverRecord, TypeOK, Events
        <3>2. CASE \E approved \in BOOLEAN : RecoverReview(approved)
            <4>1. rec.seen.lastDecided + 1 \in Nat /\ Want \in Trees
                BY WantType DEF TypeOK, Recs, Histories
            <4> QED BY <3>2, <4>1, ReviewType, EventBound DEF RecoverReview, ReviewNumbered, TypeOK
        <3> QED BY <2>1, <3>1, <3>2
    <2> QED BY <2>2, <2>3, DoneFits
<1> QED BY <1>1, <1>2

LEMMA FitsStep ==
    ASSUME TypeOK, Owned, Ordered(hist), Held, FitsWhileRead, [Next]_allVars
    PROVE  FitsWhileRead'
<1> SUFFICES ASSUME ~hist'.broken PROVE Fits'
    BY DEF FitsWhileRead
<1>1. TypeOK' /\ Fits
    BY StepTyped, HistoryGrows DEF FitsWhileRead, Grows, Continues
<1>2. CASE RunStep
    <2>1. CASE Keeps
        BY <1>1, <2>1, KeepsFits
    <2> QED BY <1>1, <1>2, <2>1, RunHistory, ProcessKeeps, ResumeKeeps, OutsideKeeps, BindFits, AppendFits,
               FinalReviewFits, PrepareFits, CertifyFits DEF RunStep
<1>3. CASE RecoverStep
    BY <1>1, <1>3, RecoveryFits
<1>4. CASE UNCHANGED allVars
    BY <1>1, <1>4 DEF allVars, vars, Fits, InHand, MayApprove
<1> QED BY <1>2, <1>3, <1>4, StepCases

-----------------------------------------------------------------------------
(* A decision that comes too late.                                         *)

-----------------------------------------------------------------------------
(* A decision that comes too late.                                         *)

LEMMA OnlyTheLoopAppends ==
    ASSUME TypeOK, Owned, [Next]_allVars, run.pc = "append", hist' # hist
    PROVE  AppendDecision
<1>1. CASE RunStep
    <2>1. ~Acknowledge
        BY DEF Acknowledge, Owned
    <2>2. ProcessStep => AppendDecision
        BY DEF ProcessStep, durable, Bind, ReadPolicy, ClaimLaunch, MarkRunning, WaitEnds, Expire, KeepApproval,
           PassRejection, ConsumeFails, Answer, LoopEnds, EndLaunch, Verify, Prepare, PrepareNothing, StillGoing,
           Deliver, Certify, FinishRun, Release, SetupFails, FinalizeFails
    <2>3. ~ResumeStep
        BY DEF ResumeStep, RecordLostLaunch, RefuseParked, SettleAcknowledged, SettleUnparked, RefuseRecords,
           CheckWorktree, Reopen, AppendResumed, Trim, TrimUpTo
    <2>4. ~OutsideStep /\ ~Claim
        BY <2>1 DEF OutsideStep, durable, Open, Propose, Decide, FinalReview, AgentExits, AgentWrites,
           OverBudget, Deadline, Cancel, Crash, BranchMoved, Claim
    <2> QED BY <1>1, <2>2, <2>3, <2>4 DEF RunStep
<1>2. ~RecoverStep
    BY DEF RecoverStep, RecoverRead, ReadNeeding, vars, RecoverClaim, RecoverReview, ReviewNumbered, RecoverOp,
       RecoverDeliver, RecoverKeep, RecoverCertify, RecoverRecord, RecoverFinish, RecoverStops, RecoverCrash,
       Owned, Recovering
<1>3. ~UNCHANGED allVars
    BY DEF allVars, vars
<1> QED BY <1>1, <1>2, <1>3, StepCases

\* On a chain that can be read, the loop's decision is accepted.
LEMMA LoopIsHeard ==
    ASSUME TypeOK, Held, FitsWhileRead, NEW d \in Decision, run.pc = "append", d.seq = run.total, d.req = run.ruling.req,
           YieldDecided(hist, d) # hist
    PROVE  YieldDecided(hist, d).decisions = hist.decisions \cup {d} /\ YieldDecided(hist, d).broken = hist.broken
<1> DEFINE next == [hist EXCEPT !.decisions = @ \cup {d}, !.lastDecided = d.seq,
                                !.pending = IF d.kind = "file_edit" THEN None ELSE @]
           Accepts == /\ ~Ended(hist)
                      /\ d.seq > hist.lastDecided
                      /\ d.kind = "file_edit" => ~AgentEnded(hist) /\ hist.pending = d.req
<1>1. hist \in Histories
    BY DEF TypeOK
<1>2. YieldDecided(hist, d) = IF hist.bound /\ Accepts THEN next ELSE [hist EXCEPT !.broken = TRUE]
    BY DEF YieldDecided, Accept
<1>3. CASE hist.broken
    <2>1. [hist EXCEPT !.broken = TRUE] = hist
        BY <1>1, <1>3 DEF Histories
    <2>2. YieldDecided(hist, d) = next
        BY <1>2, <2>1
    <2> QED BY <1>1, <2>2 DEF Histories
<1>4. CASE ~hist.broken
    <2>1. hist.bound /\ hist.delivered = {} /\ hist.lastDecided < run.total /\ hist.pending = run.ruling.req
        BY <1>4 DEF Held, FitsWhileRead, Fits, Bounded, Unnamed, Deciding
    <2>2. hist.bound /\ Accepts
        BY <2>1 DEF Ended, AgentEnded, TypeOK, Runs, Histories
    <2>3. YieldDecided(hist, d) = next
        BY <1>2, <2>2
    <2> QED BY <1>1, <2>3 DEF Histories
<1> QED BY <1>3, <1>4

\* consume.go, appendOutcome: whatever approval was waited for, a person's, a rule's or a
\* model's, and whether its journal line is written or not, once the run's time is up or it
\* is cancelled the chain gets a rejection, marked unconsumed when the line is there.
THEOREM NothingLateIsConsumed == Spec => ExpiredIsNotConsumed
<1> DEFINE Late == (run.pc = "append" /\ hist' # hist /\ run.live # "live") =>
                       /\ Approvals(hist') = Approvals(hist)
                       /\ run.ruling.journaled => \E d \in Unconsumed(hist') : d.seq = run.total
<1>1. ASSUME TypeOK, Owned, Ordered(hist), Held, FitsWhileRead, [Next]_allVars PROVE Late
    <2> SUFFICES ASSUME run.pc = "append", hist' # hist, run.live # "live"
                 PROVE  /\ Approvals(hist') = Approvals(hist)
                        /\ run.ruling.journaled => \E d \in Unconsumed(hist') : d.seq = run.total
        OBVIOUS
    <2>1. AppendDecision
        BY <1>1, OnlyTheLoopAppends
    <2>2. PICK good \in BOOLEAN, d \in Decision :
             /\ hist' = YieldDecided(hist, d)
             /\ d.seq = run.total /\ d.req = run.ruling.req /\ d.kind = "file_edit" /\ d.approved = good
             /\ good => run.ruling.approved /\ run.live = "live" /\ d.source = run.ruling.source
             /\ run.ruling.journaled /\ ~good => d.unconsumed
        BY <1>1, <2>1, AppendIsDecision
    <2>3. ~d.approved /\ (run.ruling.journaled => d.unconsumed)
        BY <2>2
    <2>4. hist'.decisions = hist.decisions \cup {d}
        BY <1>1, <2>2, LoopIsHeard
    <2>5. hist \in Histories /\ hist' \in Histories
        BY <1>1, <2>2, EventTypes DEF TypeOK
    <2>6. Approvals(hist') = Approvals(hist)
        BY <2>3, <2>4, <2>5, DecisionApproves
    <2>7. run.ruling.journaled => d \in Unconsumed(hist')
        BY <2>3, <2>4 DEF Unconsumed
    <2> QED BY <2>2, <2>6, <2>7
<1>2. Durable => Ordered(hist)
    BY DEF Durable
<1>3. TypeOK /\ Owned /\ Durable /\ Held /\ FitsWhileRead /\ [Next]_allVars => [Late]_allVars
    BY <1>1, <1>2
<1> QED BY <1>2, <1>3, Typed, DurableInit, DurableStep, OwnedInit, OwnedStep, HeldInit, HeldStep, FitsInit, FitsStep,
    PTL DEF Spec, ExpiredIsNotConsumed

-----------------------------------------------------------------------------
(* Nothing but the chain's own order breaks it.                            *)

\* When an event is accepted.
LEMMA EventsAccepted ==
    ASSUME NEW h \in Histories, ~h.broken
    PROVE  /\ ~h.bound => ~RunBound(h).broken
           /\ h.bound => ~PolicySnapshot(h).broken /\ ~DriftHalt(h).broken
           /\ h.bound => \A event \in Events, c \in Commits : ~CommitEvent(h, event, c).broken
           /\ h.bound /\ h.delivered = {} =>
                 /\ ~OpenLaunch(h) => ~LaunchClaimed(h).broken /\ \A ack \in BOOLEAN : ~RunResumed(h, ack).broken
                 /\ OpenLaunch(h) => \A outcome \in Outcomes : ~LaunchEnded(h, outcome).broken
                 /\ LaunchParked(h) /\ ~OpenLaunch(h) => ~LaunchAcknowledged(h).broken
                 /\ \A r \in Reqs : ~YieldRequest(h, r).broken
                 /\ \A d \in Decision : d.seq > h.lastDecided /\ (d.kind = "file_edit" => h.pending = d.req) =>
                       ~YieldDecided(h, d).broken
<1>1. ~h.bound => ~RunBound(h).broken
    BY DEF RunBound, Histories
<1>2. h.bound => ~PolicySnapshot(h).broken /\ ~DriftHalt(h).broken
    BY DEF PolicySnapshot, DriftHalt, Accept, Histories
<1>3. ASSUME h.bound, NEW event \in Events, NEW c \in Commits PROVE ~CommitEvent(h, event, c).broken
    BY <1>3 DEF CommitEvent, Accept, Histories
<1>4. ASSUME h.bound, h.delivered = {} PROVE ~Ended(h) /\ ~AgentEnded(h)
    BY <1>4 DEF Ended, AgentEnded
<1>5. ASSUME h.bound, h.delivered = {}, ~OpenLaunch(h) PROVE ~LaunchClaimed(h).broken
    BY <1>4, <1>5 DEF LaunchClaimed, Accept, Histories
<1>6. ASSUME h.bound, h.delivered = {}, ~OpenLaunch(h), NEW ack \in BOOLEAN PROVE ~RunResumed(h, ack).broken
    BY <1>4, <1>6 DEF RunResumed, Accept, Histories
<1>7. ASSUME h.bound, h.delivered = {}, OpenLaunch(h), NEW outcome \in Outcomes PROVE ~LaunchEnded(h, outcome).broken
    BY <1>4, <1>7 DEF LaunchEnded, Accept, Histories
<1>8. ASSUME h.bound, h.delivered = {}, LaunchParked(h), ~OpenLaunch(h) PROVE ~LaunchAcknowledged(h).broken
    BY <1>4, <1>8 DEF LaunchAcknowledged, Accept, Histories
<1>9. ASSUME h.bound, h.delivered = {}, NEW r \in Reqs PROVE ~YieldRequest(h, r).broken
    BY <1>4, <1>9 DEF YieldRequest, Accept, Histories
<1>10. ASSUME h.bound, h.delivered = {}, NEW d \in Decision, d.seq > h.lastDecided,
              d.kind = "file_edit" => h.pending = d.req
       PROVE  ~YieldDecided(h, d).broken
    BY <1>4, <1>10 DEF YieldDecided, Accept, Histories
<1> QED BY <1>1, <1>2, <1>3, <1>5, <1>6, <1>7, <1>8, <1>9, <1>10

\* What a recovery read is still what the chain says when it claims the run, and what it
\* has begun is what was approved and reviewed: nobody drives the run meanwhile.
SeenStands ==
    /\ rec.seen.decisions = hist.decisions
    /\ rec.seen.lastDecided = hist.lastDecided
    /\ rec.review = ~Reviewed(hist)
    /\ rec.pc = "review" => rec.review

Whole ==
    /\ ~hist.broken
    /\ rec.pc # "none" => run.pc = "none" /\ hist.bound
    /\ run.pc # "none" => ~op.made
    /\ db.status = "NONE" => ~op.made
    /\ rec.pc \in {"claim", "review"} => SeenStands
    /\ rec.pc \in {"claim", "review", "op"} => Approvals(rec.seen) = Approvals(hist) /\ Approvals(hist) # {}
    /\ rec.pc = "op" => Reviewed(hist)
    /\ op.made => op.tree = TreeOf(Approvals(hist)) /\ Approvals(hist) # {} /\ Reviewed(hist)
    /\ hist.delivered # {} => Reviewed(hist)

LEMMA WholeInit == OrchestratorInit => Whole
BY DEF OrchestratorInit, Init, NoHistory, NoRun, NoRec, NoOp, Whole

LEMMA ProcessAccepted ==
    ASSUME TypeOK, Held, Fits, ~hist.broken, ProcessStep
    PROVE  ~hist'.broken
<1>0. hist \in Histories /\ run \in Runs
    BY DEF TypeOK
<1> USE DEF Unnamed, Closed, Launched, Deciding, Counting, Bounded
<1>1. CASE Bind
    BY <1>0, <1>1, EventsAccepted DEF Bind, Held
<1>2. CASE ReadPolicy \/ LoopEnds \/ Answer
    BY <1>0, <1>2, EventsAccepted DEF ReadPolicy, LoopEnds, Answer, Held
<1>3. CASE ClaimLaunch
    BY <1>0, <1>3, EventsAccepted DEF ClaimLaunch, Held, Fits
<1>4. CASE \E o \in Outcomes : EndLaunch(o)
    BY <1>0, <1>4, EventsAccepted DEF EndLaunch, Held, Fits
<1>5. CASE AppendDecision
    <2>1. PICK d \in Decision : hist' = YieldDecided(hist, d) /\ d.seq = run.total /\ d.req = run.ruling.req
        BY <1>5, AppendIsDecision
    <2>2. run.pc = "append"
        BY <1>5 DEF AppendDecision, RecordDecision
    <2>3. hist.bound /\ hist.delivered = {} /\ d.seq > hist.lastDecided /\ hist.pending = d.req
        BY <1>0, <2>1, <2>2 DEF Held, Fits, Histories, Runs
    <2> QED BY <1>0, <2>1, <2>3, EventsAccepted
<1>6. CASE Prepare \/ Certify
    <2>1. [tree |-> run.files, maker |-> "run"] \in Commits /\ (run.pc = "certify" => run.commit \in Commits)
        BY <1>0, CommitType DEF TypeOK, Runs
    <2>2. {"commit_prepared", "certificate_issued"} \subseteq Events
        BY DEF Events
    <2> QED BY <1>0, <1>6, <2>1, <2>2, EventsAccepted DEF Prepare, Certify, Held
<1>7. CASE hist' = hist
    BY <1>7
<1> QED BY <1>1, <1>2, <1>3, <1>4, <1>5, <1>6, <1>7
    DEF ProcessStep, durable, MarkRunning, WaitEnds, Expire, KeepApproval, PassRejection, ConsumeFails, Verify,
        PrepareNothing, StillGoing, Deliver, FinishRun, Release, SetupFails, FinalizeFails

LEMMA ResumeAccepted ==
    ASSUME TypeOK, Held, Fits, ~hist.broken, ResumeStep
    PROVE  ~hist'.broken
<1>0. hist \in Histories
    BY DEF TypeOK
<1>1. CASE RecordLostLaunch \/ SettleAcknowledged
    <2>1. hist.bound /\ hist.delivered = {}
        BY <1>1 DEF RecordLostLaunch, SettleAcknowledged, Held, Fits, Unnamed, Bounded
    <2> QED BY <1>0, <1>1, <2>1, EventsAccepted DEF RecordLostLaunch, SettleAcknowledged, Outcomes
<1>2. CASE AppendResumed
    <2>1. hist.bound /\ hist.delivered = {} /\ ~OpenLaunch(hist)
        BY <1>2 DEF AppendResumed, Held, Fits, Unnamed, Bounded, Closed
    <2> QED BY <1>0, <1>2, <2>1, EventsAccepted DEF AppendResumed
<1>3. CASE hist' = hist
    BY <1>3
<1> QED BY <1>1, <1>2, <1>3
    DEF ResumeStep, durable, RefuseParked, SettleUnparked, RefuseRecords, CheckWorktree, Reopen, Trim, TrimUpTo

LEMMA OutsideAccepted ==
    ASSUME TypeOK, Held, Fits, ~hist.broken, OutsideStep \/ Claim
    PROVE  ~hist'.broken
<1>0. hist \in Histories /\ run \in Runs
    BY DEF TypeOK
<1>1. CASE \E r \in Reqs : Propose(r)
    <2>1. hist.bound /\ hist.delivered = {}
        BY <1>1 DEF Propose, Held, Fits, Unnamed, Bounded
    <2> QED BY <1>0, <1>1, <2>1, EventsAccepted DEF Propose
<1>2. CASE \E approved \in BOOLEAN : FinalReview(approved)
    <2>1. PICK d \in Decision : hist' = YieldDecided(hist, d) /\ d.kind = "final_review" /\ d.seq = run.total + 1
        BY <1>0, <1>2, ReviewType DEF FinalReview, Runs
    <2>2. hist.bound /\ hist.delivered = {} /\ hist.lastDecided <= run.total
        BY <1>2 DEF FinalReview, Held, Fits, Unnamed, Bounded, Counting, Driving
    <2>3. d.seq > hist.lastDecided
        BY <1>0, <2>1, <2>2 DEF Histories, Runs
    <2> QED BY <1>0, <2>1, <2>2, <2>3, EventsAccepted
<1>3. CASE Acknowledge
    <2> DEFINE ended == IF OpenLaunch(hist) THEN LaunchEnded(hist, "lost") ELSE hist
    <2>1. hist.bound /\ hist.delivered = {} /\ hist' \in {ended, LaunchAcknowledged(ended)}
          /\ (hist' # ended => LaunchParked(ended))
        BY <1>3 DEF Acknowledge, Sealed, Fits
    <2>2. ended \in Histories /\ Plain(hist, ended) /\ ~ended.broken
        BY <1>0, <2>1, LaunchTypes, PlainEvents, EventsAccepted DEF Outcomes
    <2>3. ~OpenLaunch(ended)
        BY <1>0, <2>2, AcceptedLaunches DEF Outcomes
    <2> HIDE DEF ended
    <2>4. ended.bound /\ ended.delivered = {}
        BY <2>1, <2>2 DEF Plain
    <2>5. LaunchParked(ended) => ~LaunchAcknowledged(ended).broken
        BY <2>2, <2>3, <2>4, EventsAccepted
    <2> QED BY <2>1, <2>2, <2>5
<1>4. CASE hist' = hist
    BY <1>4
<1> QED BY <1>1, <1>2, <1>3, <1>4
    DEF OutsideStep, durable, Open, Decide, AgentExits, AgentWrites, OverBudget, Deadline, Cancel, Crash, BranchMoved, Claim

\* Only a process that has the run, or takes it, changes what was decided or begun.
LEMMA IdleRun ==
    ASSUME TypeOK, RunStep, run.pc = "none"
    PROVE  \/ Plain(hist, hist') /\ run' = run /\ db' = db
           \/ Open
           \/ Claim /\ (Overlap \/ rec.pc = "none")
<1>1. ~ProcessStep /\ ~ResumeStep
    BY DEF ProcessStep, ResumeStep, Bind, ReadPolicy, ClaimLaunch, MarkRunning, WaitEnds, Expire, KeepApproval,
       PassRejection, ConsumeFails, AppendDecision, RecordDecision, Answer, LoopEnds, EndLaunch, Verify, Prepare,
       PrepareNothing, StillGoing, Deliver, Certify, FinishRun, Release, SetupFails, FinalizeFails, RecordLostLaunch,
       RefuseParked, SettleAcknowledged, SettleUnparked, RefuseRecords, CheckWorktree, Reopen, AppendResumed, Trim, TrimUpTo
<1>2. OutsideStep => Open \/ (run' = run /\ db' = db)
    BY DEF OutsideStep, Propose, Decide, FinalReview, AgentExits, AgentWrites, OverBudget, Deadline, Cancel, Crash,
       Acknowledge, BranchMoved
<1>3. Plain(hist, hist')
    BY <1>1, RunHistory
       DEF ProcessStep, FinalReview
<1> QED BY <1>1, <1>2, <1>3 DEF RunStep

LEMMA RunKeepsOp == RunStep => op' = op
BY DEF RunStep, ProcessStep, ResumeStep, OutsideStep, durable, Bind, ReadPolicy, ClaimLaunch, MarkRunning, WaitEnds, Expire,
   KeepApproval, PassRejection, ConsumeFails, AppendDecision, RecordDecision, Answer, LoopEnds, EndLaunch, Verify, Prepare,
   PrepareNothing, StillGoing, Deliver, Certify, FinishRun, Release, SetupFails, FinalizeFails, RecordLostLaunch,
   RefuseParked, SettleAcknowledged, SettleUnparked, RefuseRecords, CheckWorktree, Reopen, AppendResumed, Trim, TrimUpTo,
   Open, Propose, Decide, FinalReview, AgentExits, AgentWrites, OverBudget, Deadline, Cancel, Crash, Acknowledge,
   BranchMoved, Claim

LEMMA RunKeepsRow == TypeOK /\ RunStep => db' = db \/ db'.status # "NONE"
<1> SUFFICES ASSUME TypeOK, RunStep PROVE db' = db \/ db'.status # "NONE"
    OBVIOUS
<1>1. ProcessStep \/ ResumeStep => db' = db \/ db'.status # "NONE"
    BY ProcessGoesOn, ResumeGoesOn DEF RunStep, GoesOn, GivesUp
<1>2. OutsideStep \/ Claim => db' = db \/ db'.status # "NONE"
    BY DEF TypeOK, Rows, OutsideStep, durable, Open, Propose, Decide, FinalReview, AgentExits, AgentWrites, OverBudget,
       Deadline, Cancel, Crash, Acknowledge, BranchMoved, Claim
<1> QED BY <1>1, <1>2 DEF RunStep

\* A commit is named only by a run whose whole change has its review.
LEMMA ReviewedFirst ==
    ASSUME TypeOK, Owned, Ordered(hist), Held, Fits, Whole, RunStep, hist'.delivered # {}, ~hist'.broken
    PROVE  Reviewed(hist')
<1>0. hist \in Histories /\ run \in Runs
    BY DEF TypeOK
<1>1. CASE Plain(hist, hist')
    BY <1>1, SameApprovals DEF Plain, Whole
<1>2. CASE Bind
    BY <1>0, <1>2, RunBoundBinds, SameApprovals DEF Bind, Whole
<1>3. CASE Prepare \/ Certify
    <2>1. hist'.decisions = hist.decisions
        <3>1. [tree |-> run.files, maker |-> "run"] \in Commits /\ (run.pc = "certify" => run.commit \in Commits)
            BY <1>0, CommitType DEF TypeOK, Runs
        <3> QED BY <1>0, <1>3, <3>1, CommitEventDelivers DEF Prepare, Certify, Events
    <2> QED BY <1>3, <2>1, SameApprovals DEF Prepare, Certify, Fits, Cleared
<1>4. CASE AppendDecision \/ \E approved \in BOOLEAN : FinalReview(approved)
    <2>1. \E d \in Decision : hist' = YieldDecided(hist, d)
        <3>1. run.total + 1 \in Nat /\ run.files \in Trees
            BY <1>0 DEF Runs
        <3>2. CASE AppendDecision
            BY <3>2, AppendIsDecision
        <3>3. CASE \E approved \in BOOLEAN : FinalReview(approved)
            BY <3>1, <3>3, ReviewType DEF FinalReview
        <3> QED BY <1>4, <3>2, <3>3
    <2>2. hist'.delivered = hist.delivered
        BY <1>0, <2>1, YieldDecidedDecides DEF DecidesOrBreaks
    <2> QED BY <1>4, <2>2 DEF AppendDecision, RecordDecision, FinalReview, Fits, Unnamed, Bounded
<1> QED BY <1>1, <1>2, <1>3, <1>4, RunHistory

LEMMA RunWhole ==
    ASSUME TypeOK, Owned, Ordered(hist), Held, FitsWhileRead, Whole, RunStep, ~Overlap
    PROVE  Whole'
<1>0. Fits /\ rec' = rec /\ op' = op
    BY RunKeepsOp DEF FitsWhileRead, Whole, RunStep
<1>1. ~hist'.broken
    BY <1>0, ProcessAccepted, ResumeAccepted, OutsideAccepted DEF RunStep, Whole
<1>2. hist'.delivered # {} => Reviewed(hist')
    BY <1>0, <1>1, ReviewedFirst
<1>3. CASE run.pc # "none"
    BY <1>0, <1>1, <1>2, <1>3, RunKeepsRow DEF Whole
<1>4. CASE run.pc = "none" /\ Plain(hist, hist') /\ run' = run /\ db' = db
    <2>1. /\ hist'.decisions = hist.decisions /\ hist'.lastDecided = hist.lastDecided /\ hist'.bound = hist.bound
          /\ Approvals(hist') = Approvals(hist) /\ Reviewed(hist') = Reviewed(hist)
        BY <1>4, SameApprovals DEF Plain
    <2> QED BY <1>0, <1>1, <1>2, <1>4, <2>1 DEF Whole, SeenStands
<1>5. CASE Open \/ (Claim /\ (Overlap \/ rec.pc = "none"))
    <2>1. rec.pc = "none" /\ ~op.made
        BY <1>5 DEF Owned, Open, Claim, Continuable, Whole
    <2> QED BY <1>0, <1>1, <1>2, <2>1 DEF Whole
<1> QED BY <1>3, <1>4, <1>5, IdleRun

LEMMA ReviewWhole ==
    ASSUME TypeOK, Owned, Ordered(hist), Recorded, Whole, NEW approved \in BOOLEAN, RecoverReview(approved)
    PROVE  Whole'
<1> DEFINE d == [seq |-> rec.seen.lastDecided + 1, kind |-> "final_review", req |-> None, source |-> "operator",
                 approved |-> approved, unconsumed |-> FALSE, tree |-> Want]
<1>1. rec.seen.lastDecided + 1 \in Nat /\ Want \in Trees /\ hist \in Histories /\ rec \in Recs
    BY WantType DEF TypeOK, Recs, Histories
<1>2. /\ d \in Decision /\ d.kind = "final_review" /\ d.approved = approved /\ d.tree = Want
      /\ d.seq = rec.seen.lastDecided + 1 /\ hist' = YieldDecided(hist, d)
    BY <1>1, ReviewType DEF RecoverReview, ReviewNumbered
<1> HIDE DEF d
<1>3. /\ rec.pc = "review" /\ rec'.pc = IF approved THEN "op" ELSE "none"
      /\ (approved => rec'.seen = rec.seen) /\ op' = op /\ run' = run /\ db' = db
    BY <1>1 DEF RecoverReview, ReviewNumbered, RecGoto, NoRec, Recs
<1>4. /\ SeenStands /\ ~op.made /\ hist.bound /\ ~hist.broken /\ run.pc = "none" /\ hist.delivered = {}
      /\ Approvals(rec.seen) = Approvals(hist) /\ Approvals(hist) # {}
    BY <1>3 DEF Whole, SeenStands, Recorded
<1>5. d.seq > hist.lastDecided
    BY <1>1, <1>2, <1>4 DEF SeenStands, Histories
<1>6. ~hist'.broken /\ hist' \in Histories
    BY <1>1, <1>2, <1>4, <1>5, EventsAccepted, EventTypes
<1>7. /\ hist'.decisions = hist.decisions \cup {d} /\ hist'.bound = hist.bound /\ hist'.delivered = hist.delivered
    BY <1>1, <1>2, <1>6, AcceptedEvents, YieldDecidedDecides DEF DecidesOrBreaks
<1>8. Approvals(hist') = Approvals(hist) /\ (approved => Reviewed(hist'))
    BY <1>1, <1>2, <1>4, <1>5, <1>6, <1>7, ReviewReviews DEF Want
<1> QED BY <1>3, <1>4, <1>6, <1>7, <1>8 DEF Whole

\* A recovery's record of what happened names a commit that was reviewed.
LEMMA RecordsWhole ==
    ASSUME TypeOK, Recorded, Whole, RecoverCertify \/ RecoverRecord
    PROVE  Whole'
<1>1. /\ rec.pc \in {"certify", "record"} /\ rec'.pc \in {"record", "finish"} /\ op' = op /\ run' = run /\ db' = db
      /\ hist \in Histories /\ rec.commit \in Commits
    BY DEF RecoverCertify, RecoverRecord, RecGoto, TypeOK, Recs
<1>2. hist.bound /\ ~hist.broken /\ op.made /\ run.pc = "none"
    BY <1>1 DEF Whole, Recorded, Delivering
<1>3. hist' = hist \/ \E event \in Events : hist' = CommitEvent(hist, event, rec.commit)
    BY DEF RecoverCertify, RecoverRecord, Events
<1>4. ~hist'.broken /\ hist'.bound /\ hist'.decisions = hist.decisions
    BY <1>1, <1>2, <1>3, EventsAccepted, CommitEventDelivers
<1>5. Approvals(hist') = Approvals(hist) /\ Reviewed(hist') = Reviewed(hist)
    BY <1>4, SameApprovals
<1> QED BY <1>1, <1>2, <1>4, <1>5 DEF Whole

LEMMA RecoverWhole ==
    ASSUME TypeOK, Owned, Ordered(hist), Recorded, Whole, RecoverStep, ~Overlap
    PROVE  Whole'
<1>0. rec \in Recs
    BY DEF TypeOK
<1>1. CASE RecoverRead /\ owner = "none"
    <2>1. /\ rec'.pc = "claim" /\ rec'.seen = hist /\ rec'.review = ~Reviewed(hist) /\ hist.bound /\ run.pc = "none"
          /\ Approvals(hist) # {}
        BY <1>1 DEF RecoverRead, ReadNeeding, Opens, NoRec, Reviewed, Owned
    <2>2. UNCHANGED vars
        BY <1>1 DEF RecoverRead, ReadNeeding
    <2> QED BY <2>1, <2>2 DEF Whole, SeenStands, vars
<1>2. CASE RecoverClaim
    <2>1. /\ rec.pc = "claim" /\ rec'.seen = rec.seen /\ rec'.review = rec.review
          /\ rec'.pc = IF op.made THEN "deliver" ELSE IF rec.review THEN "review" ELSE "op"
          /\ hist' = hist /\ op' = op /\ run' = run /\ db' = db
        BY <1>0, <1>2 DEF RecoverClaim, Recs
    <2> QED BY <2>1 DEF Whole, SeenStands
<1>3. CASE \E approved \in BOOLEAN : RecoverReview(approved)
    BY <1>3, ReviewWhole
<1>4. CASE RecoverOp
    <2>1. /\ rec.pc = "op" /\ rec'.pc = "deliver" /\ op'.made /\ op'.tree = TreeOf(Approvals(rec.seen))
          /\ hist' = hist /\ run' = run /\ db' = db
        BY <1>0, <1>4 DEF RecoverOp, RecGoto, Want, Recs
    <2> QED BY <2>1 DEF Whole, Owned, Recovering
<1>5. CASE RecoverDeliver
    <2>1. rec.pc = "deliver" /\ rec'.pc = "keep" /\ hist' = hist /\ op' = op /\ run' = run /\ db' = db
        BY <1>0, <1>5 DEF RecoverDeliver, Recs
    <2> QED BY <2>1 DEF Whole
<1>6. CASE RecoverKeep
    <2>1. /\ rec.pc = "keep" /\ rec'.pc = "certify" /\ hist' = hist /\ op'.made = op.made /\ op'.tree = op.tree
          /\ run' = run /\ db' = db
        BY <1>0, <1>6 DEF RecoverKeep, RecGoto, Recs, TypeOK, Ops
    <2> QED BY <2>1 DEF Whole
<1>7. CASE RecoverCertify \/ RecoverRecord
    BY <1>7, RecordsWhole
<1>8. CASE RecoverFinish
    <2>1. /\ rec.pc = "finish" /\ rec'.pc = "none" /\ hist' = hist /\ op' = op /\ run' = run
          /\ db'.status \in {db.status, rec.status, "KILLED"}
        BY <1>8 DEF RecoverFinish, NoRec
    <2> QED BY <2>1 DEF Whole, Owned, Recovering
<1>9. CASE RecoverStops \/ RecoverCrash
    <2>1. rec'.pc = "none" /\ hist' = hist /\ op' = op /\ run' = run /\ db' = db
        BY <1>9 DEF RecoverStops, RecoverCrash, NoRec
    <2> QED BY <2>1 DEF Whole
<1> QED BY <1>1, <1>2, <1>3, <1>4, <1>5, <1>6, <1>7, <1>8, <1>9 DEF RecoverStep

LEMMA WholeStep ==
    ASSUME ~Overlap, TypeOK, Owned, Ordered(hist), Held, Recorded, FitsWhileRead, Whole, [Next]_allVars
    PROVE  Whole'
<1>1. CASE UNCHANGED allVars
    BY <1>1 DEF allVars, vars, Whole, SeenStands
<1> QED BY <1>1, StepCases, RunWhole, RecoverWhole

\* history.go, replay: when nobody drives the run between a recovery's reading and its
\* claim, no order of the commands' events, and no crash between them, makes a chain that
\* the next command refuses to read.
THEOREM ChainStaysReadable ==
    ASSUME ~Overlap
    PROVE  Spec => []ChainReadable
<1>1. Whole => ChainReadable
    BY DEF Whole, ChainReadable
<1>2. Durable => Ordered(hist)
    BY DEF Durable
<1>3. TypeOK /\ Owned /\ Durable /\ Held /\ Recorded /\ FitsWhileRead /\ Whole /\ [Next]_allVars => Whole'
    BY <1>2, WholeStep
<1> QED BY <1>1, <1>2, <1>3, Typed, DurableInit, DurableStep, OwnedInit, OwnedStep, HeldInit, HeldStep, RecordedInit, RecordedStep,
    FitsInit, FitsStep, WholeInit, PTL DEF Spec
=============================================================================
