------------------------- MODULE ContinuationProofs -------------------------
(***************************************************************************)
(* What a continuation finds and what it leaves: the journal always fits   *)
(* the chain, and an agent is launched over acknowledged losses and on the *)
(* approved state only.                                                    *)
(***************************************************************************)
EXTENDS ChainProofs, FiniteSetTheorems

-----------------------------------------------------------------------------
(* Where persons approve, nobody is asked for a final review.              *)

RunUntasked ==
    /\ run.pc \in {"ruled", "append"} /\ run.ruling.approved => run.ruling.source \in RunSources
    /\ ~run.task /\ run.pc # "review"

Untasked ==
    /\ RunUntasked
    /\ ~TaskApproved(hist)
    /\ ~rec.review /\ rec.pc # "review"

LEMMA UntaskedInit == OrchestratorInit => Untasked
BY DEF OrchestratorInit, Init, NoHistory, NoRun, NoRec, Untasked, RunUntasked, TaskApproved, Approvals

LEMMA ProcessUntasked == TypeOK /\ Untasked /\ ProcessStep => RunUntasked'
<1> SUFFICES ASSUME TypeOK, Untasked, ProcessStep PROVE RunUntasked'
    OBVIOUS
<1>0. run \in Runs /\ RunUntasked
    BY DEF TypeOK, Untasked
<1> USE DEF RunUntasked
<1>1. CASE WaitEnds \/ Expire \/ KeepApproval \/ PassRejection
    <2>1. CASE WaitEnds
        BY <1>0, <2>1 DEF WaitEnds, Rule, Runs, Rulings
    <2>2. CASE Expire
        BY <1>0, <2>2 DEF Expire, Runs, Rulings
    <2>3. CASE KeepApproval
        BY <1>0, <2>3 DEF KeepApproval, Runs, Rulings
    <2>4. CASE PassRejection
        BY <1>0, <2>4 DEF PassRejection, Goto, Runs
    <2> QED BY <1>1, <2>1, <2>2, <2>3, <2>4
<1>2. CASE Bind \/ ReadPolicy \/ ClaimLaunch \/ MarkRunning \/ SetupFails \/ \E o \in Outcomes : EndLaunch(o)
    BY <1>0, <1>2 DEF Bind, ReadPolicy, ClaimLaunch, MarkRunning, SetupFails, EndLaunch, Goto, Runs
<1>3. CASE ConsumeFails \/ LoopEnds \/ PrepareNothing \/ FinalizeFails
    BY <1>0, <1>3 DEF ConsumeFails, LoopEnds, PrepareNothing, FinalizeFails, EndAs, Runs
<1>4. CASE AppendDecision \/ Answer
    BY <1>0, <1>4 DEF AppendDecision, RecordDecision, Answer, Runs
<1>5. CASE Verify
    BY <1>0, <1>5 DEF Verify, Goto, EndAs, Runs
<1>6. CASE Prepare \/ StillGoing \/ Deliver \/ Certify \/ FinishRun
    BY <1>0, <1>6 DEF Prepare, StillGoing, Deliver, Certify, FinishRun, Goto, EndAs, Runs
<1>7. CASE Release
    BY <1>7 DEF Release, NoRun, NoRuling
<1> QED BY <1>1, <1>2, <1>3, <1>4, <1>5, <1>6, <1>7 DEF ProcessStep

LEMMA ResumeUntasked == TypeOK /\ Untasked /\ ResumeStep => RunUntasked'
<1> SUFFICES ASSUME TypeOK, Untasked, ResumeStep PROVE RunUntasked'
    OBVIOUS
<1>0. run \in Runs /\ RunUntasked /\ ~TaskApproved(hist)
    BY DEF TypeOK, Untasked
<1> USE DEF RunUntasked
<1>1. CASE Trim
    BY <1>0, <1>1 DEF Trim, TrimUpTo, Runs
<1>2. CASE RecordLostLaunch \/ SettleAcknowledged \/ SettleUnparked \/ Reopen \/ AppendResumed
    BY <1>0, <1>2 DEF RecordLostLaunch, SettleAcknowledged, SettleUnparked, Reopen, AppendResumed, Goto, Runs
<1>3. CASE RefuseParked \/ RefuseRecords \/ CheckWorktree
    BY <1>0, <1>3 DEF RefuseParked, RefuseRecords, CheckWorktree, Refuse, Goto, NoRun, Runs
<1> QED BY <1>1, <1>2, <1>3 DEF ResumeStep

LEMMA OutsideUntasked == "task" \notin RunSources /\ TypeOK /\ Untasked /\ (OutsideStep \/ Claim) => RunUntasked'
<1> SUFFICES ASSUME "task" \notin RunSources, TypeOK, Untasked, OutsideStep \/ Claim PROVE RunUntasked'
    OBVIOUS
<1>0. run \in Runs /\ RunUntasked
    BY DEF TypeOK, Untasked
<1> USE DEF RunUntasked
<1>1. CASE (\E s \in RunSources : Decide(s, TRUE)) \/ Decide("operator", FALSE)
    <2>1. CASE Decide("operator", FALSE)
        BY <1>0, <2>1 DEF Decide, Rule, Runs, Rulings
    <2>2. ASSUME NEW s \in RunSources, Decide(s, TRUE) PROVE RunUntasked'
        BY <1>0, <2>2 DEF Decide, Rule, Runs, Rulings
    <2> QED BY <1>1, <2>1, <2>2
<1>2. CASE Open \/ OverBudget \/ (\E r \in Reqs : Propose(r)) \/ (\E ok \in BOOLEAN : AgentExits(ok))
    BY <1>0, <1>2 DEF Open, OverBudget, Propose, AgentExits, Goto, EndAs, Runs
<1>3. ~\E approved \in BOOLEAN : FinalReview(approved)
    BY <1>0 DEF FinalReview
<1>4. CASE Deadline \/ Cancel
    BY <1>0, <1>4 DEF Deadline, Cancel, Runs
<1>5. CASE Crash \/ Claim
    <2>1. CASE Crash
        BY <2>1 DEF Crash, NoRun
    <2>2. CASE Claim
        <3>1. run' = [NoRun EXCEPT !.pc = "settle", !.ending = "KILLED"]
            BY <2>2 DEF Claim
        <3> QED BY <3>1 DEF NoRun
    <2> QED BY <1>5, <2>1, <2>2
<1>6. CASE run' = run
    BY <1>0, <1>6
<1> QED BY <1>1, <1>2, <1>3, <1>4, <1>5, <1>6 DEF OutsideStep, AgentWrites, Acknowledge, BranchMoved

LEMMA UntaskedStep == "task" \notin RunSources /\ TypeOK /\ Untasked /\ [Next]_allVars => Untasked'
<1> SUFFICES ASSUME "task" \notin RunSources, TypeOK, Untasked, [Next]_allVars PROVE Untasked'
    OBVIOUS
<1>1. ~TaskApproved(hist')
    <2>1. CASE Approvals(hist') = Approvals(hist)
        BY <2>1 DEF Untasked, TaskApproved
    <2>2. CASE AppendDecision
        <3>1. PICK good \in BOOLEAN, d \in Decision :
                 /\ hist' = YieldDecided(hist, d) /\ d.approved = good
                 /\ good => run.ruling.approved /\ d.source = run.ruling.source
            BY <2>2, AppendIsDecision
        <3>2. d.approved => d.source # "task"
            BY <2>2, <3>1 DEF AppendDecision, RecordDecision, Untasked, RunUntasked
        <3>3. hist'.decisions \subseteq hist.decisions \cup {d}
            BY <3>1, YieldDecidedDecides DEF TypeOK, DecidesOrBreaks
        <3> QED BY <3>2, <3>3 DEF Untasked, TaskApproved, Approvals
    <2> QED BY <2>1, <2>2, ChainKeeps
<1>2. CASE RunStep
    BY <1>1, <1>2, ProcessUntasked, ResumeUntasked, OutsideUntasked DEF RunStep, Untasked
<1>3. CASE RecoverStep
    <2>0. rec \in Recs
        BY DEF TypeOK
    <2>1. run' = run
        BY <1>3 DEF RecoverStep, RecoverRead, ReadNeeding, vars, RecoverClaim, RecoverReview, ReviewNumbered, RecoverOp,
           RecoverDeliver, RecoverKeep, RecoverCertify, RecoverRecord, RecoverFinish, RecoverStops, RecoverCrash
    <2>2. ~rec'.review /\ rec'.pc # "review"
        <3>1. CASE RecoverRead \/ RecoverClaim
            BY <2>0, <3>1 DEF RecoverRead, ReadNeeding, RecoverClaim, NoRec, Recs, Untasked
        <3>2. ~\E approved \in BOOLEAN : RecoverReview(approved)
            BY DEF RecoverReview, ReviewNumbered, Untasked
        <3>3. CASE RecoverOp \/ RecoverDeliver \/ RecoverKeep \/ RecoverCertify \/ RecoverRecord
            BY <2>0, <3>3 DEF RecoverOp, RecoverDeliver, RecoverKeep, RecoverCertify, RecoverRecord, RecGoto, Recs, Untasked
        <3>4. CASE RecoverFinish \/ RecoverStops \/ RecoverCrash
            BY <3>4 DEF RecoverFinish, RecoverStops, RecoverCrash, NoRec
        <3> QED BY <1>3, <3>1, <3>2, <3>3, <3>4 DEF RecoverStep
    <2> QED BY <1>1, <2>1, <2>2 DEF Untasked, RunUntasked
<1>4. CASE UNCHANGED allVars
    BY <1>4 DEF allVars, vars, Untasked, RunUntasked
<1> QED BY <1>2, <1>3, <1>4, StepCases

-----------------------------------------------------------------------------
(* The journal fits the chain.                                             *)

Matched(l) == \E d \in Approvals(hist) \cup Unconsumed(hist) : d.seq = l.seq /\ d.req = l.req

\* The process has no line of its own in the journal that the chain has no decision for.
Trimmed == {"bind", "policy", "launch", "mark", "loop", "decide", "ruled", "answer"}

\* Every approval has its line; every line up to the last decision has its decision; and
\* above it there is at most the line of the decision in the hands of the process, unless
\* no process goes on from there without trimming it.
Fitting ==
    /\ ~hist.bound => journal.lines = {}
    /\ \A a \in Approvals(hist) : [seq |-> a.seq, req |-> a.req] \in journal.lines
    /\ \A l \in journal.lines : l.seq > hist.lastDecided \/ Matched(l)
    /\ run.pc \in Trimmed => \A l \in journal.lines : l.seq <= hist.lastDecided
    /\ run.pc = "append" => \A l \in journal.lines : l.seq <= hist.lastDecided \/ (l = Line /\ run.ruling.journaled)

FittingWhileRead == ~hist.broken => Fitting

LEMMA FittingInit == OrchestratorInit => FittingWhileRead
BY DEF OrchestratorInit, Init, NoHistory, NoRun, FittingWhileRead, Fitting, Approvals, Trimmed

SameDecisions ==
    /\ hist'.bound = hist.bound
    /\ hist'.decisions = hist.decisions
    /\ hist'.lastDecided = hist.lastDecided

\* The process stays where its journal is trimmed, or goes to where that is not asked.
SameLines ==
    /\ journal'.lines = journal.lines
    /\ run'.pc \in Trimmed => run.pc \in Trimmed \/ ~hist.bound
    /\ run'.pc = "append" => \/ run.pc = "ruled"
                             \/ run.pc = "append" /\ run'.ruling = run.ruling /\ run'.total = run.total

LEMMA SameFits == TypeOK /\ Fitting /\ SameDecisions /\ SameLines => Fitting'
<1> SUFFICES ASSUME TypeOK, Fitting, SameDecisions, SameLines PROVE Fitting'
    OBVIOUS
<1>1. Approvals(hist') = Approvals(hist) /\ Unconsumed(hist') = Unconsumed(hist)
    BY DEF SameDecisions, Approvals, Unconsumed
<1>2. \A l \in journal.lines : l.seq > hist'.lastDecided \/ Matched(l)'
    BY <1>1 DEF Fitting, SameDecisions, Matched
<1>3. run'.pc \in Trimmed => \A l \in journal'.lines : l.seq <= hist'.lastDecided
    BY DEF Fitting, SameDecisions, SameLines
<1>4. run'.pc = "append" => \A l \in journal'.lines : l.seq <= hist'.lastDecided \/ (l = Line' /\ run'.ruling.journaled)
    BY DEF Fitting, SameDecisions, SameLines, Line, Trimmed
<1> QED BY <1>1, <1>2, <1>3, <1>4 DEF Fitting, SameDecisions, SameLines

LEMMA DecisionsKept == TypeOK /\ Untasked /\ [Next]_allVars => SameDecisions \/ Bind \/ AppendDecision
<1> SUFFICES ASSUME TypeOK, Untasked, [Next]_allVars PROVE SameDecisions \/ Bind \/ AppendDecision
    OBVIOUS
<1>1. CASE Plain(hist, hist') \/ UNCHANGED allVars
    BY <1>1 DEF Plain, SameDecisions, allVars, vars
<1>2. CASE Prepare \/ Certify \/ RecoverCertify \/ RecoverRecord
    <2>1. [tree |-> run.files, maker |-> "run"] \in Commits
        BY CommitType DEF TypeOK, Runs
    <2>2. hist' = hist \/ \E event \in Events, c \in Commits : hist' = CommitEvent(hist, event, c)
        BY <1>2, <2>1 DEF Prepare, Certify, RecoverCertify, RecoverRecord, TypeOK, Events
    <2> QED BY <2>2, CommitEventDelivers DEF TypeOK, SameDecisions
<1>3. ~\E approved \in BOOLEAN : FinalReview(approved) \/ RecoverReview(approved)
    BY DEF FinalReview, RecoverReview, ReviewNumbered, Untasked, RunUntasked
<1> QED BY <1>1, <1>2, <1>3, StepCases, RunHistory, RecoverHistory

LEMMA LinesKept ==
    TypeOK /\ Owned /\ Held /\ [Next]_allVars => SameLines \/ Bind \/ KeepApproval \/ ConsumeFails \/ AppendDecision \/ Trim
<1> SUFFICES ASSUME TypeOK, Owned, Held, [Next]_allVars
             PROVE  SameLines \/ Bind \/ KeepApproval \/ ConsumeFails \/ AppendDecision \/ Trim
    OBVIOUS
<1>0. run \in Runs
    BY DEF TypeOK
<1> USE DEF SameLines, Trimmed
<1>1. CASE ReadPolicy \/ ClaimLaunch \/ MarkRunning \/ SetupFails \/ PassRejection \/ \E o \in Outcomes : EndLaunch(o)
    BY <1>0, <1>1 DEF ReadPolicy, ClaimLaunch, MarkRunning, SetupFails, PassRejection, EndLaunch, Goto, durable, Runs
<1>2. CASE WaitEnds \/ (\E s \in RunSources : Decide(s, TRUE)) \/ Decide("operator", FALSE)
    <2>1. CASE WaitEnds
        BY <1>0, <2>1 DEF WaitEnds, Rule, durable, Runs
    <2>2. CASE Decide("operator", FALSE)
        BY <1>0, <2>2 DEF Decide, Rule, durable, Runs
    <2>3. ASSUME NEW s \in RunSources, Decide(s, TRUE) PROVE SameLines
        BY <1>0, <2>3 DEF Decide, Rule, durable, Runs
    <2> QED BY <1>2, <2>1, <2>2, <2>3
<1>3. CASE Expire \/ Answer \/ LoopEnds \/ Verify
    <2>1. CASE Expire
        BY <1>0, <2>1 DEF Expire, durable, Runs
    <2>2. CASE Answer
        BY <1>0, <2>2 DEF Answer, Runs
    <2>3. CASE LoopEnds
        BY <1>0, <2>3 DEF LoopEnds, EndAs, Runs
    <2>4. CASE Verify
        BY <1>0, <2>4 DEF Verify, Goto, EndAs, durable, Runs
    <2> QED BY <1>3, <2>1, <2>2, <2>3, <2>4
<1>4. CASE Prepare \/ PrepareNothing \/ StillGoing \/ Deliver \/ Certify \/ FinalizeFails \/ FinishRun
    <2>1. CASE Prepare
        BY <1>0, <2>1 DEF Prepare, Goto, Runs
    <2>2. CASE PrepareNothing
        BY <1>0, <2>2 DEF PrepareNothing, EndAs, durable, Runs
    <2>3. CASE StillGoing
        BY <1>0, <2>3 DEF StillGoing, Goto, EndAs, durable, Runs
    <2>4. CASE Deliver
        BY <1>0, <2>4 DEF Deliver, Runs
    <2>5. CASE Certify \/ FinishRun
        BY <1>0, <2>5 DEF Certify, FinishRun, Goto, Runs
    <2>6. CASE FinalizeFails
        BY <1>0, <2>6 DEF FinalizeFails, EndAs, durable, Runs
    <2> QED BY <1>4, <2>1, <2>2, <2>3, <2>4, <2>5, <2>6
<1>5. CASE Release \/ Crash
    BY <1>5 DEF Release, Crash, NoRun, TypeOK, Journals
<1>6. CASE RecordLostLaunch \/ SettleAcknowledged \/ SettleUnparked \/ Reopen \/ AppendResumed
    BY <1>0, <1>6 DEF RecordLostLaunch, SettleAcknowledged, SettleUnparked, Reopen, AppendResumed, Goto, durable, Runs
<1>7. CASE RefuseParked \/ RefuseRecords \/ CheckWorktree
    BY <1>0, <1>7 DEF RefuseParked, RefuseRecords, CheckWorktree, Refuse, Goto, NoRun, Runs
<1>8. CASE Open
    BY <1>0, <1>8 DEF Open, Goto, Runs, Held
<1>9. CASE (\E r \in Reqs : Propose(r)) \/ (\E ok \in BOOLEAN : AgentExits(ok)) \/ OverBudget
    BY <1>0, <1>9 DEF Propose, AgentExits, OverBudget, EndAs, durable, Runs
<1>10. CASE \E approved \in BOOLEAN : FinalReview(approved)
    BY <1>0, <1>10 DEF FinalReview, Goto, EndAs, Runs
<1>11. CASE Deadline \/ Cancel
    BY <1>0, <1>11 DEF Deadline, Cancel, durable, Runs
<1>12. CASE Claim
    <2>1. run'.pc = "settle"
        BY <1>12 DEF Claim, NoRun
    <2> QED BY <1>12, <2>1 DEF Claim
<1>13. CASE run' = run /\ journal' = journal
    BY <1>13
<1>14. RecoverStep => run' = run /\ journal' = journal
    BY DEF RecoverStep, RecoverRead, ReadNeeding, vars, RecoverClaim, RecoverReview, ReviewNumbered, RecoverOp,
       RecoverDeliver, RecoverKeep, RecoverCertify, RecoverRecord, RecoverFinish, RecoverStops, RecoverCrash
<1> HIDE DEF SameLines, Trimmed
<1>15. ProcessStep => SameLines \/ Bind \/ KeepApproval \/ ConsumeFails \/ AppendDecision \/ Trim
    BY <1>1, <1>2, <1>3, <1>4, <1>5 DEF ProcessStep
<1>16. ResumeStep => SameLines \/ Bind \/ KeepApproval \/ ConsumeFails \/ AppendDecision \/ Trim
    BY <1>6, <1>7 DEF ResumeStep
<1>17. OutsideStep \/ Claim => SameLines \/ Bind \/ KeepApproval \/ ConsumeFails \/ AppendDecision \/ Trim
    BY <1>2, <1>5, <1>8, <1>9, <1>10, <1>11, <1>12, <1>13 DEF OutsideStep, AgentWrites, Acknowledge, BranchMoved
<1> QED BY <1>13, <1>14, <1>15, <1>16, <1>17, StepCases DEF RunStep, allVars, vars

\* A line is written for the number in hand, which is above every decided one.
LEMMA KeepFits ==
    ASSUME TypeOK, Held, Fits, Fitting, KeepApproval \/ ConsumeFails, SameDecisions
    PROVE  Fitting'
<1>1. run \in Runs /\ run.total \in Nat /\ hist.lastDecided \in Nat
    BY DEF TypeOK, Runs, Histories
<1>2. /\ Approvals(hist') = Approvals(hist) /\ Unconsumed(hist') = Unconsumed(hist)
      /\ hist'.lastDecided = hist.lastDecided /\ hist'.bound = hist.bound
    BY DEF SameDecisions, Approvals, Unconsumed
<1>3. /\ journal.lines \subseteq journal'.lines /\ journal'.lines \subseteq journal.lines \cup {Line}
      /\ (journal'.lines # journal.lines => run.pc = "ruled")
    BY DEF KeepApproval, ConsumeFails, Kept
<1>4. run.pc = "ruled" => hist.lastDecided < run.total /\ hist.bound
    BY DEF Fits, Deciding, Held, Bounded
<1>5. \A l \in journal'.lines : l.seq > hist'.lastDecided \/ Matched(l)'
    <2>1. run.pc = "ruled" => Line.seq > hist.lastDecided
        BY <1>1, <1>4 DEF Line
    <2> QED BY <1>2, <1>3, <2>1 DEF Fitting, Matched
<1>6. CASE KeepApproval
    <2>1. run'.pc = "append" /\ run'.ruling.journaled /\ Line' = Line /\ run.pc = "ruled"
        BY <1>1, <1>6 DEF KeepApproval, Line, Runs, Rulings
    <2>2. \A l \in journal'.lines : l.seq <= hist'.lastDecided \/ (l = Line' /\ run'.ruling.journaled)
        BY <1>2, <1>3, <2>1 DEF Fitting, Trimmed
    <2> QED BY <1>2, <1>3, <1>4, <1>5, <2>1, <2>2 DEF Fitting, Trimmed
<1>7. CASE ConsumeFails
    <2>1. run'.pc = "stopping" /\ run.pc \in {"ruled", "append"}
        BY <1>1, <1>7 DEF ConsumeFails, EndAs, Runs
    <2> QED BY <1>2, <1>3, <1>4, <1>5, <2>1 DEF Fitting, Trimmed
<1> QED BY <1>6, <1>7

\* The decision is the one the line in hand was written for.
LEMMA AppendFitting ==
    ASSUME TypeOK, Durable, Held, Fits, Fitting, ~hist'.broken, AppendDecision
    PROVE  Fitting'
<1>1. PICK good \in BOOLEAN, d \in Decision :
         /\ hist' = YieldDecided(hist, d)
         /\ d.seq = run.total /\ d.req = run.ruling.req /\ d.kind = "file_edit" /\ d.approved = good
         /\ run' = [run EXCEPT !.pc = "answer", !.ruling.approved = good]
         /\ good => run.ruling.approved
         /\ run.ruling.journaled /\ ~good => d.unconsumed
    BY AppendIsDecision
<1>2. run.pc = "append" /\ run'.pc = "answer" /\ journal' = journal
    BY <1>1 DEF AppendDecision, RecordDecision, TypeOK, Runs
<1>3. hist \in Histories /\ hist' \in Histories /\ run.total \in Nat /\ hist.lastDecided \in Nat
    BY <1>1, EventTypes DEF TypeOK, Runs, Histories
<1>4. hist'.decisions = hist.decisions \cup {d} /\ hist'.lastDecided = d.seq /\ d.seq > hist.lastDecided
    BY <1>1, <1>3, AcceptedEvents
<1>5. hist.bound /\ hist'.bound
    BY <1>1, <1>2, <1>3, YieldDecidedDecides DEF DecidesOrBreaks, Held, Bounded
<1>6. /\ good => Approvals(hist') = Approvals(hist) \cup {d}
      /\ ~good => Approvals(hist') = Approvals(hist)
    BY <1>1, <1>3, <1>4, DecisionApproves
<1>7. Approvals(hist) \subseteq Approvals(hist') /\ Unconsumed(hist) \subseteq Unconsumed(hist')
    BY <1>4, <1>6 DEF Unconsumed
<1>8. run.ruling.journaled => d \in Approvals(hist') \cup Unconsumed(hist')
    BY <1>1, <1>4, <1>6 DEF Unconsumed
<1>9. \A l \in journal.lines : l.seq <= hist.lastDecided \/ (l = Line /\ run.ruling.journaled)
    BY <1>2 DEF Fitting
<1>10. Line.seq = d.seq /\ Line.req = d.req
    BY <1>1 DEF Line
<1>11. \A l \in journal'.lines : l.seq <= hist'.lastDecided /\ Matched(l)'
    <2> SUFFICES ASSUME NEW l \in journal.lines PROVE l.seq <= hist'.lastDecided /\ Matched(l)'
        BY <1>2
    <2>1. CASE l.seq <= hist.lastDecided
        <3>1. l.seq \in Nat
            BY DEF TypeOK, Journals, Lines
        <3>2. Matched(l) /\ l.seq <= hist'.lastDecided
            BY <1>3, <1>4, <1>1, <2>1, <3>1 DEF Fitting
        <3> QED BY <1>7, <3>2 DEF Matched
    <2>2. CASE l = Line /\ run.ruling.journaled
        BY <1>1, <1>3, <1>4, <1>8, <1>10, <2>2 DEF Matched
    <2> QED BY <1>9, <2>1, <2>2
<1>12. \A a \in Approvals(hist') : [seq |-> a.seq, req |-> a.req] \in journal'.lines
    <2>1. good => [seq |-> d.seq, req |-> d.req] \in journal.lines
        BY <1>1, <1>2 DEF Durable, Line
    <2> QED BY <1>2, <1>6, <2>1 DEF Fitting
<1> QED BY <1>2, <1>5, <1>11, <1>12 DEF Fitting

LEMMA BindFitting ==
    ASSUME TypeOK, Held, Fitting, ~hist'.broken, Bind
    PROVE  Fitting'
<1>1. ~hist.bound /\ hist'.decisions = hist.decisions /\ hist'.bound /\ journal' = journal
    BY AcceptedEvents, RunBoundBinds DEF Bind, TypeOK
<1>2. run'.pc = "policy"
    BY DEF Bind, Goto, TypeOK, Runs
<1>3. journal'.lines = {} /\ Approvals(hist') = {}
    BY <1>1 DEF Held, Fitting, Approvals
<1> QED BY <1>1, <1>2, <1>3 DEF Fitting

\* A continuation drops what no decision followed.
LEMMA TrimFitting ==
    ASSUME TypeOK, Durable, Fitting, Trim
    PROVE  Fitting'
<1>1. /\ hist' = hist /\ run'.pc = "launch"
      /\ journal'.lines = {l \in journal.lines : l.seq <= hist.lastDecided}
    BY DEF Trim, TrimUpTo, TypeOK, Runs
<1>2. \A a \in Approvals(hist) : [seq |-> a.seq, req |-> a.req] \in journal'.lines
    BY <1>1 DEF Fitting, Durable, Ordered, Approvals
<1>3. \A l \in journal'.lines : l.seq <= hist.lastDecided /\ (l.seq > hist.lastDecided \/ Matched(l)')
    BY <1>1 DEF Fitting, Matched
<1> QED BY <1>1, <1>2, <1>3 DEF Fitting

LEMMA FittingStep ==
    ASSUME TypeOK, Owned, Durable, Held, Untasked, FitsWhileRead, FittingWhileRead, [Next]_allVars
    PROVE  FittingWhileRead'
<1> SUFFICES ASSUME ~hist'.broken PROVE Fitting'
    BY DEF FittingWhileRead
<1>1. Fits /\ Fitting
    BY HistoryGrows DEF FittingWhileRead, FitsWhileRead, Grows, Continues
<1>2. CASE SameDecisions
    <2>1. SameLines \/ KeepApproval \/ ConsumeFails => Fitting'
        BY <1>1, <1>2, SameFits, KeepFits
    <2> QED BY <1>1, <2>1, LinesKept, BindFitting, AppendFitting, TrimFitting
<1>3. CASE Bind \/ AppendDecision
    BY <1>1, <1>3, BindFitting, AppendFitting
<1> QED BY <1>2, <1>3, DecisionsKept

\* recover_history.go: where people and rules approve, so that no final review is ever
\* asked for, no crash between a journal line and its decision, no failed write and no
\* decision that expired leaves a journal the next command refuses.
THEOREM JournalAlwaysReconciles ==
    ASSUME "task" \notin RunSources
    PROVE  Spec => []JournalReconciles
<1>1. TypeOK /\ FittingWhileRead => JournalReconciles
    BY DEF FittingWhileRead, Fitting, Matched, JournalReconciles, Reconciles
<1>2. TypeOK /\ Untasked /\ [Next]_allVars => Untasked'
    BY UntaskedStep
<1>3. Durable => Ordered(hist)
    BY DEF Durable
<1>4. TypeOK /\ Owned /\ Durable /\ Held /\ FitsWhileRead /\ [Next]_allVars => FitsWhileRead'
    BY <1>3, FitsStep
<1>5. TypeOK /\ Owned /\ Durable /\ Held /\ Untasked /\ FitsWhileRead /\ FittingWhileRead /\ [Next]_allVars => FittingWhileRead'
    BY FittingStep
<1> QED BY <1>1, <1>2, <1>3, <1>4, <1>5, Typed, DurableInit, DurableStep, OwnedInit, OwnedStep, HeldInit, HeldStep,
    UntaskedInit, FitsInit, FittingInit, PTL DEF Spec

-----------------------------------------------------------------------------
(* Nobody drives a run whose chain cannot be read.                         *)

Driven ==
    /\ run.pc # "none" \/ ~hist.bound => ~hist.broken
    /\ rec.pc # "none" => hist.bound

LEMMA DrivenInit == OrchestratorInit => Driven
BY DEF OrchestratorInit, Init, NoHistory, NoRec, Driven

LEMMA StaysBound == TypeOK /\ [Next]_allVars => (hist.bound => hist'.bound)
<1> SUFFICES ASSUME TypeOK, [Next]_allVars, hist.bound PROVE hist'.bound
    OBVIOUS
<1>0. hist \in Histories /\ run.total + 1 \in Nat /\ run.files \in Trees /\ Want \in Trees
      /\ rec.seen.lastDecided + 1 \in Nat
    BY WantType DEF TypeOK, Runs, Recs, Histories
<1>1. CASE Plain(hist, hist')
    BY <1>1 DEF Plain
<1>2. CASE Bind
    BY <1>0, <1>2, RunBoundBinds DEF Bind
<1>3. CASE Prepare \/ Certify \/ RecoverCertify \/ RecoverRecord
    <2>1. hist' = hist \/ \E event \in Events, c \in Commits : hist' = CommitEvent(hist, event, c)
        BY <1>0, <1>3, CommitType DEF Prepare, Certify, RecoverCertify, RecoverRecord, TypeOK, Events
    <2> QED BY <1>0, <2>1, CommitEventDelivers
<1>4. CASE AppendDecision \/ \E approved \in BOOLEAN : FinalReview(approved) \/ RecoverReview(approved)
    <2>1. PICK d \in Decision : hist' = YieldDecided(hist, d)
        BY <1>0, <1>4, AppendIsDecision, ReviewType DEF FinalReview, RecoverReview, ReviewNumbered
    <2> QED BY <1>0, <2>1, YieldDecidedDecides DEF DecidesOrBreaks
<1>5. CASE UNCHANGED allVars
    BY <1>5 DEF allVars, vars
<1> QED BY <1>1, <1>2, <1>3, <1>4, <1>5, StepCases, RunHistory, RecoverHistory

LEMMA DrivenStep ==
    ASSUME TypeOK, Owned, Ordered(hist), Held, FitsWhileRead, Driven, [Next]_allVars
    PROVE  Driven'
<1>1. CASE RunStep
    <2>1. rec' = rec
        BY <1>1 DEF RunStep
    <2>2. rec'.pc # "none" => hist'.bound
        BY <2>1, StaysBound DEF Driven
    <2> SUFFICES ASSUME run'.pc # "none" \/ ~hist'.bound PROVE ~hist'.broken
        BY <2>2 DEF Driven
    <2>3. run.pc # "none" \/ ~hist.bound \/ Claim
        <3>1. CASE Open
            BY <3>1 DEF Open, Held
        <3>2. CASE Acknowledge \/ (\E f \in Paths, c \in Reqs \cup {Base} : AgentWrites(f, c)) \/ \E c \in Strangers : BranchMoved(c)
            BY <3>2, StaysBound DEF Acknowledge, AgentWrites, BranchMoved
        <3> QED BY <1>1, <3>1, <3>2
            DEF RunStep, ProcessStep, ResumeStep, OutsideStep, Bind, ReadPolicy, ClaimLaunch, MarkRunning, WaitEnds, Expire,
                KeepApproval, PassRejection, ConsumeFails, AppendDecision, RecordDecision, Answer, LoopEnds, EndLaunch,
                Verify, Prepare, PrepareNothing, StillGoing, Deliver, Certify, FinishRun, Release, SetupFails,
                FinalizeFails, RecordLostLaunch, RefuseParked, SettleAcknowledged, SettleUnparked, RefuseRecords,
                CheckWorktree, Reopen, AppendResumed, Trim, TrimUpTo, Propose, Decide, FinalReview, AgentExits,
                OverBudget, Deadline, Cancel, Crash
    <2>4. ~hist.broken
        BY <2>3 DEF Driven, Claim, Continuable, Opens
    <2>5. Fits
        BY <2>4 DEF FitsWhileRead
    <2> QED BY <1>1, <2>4, <2>5, ProcessAccepted, ResumeAccepted, OutsideAccepted DEF RunStep
<1>2. CASE RecoverStep
    <2>1. run' = run
        BY <1>2 DEF RecoverStep, RecoverRead, ReadNeeding, vars, RecoverClaim, RecoverReview, ReviewNumbered, RecoverOp,
           RecoverDeliver, RecoverKeep, RecoverCertify, RecoverRecord, RecoverFinish, RecoverStops, RecoverCrash
    <2>2. rec'.pc # "none" => hist'.bound
        <3>1. CASE RecoverRead
            BY <3>1, StaysBound DEF RecoverRead, ReadNeeding, Opens
        <3> QED BY <1>2, <3>1, StaysBound DEF Driven, RecoverStep, RecoverClaim, RecoverReview, ReviewNumbered, RecoverOp,
               RecoverDeliver, RecoverKeep, RecoverCertify, RecoverRecord, RecoverFinish, RecoverStops, RecoverCrash, NoRec
    <2>3. hist' = hist \/ (Recovering /\ hist'.bound)
        BY <1>2, StaysBound DEF Driven, Recovering, RecoverStep, RecoverRead, ReadNeeding, vars, RecoverClaim, RecoverReview,
           ReviewNumbered, RecoverOp, RecoverDeliver, RecoverKeep, RecoverCertify, RecoverRecord, RecoverFinish, RecoverStops,
           RecoverCrash
    <2>4. Recovering => run.pc = "none"
        BY DEF Owned
    <2> QED BY <2>1, <2>2, <2>3, <2>4 DEF Driven
<1>3. CASE UNCHANGED allVars
    BY <1>3 DEF allVars, vars, Driven
<1> QED BY <1>1, <1>2, <1>3, StepCases

\* runowner.go, resume.go: whoever holds a run works on a chain that can be read; when
\* recoveries that read too early break it, no process goes on from there.
THEOREM BrokenChainIsNotDriven == Spec => [](run.pc # "none" => ~hist.broken)
<1>1. Driven => (run.pc # "none" => ~hist.broken)
    BY DEF Driven
<1>2. Durable => Ordered(hist)
    BY DEF Durable
<1>3. TypeOK /\ Owned /\ Durable /\ Held /\ FitsWhileRead /\ [Next]_allVars => FitsWhileRead'
    BY <1>2, FitsStep
<1>4. TypeOK /\ Owned /\ Durable /\ Held /\ FitsWhileRead /\ Driven /\ [Next]_allVars => Driven'
    BY <1>2, DrivenStep
<1> QED BY <1>1, <1>2, <1>3, <1>4, Typed, DurableInit, DurableStep, OwnedInit, OwnedStep, HeldInit, HeldStep,
    FitsInit, DrivenInit, PTL DEF Spec

-----------------------------------------------------------------------------
(* What a launch of the agent finds.                                       *)

\* The run's launches are settled: the next may be claimed.
Settled == {"check", "reopen", "resumed", "trim", "bind", "policy", "launch"}
\* The worktree holds the approved state.
OnApproved == Settled \ {"check"}

\* Every launch but the last has an established end, or is acknowledged.
Behind(h) == \A i \in Lost(h) : i = Len(h.launches) \/ h.launches[i].acked

Safe ==
    /\ ~hist.bound => worktree = BaseTree
    /\ Behind(hist)
    /\ run.pc \in Settled => LostCount(hist) < MaxLostLaunches /\ ~LaunchParked(hist)
    /\ run.pc \in OnApproved => worktree = TreeOf(Approvals(hist))

SafeWhileRead == ~hist.broken => Safe

LEMMA SafeInit == OrchestratorInit => SafeWhileRead
BY DEF OrchestratorInit, Init, NoHistory, NoRun, SafeWhileRead, Safe, Behind, Lost, Settled, OnApproved

LEMMA SameLosses ==
    ASSUME NEW h, NEW g, g.launches = h.launches
    PROVE  /\ LostCount(g) = LostCount(h) /\ (LaunchParked(g) <=> LaunchParked(h)) /\ (Behind(g) <=> Behind(h))
           /\ Lost(g) = Lost(h)
BY DEF LostCount, Lost, LaunchParked, Behind

LEMMA NoLaunches ==
    ASSUME NEW h, h.launches = << >>
    PROVE  Lost(h) = {} /\ LostCount(h) < MaxLostLaunches /\ ~LaunchParked(h) /\ Behind(h)
<1>1. Lost(h) = {}
    BY DEF Lost
<1>2. LostCount(h) = 0
    BY <1>1, FS_EmptySet DEF LostCount
<1> QED BY <1>1, <1>2, LaunchAssumption DEF LaunchParked, Behind

\* A launch is claimed after settled ones; its end and its acknowledgement change only it.
LEMMA LaunchesBehind ==
    ASSUME NEW h \in Histories, Behind(h)
    PROVE  /\ ~LaunchClaimed(h).broken /\ ~LaunchParked(h) => Behind(LaunchClaimed(h))
           /\ \A outcome \in Outcomes : ~LaunchEnded(h, outcome).broken => Behind(LaunchEnded(h, outcome))
           /\ ~LaunchAcknowledged(h).broken =>
                 /\ Behind(LaunchAcknowledged(h)) /\ Lost(LaunchAcknowledged(h)) = Lost(h)
                 /\ ~LaunchParked(LaunchAcknowledged(h))
<1>0. h.launches \in Seq(Launch)
    BY DEF Histories
<1> DEFINE n == Len(h.launches)
<1>1. ASSUME ~LaunchClaimed(h).broken, ~LaunchParked(h) PROVE Behind(LaunchClaimed(h))
    <2> DEFINE new == [outcome |-> "open", acked |-> FALSE]
               s == Append(h.launches, new)
    <2>1. LaunchClaimed(h).launches = s
        BY <1>1 DEF LaunchClaimed, Accept, Histories
    <2>2. new \in Launch
        BY DEF Launch, Outcomes
    <2> HIDE DEF new
    <2>3. Len(s) = n + 1 /\ DOMAIN s = 1..(n + 1) /\ (\A i \in 1..n : s[i] = h.launches[i]) /\ n \in Nat
        BY <1>0, <2>2
    <2>4. \A i \in 1..n : h.launches[i].outcome # "known" => h.launches[i].acked
        BY <1>0, <1>1 DEF Behind, Lost, LaunchParked
    <2> HIDE DEF s
    <2>5. \A i \in DOMAIN s : s[i].outcome # "known" => i = Len(s) \/ s[i].acked
        BY <2>3, <2>4
    <2> QED BY <2>1, <2>5 DEF Behind, Lost
<1>2. ASSUME NEW outcome \in Outcomes, ~LaunchEnded(h, outcome).broken PROVE Behind(LaunchEnded(h, outcome))
    <2> DEFINE s == [h.launches EXCEPT ![n].outcome = outcome]
    <2>1. LaunchEnded(h, outcome).launches = s
        BY <1>2 DEF LaunchEnded, Accept, Histories
    <2>2. Len(s) = n /\ DOMAIN s = DOMAIN h.launches /\ \A i \in DOMAIN s : i # n => s[i] = h.launches[i]
        BY <1>0
    <2> HIDE DEF s
    <2> QED BY <2>1, <2>2 DEF Behind, Lost
<1>3. ASSUME ~LaunchAcknowledged(h).broken
      PROVE  /\ Behind(LaunchAcknowledged(h)) /\ Lost(LaunchAcknowledged(h)) = Lost(h)
             /\ ~LaunchParked(LaunchAcknowledged(h))
    <2> DEFINE s == [h.launches EXCEPT ![n].acked = TRUE]
    <2>1. LaunchAcknowledged(h).launches = s /\ h.launches # << >>
        BY <1>3 DEF LaunchAcknowledged, Accept, LaunchParked, Histories
    <2>2. Len(s) = n /\ DOMAIN s = DOMAIN h.launches /\ \A i \in DOMAIN s : i # n => s[i] = h.launches[i]
        BY <1>0
    <2>3. n \in DOMAIN h.launches /\ h.launches[n] \in Launch
        BY <1>0, <2>1
    <2>4. s[n].outcome = h.launches[n].outcome /\ s[n].acked
        BY <2>3 DEF Launch
    <2> HIDE DEF s
    <2>5. Lost(LaunchAcknowledged(h)) = Lost(h)
        BY <2>1, <2>2, <2>4 DEF Lost
    <2> QED BY <2>1, <2>2, <2>4, <2>5 DEF Behind, LaunchParked, Lost
<1> QED BY <1>1, <1>2, <1>3

LEMMA LossesCounted == \A h \in Histories : LostCount(h) \in Nat
<1> TAKE h \in Histories
<1>1. DOMAIN h.launches = 1..Len(h.launches) /\ Len(h.launches) \in Nat
    BY DEF Histories
<1>2. IsFiniteSet(Lost(h))
    <2>1. IsFiniteSet(1..Len(h.launches))
        BY <1>1, FS_Interval
    <2>2. Lost(h) \subseteq 1..Len(h.launches)
        BY <1>1 DEF Lost
    <2> QED BY <2>1, <2>2, FS_Subset
<1> QED BY <1>2, FS_CardinalityType DEF LostCount

\* Where no launch is parked, the last one is settled with the others.
LEMMA LastSettled ==
    ASSUME NEW h, Behind(h), ~LaunchParked(h)
    PROVE  \A i \in Lost(h) : h.launches[i].acked
BY DEF Behind, LaunchParked, Lost

\* Whether they are accepted or not, no other events touch the launches.
LEMMA EventsKeepLaunches ==
    ASSUME NEW h \in Histories
    PROVE  /\ RunBound(h).launches = h.launches
           /\ PolicySnapshot(h).launches = h.launches
           /\ DriftHalt(h).launches = h.launches
           /\ RunResumed(h, TRUE).launches = h.launches
           /\ \A r \in Reqs : YieldRequest(h, r).launches = h.launches
           /\ \A d \in Decision : YieldDecided(h, d).launches = h.launches
           /\ \A event \in Events, c \in Commits : CommitEvent(h, event, c).launches = h.launches
<1>1. RunBound(h).launches = h.launches
    BY DEF RunBound, Histories
<1>2. PolicySnapshot(h).launches = h.launches /\ DriftHalt(h).launches = h.launches
    BY DEF PolicySnapshot, DriftHalt, Accept, Histories
<1>3. RunResumed(h, TRUE).launches = h.launches
    BY DEF RunResumed, Accept, Histories
<1>4. \A r \in Reqs : YieldRequest(h, r).launches = h.launches
    BY DEF YieldRequest, Accept, Histories
<1>5. \A d \in Decision : YieldDecided(h, d).launches = h.launches
    BY DEF YieldDecided, Accept, Histories
<1>6. \A event \in Events, c \in Commits : CommitEvent(h, event, c).launches = h.launches
    BY DEF CommitEvent, Accept, Histories
<1> QED BY <1>1, <1>2, <1>3, <1>4, <1>5, <1>6

\* Only these change the launches.
LEMMA LaunchesKept ==
    ASSUME TypeOK, [Next]_allVars
    PROVE  \/ hist'.launches = hist.launches
           \/ ClaimLaunch \/ (\E o \in Outcomes : EndLaunch(o))
           \/ RecordLostLaunch \/ SettleAcknowledged \/ Acknowledge
<1>0. hist \in Histories /\ run.total + 1 \in Nat /\ run.files \in Trees /\ Want \in Trees
      /\ rec.seen.lastDecided + 1 \in Nat
    BY WantType DEF TypeOK, Runs, Recs, Histories
<1>1. CASE hist' = hist
    BY <1>1
<1>2. CASE Bind \/ ReadPolicy \/ AppendResumed \/ LoopEnds \/ Answer \/ \E r \in Reqs : Propose(r)
    <2>1. hist' = hist \/ hist' \in {RunBound(hist), PolicySnapshot(hist), DriftHalt(hist), RunResumed(hist, TRUE)}
                      \/ \E r \in Reqs : hist' = YieldRequest(hist, r)
        BY <1>2 DEF Bind, ReadPolicy, AppendResumed, LoopEnds, Answer, Propose
    <2>2. hist'.launches = hist.launches
        BY <1>0, <2>1, EventsKeepLaunches
    <2> QED BY <2>2
<1>3. CASE AppendDecision \/ \E approved \in BOOLEAN : FinalReview(approved) \/ RecoverReview(approved)
    <2>1. PICK d \in Decision : hist' = YieldDecided(hist, d)
        BY <1>0, <1>3, AppendIsDecision, ReviewType DEF FinalReview, RecoverReview, ReviewNumbered
    <2> QED BY <1>0, <2>1, EventsKeepLaunches
<1>4. CASE Prepare \/ Certify \/ RecoverCertify \/ RecoverRecord
    <2>1. hist' = hist \/ \E event \in Events, c \in Commits : hist' = CommitEvent(hist, event, c)
        BY <1>0, <1>4, CommitType DEF Prepare, Certify, RecoverCertify, RecoverRecord, TypeOK, Events
    <2>2. hist'.launches = hist.launches
        <3>1. \A event \in Events, c \in Commits : CommitEvent(hist, event, c).launches = hist.launches
            BY <1>0, EventsKeepLaunches
        <3> QED BY <2>1, <3>1
    <2> QED BY <2>2
<1>5. RecoverStep => hist' = hist \/ RecoverCertify \/ RecoverRecord \/ \E approved \in BOOLEAN : RecoverReview(approved)
    BY DEF RecoverStep, RecoverRead, ReadNeeding, vars, RecoverClaim, RecoverOp, RecoverDeliver, RecoverKeep, RecoverFinish,
       RecoverStops, RecoverCrash
<1>6. CASE RunStep
    BY <1>1, <1>2, <1>3, <1>4, <1>6
    DEF RunStep, ProcessStep, ResumeStep, OutsideStep, durable, MarkRunning, WaitEnds, Expire, KeepApproval,
        PassRejection, ConsumeFails, Verify, PrepareNothing, StillGoing, Deliver, FinishRun, Release, SetupFails,
        FinalizeFails, RefuseParked, SettleUnparked, RefuseRecords, CheckWorktree, Reopen, Trim, TrimUpTo, Open,
        Decide, AgentExits, AgentWrites, OverBudget, Deadline, Cancel, Crash, BranchMoved, Claim
<1> QED BY <1>1, <1>3, <1>4, <1>5, <1>6, StepCases DEF allVars, vars

\* Only these change the worktree.
LEMMA WorktreeKept ==
    [Next]_allVars => \/ worktree' = worktree
                      \/ Answer \/ CheckWorktree
                      \/ AgentAlive /\ run' = run /\ hist' = hist
<1>1. RunStep => worktree' = worktree \/ Answer \/ CheckWorktree \/ (AgentAlive /\ run' = run /\ hist' = hist)
    BY DEF RunStep, ProcessStep, ResumeStep, OutsideStep, durable, Bind, ReadPolicy, ClaimLaunch, MarkRunning, WaitEnds,
       Expire, KeepApproval, PassRejection, ConsumeFails, AppendDecision, RecordDecision, LoopEnds, EndLaunch,
       Verify, Prepare, PrepareNothing, StillGoing, Deliver, Certify, FinishRun, Release, SetupFails,
       FinalizeFails, RecordLostLaunch, RefuseParked, SettleAcknowledged, SettleUnparked, RefuseRecords,
       Reopen, AppendResumed, Trim, TrimUpTo, Open, Propose, Decide, FinalReview, AgentExits, AgentWrites,
       OverBudget, Deadline, Cancel, Crash, Acknowledge, BranchMoved, Claim
<1>2. RecoverStep => worktree' = worktree
    BY DEF RecoverStep, RecoverRead, ReadNeeding, vars, RecoverClaim, RecoverReview, ReviewNumbered, RecoverOp,
       RecoverDeliver, RecoverKeep, RecoverCertify, RecoverRecord, RecoverFinish, RecoverStops, RecoverCrash
<1> QED BY <1>1, <1>2, StepCases DEF allVars, vars

\* How a process comes to where its launches are settled, and to the approved worktree.
SettlesFrom ==
    /\ run'.pc \in Settled => run.pc \in Settled \/ SettleAcknowledged \/ SettleUnparked \/ Open
    /\ run'.pc \in OnApproved => run.pc \in OnApproved \/ CheckWorktree \/ Open

LEMMA StepSettles == TypeOK /\ [Next]_allVars => SettlesFrom
<1> SUFFICES ASSUME TypeOK, [Next]_allVars PROVE SettlesFrom
    OBVIOUS
<1>0. run \in Runs
    BY DEF TypeOK
<1> USE DEF SettlesFrom, Settled, OnApproved
<1>1. CASE Bind \/ ReadPolicy \/ ClaimLaunch \/ MarkRunning \/ SetupFails \/ PassRejection \/ \E o \in Outcomes : EndLaunch(o)
    BY <1>0, <1>1 DEF Bind, ReadPolicy, ClaimLaunch, MarkRunning, SetupFails, PassRejection, EndLaunch, Goto, Runs
<1>2. CASE WaitEnds \/ Decide("operator", FALSE) \/ \E s \in RunSources : Decide(s, TRUE)
    BY <1>0, <1>2 DEF WaitEnds, Decide, Rule, Runs
<1>3. CASE Expire \/ KeepApproval \/ ConsumeFails \/ AppendDecision
    BY <1>0, <1>3 DEF Expire, KeepApproval, ConsumeFails, EndAs, AppendDecision, RecordDecision, Runs
<1>4. CASE Answer \/ LoopEnds \/ Verify
    BY <1>0, <1>4 DEF Answer, LoopEnds, Verify, Goto, EndAs, Runs
<1>5. CASE Prepare \/ PrepareNothing \/ StillGoing \/ Deliver \/ Certify \/ FinalizeFails \/ FinishRun
    BY <1>0, <1>5 DEF Prepare, PrepareNothing, StillGoing, Deliver, Certify, FinalizeFails, FinishRun, Goto, EndAs, Runs
<1>6. CASE Release \/ Crash \/ RefuseParked \/ RefuseRecords
    BY <1>6 DEF Release, Crash, RefuseParked, RefuseRecords, Refuse, NoRun
<1>7. CASE RecordLostLaunch \/ Reopen \/ AppendResumed \/ Trim
    BY <1>0, <1>7 DEF RecordLostLaunch, Reopen, AppendResumed, Trim, TrimUpTo, Goto, Runs
<1>8. CASE CheckWorktree
    BY <1>8 DEF CheckWorktree
<1>9. CASE SettleAcknowledged \/ SettleUnparked
    BY <1>0, <1>9 DEF SettleAcknowledged, SettleUnparked, Goto, Runs
<1>10. CASE Open
    BY <1>10
<1>11. CASE (\E r \in Reqs : Propose(r)) \/ (\E ok \in BOOLEAN : AgentExits(ok)) \/ OverBudget
    BY <1>0, <1>11 DEF Propose, AgentExits, OverBudget, EndAs, Runs
<1>12. CASE \E approved \in BOOLEAN : FinalReview(approved)
    BY <1>0, <1>12 DEF FinalReview, Goto, EndAs, Runs
<1>13. CASE Deadline \/ Cancel
    BY <1>0, <1>13 DEF Deadline, Cancel, Runs
<1>14. CASE Claim
    <2>1. run'.pc = "settle"
        BY <1>14 DEF Claim, NoRun
    <2> QED BY <2>1
<1>15. CASE run' = run
    BY <1>15
<1>16. RecoverStep => run' = run
    BY DEF RecoverStep, RecoverRead, ReadNeeding, vars, RecoverClaim, RecoverReview, ReviewNumbered, RecoverOp,
       RecoverDeliver, RecoverKeep, RecoverCertify, RecoverRecord, RecoverFinish, RecoverStops, RecoverCrash
<1> HIDE DEF SettlesFrom, Settled, OnApproved
<1>17. ProcessStep => SettlesFrom
    BY <1>1, <1>2, <1>3, <1>4, <1>5, <1>6 DEF ProcessStep
<1>18. ResumeStep => SettlesFrom
    BY <1>6, <1>7, <1>8, <1>9 DEF ResumeStep
<1>19. OutsideStep \/ Claim => SettlesFrom
    BY <1>2, <1>6, <1>10, <1>11, <1>12, <1>13, <1>14, <1>15 DEF OutsideStep, AgentWrites, Acknowledge, BranchMoved
<1> QED BY <1>15, <1>16, <1>17, <1>18, <1>19, StepCases DEF RunStep, allVars, vars

\* A launch is added by a claim only.
LEMMA Lengthened == TypeOK /\ [Next]_allVars /\ Launches => ClaimLaunch
<1> SUFFICES ASSUME TypeOK, [Next]_allVars, ~ClaimLaunch PROVE Len(hist'.launches) <= Len(hist.launches)
    <2> SUFFICES ASSUME TypeOK, Len(hist'.launches) <= Len(hist.launches), hist' \in Histories PROVE ~Launches
        BY StepTyped DEF TypeOK
    <2>1. Len(hist'.launches) \in Nat /\ Len(hist.launches) \in Nat
        BY DEF TypeOK, Histories
    <2> QED BY <2>1 DEF Launches
<1>0. hist \in Histories
    BY DEF TypeOK
<1>1. ASSUME NEW h \in Histories
      PROVE  /\ \A outcome \in Outcomes : LaunchEnded(h, outcome).launches \in Seq(Launch)
             /\ \A outcome \in Outcomes : Len(LaunchEnded(h, outcome).launches) = Len(h.launches)
             /\ Len(LaunchAcknowledged(h).launches) = Len(h.launches)
    <2>1. h.launches \in Seq(Launch)
        BY DEF Histories
    <2>2. /\ \A outcome \in Outcomes : Len([h.launches EXCEPT ![Len(h.launches)].outcome = outcome]) = Len(h.launches)
          /\ Len([h.launches EXCEPT ![Len(h.launches)].acked = TRUE]) = Len(h.launches)
        BY <2>1
    <2>3. \A outcome \in Outcomes : LaunchEnded(h, outcome) \in Histories
        BY LaunchTypes
    <2> QED BY <2>2, <2>3 DEF LaunchEnded, LaunchAcknowledged, Accept, Histories
<1>2. Len(hist.launches) \in Nat
    BY <1>0 DEF Histories
<1>3. CASE hist'.launches = hist.launches
    BY <1>2, <1>3
<1>4. CASE RecordLostLaunch \/ SettleAcknowledged \/ \E o \in Outcomes : EndLaunch(o)
    <2>1. hist' = hist \/ hist' = LaunchAcknowledged(hist) \/ \E o \in Outcomes : hist' = LaunchEnded(hist, o)
        BY <1>4 DEF RecordLostLaunch, SettleAcknowledged, EndLaunch, Outcomes
    <2> QED BY <1>0, <1>1, <1>2, <2>1
<1>5. CASE Acknowledge
    <2> DEFINE ended == IF OpenLaunch(hist) THEN LaunchEnded(hist, "lost") ELSE hist
    <2>1. hist' \in {ended, LaunchAcknowledged(ended)}
        BY <1>5 DEF Acknowledge
    <2>2. ended \in Histories /\ Len(ended.launches) = Len(hist.launches)
        BY <1>0, <1>1, LaunchTypes DEF Outcomes
    <2> HIDE DEF ended
    <2> QED BY <1>1, <1>2, <2>1, <2>2
<1> QED BY <1>3, <1>4, <1>5, LaunchesKept

LEMMA SafeStep ==
    ASSUME TypeOK, Owned, Held, FitsWhileRead, SafeWhileRead, [Next]_allVars
    PROVE  SafeWhileRead'
<1> SUFFICES ASSUME ~hist'.broken PROVE Safe'
    BY DEF SafeWhileRead
<1>0. hist \in Histories /\ hist' \in Histories /\ run \in Runs
    BY StepTyped DEF TypeOK
<1>1. Fits /\ Safe
    BY HistoryGrows DEF SafeWhileRead, FitsWhileRead, Grows, Continues
<1>2. SettlesFrom /\ (hist.bound => hist'.bound)
    BY StepSettles, StaysBound
<1>3. hist.launches # << >> => hist.bound
    BY <1>1 DEF Fits
<1>4. Open => /\ hist' = hist /\ worktree' = worktree /\ worktree = TreeOf(Approvals(hist))
              /\ LostCount(hist) < MaxLostLaunches /\ ~LaunchParked(hist)
    BY <1>1, <1>3, NoLaunches, NothingApplied DEF Open, Held, Safe, Approvals
<1>5. AgentAlive => hist.bound /\ run.pc \notin Settled
    BY <1>1, <1>3 DEF AgentAlive, LaunchParked, Safe
<1>6. Answer => hist.bound /\ run'.pc \notin Settled
    BY <1>0 DEF Answer, Held, Bounded, Settled, Runs
<1>7. CheckWorktree => hist.bound /\ hist' = hist /\ (run'.pc \in OnApproved => worktree' = TreeOf(Approvals(hist)))
    BY DEF CheckWorktree, Held, Bounded, Refuse, NoRun, OnApproved, Settled, Approved
<1>8. ~hist'.bound => worktree' = BaseTree
    BY <1>1, <1>2, <1>5, <1>6, <1>7, WorktreeKept DEF Safe
<1>9. run'.pc \in OnApproved => worktree' = TreeOf(Approvals(hist'))
    <2> SUFFICES ASSUME run'.pc \in OnApproved PROVE worktree' = TreeOf(Approvals(hist'))
        OBVIOUS
    <2>1. Approvals(hist') = Approvals(hist)
        <3>1. ~AppendDecision
            BY <1>0 DEF AppendDecision, RecordDecision, OnApproved, Settled, Runs
        <3> QED BY <3>1, ChainKeeps
    <2>2. CASE run.pc \in OnApproved
        BY <1>1, <1>5, <1>6, <1>7, <2>1, <2>2, WorktreeKept DEF Safe, OnApproved
    <2> QED BY <1>2, <1>4, <1>7, <2>1, <2>2 DEF SettlesFrom
<1>10. CASE hist'.launches = hist.launches
    <2>1. Behind(hist')
        BY <1>1, <1>10, SameLosses DEF Safe
    <2>2. run'.pc \in Settled => LostCount(hist') < MaxLostLaunches /\ ~LaunchParked(hist')
        <3>1. LostCount(hist') = LostCount(hist) /\ (LaunchParked(hist') <=> LaunchParked(hist))
            BY <1>10, SameLosses
        <3>2. SettleUnparked => LostCount(hist) < MaxLostLaunches /\ ~LaunchParked(hist)
            <4>1. LostCount(hist) >= MaxLostLaunches \/ LostCount(hist) < MaxLostLaunches
                <5>1. LostCount(hist) \in Nat
                    BY <1>0, LossesCounted
                <5> QED BY <5>1, LaunchAssumption
            <4> QED BY <4>1 DEF SettleUnparked, Parked
        <3>3. SettleAcknowledged => LostCount(hist) < MaxLostLaunches /\ ~LaunchParked(hist')
            BY <1>0, <1>1, LaunchesBehind DEF SettleAcknowledged, Safe
        <3> QED BY <1>1, <1>2, <1>4, <3>1, <3>2, <3>3 DEF Safe, SettlesFrom
    <2> QED BY <1>8, <1>9, <2>1, <2>2 DEF Safe
<1>11. CASE ClaimLaunch
    <2>1. run'.pc = "mark" /\ run.pc = "launch" /\ hist' = LaunchClaimed(hist)
        BY <1>0, <1>11 DEF ClaimLaunch, Goto, Runs
    <2>2. Behind(hist')
        BY <1>0, <1>1, <2>1, LaunchesBehind DEF Safe, Settled
    <2> QED BY <1>8, <1>9, <2>1, <2>2 DEF Safe, Settled
<1>12. CASE \E o \in Outcomes : EndLaunch(o)
    <2>1. run'.pc \notin Settled
        BY <1>0, <1>12 DEF EndLaunch, Goto, Runs, Settled
    <2>2. Behind(hist')
        BY <1>0, <1>1, <1>12, LaunchesBehind DEF EndLaunch, Safe
    <2> QED BY <1>8, <1>9, <2>1, <2>2 DEF Safe
<1>13. CASE RecordLostLaunch
    <2>1. run'.pc \notin Settled
        BY <1>13 DEF RecordLostLaunch, Settled
    <2>2. Behind(hist')
        BY <1>0, <1>1, <1>13, LaunchesBehind DEF RecordLostLaunch, Safe, Outcomes
    <2> QED BY <1>8, <1>9, <2>1, <2>2 DEF Safe
<1>14. CASE SettleAcknowledged
    <2>1. hist' = LaunchAcknowledged(hist) /\ LostCount(hist) < MaxLostLaunches
        BY <1>14 DEF SettleAcknowledged
    <2>2. Behind(hist') /\ Lost(hist') = Lost(hist) /\ ~LaunchParked(hist')
        BY <1>0, <1>1, <2>1, LaunchesBehind DEF Safe
    <2> QED BY <1>8, <1>9, <2>1, <2>2 DEF Safe, LostCount
<1>15. CASE Acknowledge
    <2>1. run'.pc \notin Settled
        BY <1>15 DEF Acknowledge, Owned, Settled
    <2> DEFINE ended == IF OpenLaunch(hist) THEN LaunchEnded(hist, "lost") ELSE hist
    <2>2. hist' \in {ended, LaunchAcknowledged(ended)}
        BY <1>15 DEF Acknowledge
    <2>3. ended \in Histories
        BY <1>0, LaunchTypes DEF Outcomes
    <2>4. ~ended.broken
        <3> HIDE DEF ended
        <3>1. ended.broken => LaunchAcknowledged(ended).broken
            BY <2>3 DEF LaunchAcknowledged, Accept, Histories
        <3> QED BY <2>2, <3>1
    <2>5. Behind(ended)
        BY <1>0, <1>1, <2>4, LaunchesBehind DEF Safe, Outcomes
    <2> HIDE DEF ended
    <2>6. Behind(hist')
        BY <2>2, <2>3, <2>5, LaunchesBehind
    <2> QED BY <1>8, <1>9, <2>1, <2>6 DEF Safe
<1> QED BY <1>10, <1>11, <1>12, <1>13, <1>14, <1>15, LaunchesKept

\* launch.go, resume.go, acknowledge.go: whatever crashed before and whoever else worked on
\* the run, an agent is launched only where fewer than the limit were lost, each of those
\* is acknowledged by a person, and its worktree holds exactly what was approved.
THEOREM LaunchesAreSafe == Spec => LaunchedSafely
<1> DEFINE Sound == Launches => /\ LostCount(hist) < MaxLostLaunches
                                /\ \A i \in Lost(hist) : hist.launches[i].acked
                                /\ worktree = TreeOf(Approvals(hist))
<1>1. ASSUME TypeOK, Owned, Held, Driven, SafeWhileRead, [Next]_allVars PROVE Sound
    <2> SUFFICES ASSUME Launches PROVE Sound
        OBVIOUS
    <2>1. run.pc = "launch" /\ ~hist.broken
        BY <1>1, Lengthened DEF ClaimLaunch, Driven
    <2>2. Safe
        BY <1>1, <2>1 DEF SafeWhileRead
    <2>3. \A i \in Lost(hist) : hist.launches[i].acked
        BY <2>1, <2>2, LastSettled DEF Safe, Settled
    <2> QED BY <2>1, <2>2, <2>3 DEF Safe, Settled, OnApproved
<1>2. Durable => Ordered(hist)
    BY DEF Durable
<1>3. TypeOK /\ Owned /\ Durable /\ Held /\ FitsWhileRead /\ [Next]_allVars => FitsWhileRead'
    BY <1>2, FitsStep
<1>4. TypeOK /\ Owned /\ Durable /\ Held /\ FitsWhileRead /\ SafeWhileRead /\ [Next]_allVars => SafeWhileRead'
    BY SafeStep
<1>5. TypeOK /\ Owned /\ Durable /\ Held /\ FitsWhileRead /\ Driven /\ [Next]_allVars => Driven'
    BY <1>2, DrivenStep
<1>6. TypeOK /\ Owned /\ Held /\ Driven /\ SafeWhileRead /\ [Next]_allVars => [Sound]_allVars
    BY <1>1
<1> QED BY <1>2, <1>3, <1>4, <1>5, <1>6, Typed, DurableInit, DurableStep, OwnedInit, OwnedStep, HeldInit, HeldStep,
    FitsInit, DrivenInit, SafeInit, PTL DEF Spec, LaunchedSafely
=============================================================================
