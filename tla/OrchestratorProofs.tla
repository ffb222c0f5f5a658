------------------------- MODULE OrchestratorProofs -------------------------
(***************************************************************************)
(* Theorems about Orchestrator.tla, for every number of requests, files,   *)
(* proposals, segments and crashes.                                        *)
(***************************************************************************)
EXTENDS Orchestrator, SequenceTheorems, TLAPS

-----------------------------------------------------------------------------
(* The operators of History keep its types.                                *)

LEMMA ApprovalsType ==
    ASSUME NEW h \in Histories
    PROVE  /\ Approvals(h) \subseteq Decision
           /\ \A d \in Approvals(h) : d.req \in Reqs
BY DEF Approvals, Histories, Decision

\* Applying approvals to the base gives a tree, whatever the approvals.
LEMMA TreeOfType ==
    ASSUME NEW A, \A d \in A : d.req \in Reqs
    PROVE  TreeOf(A) \in Trees
<1> SUFFICES ASSUME NEW f \in Paths PROVE ContentOf(A, f) \in Reqs \cup {Base}
    BY DEF TreeOf, Trees
<1> DEFINE of == {d \in A : PathOf[d.req] = f}
           last == {d \in of : \A e \in of : e.seq <= d.seq}
<1>1. CASE last = {}
    BY <1>1 DEF ContentOf
<1>2. CASE last # {}
    <2>1. (CHOOSE d \in last : TRUE) \in A
        BY <1>2
    <2>2. ContentOf(A, f) = (CHOOSE d \in last : TRUE).req
        BY <1>2 DEF ContentOf
    <2> QED BY <2>1, <2>2
<1> QED BY <1>1, <1>2

LEMMA BaseTreeType == BaseTree \in Trees
BY DEF BaseTree, Trees

LEMMA ApprovedType ==
    ASSUME NEW h \in Histories
    PROVE  TreeOf(Approvals(h)) \in Trees
BY ApprovalsType, TreeOfType

\* Every event gives a history.
LEMMA EventTypes ==
    ASSUME NEW h \in Histories
    PROVE  /\ RunBound(h) \in Histories
           /\ PolicySnapshot(h) \in Histories
           /\ DriftHalt(h) \in Histories
           /\ \A ack \in BOOLEAN : RunResumed(h, ack) \in Histories
           /\ \A r \in Reqs : YieldRequest(h, r) \in Histories
           /\ \A d \in Decision : YieldDecided(h, d) \in Histories
           /\ \A event \in Events, c \in Commits : CommitEvent(h, event, c) \in Histories
<1>1. RunBound(h) \in Histories
    BY DEF RunBound, Histories
<1>2. PolicySnapshot(h) \in Histories
    BY DEF PolicySnapshot, Accept, Histories
<1>3. DriftHalt(h) \in Histories
    BY DEF DriftHalt, Accept, Histories
<1>4. ASSUME NEW ack \in BOOLEAN PROVE RunResumed(h, ack) \in Histories
    <2> DEFINE next == [h EXCEPT !.segment = @ + 1, !.pending = None]
    <2>1. next \in Histories
        <3>1. h.segment + 1 \in Nat
            BY DEF Histories
        <3>2. ASSUME NEW n \in Nat PROVE [h EXCEPT !.segment = n, !.pending = None] \in Histories
            BY DEF Histories
        <3> QED BY <3>1, <3>2
    <2>4. ASSUME NEW g \in Histories PROVE [g EXCEPT !.halted = FALSE] \in Histories
        BY DEF Histories
    <2>2. [h EXCEPT !.broken = TRUE] \in Histories
        BY DEF Histories
    <2>3. RunResumed(h, ack) \in {next, [next EXCEPT !.halted = FALSE], [h EXCEPT !.broken = TRUE]}
        BY DEF RunResumed, Accept
    <2> QED BY <2>1, <2>2, <2>3, <2>4
<1>5. ASSUME NEW r \in Reqs PROVE YieldRequest(h, r) \in Histories
    BY DEF YieldRequest, Accept, Histories
<1>6. ASSUME NEW d \in Decision PROVE YieldDecided(h, d) \in Histories
    BY DEF YieldDecided, Accept, Histories, Decision
<1>7. ASSUME NEW event \in Events, NEW c \in Commits PROVE CommitEvent(h, event, c) \in Histories
    <2>1. (h.delivered \cup {[event |-> event, commit |-> c]}) \in SUBSET [event : Events, commit : Commits]
        BY DEF Histories
    <2>2. ASSUME NEW s \in SUBSET [event : Events, commit : Commits]
          PROVE  [h EXCEPT !.delivered = s] \in Histories
        BY DEF Histories
    <2>3. [h EXCEPT !.broken = TRUE] \in Histories
        BY DEF Histories
    <2> QED BY <2>1, <2>2, <2>3 DEF CommitEvent, Accept
<1> QED BY <1>1, <1>2, <1>3, <1>4, <1>5, <1>6, <1>7

LEMMA LastLaunchChanged ==
    ASSUME NEW s \in Seq(Launch), s # << >>
    PROVE  /\ \A outcome \in Outcomes : [s EXCEPT ![Len(s)].outcome = outcome] \in Seq(Launch)
           /\ [s EXCEPT ![Len(s)].acked = TRUE] \in Seq(Launch)
<1> DEFINE n == Len(s)
<1>1. n \in 1..Len(s) /\ s[n] \in Launch
    OBVIOUS
<1>2. ASSUME NEW outcome \in Outcomes PROVE [s EXCEPT ![n].outcome = outcome] \in Seq(Launch)
    <2>1. [s[n] EXCEPT !.outcome = outcome] \in Launch
        BY <1>1 DEF Launch
    <2>2. [s EXCEPT ![n] = [s[n] EXCEPT !.outcome = outcome]] \in Seq(Launch)
        BY <1>1, <2>1, ExceptSeq
    <2> QED BY <2>2
<1>3. [s EXCEPT ![n].acked = TRUE] \in Seq(Launch)
    <2>1. [s[n] EXCEPT !.acked = TRUE] \in Launch
        BY <1>1 DEF Launch
    <2>2. [s EXCEPT ![n] = [s[n] EXCEPT !.acked = TRUE]] \in Seq(Launch)
        BY <1>1, <2>1, ExceptSeq
    <2> QED BY <2>2
<1> QED BY <1>2, <1>3

LEMMA LaunchTypes ==
    ASSUME NEW h \in Histories
    PROVE  /\ LaunchClaimed(h) \in Histories
           /\ \A outcome \in Outcomes : LaunchEnded(h, outcome) \in Histories
           /\ LaunchAcknowledged(h) \in Histories
<1>0. h.launches \in Seq(Launch)
    BY DEF Histories
<1>1. LaunchClaimed(h) \in Histories
    <2>1. Append(h.launches, [outcome |-> "open", acked |-> FALSE]) \in Seq(Launch)
        BY <1>0 DEF Launch, Outcomes
    <2> QED BY <2>1 DEF LaunchClaimed, Accept, Histories
<1>2. ASSUME NEW l \in Seq(Launch) PROVE [h EXCEPT !.launches = l] \in Histories
    BY <1>2 DEF Histories
<1>3. [h EXCEPT !.broken = TRUE] \in Histories
    BY DEF Histories
<1>4. ASSUME NEW outcome \in Outcomes PROVE LaunchEnded(h, outcome) \in Histories
    <2>1. CASE h.launches = << >>
        BY <2>1, <1>3 DEF LaunchEnded, Accept, OpenLaunch
    <2>2. CASE h.launches # << >>
        <3>1. [h.launches EXCEPT ![Len(h.launches)].outcome = outcome] \in Seq(Launch)
            BY <1>0, <2>2, LastLaunchChanged
        <3> QED BY <3>1, <1>2, <1>3 DEF LaunchEnded, Accept
    <2> QED BY <2>1, <2>2
<1>5. LaunchAcknowledged(h) \in Histories
    <2>1. CASE h.launches = << >>
        BY <2>1, <1>3 DEF LaunchAcknowledged, Accept, LaunchParked
    <2>2. CASE h.launches # << >>
        <3>1. [h.launches EXCEPT ![Len(h.launches)].acked = TRUE] \in Seq(Launch)
            BY <1>0, <2>2, LastLaunchChanged
        <3> QED BY <3>1, <1>2, <1>3 DEF LaunchAcknowledged, Accept
    <2> QED BY <2>1, <2>2
<1> QED BY <1>1, <1>4, <1>5

-----------------------------------------------------------------------------
(* Type correctness.                                                       *)

LEMMA InitTyped == OrchestratorInit => TypeOK
<1> SUFFICES ASSUME OrchestratorInit PROVE TypeOK
    OBVIOUS
<1>1. BaseCommit \in Commits /\ NoCommit \in AnyCommit
    BY BaseTreeType DEF BaseCommit, NoCommit, AnyCommit, Commits
<1>2. NoHistory \in Histories
    BY DEF NoHistory, Histories
<1>3. run \in Runs /\ run.pc = "none"
    BY <1>1, BaseTreeType DEF OrchestratorInit, Init, NoRun, Runs, PCs, NoRuling, Rulings, Sources
<1>4. rec \in Recs /\ rec.pc = "none"
    BY <1>1, <1>2 DEF OrchestratorInit, NoRec, Recs, Statuses
<1>5. op \in Ops
    BY <1>1, BaseTreeType DEF OrchestratorInit, Init, NoOp, Ops
<1> QED
    BY <1>1, <1>2, <1>3, <1>4, <1>5, BaseTreeType
    DEF OrchestratorInit, Init, TypeOK, Rows, Statuses, Journals, Lines

\* What the process's memory becomes when only where it stands changes, or also how
\* the run is to end.
LEMMA GotoTyped ==
    ASSUME NEW r \in Runs, NEW pc \in PCs, NEW status \in {"SUCCESS", "FAILED", "KILLED"}
    PROVE  /\ [r EXCEPT !.pc = pc] \in Runs /\ [r EXCEPT !.pc = pc].pc = pc
           /\ [r EXCEPT !.ending = status, !.pc = pc] \in Runs
           /\ [r EXCEPT !.ending = status, !.pc = pc].pc = pc
           /\ [r EXCEPT !.pc = pc].ruling = r.ruling
BY DEF Runs

LEMMA NoRunTyped == NoRun \in Runs /\ NoRun.pc = "none"
BY BaseTreeType DEF NoRun, Runs, PCs, NoRuling, Rulings, Sources, NoCommit, AnyCommit

\* Where the decision loop holds a proposal.
Holding == {"decide", "ruled", "append", "answer"}
RunTyped ==
    /\ run \in Runs
    /\ run.pc \in Holding => run.ruling.req \in Reqs
    /\ run.pc = "certify" => run.commit \in Commits

LEMMA Elsewhere ==
    ASSUME TypeOK, NEW pc \in PCs \ (Holding \cup {"certify"}), NEW status \in {"SUCCESS", "FAILED", "KILLED"},
           Goto(pc) \/ EndAs(status, pc) \/ run' = NoRun
    PROVE  RunTyped'
<1>1. CASE Goto(pc)
    BY <1>1, GotoTyped DEF Goto, RunTyped, TypeOK, Holding
<1>2. CASE EndAs(status, pc)
    <2>1. run \in Runs
        BY DEF TypeOK
    <2>2. run' = [run EXCEPT !.ending = status, !.pc = pc]
        BY <1>2 DEF EndAs
    <2>3. run' \in Runs /\ run'.pc = pc
        BY <2>1, <2>2 DEF Runs
    <2> QED BY <2>3 DEF RunTyped
<1>3. CASE run' = NoRun
    BY <1>3, NoRunTyped DEF RunTyped, Holding
<1> QED BY <1>1, <1>2, <1>3

LEMMA RunTypedSame == TypeOK /\ UNCHANGED run => RunTyped'
BY DEF TypeOK, RunTyped, Holding

\* The steps of the segment's start and of the agent's launch.
LEMMA StartTyped ==
    TypeOK /\ UNCHANGED rec /\
    (Open \/ Bind \/ ReadPolicy \/ SetupFails \/ ClaimLaunch \/ MarkRunning) => TypeOK'
<1> SUFFICES ASSUME TypeOK, UNCHANGED rec,
                    Open \/ Bind \/ ReadPolicy \/ SetupFails \/ ClaimLaunch \/ MarkRunning
             PROVE  TypeOK'
    OBVIOUS
<1>1. CASE Open
    <2>1. RunTyped'
        BY <1>1, Elsewhere DEF Open, PCs, Holding
    <2>2. db' \in Rows
        BY <1>1 DEF Open, TypeOK, Rows, Statuses
    <2> QED BY <1>1, <2>1, <2>2 DEF Open, TypeOK, RunTyped, Holding
<1>2. CASE Bind
    <2>1. RunTyped'
        BY <1>2, Elsewhere DEF Bind, PCs, Holding
    <2> QED BY <1>2, <2>1, EventTypes DEF Bind, TypeOK, RunTyped, Holding
<1>3. CASE ReadPolicy
    <2>1. RunTyped'
        BY <1>3, Elsewhere DEF ReadPolicy, PCs, Holding
    <2> QED BY <1>3, <2>1, EventTypes DEF ReadPolicy, TypeOK, RunTyped, Holding
<1>4. CASE SetupFails
    <2>1. RunTyped'
        BY <1>4, Elsewhere DEF SetupFails, PCs, Holding
    <2> QED BY <1>4, <2>1 DEF SetupFails, durable, TypeOK, RunTyped, Holding
<1>5. CASE ClaimLaunch
    <2>1. RunTyped'
        BY <1>5, Elsewhere DEF ClaimLaunch, PCs, Holding
    <2> QED BY <1>5, <2>1, LaunchTypes DEF ClaimLaunch, TypeOK, RunTyped, Holding
<1>6. CASE MarkRunning
    <2>1. RunTyped'
        BY <1>6, Elsewhere DEF MarkRunning, PCs, Holding
    <2> QED BY <1>6, <2>1 DEF MarkRunning, durable, TypeOK, RunTyped, Holding
<1> QED BY <1>1, <1>2, <1>3, <1>4, <1>5, <1>6

\* A proposal in the loop's hands, and its decision.
LEMMA RulingTyped ==
    ASSUME NEW u \in Rulings, NEW source \in Sources, NEW approved \in BOOLEAN
    PROVE  /\ [u EXCEPT !.source = source] \in Rulings
           /\ [u EXCEPT !.approved = approved] \in Rulings
           /\ [u EXCEPT !.journaled = approved] \in Rulings
           /\ [u EXCEPT !.source = source].req = u.req
           /\ [u EXCEPT !.approved = approved].req = u.req
           /\ [u EXCEPT !.journaled = approved].req = u.req
BY DEF Rulings

LEMMA ProposeTyped == \A r \in Reqs : TypeOK /\ UNCHANGED rec /\ Propose(r) => TypeOK'
<1> SUFFICES ASSUME NEW r \in Reqs, TypeOK, UNCHANGED rec, Propose(r) PROVE TypeOK'
    OBVIOUS
<1> DEFINE u == [NoRuling EXCEPT !.req = r]
<1>1. u \in Rulings /\ u.req = r
    BY DEF NoRuling, Rulings, Sources
<1>2. run.total + 1 \in Nat /\ run \in Runs
    BY DEF TypeOK, Runs
<1>3. \A n \in Nat, v \in Rulings : /\ [run EXCEPT !.pc = "decide", !.total = n, !.ruling = v] \in Runs
                                    /\ [run EXCEPT !.pc = "decide", !.total = n, !.ruling = v].ruling = v
    BY <1>2 DEF Runs, PCs
<1>4. run' = [run EXCEPT !.pc = "decide", !.total = run.total + 1, !.ruling = u]
    BY DEF Propose
<1> HIDE DEF u
<1>5. run' \in Runs /\ run'.ruling.req \in Reqs
    BY <1>1, <1>2, <1>3, <1>4
<1>6. hist' \in Histories
    BY EventTypes DEF Propose, TypeOK
<1> QED BY <1>5, <1>6 DEF Propose, TypeOK

LEMMA RuleTyped ==
    ASSUME TypeOK, NEW source \in Sources, NEW approved \in BOOLEAN,
           run.pc = "decide", Rule(source, approved)
    PROVE  RunTyped'
<1>1. PICK task \in BOOLEAN : task = (run.task \/ (approved /\ source = "task"))
    OBVIOUS
<1>2. run' = [run EXCEPT !.pc = "ruled", !.task = task,
                         !.ruling.source = source, !.ruling.approved = approved]
    BY <1>1 DEF Rule
<1>3. run \in Runs /\ run.ruling \in Rulings /\ run.ruling.req \in Reqs
    BY DEF TypeOK, Runs
<1> DEFINE u == [[run.ruling EXCEPT !.source = source] EXCEPT !.approved = approved]
<1>4. u \in Rulings /\ u.req \in Reqs
    BY <1>3, RulingTyped
<1>5. run' = [run EXCEPT !.pc = "ruled", !.task = task, !.ruling = u]
    BY <1>2, <1>3 DEF Runs
<1> HIDE DEF u
<1>6. run' \in Runs /\ run'.ruling = u /\ run'.pc # "certify"
    BY <1>3, <1>4, <1>5 DEF Runs, PCs
<1> QED BY <1>4, <1>6 DEF RunTyped

LEMMA DecideTyped ==
    TypeOK /\ UNCHANGED rec /\
    ((\E s \in RunSources : Decide(s, TRUE)) \/ Decide("operator", FALSE) \/ WaitEnds) => TypeOK'
<1> SUFFICES ASSUME TypeOK, UNCHANGED rec,
                    (\E s \in RunSources : Decide(s, TRUE)) \/ Decide("operator", FALSE) \/ WaitEnds
             PROVE  TypeOK'
    OBVIOUS
<1>1. RunTyped'
    <2>1. CASE \E s \in RunSources : Decide(s, TRUE)
        BY <2>1, RuleTyped, SourcesAssumption DEF Decide, Sources
    <2>2. CASE Decide("operator", FALSE) \/ WaitEnds
        BY <2>2, RuleTyped DEF Decide, WaitEnds, Sources
    <2> QED BY <2>1, <2>2
<1> QED BY <1>1 DEF Decide, WaitEnds, durable, TypeOK, RunTyped, Holding

\* The approval's journal line, and the steps that only pass a decision on.
LEMMA KeptType ==
    ASSUME TypeOK, run.pc = "ruled"
    PROVE  /\ Kept \in Journals
           /\ \A t \in BOOLEAN : [lines |-> journal.lines, torn |-> t] \in Journals
BY DEF TypeOK, Kept, Line, Lines, Journals, Runs

LEMMA RuledTyped ==
    TypeOK /\ UNCHANGED rec /\ (Expire \/ KeepApproval \/ PassRejection \/ ConsumeFails) => TypeOK'
<1> SUFFICES ASSUME TypeOK, UNCHANGED rec, Expire \/ KeepApproval \/ PassRejection \/ ConsumeFails
             PROVE  TypeOK'
    OBVIOUS
<1>0. run \in Runs /\ run.ruling \in Rulings
    BY DEF TypeOK, Runs
<1>1. CASE Expire
    <2> DEFINE u == [[run.ruling EXCEPT !.approved = FALSE] EXCEPT !.source = "orchestrator"]
    <2>1. run' = [run EXCEPT !.pc = "append", !.ruling = u]
        BY <1>1, <1>0 DEF Expire, Runs
    <2>2. u \in Rulings /\ u.req = run.ruling.req /\ u.req \in Reqs
        BY <1>0, <1>1, RulingTyped DEF Sources, TypeOK, Expire
    <2> HIDE DEF u
    <2>3. run' \in Runs /\ run'.ruling = u /\ run'.pc # "certify"
        BY <1>0, <2>1, <2>2 DEF Runs, PCs
    <2>4. RunTyped'
        BY <2>2, <2>3 DEF RunTyped
    <2> QED BY <1>1, <2>4 DEF Expire, durable, TypeOK, RunTyped, Holding
<1>2. CASE KeepApproval
    <2> DEFINE u == [run.ruling EXCEPT !.journaled = TRUE]
    <2>1. run' = [run EXCEPT !.pc = "append", !.ruling = u]
        BY <1>2, <1>0 DEF KeepApproval, Runs
    <2>2. u \in Rulings /\ u.req \in Reqs
        BY <1>0, <1>2 DEF Rulings, TypeOK, KeepApproval
    <2> HIDE DEF u
    <2>3. run' \in Runs /\ run'.ruling = u /\ run'.pc # "certify"
        BY <1>0, <2>1, <2>2 DEF Runs, PCs
    <2>4. RunTyped'
        BY <2>2, <2>3 DEF RunTyped
    <2>5. journal' \in Journals
        BY <1>2, KeptType DEF KeepApproval
    <2> QED BY <1>2, <2>4, <2>5 DEF KeepApproval, TypeOK, RunTyped, Holding
<1>3. CASE PassRejection
    <2>1. run' = [run EXCEPT !.pc = "append"] /\ run.ruling.req \in Reqs
        BY <1>3 DEF PassRejection, Goto, TypeOK
    <2>2. RunTyped'
        BY <1>0, <2>1 DEF Runs, PCs, RunTyped
    <2> QED BY <1>3, <2>2 DEF PassRejection, durable, TypeOK, RunTyped, Holding
<1>4. CASE ConsumeFails
    <2>1. RunTyped'
        BY <1>4, Elsewhere DEF ConsumeFails, PCs, Holding
    <2>2. journal' \in Journals
        <3>1. CASE run.pc = "ruled" /\ journal' \in {Kept} \cup [lines : {journal.lines}, torn : BOOLEAN]
            BY <3>1, KeptType
        <3>2. CASE UNCHANGED journal
            BY <3>2 DEF TypeOK
        <3> QED BY <1>4, <3>1, <3>2 DEF ConsumeFails
    <2> QED BY <1>4, <2>1, <2>2 DEF ConsumeFails, TypeOK, RunTyped, Holding
<1> QED BY <1>1, <1>2, <1>3, <1>4

\* What consume puts on the chain is a decision, about the proposal in the loop's hands.
LEMMA AppendIsDecision ==
    ASSUME TypeOK, AppendDecision
    PROVE  \E good \in BOOLEAN, d \in Decision :
              /\ hist' = YieldDecided(hist, d)
              /\ d.seq = run.total /\ d.req = run.ruling.req /\ d.kind = "file_edit" /\ d.approved = good
              /\ run' = [run EXCEPT !.pc = "answer", !.ruling.approved = good]
              /\ good => run.ruling.approved /\ run.live = "live" /\ d.source = run.ruling.source
              /\ run.ruling.journaled /\ ~good => d.unconsumed
<1>0. run \in Runs /\ run.ruling \in Rulings /\ run.ruling.req \in Reqs /\ run.total \in Nat
    BY DEF AppendDecision, RecordDecision, TypeOK, Runs
<1>1. PICK good \in BOOLEAN, lost \in BOOLEAN :
         /\ RecordDecision(good, lost)
         /\ good => run.ruling.approved /\ run.live = "live"
         /\ run.ruling.journaled /\ ~good => lost
    <2>1. /\ (run.ruling.approved /\ run.live = "live") \in BOOLEAN
          /\ (run.ruling.journaled /\ ~(run.ruling.approved /\ run.live = "live")) \in BOOLEAN
        OBVIOUS
    <2> QED BY <2>1 DEF AppendDecision
<1>2. PICK source \in Sources :
         /\ hist' = YieldDecided(hist,
                [seq |-> run.total, kind |-> "file_edit", req |-> run.ruling.req, source |-> source,
                 approved |-> good, unconsumed |-> lost, tree |-> BaseTree])
         /\ good => source = run.ruling.source
    <2>1. run.ruling.source \in Sources /\ "orchestrator" \in Sources /\ run.ruling.approved \in BOOLEAN
        BY <1>0 DEF Rulings, Sources
    <2>2. CASE good = run.ruling.approved
        BY <1>1, <2>1, <2>2 DEF RecordDecision
    <2>3. CASE good # run.ruling.approved
        BY <1>1, <2>1, <2>3 DEF RecordDecision
    <2> QED BY <2>2, <2>3
<1> DEFINE d == [seq |-> run.total, kind |-> "file_edit", req |-> run.ruling.req, source |-> source,
                 approved |-> good, unconsumed |-> lost, tree |-> BaseTree]
<1>3. /\ d \in Decision /\ d.seq = run.total /\ d.req = run.ruling.req
      /\ d.kind = "file_edit" /\ d.approved = good /\ d.source = source /\ d.unconsumed = lost
    BY <1>0, BaseTreeType DEF Decision
<1> QED BY <1>1, <1>2, <1>3 DEF RecordDecision

LEMMA AppendTyped == TypeOK /\ UNCHANGED rec /\ AppendDecision => TypeOK'
<1> SUFFICES ASSUME TypeOK, UNCHANGED rec, AppendDecision PROVE TypeOK'
    OBVIOUS
<1>0. run \in Runs /\ run.ruling \in Rulings /\ run.ruling.req \in Reqs
    BY DEF AppendDecision, RecordDecision, TypeOK, Runs
<1>1. PICK good \in BOOLEAN, d \in Decision :
         /\ hist' = YieldDecided(hist, d)
         /\ run' = [run EXCEPT !.pc = "answer", !.ruling.approved = good]
    BY AppendIsDecision
<1>2. RunTyped'
    <2> DEFINE u == [run.ruling EXCEPT !.approved = good]
    <2>1. run' = [run EXCEPT !.pc = "answer", !.ruling = u]
        BY <1>0, <1>1 DEF Runs
    <2>2. u \in Rulings /\ u.req \in Reqs
        BY <1>0 DEF Rulings
    <2> HIDE DEF u
    <2>3. run' \in Runs /\ run'.ruling = u /\ run'.pc # "certify"
        BY <1>0, <2>1, <2>2 DEF Runs, PCs
    <2> QED BY <2>2, <2>3 DEF RunTyped
<1>3. hist' \in Histories
    BY <1>1, EventTypes DEF TypeOK
<1> QED BY <1>2, <1>3 DEF AppendDecision, RecordDecision, TypeOK, RunTyped, Holding

LEMMA TreeChanged ==
    ASSUME NEW t \in Trees, NEW f \in Paths, NEW c \in Reqs \cup {Base}
    PROVE  [t EXCEPT ![f] = c] \in Trees /\ t[f] \in Reqs \cup {Base}
BY DEF Trees

LEMMA AnswerTyped == TypeOK /\ UNCHANGED rec /\ Answer => TypeOK'
<1> SUFFICES ASSUME TypeOK, UNCHANGED rec, Answer PROVE TypeOK'
    OBVIOUS
<1> DEFINE f == PathOf[run.ruling.req]
           files == IF run.ruling.approved THEN [run.files EXCEPT ![f] = run.ruling.req] ELSE run.files
<1>0. /\ run \in Runs /\ run.ruling.req \in Reqs /\ run.total \in Nat /\ run.files \in Trees
      /\ f \in Paths /\ NoRuling \in Rulings
    BY PathAssumption DEF Answer, TypeOK, Runs, NoRuling, Rulings, Sources
<1>1. files \in Trees /\ [worktree EXCEPT ![f] = run.files[f]] \in Trees
    BY <1>0, TreeChanged DEF TypeOK
<1>2. worktree' \in Trees
    BY <1>1 DEF Answer, TypeOK
<1>3. told' \subseteq Lines
    BY <1>0 DEF Answer, TypeOK, Lines
<1>4. hist' \in Histories
    BY EventTypes DEF Answer, TypeOK
<1>5. RunTyped'
    <2>1. \/ run' = [run EXCEPT !.files = files, !.ruling = NoRuling, !.pc = "loop"]
          \/ run' = [run EXCEPT !.files = files, !.ruling = NoRuling, !.pc = "stopping", !.ending = "KILLED"]
        BY DEF Answer
    <2> HIDE DEF files
    <2>2. run' \in Runs /\ run'.pc \in {"loop", "stopping"}
        BY <1>0, <1>1, <2>1 DEF Runs, PCs
    <2> QED BY <2>2 DEF RunTyped, Holding
<1> QED BY <1>2, <1>3, <1>4, <1>5 DEF Answer, TypeOK, RunTyped, Holding

\* The steps that end the loop, and an agent's writes.
LEMMA LoopTyped ==
    TypeOK /\ UNCHANGED rec /\
    (\/ \E f \in Paths, c \in Reqs \cup {Base} : AgentWrites(f, c)
     \/ \E o \in Outcomes : EndLaunch(o)
     \/ Deadline \/ Cancel \/ (\E ok \in BOOLEAN : AgentExits(ok)) \/ LoopEnds \/ OverBudget) => TypeOK'
<1> SUFFICES ASSUME TypeOK, UNCHANGED rec,
                    \/ \E f \in Paths, c \in Reqs \cup {Base} : AgentWrites(f, c)
                    \/ \E o \in Outcomes : EndLaunch(o)
                    \/ Deadline \/ Cancel \/ (\E ok \in BOOLEAN : AgentExits(ok)) \/ LoopEnds \/ OverBudget
             PROVE  TypeOK'
    OBVIOUS
<1>0. run \in Runs /\ RunTyped
    BY DEF TypeOK, RunTyped, Holding
<1>1. ASSUME NEW f \in Paths, NEW c \in Reqs \cup {Base}, AgentWrites(f, c) PROVE TypeOK'
    <2>1. worktree' \in Trees
        BY <1>1, TreeChanged DEF AgentWrites, TypeOK
    <2> QED BY <1>1, <2>1 DEF AgentWrites, TypeOK
<1>2. ASSUME NEW o \in Outcomes, EndLaunch(o) PROVE TypeOK'
    <2>1. RunTyped'
        BY <1>2, Elsewhere DEF EndLaunch, PCs, Holding
    <2>2. hist' \in Histories
        BY <1>2, LaunchTypes DEF EndLaunch, TypeOK
    <2> QED BY <1>2, <2>1, <2>2 DEF EndLaunch, TypeOK, RunTyped, Holding
<1>3. CASE Deadline
    <2>1. RunTyped'
        BY <1>0, <1>3 DEF Deadline, Runs, RunTyped
    <2> QED BY <1>3, <2>1 DEF Deadline, durable, TypeOK, RunTyped, Holding
<1>4. CASE Cancel
    <2>1. RunTyped'
        BY <1>0, <1>4 DEF Cancel, Runs, RunTyped
    <2> QED BY <1>4, <2>1 DEF Cancel, durable, TypeOK, RunTyped, Holding
<1>5. ASSUME NEW ok \in BOOLEAN, AgentExits(ok) PROVE TypeOK'
    <2>1. PICK status \in {"SUCCESS", "FAILED"} :
             run' = [run EXCEPT !.pc = "stopping", !.exited = TRUE, !.ending = status]
        BY <1>5 DEF AgentExits
    <2>2. RunTyped'
        BY <1>0, <2>1 DEF Runs, RunTyped, PCs, Holding
    <2> QED BY <1>5, <2>2 DEF AgentExits, durable, TypeOK, RunTyped, Holding
<1>6. CASE LoopEnds
    <2>1. RunTyped'
        BY <1>6, Elsewhere DEF LoopEnds, PCs, Holding
    <2>2. hist' \in Histories
        BY <1>6, EventTypes DEF LoopEnds, TypeOK
    <2> QED BY <1>6, <2>1, <2>2 DEF LoopEnds, TypeOK, RunTyped, Holding
<1>7. CASE OverBudget
    <2>1. RunTyped'
        BY <1>7, Elsewhere DEF OverBudget, PCs, Holding
    <2> QED BY <1>7, <2>1 DEF OverBudget, durable, TypeOK, RunTyped, Holding
<1> QED BY <1>1, <1>2, <1>3, <1>4, <1>5, <1>6, <1>7

-----------------------------------------------------------------------------

LEMMA CommitType ==
    ASSUME NEW tree \in Trees, NEW maker \in {"run", "recovery"}
    PROVE  [tree |-> tree, maker |-> maker] \in Commits
BY DEF Commits

\* A final review is a decision.
LEMMA ReviewType ==
    ASSUME NEW n \in Nat, NEW approved \in BOOLEAN, NEW tree \in Trees
    PROVE  [seq |-> n, kind |-> "final_review", req |-> None, source |-> "operator",
            approved |-> approved, unconsumed |-> FALSE, tree |-> tree] \in Decision
BY DEF Decision, Sources

\* The steps from the verification to the delivery.
LEMMA FinalizeTyped ==
    TypeOK /\ UNCHANGED rec /\
    (Verify \/ (\E approved \in BOOLEAN : FinalReview(approved)) \/ Prepare \/ PrepareNothing
     \/ StillGoing \/ FinalizeFails) => TypeOK'
<1> SUFFICES ASSUME TypeOK, UNCHANGED rec,
                    Verify \/ (\E approved \in BOOLEAN : FinalReview(approved)) \/ Prepare
                    \/ PrepareNothing \/ StillGoing \/ FinalizeFails
             PROVE  TypeOK'
    OBVIOUS
<1>0. run \in Runs /\ run.total + 1 \in Nat /\ run.files \in Trees
    BY DEF TypeOK, Runs
<1>1. CASE Verify
    <2>1. RunTyped'
        BY <1>1, Elsewhere DEF Verify, PCs, Holding
    <2> QED BY <1>1, <2>1 DEF Verify, durable, TypeOK, RunTyped, Holding
<1>2. ASSUME NEW approved \in BOOLEAN, FinalReview(approved) PROVE TypeOK'
    <2>1. RunTyped'
        BY <1>2, Elsewhere DEF FinalReview, PCs, Holding
    <2>2. hist' \in Histories
        BY <1>0, <1>2, ReviewType, EventTypes DEF FinalReview, TypeOK
    <2> QED BY <1>2, <2>1, <2>2 DEF FinalReview, TypeOK, RunTyped, Holding
<1>3. CASE Prepare
    <2>1. RunTyped'
        BY <1>3, Elsewhere DEF Prepare, PCs, Holding
    <2>2. hist' \in Histories
        BY <1>0, <1>3, CommitType, EventTypes DEF Prepare, TypeOK, Events
    <2> QED BY <1>3, <2>1, <2>2 DEF Prepare, TypeOK, RunTyped, Holding
<1>4. CASE PrepareNothing
    <2>1. RunTyped'
        BY <1>4, Elsewhere DEF PrepareNothing, PCs, Holding
    <2> QED BY <1>4, <2>1 DEF PrepareNothing, durable, TypeOK, RunTyped, Holding
<1>5. CASE StillGoing
    <2>1. RunTyped'
        BY <1>5, Elsewhere DEF StillGoing, PCs, Holding
    <2> QED BY <1>5, <2>1 DEF StillGoing, durable, TypeOK, RunTyped, Holding
<1>6. CASE FinalizeFails
    <2>1. RunTyped'
        BY <1>6, Elsewhere DEF FinalizeFails, PCs, Holding
    <2> QED BY <1>6, <2>1 DEF FinalizeFails, durable, TypeOK, RunTyped, Holding
<1> QED BY <1>1, <1>2, <1>3, <1>4, <1>5, <1>6

\* The delivery, and the end of the run's process.
LEMMA DeliverTyped ==
    TypeOK /\ UNCHANGED rec /\ (Deliver \/ Certify \/ FinishRun \/ Release \/ Crash) => TypeOK'
<1> SUFFICES ASSUME TypeOK, UNCHANGED rec, Deliver \/ Certify \/ FinishRun \/ Release \/ Crash
             PROVE  TypeOK'
    OBVIOUS
<1>0. run \in Runs /\ run.files \in Trees /\ run.commit \in AnyCommit
    BY DEF TypeOK, Runs
<1>1. CASE Deliver
    <2> DEFINE commit == [tree |-> run.files, maker |-> "run"]
    <2>1. commit \in Commits /\ commit \in AnyCommit
        BY <1>0, CommitType DEF AnyCommit
    <2>2. run' = [run EXCEPT !.pc = "certify", !.commit = commit] /\ branch' = commit
        BY <1>1 DEF Deliver
    <2> HIDE DEF commit
    <2>3. RunTyped'
        BY <1>0, <2>1, <2>2 DEF Runs, PCs, RunTyped, Holding
    <2> QED BY <1>1, <2>1, <2>2, <2>3 DEF Deliver, TypeOK, RunTyped, Holding
<1>2. CASE Certify
    <2>1. RunTyped'
        BY <1>2, Elsewhere DEF Certify, PCs, Holding
    <2>2. hist' \in Histories
        BY <1>2, EventTypes DEF Certify, TypeOK, Events
    <2> QED BY <1>2, <2>1, <2>2 DEF Certify, TypeOK, RunTyped, Holding
<1>3. CASE FinishRun
    <2>1. RunTyped'
        BY <1>3, Elsewhere DEF FinishRun, PCs, Holding
    <2>2. db' \in Rows
        BY <1>0, <1>3 DEF FinishRun, TypeOK, Rows, Statuses, Runs
    <2> QED BY <1>3, <2>1, <2>2 DEF FinishRun, TypeOK, RunTyped, Holding
<1>4. CASE Release
    <2>1. RunTyped'
        BY <1>4, NoRunTyped DEF Release, RunTyped, Holding
    <2> QED BY <1>4, <2>1 DEF Release, TypeOK, RunTyped, Holding
<1>5. CASE Crash
    <2>1. RunTyped'
        BY <1>5, NoRunTyped DEF Crash, RunTyped, Holding
    <2>2. journal' \in Journals
        BY <1>5 DEF Crash, TypeOK, Journals
    <2>3. crashes' \in Nat
        BY <1>5 DEF Crash, TypeOK
    <2> QED BY <1>5, <2>1, <2>2, <2>3 DEF Crash, TypeOK, RunTyped, Holding
<1> QED BY <1>1, <1>2, <1>3, <1>4, <1>5

\* A continuation, up to the point where it is a run again.
LEMMA ClaimTyped == TypeOK /\ UNCHANGED rec /\ Claim => TypeOK'
<1> SUFFICES ASSUME TypeOK, UNCHANGED rec, Claim PROVE TypeOK'
    OBVIOUS
<1>1. run' = [NoRun EXCEPT !.ending = "KILLED", !.pc = "settle"]
    BY DEF Claim, NoRun
<1>2. RunTyped'
    BY <1>1, NoRunTyped DEF Runs, PCs, RunTyped, Holding
<1> QED BY <1>2 DEF Claim, TypeOK, RunTyped, Holding

LEMMA SettleTyped ==
    TypeOK /\ UNCHANGED rec /\
    (RecordLostLaunch \/ RefuseParked \/ SettleAcknowledged \/ SettleUnparked \/ RefuseRecords
     \/ Acknowledge) => TypeOK'
<1> SUFFICES ASSUME TypeOK, UNCHANGED rec,
                    RecordLostLaunch \/ RefuseParked \/ SettleAcknowledged \/ SettleUnparked
                    \/ RefuseRecords \/ Acknowledge
             PROVE  TypeOK'
    OBVIOUS
<1>0. hist \in Histories /\ "lost" \in Outcomes
    BY DEF TypeOK, Outcomes
<1>1. CASE RecordLostLaunch
    BY <1>0, <1>1, LaunchTypes DEF RecordLostLaunch, TypeOK
<1>2. CASE RefuseParked
    <2>1. RunTyped'
        BY <1>2, NoRunTyped DEF RefuseParked, Refuse, RunTyped, Holding
    <2> QED BY <1>2, <2>1 DEF RefuseParked, Refuse, TypeOK, RunTyped, Holding
<1>3. CASE SettleAcknowledged
    <2>1. RunTyped'
        BY <1>3, Elsewhere DEF SettleAcknowledged, PCs, Holding
    <2> QED BY <1>3, <2>1, LaunchTypes DEF SettleAcknowledged, TypeOK, RunTyped, Holding
<1>4. CASE SettleUnparked
    <2>1. RunTyped'
        BY <1>4, Elsewhere DEF SettleUnparked, PCs, Holding
    <2> QED BY <1>4, <2>1 DEF SettleUnparked, durable, TypeOK, RunTyped, Holding
<1>5. CASE RefuseRecords
    <2>1. RunTyped'
        BY <1>5, NoRunTyped DEF RefuseRecords, Refuse, RunTyped, Holding
    <2> QED BY <1>5, <2>1 DEF RefuseRecords, Refuse, TypeOK, RunTyped, Holding
<1>6. CASE Acknowledge
    <2> DEFINE ended == IF OpenLaunch(hist) THEN LaunchEnded(hist, "lost") ELSE hist
    <2>1. ended \in Histories
        BY <1>0, LaunchTypes
    <2>2. hist' \in {ended, LaunchAcknowledged(ended)}
        BY <1>6 DEF Acknowledge
    <2> HIDE DEF ended
    <2>3. hist' \in Histories
        BY <2>1, <2>2, LaunchTypes
    <2> QED BY <1>6, <2>3 DEF Acknowledge, TypeOK
<1> QED BY <1>1, <1>2, <1>3, <1>4, <1>5, <1>6

LEMMA CheckTyped ==
    TypeOK /\ UNCHANGED rec /\ (CheckWorktree \/ Reopen \/ AppendResumed \/ Trim) => TypeOK'
<1> SUFFICES ASSUME TypeOK, UNCHANGED rec, CheckWorktree \/ Reopen \/ AppendResumed \/ Trim
             PROVE  TypeOK'
    OBVIOUS
<1>0. Approved \in Trees /\ Applied \in Trees
    <2>1. Approved \in Trees
        BY ApprovedType DEF Approved, TypeOK
    <2> QED BY <2>1 DEF Applied, Trees, TypeOK
<1>1. CASE CheckWorktree
    <2>1. RunTyped'
        <3>1. CASE Goto("reopen")
            BY <3>1, Elsewhere DEF PCs, Holding
        <3>2. CASE Refuse
            BY <3>2, NoRunTyped DEF Refuse, RunTyped, Holding
        <3> QED BY <1>1, <3>1, <3>2 DEF CheckWorktree
    <2>2. worktree' \in Trees /\ owner' \in {"none", "run", "recovery"}
        BY <1>0, <1>1 DEF CheckWorktree, Refuse, TypeOK
    <2> QED BY <1>1, <2>1, <2>2 DEF CheckWorktree, TypeOK, RunTyped, Holding
<1>2. CASE Reopen
    <2>1. RunTyped'
        BY <1>2, Elsewhere DEF Reopen, PCs, Holding
    <2>2. db' \in Rows
        BY <1>2 DEF Reopen, TypeOK, Rows, Statuses
    <2> QED BY <1>2, <2>1, <2>2 DEF Reopen, TypeOK, RunTyped, Holding
<1>3. CASE AppendResumed
    <2>1. RunTyped'
        BY <1>3, Elsewhere DEF AppendResumed, PCs, Holding
    <2>2. hist' \in Histories
        BY <1>3, EventTypes DEF AppendResumed, TypeOK
    <2> QED BY <1>3, <2>1, <2>2 DEF AppendResumed, TypeOK, RunTyped, Holding
<1>4. CASE Trim
    <2>1. PICK n \in Nat, task \in BOOLEAN : n = hist.lastDecided /\ task = TaskApproved(hist)
        BY DEF TypeOK, Histories, TaskApproved
    <2>2. run' = [run EXCEPT !.pc = "launch", !.total = n, !.files = Approved, !.task = task]
        BY <1>4, <2>1 DEF Trim, TrimUpTo
    <2>3. RunTyped'
        BY <1>0, <2>2 DEF TypeOK, Runs, PCs, RunTyped, Holding
    <2>4. journal' \in Journals
        BY <1>4 DEF Trim, TrimUpTo, TypeOK, Journals
    <2> QED BY <1>4, <2>3, <2>4 DEF Trim, TrimUpTo, TypeOK, RunTyped, Holding
<1> QED BY <1>1, <1>2, <1>3, <1>4

LEMMA MovedTyped == \A c \in Strangers : TypeOK /\ UNCHANGED rec /\ BranchMoved(c) => TypeOK'
BY StrangersAssumption DEF BranchMoved, TypeOK, Commits

\* Everything the run's process, a continuation and the outside do.
LEMMA RunStepTyped == TypeOK /\ RunStep => TypeOK'
BY StartTyped, ProposeTyped, DecideTyped, RuledTyped, AppendTyped, AnswerTyped, LoopTyped,
   FinalizeTyped, DeliverTyped, ClaimTyped, SettleTyped, CheckTyped, MovedTyped
DEF RunStep, ProcessStep, ResumeStep, OutsideStep

-----------------------------------------------------------------------------
(* Recovery.                                                               *)

LEMMA RecGotoTyped ==
    ASSUME NEW r \in Recs,
           NEW pc \in {"none", "claim", "review", "op", "deliver", "keep", "certify", "record", "finish"},
           NEW c \in AnyCommit, NEW status \in Statuses, NEW adopted \in BOOLEAN
    PROVE  /\ [r EXCEPT !.pc = pc] \in Recs
           /\ [r EXCEPT !.pc = pc].pc = pc
           /\ [r EXCEPT !.pc = pc].commit = r.commit
           /\ [r EXCEPT !.pc = pc, !.commit = c] \in Recs
           /\ [r EXCEPT !.pc = pc, !.commit = c].commit = c
           /\ [r EXCEPT !.status = status, !.adopted = adopted, !.pc = pc] \in Recs
           /\ [r EXCEPT !.status = status, !.adopted = adopted, !.pc = pc].pc = pc
BY DEF Recs

LEMMA NoRecTyped == NoRec \in Recs /\ NoRec.pc = "none"
<1>1. NoHistory \in Histories
    BY DEF NoHistory, Histories
<1>2. NoCommit \in AnyCommit
    BY DEF AnyCommit
<1> QED BY <1>1, <1>2 DEF NoRec, Recs, Statuses

\* What is to be committed is a tree.
LEMMA WantType == TypeOK => Want \in Trees /\ Approvals(rec.seen) \subseteq Decision
BY ApprovedType, ApprovalsType DEF TypeOK, Recs, Want

Delivering == {"keep", "certify", "record", "finish"}
RecTyped == rec \in Recs /\ (rec.pc \in Delivering => rec.commit \in Commits)

LEMMA RecoverStartTyped ==
    TypeOK /\ (RecoverRead \/ RecoverClaim \/ (\E approved \in BOOLEAN : RecoverReview(approved))
               \/ RecoverOp \/ RecoverStops \/ RecoverCrash) => TypeOK'
<1> SUFFICES ASSUME TypeOK,
                    RecoverRead \/ RecoverClaim \/ (\E approved \in BOOLEAN : RecoverReview(approved))
                    \/ RecoverOp \/ RecoverStops \/ RecoverCrash
             PROVE  TypeOK'
    OBVIOUS
<1>0. rec \in Recs
    BY DEF TypeOK
<1>1. CASE RecoverRead
    <2>1. PICK review \in BOOLEAN : rec' = [NoRec EXCEPT !.pc = "claim", !.seen = hist, !.review = review]
        <3>1. (TaskApproved(hist) /\ ~FinalReviewed(hist)) \in BOOLEAN
            BY DEF TaskApproved
        <3> QED BY <1>1, <3>1 DEF RecoverRead, ReadNeeding
    <2>2. RecTyped'
        BY <2>1, NoRecTyped DEF Recs, RecTyped, Delivering, TypeOK
    <2> QED BY <1>1, <2>2 DEF RecoverRead, ReadNeeding, vars, TypeOK, RecTyped, Delivering
<1>2. CASE RecoverClaim
    <2>1. PICK adopted \in BOOLEAN, pc \in {"deliver", "review", "op"} :
             rec' = [rec EXCEPT !.status = db.status, !.adopted = adopted, !.pc = pc]
        <3>1. RunMadeCommit \in BOOLEAN
            BY DEF RunMadeCommit
        <3> QED BY <1>2, <3>1 DEF RecoverClaim
    <2>2. db.status \in Statuses
        BY DEF TypeOK, Rows
    <2>3. RecTyped'
        BY <1>0, <2>1, <2>2 DEF Recs, RecTyped, Delivering
    <2> QED BY <1>2, <2>3 DEF RecoverClaim, TypeOK, RecTyped, Delivering
<1>3. ASSUME NEW approved \in BOOLEAN, RecoverReview(approved) PROVE TypeOK'
    <2>1. rec.seen.lastDecided + 1 \in Nat
        BY <1>0 DEF Recs, Histories
    <2>2. hist' \in Histories
        BY <1>3, <2>1, WantType, ReviewType, EventTypes DEF RecoverReview, ReviewNumbered, TypeOK
    <2>3. RecTyped'
        <3>1. CASE RecGoto("op")
            BY <1>0, <3>1 DEF RecGoto, Recs, RecTyped, Delivering
        <3>2. CASE rec' = NoRec
            BY <3>2, NoRecTyped DEF RecTyped, Delivering
        <3> QED BY <1>3, <3>1, <3>2 DEF RecoverReview, ReviewNumbered
    <2> QED BY <1>3, <2>2, <2>3 DEF RecoverReview, ReviewNumbered, TypeOK, RecTyped, Delivering
<1>4. CASE RecoverOp
    <2>1. RecTyped'
        BY <1>0, <1>4 DEF RecoverOp, RecGoto, Recs, RecTyped, Delivering
    <2>2. op' \in Ops
        BY <1>4, WantType DEF RecoverOp, Ops, AnyCommit
    <2> QED BY <1>4, <2>1, <2>2 DEF RecoverOp, TypeOK, RecTyped, Delivering
<1>5. CASE RecoverStops
    <2>1. RecTyped'
        BY <1>5, NoRecTyped DEF RecoverStops, RecTyped, Delivering
    <2> QED BY <1>5, <2>1 DEF RecoverStops, TypeOK, RecTyped, Delivering
<1>6. CASE RecoverCrash
    <2>1. RecTyped'
        BY <1>6, NoRecTyped DEF RecoverCrash, RecTyped, Delivering
    <2>2. crashes' \in Nat
        BY <1>6 DEF RecoverCrash, TypeOK
    <2> QED BY <1>6, <2>1, <2>2 DEF RecoverCrash, TypeOK, RecTyped, Delivering
<1> QED BY <1>1, <1>2, <1>3, <1>4, <1>5, <1>6

LEMMA RecoverEndTyped ==
    TypeOK /\ (RecoverDeliver \/ RecoverKeep \/ RecoverCertify \/ RecoverRecord \/ RecoverFinish) => TypeOK'
<1> SUFFICES ASSUME TypeOK,
                    RecoverDeliver \/ RecoverKeep \/ RecoverCertify \/ RecoverRecord \/ RecoverFinish
             PROVE  TypeOK'
    OBVIOUS
<1>0. rec \in Recs /\ RecTyped
    BY DEF TypeOK, RecTyped, Delivering
<1>1. CASE RecoverDeliver
    <2>1. branch' \in Commits
        BY <1>1, CommitType DEF RecoverDeliver, TypeOK, OwnCommit, Ops
    <2>2. RecTyped'
        BY <1>0, <1>1, <2>1 DEF RecoverDeliver, Recs, RecTyped, AnyCommit
    <2> QED BY <1>1, <2>1, <2>2 DEF RecoverDeliver, TypeOK, RecTyped, Delivering
<1>2. CASE RecoverKeep
    <2>1. RecTyped'
        BY <1>0, <1>2 DEF RecoverKeep, RecGoto, Recs, RecTyped, Delivering
    <2>2. op' \in Ops
        BY <1>0, <1>2 DEF RecoverKeep, TypeOK, Recs, Ops
    <2> QED BY <1>2, <2>1, <2>2 DEF RecoverKeep, TypeOK, RecTyped, Delivering
<1>3. CASE RecoverCertify
    <2>1. RecTyped'
        BY <1>0, <1>3 DEF RecoverCertify, RecGoto, Recs, RecTyped, Delivering
    <2>2. hist' \in Histories
        BY <1>0, <1>3, EventTypes DEF RecoverCertify, TypeOK, RecTyped, Delivering, Events
    <2> QED BY <1>3, <2>1, <2>2 DEF RecoverCertify, TypeOK, RecTyped, Delivering
<1>4. CASE RecoverRecord
    <2>1. RecTyped'
        BY <1>0, <1>4 DEF RecoverRecord, RecGoto, Recs, RecTyped, Delivering
    <2>2. hist' \in Histories
        BY <1>0, <1>4, EventTypes DEF RecoverRecord, TypeOK, RecTyped, Delivering, Events
    <2> QED BY <1>4, <2>1, <2>2 DEF RecoverRecord, TypeOK, RecTyped, Delivering
<1>5. CASE RecoverFinish
    <2>1. RecTyped'
        BY <1>5, NoRecTyped DEF RecoverFinish, RecTyped, Delivering
    <2>2. db' \in Rows
        <3>1. rec.status \in Statuses /\ rec.commit \in AnyCommit /\ "KILLED" \in Statuses
            BY <1>0 DEF Recs, Statuses
        <3> QED BY <1>5, <3>1 DEF RecoverFinish, TypeOK, Rows
    <2> QED BY <1>5, <2>1, <2>2 DEF RecoverFinish, TypeOK, RecTyped, Delivering
<1> QED BY <1>1, <1>2, <1>3, <1>4, <1>5

LEMMA StepTyped == TypeOK /\ [Next]_allVars => TypeOK'
<1> SUFFICES ASSUME TypeOK, [Next]_allVars PROVE TypeOK'
    OBVIOUS
<1>1. CASE RunStep
    BY <1>1, RunStepTyped
<1>2. CASE RecoverStep
    BY <1>2, RecoverStartTyped, RecoverEndTyped DEF RecoverStep
<1>3. CASE UNCHANGED allVars
    BY <1>3 DEF allVars, vars, TypeOK
<1> QED BY <1>1, <1>2, <1>3 DEF Next

\* Type correctness of the whole system: in particular every event the processes write
\* is one the history has a place for, and the commit they deliver is a commit.
THEOREM Typed == Spec => []TypeOK
BY InitTyped, StepTyped, PTL DEF Spec
=============================================================================
