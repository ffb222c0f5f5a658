------------------------------- MODULE Deciding -------------------------------
(***************************************************************************)
(* Who decides each proposal of a run, what the decision leaves behind     *)
(* and what a continuation makes of it: decide.go, bars.go, evidence.go,   *)
(* validator.go, signal.go, consume.go and delivery.go of the              *)
(* orchestrator, policy/engine.go, policy/drift.go, and the questions      *)
(* history.go answers from the chain.                                      *)
(*                                                                         *)
(* The deciders are asked in a fixed order and keep counts: of proposals,  *)
(* of rule approvals, of drift, of the reviewer models' verdicts.  The     *)
(* counts live in memory; a continuation rebuilds them from the chain.     *)
(* A proposal is a record of what the deciders look at; its bytes are in   *)
(* Worktree.tla, the journal and the order of the two writes in Run.tla.   *)
(* A rule's agents, extensions and globs are the proposals it is for.      *)
(***************************************************************************)
EXTENDS Terms

CONSTANTS
    Starts,         \* the terms, policies, stories and agents that people start runs with
    SampleEvery,    \* validatorSampleEvery
    RejectLimit,    \* validatorRejectLimit
    MaxRequests, MaxEnds    \* bounds of this instance: proposals, and times the run is cut off

\* A rule with no condition at all that rejects must be asked for.
Loads(rules, offers, blanket) ==
    \A i \in DOMAIN rules : rules[i].effect = "reject" /\ ~blanket =>
        rules[i].for # offers \/ rules[i].maxLines # 0 \/ rules[i].maxFiles # 0 \/ rules[i].newOnly \/ rules[i].noDeletions

ASSUME DecidingAssumption ==
    /\ SampleEvery \in Nat \ {0} /\ RejectLimit \in Nat \ {0} /\ MaxRequests \in Nat /\ MaxEnds \in Nat
    /\ \A s \in Starts : Loads(s.rules, s.offers, s.blanket)

VARIABLES
    settings,   \* what this segment is decided under
    open,       \* the stories of the run's case that nobody accepted
    live,       \* what the deciders and the supervisor count
    over,       \* the run's limit or a cancellation has ended every wait
    files,      \* the approved files: the proposal each was last approved in
    chain,      \* the run's votes, decisions, checks, halts and continuations
    requests,   \* proposals put on the chain
    pc,
    ends

vars == <<settings, open, live, over, files, chain, requests, pc, ends>>

NoVerdicts == [approvals |-> 0, rejectRun |-> 0, unreviewed |-> FALSE]
NoDrift == [yields |-> 0, violations |-> 0, files |-> {}]
Fresh == [total |-> 0, auto |-> 0, task |-> FALSE, parked |-> 0, validator |-> NoVerdicts, drift |-> NoDrift]

\* A run starts under terms that it can decide under, and arms a delivery by policy only with a signed one.
Init ==
    /\ \E s \in Starts :
          /\ Accepted(s.terms, s.harness)
          /\ s.terms.deliver = "policy" => s.signed
          /\ open = DOMAIN s.stories
          /\ settings = Under(s, Normal(s.terms), open)
    /\ live = Fresh /\ over = FALSE /\ files = <<>> /\ chain = <<>> /\ requests = 0
    /\ pc = "loop" /\ ends = 0

-----------------------------------------------------------------------------
(* The drift supervisor. *)

Strays(paths) == settings.stories # {} /\ ~(paths \subseteq settings.stories)
Check(d, paths) == [d EXCEPT !.yields = @ + 1, !.violations = IF Strays(paths) THEN @ + 1 ELSE @]
TooFar(d, paths) == Strays(paths) /\ settings.maxViolations > 0 /\ d.violations > settings.maxViolations
Drifts(d, paths) ==
    \/ Strays(paths)
    \/ settings.maxFiles > 0 /\ Cardinality(d.files \union paths) > settings.maxFiles
    \/ settings.checkpoint > 0 /\ d.yields % settings.checkpoint = 0
Supervise(d, paths, approved) == IF approved THEN [d EXCEPT !.files = @ \union paths] ELSE d

-----------------------------------------------------------------------------
(* The policy. *)

Matches(rule, r) ==
    /\ r \in rule.for
    /\ rule.maxLines = 0 \/ r.lines <= rule.maxLines
    /\ rule.maxFiles = 0 \/ Cardinality(r.paths) <= rule.maxFiles
    /\ rule.newOnly => r.creates
    /\ rule.noDeletions => ~r.deletes

\* Evaluate: the rules that match; the first of them decides.
Evaluate(r) == IF r.kind # "edit" THEN {} ELSE {i \in DOMAIN settings.rules : Matches(settings.rules[i], r)}
Rule(r) == settings.rules[CHOOSE i \in Evaluate(r) : \A j \in Evaluate(r) : i <= j]

CheckLimits(l) ==
    \/ settings.maxAuto > 0 /\ l.auto >= settings.maxAuto
    \/ settings.maxTotal > 0 /\ l.total >= settings.maxTotal

-----------------------------------------------------------------------------
(* The order in which the deciders are asked; l has the proposal counted and checked. *)

Refuses(r) == r.kind = "edit" /\ ~r.sound
Declared(r) == settings.away /\ r.kind # "edit" /\ r \in settings.declared
Barred(r) == r.paths \intersect (settings.protected \union settings.sensitive) # {}
Outside(r) == settings.scope # {} /\ ~(r.paths \subseteq settings.scope)

Way(l, r) ==
    IF TooFar(l.drift, r.paths) THEN "halt"
    ELSE IF Barred(r) THEN "person"
    ELSE IF CheckLimits(l) \/ Drifts(l.drift, r.paths) \/ Outside(r) \/ r.guarded THEN "person"
    ELSE IF Evaluate(r) # {} THEN "rule"
    ELSE IF r.kind = "edit" /\ settings.task THEN (IF settings.evidence THEN "evidence" ELSE "task")
    ELSE IF r.kind = "edit" /\ settings.panel # <<>> THEN "panel"
    ELSE "person"

\* A ruling, the counts it leaves and the votes it put on the chain.
Ruling(source, approved, l, votes) == [source |-> source, approved |-> approved, live |-> l, votes |-> votes]

\* human: the answer of a person, none once the run is over; while they are away the proposal is parked.
Human(l, votes) ==
    IF settings.away THEN {Ruling("parked", FALSE, [l EXCEPT !.parked = @ + 1], votes)}
    ELSE {Ruling("operator", yes, l, votes) : yes \in IF over THEN {FALSE} ELSE BOOLEAN}

\* A person decides in the panel's place.
InItsPlace(l, votes) == Human([l EXCEPT !.validator.rejectRun = 0], votes)

\* The votes the panel may cast, one by one: a model that fails ends them.
Ballots ==
    LET n == Len(settings.panel) IN
    IF over THEN {<<"error">>}
    ELSE [1..n -> {"approve", "reject"}] \union
         {Append(before, "error") : before \in UNION {[1..k -> {"approve", "reject"}] : k \in 0..n - 1}}

Carries(votes) == \A i \in DOMAIN votes : votes[i] = "approve"
Fails(votes) == \A i \in DOMAIN votes : votes[i] = "reject"

\* The counts after the panel agreed to a change, and whether a person sees this one.
Agreed(l) == [l EXCEPT !.validator.rejectRun = 0, !.validator.approvals = @ + 1]
Sampled(l) == ~settings.evidence /\ l.validator.approvals % SampleEvery = 0

Worn(l) == l.validator.rejectRun >= RejectLimit

\* Validator.decide: source is what an agreed approval counts as.
Panel(l, source) ==
    IF Worn(l) THEN InItsPlace(l, <<>>)
    ELSE UNION {
        IF Carries(votes) THEN
            IF Sampled(Agreed(l)) THEN InItsPlace(Agreed(l), votes)
            ELSE {Ruling(source, TRUE, [Agreed(l) EXCEPT !.validator.unreviewed = TRUE, !.task = @ \/ source = "evidence"], votes)}
        ELSE IF Fails(votes) THEN {Ruling("validator", FALSE, [l EXCEPT !.validator.rejectRun = @ + 1], votes)}
        ELSE InItsPlace(l, votes)
        : votes \in Ballots}

\* onEvidence: the checks pass on the state it would produce, and the panel, if there is one, agrees.
OnEvidence(l) ==
    (IF settings.checks THEN Human(l, <<>>) ELSE {})
    \union (IF settings.checks /\ over THEN {}
            ELSE IF settings.panel # <<>> THEN Panel(l, "evidence")
            ELSE {Ruling("evidence", TRUE, [l EXCEPT !.task = TRUE], <<>>)})

\* What a rule, the task, the evidence, the panel or a person may make of a proposal that is decided.
Rulings(l, r) ==
    LET way == Way(l, r) IN
    CASE way = "halt" -> {Ruling("drift", FALSE, l, <<>>)}
      [] way = "rule" -> IF Rule(r).effect = "approve" THEN {Ruling("policy", TRUE, [l EXCEPT !.auto = @ + 1], <<>>)}
                         ELSE {Ruling("policy", FALSE, l, <<>>)}
      [] way = "task" -> {Ruling("task", TRUE, [l EXCEPT !.task = TRUE], <<>>)}
      [] way = "evidence" -> OnEvidence(l)
      [] way = "panel" -> Panel(l, "validator")
      [] OTHER -> Human(l, <<>>)

\* The signal turns any approval of files that is not a person's into a person's decision; it does when it cannot answer.
Escalated(ruling, r) ==
    IF settings.signal /\ ruling.approved /\ ruling.source # "operator" /\ r.kind = "edit"
    THEN Human(ruling.live, ruling.votes) \union (IF over THEN {} ELSE {ruling}) ELSE {ruling}

-----------------------------------------------------------------------------
(* Deciding a proposal. *)

Votes(ruling) ==
    [i \in DOMAIN ruling.votes |-> [type |-> "vote", request |-> requests + 1, model |-> settings.panel[i], verdict |-> ruling.votes[i]]]
\* A decision's record.  Only what derived as shown has paths.
Record(ruling, r, approved, expired) ==
    [type |-> "decided", seq |-> ruling.live.total, request |-> requests + 1, of |-> r,
     source |-> IF expired THEN "orchestrator" ELSE ruling.source, approved |-> approved,
     paths |-> IF ruling.source = "orchestrator" THEN {} ELSE r.paths, validator |-> ruling.live.validator]

\* consume, and what decide does after it: late is that the run ended before the decision was on the chain.
Consume(ruling, r, late) ==
    LET approved == ruling.approved /\ ~late
    IN  /\ chain' = chain \o Votes(ruling) \o <<Record(ruling, r, approved, ruling.approved /\ late)>>
        /\ files' = IF approved
                    THEN [p \in DOMAIN files \union r.paths |-> IF p \in r.paths THEN requests + 1 ELSE files[p]] ELSE files
        /\ live' = IF ruling.source = "orchestrator" THEN ruling.live
                   ELSE [ruling.live EXCEPT !.drift = Supervise(@, r.paths, approved)]
        /\ pc' = IF ruling.source = "drift" THEN "halting" ELSE pc

Counted == [live EXCEPT !.total = @ + 1]
Decide(r, late) ==
    /\ pc = "loop" /\ requests < MaxRequests /\ (over => late)
    /\ LET l == [Counted EXCEPT !.drift = Check(@, r.paths)]
           rulings == IF Refuses(r) THEN {Ruling("orchestrator", FALSE, Counted, <<>>)}
                      ELSE IF Declared(r) THEN {Ruling("declared", TRUE, Counted, <<>>)}
                      ELSE Rulings(l, r)
       IN  \E ruling \in UNION {Escalated(x, r) : x \in rulings} : Consume(ruling, r, late)
    /\ requests' = requests + 1 /\ over' = late
    /\ UNCHANGED <<settings, open, ends>>

\* driftHalt, and the run's time: both halt it, and only the first can be continued.
Halt ==
    /\ pc = "halting" \/ (pc = "loop" /\ over)
    /\ chain' = Append(chain, [type |-> "halt"])
    /\ pc' = IF pc = "halting" THEN "killed" ELSE "failed"
    /\ UNCHANGED <<settings, open, live, over, files, requests, ends>>

\* A crash in the middle of a proposal: its votes are on the chain, its decision is not.
Crash ==
    /\ ends < MaxEnds /\ pc \in {"loop", "halting", "review", "checked"}
    /\ chain' \in {chain} \union
          {chain \o Votes(x) : x \in IF pc = "loop" /\ requests < MaxRequests /\ settings.panel # <<>>
                                     THEN {Ruling("", FALSE, live, votes) : votes \in Ballots} ELSE {}}
    /\ requests' = IF chain' # chain THEN requests + 1 ELSE requests
    /\ pc' = "killed" /\ ends' = ends + 1
    /\ UNCHANGED <<settings, open, live, over, files>>

\* The run is cancelled.
Cancel ==
    /\ ends < MaxEnds /\ pc \in {"loop", "review", "checked"}
    /\ pc' = "killed" /\ ends' = ends + 1
    /\ UNCHANGED <<settings, open, live, over, files, chain, requests>>

-----------------------------------------------------------------------------
(* What the chain says, and a continuation. *)

Of(type) == SelectSeq(chain, LAMBDA e : e.type = type)
Decisions == Of("decided")
Proposed == SelectSeq(Decisions, LAMBDA d : d.source # "final")
Finals == SelectSeq(Decisions, LAMBDA d : d.source = "final")
CountOf(seq, Test(_)) == Len(SelectSeq(seq, Test))

\* Mutant: what was refused before the supervisor saw it is replayed too.
SupervisedAll == SelectSeq(Proposed, LAMBDA d : d.source # "declared")

Supervised == SelectSeq(Proposed, LAMBDA d : d.source # "declared" /\ ~(d.source = "orchestrator" /\ d.paths = {}))

AutoApproved == CountOf(Proposed, LAMBDA d : d.approved /\ d.source = "policy")
TaskApproved == \E i \in DOMAIN Proposed : Proposed[i].approved /\ Proposed[i].source \in {"task", "evidence"}
Parked == CountOf(Proposed, LAMBDA d : d.source = "parked")
LastDecided == IF Decisions = <<>> THEN 0 ELSE Last(Decisions).seq
ValidatorState == IF Proposed = <<>> THEN NoVerdicts ELSE Last(Proposed).validator
Replayed == FoldLeft(LAMBDA d, e : Supervise(Check(d, e.paths), e.paths, e.approved), NoDrift, Supervised)
\* A halt no continuation acknowledged since.
Halted == \E i \in DOMAIN chain : chain[i].type = "halt" /\ \A j \in i..Len(chain) : ~(chain[j].type = "resumed" /\ chain[j].ack)

\* Mutant: the supervisor starts afresh.
RebuiltWithoutDrift ==
    [total |-> LastDecided, auto |-> AutoApproved, task |-> TaskApproved, parked |-> Parked,
     validator |-> ValidatorState, drift |-> NoDrift]

\* carry and resume: the counts a continuation starts from.
Rebuilt ==
    [total |-> LastDecided, auto |-> AutoApproved, task |-> TaskApproved, parked |-> Parked,
     validator |-> ValidatorState, drift |-> Replayed]

\* A story is accepted on another run of the case; a run looks at its stories when a segment starts.
AcceptStory(story) ==
    /\ pc = "killed" /\ story \in open \intersect settings.start.accepts
    /\ open' = open \ {story}
    /\ UNCHANGED <<settings, live, over, files, chain, requests, pc, ends>>

\* The saved terms are judged again; the supervisor is new, under the scope of now, and what is on the chain is replayed into it.
Continue(ack) ==
    /\ pc = "killed" /\ Of("authorized") = <<>> /\ (Halted => ack)
    /\ Accepted(settings.terms, settings.start.harness)
    /\ settings' = Under(settings.start, Normal(settings.terms), open)
    /\ chain' = Append(chain, [type |-> "resumed", ack |-> ack])
    /\ live' = Rebuilt' /\ over' = FALSE
    /\ pc' = "loop"
    /\ UNCHANGED <<open, files, requests, ends>>

-----------------------------------------------------------------------------
(* The end of the run. *)

\* A person reviews the whole change when part of it was approved without one.
Owed == live.task \/ live.validator.unreviewed

\* The agent is done.
Finalize ==
    /\ pc = "loop" /\ ~over
    /\ pc' = IF settings.away THEN "checked" ELSE IF Owed THEN "review" ELSE IF files = <<>> THEN "done" ELSE "delivered"
    /\ \E passed \in BOOLEAN :
          chain' = IF settings.away THEN Append(chain, [type |-> "checked", files |-> files, passed |-> passed /\ settings.checks])
                   ELSE chain
    /\ UNCHANGED <<settings, open, live, over, files, requests, ends>>

FinalReview(yes) ==
    /\ pc = "review"
    /\ chain' = Append(chain, [type |-> "decided", seq |-> live.total + 1, request |-> 0, source |-> "final", approved |-> yes,
                               paths |-> DOMAIN files])
    /\ pc' = IF yes THEN (IF files = <<>> THEN "done" ELSE "delivered") ELSE "failed"
    /\ UNCHANGED <<settings, open, live, over, files, requests, ends>>

Approvals == SelectSeq(Proposed, LAMBDA d : d.approved /\ d.of.kind = "edit")
OnlyRules ==
    /\ \A i \in DOMAIN Proposed : Proposed[i].approved => Proposed[i].source \in {"policy", "declared"}
    /\ ~live.task /\ ~live.validator.unreviewed /\ Approvals # <<>> /\ files # <<>>
\* Mutant: what was put off does not count.
NothingParkedNow == TRUE

NothingParked == live.parked = 0 /\ Parked = 0
InsideBars ==
    LET paths == DOMAIN files \union UNION {Approvals[i].paths : i \in DOMAIN Approvals}
    IN  paths \subseteq settings.deliverPaths \ (settings.protected \union settings.sensitive)
CheckedTree == LET c == Last(Of("checked")) IN c.passed /\ c.files = files

SignedPolicy == settings.terms.deliver = "policy" /\ settings.start.signed
ProtectedDeclared == settings.terms.protected # {}
InitiatorSigned == settings.terms.signKey

\* judgeDelivery, on the terms as they were saved.
MayDeliver ==
    /\ Accepted(settings.terms, settings.start.harness)
    /\ SignedPolicy /\ OnlyRules /\ NothingParked /\ InsideBars /\ CheckedTree /\ ProtectedDeclared /\ InitiatorSigned

\* awaitReview and checkUnchanged: deliver by policy when every condition holds, else offer the change.
AwaitReview ==
    /\ pc = "checked"
    /\ LET passed == Last(Of("checked")).passed
           parked == live.parked > 0
       IN  pc' = IF files = <<>> /\ ~parked THEN IF passed THEN "done" ELSE "failed"
                 ELSE IF ~passed /\ ~(files = <<>> /\ parked) THEN "failed"
                 ELSE IF MayDeliver THEN "authorized"
                 ELSE "awaiting"
    /\ chain' = IF pc' = "authorized" THEN Append(chain, [type |-> "authorized", files |-> files])
                ELSE IF pc' = "awaiting" THEN Append(chain, [type |-> "awaiting", files |-> files]) ELSE chain
    /\ UNCHANGED <<settings, open, live, over, files, requests, ends>>

DeliverAuthorized ==
    /\ pc = "authorized"
    /\ pc' = IF Last(Of("authorized")).files = files THEN "delivered" ELSE "failed"
    /\ UNCHANGED <<settings, open, live, over, files, chain, requests, ends>>

Next ==
    \/ \E r \in settings.offers, late \in BOOLEAN : Decide(r, late)
    \/ Halt \/ Crash \/ Cancel
    \/ \E ack \in BOOLEAN : Continue(ack)
    \/ \E story \in open : AcceptStory(story)
    \/ Finalize \/ AwaitReview \/ DeliverAuthorized
    \/ \E yes \in BOOLEAN : FinalReview(yes)

Spec == Init /\ [][Next]_vars
-----------------------------------------------------------------------------
(* Properties. *)

Automatic(d) == d.source \in {"policy", "task", "evidence", "validator", "declared"}
\* Whether what Test says holds of fewer than n elements between any two that end the count.
FewerThan(n, seq, Counts(_), Ends(_)) ==
    \A i \in DOMAIN seq : \A j \in i..Len(seq) :
        (\A k \in i..j : ~Ends(seq[k])) => CountOf(SubSeq(seq, i, j), Counts) < n

\* The decisions of this segment, which are those taken under the settings of now.
ThisSegment ==
    LET from == {i \in DOMAIN chain : \A j \in i..Len(chain) : chain[j].type # "resumed"}
    IN  {chain[i] : i \in {k \in from : chain[k].type = "decided" /\ chain[k].source # "final"}}

Asked == settings.start.terms

\* In every segment, nothing is approved without a person that is barred from it by what the person who started the run asked for: no
\* file that is named protected or sensitive or defines one of the checks, nothing outside the run's scope or that of the stories
\* still open, nothing guarded, no command or tool but a declared one (terms.go, decide.go, bars.go).
UnattendedIsClear ==
    \A d \in ThisSegment :
        d.approved /\ Automatic(d) =>
            IF d.of.kind = "edit"
            THEN /\ d.of.sound /\ ~d.of.guarded /\ ~Outside(d.of) /\ ~Strays(d.of.paths)
                 /\ d.of.paths \intersect Files(Asked.protected \union Asked.sensitive) = {}
                 /\ \A i \in DOMAIN Asked.checks : d.of.paths \intersect Files(CheckDefinitions(Asked.checks[i])) = {}
            ELSE Asked.away /\ d.source = "declared" /\ d.of \in Asked.awayCommands \union Asked.awayTools

\* The limits are those of the whole run, whatever was escalated, expired, cut off and continued in between: rules approve no more
\* than max_auto_approved, nothing at or after max_total_yields, and no change approved without a person takes the run past
\* max_files_changed (CheckLimits, Supervisor.Check, carry).
LimitsAreTheRuns ==
    /\ settings.maxAuto > 0 => AutoApproved <= settings.maxAuto
    /\ \A d \in ThisSegment :
        LET changed == UNION {e.paths : e \in {x \in Range(Proposed) : x.approved /\ x.seq <= d.seq}}
        IN  d.approved /\ Automatic(d) /\ d.of.kind = "edit" =>
                /\ settings.maxTotal > 0 => d.seq < settings.maxTotal
                /\ settings.maxFiles > 0 => Cardinality(changed) <= settings.maxFiles

\* Of any checkpoint_every proposals in a row that the supervisor saw, one is put to a person, parked or halts the run, across cuts
\* and continuations (drift.md: "one in every N proposals is reviewed").
CheckpointsAreKept ==
    settings.checkpoint > 0 =>
        FewerThan(settings.checkpoint, Supervised, LAMBDA d : Automatic(d), LAMBDA d : ~Automatic(d))

\* The reviewer models are watched: no more than validatorRejectLimit of their rejections follow each other, and a person sees
\* one in every validatorSampleEvery changes they agree to, in whatever segments those are (Validator.decide, restore).  An approval
\* that expired may have been a person's: it ends the count.
Agreements(d) == d.source = "validator" /\ d.approved
PanelIsWatched ==
    settings.panel # <<>> /\ ~settings.evidence =>
        LET put(d) == d.source \in {"operator", "parked"} \/ (d.source = "orchestrator" /\ d.paths # {}) IN
        /\ FewerThan(RejectLimit + 1, SelectSeq(Proposed, LAMBDA d : d.source = "validator" \/ put(d)),
                     LAMBDA d : ~d.approved, LAMBDA d : d.approved \/ put(d))
        /\ FewerThan(SampleEvery, Proposed, Agreements, put)

\* What a run's terms count holds over the whole run: limits, checkpoints and the watch on the panel start afresh with no
\* continuation, and no escalation, expiry or crash between a vote and its decision hides anything from them.
TermsHold == LimitsAreTheRuns /\ CheckpointsAreKept /\ PanelIsWatched

\* A run a person started delivers nothing that nobody has seen: after the last change approved by the task, on evidence or by a
\* reviewer model, in whatever segment, a person approved the whole change (finalReview; "only a final review made after the last
\* approval counts").
UnseenIsReviewed ==
    pc = "delivered" /\ ~settings.away /\ (\E i \in DOMAIN Approvals : Approvals[i].source \in {"task", "evidence", "validator"}) =>
        Finals # <<>> /\ Last(Finals).approved /\ Last(Finals) = Last(Decisions) /\ DOMAIN files = Last(Finals).paths

\* An away run delivers by itself only a change that rules of the policy approved in every part, of which nothing was put off in any
\* segment, and whose files are exactly those its checks last passed on (deliveryConditions).
AwayDeliversRules ==
    pc = "delivered" /\ settings.away =>
        /\ Asked.away /\ Asked.deliver = "policy" /\ Asked.signKey /\ settings.start.signed
        /\ \A i \in DOMAIN Proposed : Proposed[i].source # "parked"
        /\ \A p \in DOMAIN files : \E i \in DOMAIN Proposed :
              Proposed[i].request = files[p] /\ Proposed[i].source = "policy" /\ p \in Files(Asked.deliverPaths)
        /\ \A p \in DOMAIN files, i \in DOMAIN Asked.checks : p \notin Files(CheckDefinitions(Asked.checks[i]))
        /\ \E i \in DOMAIN chain : /\ chain[i].type = "checked" /\ chain[i].passed /\ chain[i].files = files
                                   /\ \A j \in i..Len(chain) : chain[j].type # "decided"

\* Nothing is delivered that neither a person saw as a whole nor the policy's rules and the checks vouch for.
DeliveredIsSeen == AwayDeliversRules /\ UnseenIsReviewed

\* The chain is the only authority (ADR 0005): what a continuation would rebuild from it is what the run in memory stands at, but for
\* rule approvals that a signal or the run's end turned into something else, and for a run that is over.
ReplayIsFaithful ==
    pc = "loop" /\ ~over =>
        /\ Rebuilt.total = live.total /\ Rebuilt.parked = live.parked /\ Rebuilt.drift = live.drift
        /\ settings.panel # <<>> => Rebuilt.validator = live.validator
        /\ Rebuilt.auto <= live.auto /\ (Rebuilt.task => live.task)

=============================================================================
