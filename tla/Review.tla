------------------------------- MODULE Review -------------------------------
(***************************************************************************)
(* An away run that awaits its owner's review, and the commands that may   *)
(* work on it at once (internal/orchestrator: away.go, prototype.go,       *)
(* recover.go, resume.go): `staircase decide` accepting or rejecting,      *)
(* `staircase decide --adopt` taking a parked proposal into the change,    *)
(* and a hosted session that resumes the run and withdraws the review.     *)
(*                                                                         *)
(* Adopting, delivering and resuming hold the owner lock; recording the    *)
(* decision and ending the run do not.  An append to the chain reads the   *)
(* last entry and inserts in two steps, under a lock of its own process    *)
(* only (persistence/store_events.go).                                     *)
(*                                                                         *)
(* A tree is the set of changes approved; the empty set is the base.       *)
(***************************************************************************)
EXTENDS Integers, FiniteSets

CONSTANTS
    Procs,        \* processes: each runs one command after another
    Parked,       \* proposals parked for the owner
    Work,         \* changes approved on evidence while the owner is away
    Nobody,       \* holds no lock
    Passing,      \* the trees on which the run's checks pass
    Scenes        \* who works on a run, and the bounds

\* In a scene: the processes and those that decide from the inbox, the changes, the first change on offer (one of the work, or nothing), and how many crashes and resumed
\* sessions there may be.
SceneOf == [procs : SUBSET Procs, inbox : SUBSET Procs, parked : SUBSET Parked, work : SUBSET Work, offered : SUBSET Work,
            crashes : Nat, sessions : Nat]

ASSUME ChangesAssumption == Parked \cap Work = {}
ASSUME NobodyAssumption == Nobody \notin Procs
ASSUME SceneAssumption == \A s \in Scenes : s \in SceneOf /\ s.offered \subseteq s.work /\ Cardinality(s.offered) <= 1 /\ s.offered \in Passing

VARIABLES
    scene,     \* which of the scenes this is
    row,       \* the run's row
    chain,     \* the audit chain, as what its replay says of it
    journal,   \* the approval journal's lines
    op,        \* the recovery record
    branch,    \* the tree of the run branch
    owner,     \* who holds the owner lock
    proc,      \* the memory of each process
    crashes    \* crashes so far (a bound)

vars == <<scene, row, chain, journal, op, branch, owner, proc, crashes>>

Changes == Parked \cup Work
Trees == SUBSET Changes

\* fresh: nobody wrote to the chain since this process read its last entry or wrote it
\* itself; named: the entry it is about to name is the one it means; shown: the entry
\* its owner looks at, or 0 when they named none.
Idle == [pc |-> "idle", cmd |-> "none", shown |-> 0, entry |-> 0, tree |-> {}, take |-> {}, n |-> 0,
         reading |-> FALSE, fresh |-> FALSE, named |-> FALSE]

\* An approval, and its line in the journal, is a number and a change.  The offer is the last awaiting_review entry, as the replay
\* keeps it: the entry's number, the tree, what was decided on it, and whether the phase_checked it names is on the chain before it.
\* A decision names the entry it is of.  linked: every entry was hashed over the one before it.
ReviewInit ==
    /\ scene \in Scenes
    /\ row = [status |-> "AWAITING_REVIEW", commit |-> {}]
    /\ chain = [approvals |-> [seq : {1}, change : scene.offered], last |-> Cardinality(scene.offered),
                offer |-> [entry |-> 1, tree |-> scene.offered, decided |-> "", checked |-> TRUE],
                decisions |-> {}, sessions |-> 0, ended |-> FALSE, linked |-> TRUE, broken |-> FALSE]
    /\ journal = chain.approvals
    /\ op = [made |-> FALSE, tree |-> {}, commit |-> {}]
    /\ branch = {}
    /\ owner = Nobody
    /\ proc = [p \in Procs |-> Idle]
    /\ crashes = 0

-----------------------------------------------------------------------------
(* The chain.                                                              *)

Approved == {l.change : l \in chain.approvals}

\* history.Read refuses a chain that does not verify, or that the replay refuses.
Readable == chain.linked /\ ~chain.broken

\* The journal has every approval, and nothing else up to the last decision.
Fits ==
    /\ chain.approvals \subseteq journal
    /\ \A l \in journal : l.seq > chain.last \/ l \in chain.approvals

Goto(p, pc) == proc' = [proc EXCEPT ![p].pc = pc]
Rest(p) == proc' = [proc EXCEPT ![p] = Idle] /\ owner' = IF owner = p THEN Nobody ELSE owner

Writing == {"decide", "request", "approve", "check", "offer", "certify", "record", "resumed", "session",
            "path"}

\* The first half of an append: the hash of the last entry.
ReadHead(p) ==
    /\ proc[p].pc \in Writing
    /\ ~proc[p].reading
    /\ proc' = [proc EXCEPT ![p].reading = TRUE, ![p].fresh = TRUE]
    /\ UNCHANGED <<scene, row, chain, journal, op, branch, owner, crashes>>

\* The second half: the insert.  One that follows another process's insert is hashed
\* over an entry that is not the one before it.
Write(p, next, after) ==
    /\ proc[p].reading
    /\ chain' = [next EXCEPT !.linked = @ /\ proc[p].fresh]
    /\ proc' = [q \in Procs |->
                   IF q = p THEN [after EXCEPT !.reading = FALSE, !.fresh = after # Idle]
                   ELSE [proc[q] EXCEPT !.fresh = FALSE]]

Decided(c, seq, named, change) ==
    IF c.ended \/ seq <= c.last \/ ~named THEN [c EXCEPT !.broken = TRUE]
    ELSE [c EXCEPT !.approvals = @ \cup {[seq |-> seq, change |-> change]}, !.last = seq]

-----------------------------------------------------------------------------
(* Accepting and rejecting (Decide).                                       *)

\* ReviewOf: what the run offers, read from a chain that verifies.
Offering == row.status = "AWAITING_REVIEW" /\ Readable /\ chain.offer.checked

\* The inbox: the owner looks at a review for as long as they like, and sees what a parked proposal would do, which writes nothing.
Show(p) ==
    /\ proc[p].pc = "idle" /\ p \in scene.inbox
    /\ Offering
    /\ proc' = [proc EXCEPT ![p] = [Idle EXCEPT !.pc = "inbox", !.cmd = "inbox", !.shown = chain.offer.entry]]
    /\ UNCHANGED <<scene, row, chain, journal, op, branch, owner, crashes>>

AnyShown(p) == proc[p].pc = IF p \in scene.inbox THEN "inbox" ELSE "idle"    \* mutant: the entry that was shown is not compared

\* A decision from the inbox is refused when the review is another by now; a flag decides what it reads.
IsShown(p) ==
    IF p \in scene.inbox THEN proc[p].pc = "inbox" /\ proc[p].shown = chain.offer.entry ELSE proc[p].pc = "idle"

\* A decided review is only accepted again; an empty change has nothing to recover.
Look(p, cmd) ==
    LET offer == chain.offer
        saw == [Idle EXCEPT !.cmd = cmd, !.shown = proc[p].shown, !.entry = offer.entry, !.tree = offer.tree]
    IN  /\ Offering
        /\ IsShown(p)
        /\ offer.decided = "" \/ (offer.decided = "accepted" /\ cmd = "accept")
        /\ proc' = [proc EXCEPT ![p] = [saw EXCEPT !.pc =
                       IF offer.decided = "" THEN "decide"
                       ELSE IF offer.tree = {} THEN "finish" ELSE "recover"]]
        /\ UNCHANGED <<scene, row, chain, journal, op, branch, owner, crashes>>

\* review_accepted or review_rejected.  It names the review it was made on; the replay
\* takes it for a decision of the last review offered.
RecordDecision(p) ==
    LET me == proc[p]
        yes == me.cmd = "accept"
    IN  /\ me.pc = "decide"
        /\ Write(p, [chain EXCEPT !.offer.decided = IF yes THEN "accepted" ELSE "rejected",
                                  !.decisions = @ \cup {[entry |-> me.entry, tree |-> me.tree, accepted |-> yes, shown |-> me.shown]}],
                 [me EXCEPT !.pc = IF yes /\ me.tree # {} THEN "recover" ELSE "finish"])
        /\ UNCHANGED <<scene, row, journal, op, branch, owner, crashes>>

FinishAs(p, status) ==
    /\ proc[p].pc = "finish"
    /\ row' = [status |-> status, commit |-> {}]
    /\ Rest(p)
    /\ UNCHANGED <<scene, chain, journal, op, branch, crashes>>

\* FinishRun: the row is FAILED and without a commit, whatever it was.
FinishDecided(p) == FinishAs(p, "FAILED")

-----------------------------------------------------------------------------
(* Delivering what was accepted (Recover).                                 *)

MayRecover == row.commit # {} => op.made /\ op.commit = row.commit

ReadFor(p, same) ==
    /\ proc[p].pc = "recover"
    /\ MayRecover
    /\ row.status # "SUCCESS"
    /\ row.status = "RUNNING" => owner = Nobody
    /\ Readable
    /\ Fits
    /\ Approved # {}
    /\ same
    /\ proc' = [proc EXCEPT ![p].pc = "claim", ![p].take = Approved]
    /\ UNCHANGED <<scene, row, chain, journal, op, branch, owner, crashes>>

RecoverAnything(p) == ReadFor(p, TRUE)    \* mutant: the derived tree is not compared with the accepted one

\* What the approvals derive must be the tree that was accepted.
RecoverAccepted(p) == ReadFor(p, Approved = proc[p].tree)

ClaimRecovery(p) ==
    /\ proc[p].pc = "claim"
    /\ owner = Nobody
    /\ MayRecover
    /\ op.made => op.tree = proc[p].take
    /\ owner' = p
    /\ Goto(p, IF op.made THEN "deliver" ELSE "op")
    /\ UNCHANGED <<scene, row, chain, journal, op, branch, crashes>>

RecordAs(p, record) ==
    /\ proc[p].pc = "op"
    /\ op' = record
    /\ Goto(p, "deliver")
    /\ UNCHANGED <<scene, row, chain, journal, branch, owner, crashes>>

RecordOp(p) == RecordAs(p, [made |-> TRUE, tree |-> proc[p].take, commit |-> {}])

\* The branch moves from the base, or holds this operation's commit already.
DeliverAccepted(p) ==
    /\ proc[p].pc = "deliver"
    /\ \/ branch = {} /\ branch' = proc[p].take
       \/ branch # {} /\ op.made /\ UNCHANGED branch
    /\ Goto(p, "keep")
    /\ UNCHANGED <<scene, row, chain, journal, op, owner, crashes>>

\* What follows the branch's move may each fail, and is then only reported.
KeepCommit(p) ==
    /\ proc[p].pc = "keep"
    /\ op' \in {op, [op EXCEPT !.commit = branch]}
    /\ Goto(p, "certify")
    /\ UNCHANGED <<scene, row, chain, journal, branch, owner, crashes>>

\* certificate_issued, then review_delivered: either ends the chain's decisions.
RecordDelivery(p) ==
    LET me == proc[p]
        next == IF me.pc = "certify" THEN "record" ELSE "recovered"
    IN  /\ me.pc \in {"certify", "record"}
        /\ \/ Write(p, [chain EXCEPT !.ended = TRUE], [me EXCEPT !.pc = next])
           \/ UNCHANGED chain /\ proc' = [proc EXCEPT ![p].pc = next, ![p].reading = FALSE]
        /\ UNCHANGED <<scene, row, journal, op, branch, owner, crashes>>

FinishRecovery(p) ==
    /\ proc[p].pc = "recovered"
    /\ row' \in {row} \cup (IF row.commit = branch THEN {} ELSE {[status |-> "SUCCESS", commit |-> branch]})
    /\ Rest(p)
    /\ UNCHANGED <<scene, chain, journal, op, branch, crashes>>

-----------------------------------------------------------------------------
(* Adopting a parked proposal (Adopt).                                     *)

\* What is looked at is the review on offer, decided or not.
LookToAdopt(p, c) ==
    /\ Offering
    /\ IsShown(p)
    /\ proc' = [proc EXCEPT ![p] = [Idle EXCEPT !.pc = "adopt", !.cmd = "adopt", !.take = {c},
                                                !.shown = proc[p].shown, !.entry = chain.offer.entry]]
    /\ UNCHANGED <<scene, row, chain, journal, op, branch, owner, crashes>>

AdoptedReviewed(c) == c \in chain.offer.tree    \* mutant: an adoption that was not reviewed yet is not seen

Adopted(c) == c \in Approved

NumberedAgain == chain.last    \* mutant: the last decision's number
Numbered == chain.last + 1

\* The checks pass on the change with the proposal in it.
Fitting(tree) == tree \in Passing

\* The lock is taken, the chain and the journal are read again.  An adoption that was
\* interrupted after its decision only needs its review.
ClaimToAdopt(p) ==
    LET me == proc[p]
        done == \A c \in me.take : Adopted(c)
    IN  /\ me.pc = "adopt"
        /\ owner = Nobody
        /\ Readable
        /\ Fits
        /\ done => ~(me.take \subseteq chain.offer.tree)
        /\ Fitting(Approved \cup me.take)
        /\ owner' = p
        /\ proc' = [proc EXCEPT ![p].pc = IF done THEN "check" ELSE "request",
                                ![p].n = Numbered, ![p].tree = Approved \cup me.take]
        /\ UNCHANGED <<scene, row, chain, journal, op, branch, crashes>>

\* yield_request with the parked proposal's edits.
RequestAdoption(p) ==
    /\ proc[p].pc = "request"
    /\ Write(p, chain, [proc[p] EXCEPT !.pc = "journal"])
    /\ UNCHANGED <<scene, row, journal, op, branch, owner, crashes>>

KeepLine(p, allowed) ==
    /\ proc[p].pc = "journal"
    /\ allowed
    /\ journal' = journal \cup [seq : {proc[p].n}, change : proc[p].take]
    /\ proc' = [proc EXCEPT ![p].pc = "approve", ![p].named = proc[p].fresh]
    /\ UNCHANGED <<scene, row, chain, op, branch, owner, crashes>>

\* The entry it takes for its request is the chain's last; its journal line stands when
\* it is there already, and is refused when another has its number.
KeepAdopted(p) == KeepLine(p, \A l \in journal : l.seq = proc[p].n => l.change \in proc[p].take)

\* The owner's decision.
ApproveAdopted(p) ==
    /\ proc[p].pc = "approve"
    /\ \E c \in proc[p].take :
          Write(p, Decided(chain, proc[p].n, proc[p].named, c), [proc[p] EXCEPT !.pc = "check"])
    /\ UNCHANGED <<scene, row, journal, op, branch, owner, crashes>>

-----------------------------------------------------------------------------
(* Offering a change: phase_checked, then awaiting_review.                 *)

RecordChecked(p) ==
    /\ proc[p].pc = "check"
    /\ Write(p, chain, [proc[p] EXCEPT !.pc = "checked"])
    /\ UNCHANGED <<scene, row, journal, op, branch, owner, crashes>>

NameChecked(p) ==
    /\ proc[p].pc = "checked"
    /\ proc' = [proc EXCEPT ![p].pc = "offer", ![p].named = proc[p].fresh]
    /\ UNCHANGED <<scene, row, chain, journal, op, branch, owner, crashes>>

OfferAs(p, decided) ==
    LET me == proc[p]
        session == me.cmd = "session"
    IN  /\ me.pc = "offer"
        /\ Write(p, [chain EXCEPT !.offer = [entry |-> @.entry + 1, tree |-> me.tree,
                                             decided |-> decided, checked |-> me.named]],
                 IF session THEN [me EXCEPT !.pc = "rest"]
                 ELSE IF p \in scene.inbox THEN [Idle EXCEPT !.pc = "inbox", !.cmd = "inbox", !.shown = chain.offer.entry + 1]
                 ELSE Idle)
        /\ owner' = IF session THEN owner ELSE Nobody
        /\ UNCHANGED <<scene, row, journal, op, branch, crashes>>

Offer(p) == OfferAs(p, "")

-----------------------------------------------------------------------------
(* A hosted session resumes the run and withdraws its review.              *)

ClaimSession(p) ==
    /\ proc[p].pc = "idle"
    /\ owner = Nobody
    /\ row.commit = {}
    /\ row.status \in {"AWAITING_REVIEW", "RUNNING", "KILLED"}
    /\ ~op.made
    /\ Readable
    /\ Fits
    /\ row.status = "AWAITING_REVIEW" => chain.offer.decided = ""
    /\ ~chain.ended
    /\ chain.sessions < scene.sessions
    /\ owner' = p
    /\ proc' = [proc EXCEPT ![p] = [Idle EXCEPT !.pc = "reopen", !.cmd = "session"]]
    /\ UNCHANGED <<scene, row, chain, journal, op, branch, crashes>>

ReopenRun(p) ==
    /\ proc[p].pc = "reopen"
    /\ row.commit = {}
    /\ row.status \in {"AWAITING_REVIEW", "RUNNING", "KILLED"}
    /\ row' = [row EXCEPT !.status = "RUNNING"]
    /\ Goto(p, "resumed")
    /\ UNCHANGED <<scene, chain, journal, op, branch, owner, crashes>>

\* run_resumed names the review it withdraws; the replay keeps the review.  The journal
\* lines after the last decision are dropped.
Withdraw(p) ==
    /\ proc[p].pc = "resumed"
    /\ Write(p, [chain EXCEPT !.sessions = @ + 1, !.broken = @ \/ chain.ended], [proc[p] EXCEPT !.pc = "session"])
    /\ journal' = {l \in journal : l.seq <= chain.last}
    /\ UNCHANGED <<scene, row, op, branch, owner, crashes>>

\* The session has more approved: Run.tla has its steps, here they are one.
SessionApproves(p, c) ==
    /\ proc[p].pc = "session"
    /\ c \notin Approved
    /\ Approved \cup {c} \in Passing
    /\ Write(p, Decided(chain, Numbered, TRUE, c), proc[p])
    /\ journal' = journal \cup {[seq |-> Numbered, change |-> c]}
    /\ UNCHANGED <<scene, row, op, branch, owner, crashes>>

\* Its row says how it ended; the owner may decide from here on.
EndSession(p, statuses) ==
    /\ row' \in {[status |-> s, commit |-> {}] : s \in statuses}
    /\ proc' = [proc EXCEPT ![p].pc = "path", ![p].reading = FALSE]
    /\ UNCHANGED <<scene, chain, journal, op, branch, owner, crashes>>

\* It ends with an offer, or does not get that far.
SessionEnds(p) ==
    /\ proc[p].pc = "session"
    /\ \/ /\ Approved \in Passing
          /\ proc' = [proc EXCEPT ![p].pc = "check", ![p].reading = FALSE, ![p].tree = Approved]
          /\ UNCHANGED <<scene, row, chain, journal, op, branch, owner, crashes>>
       \/ EndSession(p, {"KILLED"})

SessionRests(p) == proc[p].pc = "rest" /\ EndSession(p, {"AWAITING_REVIEW"})

\* run_path, if it can be written; then the lock is released.
SessionReleases(p) ==
    /\ proc[p].pc = "path"
    /\ \/ Write(p, chain, Idle)
       \/ UNCHANGED chain /\ proc' = [proc EXCEPT ![p] = Idle]
    /\ owner' = Nobody
    /\ UNCHANGED <<scene, row, journal, op, branch, crashes>>

-----------------------------------------------------------------------------
(* Failures, and all of it together.                                       *)

\* A command is refused, cancelled or cannot write, and returns.
Stops(p) ==
    /\ proc[p].pc \in {"inbox", "decide", "finish", "recover", "claim", "op", "deliver", "adopt", "request",
                       "journal", "approve", "check", "checked", "offer", "reopen", "resumed"}
    /\ proc[p].cmd # "session" \/ proc[p].pc = "reopen"
    /\ Rest(p)
    /\ UNCHANGED <<scene, row, chain, journal, op, branch, crashes>>

\* A session that cannot write ends its run as well as it can.
SessionFails(p) ==
    /\ proc[p].cmd = "session"
    /\ proc[p].pc \in {"resumed", "check", "checked", "offer"}
    /\ EndSession(p, {"FAILED", "KILLED"})

CrashOf(p) ==
    /\ proc[p].pc # "idle"
    /\ crashes < scene.crashes
    /\ crashes' = crashes + 1
    /\ Rest(p)
    /\ UNCHANGED <<scene, row, chain, journal, op, branch>>

Decide(p) == Show(p) \/ Look(p, "accept") \/ Look(p, "reject") \/ RecordDecision(p) \/ FinishDecided(p)
Recover(p) ==
    \/ RecoverAccepted(p) \/ ClaimRecovery(p) \/ RecordOp(p) \/ DeliverAccepted(p) \/ KeepCommit(p)
    \/ RecordDelivery(p) \/ FinishRecovery(p)
Adopt(p) ==
    \/ \E c \in scene.parked : LookToAdopt(p, c)
    \/ ClaimToAdopt(p) \/ RequestAdoption(p) \/ KeepAdopted(p) \/ ApproveAdopted(p)
    \/ RecordChecked(p) \/ NameChecked(p) \/ Offer(p)
Session(p) ==
    \/ ClaimSession(p) \/ ReopenRun(p) \/ Withdraw(p)
    \/ \E c \in scene.work : SessionApproves(p, c)
    \/ SessionEnds(p) \/ SessionRests(p) \/ SessionReleases(p) \/ SessionFails(p)

ReviewNext == \E p \in scene.procs :
    \/ ReadHead(p) \/ Decide(p) \/ Recover(p) \/ Adopt(p) \/ Session(p)
    \/ Stops(p) \/ CrashOf(p)
ReviewSpec == ReviewInit /\ [][ReviewNext]_vars

-----------------------------------------------------------------------------
(* Properties.                                                             *)

\* ADR 0007: a proposal can be adopted once, whatever is interrupted and whoever adopts
\* at the same time.
AdoptedOnce == \A d, e \in chain.approvals : d.change = e.change => d = e

\* recover_history.go: an interrupted adoption or session leaves no line that the chain
\* cannot explain, so the run can still be opened.
JournalFits == Readable => Fits

\* Two commands at once can fork the chain: an append is two steps.
Alone == Cardinality(scene.procs) = 1

\* history.go: until a delivery ends it, the chain can be read, whatever is interrupted and
\* withdrawn, when no two commands work on the run at once; and the journal's lines are on it.
ReviewReadable == (Alone => chain.ended \/ Readable) /\ JournalFits

\* away.go: a review is decided by a decision that names it, when no two commands work on
\* the run at once.
DecisionNamesOffer ==
    Alone /\ chain.offer.decided # "" =>
        \E d \in chain.decisions : /\ d.entry = chain.offer.entry
                                   /\ d.accepted = (chain.offer.decided = "accepted")

\* Exactly what the owner accepted, on the chain, is delivered: with two commands at once an acceptance may be taken for
\* that of a change that was offered after it.
DeliveredIsAccepted == Alone /\ branch # {} => \E d \in chain.decisions : d.accepted /\ d.tree = branch

\* decide.go: a decision from the inbox is of the entry its owner was shown, whoever decides or adopts meanwhile.
DecisionIsOfShown == \A d \in chain.decisions : d.shown \in {0, d.entry}

\* prototype.go: only a change with which the checks pass is adopted, and so delivered.
DeliveredPasses == branch \in Passing \cup {{}}

\* An owner decides what is on offer and was shown, and gets what they accepted.
OwnerDecides == DecisionNamesOffer /\ DeliveredIsAccepted /\ DecisionIsOfShown /\ DeliveredPasses

=============================================================================
