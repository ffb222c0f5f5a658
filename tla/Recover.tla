------------------------------ MODULE Recover ------------------------------
(***************************************************************************)
(* Recovering what an interrupted run had approved                         *)
(* (internal/orchestrator: recover.go, recover_op.go, recover_history.go). *)
(*                                                                         *)
(* `staircase recover` reads the chain and the journal, works out what to  *)
(* commit, and only then takes the owner lock: the row and the recovery    *)
(* record are read again under it, the chain and the journal are not.      *)
(* What it read is rec.seen.                                               *)
(***************************************************************************)
EXTENDS Resume

VARIABLE rec    \* the memory of the process that recovers

NoRec == [pc |-> "none", seen |-> NoHistory, status |-> "NONE", review |-> FALSE,
          adopted |-> FALSE, commit |-> NoCommit]
Recs == [pc : {"none", "claim", "review", "op", "deliver", "keep", "certify", "record", "finish"},
         seen : Histories, status : Statuses, review : BOOLEAN, adopted : BOOLEAN, commit : AnyCommit]

RecGoto(pc) == rec' = [rec EXCEPT !.pc = pc]

\* What the history that was read says is to be committed.
Want == TreeOf(Approvals(rec.seen))

\* Nothing to recover, or only its own unfinished work.
Recoverable ==
    /\ db.status \notin {"NONE", "SUCCESS"}
    /\ db.commit # NoCommit => op.made /\ op.commit = db.commit

ReadNeeding(review) ==
    /\ rec.pc = "none"
    /\ Recoverable
    /\ db.status = "RUNNING" => owner = "none"
    /\ Opens
    /\ Approvals(hist) # {}
    /\ ~ReviewedOtherBytes(hist)
    /\ rec' = [NoRec EXCEPT !.pc = "claim", !.seen = hist, !.review = review]
    /\ UNCHANGED vars

\* Everything is read and checked before the run is owned; only a run whose row says
\* RUNNING is asked for a live owner here.
RecoverRead == ReadNeeding(TaskApproved(hist) /\ ~FinalReviewed(hist))

\* All of it is on record already: nothing to repair.
EvidenceComplete ==
    /\ db.commit # NoCommit
    /\ Delivers(hist, "run_recovered", db.commit)
    /\ Delivers(hist, "certificate_issued", db.commit)

\* The branch holds the commit the run itself named on its chain before it died, and
\* no review is missing.
RunMadeCommit ==
    /\ branch.tree = Want
    /\ Delivers(rec.seen, "commit_prepared", branch)
    /\ ~rec.review

ClaimUnlocked ==    \* mutant: the owner lock is not asked
    /\ rec.pc = "claim"
    /\ db.commit # NoCommit => op.made /\ op.commit = db.commit
    /\ op.made => op.tree = Want /\ op.approvals = Approvals(rec.seen)
    /\ ~EvidenceComplete
    /\ owner' = "recovery"
    /\ rec' = [rec EXCEPT !.status = db.status, !.adopted = RunMadeCommit,
                          !.pc = IF op.made THEN "deliver"
                                 ELSE IF rec.review THEN "review" ELSE "op"]
    /\ UNCHANGED <<db, hist, journal, branch, worktree, op, run, told, crashes>>

\* The locks are taken, and the row and the recovery record read again.
RecoverClaim ==
    /\ rec.pc = "claim"
    /\ owner = "none"
    /\ db.commit # NoCommit => op.made /\ op.commit = db.commit
    /\ op.made => op.tree = Want /\ op.approvals = Approvals(rec.seen)
    /\ ~EvidenceComplete
    /\ owner' = "recovery"
    /\ rec' = [rec EXCEPT !.status = db.status, !.adopted = RunMadeCommit,
                          !.pc = IF op.made THEN "deliver"
                                 ELSE IF rec.review THEN "review" ELSE "op"]
    /\ UNCHANGED <<db, hist, journal, branch, worktree, op, run, told, crashes>>

ReviewNumbered(n, approved) ==
    /\ rec.pc = "review"
    /\ rec.seen.lastDecided <= MaxSeq
    /\ hist' = YieldDecided(hist,
                   [seq |-> n, kind |-> "final_review", req |-> None, source |-> "operator",
                    approved |-> approved, unconsumed |-> FALSE, tree |-> Want])
    /\ IF approved THEN RecGoto("op") /\ UNCHANGED owner
       ELSE rec' = NoRec /\ owner' = "none"
    /\ UNCHANGED <<db, journal, branch, worktree, op, run, told, crashes>>

ReviewReused(approved) == ReviewNumbered(rec.seen.lastDecided, approved)    \* mutant: the last number again

\* The final review a finished run would have had, numbered after the last decision
\* that was read.  Refused: nothing is committed.  (Recoveries may be refused for ever:
\* MaxSeq bounds the numbers here too.)
RecoverReview(approved) == ReviewNumbered(rec.seen.lastDecided + 1, approved)

\* What it is about to do is on disk before git is touched.
RecoverOp ==
    /\ rec.pc = "op"
    /\ op' = [made |-> TRUE, tree |-> Want, approvals |-> Approvals(rec.seen), commit |-> NoCommit]
    /\ RecGoto("deliver")
    /\ UNCHANGED <<db, hist, journal, branch, worktree, owner, run, told, crashes>>

OwnCommit == [tree |-> op.tree, maker |-> "recovery"]

\* The branch moves from the base to this operation's commit, or is already at it, or
\* at the run's own commit, which is adopted.
RecoverDeliver ==
    /\ rec.pc = "deliver"
    /\ \/ branch = BaseCommit /\ branch' = OwnCommit
       \/ branch = OwnCommit /\ UNCHANGED branch
       \/ rec.adopted /\ branch.maker = "run" /\ UNCHANGED branch
    /\ rec' = [rec EXCEPT !.pc = "keep", !.commit = branch']
    /\ UNCHANGED <<db, hist, journal, worktree, op, owner, run, told, crashes>>

\* Each of the four writes that follow may fail, and is then only reported.
RecoverKeep ==
    /\ rec.pc = "keep"
    /\ op' \in {op, [op EXCEPT !.commit = rec.commit]}
    /\ RecGoto("certify")
    /\ UNCHANGED <<db, hist, journal, branch, worktree, owner, run, told, crashes>>

OwnCertificate == rec.adopted /\ Delivers(hist, "certificate_issued", rec.commit)

RecoverCertify ==
    /\ rec.pc = "certify"
    /\ \/ UNCHANGED hist
       \/ ~OwnCertificate /\ hist' = CommitEvent(hist, "certificate_issued", rec.commit)
    /\ RecGoto("record")
    /\ UNCHANGED <<db, journal, branch, worktree, op, owner, run, told, crashes>>

RecoverRecord ==
    /\ rec.pc = "record"
    /\ hist' \in {hist, CommitEvent(hist, "run_recovered", rec.commit)}
    /\ RecGoto("finish")
    /\ UNCHANGED <<db, journal, branch, worktree, op, owner, run, told, crashes>>

\* The row comes last.  A run that crashed is finished here as KILLED.
RecoverFinish ==
    LET status == IF rec.status = "RUNNING" THEN "KILLED" ELSE rec.status IN
    /\ rec.pc = "finish"
    /\ db' \in {db} \cup {[status |-> status, commit |-> c] : c \in {rec.commit} \ {db.commit}}
    /\ owner' = "none"
    /\ rec' = NoRec
    /\ UNCHANGED <<hist, journal, branch, worktree, op, run, told, crashes>>

\* A recovery that is cancelled, refused or cannot write before the branch moves.
RecoverStops ==
    /\ rec.pc \in {"claim", "review", "op", "deliver"}
    /\ rec' = NoRec
    /\ owner' = IF rec.pc = "claim" THEN owner ELSE "none"
    /\ UNCHANGED <<db, hist, journal, branch, worktree, op, run, told, crashes>>

RecoverCrash ==
    /\ rec.pc \notin {"none", "claim", "review"}
    /\ crashes < MaxCrashes
    /\ crashes' = crashes + 1
    /\ rec' = NoRec
    /\ owner' = "none"
    /\ UNCHANGED <<db, hist, journal, branch, worktree, op, run, told>>
=============================================================================
