------------------------------- MODULE Cases -------------------------------
(***************************************************************************)
(* The records of a case and the commands that keep them: its row and its  *)
(* stories, its runs with their branches and worktrees, its audit rows,    *)
(* and what retention archives and deletes (internal/persistence,          *)
(* cmd/staircase case, story and clean, internal/orchestrator prepare,     *)
(* open, finish, ReopenRun and Reconcile).                                 *)
(*                                                                         *)
(* Every command is a process of its own on one database and one           *)
(* repository; a step is a statement, a transaction or a git command.      *)
(* What a run decides and delivers is in the modules Run and Delivery:     *)
(* here it has a worktree with work in it, and a branch that is at the     *)
(* base commit or holds the run's own commit.  There is one case, and its  *)
(* project has a source path.  The base commit is reachable from the       *)
(* branch the run was started on.                                          *)
(* Not modelled: --skip-gates, `recover`, and what of tmp/ clean removes.  *)
(***************************************************************************)
EXTENDS Integers, FiniteSets, Sequences, FiniteSetsExt

CONSTANTS
    Procs,      \* processes, each a command at a time
    Stories,    \* stories the case may have
    KeepRows,   \* cleanKeepEventRows
    MaxRuns,    \* bound: runs of the case
    MaxRows,    \* bound: audit rows; the commands that add one of their own stop short of it
    MaxCrashes, \* bound: processes killed
    Scenes      \* bound: what an instance explores, as the commands used, those used at the same time, and the runs

ASSUME CasesAssumption ==
    /\ KeepRows \in Nat /\ MaxRuns \in Nat /\ MaxRows \in Nat /\ MaxCrashes \in Nat
    /\ Scenes \subseteq [used : SUBSET STRING, together : SUBSET STRING, runs : 1..MaxRuns]

VARIABLES
    scene,      \* the commands of this behaviour
    case,       \* the case's row: whether it is there, its status, and deleted_at
    stories,    \* the status of each story; "none" is not added yet
    runs,       \* the rows of the runs, by id
    log,        \* every audit row that was inserted, in order of id: the run it is of and what it says
    stored,     \* the ids still in the table
    archive,    \* what files under archive/ hold: ids of audit rows, ids of runs, whether the case
    repo,       \* per run, its branch, its worktree, and what became of its commit
    hold,       \* a file named legal-hold is there
    procs,      \* what each process is doing
    crashes

records == <<case, stories, runs, log, stored, archive, repo>>
caseVars == <<scene, case, stories, runs, log, stored, archive, repo, hold, procs, crashes>>

RunIds == 1..MaxRuns

\* A run's row.  late: it started more than two hours ago.
NewRun == [status |-> "RUNNING", commit |-> FALSE, late |-> FALSE]
\* A run's branch is at the base, or holds its work; old: its tip was committed more than 30 days ago; merged: another
\* branch holds it.  made: the run's commit was made; discarded: a person rolled it back; untold: the run ended without its
\* summary.
NoBranch == [tip |-> "none", old |-> FALSE, merged |-> FALSE, tree |-> "none", made |-> FALSE, discarded |-> FALSE,
             untold |-> FALSE]
Idle == [at |-> "idle", cmd |-> "none", run |-> 0, saw |-> {}, rows |-> {}, final |-> "none"]

InitCases ==
    /\ scene \in Scenes
    /\ case = [here |-> TRUE, status |-> "PENDING", flagged |-> FALSE]
    /\ \E first \in Stories : stories = [s \in Stories |-> IF s = first THEN "PENDING" ELSE "none"]
    /\ runs = <<>> /\ log = <<>> /\ stored = {}
    /\ archive = [rows |-> {}, runs |-> {}, case |-> FALSE]
    /\ repo = [n \in RunIds |-> NoBranch]
    /\ hold = FALSE
    /\ procs = [p \in Procs |-> Idle]
    /\ crashes = 0

----------------------------------------------------------------------------
(* Operators *)

At(p, step) == procs[p].at = step
Running(n) == runs[n].status = "RUNNING"
\* The owner lock (runowner.go): taken when the run's row is made or before a continuation looks, kept to the end.
OwnerSteps == {"open", "reopening", "bound", "driving", "delivered", "ending"}
Owned(n) == \E p \in Procs : procs[p].run = n /\ procs[p].at \in OwnerSteps

\* Branches grow old only where clean asks for it.
Ages == "clean" \in scene.used

\* A command may start beside others when the scene says that those go together.
May(p, cmd) ==
    /\ At(p, "idle")
    /\ cmd \in scene.used
    /\ \A q \in Procs : At(q, "idle") \/ (cmd \in scene.together /\ procs[q].cmd \in scene.together)

Go(p, step) == procs' = [procs EXCEPT ![p].at = step]
Start(p, cmd, step, n) == procs' = [procs EXCEPT ![p] = [Idle EXCEPT !.at = step, !.cmd = cmd, !.run = n]]
Done(p) == procs' = [procs EXCEPT ![p] = Idle]

Row(n, what, s) == [run |-> n, what |-> what, story |-> s]
Append1(n, what, s) ==
    /\ log' = Append(log, Row(n, what, s))
    /\ stored' = stored \union {Len(log) + 1}
RowsOf(n) == {i \in stored : log[i].run = n}

\* caseStatusAfter: the rule for the case's status after a run ended.
CaseStatusAfter(status, theStories) ==
    IF status = "AWAITING_REVIEW" THEN "PENDING"
    ELSE IF status # "SUCCESS" THEN "FAILED"
    ELSE IF \E s \in Stories : theStories[s] \notin {"none", "IMPLEMENTED"} THEN "PENDING"
    ELSE "COMPLETED"

\* FinishRun: the run's row and the case's in one transaction.
FinishRun(n, status, commit) ==
    /\ runs' = [runs EXCEPT ![n].status = status, ![n].commit = commit]
    /\ case' = [case EXCEPT !.status = CaseStatusAfter(status, stories)]

----------------------------------------------------------------------------
(* `run`: the gates look, the run is opened, and it ends.  When its case is deleted under it, its row and its chain
   refuse every write and it stops where it is. *)

BeginRun(p) ==
    /\ May(p, "run") /\ case.here /\ Len(runs) < scene.runs
    /\ Start(p, "run", "planned", 0)
    /\ UNCHANGED <<scene, records, hold, crashes>>

\* The gates on the case's records: case.project_exists, case.has_stories, runtime.no_concurrent_run.
CaseGates ==
    /\ case.here /\ ~case.flagged
    /\ \E s \in Stories : stories[s] = "PENDING"
    /\ \A n \in DOMAIN runs : ~Running(n)

PassGates(p) ==
    /\ At(p, "planned") /\ CaseGates
    /\ Go(p, "gated")
    /\ UNCHANGED <<scene, records, hold, crashes>>

\* Composed with the gates on the plan, which may fail instead (Workspace).
FailGates(p) ==
    /\ At(p, "planned")
    /\ Done(p)
    /\ UNCHANGED <<scene, records, hold, crashes>>

\* As when the statement asks for the age alone.
StaleByAge(n) == runs[n].late
\* KillStaleRuns: one statement, whatever the owner locks say.
Stale(n) == Running(n) /\ runs[n].late
KillStaleRuns == [n \in DOMAIN runs |-> IF Stale(n) THEN [runs[n] EXCEPT !.status = "KILLED"] ELSE runs[n]]

\* firstSegment.open: KillStaleRuns, CreateRun, claimRun (of a number nobody else has).
OpenRun(p) ==
    /\ At(p, "gated") /\ case.here /\ Len(runs) < scene.runs
    /\ runs' = Append(KillStaleRuns, NewRun)
    /\ procs' = [procs EXCEPT ![p].at = "open", ![p].run = Len(runs) + 1]
    /\ UNCHANGED <<scene, case, stories, log, stored, archive, repo, hold, crashes>>

\* firstSegment.checkout: the branch and the worktree at the base, then what the run is bound to.
Checkout(p) ==
    LET n == procs[p].run IN
    /\ At(p, "open") /\ case.here
    /\ \E old \in {FALSE, Ages} : repo' = [repo EXCEPT ![n] = [NoBranch EXCEPT !.tip = "base", !.old = old, !.tree = "clean"]]
    /\ Append1(n, "bound", "none")
    /\ Go(p, "bound")
    /\ UNCHANGED <<scene, case, stories, runs, archive, hold, crashes>>

EnterLoop(p) ==
    /\ At(p, "bound") /\ case.here
    /\ case' = [case EXCEPT !.status = "RUNNING"]
    /\ Go(p, "driving")
    /\ UNCHANGED <<scene, stories, runs, log, stored, archive, repo, hold, crashes>>

\* The agent's approved edits are applied to the worktree.
Work(p) ==
    LET n == procs[p].run IN
    /\ At(p, "driving") /\ repo[n].tree = "clean"
    /\ repo' = [repo EXCEPT ![n].tree = "dirty"]
    /\ UNCHANGED <<scene, case, stories, runs, log, stored, archive, hold, procs, crashes>>

\* prepare and deliver: the branch moves from the base to the run's commit, or nothing is delivered.
Deliver(p) ==
    LET n == procs[p].run IN
    /\ At(p, "driving") /\ repo[n].tree = "dirty" /\ repo[n].tip = "base"
    /\ repo' = [repo EXCEPT ![n].tip = "work", ![n].old = FALSE, ![n].made = TRUE]
    /\ Go(p, "delivered")
    /\ UNCHANGED <<scene, case, stories, runs, log, stored, archive, hold, crashes>>

\* How a run may end from where it is: an undelivered run that proposed nothing is a success too.
Endings(p) ==
    LET n == procs[p].run IN
    IF At(p, "delivered") THEN {"SUCCESS"}
    ELSE IF At(p, "bound") THEN {"FAILED", "KILLED"}
    ELSE {"FAILED", "KILLED"} \union (IF repo[n].tree = "clean" THEN {"SUCCESS"} ELSE {})
                             \union (IF repo[n].tree = "dirty" THEN {"AWAITING_REVIEW"} ELSE {})

\* finish, first: the run's record.
Finish(p) ==
    LET n == procs[p].run IN
    /\ procs[p].at \in {"bound", "driving", "delivered"} /\ case.here
    /\ \E status \in Endings(p) :
         /\ FinishRun(n, status, At(p, "delivered"))
         /\ procs' = [procs EXCEPT ![p].at = "ending", ![p].final = status]
    /\ UNCHANGED <<scene, stories, log, stored, archive, repo, hold, crashes>>

\* finish, then: run_ended on the chain, and what becomes of the worktree.
End(p) ==
    LET n == procs[p].run IN
    /\ At(p, "ending") /\ case.here
    /\ Append1(n, "ended", "none")
    /\ repo' = IF procs[p].final = "SUCCESS" THEN [repo EXCEPT ![n].tree = "none"] ELSE repo
    /\ Done(p)
    /\ UNCHANGED <<scene, case, stories, runs, archive, hold, crashes>>

\* The summary cannot be written: the run is FAILED now, whatever was recorded, and keeps its worktree and its commit.
EndUntold(p) ==
    LET n == procs[p].run IN
    /\ At(p, "ending") /\ case.here
    /\ FinishRun(n, "FAILED", repo[n].made)
    /\ Append1(n, "ended", "none")
    /\ repo' = [repo EXCEPT ![n].untold = TRUE]
    /\ Done(p)
    /\ UNCHANGED <<scene, stories, archive, hold, crashes>>

----------------------------------------------------------------------------
(* `resume` *)

\* ReopenRun's own condition.
Reopenable(n) == runs[n].status \in {"RUNNING", "KILLED", "AWAITING_REVIEW"} /\ ~runs[n].commit

\* prepareContinuation: the claim, then every check; a run that has no worktree or whose branch moved is refused.
BeginResume(p, n) ==
    /\ May(p, "resume") /\ case.here /\ Len(log) < MaxRows
    /\ n \in DOMAIN runs /\ ~Owned(n) /\ Reopenable(n)
    /\ repo[n].tip = "base" /\ repo[n].tree # "none"
    /\ Start(p, "resume", "reopening", n)
    /\ UNCHANGED <<scene, records, hold, crashes>>

\* continuedSegment.checkout: the row is RUNNING again, with the start it had, and the chain says so.
Reopen(p) ==
    LET n == procs[p].run IN
    /\ At(p, "reopening") /\ case.here /\ Reopenable(n)
    /\ runs' = [runs EXCEPT ![n].status = "RUNNING"]
    /\ Append1(n, "resumed", "none")
    /\ Go(p, "bound")
    /\ UNCHANGED <<scene, case, stories, archive, repo, hold, crashes>>

----------------------------------------------------------------------------
(* `run --reconcile`: killStaleRunRecords reads the runs, then marks them one by one; the run goes on after it *)

ListStale(p) ==
    /\ May(p, "reconcile") /\ case.here /\ Len(runs) < scene.runs
    /\ procs' = [procs EXCEPT ![p] = [Idle EXCEPT !.at = "killing", !.cmd = "reconcile",
                                                 !.saw = {n \in DOMAIN runs : Stale(n)}]]
    /\ UNCHANGED <<scene, records, hold, crashes>>

\* UpdateRunStatus: whatever the row says by now.
KillNext(p) ==
    /\ At(p, "killing")
    /\ IF procs[p].saw = {} \/ ~case.here
       THEN Go(p, "planned") /\ runs' = runs
       ELSE LET n == Max(procs[p].saw) IN
            /\ runs' = [runs EXCEPT ![n].status = "KILLED", ![n].commit = FALSE]
            /\ procs' = [procs EXCEPT ![p].saw = @ \ {n}]
    /\ UNCHANGED <<scene, case, stories, log, stored, archive, repo, hold, crashes>>

----------------------------------------------------------------------------
(* `case rollback`: the newest run, unless its row says RUNNING *)

BeginRollback(p) ==
    LET n == Len(runs) IN
    /\ May(p, "rollback") /\ case.here /\ n > 0 /\ ~Running(n) /\ Len(log) < MaxRows
    /\ Start(p, "rollback", "roll tree", n)
    /\ UNCHANGED <<scene, records, hold, crashes>>

RollTree(p) ==
    LET n == procs[p].run IN
    /\ At(p, "roll tree")
    /\ repo' = [repo EXCEPT ![n].tree = "none"]
    /\ Go(p, "roll branch")
    /\ UNCHANGED <<scene, case, stories, runs, log, stored, archive, hold, crashes>>

RollBranch(p) ==
    LET n == procs[p].run IN
    /\ At(p, "roll branch")
    /\ repo' = [repo EXCEPT ![n].tip = "none", ![n].discarded = TRUE]
    /\ Go(p, "roll row")
    /\ UNCHANGED <<scene, case, stories, runs, log, stored, archive, hold, crashes>>

RollRow(p) ==
    /\ At(p, "roll row") /\ case.here
    /\ Append1(procs[p].run, "rolled_back", "none")
    /\ Go(p, "roll case")
    /\ UNCHANGED <<scene, case, stories, runs, archive, repo, hold, crashes>>

RollCase(p) ==
    /\ At(p, "roll case")
    /\ case' = [case EXCEPT !.status = "PENDING"]
    /\ Done(p)
    /\ UNCHANGED <<scene, stories, runs, log, stored, archive, repo, hold, crashes>>

----------------------------------------------------------------------------
(* `clean --aggressive`: saw is the FAILED runs --keep-failed preserves, rows the audit rows to go *)

CleanAllowed == ~hold

BeginClean(p) ==
    /\ May(p, "clean") /\ CleanAllowed
    /\ \E keepFailed \in BOOLEAN :
         LET failed == {n \in DOMAIN runs : case.here /\ runs[n].status = "FAILED"}
         IN procs' = [procs EXCEPT ![p] = [Idle EXCEPT !.at = "collect", !.cmd = "clean",
                                                      !.saw = IF keepFailed THEN failed ELSE {}]]
    /\ UNCHANGED <<scene, records, hold, crashes>>

Closed(n) == ~Running(n)

\* PrunableEventLogs: the runs whose every row is among the oldest ones over KeepRows, and that are not RUNNING.
PrunableRuns ==
    LET over == Cardinality(stored) - KeepRows
        cut == CHOOSE i \in stored : Cardinality({j \in stored : j <= i}) = over
    IN IF over <= 0 THEN {}
       ELSE {n \in DOMAIN runs : RowsOf(n) # {} /\ Closed(n) /\ \A i \in RowsOf(n) : i <= cut}
PrunableRows == UNION {RowsOf(n) : n \in PrunableRuns}

\* purgeAudit collects the flagged case with its runs and their rows, and the prunable rows.
Flagged == case.here /\ case.flagged
FlaggedRows == IF Flagged THEN stored ELSE {}

Collect(p) ==
    /\ At(p, "collect")
    /\ IF ~Flagged /\ PrunableRows = {}
       THEN Go(p, "branches") /\ UNCHANGED archive
       ELSE \/ /\ archive' = [rows |-> archive.rows \union FlaggedRows \union PrunableRows,
                              runs |-> archive.runs \union (IF Flagged THEN DOMAIN runs ELSE {}),
                              case |-> archive.case \/ Flagged]
               /\ procs' = [procs EXCEPT ![p].at = "purge", ![p].rows = PrunableRuns]
            \/ Go(p, "branches") /\ UNCHANGED archive   \* writeArchive failed: nothing is deleted
    /\ UNCHANGED <<scene, case, stories, runs, log, stored, repo, hold, crashes>>

\* DeleteFlaggedCases, and what it cascades to.
Purge(p) ==
    /\ At(p, "purge")
    /\ IF Flagged
       THEN /\ case' = [case EXCEPT !.here = FALSE]
            /\ stories' = [s \in Stories |-> "none"]
            /\ stored' = {}
       ELSE UNCHANGED <<case, stories, stored>>
    /\ Go(p, "prune")
    /\ UNCHANGED <<scene, runs, log, archive, repo, hold, crashes>>

\* PruneEventLogsOfRuns: every row of the listed runs.
PruneOf(theRuns) == {i \in stored : log[i].run \notin theRuns}

Prune(p) ==
    /\ At(p, "prune")
    /\ stored' = PruneOf(procs[p].rows)
    /\ Go(p, "branches")
    /\ UNCHANGED <<scene, case, stories, runs, log, archive, repo, hold, crashes>>

\* As when a run's own branch counts.
DeliveredAnywhere(n) == TRUE
\* delivered: the tip is reachable from a branch that is not a run's; the base always is.
DeliveredElsewhere(n) == repo[n].tip = "base" \/ repo[n].merged

\* pruneRepoBranches looks at a branch; neither the run's row nor its owner is asked.
Prunable(p, n) == repo[n].tip # "none" /\ repo[n].old /\ n \notin procs[p].saw /\ DeliveredElsewhere(n)

LookAtBranch(p, n) ==
    /\ At(p, "branches") /\ Prunable(p, n)
    /\ procs' = [procs EXCEPT ![p].at = "clean tree", ![p].run = n]
    /\ UNCHANGED <<scene, records, hold, crashes>>

CleanTree(p) ==
    LET n == procs[p].run IN
    /\ At(p, "clean tree")
    /\ repo' = [repo EXCEPT ![n].tree = "none"]
    /\ Go(p, "clean branch")
    /\ UNCHANGED <<scene, case, stories, runs, log, stored, archive, hold, crashes>>

CleanBranch(p) ==
    LET n == procs[p].run IN
    /\ At(p, "clean branch")
    /\ repo' = [repo EXCEPT ![n].tip = "none"]
    /\ Go(p, "branches")
    /\ UNCHANGED <<scene, case, stories, runs, log, stored, archive, hold, crashes>>

EndClean(p) ==
    /\ At(p, "branches") /\ \A n \in RunIds : ~Prunable(p, n)
    /\ Done(p)
    /\ UNCHANGED <<scene, records, hold, crashes>>

----------------------------------------------------------------------------
(* The commands on stories, and `case delete` *)

\* As when the newest run is taken that is not under way.
Ended == {n \in DOMAIN runs : ~Running(n)}
Successes == {n \in DOMAIN runs : runs[n].status = "SUCCESS"}

\* AcceptUserStory: one transaction on the newest successful run.
Accept(p, s) ==
    LET accepted == [stories EXCEPT ![s] = "IMPLEMENTED"] IN
    /\ May(p, "accept") /\ case.here /\ stories[s] # "none" /\ Successes # {} /\ Len(log) < MaxRows
    /\ stories' = accepted
    /\ Append1(Max(Successes), "accepted", s)
    /\ case' = [case EXCEPT !.status = CaseStatusAfter("SUCCESS", accepted)]
    /\ UNCHANGED <<scene, runs, archive, repo, hold, procs, crashes>>

Invalidate(p, s) ==
    /\ May(p, "invalidate") /\ stories[s] # "none"
    /\ stories' = [stories EXCEPT ![s] = "INVALIDATED"]
    /\ UNCHANGED <<scene, case, runs, log, stored, archive, repo, hold, procs, crashes>>

AddStory(p, s) ==
    /\ May(p, "add") /\ case.here /\ stories[s] = "none"
    /\ stories' = [stories EXCEPT ![s] = "PENDING"]
    /\ UNCHANGED <<scene, case, runs, log, stored, archive, repo, hold, procs, crashes>>

FlagDeleted(p) ==
    /\ May(p, "delete") /\ case.here /\ ~case.flagged
    /\ case' = [case EXCEPT !.flagged = TRUE]
    /\ UNCHANGED <<scene, stories, runs, log, stored, archive, repo, hold, procs, crashes>>

----------------------------------------------------------------------------
(* Time, the repository's owner, and kills *)

TwoHours ==
    /\ runs' = [n \in DOMAIN runs |-> [runs[n] EXCEPT !.late = @ \/ Running(n)]]
    /\ runs' # runs
    /\ UNCHANGED <<scene, case, stories, log, stored, archive, repo, hold, procs, crashes>>

ThirtyDays ==
    /\ Ages
    /\ runs' = [n \in DOMAIN runs |-> [runs[n] EXCEPT !.late = @ \/ Running(n)]]
    /\ repo' = [n \in RunIds |-> [repo[n] EXCEPT !.old = repo[n].tip # "none"]]
    /\ repo' # repo
    /\ UNCHANGED <<scene, case, stories, log, stored, archive, hold, procs, crashes>>

Merge(n) ==
    /\ Ages /\ repo[n].tip = "work" /\ ~repo[n].merged
    /\ repo' = [repo EXCEPT ![n].merged = TRUE]
    /\ UNCHANGED <<scene, case, stories, runs, log, stored, archive, hold, procs, crashes>>

\* Someone puts or removes the legal hold; commands that go together with nothing see it put before or after them.
LegalHold ==
    /\ Ages
    /\ \A p \in Procs : procs[p].cmd # "clean"
    /\ hold' = ~hold
    /\ UNCHANGED <<scene, records, procs, crashes>>

Crash(p) ==
    /\ ~At(p, "idle") /\ crashes < MaxCrashes
    /\ crashes' = crashes + 1
    /\ Done(p)
    /\ UNCHANGED <<scene, records, hold>>

\* The start of a run reads the plan too, and is composed in Workspace; every other step is on the records alone.
RecordStep(p) ==
    \/ Checkout(p) \/ EnterLoop(p) \/ Work(p) \/ Deliver(p) \/ Finish(p)
    \/ End(p) \/ EndUntold(p)
    \/ (\E n \in RunIds : BeginResume(p, n)) \/ Reopen(p)
    \/ KillNext(p)
    \/ BeginRollback(p) \/ RollTree(p) \/ RollBranch(p) \/ RollRow(p) \/ RollCase(p)
    \/ BeginClean(p) \/ Collect(p) \/ Purge(p) \/ Prune(p) \/ EndClean(p)
    \/ (\E n \in RunIds : LookAtBranch(p, n)) \/ CleanTree(p) \/ CleanBranch(p)
    \/ (\E s \in Stories : Accept(p, s) \/ Invalidate(p, s) \/ AddStory(p, s))
    \/ FlagDeleted(p)
World == TwoHours \/ ThirtyDays \/ (\E n \in RunIds : Merge(n)) \/ LegalHold

----------------------------------------------------------------------------
(* Properties *)

\* docs/audit.md: what clean deletes is in an archive before it is deleted.  Every audit row, every run and the case are
\* in their table or in an archive, wherever clean was killed.
EvidenceIsKept ==
    /\ DOMAIN log \subseteq stored \union archive.rows
    /\ ~case.here => archive.case /\ DOMAIN runs \subseteq archive.runs

\* A branch that holds the only copy of a run's commit is there until a person rolls the run back: no clean, and no
\* clean killed half way, takes it (clean.go delivered).
OnlyCopyIsKept == \A n \in RunIds : repo[n].made /\ ~repo[n].merged /\ ~repo[n].discarded => repo[n].tip = "work"

\* Nothing that is the only record, or the only copy, of a run goes: no command that deletes loses it, killed or not.
NothingIsLost == EvidenceIsKept /\ OnlyCopyIsKept

\* A story is IMPLEMENTED only while a chain, in the table or archived, holds its acceptance on a run that succeeded, or
\* whose success was taken back for its summary: AcceptUserStory writes both or neither, and retention keeps the record.
AcceptedIsOnRecord ==
    \A s \in Stories : stories[s] = "IMPLEMENTED" =>
        \E i \in stored \union archive.rows :
            /\ log[i].what = "accepted" /\ log[i].story = s
            /\ runs[log[i].run].status = "SUCCESS" \/ repo[log[i].run].untold

\* Work that a run keeps for its review, or for a continuation, stays in its worktree and on its branch until it is
\* delivered or rolled back: cmd/staircase/clean.go:42 says that clean removes orphaned branches.
WaitingWorkIsKept ==
    \A n \in DOMAIN runs : runs[n].status = "AWAITING_REVIEW" /\ ~repo[n].discarded =>
        repo[n].tip # "none" /\ repo[n].tree # "none"

\* A run that succeeded stays so once its own process ended, and a commit recorded in a row stays there: no reaping of
\* stale rows and no continuation takes them back.
SuccessStays ==
    [][\A n \in DOMAIN runs :
         /\ runs[n].commit => runs'[n].commit
         /\ runs[n].status = "SUCCESS" /\ ~Owned(n) => runs'[n].status = "SUCCESS"]_caseVars

\* Retention removes the rows of a run all at once or not at all (store_retention.go PrunableEventLogs), and never those
\* of a run that is RUNNING unless its whole case goes.
ChainsGoWhole ==
    [][\A n \in DOMAIN runs :
         LET gone == {i \in stored \ stored' : log[i].run = n}
         IN gone # {} => gone = RowsOf(n) /\ (case'.here => ~Running(n))]_caseVars

\* While a legal hold is there nothing of the evidence that clean could delete is deleted: no row, no case, and no branch
\* but one that a person rolls back.
HoldKeeps ==
    [][hold => /\ stored \subseteq stored' /\ (case.here => case'.here)
               /\ \A n \in RunIds : repo'[n].tip = "none" => repo[n].tip = "none" \/ repo'[n].discarded]_caseVars

\* No command takes back what a run achieved, cuts a chain, or deletes under a legal hold.
RecordsStay == SuccessStays /\ ChainsGoWhole /\ HoldKeeps
=============================================================================
