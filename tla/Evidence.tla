------------------------------ MODULE Evidence ------------------------------
(***************************************************************************)
(* What is written about a commit after its branch moved, and who reads it *)
(* (internal/orchestrator: runphases.go, certify.go, checks.go, ledger.go, *)
(* recover.go; internal/certificate, internal/changeset, internal/vsa;     *)
(* cmd/staircase: sign.go, verify.go, rebuild.go, changeset.go).           *)
(*                                                                         *)
(* The commit stays whatever happens to its evidence.  A run checks it,    *)
(* writes the ledger, attaches it as a note, signs a certificate that      *)
(* names the ledger, attaches that, and says so on the chain; a recovery   *)
(* or an accepted review writes the same for a run that could not.  People *)
(* add signatures to the certificate in the note, verifiers read it, and a *)
(* change set binds the runs of several projects that depend on one        *)
(* contract.                                                               *)
(*                                                                         *)
(* A commit is its run.  The workspace's key signs every certificate here, *)
(* and is trusted.  Not modelled: a write cut short by a crash, and a      *)
(* failure to append the entry that says how the evidence stands.          *)
(***************************************************************************)
EXTENDS Integers, FiniteSets

CONSTANTS
    Runs,
    Signers,        \* [who, key]: under which name a key signs
    Trusted,        \* the lines of allowed_signers
    Starter,        \* who signed the request of a run, or NoOne
    Requester,      \* the git email of the checkout a run started in
    NoOne,
    Outside,        \* runs with an approved command or tool outside the sandbox
    Projects, ProjectOf,
    Base, ContentOf,    \* what the contract of a project holds at its base, and in the commit of a run
    Named,          \* runs started with --change-set
    Declared,       \* runs whose commit names an agent in a trailer
    Options,        \* what staircase verify is asked for
    Procs,          \* commands under way at once
    Scenes,         \* what may happen in a behaviour
    NoRun

ASSUME EvidenceAssumption ==
    /\ Trusted \subseteq Signers /\ Starter \in [Runs -> Signers \union {NoOne}]
    /\ Outside \subseteq Runs /\ Named \subseteq Runs /\ ProjectOf \in [Runs -> Projects]
    /\ NoOne \notin Signers /\ NoRun \notin Runs

VARIABLES
    scene,      \* how each run came by its commit, the results of a check, and the bounds
    maker,      \* the process that writes the evidence of a run: the run, a recovery, or an accepted review
    row, op,    \* the run's record; whether a recovery kept a record of itself
    chain,      \* what the run's chain says
    ledger,     \* the ledger: in the workspace, and as a note
    cert,       \* the certificate: in the workspace, and as a note
    summary,
    vsa,        \* the verification summary of the commit
    passed,     \* the ranges of commits that passed
    log,        \* the transparency log
    anchors,    \* which certificates the workspace knows to be in it
    set,        \* the change set
    hand,       \* what a command has read
    looked,     \* which contents of contracts a person accepted for a project
    verdict,    \* the change set that was last found to hold
    crashes, fails, losses, signs   \* counts, against the bounds of the scene

making == <<maker, row, op, chain, ledger, cert, summary>>
public == <<vsa, passed, log, anchors>>
reading == <<public, set, hand, looked, verdict>>
bounds == <<crashes, fails, losses, signs>>
vars == <<scene, making, reading, bounds>>

-----------------------------------------------------------------------------
(* Certificates. *)

NoEnvelope == [payload |-> NoRun, signers |-> {}]

\* What the level of a certificate is: a producer can claim 3 at most, and a recovered run or one that ran commands
\* outside the sandbox 2.
Level(r, recovered) == IF r \in Outside \/ recovered THEN 2 ELSE 3

\* The statement that is signed for a run, by whom its evidence is made.
Statement(r) ==
    [cal |-> Level(r, maker[r].by = "recover"), checks |-> maker[r].checks,
     recovered |-> maker[r].by = "recover", ledger |-> maker[r].ledger, set |-> r \in Named]

Accepts(p, level, min) == level >= min /\ p.checks # "fail"

-----------------------------------------------------------------------------

NoMaker == [pc |-> "off", by |-> "run", checks |-> "none", ledger |-> FALSE, errs |-> FALSE]
Making(by) ==
    CASE by = "run" -> [NoMaker EXCEPT !.pc = "checks"]
      [] by = "recover" -> [NoMaker EXCEPT !.pc = "ledger", !.by = "recover"]
      [] by = "accept" -> [NoMaker EXCEPT !.pc = "ledger", !.by = "accept", !.checks = "pass"]
      [] OTHER -> NoMaker

Whole == [file |-> TRUE, note |-> TRUE]
NoChain == [check |-> "none", issued |-> {}, commit |-> FALSE, errs |-> FALSE, recovered |-> FALSE, delivered |-> FALSE]
Done(r) == [payload |-> [cal |-> Level(r, FALSE), checks |-> "pass", recovered |-> FALSE, ledger |-> TRUE, set |-> r \in Named],
            signers |-> {}]
IsDone(r) == scene.by[r] = "done"

Init ==
    /\ scene \in Scenes
    /\ maker = [r \in Runs |-> Making(scene.by[r])]
    /\ row = [r \in Runs |-> [status |-> CASE scene.by[r] = "run" -> "RUNNING"
                                           [] scene.by[r] = "recover" -> "KILLED"
                                           [] scene.by[r] = "accept" -> "AWAITING_REVIEW"
                                           [] OTHER -> "SUCCESS",
                              commit |-> IsDone(r)]]
    /\ op = [r \in Runs |-> scene.by[r] \in {"recover", "accept"}]
    /\ chain = [r \in Runs |-> IF IsDone(r) THEN [NoChain EXCEPT !.check = "pass", !.issued = {Done(r).payload}, !.commit = TRUE]
                               ELSE [NoChain EXCEPT !.check = IF scene.by[r] = "accept" THEN "pass" ELSE "none"]]
    /\ ledger = [r \in Runs |-> IF IsDone(r) THEN Whole ELSE [file |-> FALSE, note |-> FALSE]]
    /\ cert = [r \in Runs |-> LET e == IF IsDone(r) THEN Done(r) ELSE NoEnvelope IN [file |-> e, note |-> e]]
    /\ summary = [r \in Runs |-> IF IsDone(r) THEN "certified" ELSE "none"]
    /\ vsa = [r \in Runs |-> NoRun] /\ passed = {}
    /\ log = {} /\ anchors = [r \in Runs |-> {}]
    /\ set = [members |-> [p \in Projects |-> NoRun], contracts |-> {}, acks |-> {}]
    /\ hand = [p \in Procs |-> [cmd |-> "off"]]
    /\ looked = {} /\ verdict = NoRun
    /\ crashes = 0 /\ fails = 0 /\ losses = 0 /\ signs = 0

\* Whether people leave the evidence alone while it is written, in scenes where they do.
Idle(p) == hand[p].cmd = "off"
Apart ==
    \/ scene.together
    \/ (\A p \in Procs : Idle(p)) /\ (\A r \in Runs : maker[r].pc = "off")

Goto(r, pc) == maker' = [maker EXCEPT ![r].pc = pc]
StopQuietly(r, pc) == Goto(r, pc)    \* mutant: the failure is not kept

Stop(r, pc) == maker' = [maker EXCEPT ![r].pc = pc, ![r].errs = TRUE]
Wrong(r, pc) == Stop(r, pc) /\ fails < scene.fails /\ fails' = fails + 1

-----------------------------------------------------------------------------
(* The evidence of a commit, one write at a time. *)

\* runChecks, on a clean checkout of the commit.
Checks(r) ==
    /\ maker[r].pc = "checks"
    /\ \E result \in scene.results :
          /\ maker' = [maker EXCEPT ![r].pc = "ledger", ![r].checks = result]
          /\ chain' = [chain EXCEPT ![r].check = result]
    /\ UNCHANGED <<scene, row, op, ledger, cert, summary, reading, bounds>>

\* The commit is the run's own: named on its chain before its process died.
Adopted(r) == maker[r].by = "recover" /\ scene.by[r] = "run"

\* writeLedger.  A recovery leaves the ledger a run got as far as.
WriteLedger(r) ==
    /\ maker[r].pc = "ledger"
    /\ \/ /\ maker' = [maker EXCEPT ![r].pc = "ledgerNote", ![r].ledger = TRUE]
          /\ ledger' = [ledger EXCEPT ![r].file = TRUE]
          /\ UNCHANGED fails
       \/ /\ ~(Adopted(r) /\ ledger[r].file)
          /\ Wrong(r, "certify")
          /\ UNCHANGED ledger
    /\ UNCHANGED <<scene, row, op, chain, cert, summary, reading, crashes, losses, signs>>

\* attachNote: what cannot be read back is an error.
AttachLedger(r) ==
    /\ maker[r].pc = "ledgerNote"
    /\ \/ ledger[r].file /\ Goto(r, "certify") /\ ledger' = [ledger EXCEPT ![r].note = TRUE] /\ UNCHANGED fails
       \/ ~ledger[r].file /\ Stop(r, "certify") /\ UNCHANGED <<ledger, fails>>
       \/ Wrong(r, "certify") /\ UNCHANGED ledger
    /\ UNCHANGED <<scene, row, op, chain, cert, summary, reading, crashes, losses, signs>>

NeverKept(r) == FALSE    \* mutant: a recovery signs again whatever was issued

\* The run had issued its certificate, and it is there: a recovery leaves it.
Kept(r) == Adopted(r) /\ cert[r].note # NoEnvelope /\ chain[r].issued # {}

AfterFailure(r) == IF maker[r].by = "run" THEN "failed" ELSE "record"
AfterIssue(r) == IF maker[r].by = "run" THEN "report" ELSE "record"

\* certify up to its file.
Certify(r) ==
    /\ maker[r].pc = "certify"
    /\ \/ Kept(r) /\ Goto(r, "record") /\ UNCHANGED <<cert, fails>>
       \/ /\ ~Kept(r)
          /\ Goto(r, "attach")
          /\ cert' = [cert EXCEPT ![r].file = [payload |-> Statement(r), signers |-> {}]]
          /\ UNCHANGED fails
       \/ ~Kept(r) /\ Wrong(r, AfterFailure(r)) /\ UNCHANGED cert
    /\ UNCHANGED <<scene, row, op, chain, ledger, summary, reading, crashes, losses, signs>>

\* The note is the blob of the file.
Attach(r) ==
    /\ maker[r].pc = "attach"
    /\ \/ cert[r].file # NoEnvelope /\ Goto(r, "issue") /\ cert' = [cert EXCEPT ![r].note = cert[r].file] /\ UNCHANGED fails
       \/ cert[r].file = NoEnvelope /\ Stop(r, AfterFailure(r)) /\ UNCHANGED <<cert, fails>>
       \/ Wrong(r, AfterFailure(r)) /\ UNCHANGED cert
    /\ UNCHANGED <<scene, row, op, chain, ledger, summary, reading, crashes, losses, signs>>

\* certificate_issued: the same certificate is on the chain once.
Issue(r) ==
    /\ maker[r].pc = "issue"
    /\ \/ /\ Goto(r, AfterIssue(r))
          /\ chain' = [chain EXCEPT ![r].issued = @ \union {Statement(r)}, ![r].commit = TRUE]
          /\ UNCHANGED fails
       \/ Wrong(r, AfterFailure(r)) /\ UNCHANGED chain
    /\ UNCHANGED <<scene, row, op, ledger, cert, summary, reading, crashes, losses, signs>>

\* certificate_failed says that there is a commit, not that its evidence is incomplete.
CertificateFailed(r) ==
    /\ maker[r].pc = "failed"
    /\ Goto(r, "report")
    /\ chain' = [chain EXCEPT ![r].commit = TRUE]
    /\ UNCHANGED <<scene, row, op, ledger, cert, summary, reading, bounds>>

\* evidence_failed.
Report(r) ==
    /\ maker[r].pc = "report"
    /\ Goto(r, "finish")
    /\ chain' = IF maker[r].errs THEN [chain EXCEPT ![r].commit = TRUE, ![r].errs = TRUE] ELSE chain
    /\ UNCHANGED <<scene, row, op, ledger, cert, summary, reading, bounds>>

\* FinishRun comes before a run's summary and after a recovery's.
RunFinish(r) ==
    /\ maker[r].pc = "finish" /\ maker[r].by = "run"
    /\ Goto(r, "summary")
    /\ row' = [row EXCEPT ![r] = [status |-> "SUCCESS", commit |-> TRUE]]
    /\ UNCHANGED <<scene, op, chain, ledger, cert, summary, reading, bounds>>

\* writeSummary, as a run and as a recovery names how the commit stands.
Summarise(r) ==
    /\ maker[r].pc = "summary"
    /\ Goto(r, IF maker[r].by = "run" THEN "off" ELSE "finish")
    /\ summary' = [summary EXCEPT ![r] = IF maker[r].errs THEN "without" ELSE IF maker[r].by = "recover" THEN "recovered" ELSE "certified"]
    /\ UNCHANGED <<scene, row, op, chain, ledger, cert, reading, bounds>>

\* run_recovered or review_delivered, once; recovery_repaired when that is there.
Record(r) ==
    /\ maker[r].pc = "record"
    /\ Goto(r, "summary")
    /\ chain' = [chain EXCEPT ![r].errs = maker[r].errs, ![r].commit = TRUE,
                              ![r].recovered = @ \/ maker[r].by = "recover", ![r].delivered = @ \/ maker[r].by = "accept"]
    /\ UNCHANGED <<scene, row, op, ledger, cert, summary, reading, bounds>>

RecoverFinish(r) ==
    /\ maker[r].pc = "finish" /\ maker[r].by # "run"
    /\ Goto(r, "off")
    /\ row' = IF row[r].commit THEN row
              ELSE [row EXCEPT ![r] = [status |-> IF maker[r].by = "accept" THEN "SUCCESS" ELSE "KILLED", commit |-> TRUE]]
    /\ UNCHANGED <<scene, op, chain, ledger, cert, summary, reading, bounds>>

-----------------------------------------------------------------------------
(* Crashes, losses, and doing it again. *)

Crash(r) ==
    /\ maker[r].pc # "off" /\ crashes < scene.crashes
    /\ Goto(r, "off")
    /\ crashes' = crashes + 1
    /\ UNCHANGED <<scene, row, op, chain, ledger, cert, summary, reading, fails, losses, signs>>

\* Files and notes go missing.
Lose(r) ==
    /\ losses < scene.losses /\ ~IsDone(r)
    /\ \/ ledger[r].file /\ ledger' = [ledger EXCEPT ![r].file = FALSE] /\ UNCHANGED <<cert, summary>>
       \/ ledger[r].note /\ ledger' = [ledger EXCEPT ![r].note = FALSE] /\ UNCHANGED <<cert, summary>>
       \/ cert[r].file # NoEnvelope /\ cert' = [cert EXCEPT ![r].file = NoEnvelope] /\ UNCHANGED <<ledger, summary>>
       \/ cert[r].note # NoEnvelope /\ cert' = [cert EXCEPT ![r].note = NoEnvelope] /\ UNCHANGED <<ledger, summary>>
       \/ summary[r] # "none" /\ summary' = [summary EXCEPT ![r] = "none"] /\ UNCHANGED <<ledger, cert>>
    /\ losses' = losses + 1
    /\ UNCHANGED <<scene, maker, row, op, chain, reading, crashes, fails, signs>>

FlagOnly(r) == row[r].commit /\ chain[r].recovered    \* mutant: the chain's word for it is enough

\* recoveryEvidenceComplete: presence is what is checked.
Complete(r) ==
    /\ row[r].commit
    /\ ledger[r] = Whole /\ cert[r].file # NoEnvelope /\ cert[r].note # NoEnvelope
    /\ chain[r].recovered /\ chain[r].issued # {} /\ summary[r] = "recovered"

\* staircase recover, of a run that did not finish or whose recovery did not.
Recover(r) ==
    /\ maker[r].pc = "off" /\ row[r].status \in {"RUNNING", "KILLED"}
    /\ row[r].commit => op[r]
    /\ ~Complete(r)
    /\ Apart
    /\ maker' = [maker EXCEPT ![r] = Making("recover")]
    /\ op' = [op EXCEPT ![r] = TRUE]
    /\ UNCHANGED <<scene, row, chain, ledger, cert, summary, reading, bounds>>

\* staircase decide --accept again, of a review whose delivery did not finish.
AcceptAgain(r) ==
    /\ maker[r].pc = "off" /\ row[r].status = "AWAITING_REVIEW"
    /\ Apart
    /\ maker' = [maker EXCEPT ![r] = Making("accept")]
    /\ UNCHANGED <<scene, row, op, chain, ledger, cert, summary, reading, bounds>>

-----------------------------------------------------------------------------
(* People and verifiers. *)

Holds(p, cmd) == hand[p].cmd = cmd
Take(p, what) == hand' = [hand EXCEPT ![p] = what]
Leave(p) == Take(p, [cmd |-> "off"])

\* Signing again replaces the same person's signature.
Signed(env, s) == [env EXCEPT !.signers = {o \in @ : o.who # s.who} \union {s}]

\* staircase sign reads the note without the lock that it writes it under.
SignRead(p, s, r) ==
    /\ s \in scene.signing /\ r \in scene.read /\ Idle(p)
    /\ signs < scene.signs /\ signs' = signs + 1
    /\ Apart /\ cert[r].note # NoEnvelope
    /\ Take(p, [cmd |-> "sign", run |-> r, env |-> Signed(cert[r].note, s)])
    /\ UNCHANGED <<scene, making, public, set, looked, verdict, crashes, fails, losses>>

SignAttach(p) ==
    /\ Holds(p, "sign")
    /\ cert' = [cert EXCEPT ![hand[p].run].note = hand[p].env]
    /\ Take(p, [hand[p] EXCEPT !.cmd = "copy"])
    /\ UNCHANGED <<scene, maker, row, op, chain, ledger, summary, public, set, looked, verdict, bounds>>

\* The copy in the workspace is kept in step, when it is there.
SignCopy(p) ==
    /\ Holds(p, "copy")
    /\ cert' = [cert EXCEPT ![hand[p].run].file = IF @ = NoEnvelope THEN @ ELSE hand[p].env]
    /\ Leave(p)
    /\ UNCHANGED <<scene, maker, row, op, chain, ledger, summary, public, set, looked, verdict, bounds>>

\* personSignatures: a second person, by name, and by key when the initiator signed.
Second(r, s) ==
    /\ s.who # Requester[r]
    /\ Starter[r] # NoOne => s.who # Starter[r].who /\ s.key # Starter[r].key

\* The level a verifier establishes: 4 with the signature of a trusted second person.
Established(r, env, required) ==
    IF env.payload.cal >= 3 /\ (required => Starter[r] \in Trusted)
       /\ \E s \in env.signers \intersect Trusted : Second(r, s)
    THEN 4 ELSE env.payload.cal

\* rebuildCommit: the ledger in the note is the one that is named, and derives the tree of the commit.
Rebuilds(r) == cert[r].note.payload.ledger /\ ledger[r].note


\* checkAnchor: the workspace has an anchor of this certificate, and the log holds what it names.
Anchored(r, payload) == payload \in anchors[r] /\ <<r, payload>> \in log

\* verifyCommit, of the certificate in the note.
Passes(r, how) ==
    /\ cert[r].note # NoEnvelope
    /\ Accepts(cert[r].note.payload, Established(r, cert[r].note, how.required), how.min)
    /\ how.rebuild => Rebuilds(r)
    /\ how.anchor => Anchored(r, cert[r].note.payload)

NotFailed(p) == p.checks # "fail"    \* mutant: no check is as good as one that passed
ChecksPassed(p) == p.checks = "pass"

\* vsa.Build: what the summary of a commit that passed says.
Summary(r, how) ==
    LET env == cert[r].note IN
    [level |-> Established(r, env, how.required), rebuilt |-> how.rebuild, anchored |-> how.anchor,
     checks |-> ChecksPassed(env.payload), initiator |-> Starter[r] \in Trusted,
     signed |-> env.signers, statement |-> env.payload]

\* staircase verify <commit> --vsa-out.
Verify(r, how) ==
    /\ r \in scene.read /\ Passes(r, how)
    /\ vsa' = [vsa EXCEPT ![r] = Summary(r, how)]
    /\ UNCHANGED <<scene, making, passed, log, anchors, set, hand, looked, verdict, bounds>>

\* staircase verify <range>: the commits that name an agent, or all of them, one after the other.
VerifyRange(p, how, all) ==
    /\ scene.ranges /\ Idle(p)
    /\ Take(p, [cmd |-> "range", left |-> scene.read, how |-> how, all |-> all, failed |-> FALSE])
    /\ UNCHANGED <<scene, making, public, set, looked, verdict, bounds>>

VerifyNext(p, r) ==
    /\ Holds(p, "range") /\ r \in hand[p].left
    /\ LET asked == r \in Declared \/ hand[p].all
           passes == Passes(r, hand[p].how) IN
       /\ vsa' = IF asked /\ passes THEN [vsa EXCEPT ![r] = Summary(r, hand[p].how)] ELSE vsa
       /\ Take(p, [hand[p] EXCEPT !.left = @ \ {r}, !.failed = @ \/ (asked /\ ~passes)])
    /\ UNCHANGED <<scene, making, passed, log, anchors, set, looked, verdict, bounds>>

VerifyEnds(p) ==
    /\ Holds(p, "range") /\ hand[p].left = {}
    /\ passed' = IF hand[p].failed THEN passed ELSE passed \union {hand[p].all}
    /\ Leave(p)
    /\ UNCHANGED <<scene, making, vsa, log, anchors, set, looked, verdict, bounds>>

\* staircase audit anchor: the certificate in the workspace goes to the log, and then to the sidecar.
Submit(p, r) ==
    /\ scene.anchoring /\ Idle(p) /\ cert[r].file # NoEnvelope
    /\ log' = log \union {<<r, cert[r].file.payload>>}
    /\ Take(p, [cmd |-> "anchor", run |-> r, payload |-> cert[r].file.payload])
    /\ UNCHANGED <<scene, making, vsa, passed, anchors, set, looked, verdict, bounds>>

\* The command may die, or fail to write, before it has appended what the log answered.
Append(p) ==
    /\ Holds(p, "anchor")
    /\ \/ anchors' = [anchors EXCEPT ![hand[p].run] = @ \union {hand[p].payload}]
       \/ UNCHANGED anchors
    /\ Leave(p)
    /\ UNCHANGED <<scene, making, vsa, passed, log, set, looked, verdict, bounds>>

-----------------------------------------------------------------------------
(* Change sets. *)

\* History.Outcome, of a run whose branch moved.
Outcome(r) ==
    IF ~chain[r].commit THEN "unknown" ELSE IF chain[r].errs THEN "incomplete" ELSE "delivered"

Changed(r) == ContentOf[r] # Base[ProjectOf[r]]
Members(s) == {p \in Projects : s.members[p] # NoRun}

\* withSet: what a command does is done to the set as it was read.
Load(p, cmd) ==
    /\ scene.sets /\ Idle(p)
    /\ Take(p, [cmd |-> cmd, set |-> set])
    /\ UNCHANGED <<scene, making, public, set, looked, verdict, bounds>>

Save(p, s) == set' = s /\ Leave(p) /\ UNCHANGED <<scene, making, public, verdict, bounds>>

\* AddRun: a newer run of the project replaces the other, and acknowledgements stay.
Added(s, r) == [s EXCEPT !.members[ProjectOf[r]] = r]

Add(p, r) == Holds(p, "add") /\ Save(p, Added(hand[p].set, r)) /\ UNCHANGED looked

Declare(p, c) ==
    /\ Holds(p, "contract")
    /\ Save(p, [hand[p].set EXCEPT !.contracts = @ \union {c}])
    /\ UNCHANGED looked

\* changeset ack: the content is that of the member's commit now.
Acknowledge(p, c, by) ==
    /\ Holds(p, "ack")
    /\ LET s == hand[p].set IN
       /\ c \in s.contracts /\ {c, by} \subseteq Members(s) /\ by # c
       /\ row[s.members[c]].commit /\ Changed(s.members[c])
       /\ LET ack == <<c, ContentOf[s.members[c]], by>> IN
          /\ Save(p, [s EXCEPT !.acks = @ \union {ack}])
          /\ looked' = looked \union {ack}

AckedOnce(s, c, by, content) == \E a \in s.acks : a[1] = c /\ a[3] = by    \* mutant: whatever was accepted

Acknowledged(s, c, by, content) == <<c, content, by>> \in s.acks

\* MemberReport.verify: the chain says delivered, and the certificate in the workspace names the set.
MemberHolds(r) ==
    /\ Outcome(r) = "delivered"
    /\ cert[r].file # NoEnvelope /\ row[r].commit
    /\ Accepts(cert[r].file.payload, cert[r].file.payload.cal, 0)
    /\ cert[r].file.payload.set

SetHolds(s) ==
    /\ Members(s) # {}
    /\ \A c \in Members(s) :
          /\ MemberHolds(s.members[c])
          /\ c \in s.contracts /\ Changed(s.members[c]) =>
                \A o \in Members(s) \ {c} : Acknowledged(s, c, o, ContentOf[s.members[c]])

VerifySet(p) ==
    /\ Holds(p, "verify")
    /\ verdict' = IF SetHolds(hand[p].set) THEN hand[p].set ELSE verdict
    /\ Leave(p)
    /\ UNCHANGED <<scene, making, public, set, looked, bounds>>

Command(p) ==
    \/ \E s \in Signers, r \in Runs : SignRead(p, s, r)
    \/ SignAttach(p) \/ SignCopy(p)
    \/ \E cmd \in {"add", "contract", "ack", "verify"} : Load(p, cmd)
    \/ \E r \in Runs : Add(p, r)
    \/ \E c \in Projects : Declare(p, c)
    \/ \E c, by \in Projects : Acknowledge(p, c, by)
    \/ VerifySet(p)
    \/ \E how \in Options, all \in BOOLEAN : VerifyRange(p, how, all)
    \/ \E r \in Runs : VerifyNext(p, r) \/ Submit(p, r)
    \/ VerifyEnds(p) \/ Append(p)
    \/ Holds(p, "ack") /\ Leave(p) /\ UNCHANGED <<scene, making, public, set, looked, verdict, bounds>>

-----------------------------------------------------------------------------

Make(r) ==
    \/ Checks(r) \/ WriteLedger(r) \/ AttachLedger(r) \/ Certify(r) \/ Attach(r) \/ Issue(r)
    \/ CertificateFailed(r) \/ Report(r) \/ RunFinish(r) \/ Summarise(r) \/ Record(r) \/ RecoverFinish(r)

Next ==
    \/ \E r \in Runs : Make(r) \/ Crash(r) \/ Lose(r) \/ Recover(r) \/ AcceptAgain(r)
    \/ \E r \in Runs, how \in Options : Verify(r, how)
    \/ \E p \in Procs : Command(p)

\* A process goes on until it dies, and the owner goes on until the run's evidence is whole.
Fairness ==
    /\ \A r \in Runs : WF_vars(Make(r)) /\ WF_vars(Recover(r)) /\ WF_vars(AcceptAgain(r))
    /\ \A p \in Procs : WF_vars(SignAttach(p) \/ SignCopy(p))

Spec == Init /\ [][Next]_vars /\ Fairness

-----------------------------------------------------------------------------
(* Properties. *)

Verifiable(r) == cert[r].note # NoEnvelope /\ Rebuilds(r)

\* Once nobody writes it, what the chain calls delivered can be verified from the repository: the notes are there, and the certificate
\* that is named on the chain rebuilds the commit from the ledger (outcome.go: delivered means complete evidence).
DeliveredIsVerifiable ==
    \A r \in Runs : Outcome(r) = "delivered" /\ maker[r].pc = "off" /\ losses = 0 =>
        Verifiable(r) /\ cert[r].note.payload \in chain[r].issued

\* A certificate that was issued for a run's own commit stays as it was signed, and keeps the signatures of the people
\* who signed it since and its outside witness, through every recovery of the run and as long as nobody loses the note (recover.go: the
\* run's own certificate stays).
IssuedStays ==
    [][\A r \in Runs :
          /\ scene.by[r] \in {"run", "done"} /\ cert[r].note.payload \in chain[r].issued /\ cert'[r].note # NoEnvelope
          => /\ cert'[r].note.payload = cert[r].note.payload
             /\ {s.who : s \in cert[r].note.signers} \subseteq {s.who : s \in cert'[r].note.signers}
             /\ Anchored(r, cert[r].note.payload) => Anchored(r, cert[r].note.payload)']_vars

\* A change set that was found to hold: every other member accepted exactly the content that the commits of its
\* members put into the contracts, and none of those commits failed a check (changeset/verify.go).
HeldIsAccepted ==
    verdict # NoRun => \A c \in Members(verdict) :
        /\ chain[verdict.members[c]].check # "fail"
        /\ c \in verdict.contracts /\ Changed(verdict.members[c]) =>
              \A o \in Members(verdict) \ {c} : <<c, ContentOf[verdict.members[c]], o>> \in looked

\* A verification summary says no more than happened: that checks passed when they did, level 4 when a second person signed what ran in
\* the sandbox, with another key than the person's who started it, and that there is an outside witness of this very certificate
\* (vsa.go: what was verified, from which attestations).
SummaryIsEarned ==
    \A r \in Runs : vsa[r] # NoRun =>
        /\ vsa[r].checks => chain[r].check = "pass"
        /\ vsa[r].level = 4 => r \notin Outside /\ \E s \in vsa[r].signed :
              s.who # Requester[r] /\ (Starter[r] # NoOne => s.key # Starter[r].key)
        /\ vsa[r].anchored => <<r, vsa[r].statement>> \in log

\* A range that passed: every commit of it that names an agent has a summary, and failed no check (verify.go: verifyRange).
RangeIsWhole ==
    \A all \in passed : \A r \in scene.read : r \in Declared \/ all => vsa[r] # NoRun /\ chain[r].check # "fail"

\* What a verifier says of a commit, of a range of commits, or of a change set was so.
VerdictsAreEarned == HeldIsAccepted /\ SummaryIsEarned /\ RangeIsWhole

Settled(r) ==
    \/ Outcome(r) = "incomplete"
    \/ row[r].status = "SUCCESS" /\ losses > 0
    \/ Verifiable(r) /\ row[r].commit /\ Outcome(r) = "delivered"

\* Every commit's evidence is complete in the end, or the chain says that it is not: what a crash leaves undone or what goes missing
\* is repaired by recovering, or accepting, again (recover.go: every step is safe to do again).
EvidenceSettles == <>[](\A r \in Runs : Settled(r))

\* A commit with a check that failed is refused by every verifier (checks.go: staircase verify refuses it).
FailedCheckIsRefused == \A r \in Runs : chain[r].check = "fail" => vsa[r] = NoRun
=============================================================================
