-------------------------------- MODULE Terms --------------------------------
(***************************************************************************)
(* The terms a run starts under (terms.go, outofreach.go), the scope and   *)
(* the caps its stories add to them (runner.go: driftScope; plan.go), and  *)
(* what they make of the deciders (decide.go: under; runphases.go: setup). *)
(*                                                                         *)
(* Terms are normalised and judged when a run is started, and again each   *)
(* time the saved ones are loaded: for a continuation, for the review of a *)
(* run, and before a delivery by policy.                                   *)
(*                                                                         *)
(* A check is the commands of its line; a command is its program, the path *)
(* it is run by and its arguments.  Not modelled: the directories checks   *)
(* see, the limit on a project's instructions, the name of a change set.   *)
(***************************************************************************)
EXTENDS Integers, FiniteSets, FiniteSetsExt, Sequences, SequencesExt

CONSTANTS
    Named,                  \* the files that each path or pattern inside the repository stands for
    TaskCheckpointEvery

ASSUME TermsAssumption == TaskCheckpointEvery \in Nat \ {0}

Inside(patterns) == patterns \subseteq DOMAIN Named
Files(patterns) == UNION {Named[p] : p \in patterns}

-----------------------------------------------------------------------------
(* What checks are defined by. *)

Flag == "-v"
Inline == "-c"
PlainArguments(c) == {i \in DOMAIN c.args : c.args[i] \notin {Flag, Inline}}

\* The script of an interpreter: its first argument that is not a flag, unless the code is given inline before it.
Script(c) == {c.args[i] : i \in {k \in PlainArguments(c) : \A j \in 1..k - 1 : c.args[j] = Flag}}

\* The files that are known to define one command of a check.
Defines(c) ==
    DOMAIN Named \intersect
        ({c.path} \union
         CASE c.prog = "make" -> {"Makefile"}
           [] c.prog = "npm" -> {"package.json"}
           [] c.prog = "interpreter" -> Script(c)
           [] c.prog = "tests" -> {c.args[i] : i \in PlainArguments(c)}
           [] OTHER -> {})

\* After a cd the paths are no longer from the root.
CheckDefinitions(check) ==
    UNION {Defines(check[i]) : i \in {k \in DOMAIN check : \A j \in 1..k : check[j].prog # "cd"}}

\* Mutant: only the paths that were named are protected.
DeclaredOnly(t) == t.protected

Protected(t) == t.protected \union UNION {CheckDefinitions(t.checks[i]) : i \in DOMAIN t.checks}

-----------------------------------------------------------------------------
(* Terms. *)

\* Away is approving on evidence, which is approving the agreed task.
Normal(t) ==
    LET evidence == t.away \/ t.onEvidence
    IN  [t EXCEPT !.onEvidence = evidence, !.inScope = evidence \/ @, !.protected = Protected(t)]

\* Delivery by policy is refused unless everything it rests on is in the terms.
Deliverable(t) ==
    IF t.deliver = "review" THEN t.deliverPaths = {}
    ELSE t.away /\ t.models = <<>> /\ t.deliverPaths # {} /\ Inside(t.deliverPaths) /\ t.signKey /\ t.protected # {}

\* What an away run may run or call without asking.
Declarable(t, harness) ==
    /\ t.awayTools # {} => t.away /\ \A tool \in t.awayTools : tool.exact
    /\ t.awayCommands # {} =>
          /\ t.away /\ t.shell /\ t.sandbox = "no_network" /\ harness \notin {"gemini", "opencode"}
          /\ \A c \in t.awayCommands : c.exact

\* NewTerms: what no run can decide under is refused.
Accepted(asked, harness) ==
    LET t == Normal(asked) IN
    /\ t.away => t.checks # <<>> /\ ~t.signedDecisions
    /\ t.onEvidence => t.checks # <<>> \/ t.models # <<>>
    /\ t.inScope => t.agreed
    /\ Inside(t.protected \union t.scope \union t.sensitive \union t.unreadable)
    /\ t.unreadable # {} => harness \notin {"codex", "gemini", "opencode"}
    /\ Deliverable(t) /\ Declarable(t, harness)

-----------------------------------------------------------------------------
(* Limits: 0 is none. *)

Stricter(a, b) == IF a = 0 \/ (b # 0 /\ b < a) THEN b ELSE a

\* driftScope: what the stories still open allow, and how many files they may change together when each says so.
StoryScope(stories, open) == Files(UNION {stories[s].allow : s \in open})
StoryFiles(stories, open) ==
    IF \A s \in open : stories[s].maxFiles > 0 THEN MapThenSumSet(LAMBDA s : stories[s].maxFiles, open) ELSE 0

\* What a segment is decided under: the terms, the policy and limits the run started with, and its case's stories as they are now.
Under(start, t, open) ==
    [start |-> start, terms |-> t,
     task |-> (t.inScope \/ t.onEvidence) /\ t.agreed, evidence |-> t.onEvidence, away |-> t.away,
     checks |-> t.checks # <<>>, panel |-> t.models, signal |-> t.signal,
     declared |-> t.awayCommands \union t.awayTools,
     protected |-> Files(t.protected), sensitive |-> Files(t.sensitive), scope |-> Files(t.scope),
     deliverPaths |-> Files(t.deliverPaths),
     rules |-> start.rules, maxAuto |-> start.maxAuto, maxTotal |-> start.maxTotal, maxViolations |-> start.maxViolations,
     maxFiles |-> Stricter(start.maxFiles, StoryFiles(start.stories, open)),
     checkpoint |-> IF t.inScope /\ ~t.onEvidence THEN Stricter(start.checkpoint, TaskCheckpointEvery) ELSE start.checkpoint,
     stories |-> StoryScope(start.stories, open), offers |-> start.offers]

=============================================================================
