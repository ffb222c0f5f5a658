----------------------------- MODULE Workspace -----------------------------
(***************************************************************************)
(* What a case is compiled from, its plan, and the gates a run passes      *)
(* before it executes that plan (cmd/staircase compile, run, topology,     *)
(* project, blueprint; internal/plan, gate, blueprint, engine/dag.go),     *)
(* composed with the records of the case (module Cases): a run loads the   *)
(* plan, the gates read the plan file again, and the run is then opened    *)
(* with what it loaded.                                                    *)
(*                                                                         *)
(* A plan file and its sha256 sidecar are two files: each is a plan, none, *)
(* or torn by a kill in mid-write.  The case is bound to a blueprint from  *)
(* the start, or made by hand; `project bind` gives the project another    *)
(* topology version and other cases.  Texts are values.  Not modelled: the *)
(* limits, tools and models of a plan, the repository map, gates of        *)
(* gates.json, and the gates that only warn.                               *)
(***************************************************************************)
EXTENDS Cases

CONSTANTS
    Agents,         \* names an agent of a topology may have
    PRDs,           \* texts of a PRD
    Projects, Home, \* projects, and the one the case is of
    Blueprints,     \* imported blueprints, by what their hash stands for
    MaxChanges,     \* bound: changes to what a plan is made from
    EndNode,        \* the END sentinel of an edge
    Torn,           \* what is left of a file cut in mid-write
    None

ASSUME WorkspaceAssumption ==
    /\ Home \in Projects /\ MaxChanges \in Nat /\ None \notin Blueprints
    /\ \A b \in Blueprints : DOMAIN b = {"sup", "agents", "edges", "prd", "stories"}

VARIABLES
    topos,      \* the versions of the project's topology: supervisor, agents and edges
    deps,       \* project_dependencies: <<source, target>>
    bound,      \* the blueprint the case is of, or none
    prd,        \* the case's PRD
    plan,       \* the plan file and its sidecar
    drafts,     \* per process: the plan a compile is writing, or the one a run loaded
    executed,   \* runs opened: the plan each executes and the topology version in its row
    compiled,   \* plans a compile ever wrote
    changes

planVars == <<topos, deps, bound, prd, plan, drafts, executed, compiled, changes>>
planFiles == <<topos, deps, bound, prd, plan, executed, compiled, changes>>
vars == <<caseVars, planVars>>

Nodes == Agents \union {EndNode}
Harness == {"", "harness"}

Topology(sup, agents, edges) == [sup |-> sup, agents |-> agents, edges |-> edges]
Latest == topos[Len(topos)]

\* What a process held in memory is gone with it.
Forget(p) == drafts' = [drafts EXCEPT ![p] = None]

----------------------------------------------------------------------------
(* Dependencies, plans and blueprints *)

\* engine.TopoSort: what the queue can reach by taking, again and again, the projects whose dependencies are sorted.
TopoSort(set, edges) ==
    LET inside == {e \in edges : e[1] \in set /\ e[2] \in set}
        sorted[k \in 0..Cardinality(set)] ==
            IF k = 0 THEN {}
            ELSE sorted[k - 1] \union {p \in set : \A e \in inside : e[1] = p => e[2] \in sorted[k - 1]}
    IN sorted[Cardinality(set)]

Acyclic(set, edges) == TopoSort(set, edges) = set

\* resolveProjectSet: a project and everything it depends on.
ProjectSet(root) ==
    LET reach[k \in 0..Cardinality(Projects)] ==
            IF k = 0 THEN {root} ELSE reach[k - 1] \union {e[2] : e \in {d \in deps : d[1] \in reach[k - 1]}}
    IN reach[Cardinality(Projects)]

\* addTopology or a harness, the PRD, every story of the case whatever its status, and the binding.
PlanNow(harness) ==
    LET t == IF harness = "" THEN Latest ELSE Topology(None, {}, {})
    IN [harness |-> harness, version |-> IF harness = "" THEN Len(topos) ELSE 0,
        sup |-> t.sup, agents |-> t.agents, edges |-> t.edges,
        prd |-> prd, stories |-> {s \in Stories : stories[s] # "none"}, hash |-> bound]

\* Plan.Validate.
Valid(p) ==
    p.harness = "" => /\ p.sup \in p.agents
                      /\ \A e \in p.edges : e[1] \in p.agents /\ e[2] \in p.agents \union {EndNode}

\* As when the sum is not compared.
LoadableUnsummed == plan.file \notin {None, Torn} /\ Valid(plan.file)
\* plan.Load: both files, the one the sum of the other, and a valid plan in it.
Loadable == plan.file \notin {None, Torn} /\ plan.file = plan.sum /\ Valid(plan.file)

\* Blueprint.Check: what the plan has that the blueprint says otherwise.
Matches(b, p) ==
    /\ p.sup = b.sup /\ p.agents = b.agents /\ p.edges = b.edges
    /\ p.prd = b.prd /\ p.stories = b.stories

----------------------------------------------------------------------------
(* The gates *)

\* topology.exists, has_agents, supervisor_registered, edges_valid; a harness needs no topology.
TopologyGates(harness) ==
    harness = "" =>
        /\ Len(topos) > 0
        /\ Latest.agents # {} /\ Latest.sup \in Latest.agents
        /\ \A e \in Latest.edges : {e[1], e[2]} \subseteq Latest.agents \union {EndNode}

\* runtime.plan_pinned, for a plan that loads: it names the case's blueprint and is it.
PlanPinned == bound # None => plan.file.hash = bound /\ Matches(bound, plan.file)

\* RunAll: no BLOCK gate fails.
PlanGates ==
    /\ Loadable
    /\ TopologyGates(plan.file.harness)
    /\ Acyclic(Projects, deps)
    /\ PlanPinned

----------------------------------------------------------------------------
(* A run: runCase loads the plan, prepare runs the gates, open makes the row *)

LoadPlan(p) ==
    /\ Loadable
    /\ BeginRun(p)
    /\ drafts' = [drafts EXCEPT ![p] = plan.file]
    /\ UNCHANGED <<topos, deps, bound, prd, plan, executed, compiled, changes>>

\* A run that reconciled first had loaded its plan before (ListStale).
LoadThenReconcile(p) ==
    /\ Loadable
    /\ ListStale(p)
    /\ drafts' = [drafts EXCEPT ![p] = plan.file]
    /\ UNCHANGED <<topos, deps, bound, prd, plan, executed, compiled, changes>>

Gated(p) == PlanGates /\ PassGates(p) /\ UNCHANGED planVars
Refused(p) == ~(PlanGates /\ CaseGates) /\ FailGates(p) /\ UNCHANGED planFiles /\ Forget(p)

\* CreateRun: the version the loaded plan names must be one of the project's, or 0.
VersionExists(v) == v = 0 \/ v \in DOMAIN topos
RowVersion(p) == drafts[p].version

Opened(p) ==
    /\ At(p, "gated") /\ VersionExists(RowVersion(p))
    /\ OpenRun(p)
    /\ executed' = executed \union {[run |-> Len(runs) + 1, plan |-> drafts[p], version |-> RowVersion(p)]}
    /\ Forget(p)
    /\ UNCHANGED <<topos, deps, bound, prd, plan, compiled, changes>>

----------------------------------------------------------------------------
(* `compile` *)

BeginCompile(p, harness, force) ==
    /\ May(p, "compile") /\ case.here
    /\ Acyclic(ProjectSet(Home), deps)
    /\ harness # "" \/ Len(topos) > 0
    /\ force \/ plan.file = None
    /\ drafts' = [drafts EXCEPT ![p] = PlanNow(harness)]
    /\ Start(p, "compile", "writing", 0)
    /\ UNCHANGED <<scene, records, hold, crashes, topos, deps, bound, prd, plan, executed, compiled, changes>>

\* plan.Write: validate, the file, then its sidecar.
WritePlan(p) ==
    /\ At(p, "writing") /\ Valid(drafts[p])
    /\ plan' = [plan EXCEPT !.file = drafts[p]]
    /\ compiled' = compiled \union {drafts[p]}
    /\ Go(p, "summing")
    /\ UNCHANGED <<scene, records, hold, crashes, topos, deps, bound, prd, drafts, executed, changes>>

InvalidPlan(p) ==
    /\ At(p, "writing") /\ ~Valid(drafts[p])
    /\ Done(p) /\ Forget(p)
    /\ UNCHANGED <<scene, records, hold, crashes, planFiles>>

WriteSum(p) ==
    /\ At(p, "summing")
    /\ plan' = [plan EXCEPT !.sum = drafts[p]]
    /\ Done(p) /\ Forget(p)
    /\ UNCHANGED <<scene, records, hold, crashes, topos, deps, bound, prd, executed, compiled, changes>>

\* os.WriteFile empties the file first: a kill leaves it cut.
TornWrite(p) ==
    /\ procs[p].at \in {"writing", "summing"} /\ Valid(drafts[p]) /\ crashes < MaxCrashes
    /\ plan' = IF At(p, "writing") THEN [plan EXCEPT !.file = Torn] ELSE [plan EXCEPT !.sum = Torn]
    /\ crashes' = crashes + 1
    /\ Done(p) /\ Forget(p)
    /\ UNCHANGED <<scene, records, hold, topos, deps, bound, prd, executed, compiled, changes>>

----------------------------------------------------------------------------
(* The commands that change what a plan is made from, each one statement or one transaction *)

Change(p) ==
    /\ May(p, "change") /\ changes < MaxChanges /\ changes' = changes + 1
    /\ UNCHANGED <<caseVars, bound, plan, drafts, executed, compiled>>

RegisterTopology(p, sup) ==
    /\ Change(p)
    /\ topos' = Append(topos, Topology(sup, {}, {}))
    /\ UNCHANGED <<deps, prd>>

\* `topology agent add` and `edge add` take any registered version, and an edge any two names.
AddAgent(p, v, a) ==
    /\ Change(p) /\ a \notin topos[v].agents
    /\ topos' = [topos EXCEPT ![v].agents = @ \union {a}]
    /\ UNCHANGED <<deps, prd>>

AddEdge(p, v, from, to) ==
    /\ Change(p) /\ <<from, to>> \notin topos[v].edges
    /\ topos' = [topos EXCEPT ![v].edges = @ \union {<<from, to>>}]
    /\ UNCHANGED <<deps, prd>>

\* BindBlueprint: its topology is a new version.
Bind(p, b) ==
    /\ Change(p)
    /\ topos' = Append(topos, Topology(b.sup, b.agents, b.edges))
    /\ UNCHANGED <<deps, prd>>

SetPRD(p, text) ==
    /\ Change(p) /\ prd' = text /\ text # prd
    /\ UNCHANGED <<topos, deps>>

\* Someone edits the plan file after compile.
EditPlan(p, text) ==
    /\ May(p, "change") /\ changes < MaxChanges /\ changes' = changes + 1
    /\ plan.file \notin {None, Torn}
    /\ plan' = [plan EXCEPT !.file.prd = text]
    /\ UNCHANGED <<caseVars, topos, deps, bound, prd, drafts, executed, compiled>>

\* `project dep add` asks for no acyclicity.
AddDependency(p, d) ==
    /\ Change(p) /\ d \notin deps
    /\ deps' = deps \union {d}
    /\ UNCHANGED <<topos, prd>>

ChangeStep(p) ==
    \/ \E a \in Agents : RegisterTopology(p, a)
    \/ \E v \in DOMAIN topos, a \in Agents : AddAgent(p, v, a)
    \/ \E v \in DOMAIN topos, from \in Agents, to \in Nodes : AddEdge(p, v, from, to)
    \/ \E b \in Blueprints : Bind(p, b)
    \/ \E text \in PRDs : SetPRD(p, text) \/ EditPlan(p, text)
    \/ \E d \in Projects \X Projects : AddDependency(p, d)
PlanStep(p) ==
    \/ LoadPlan(p) \/ LoadThenReconcile(p) \/ Gated(p) \/ Refused(p) \/ Opened(p)
    \/ \E harness \in Harness, force \in BOOLEAN : BeginCompile(p, harness, force)
    \/ WritePlan(p) \/ InvalidPlan(p) \/ WriteSum(p) \/ TornWrite(p)

\* The plan on disk: what a session compiled for the case it made, or the plan of
\* the project's topology where the commands that make plans are used.
FirstPlans == IF "compile" \in scene.used THEN {None, PlanNow("")} ELSE {PlanNow("harness")}

\* A project that was bound to a blueprint, or made by hand like one; the case is that blueprint's or not.
Init ==
    /\ InitCases
    /\ \E b \in Blueprints :
         /\ topos = <<Topology(b.sup, b.agents, b.edges)>> /\ prd = b.prd
         /\ {s \in Stories : stories[s] # "none"} = b.stories
         /\ bound \in {None, b}
    /\ deps = {}
    /\ \E file \in FirstPlans :
         /\ plan = [file |-> file, sum |-> file]
         /\ compiled = {file} \ {None}
    /\ "compile" \in scene.used \/ bound = None
    /\ drafts = [p \in Procs |-> None]
    /\ executed = {} /\ changes = 0

Next ==
    \/ \E p \in Procs :
         \/ RecordStep(p) /\ UNCHANGED planVars
         \/ Crash(p) /\ UNCHANGED planFiles /\ Forget(p)
         \/ PlanStep(p) \/ ChangeStep(p)
    \/ World /\ UNCHANGED planVars

Spec == Init /\ [][Next]_vars

----------------------------------------------------------------------------
(* Properties *)

\* A run executes a plan that a compile wrote, whole and valid: never one that was cut by a kill, edited since, or put
\* together from two compiles (plan.Load).
RunsWholePlan == \A r \in executed : r.plan \in compiled /\ Valid(r.plan)

\* A case bound to a blueprint executes exactly that blueprint, whatever was changed since it was bound
\* (gate/runtime.go: "a case bound to a blueprint runs exactly that blueprint").
PinnedRuns == \A r \in executed : bound # None => r.plan.hash = bound /\ Matches(bound, r.plan)

\* The version in a run's row is the one its plan was compiled from: that version is the project's, has the plan's
\* supervisor, and what the plan has of agents and edges is in it, whatever was registered between compile and run.
RowNamesVersion ==
    \A r \in executed :
        IF r.plan.harness # "" THEN r.version = 0
        ELSE /\ r.version \in DOMAIN topos
             /\ topos[r.version].sup = r.plan.sup
             /\ r.plan.agents \subseteq topos[r.version].agents
             /\ r.plan.edges \subseteq topos[r.version].edges

\* A run executes one compiled plan, that of the blueprint its case is bound to, and its row names the version it came from,
\* whatever was compiled, cut, edited, bound or registered between its gates and its start.
RunsTheBoundPlan == RunsWholePlan /\ PinnedRuns /\ RowNamesVersion
=============================================================================
