------------------------------ MODULE Harness -------------------------------
(***************************************************************************)
(* How the calls of an agent's tools reach the decision loop               *)
(* (internal/agent: claudecode.go, codex.go, gemini.go, opencode.go,       *)
(* hook.go, tools.go; internal/orchestrator: agent.go, done.go).           *)
(*                                                                         *)
(* The agent is another program.  Before and after every tool call it runs *)
(* the hooks that are installed, its session's own and perhaps a           *)
(* company's, and goes on unless one of them blocks.  A hook is a process  *)
(* that asks the run and may die at any point; the run decides a call once *)
(* and answers every hook that asks.  An approved edit is written again    *)
(* after the tool ran, and what a command changed is reviewed.  Calls may  *)
(* be under way at once.  The run's own tools call the loop directly.      *)
(*                                                                         *)
(* This module extends Worktree: in a session of kind "free" the agent is  *)
(* Worktree's, without hooks; in the others it is this module's.           *)
(***************************************************************************)
EXTENDS Worktree

CONSTANTS
    Calls,          \* the tool calls of a session
    Sessions,       \* the sessions of this instance
    None

VARIABLES
    session,    \* the agent, its hooks, its calls, and what may go wrong
    program,    \* the agent's program: "off", "on", "ended" or "failed"
    heard,      \* a SessionStart hook arrived
    call,       \* how far the agent is with each call
    hook,       \* how far the hooks of each call are
    answer,     \* the run's one answer to the hooks of a call, and which hook asked first
    offered,    \* the calls whose proposal waits for the loop
    deciding,   \* the call whose proposal the loop decides
    pending,    \* hookServer.pending: what was approved of an edit, until its tool ran
    asked,      \* how often each call is on the chain as a request
    granted,    \* the calls that were approved
    attempts,   \* doneAttempts
    broken      \* hooks that died and tools that failed, against the bound of the session

agentVars == <<session, program, heard, call, hook, answer, offered, deciding, pending, asked, granted, attempts, broken>>

-----------------------------------------------------------------------------
(* The agents.  Each adapter serves the hooks, names them to the agent,    *)
(* starts it and waits for it: Start and Ends.  What differs is here.      *)
(* commands: whether the run is asked before they run.  stop: whether the  *)
(* agent asks if it may end.  writes: whether its edit tool writes the     *)
(* file itself.                                                            *)

ClaudeCode == [commands |-> "asked", stop |-> TRUE, writes |-> TRUE]
Codex == [commands |-> "reviewed", stop |-> TRUE, writes |-> TRUE]
Gemini == [commands |-> "asked", stop |-> FALSE, writes |-> TRUE]
OpenCode == [commands |-> "asked", stop |-> FALSE, writes |-> TRUE]
BuiltIn == [commands |-> "asked", stop |-> FALSE, writes |-> FALSE]
Agent == CASE session.kind = "claude" -> ClaudeCode [] session.kind = "codex" -> Codex [] session.kind = "gemini" -> Gemini
           [] session.kind = "opencode" -> OpenCode [] OTHER -> BuiltIn

Free == session.kind = "free"
Hooks == {"own", "managed"}
MaxDoneAttempts == 3

\* A call, in the one shape the adapters give the tools of all agents.
Want(c) == session.calls[c]
Edits(c) == Want(c).edits
PathsOf(c) == {Edits(c)[i].path : i \in DOMAIN Edits(c)}

NoAnswer == [first |-> None, is |-> "none"]
NoHooks == [h \in Hooks |-> "off"]
Calling == [h \in Hooks |-> IF h \in session.hooks THEN "calling" ELSE "off"]
Open(c) == call[c] \in {"pre", "run", "post"}

HarnessInit ==
    /\ Init
    /\ session \in Sessions /\ (session.kind # "free" => \A p \in Paths : base[p] # Link)
    /\ program = "off" /\ heard = FALSE
    /\ call = [c \in Calls |-> "idle"]
    /\ hook = [c \in Calls |-> NoHooks]
    /\ answer = [c \in Calls |-> NoAnswer]
    /\ offered = {} /\ deciding = None
    /\ pending = [c \in Calls |-> NoFiles]
    /\ asked = [c \in Calls |-> 0] /\ granted = {}
    /\ attempts = 0 /\ broken = 0

Breaks == broken < session.breaks /\ broken' = broken + 1

-----------------------------------------------------------------------------
(* A session. *)

\* The program starts; its first hook is the handshake.  Hooks that do not load let every call run.
Start ==
    /\ program = "off" /\ pc = "loop"
    /\ program' = "on"
    /\ \/ heard' = session.loaded /\ UNCHANGED broken
       \/ session.loaded /\ session.hooks # {} /\ heard' = FALSE /\ Breaks
    /\ UNCHANGED <<vars, session, call, hook, answer, offered, deciding, pending, asked, granted, attempts>>

\* The agent calls a tool: first the hooks.
Call(c) ==
    /\ program = "on" /\ session.loaded
    /\ call[c] = "idle" /\ Want(c).tool # "none"
    /\ session.parallel \/ \A o \in Calls : ~Open(o)
    /\ call' = [call EXCEPT ![c] = "pre"]
    /\ hook' = [hook EXCEPT ![c] = Calling]
    /\ UNCHANGED <<vars, session, program, heard, answer, offered, deciding, pending, asked, granted, attempts, broken>>

\* A tool of the agent writes: an edit files of its own, a command any, and where no hooks loaded whatever it likes.
MayWrite(p, f) ==
    \/ ~session.loaded
    \/ \E c \in Calls :
          /\ call[c] = "run"
          /\ Want(c).tool = "shell" \/ (Want(c).tool = "edit" /\ Agent.writes /\ p \in PathsOf(c) /\ f.kind = "file")
ToolWrites(p, f) == program = "on" /\ writes < session.writes /\ MayWrite(p, f) /\ AgentWrites(p, f) /\ UNCHANGED agentVars

\* The tool is done, and the hooks are called again; after a tool that failed they are not.
RanTool(c) ==
    /\ program = "on" /\ call[c] = "run"
    /\ \/ Want(c).tool \in {"edit", "shell"} /\ call' = [call EXCEPT ![c] = "post"] /\ hook' = [hook EXCEPT ![c] = Calling]
          /\ UNCHANGED broken
       \/ Want(c).tool \notin {"edit", "shell"} /\ call' = [call EXCEPT ![c] = "over"] /\ UNCHANGED <<hook, broken>>
       \/ Want(c).tool \in {"edit", "shell"} /\ call' = [call EXCEPT ![c] = "over"] /\ Breaks /\ UNCHANGED hook
    /\ UNCHANGED <<vars, session, program, heard, answer, offered, deciding, pending, asked, granted, attempts>>

-----------------------------------------------------------------------------
(* The run's answer to a hook. *)

Answers(c, h, is) == answer' = [answer EXCEPT ![c] = [first |-> h, is |-> is]]

\* pre: what needs nobody's decision.  A path outside the project, an ambiguous call or a tool it does not know is refused.
Undecided(c) == Want(c).tool \in {"read", "refused"} \/ (Want(c).tool = "shell" /\ Agent.commands = "reviewed")

\* Propose: the request is on the chain before the loop is asked.
AnswerBefore(c, h) ==
    /\ \/ /\ Undecided(c)
          /\ Answers(c, h, IF Want(c).tool = "refused" THEN "deny" ELSE "allow")
          /\ UNCHANGED <<offered, asked>>
       \/ /\ ~Undecided(c)
          /\ Answers(c, h, "deciding")
          /\ offered' = offered \union {c}
          /\ asked' = [asked EXCEPT ![c] = @ + 1]
    /\ UNCHANGED <<vars, pending>>

WrittenByTool(c) == {p \in DOMAIN pending[c] : work[p] = base[p]}    \* mutant: what the tool wrote is left as it is

\* Approval.Apply: path by path in their order, up to a link.
Applied(c) == {p \in DOMAIN pending[c] : \A q \in DOMAIN pending[c] : work[q] = Link => p < q}

\* PostToolUse: what was approved of an edit is written; what a command changed is reviewed.
AnswerAfter(c, h) ==
    /\ \/ /\ Want(c).tool = "edit"
          /\ work' = [p \in Paths |-> IF p \in Applied(c) THEN pending[c][p] ELSE work[p]]
          /\ pending' = [pending EXCEPT ![c] = NoFiles]
          /\ Answers(c, h, IF Applied(c) = DOMAIN pending[c] THEN "allow" ELSE "deny")
          /\ quiet' = FALSE
          /\ UNCHANGED offered
       \/ /\ Want(c).tool = "shell"
          /\ Answers(c, h, "deciding")
          /\ offered' = offered \union {c}
          /\ UNCHANGED <<work, pending, quiet>>
    /\ UNCHANGED <<records, index, head, pc, ask, after, left, bounds, asked>>

AnswerHook(c, h) == IF call[c] = "pre" THEN AnswerBefore(c, h) ELSE AnswerAfter(c, h)

ArrivesAlone(c, h) ==    \* mutant: every hook is answered on its own
    /\ hook[c][h] = "calling" /\ hook' = [hook EXCEPT ![c][h] = "waiting"]
    /\ AnswerHook(c, h)
    /\ UNCHANGED <<session, program, heard, call, deciding, granted, attempts, broken>>

\* ServeHTTP: the first hook of a call has it decided, the others wait for that.
Arrives(c, h) ==
    /\ hook[c][h] = "calling"
    /\ hook' = [hook EXCEPT ![c][h] = "waiting"]
    /\ \/ answer[c] = NoAnswer /\ AnswerHook(c, h)
       \/ answer[c] # NoAnswer /\ UNCHANGED <<vars, answer, offered, pending, asked>>
    /\ UNCHANGED <<session, program, heard, call, deciding, granted, attempts, broken>>

ReturnsFirst(c, h) ==    \* mutant: only the hook that asked first is answered
    /\ hook[c][h] = "waiting" /\ answer[c].is \in {"allow", "deny"} /\ answer[c].first = h
    /\ hook' = [hook EXCEPT ![c][h] = answer[c].is]
    /\ UNCHANGED <<vars, session, program, heard, call, answer, offered, deciding, pending, asked, granted, attempts, broken>>

\* The hook prints the answer, and the agent reads it.
Returns(c, h) ==
    /\ hook[c][h] = "waiting" /\ answer[c].is \in {"allow", "deny"}
    /\ hook' = [hook EXCEPT ![c][h] = answer[c].is]
    /\ UNCHANGED <<vars, session, program, heard, call, answer, offered, deciding, pending, asked, granted, attempts, broken>>

BlocksNot == "none"    \* mutant: the program's exit status is the hook's
\* HookCommand: whatever breaks is exit status 2, which blocks.
Blocks == "deny"

\* The run does not go on without the hook that asked first: its request ends with its connection.
Breaking(c, h) ==
    IF answer[c] = [first |-> h, is |-> "deciding"]
    THEN Answers(c, h, "deny") /\ offered' = offered \ {c}
    ELSE UNCHANGED <<answer, offered>>

\* A hook is killed, cannot reach the run, or gets an answer it cannot read.
Dies(c, h) ==
    /\ hook[c][h] \in {"calling", "waiting"} /\ Breaks
    /\ hook' = [hook EXCEPT ![c][h] = Blocks]
    /\ Breaking(c, h)
    /\ UNCHANGED <<vars, session, program, heard, call, deciding, pending, asked, granted, attempts>>

\* All hooks are back: the agent runs the tool unless one blocks, and after the tool goes on.
Proceeds(c) ==
    /\ program = "on" /\ call[c] \in {"pre", "post"}
    /\ \A h \in session.hooks : hook[c][h] \in {"allow", "deny", "none"}
    /\ call' = [call EXCEPT ![c] = IF @ = "post" THEN "over"
                                   ELSE IF \E h \in session.hooks : hook[c][h] = "deny" THEN "refused" ELSE "run"]
    /\ hook' = [hook EXCEPT ![c] = NoHooks]
    /\ answer' = [answer EXCEPT ![c] = NoAnswer]
    /\ UNCHANGED <<vars, session, program, heard, offered, deciding, pending, asked, granted, attempts, broken>>

-----------------------------------------------------------------------------
(* The decision loop, one proposal at a time. *)

\* Nothing to review, or nothing that can be read: answered without asking.
NothingToReview(c) ==
    /\ call[c] = "post" /\ (Unreadable \/ WorktreeChanges = <<>>)
    /\ Answers(c, answer[c].first, IF Unreadable THEN "deny" ELSE "allow")
    /\ UNCHANGED <<vars, deciding, asked>>

Takes(c) ==
    /\ c \in offered /\ pc = "loop"
    /\ offered' = offered \ {c}
    /\ \/ NothingToReview(c)
       \/ /\ \/ call[c] = "pre" /\ Ask(Edits(c), FALSE) /\ UNCHANGED asked
             \/ call[c] = "post" /\ AskReview /\ asked' = [asked EXCEPT ![c] = @ + 1]
          /\ deciding' = c
          /\ UNCHANGED <<proposals, answer>>
    /\ UNCHANGED <<session, program, heard, call, hook, pending, granted, attempts, broken>>

\* The reply goes to who still waits for it.
Listens(c) == answer[c].is = "deciding"
Replies(c, is) == IF Listens(c) THEN Answers(c, answer[c].first, is) ELSE UNCHANGED answer

Approves(c) ==
    /\ deciding = c
    /\ \/ /\ ask # <<>>
          /\ \E next \in Derive(files, ask, work) :
                Grant(next) /\ pending' = [pending EXCEPT ![c] = IF after \/ ~Listens(c) THEN @ ELSE next]
          /\ pc' = "loop" /\ UNCHANGED left
       \/ /\ ask = <<>> /\ pc = "asked" /\ pc' = "loop"
          /\ UNCHANGED <<records, tree, ask, after, quiet, left, bounds, pending>>
    /\ Replies(c, "allow")
    /\ granted' = granted \union {c}
    /\ deciding' = None
    /\ UNCHANGED <<session, program, heard, call, hook, offered, asked, attempts, broken>>

Refuses(c) ==
    /\ deciding = c /\ Reject
    /\ Replies(c, "deny")
    /\ deciding' = None
    /\ UNCHANGED <<session, program, heard, call, hook, offered, pending, asked, granted, attempts, broken>>

-----------------------------------------------------------------------------
(* The end of a session. *)

Quiet == \A c \in Calls : ~Open(c)
Least(a, b) == IF a < b THEN a ELSE b

\* A company's configuration of Codex has no Stop hook.
StopHooks == IF Agent = Codex THEN session.hooks \ {"managed"} ELSE session.hooks

\* Done, which every Stop hook asks: failing checks send the agent back, so many times.
Stop ==
    /\ program = "on" /\ Quiet
    /\ \/ /\ Agent.stop /\ session.checks /\ heard /\ attempts < MaxDoneAttempts
          /\ attempts' = Least(MaxDoneAttempts, attempts + Cardinality(StopHooks))
          /\ UNCHANGED program
       \/ program' = "ended" /\ UNCHANGED attempts
    /\ UNCHANGED <<vars, session, heard, call, hook, answer, offered, deciding, pending, asked, granted, broken>>

\* Nobody waits for an answer any more, and what was not taken is not decided.
Abandoned ==
    /\ call' = [c \in Calls |-> IF Open(c) THEN "over" ELSE call[c]]
    /\ hook' = [c \in Calls |-> NoHooks]
    /\ answer' = [c \in Calls |-> NoAnswer]
    /\ offered' = {}

\* The program ends with an error, or is killed.
Fails ==
    /\ program = "on" /\ Breaks
    /\ program' = "failed"
    /\ Abandoned
    /\ UNCHANGED <<vars, session, heard, deciding, pending, asked, granted, attempts>>

\* The run ends with its agent.  A session that never ran the hooks is a failure.
Ends ==
    /\ program \in {"ended", "failed"} /\ pc = "loop"
    /\ IF program = "ended" /\ heard THEN Finalize
       ELSE pc' = "failed" /\ UNCHANGED <<records, tree, ask, after, quiet, left, bounds>>
    /\ UNCHANGED agentVars

\* The run is killed, with all that it knew of the calls.
Killed ==
    /\ session.killed /\ Interrupt
    /\ program' = "off" /\ heard' = FALSE /\ deciding' = None
    /\ Abandoned
    /\ pending' = [c \in Calls |-> NoFiles]
    /\ attempts' = 0
    /\ UNCHANGED <<session, asked, granted, broken>>

Session ==
    \/ Start
    \/ \E c \in Calls : Call(c) \/ RanTool(c) \/ Proceeds(c) \/ Takes(c) \/ Approves(c) \/ Refuses(c)
    \/ \E p \in Paths, f \in Written : ToolWrites(p, f)
    \/ \E c \in Calls, h \in Hooks : Arrives(c, h) \/ Returns(c, h) \/ Dies(c, h)
    \/ Stop \/ Fails \/ Ends \/ Killed
    \/ \E discard \in BOOLEAN : Continue(discard) /\ UNCHANGED agentVars

HarnessNext == (Free /\ Next /\ UNCHANGED agentVars) \/ (~Free /\ Session)

\* Hooks, server and loop go on while the run does, and whoever is asked answers: the run's limit does if a person does not.
HarnessFairness ==
    \A c \in Calls :
        /\ WF_<<vars, agentVars>>(~Free /\ (Takes(c) \/ Approves(c) \/ Refuses(c)))
        /\ \A h \in Hooks : WF_<<vars, agentVars>>(~Free /\ (Arrives(c, h) \/ Returns(c, h)))
        /\ WF_<<vars, agentVars>>(~Free /\ Proceeds(c))

HarnessSpec == HarnessInit /\ [][HarnessNext]_<<vars, agentVars>> /\ HarnessFairness

-----------------------------------------------------------------------------
(* Properties. *)

\* Whatever hook dies when, and however many ask: in a session whose hooks loaded, an edit or a command runs only after the run approved
\* that call; only Codex's commands run first and are reviewed after (hook.go: every failure is 2, which blocks).
RunsAsDecided ==
    session.kind # "free" /\ session.loaded =>
        \A c \in Calls : call[c] \in {"run", "post"} /\ ~Undecided(c) => c \in granted

\* A tool call is put to the decision once before it runs and once after, with two hooks asking for it, and one of them dying
\* (docs/managed.md:27: "each tool call is still decided once").
AskedOnce == \A c \in Calls : asked[c] <= (IF Want(c).tool = "shell" THEN 2 ELSE 1)

\* What a session leaves is what was approved, whatever the agent's edit tools wrote themselves, as long as its calls go one at a time
\* and nothing died (claudecode.go: "the approved bytes are written again").
SessionLeavesApproved ==
    ~Free /\ session.loaded /\ ~session.parallel /\ broken = 0 /\ interrupts = 0 /\ Quiet /\ pc = "loop" => Verified

\* No hook waits for ever: its call goes on, is refused, or the run ends.
CallsReturn == \A c \in Calls : call[c] \in {"pre", "post"} ~> call[c] \notin {"pre", "post"} \/ pc = "interrupted"
=============================================================================
