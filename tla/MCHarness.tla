----------------------------- MODULE MCHarness ------------------------------
(***************************************************************************)
(* An instance of Harness and of Worktree: a file and a new path, one that *)
(* git ignores; proposals of one edit of each kind, and of several in a    *)
(* row; sessions of every agent.                                           *)
(***************************************************************************)
EXTENDS Harness
CONSTANTS c1, c2

MCBases == {<<File("a", "755"), Absent, Absent>>, <<File("a", "644"), Link, Absent>>}
MCProposals == {
    <<Replace(1, "a", "b")>>,
    <<Replace(1, "b", "a")>>,
    <<NewFile(2, "bin", TRUE, "755"), DeleteFile(1)>>,
    <<DeleteFile(1), NewFile(1, "b", FALSE, "")>>,
    <<NewFile(3, "a", FALSE, ""), Replace(3, "a", "b")>>}
MCWritten == {Absent, Link, File("a", "644"), File("b", "755"), File("bin", "644")}

Tool(t) == [tool |-> t, edits |-> <<>>]
Edit(edits) == [tool |-> "edit", edits |-> edits]
Two(x, y) == [c \in Calls |-> IF c = c1 THEN x ELSE y]
ABC == <<Replace(1, "a", "b")>>
Back == <<Replace(1, "b", "a"), NewFile(2, "b", FALSE, "")>>

FreeSession == [kind |-> "free", hooks |-> {}, calls |-> Two(Tool("none"), Tool("none")), parallel |-> FALSE, loaded |-> TRUE,
                breaks |-> 0, checks |-> FALSE, writes |-> 1, killed |-> FALSE]
Of(kind, hooks, x, y) == [FreeSession EXCEPT !.kind = kind, !.hooks = hooks, !.calls = Two(x, y)]
Own == {"own"}
MCSessions == {
    FreeSession,

    [Of("claude", Hooks, Edit(ABC), Edit(Back)) EXCEPT !.breaks = 1, !.checks = TRUE],
    [Of("claude", Hooks, Edit(ABC), Tool("shell")) EXCEPT !.breaks = 1, !.parallel = TRUE],
    [Of("codex", Own, Edit(ABC), Tool("shell")) EXCEPT !.checks = TRUE],
    [Of("codex", Hooks, Tool("shell"), Tool("refused")) EXCEPT !.breaks = 1],
    [Of("gemini", Own, Edit(ABC), Edit(Back)) EXCEPT !.parallel = TRUE, !.killed = TRUE],
    [Of("opencode", Own, Edit(ABC), Tool("shell")) EXCEPT !.breaks = 1],
    [Of("opencode", {}, Edit(ABC), Tool("read")) EXCEPT !.loaded = FALSE],
    [Of("tools", Own, Edit(Back), Tool("shell")) EXCEPT !.writes = 2, !.killed = TRUE],
    Of("tools", Own, Edit(ABC), Tool("read"))}
=============================================================================
