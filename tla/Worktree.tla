------------------------------ MODULE Worktree ------------------------------
(***************************************************************************)
(* What a run approves, file by file, and the worktree it is checked       *)
(* against (internal/orchestrator/approval.go, agent.go, ledger.go).       *)
(*                                                                         *)
(* The approved state is the base commit under the files derived from      *)
(* exactly the edits that were shown.  The agent's tools apply what was    *)
(* approved path by path; its commands write what they like and are        *)
(* reviewed after; finalize compares the worktree with the approved state  *)
(* and commits the state, never the worktree.  A killed run is continued   *)
(* from its records, and the ledger rebuilds its tree elsewhere.           *)
(*                                                                         *)
(* A path holds nothing, a file with a content and a mode, or a link.  A   *)
(* content is a value: an edit finds a content and puts another in its     *)
(* place (line ends are left out).  The size of a record is counted        *)
(* in paths.  Not modelled: a directory in the place of a file, and files  *)
(* that cannot be read or written.                                         *)
(***************************************************************************)
EXTENDS Integers, FiniteSets, Sequences, SequencesExt

CONSTANTS
    Paths,          \* paths of the repository, numbered in their sorted order
    Ignored,        \* those that git ignores while they are untracked
    Texts, Binary,  \* contents that are UTF-8, and contents that are not
    Bases,          \* the base commits to start from
    Proposals,      \* sequences of edits the agent may propose
    Written,        \* what the agent's commands leave in a path
    MaxRecord,      \* the paths an entry of the chain has room for
    MaxProposals, MaxWrites, MaxInterrupts   \* bounds of this instance

Contents == Texts \union Binary
Empty == "empty"    \* the content of a proposal for a path that is not a regular file
Absent == [kind |-> "absent"]
Link == [kind |-> "link"]
Modes == {"644", "755"}
File(content, mode) == [kind |-> "file", content |-> content, mode |-> mode]
Files == {File(c, m) : c \in Contents \union {Empty}, m \in Modes}
Entries == Files \union {Absent, Link}

\* domain.ProposedEdit.  A new file that is not text travels as content_b64 (b64), and mode is "" unless it is given.
NewFile(p, content, b64, mode) == [path |-> p, kind |-> "new", content |-> content, b64 |-> b64, mode |-> mode]
DeleteFile(p) == [path |-> p, kind |-> "delete", content |-> Empty, b64 |-> FALSE, mode |-> ""]
Replace(p, search, content) ==
    [path |-> p, kind |-> "edit", search |-> search, content |-> content, b64 |-> FALSE, mode |-> ""]

ASSUME WorktreeAssumption ==
    /\ Paths \subseteq Nat /\ Ignored \subseteq Paths
    /\ Texts \intersect Binary = {} /\ Empty \notin Contents
    /\ Bases \subseteq [Paths -> Entries] /\ Written \subseteq Entries
    /\ MaxRecord \in Nat /\ MaxProposals \in Nat /\ MaxWrites \in Nat /\ MaxInterrupts \in Nat

VARIABLES
    base,       \* the base commit's tree
    work,       \* the worktree
    index,      \* its index
    head,       \* the tree of the commit HEAD is at, and whether that commit is the agent's
    files,      \* approvals.files: what is approved of a path; Absent where a deletion is
    ledger,     \* the approved proposals, in order
    pc,         \* what the run does
    ask,        \* the edits being decided
    after,      \* whether they happened already (review_after)
    quiet,      \* the agent left the worktree alone since they were read
    left,       \* the paths an approved answer has yet to write, and what to write
    writes, proposals, interrupts   \* counts, against the bounds

vars == <<base, work, index, head, files, ledger, pc, ask, after, quiet, left, writes, proposals, interrupts>>
bounds == <<writes, proposals, interrupts>>
records == <<base, files, ledger>>
tree == <<work, index, head>>

NoFiles == <<>>     \* the function with no path
Under(fs, p) == IF p \in DOMAIN fs THEN fs[p] ELSE base[p]

Init ==
    /\ base \in Bases
    /\ work = base /\ index = base /\ head = [tree |-> base, moved |-> FALSE]
    /\ files = NoFiles /\ ledger = <<>>
    /\ pc = "loop" /\ ask = <<>> /\ after = FALSE /\ quiet = TRUE /\ left = NoFiles
    /\ writes = 0 /\ proposals = 0 /\ interrupts = 0

-----------------------------------------------------------------------------
(* From edits to approved files. *)

With(fs, p, f) == [q \in DOMAIN fs \union {p} |-> IF q = p THEN f ELSE fs[q]]
Over(next, fs) == [q \in DOMAIN next \union DOMAIN fs |-> IF q \in DOMAIN next THEN next[q] ELSE fs[q]]

\* binaryContent, and replace_block: text has one representation only.
Represented(e) == (e.content \in Binary) = e.b64

\* The mode of a new file: the one given, else that of the file it overwrites, else 644.
ModeOf(cur, e) == IF e.mode # "" THEN e.mode ELSE IF cur.kind = "file" THEN cur.mode ELSE "644"

\* What an edit makes of a path, in a set that is empty when the edit is refused.
Edited(cur, e) ==
    IF cur = Link THEN {}
    ELSE CASE e.kind = "new" -> IF Represented(e) THEN {File(e.content, ModeOf(cur, e))} ELSE {}
           [] e.kind = "delete" -> IF cur = Absent THEN {} ELSE {Absent}
           [] OTHER -> IF cur # Absent /\ cur.content = e.search THEN {File(e.content, cur.mode)} ELSE {}

\* derive: the files edits produce over fs, in a set that is empty when one is refused.  Each edit sees the ones before it.
\* dir is the directory the paths are checked in (cleanApprovedPath).
Derive(fs, edits, dir) ==
    FoldLeft(LAMBDA nexts, e :
                 UNION {{With(next, e.path, f) : f \in IF dir[e.path] = Link THEN {}
                                                      ELSE Edited(Under(Over(next, fs), e.path), e)} : next \in nexts},
             {NoFiles}, edits)

\* recordTooBig: the decision lists its files twice, the final review all that are approved once.
Fits(next, fs) ==
    /\ 2 * Cardinality(DOMAIN next) <= 2 * MaxRecord
    /\ Cardinality(DOMAIN next \union DOMAIN fs) <= MaxRecord

NoDir == [p \in Paths |-> Absent]
\* RebuildTree: the ledger replayed against an empty directory.
Rebuilt ==
    LET fold == FoldLeft(LAMBDA fss, edits : UNION {{Over(next, fs) : next \in Derive(fs, edits, NoDir)} : fs \in fss},
                         {NoFiles}, ledger)
    IN  {[p \in Paths |-> Under(fs, p)] : fs \in fold}

\* applyFiles: the tree a commit of the approved state has.
Approved == [p \in Paths |-> Under(files, p)]

-----------------------------------------------------------------------------
(* The worktree against the approved state. *)

\* git status: the paths whose index is not HEAD's, or whose file is not the index's.
Untracked(p) == index[p] = Absent
Changed == {p \in Paths : index[p] # head.tree[p] \/ (work[p] # index[p] /\ ~(Untracked(p) /\ p \in Ignored))}

\* worktreeChanges: a path's change as a whole-file edit; none when it is as approved.
ModeChange(want, got) ==
    IF (want.kind = "file" /\ got.mode # want.mode) \/ (want.kind # "file" /\ got.mode # "644") THEN got.mode ELSE ""
ChangeOf(p) ==
    LET want == Under(files, p)
        got == work[p]
    IN  CASE got = Link -> <<NewFile(p, Empty, FALSE, "")>>
          [] got = Absent -> IF want # Absent THEN <<DeleteFile(p)>> ELSE <<>>
          [] got = want -> <<>>
          [] OTHER -> <<NewFile(p, got.content, got.content \in Binary, ModeChange(want, got))>>

Ascending(S) == SetToSortSeq(S, LAMBDA x, y : x < y)
\* A path the base holds as a link makes the reading itself fail.
Unreadable == \E p \in Changed : p \notin DOMAIN files /\ base[p] = Link
WorktreeChanges == FlattenSeq([i \in 1..Cardinality(Changed \union DOMAIN files) |->
                                  ChangeOf(Ascending(Changed \union DOMAIN files)[i])])

\* verify: the paths that differ from the approved state.  The modes of approved paths are not compared.
Mismatched ==
    {p \in DOMAIN files : IF files[p] = Absent THEN work[p] # Absent
                          ELSE work[p].kind # "file" \/ work[p].content # files[p].content}
\* Mutant: only what was approved is looked at.
ViolationsOfApproved == Mismatched

Violations == Mismatched \union (Changed \ DOMAIN files)
Verified == ~head.moved /\ Violations = {}

\* restore: the worktree with paths put back to their approved state, in their order; a link of the base cannot be, and ends it.
Unrestorable == {p \in Paths \ DOMAIN files : base[p] = Link}
UpToFailure(paths) == {p \in paths : \A q \in paths \intersect Unrestorable : p < q}
Restored(paths) == [p \in Paths |-> IF p \in paths THEN Under(files, p) ELSE work[p]]

-----------------------------------------------------------------------------
(* The agent and its tools. *)

Running == pc \in {"loop", "asked", "applying"}

AgentWrites(p, f) ==
    /\ Running /\ writes < MaxWrites /\ f # work[p]
    /\ work' = [work EXCEPT ![p] = f]
    /\ quiet' = FALSE /\ writes' = writes + 1
    /\ UNCHANGED <<records, index, head, pc, ask, after, left, proposals, interrupts>>

AgentStages(p) ==
    /\ Running /\ writes < MaxWrites /\ index[p] # work[p]
    /\ index' = [index EXCEPT ![p] = work[p]]
    /\ quiet' = FALSE /\ writes' = writes + 1
    /\ UNCHANGED <<records, work, head, pc, ask, after, left, proposals, interrupts>>

AgentCommits ==
    /\ Running /\ writes < MaxWrites /\ index # head.tree
    /\ head' = [tree |-> index, moved |-> TRUE]
    /\ quiet' = FALSE /\ writes' = writes + 1
    /\ UNCHANGED <<records, work, index, pc, ask, after, left, proposals, interrupts>>

\* What is asked from now on, and whether it happened already.
Ask(edits, happened) ==
    /\ pc = "loop" /\ pc' = "asked" /\ ask' = edits /\ after' = happened /\ quiet' = TRUE
    /\ UNCHANGED <<records, tree, left, writes, interrupts>>

\* Propose: the agent waits for the answer.
Propose(edits) == proposals < MaxProposals /\ proposals' = proposals + 1 /\ Ask(edits, FALSE)

\* reviewAfter: what a command changed is asked about; nothing is when it changed nothing.
AskReview == ~Unreadable /\ WorktreeChanges # <<>> /\ Ask(WorktreeChanges, TRUE)
ReviewAfter == proposals < MaxProposals /\ proposals' = proposals + 1 /\ AskReview

\* Mutant: what a command did and was approved after is not on the ledger.
ApproveUnlisted ==
    /\ pc = "asked"
    /\ \E next \in Derive(files, ask, work) :
        /\ Fits(next, files)
        /\ files' = Over(next, files)
        /\ ledger' = IF after THEN ledger ELSE Append(ledger, ask)
        /\ IF after THEN pc' = "loop" /\ left' = NoFiles ELSE pc' = "applying" /\ left' = next
    /\ ask' = <<>>
    /\ UNCHANGED <<base, tree, after, quiet, bounds>>

\* An approval that is recorded: the files it derives are approved from now on.
Grant(next) ==
    /\ pc = "asked" /\ Fits(next, files)
    /\ files' = Over(next, files) /\ ledger' = Append(ledger, ask)
    /\ ask' = <<>>
    /\ UNCHANGED <<base, tree, after, quiet, bounds>>

Approve ==
    \E next \in Derive(files, ask, work) :
        /\ Grant(next)
        /\ IF after THEN pc' = "loop" /\ left' = NoFiles ELSE pc' = "applying" /\ left' = next

\* A rejection, or a refusal of what cannot be approved as shown: what happened already is undone.
Reject ==
    /\ pc = "asked"
    /\ work' = IF after THEN Restored({ask[i].path : i \in DOMAIN ask}) ELSE work
    /\ pc' = "loop" /\ ask' = <<>>
    /\ UNCHANGED <<records, index, head, after, quiet, left, bounds>>

\* Approval.Apply: the next path, in order; a link that appeared ends it.
Apply ==
    /\ pc = "applying"
    /\ IF left = NoFiles THEN pc' = "loop" /\ UNCHANGED <<work, left>>
       ELSE LET p == CHOOSE p \in DOMAIN left : \A q \in DOMAIN left : p <= q IN
            IF work[p] = Link THEN pc' = "loop" /\ left' = NoFiles /\ UNCHANGED work
            ELSE /\ work' = [work EXCEPT ![p] = left[p]]
                 /\ left' = [q \in DOMAIN left \ {p} |-> left[q]]
                 /\ UNCHANGED pc
    /\ UNCHANGED <<records, index, head, ask, after, quiet, bounds>>

-----------------------------------------------------------------------------
(* The end of the run, and a continuation of one that was killed. *)

\* finalize: verify, then a commit of the approved state.  The agent is gone.
Finalize ==
    /\ pc = "loop"
    /\ pc' = IF Verified THEN "committed" ELSE "failed"
    /\ UNCHANGED <<records, tree, ask, after, quiet, left, bounds>>

Interrupt ==
    /\ Running /\ interrupts < MaxInterrupts
    /\ pc' = "interrupted" /\ ask' = <<>> /\ left' = NoFiles /\ interrupts' = interrupts + 1
    /\ UNCHANGED <<records, tree, after, quiet, writes, proposals>>

\* An approved path that is still as in the base was not written before the kill: that is done now.
SameContent(f, g) == f.kind = g.kind /\ (f.kind = "file" => f.content = g.content)
\* Mutant: whatever differs is taken for what was not applied.
NothingApplied == Mismatched

NotApplied == {p \in Mismatched : SameContent(work[p], base[p])}
StillWrong == {p \in Violations : p \notin NotApplied}

\* prepareContinuation: what differs otherwise is refused, or put back when that was asked for.
Continue(discard) ==
    /\ pc = "interrupted" /\ ~head.moved
    /\ LET back == IF discard THEN UpToFailure(StillWrong) ELSE {} IN
       /\ work' = Restored(NotApplied \union back)
       /\ pc' = IF StillWrong \subseteq back /\ \A p \in Paths \ DOMAIN files : index[p] = head.tree[p]
                THEN "loop" ELSE "interrupted"
    /\ quiet' = TRUE
    /\ UNCHANGED <<records, index, head, ask, after, left, bounds>>

Next ==
    \/ \E p \in Paths : AgentStages(p) \/ \E f \in Written : AgentWrites(p, f)
    \/ AgentCommits
    \/ \E edits \in Proposals : Propose(edits)
    \/ ReviewAfter \/ Approve \/ Reject \/ Apply
    \/ Finalize \/ Interrupt
    \/ \E discard \in BOOLEAN : Continue(discard)

Spec == Init /\ [][Next]_vars

-----------------------------------------------------------------------------
(* Properties. *)

\* What is committed is what was in the worktree when the run ended: every approved path has its bytes there, and nothing that git
\* tracks or would add differs from the commit (verify: "nothing else changed - in the working tree or the index").
CommittedIsTheWorktree ==
    pc = "committed" =>
        \A p \in Paths : IF p \in DOMAIN files THEN SameContent(work[p], Approved[p])
                        ELSE work[p] = base[p] \/ (p \in Ignored /\ base[p] = Absent)

\* Wherever the run is, its ledger rebuilds exactly the tree it would commit, whatever overwrote what and whatever was done by a
\* command and approved after (RebuildTree: "an honest run's commit has exactly this tree").
LedgerRebuilds == Rebuilt = {Approved}

\* A decision on what a command left settles it: approved or undone, with its modes, deletions, links and contents that are not
\* text, the worktree holds nothing more to ask about, unless the agent wrote on while it was decided.
ReviewSettles == [][after /\ quiet /\ (Approve \/ Reject) => (WorktreeChanges = <<>>)']_vars

\* A continuation writes over nothing but files that are as in the base, with what was approved for them, unless it was told to
\* discard; and it goes on only over a worktree that would pass verify (prepareContinuation).
ContinuesApproved ==
    [][/\ Continue(FALSE) => \A p \in Paths : work'[p] = work[p] \/ (p \in DOMAIN files /\ SameContent(work[p], base[p]))
       /\ pc = "interrupted" /\ pc' = "loop" => Verified']_vars

\* Neither a review after the fact nor a continuation leaves or overwrites work that nobody approved.
WorkIsSettled == ReviewSettles /\ ContinuesApproved

=============================================================================
