----------------------------- MODULE MCDeciding -----------------------------
(***************************************************************************)
(* Six runs: one under a policy with every limit, with a signal; one with  *)
(* a panel of two models; one that approves on evidence; one in an agreed  *)
(* task with checkpoints, of two stories; one whose owner is away and has  *)
(* armed delivery; and one that no terms allow.                            *)
(***************************************************************************)
EXTENDS Deciding

MCNamed ==
    [p \in {"a", "b", "c", "ci", "out", "test.sh", "Makefile"} |-> {p}] @@ ("src/**" :> {"a", "b"})

Edit(paths) == [kind |-> "edit", paths |-> paths, lines |-> 1, sound |-> TRUE, guarded |-> FALSE, creates |-> FALSE, deletes |-> FALSE]
Shell == [Edit({}) EXCEPT !.kind = "shell", !.lines = 0] @@ [exact |-> TRUE]
Tool == [Edit({}) EXCEPT !.kind = "tool", !.lines = 0] @@ [exact |-> TRUE]
AnyRule(for, effect) == [for |-> for, maxLines |-> 0, maxFiles |-> 0, newOnly |-> FALSE, noDeletions |-> FALSE, effect |-> effect]

Command(prog, args) == [prog |-> prog, path |-> "", args |-> args]
\* FOO=1 bash -v test.sh
Tests == <<Command("interpreter", <<"-v", "test.sh", "out">>)>>
\* make && cd sub && ./test.sh
Build == <<Command("make", <<>>), Command("cd", <<"sub">>), [Command("other", <<>>) EXCEPT !.path = "test.sh"]>>

NoTerms == [agreed |-> FALSE, inScope |-> FALSE, onEvidence |-> FALSE, away |-> FALSE, shell |-> FALSE, sandbox |-> "auto",
            signedDecisions |-> FALSE, signKey |-> FALSE, checks |-> <<>>, models |-> <<>>, signal |-> FALSE, awayCommands |-> {},
            awayTools |-> {}, protected |-> {}, scope |-> {}, sensitive |-> {}, unreadable |-> {}, deliver |-> "review",
            deliverPaths |-> {}]
Plain == [terms |-> NoTerms, harness |-> "", signed |-> FALSE, rules |-> <<>>, blanket |-> FALSE, maxAuto |-> 0, maxTotal |-> 0,
          maxViolations |-> 0, maxFiles |-> 0, checkpoint |-> 0, stories |-> <<>>, accepts |-> {}, offers |-> {}]

Limited ==
    LET big == [Edit({"a"}) EXCEPT !.lines = 3]
        offers == {Edit({"a"}), Edit({"b"}), big, Edit({"out"}), Shell}
    IN  [Plain EXCEPT !.terms.signal = TRUE,
                      !.rules = <<[AnyRule(offers, "reject") EXCEPT !.maxLines = 1, !.for = {Edit({"out"})}],
                                  [AnyRule(offers, "approve") EXCEPT !.maxLines = 2]>>,
                      !.maxAuto = 2, !.maxTotal = 4, !.maxViolations = 1, !.maxFiles = 1,
                      !.stories = <<[allow |-> {"src/**", "c"}, maxFiles |-> 0]>>, !.offers = offers]
Reviewed == [Plain EXCEPT !.terms.models = <<"m1", "m2">>, !.offers = {Edit({"a"})}]
Evident == [Plain EXCEPT !.terms = [NoTerms EXCEPT !.agreed = TRUE, !.onEvidence = TRUE, !.checks = <<Build>>, !.models = <<"m1">>,
                                                   !.scope = {"src/**", "Makefile"}],
                         !.offers = {Edit({"a"}), Edit({"out"}), Edit({"Makefile"})}]
Agreeing == [Plain EXCEPT !.terms = [NoTerms EXCEPT !.agreed = TRUE, !.inScope = TRUE, !.sensitive = {"ci"}], !.checkpoint = 4,
                          !.stories = <<[allow |-> {"a"}, maxFiles |-> 1], [allow |-> {"b", "ci"}, maxFiles |-> 1]>>, !.accepts = {1},
                          !.offers = {Edit({"a"}), Edit({"a", "ci"}), Shell, [Edit({"b"}) EXCEPT !.guarded = TRUE],
                                      [Edit({"b"}) EXCEPT !.sound = FALSE]}]
Away ==
    LET new == [Edit({"b"}) EXCEPT !.creates = TRUE]
        gone == [Edit({"a"}) EXCEPT !.deletes = TRUE]
    IN  [Plain EXCEPT !.terms = [NoTerms EXCEPT !.agreed = TRUE, !.away = TRUE, !.checks = <<Tests>>, !.shell = TRUE,
                                                !.sandbox = "no_network", !.signKey = TRUE, !.awayCommands = {Shell},
                                                !.deliver = "policy", !.deliverPaths = {"src/**"}],
                      !.signed = TRUE,
                      !.rules = <<[AnyRule({new}, "approve") EXCEPT !.newOnly = TRUE, !.maxFiles = 1],
                                  [AnyRule({Edit({"a"}), gone, Edit({"test.sh"}), Shell, Tool}, "approve") EXCEPT !.noDeletions = TRUE]>>,
                      !.offers = {new, gone, Edit({"a"}), Shell, Tool, Edit({"test.sh"})}]
\* Delivery by policy, with a check that names no file of its own.
Unprotected == [Away EXCEPT !.terms.checks = <<<<Command("other", <<"test">>)>>>>]

MCStarts == {Limited, Reviewed, Evident, Agreeing, Away, Unprotected}
=============================================================================
