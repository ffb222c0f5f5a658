----------------------------- MODULE MCEvidence -----------------------------
(***************************************************************************)
(* Instances of Evidence.  A scene says how each run came by its commit,   *)
(* what a check says, who signs, and what may go wrong.                    *)
(***************************************************************************)
EXTENDS Evidence
CONSTANTS r1, r2, r3, ann, bob, k1, k2, old, new, newer, api, app, p1

As(who, key) == [who |-> who, key |-> key]
MCSigners == {As(ann, k1), As(bob, k1), As(bob, k2)}
MCStarter == [r \in Runs |-> IF r = r2 THEN NoOne ELSE As(ann, k1)]
MCRequester == [r \in Runs |-> ann]
MCProjectOf == [r \in Runs |-> IF r = r3 THEN app ELSE api]
MCOptions ==
    LET Asked(min, required, rebuild, anchor) == [min |-> min, required |-> required, rebuild |-> rebuild, anchor |-> anchor] IN
    {Asked(0, FALSE, FALSE, FALSE), Asked(3, FALSE, TRUE, FALSE), Asked(3, TRUE, TRUE, FALSE), Asked(0, FALSE, TRUE, TRUE)}
MCBase == [p \in Projects |-> old]
MCContentOf == [r \in Runs |-> IF r = r1 THEN new ELSE IF r = r2 THEN newer ELSE old]

By(x, y, z) == [r \in Runs |-> IF r = r1 THEN x ELSE IF r = r2 THEN y ELSE z]
Alone(by) == By(by, "done", "done")
Scene(by, results, c, f, l) ==
    [by |-> by, results |-> results, crashes |-> c, fails |-> f, losses |-> l,
     signing |-> {}, signs |-> 2, read |-> {}, sets |-> FALSE, ranges |-> FALSE, anchoring |-> FALSE, together |-> FALSE]
Read(s, runs, signers) == [s EXCEPT !.read = runs, !.signing = signers]

\* Without a crash or with one, with failures or without: the chain of a run that failed and died says less than it should.
Killed == Read(Scene(Alone("run"), {"pass"}, 2, 0, 0), {r1}, {As(bob, k2)})
Failed == Read(Scene(Alone("run"), {"pass", "fail"}, 0, 2, 0), {r1}, {})
Lost == Scene(Alone("run"), {"pass"}, 2, 0, 2)
Recovered == Read(Scene(Alone("recover"), {"pass"}, 0, 2, 1), {r1}, {})
Accepted == Read(Scene(Alone("accept"), {"pass"}, 2, 0, 0), {r1}, {As(bob, k2)})
Countersigned == Read(Scene(By("done", "done", "done"), {"pass"}, 0, 0, 0), {r1, r2}, MCSigners)
InSet == [Scene(By("done", "run", "done"), {"pass", "fail"}, 0, 1, 0) EXCEPT !.sets = TRUE, !.together = TRUE]
KilledInSet == [Scene(By("done", "run", "done"), {"pass"}, 1, 0, 0) EXCEPT !.sets = TRUE, !.together = TRUE]
Ranged == [Read(Scene(Alone("run"), {"pass", "fail"}, 0, 1, 0), {r1, r3}, {}) EXCEPT !.ranges = TRUE, !.together = TRUE]
RangedAgain == [Ranged EXCEPT !.results = {"pass"}, !.crashes = 1, !.fails = 0]
Witnessed == [Read(Scene(Alone("run"), {"pass"}, 1, 0, 1), {r1}, {}) EXCEPT !.anchoring = TRUE, !.together = TRUE]
SafeScenes == {Killed, Failed, Lost, Recovered, Accepted, Countersigned, InSet, KilledInSet, Ranged, RangedAgain, Witnessed}

FailedThenKilled == {Read(Scene(Alone("run"), {"pass", "fail"}, 1, 0, 0), {r1}, {})}
=============================================================================
