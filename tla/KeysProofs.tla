---------------------------- MODULE KeysProofs ----------------------------
(***************************************************************************)
(* Theorems of Keys, for any number of keys, rotations, kills and power    *)
(* cuts, where the commands of a workspace run one after the other, each   *)
(* killed anywhere, and the power stays on while a new workspace makes its *)
(* first key (Alone).  Without the second the key file's rename, which     *)
(* nothing syncs, may be undone after a secret was stored; without the     *)
(* first a rotation that has installed its key, and so holds its lock on   *)
(* the file that was, may remove the journal of the next one.              *)
(*                                                                         *)
(* The argument: at any time one key opens every secret, the one the       *)
(* directory settles on, and every directory a power cut may leave instead *)
(* leaves that key among those it can settle on.  A rotation changes the   *)
(* key they agree on twice, and both times nothing but the directory as it *)
(* is can come back.                                                       *)
(***************************************************************************)
EXTENDS Keys, TLAPS

\* Who is in a scene, and when its power may be cut.
Alone == \A s \in Scenes : (\A p, q \in s.procs : p = q) /\ (s.fresh => s.cuts = 0)

Stages == {"none", "pending", "committed"}
Directories == [key : Nat, journal : [stage : Stages, new : Nat], temps : SUBSET Nat]

Steps == {"idle", "placeKey", "statPair", "placePrivate", "placePublic", "lock", "load", "loadSync", "loadUnlog", "check",
          "recover", "rollback", "glob", "temp", "journal", "reencrypt", "unlogUndone", "advance", "install", "sync", "unlog",
          "write", "use"}

Locals ==
    /\ pc \in [Procs -> Steps] /\ cmd \in [Procs -> Command]
    /\ key \in [Procs -> Nat] /\ new \in [Procs -> Nat]

Typing ==
    /\ scene \in [procs : SUBSET Procs, installs : Int, crashes : Int, cuts : Int, fresh : BOOLEAN]
    /\ dir \in maybe /\ maybe \subseteq Directories
    /\ db \in [Secrets -> Nat] /\ made \in Nat
    /\ Locals

\* The scene's process is alone, in its directory and on its power.
Quiet ==
    /\ \A p, q \in scene.procs : p = q
    /\ scene.fresh => scene.cuts = 0
    /\ \A p \in Procs \ scene.procs : pc[p] = "idle"

\* A directory names keys that were generated, and logs the rotation of a key file that is there.
Shaped(d) ==
    /\ d.key <= made /\ d.journal.new <= made
    /\ d.journal.stage # "none" => d.journal.new # NoKey /\ d.key # NoKey
    /\ d.key = NoKey => scene.fresh

\* The journal of d is one that the database has to decide.
Undecided(d) == d.journal.stage = "pending" /\ d.journal.new \in d.temps

\* The keys d can settle on, as the database may be.
Options(d) == IF Undecided(d) THEN {d.key, d.journal.new}
              ELSE IF d.journal.stage = "committed" /\ d.journal.new \in d.temps THEN {d.journal.new} ELSE {d.key}

\* Every secret is under k.
Under(k) == \A s \in Secrets : db[s] \in {NoKey, k}

Ground ==
    /\ \A d \in maybe : Shaped(d)
    /\ Under(Settled(dir))
    /\ scene.cuts > 0 => /\ \A d \in maybe : Settled(dir) \in Options(d)
                         /\ Undecided(dir) => maybe = {dir}

Clear == dir.journal.stage = "none"
Spent == dir.journal.stage # "none" /\ dir.journal.new \notin dir.temps
Generated(p) == new[p] # NoKey /\ new[p] <= made /\ new[p] # dir.key /\ new[p] \in dir.temps

\* What a process may count on at its next step.
At(p) ==
    /\ pc[p] = "placeKey" => Clear /\ dir.key = NoKey /\ new[p] # NoKey /\ new[p] <= made
    /\ pc[p] \in {"glob", "temp", "journal", "write", "use"} => Clear
    /\ pc[p] \in {"load", "check"} /\ cmd[p] = "rotate" => Clear
    /\ pc[p] = "check" => dir.journal.stage # "committed"
    /\ pc[p] \in {"loadSync", "loadUnlog", "sync", "unlog", "rollback", "unlogUndone"} => Spent
    /\ pc[p] \in {"temp", "journal", "write", "use", "reencrypt"} => key[p] = dir.key /\ key[p] # NoKey /\ Under(key[p])
    /\ pc[p] \in {"journal", "reencrypt", "advance", "install"} => Generated(p)
    /\ pc[p] \in {"reencrypt", "advance"} => dir.journal.stage = "pending"
    /\ pc[p] \in {"reencrypt", "advance", "install"} => dir.journal.stage # "none" /\ dir.journal.new = new[p]
    /\ pc[p] \in {"advance", "install"} => Under(new[p])

Repairable == Typing /\ Quiet /\ Ground /\ \A p \in scene.procs : At(p)

-----------------------------------------------------------------------------
(* The directories a step leaves. *)

\* What each change of the directory makes of its three parts.
LEMMA Parts ==
    ASSUME dir \in Directories, NEW k \in Nat, NEW stage \in Stages
    PROVE  /\ dir.key \in Nat /\ dir.journal.stage \in Stages /\ dir.journal.new \in Nat /\ dir.temps \subseteq Nat
           /\ Installed(k) \in Directories /\ Installed(k).key = k
           /\ Installed(k).journal = dir.journal /\ Installed(k).temps = dir.temps \ {k}
           /\ Unlogged \in Directories /\ Unlogged.key = dir.key
           /\ Unlogged.journal.stage = "none" /\ Unlogged.journal.new = NoKey /\ Unlogged.temps = dir.temps
           /\ WithoutTemp(k) \in Directories /\ WithoutTemp(k).key = dir.key
           /\ WithoutTemp(k).journal = dir.journal /\ WithoutTemp(k).temps = dir.temps \ {k}
           /\ Logged(stage, k) \in Directories /\ Logged(stage, k).key = dir.key
           /\ Logged(stage, k).journal.stage = stage /\ Logged(stage, k).journal.new = k
           /\ Logged(stage, k).temps = dir.temps
BY DEF Directories, Stages, Installed, Unlogged, WithoutTemp, Logged, NoJournal, NoKey

\* What a directory settles on is one of its options.
LEMMA SettledIsOption ==
    ASSUME NEW d \in Directories
    PROVE  Settled(d) \in Options(d)
BY DEF Settled, Options, Undecided, Directories, Stages

\* A key all secrets are under, among the options of a directory: all are under the one it settles on.
LEMMA OptionSettles ==
    ASSUME NEW d \in Directories, Shaped(d), NEW k \in Options(d), Under(k)
    PROVE  Under(Settled(d))
<1>1. CASE Undecided(d)
  <2>1. d.journal.new # NoKey
    BY <1>1 DEF Undecided, Shaped
  <2>2. Settled(d) = IF DecryptsAny(d.journal.new) THEN d.journal.new ELSE d.key
    BY <1>1 DEF Settled, Undecided
  <2>3. k = d.key \/ k = d.journal.new
    BY <1>1 DEF Options
  <2> QED
    BY <2>1, <2>2, <2>3 DEF Under, DecryptsAny
<1>2. CASE ~Undecided(d)
  BY <1>2 DEF Settled, Options, Undecided, Directories, Stages
<1> QED
  BY <1>1, <1>2

\* No secret is under a key that is not the one they are all under.
LEMMA NotUnder ==
    ASSUME NEW k, NEW j, Under(k), j # k, j # NoKey
    PROVE  ~DecryptsAny(j)
BY DEF Under, DecryptsAny

\* The directory becomes d, and all that may come back can settle on the key it settles on.
LEMMA GroundChanged ==
    ASSUME Typing, Ground, UNCHANGED <<scene, db>>, made' \in Nat, made <= made',
           NEW d \in Directories, dir' = d, maybe' \subseteq Directories, \A e \in maybe' : Shaped(e), Under(Settled(d)),
           scene.cuts > 0 => /\ \A e \in maybe' : Settled(d) \in Options(e)
                             /\ Undecided(d) => maybe' = {d}
    PROVE  Ground'
<1>1. ASSUME NEW e \in maybe'
      PROVE  Shaped(e)'
  <2>1. Shaped(e) /\ e \in Directories
    OBVIOUS
  <2> QED
    BY <2>1 DEF Shaped, Typing, Directories
<1>2. Under(Settled(dir))'
  BY DEF Under, Settled, DecryptsAny
<1>3. ASSUME scene'.cuts > 0
      PROVE  (\A e \in maybe' : Settled(dir)' \in Options(e)') /\ (Undecided(dir)' => maybe' = {dir'})
  BY <1>3 DEF Settled, DecryptsAny, Options, Undecided
<1> QED
  BY <1>1, <1>2, <1>3 DEF Ground

\* The directory becomes d and still settles on the same key.
LEMMA GroundSettled ==
    ASSUME Typing, Ground, UNCHANGED <<scene, db>>, made' \in Nat, made <= made',
           NEW d \in Directories, dir' = d, d \in maybe', maybe' \subseteq maybe \union {d},
           Shaped(d), Settled(d) = Settled(dir), ~Undecided(d) \/ maybe' = {d}
    PROVE  Ground'
<1>1. Settled(d) \in Options(d)
  BY SettledIsOption
<1>2. Under(Settled(d))
  BY DEF Ground
<1>3. ASSUME scene.cuts > 0
      PROVE  (\A e \in maybe' : Settled(d) \in Options(e)) /\ (Undecided(d) => maybe' = {d})
  BY <1>1, <1>3 DEF Ground
<1>4. maybe' \subseteq Directories /\ \A e \in maybe' : Shaped(e)
  BY DEF Ground, Typing
<1> QED
  BY <1>2, <1>3, <1>4, GroundChanged

\* The directory stays, and the keys generated grow.
LEMMA GroundStays ==
    ASSUME Typing, Ground, UNCHANGED <<dir, maybe, db>>, made' \in Nat, made <= made',
           scene'.cuts = scene.cuts, scene'.fresh = scene.fresh
    PROVE  Ground'
<1>1. ASSUME NEW e \in maybe'
      PROVE  Shaped(e)'
  <2>1. Shaped(e) /\ e \in Directories
    BY DEF Ground, Typing
  <2> QED
    BY <2>1 DEF Shaped, Typing, Directories
<1> QED
  BY <1>1 DEF Ground, Under, Settled, DecryptsAny, Options, Undecided

-----------------------------------------------------------------------------
(* The process that takes a step. *)

\* A process that goes on is where it went, and the others where they were.
LEMMA Going ==
    ASSUME Locals, NEW p \in Procs, NEW step \in Steps, Goto(p, step)
    PROVE  /\ Locals' /\ pc'[p] = step /\ cmd' = cmd /\ key' = key /\ new' = new
           /\ \A q \in Procs \ {p} : pc'[q] = pc[q]
BY DEF Locals, Goto

\* A process whose command ends is idle.
LEMMA Ending ==
    ASSUME Locals, NEW p \in Procs, Ended(p)
    PROVE  /\ Locals' /\ pc'[p] = "idle"
           /\ \A q \in Procs \ {p} : pc'[q] = pc[q]
BY DEF Locals, Ended, NoKey, Steps

\* The scene's process took the step: what it counts on is all there is to show.
LEMMA AloneSteps ==
    ASSUME Repairable, NEW p \in scene.procs, Typing', Ground', At(p)',
           scene'.procs = scene.procs, scene'.cuts = scene.cuts, scene'.fresh = scene.fresh,
           \A q \in Procs \ {p} : pc'[q] = pc[q]
    PROVE  Repairable'
<1>1. p \in Procs
  BY DEF Repairable, Typing
<1>2. Quiet'
  BY <1>1 DEF Repairable, Quiet
<1>3. \A q \in scene'.procs : q = p
  BY DEF Repairable, Quiet
<1> QED
  BY <1>2, <1>3 DEF Repairable

-----------------------------------------------------------------------------
(* Steps that leave the directory and the database alone. *)

LEMMA Doer == ASSUME Repairable, NEW p \in scene.procs PROVE p \in Procs /\ Typing /\ Ground /\ Locals /\ At(p)
BY DEF Repairable, Typing

LEMMA StaysAlone ==
    ASSUME Repairable, NEW p \in scene.procs, UNCHANGED <<dir, maybe, db>>, made' \in Nat, made <= made', Locals', At(p)',
           \/ scene' = scene
           \/ scene' = [scene EXCEPT !.crashes = @ - 1],
           \A q \in Procs \ {p} : pc'[q] = pc[q]
    PROVE  Repairable'
<1>1. scene' \in [procs : SUBSET Procs, installs : Int, crashes : Int, cuts : Int, fresh : BOOLEAN]
      /\ scene'.procs = scene.procs /\ scene'.cuts = scene.cuts /\ scene'.fresh = scene.fresh
  BY DEF Repairable, Typing
<1>2. Typing'
  BY <1>1 DEF Repairable, Typing
<1>3. Ground'
  BY <1>1, Doer, GroundStays
<1> QED
  BY <1>1, <1>2, <1>3, AloneSteps

LEMMA EndsAlone ==
    ASSUME Repairable, NEW p \in scene.procs, Ended(p), UNCHANGED <<dir, maybe, db, made>>,
           scene' = scene \/ scene' = [scene EXCEPT !.crashes = @ - 1]
    PROVE  Repairable'
<1>1. Locals' /\ pc'[p] = "idle" /\ \A q \in Procs \ {p} : pc'[q] = pc[q]
  BY Doer, Ending
<1>2. At(p)'
  BY <1>1 DEF At
<1>3. made' \in Nat /\ made <= made'
  BY Doer DEF Typing
<1> QED
  BY <1>1, <1>2, <1>3, StaysAlone

LEMMA GoesAlone ==
    ASSUME Repairable, NEW p \in scene.procs, NEW step \in Steps, Goto(p, step), UNCHANGED <<scene, dir, maybe, db, made>>,
           pc'[p] = step => At(p)'
    PROVE  Repairable'
<1>1. Locals' /\ pc'[p] = step /\ \A q \in Procs \ {p} : pc'[q] = pc[q]
  BY Doer, Going
<1>2. made' \in Nat /\ made <= made'
  BY Doer DEF Typing
<1> QED
  BY <1>1, <1>2, StaysAlone

LEMMA InitKept ==
    ASSUME Repairable, NEW p \in scene.procs,
           GenerateKey(p) \/ GenerateSigningKey(p) \/ PlacePrivate(p) \/ PlacePublic(p)
    PROVE  Repairable'
<1>a. p \in Procs /\ Typing /\ Ground /\ Locals /\ At(p)
  BY Doer
<1> USE <1>a
<1>1. CASE GenerateKey(p)
  <2>0. made \in Nat
    BY DEF Typing
  <2>1. CASE dir.key # NoKey
    <3>1. UNCHANGED <<scene, dir, maybe, db, made, key, new>>
          /\ pc' = [pc EXCEPT ![p] = "statPair"] /\ cmd' = [cmd EXCEPT ![p] = "init"]
      BY <1>1, <2>1 DEF GenerateKey
    <3>2. Locals' /\ pc'[p] = "statPair" /\ \A q \in Procs \ {p} : pc'[q] = pc[q]
      BY <3>1 DEF Locals, Steps, Command
    <3>3. At(p)'
      BY <3>2 DEF At
    <3>4. made' \in Nat /\ made <= made'
      BY <2>0, <3>1
    <3> QED
      BY <3>1, <3>2, <3>3, <3>4, StaysAlone
  <2>2. CASE dir.key = NoKey
    <3>1. UNCHANGED <<scene, dir, maybe, db, key>> /\ made' = made + 1 /\ new' = [new EXCEPT ![p] = made + 1]
          /\ pc' = [pc EXCEPT ![p] = "placeKey"] /\ cmd' = [cmd EXCEPT ![p] = "init"]
      BY <1>1, <2>2 DEF GenerateKey
    <3>2. Locals' /\ pc'[p] = "placeKey" /\ new'[p] = made + 1 /\ \A q \in Procs \ {p} : pc'[q] = pc[q]
      BY <2>0, <3>1 DEF Locals, Steps, Command
    <3>3. made' \in Nat /\ made <= made'
      BY <2>0, <3>1
    <3>4. Clear
      BY <2>2 DEF Ground, Shaped, Clear, Typing
    <3>5. At(p)'
      BY <2>0, <2>2, <3>1, <3>2, <3>4 DEF At, Clear, NoKey
    <3> QED
      BY <3>1, <3>2, <3>3, <3>5, StaysAlone
  <2> QED
    BY <2>1, <2>2
<1>2. CASE GenerateSigningKey(p)
  <2>1. CASE pair.private # NoPair
    BY <1>2, <2>1, EndsAlone DEF GenerateSigningKey
  <2>2. CASE pair.private = NoPair
    <3>1. Goto(p, "placePrivate") /\ UNCHANGED <<scene, dir, maybe, db, made>>
      BY <1>2, <2>2 DEF GenerateSigningKey
    <3>2. pc'[p] = "placePrivate" => At(p)'
      BY DEF At
    <3> QED
      BY <3>1, <3>2, GoesAlone DEF Steps
  <2> QED
    BY <2>1, <2>2
<1>3. CASE PlacePrivate(p)
  <2>1. Goto(p, "placePublic") /\ UNCHANGED <<scene, dir, maybe, db, made>>
    BY <1>3 DEF PlacePrivate
  <2>2. pc'[p] = "placePublic" => At(p)'
    BY DEF At
  <2> QED
    BY <2>1, <2>2, GoesAlone DEF Steps
<1>4. CASE PlacePublic(p)
  BY <1>4, EndsAlone DEF PlacePublic
<1> QED
  BY <1>1, <1>2, <1>3, <1>4

LEMMA OpenKept ==
    ASSUME Repairable, NEW p \in scene.procs, NEW c \in Command, Open(p, c)
    PROVE  Repairable'
<1>a. p \in Procs /\ Typing /\ Ground /\ Locals /\ At(p)
  BY Doer
<1> USE <1>a DEF Open
<1>1. Locals' /\ pc'[p] = "lock" /\ \A q \in Procs \ {p} : pc'[q] = pc[q]
  BY DEF Locals, Steps
<1>2. At(p)'
  BY <1>1 DEF At
<1>3. made' \in Nat /\ made <= made'
  BY DEF Typing
<1> QED
  BY <1>1, <1>2, <1>3, StaysAlone

LEMMA LockKept ==
    ASSUME Repairable, NEW p \in scene.procs, Lock(p)
    PROVE  Repairable'
<1>a. p \in Procs /\ Typing /\ Ground /\ Locals /\ At(p)
  BY Doer
<1> USE <1>a DEF Lock
<1>1. CASE Excluding(p) # {}
  BY <1>1, EndsAlone
<1>2. CASE Excluding(p) = {}
  <2>1. Locals' /\ pc'[p] = (IF cmd[p] = "rotate" THEN "recover" ELSE "load") /\ cmd' = cmd
        /\ \A q \in Procs \ {p} : pc'[q] = pc[q]
    BY <1>2 DEF Locals, Steps
  <2>2. At(p)'
    BY <2>1 DEF At
  <2>3. made' \in Nat /\ made <= made'
    BY DEF Typing
  <2> QED
    BY <1>2, <2>1, <2>2, <2>3, StaysAlone
<1> QED
  BY <1>1, <1>2

LEMMA LoadKept ==
    ASSUME Repairable, NEW p \in scene.procs, LoadKey(p)
    PROVE  Repairable'
<1>a. p \in Procs /\ Typing /\ Ground /\ Locals /\ At(p)
  BY Doer
<1> USE <1>a DEF LoadKey
<1>1. CASE dir.journal.stage = "pending" \/ dir.key = NoKey
  BY <1>1, EndsAlone
<1>2. CASE ~(dir.journal.stage = "pending" \/ dir.key = NoKey)
  <2>1. dir \in Directories
    BY DEF Typing
  <2>2. Clear /\ Settled(dir) = dir.key
    BY <1>2, <2>1 DEF At, Clear, Settled, Directories, Stages
  <2>3. key' = [key EXCEPT ![p] = dir.key] /\ UNCHANGED <<cmd, new>>
        /\ pc' = [pc EXCEPT ![p] = CASE cmd[p] = "rotate" -> "temp" [] cmd[p] = "set" -> "write" [] OTHER -> "use"]
    BY <1>2
  <2>4. pc'[p] \in {"temp", "write", "use"} /\ Locals' /\ \A q \in Procs \ {p} : pc'[q] = pc[q]
    BY <2>1, <2>3 DEF Locals, Steps, Directories
  <2>5. key'[p] = dir.key /\ Under(dir.key)
    BY <2>2, <2>3 DEF Locals, Ground
  <2>6. At(p)'
    BY <1>2, <2>2, <2>4, <2>5 DEF At, Clear, Under
  <2>7. made' \in Nat /\ made <= made'
    BY DEF Typing
  <2> QED
    BY <2>4, <2>6, <2>7, StaysAlone
<1> QED
  BY <1>1, <1>2

LEMMA GoneKept ==
    ASSUME Repairable, NEW p \in scene.procs, EndRun(p) \/ Kill(p)
    PROVE  Repairable'
<1>1. Ended(p) /\ UNCHANGED <<dir, maybe, db, made>> /\ (scene' = scene \/ scene' = [scene EXCEPT !.crashes = @ - 1])
  BY DEF EndRun, Kill
<1> QED
  BY <1>1, EndsAlone

-----------------------------------------------------------------------------
(* Steps that change the directory. *)

\* The directory becomes d and the process goes on, or its command ends.
LEMMA Changed ==
    ASSUME Repairable, NEW p \in scene.procs, UNCHANGED <<scene, db>>, made' \in Nat, made <= made',
           NEW d \in Directories, dir' = d, d \in maybe', maybe' \subseteq Directories,
           Ground', At(p)', Locals', \A q \in Procs \ {p} : pc'[q] = pc[q]
    PROVE  Repairable'
<1>1. Typing'
  BY DEF Repairable, Typing
<1> QED
  BY <1>1, AloneSteps

\* An unsynced change to a directory that settles on the same key.
LEMMA ChangedTo ==
    ASSUME Repairable, NEW p \in scene.procs, UNCHANGED <<scene, db, made>>,
           NEW d \in Directories, dir' = d, d \in maybe', maybe' \subseteq maybe \union {d}, Shaped(d),
           Settled(d) = Settled(dir), ~Undecided(d) \/ maybe' = {d},
           NEW step \in Steps, Goto(p, step) \/ (step = "idle" /\ Ended(p)), pc'[p] = step => At(p)'
    PROVE  Repairable'
<1>1. Typing /\ Ground /\ Locals /\ p \in Procs
  BY Doer
<1>2. Locals' /\ pc'[p] = step /\ \A q \in Procs \ {p} : pc'[q] = pc[q]
  BY <1>1, Going, Ending
<1>3. made' \in Nat /\ made <= made'
  BY <1>1 DEF Typing
<1>4. Ground'
  BY <1>1, <1>3, GroundSettled
<1>5. maybe' \subseteq Directories
  BY <1>1 DEF Typing
<1> QED
  BY <1>2, <1>3, <1>4, <1>5, Changed

\* An idle process counts on nothing.
LEMMA IdleAt == ASSUME NEW p, pc'[p] = "idle" PROVE At(p)'
BY DEF At

LEMMA PlaceKeyKept ==
    ASSUME Repairable, NEW p \in scene.procs, PlaceKey(p)
    PROVE  Repairable'
<1>0. p \in Procs /\ Typing /\ Ground /\ Locals /\ At(p) /\ dir \in Directories
  BY Doer DEF Typing
<1>1. PICK d : d = [dir EXCEPT !.key = new[p]]
  OBVIOUS
<1>2. d \in Directories /\ d.key = new[p] /\ d.journal = dir.journal /\ d.temps = dir.temps
  BY <1>0, <1>1 DEF Directories, Locals
<1>3. dir' = d /\ maybe' = maybe \union {d} /\ Goto(p, "statPair") /\ UNCHANGED <<scene, db, made>>
  BY <1>1 DEF PlaceKey, Change
<1>4. Clear /\ dir.key = NoKey /\ new[p] # NoKey /\ new[p] <= made
  BY <1>0 DEF At, PlaceKey
<1>5. scene.cuts = 0
  BY <1>0, <1>4 DEF Ground, Shaped, Repairable, Quiet, Typing
<1>6. Settled(dir) = NoKey /\ Settled(d) = new[p]
  BY <1>2, <1>4 DEF Settled, Clear
<1>7. Shaped(d)
  BY <1>0, <1>2, <1>4 DEF Shaped, Ground, Clear, Typing
<1>8. Under(Settled(d))
  BY <1>0, <1>6 DEF Under, Ground
<1>9. made' \in Nat /\ made <= made'
  BY <1>0, <1>3 DEF Typing
<1>10. maybe' \subseteq Directories /\ \A e \in maybe' : Shaped(e)
  BY <1>0, <1>2, <1>3, <1>7 DEF Ground, Typing
<1>11. Ground'
  BY <1>0, <1>2, <1>3, <1>5, <1>8, <1>9, <1>10, GroundChanged
<1>12. Locals' /\ pc'[p] = "statPair" /\ \A q \in Procs \ {p} : pc'[q] = pc[q]
  BY <1>0, <1>3, Going DEF Steps
<1>13. At(p)'
  BY <1>12 DEF At
<1> QED
  BY <1>2, <1>3, <1>9, <1>10, <1>11, <1>12, <1>13, Changed

\* Removing the temporary key of a journal that is rolled back, or installing the one of a journal that is gone forward with,
\* leaves the journal nothing to install, and the key settled on the same.
LEMMA LeftSpent ==
    ASSUME Repairable, NEW p \in scene.procs, dir.journal.stage # "none",
           NEW d, d = Installed(dir.journal.new) \/ d = WithoutTemp(dir.journal.new)
    PROVE  /\ d \in Directories /\ Shaped(d) /\ ~Undecided(d)
           /\ d.journal.stage # "none" /\ d.journal.new \notin d.temps /\ Settled(d) = d.key
<1>1. Typing /\ Ground /\ dir \in Directories
  BY Doer DEF Typing
<1>2. dir.journal.new \in Nat
  BY <1>1, Parts DEF Stages
<1>3. d \in Directories /\ d.journal = dir.journal /\ d.temps = dir.temps \ {dir.journal.new}
      /\ d.key \in {dir.key, dir.journal.new}
  BY <1>1, <1>2, Parts DEF Stages
<1>4. Shaped(dir)
  BY <1>1 DEF Ground, Typing
<1>5. Shaped(d)
  BY <1>3, <1>4 DEF Shaped
<1> QED
  BY <1>3, <1>5 DEF Undecided, Settled

LEMMA ResumeKept ==
    ASSUME Repairable, NEW p \in scene.procs, Resume(p)
    PROVE  Repairable'
<1>0. p \in Procs /\ Typing /\ Ground /\ Locals /\ At(p) /\ dir \in Directories /\ pc[p] = "load"
  BY Doer DEF Typing, Resume
<1>1. CASE dir.journal.stage # "committed"
  <2>1. Goto(p, "check") /\ UNCHANGED <<scene, dir, maybe, db, made>>
    BY <1>1 DEF Resume
  <2>2. pc'[p] = "check" => At(p)'
    BY <1>0, <1>1, <2>1, Going DEF At, Clear, Steps
  <2> QED
    BY <2>1, <2>2, GoesAlone DEF Steps
<1>2. CASE dir.journal.stage = "committed" /\ dir.journal.new \in dir.temps
  <2>1. PICK d : d = Installed(dir.journal.new)
    OBVIOUS
  <2>2. dir' = d /\ maybe' = maybe \union {d} /\ Goto(p, "loadSync") /\ UNCHANGED <<scene, db, made>>
    BY <1>2, <2>1 DEF Resume, Change
  <2>3. /\ d \in Directories /\ Shaped(d) /\ ~Undecided(d) /\ d.journal.stage # "none"
        /\ d.journal.new \notin d.temps /\ Settled(d) = d.key
    BY <1>2, <2>1, LeftSpent
  <2>4. d.key = dir.journal.new
    BY <1>0, <2>1, Parts DEF Stages
  <2>5. Settled(d) = Settled(dir)
    BY <1>2, <2>3, <2>4 DEF Settled
  <2>6. pc'[p] = "loadSync" => At(p)'
    BY <2>2, <2>3 DEF At, Spent
  <2> QED
    BY <2>2, <2>3, <2>5, <2>6, ChangedTo DEF Steps
<1>3. CASE dir.journal.stage = "committed" /\ dir.journal.new \notin dir.temps
  <2>1. Goto(p, "loadUnlog") /\ UNCHANGED <<scene, dir, maybe, db, made>>
    BY <1>3 DEF Resume
  <2>2. pc'[p] = "loadUnlog" => At(p)'
    BY <1>3, <2>1 DEF At, Spent
  <2> QED
    BY <2>1, <2>2, GoesAlone DEF Steps
<1> QED
  BY <1>1, <1>2, <1>3

\* The directory as it is becomes durable.
LEMMA SyncKept ==
    ASSUME Repairable, NEW p \in scene.procs, ResumeSync(p) \/ Sync(p)
    PROVE  Repairable'
<1>0. p \in Procs /\ Typing /\ Ground /\ Locals /\ At(p) /\ dir \in Directories
  BY Doer DEF Typing
<1>1. PICK step \in {"loadUnlog", "unlog"} : Goto(p, step)
  BY DEF ResumeSync, Sync
<1>2. dir' = dir /\ maybe' = {dir} /\ UNCHANGED <<scene, db, made>>
  BY DEF ResumeSync, Sync, ChangeSynced
<1>3. Spent
  BY <1>0 DEF At, ResumeSync, Sync
<1>4. pc'[p] = step => At(p)'
  BY <1>1, <1>2, <1>3 DEF At, Spent
<1>5. Shaped(dir)
  BY <1>0 DEF Ground, Typing
<1> QED
  BY <1>0, <1>1, <1>2, <1>4, <1>5, ChangedTo DEF Steps

\* A journal that has nothing to install is removed.
LEMMA UnlogKept ==
    ASSUME Repairable, NEW p \in scene.procs,
           ResumeUnlog(p) \/ Unlog(p) \/ RollBack(p) \/ UndoUnlog(p)
    PROVE  Repairable'
<1>0. p \in Procs /\ Typing /\ Ground /\ Locals /\ At(p) /\ dir \in Directories
  BY Doer DEF Typing
<1>1. PICK d : d = Unlogged
  OBVIOUS
<1>2. dir' = d /\ maybe' = maybe \union {d} /\ UNCHANGED <<scene, db, made>>
  BY <1>1 DEF ResumeUnlog, Unlog, RollBack, UndoUnlog, Change
<1>3. PICK step \in {"check", "glob", "idle"} : Goto(p, step) \/ (step = "idle" /\ Ended(p))
  BY DEF ResumeUnlog, Unlog, RollBack, UndoUnlog
<1>4. Spent
  BY <1>0 DEF At, ResumeUnlog, Unlog, RollBack, UndoUnlog
<1>5. d \in Directories /\ d.key = dir.key /\ d.journal.stage = "none" /\ d.journal.new = NoKey
  BY <1>0, <1>1, Parts DEF NoKey, Stages
<1>6. Shaped(d) /\ ~Undecided(d)
  BY <1>0, <1>5 DEF Ground, Shaped, Typing, NoKey, Undecided
<1>7. Settled(d) = Settled(dir)
  BY <1>0, <1>4, <1>5 DEF Settled, Spent
<1>8. pc'[p] = step => At(p)'
  BY <1>2, <1>3, <1>5 DEF At, Clear
<1> QED
  BY <1>2, <1>3, <1>5, <1>6, <1>7, <1>8, ChangedTo DEF Steps

LEMMA RecoverKept ==
    ASSUME Repairable, NEW p \in scene.procs, Recover(p)
    PROVE  Repairable'
<1>0. p \in Procs /\ Typing /\ Ground /\ Locals /\ At(p) /\ dir \in Directories
  BY Doer DEF Typing
<1>1. PICK k : k = dir.journal.new
  OBVIOUS
<1>2. k \in Nat /\ dir.journal.stage \in Stages
  BY <1>0, <1>1, Parts DEF Stages
<1>3. CASE dir.journal.stage = "none"
  <2>1. Goto(p, "glob") /\ UNCHANGED <<scene, dir, maybe, db, made>>
    BY <1>3 DEF Recover
  <2>2. pc'[p] = "glob" => At(p)'
    BY <1>3, <2>1 DEF At, Clear
  <2> QED
    BY <2>1, <2>2, GoesAlone DEF Steps
<1>4. CASE dir.journal.stage = "committed" /\ k \notin dir.temps
  <2>1. Goto(p, "unlog") /\ UNCHANGED <<scene, dir, maybe, db, made>>
    BY <1>1, <1>4 DEF Recover
  <2>2. pc'[p] = "unlog" => At(p)'
    BY <1>1, <1>4, <2>1 DEF At, Spent
  <2> QED
    BY <2>1, <2>2, GoesAlone DEF Steps
<1>5. CASE dir.journal.stage # "none" /\ k \in dir.temps /\ (dir.journal.stage = "committed" \/ DecryptsAny(k))
  <2>1. PICK d : d = Installed(k)
    OBVIOUS
  <2>2. dir' = d /\ maybe' = maybe \union {d} /\ Goto(p, "sync") /\ UNCHANGED <<scene, db, made>>
    BY <1>1, <1>2, <1>5, <2>1 DEF Recover, Change, Stages
  <2>3. /\ d \in Directories /\ Shaped(d) /\ ~Undecided(d) /\ d.journal.stage # "none"
        /\ d.journal.new \notin d.temps /\ Settled(d) = d.key
    BY <1>1, <1>5, <2>1, LeftSpent
  <2>4. d.key = k
    BY <1>0, <1>2, <2>1, Parts DEF Stages
  <2>5. Settled(d) = Settled(dir)
    BY <1>1, <1>2, <1>5, <2>3, <2>4 DEF Settled, Stages
  <2>6. pc'[p] = "sync" => At(p)'
    BY <2>2, <2>3 DEF At, Spent
  <2> QED
    BY <2>2, <2>3, <2>5, <2>6, ChangedTo DEF Steps
<1>6. CASE dir.journal.stage = "pending" /\ ~(k \in dir.temps /\ DecryptsAny(k))
  <2>1. PICK d : d = WithoutTemp(k)
    OBVIOUS
  <2>2. dir' = d /\ maybe' = maybe \union {d} /\ Goto(p, "rollback") /\ UNCHANGED <<scene, db, made>>
    BY <1>1, <1>2, <1>6, <2>1 DEF Recover, Change, Stages
  <2>3. /\ d \in Directories /\ Shaped(d) /\ ~Undecided(d) /\ d.journal.stage # "none"
        /\ d.journal.new \notin d.temps /\ Settled(d) = d.key
    BY <1>1, <1>6, <2>1, LeftSpent
  <2>4. d.key = dir.key
    BY <1>0, <1>2, <2>1, Parts DEF Stages
  <2>5. Settled(d) = Settled(dir)
    BY <1>1, <1>6, <2>3, <2>4 DEF Settled
  <2>6. pc'[p] = "rollback" => At(p)'
    BY <2>2, <2>3 DEF At, Spent
  <2> QED
    BY <2>2, <2>3, <2>5, <2>6, ChangedTo DEF Steps
<1> QED
  BY <1>2, <1>3, <1>4, <1>5, <1>6 DEF Stages

LEMMA RemoveStaleKept ==
    ASSUME Repairable, NEW p \in scene.procs, RemoveStale(p)
    PROVE  Repairable'
<1>0. p \in Procs /\ Typing /\ Ground /\ Locals /\ At(p) /\ dir \in Directories
  BY Doer DEF Typing
<1>1. PICK d : d = [dir EXCEPT !.temps = {}]
  OBVIOUS
<1>2. d \in Directories /\ d.key = dir.key /\ d.journal = dir.journal
  BY <1>0, <1>1 DEF Directories
<1>3. dir' = d /\ maybe' = maybe \union {d} /\ Goto(p, "load") /\ UNCHANGED <<scene, db, made>>
  BY <1>1 DEF RemoveStale, Change
<1>4. dir.journal.stage = "none"
  BY <1>0 DEF At, Clear, RemoveStale
<1>5. Shaped(d) /\ ~Undecided(d) /\ Settled(d) = Settled(dir)
  BY <1>0, <1>2, <1>4 DEF Ground, Shaped, Typing, Undecided, Settled
<1>6. pc'[p] = "load" => At(p)'
  BY <1>2, <1>3, <1>4 DEF At, Clear
<1> QED
  BY <1>2, <1>3, <1>5, <1>6, ChangedTo DEF Steps

\* The key a rotation generates is one that nothing is under.
LEMMA WriteTempKept ==
    ASSUME Repairable, NEW p \in scene.procs, WriteTemp(p)
    PROVE  Repairable'
<1>0. p \in Procs /\ Typing /\ Ground /\ Locals /\ At(p) /\ dir \in Directories
  BY Doer DEF Typing
<1>1. CASE scene.installs = 0 \/ made = MaxKeys
  BY <1>1, EndsAlone DEF WriteTemp
<1>2. CASE ~(scene.installs = 0 \/ made = MaxKeys)
  <2>1. PICK d : d = [dir EXCEPT !.temps = @ \union {made + 1}]
    OBVIOUS
  <2>2. made \in Nat
    BY <1>0 DEF Typing
  <2>3. d \in Directories /\ d.key = dir.key /\ d.journal = dir.journal /\ made + 1 \in d.temps
    BY <1>0, <2>1, <2>2 DEF Directories
  <2>4. dir' = d /\ maybe' = maybe \union {d} /\ Generate(p, "journal") /\ UNCHANGED <<scene, db>>
    BY <1>2, <2>1 DEF WriteTemp, Change
  <2>5. dir.journal.stage = "none" /\ key[p] = dir.key /\ key[p] # NoKey /\ Under(key[p])
    BY <1>0 DEF At, Clear, WriteTemp
  <2>6. Shaped(d) /\ ~Undecided(d) /\ Settled(d) = Settled(dir)
    BY <1>0, <2>3, <2>5 DEF Ground, Shaped, Typing, Undecided, Settled
  <2>7. made' = made + 1 /\ new' = [new EXCEPT ![p] = made + 1] /\ pc' = [pc EXCEPT ![p] = "journal"] /\ UNCHANGED <<cmd, key>>
    BY <2>4 DEF Generate
  <2>8. Locals' /\ pc'[p] = "journal" /\ new'[p] = made + 1 /\ \A q \in Procs \ {p} : pc'[q] = pc[q]
    BY <1>0, <2>2, <2>7 DEF Locals, Steps
  <2>9. made' \in Nat /\ made <= made'
    BY <2>2, <2>7
  <2>10. Ground'
    BY <1>0, <2>3, <2>4, <2>6, <2>9, GroundSettled
  <2>11. dir.key <= made
    BY <1>0 DEF Ground, Shaped, Typing
  <2>12. Generated(p)'
    <3>1. made + 1 # NoKey /\ made + 1 # dir.key
      BY <1>0, <2>2, <2>11 DEF NoKey, Directories
    <3> QED
      BY <2>2, <2>3, <2>4, <2>7, <2>8, <3>1 DEF Generated
  <2>13. At(p)'
    BY <2>3, <2>4, <2>5, <2>7, <2>8, <2>12 DEF At, Clear, Under
  <2> QED
    <3>1. maybe' \subseteq Directories
      BY <1>0, <2>3, <2>4 DEF Typing
    <3> QED
      BY <2>3, <2>4, <2>8, <2>9, <2>10, <2>13, <3>1, Changed
<1> QED
  BY <1>1, <1>2

\* The journal of a rotation: logged and synced, not logged, or logged without the key it names.
LEMMA WriteJournalKept ==
    ASSUME Repairable, NEW p \in scene.procs, WriteJournal(p)
    PROVE  Repairable'
<1>0. /\ p \in Procs /\ Typing /\ Ground /\ Locals /\ At(p) /\ dir \in Directories
      /\ new[p] \in Nat /\ made \in Nat /\ UNCHANGED <<scene, db, made>>
  BY Doer DEF Typing, Locals, WriteJournal
<1>1. /\ dir.journal.stage = "none" /\ key[p] = dir.key /\ key[p] # NoKey /\ Under(key[p])
      /\ new[p] # NoKey /\ new[p] <= made /\ new[p] # dir.key /\ new[p] \in dir.temps
  BY <1>0 DEF At, Clear, Generated, WriteJournal
<1>2. PICK l : l = Logged("pending", new[p])
  OBVIOUS
<1>3. l \in Directories /\ l.key = dir.key /\ l.journal.stage = "pending" /\ l.journal.new = new[p] /\ l.temps = dir.temps
  BY <1>0, <1>2, Parts DEF Stages
<1>4. Shaped(l) /\ Shaped(dir)
  BY <1>0, <1>1, <1>3 DEF Shaped, Ground, Typing
<1>5. Settled(dir) = dir.key /\ Settled(l) = dir.key
  <2>1. ~DecryptsAny(new[p])
    BY <1>1, NotUnder
  <2> QED
    BY <1>1, <1>3, <2>1 DEF Settled
<1>6. CASE ChangeSynced(Logged("pending", new[p])) /\ Goto(p, "reencrypt")
  <2>1. dir' = l /\ maybe' = {l}
    BY <1>2, <1>6 DEF ChangeSynced
  <2>2. key' = key /\ new' = new
    BY <1>6 DEF Goto
  <2>3. pc'[p] = "reencrypt" => At(p)'
    BY <1>0, <1>1, <1>3, <2>1, <2>2 DEF At, Generated, Under
  <2> QED
    BY <1>0, <1>3, <1>4, <1>5, <1>6, <2>1, <2>3, ChangedTo DEF Steps
<1>7. CASE Change(WithoutTemp(new[p])) /\ Ended(p)
  <2>1. PICK d : d = WithoutTemp(new[p])
    OBVIOUS
  <2>2. d \in Directories /\ d.key = dir.key /\ d.journal = dir.journal
    BY <1>0, <2>1, Parts DEF Stages
  <2>3. dir' = d /\ maybe' = maybe \union {d}
    BY <1>7, <2>1 DEF Change
  <2>4. Shaped(d) /\ ~Undecided(d) /\ Settled(d) = Settled(dir)
    BY <1>1, <1>4, <2>2 DEF Shaped, Undecided, Settled
  <2> QED
    BY <1>0, <1>7, <2>2, <2>3, <2>4, IdleAt, ChangedTo DEF Steps
<1>8. CASE /\ dir' = [Logged("pending", new[p]) EXCEPT !.temps = @ \ {new[p]}]
           /\ maybe' = maybe \union {Logged("pending", new[p]), dir'}
           /\ Ended(p)
  <2>1. PICK d : d = [l EXCEPT !.temps = @ \ {new[p]}]
    OBVIOUS
  <2>2. d \in Directories /\ d.key = dir.key /\ d.journal = l.journal /\ new[p] \notin d.temps
    BY <1>3, <2>1 DEF Directories
  <2>3. dir' = d /\ maybe' = maybe \union {l, d}
    BY <1>2, <1>8, <2>1
  <2>4. Shaped(d) /\ ~Undecided(d) /\ Settled(d) = dir.key
    BY <1>3, <1>4, <2>2 DEF Shaped, Undecided, Settled
  <2>5. dir.key \in Options(l) /\ dir.key \in Options(d)
    BY <1>3, <2>2 DEF Options, Undecided
  <2>6. Under(Settled(d))
    BY <1>0, <1>5, <2>4 DEF Ground
  <2>7. maybe' \subseteq Directories /\ \A e \in maybe' : Shaped(e)
    BY <1>0, <1>3, <1>4, <2>2, <2>3, <2>4 DEF Ground, Typing
  <2>8. ASSUME scene.cuts > 0
        PROVE  (\A e \in maybe' : Settled(d) \in Options(e)) /\ (Undecided(d) => maybe' = {d})
    BY <1>0, <1>5, <2>3, <2>4, <2>5, <2>8 DEF Ground
  <2>9. Ground'
    BY <1>0, <2>2, <2>3, <2>6, <2>7, <2>8, GroundChanged
  <2>10. Locals' /\ pc'[p] = "idle" /\ \A q \in Procs \ {p} : pc'[q] = pc[q]
    BY <1>0, <1>8, Ending
  <2> QED
    BY <1>0, <2>2, <2>3, <2>7, <2>9, <2>10, IdleAt, Changed
<1> QED
  BY <1>6, <1>7, <1>8 DEF WriteJournal

\* A database that a step rewrites, in a directory it leaves alone.
LEMMA Rewritten ==
    ASSUME Repairable, UNCHANGED <<dir, maybe, made>>, db' \in [Secrets -> Nat],
           scene' \in [procs : SUBSET Procs, installs : Int, crashes : Int, cuts : Int, fresh : BOOLEAN],
           scene'.cuts = scene.cuts, scene'.fresh = scene.fresh, Locals',
           Under(Settled(dir))', scene.cuts > 0 => \A d \in maybe : Settled(dir)' \in Options(d)
    PROVE  Typing' /\ Ground'
<1>1. Typing'
  BY DEF Repairable, Typing
<1>2. \A d \in maybe : Shaped(d)'
  BY DEF Repairable, Ground, Shaped
<1> QED
  BY <1>1, <1>2 DEF Repairable, Ground, Options, Undecided

LEMMA ReencryptKept ==
    ASSUME Repairable, NEW p \in scene.procs, Reencrypt(p)
    PROVE  Repairable'
<1>0. /\ p \in Procs /\ Typing /\ Ground /\ Locals /\ At(p) /\ dir \in Directories
      /\ new[p] \in Nat /\ made \in Nat /\ UNCHANGED made
  BY Doer DEF Typing, Locals, Reencrypt
<1>1. /\ dir.journal.stage = "pending" /\ dir.journal.new = new[p] /\ key[p] = dir.key /\ Under(key[p])
      /\ new[p] # NoKey /\ new[p] # dir.key /\ new[p] \in dir.temps /\ Generated(p)
  BY <1>0 DEF At, Generated, Reencrypt
<1>2. CASE /\ \A s \in Secrets : db[s] \in {NoKey, key[p]}
           /\ db' = [s \in Secrets |-> IF db[s] = NoKey THEN NoKey ELSE new[p]]
           /\ scene' = [scene EXCEPT !.installs = @ - 1]
           /\ Goto(p, "advance") /\ UNCHANGED <<dir, maybe>>
  <2>1. db' \in [Secrets -> Nat] /\ Under(new[p])'
    <3>1. new'[p] = new[p]
      BY <1>2 DEF Goto
    <3> QED
      BY <1>0, <1>2, <3>1 DEF Under, NoKey
  <2>2. /\ scene' \in [procs : SUBSET Procs, installs : Int, crashes : Int, cuts : Int, fresh : BOOLEAN]
        /\ scene'.procs = scene.procs /\ scene'.cuts = scene.cuts /\ scene'.fresh = scene.fresh
    BY <1>0, <1>2 DEF Typing
  <2>3. Locals' /\ pc'[p] = "advance" /\ key' = key /\ new' = new /\ \A q \in Procs \ {p} : pc'[q] = pc[q]
    BY <1>0, <1>2, Going DEF Steps
  <2>4. Settled(dir)' \in {dir.key, new[p]}
    BY <1>1, <1>2 DEF Settled
  <2>5. Under(Settled(dir))'
    <3>1. Settled(dir)' = (IF DecryptsAny(new[p])' THEN new[p] ELSE dir.key)
      BY <1>1, <1>2, <2>3 DEF Settled, DecryptsAny
    <3> QED
      BY <1>1, <2>1, <2>3, <3>1 DEF Under, DecryptsAny
  <2>6. ASSUME scene.cuts > 0, NEW d \in maybe
        PROVE  Settled(dir)' \in Options(d)
    <3>1. d = dir
      BY <1>0, <1>1, <2>6 DEF Ground, Undecided
    <3> QED
      BY <1>1, <2>4, <3>1 DEF Options, Undecided
  <2>7. Typing' /\ Ground'
    BY <1>0, <1>2, <2>1, <2>2, <2>3, <2>5, <2>6, Rewritten
  <2>8. At(p)'
    BY <1>0, <1>1, <1>2, <2>1, <2>3 DEF At, Generated
  <2> QED
    BY <2>2, <2>3, <2>7, <2>8, AloneSteps
<1>3. CASE Change(WithoutTemp(new[p])) /\ Goto(p, "unlogUndone") /\ UNCHANGED <<scene, db>>
  <2>1. PICK d : d = WithoutTemp(new[p])
    OBVIOUS
  <2>2. dir' = d /\ maybe' = maybe \union {d}
    BY <1>3, <2>1 DEF Change
  <2>3. /\ d \in Directories /\ Shaped(d) /\ ~Undecided(d) /\ d.journal.stage # "none"
        /\ d.journal.new \notin d.temps /\ Settled(d) = d.key
    BY <1>1, <2>1, LeftSpent
  <2>4. d.key = dir.key
    BY <1>0, <2>1, Parts DEF Stages
  <2>5. ~DecryptsAny(new[p])
    BY <1>1, NotUnder
  <2>6. Settled(d) = Settled(dir)
    BY <1>1, <2>3, <2>4, <2>5 DEF Settled
  <2>7. pc'[p] = "unlogUndone" => At(p)'
    BY <2>2, <2>3 DEF At, Spent
  <2> QED
    BY <1>0, <1>3, <2>2, <2>3, <2>6, <2>7, ChangedTo DEF Steps
<1> QED
  BY <1>2, <1>3 DEF Reencrypt

\* Every secret is under the new key: the journal says so from now on, or does not.
LEMMA AdvanceKept ==
    ASSUME Repairable, NEW p \in scene.procs, Advance(p)
    PROVE  Repairable'
<1>0. /\ p \in Procs /\ Typing /\ Ground /\ Locals /\ At(p) /\ dir \in Directories
      /\ new[p] \in Nat /\ made \in Nat /\ UNCHANGED <<scene, db, made>> /\ Goto(p, "install")
  BY Doer DEF Typing, Locals, Advance
<1>1. /\ dir.journal.stage = "pending" /\ dir.journal.new = new[p] /\ Generated(p) /\ Under(new[p])
  BY <1>0 DEF At, Advance
<1>2. Locals' /\ pc'[p] = "install" /\ new' = new /\ \A q \in Procs \ {p} : pc'[q] = pc[q]
  BY <1>0, Going DEF Steps
<1>3. CASE ChangeSynced(Logged("committed", new[p]))
  <2>1. PICK d : d = Logged("committed", new[p])
    OBVIOUS
  <2>2. d \in Directories /\ d.key = dir.key /\ d.journal.stage = "committed" /\ d.journal.new = new[p] /\ d.temps = dir.temps
    BY <1>0, <2>1, Parts DEF Stages
  <2>3. dir' = d /\ maybe' = {d}
    BY <1>3, <2>1 DEF ChangeSynced
  <2>4. Settled(d) = new[p] /\ Options(d) = {new[p]} /\ ~Undecided(d)
    BY <1>1, <2>2 DEF Settled, Options, Undecided, Generated
  <2>5. Shaped(dir) /\ Shaped(d)
    BY <1>0, <1>1, <2>2 DEF Ground, Shaped, Typing
  <2>6. Ground'
    BY <1>0, <1>1, <2>2, <2>3, <2>4, <2>5, GroundChanged
  <2>7. At(p)'
    BY <1>0, <1>1, <1>2, <2>2, <2>3 DEF At, Generated, Under
  <2> QED
    BY <1>0, <1>2, <2>2, <2>3, <2>6, <2>7, Changed
<1>4. CASE UNCHANGED <<dir, maybe>>
  <2>1. pc'[p] = "install" => At(p)'
    BY <1>0, <1>1, <1>2, <1>4 DEF At, Generated, Under
  <2> QED
    BY <1>0, <1>4, <2>1, GoesAlone DEF Steps
<1> QED
  BY <1>3, <1>4 DEF Advance

\* The new key takes the old one's place, with every secret under it.
LEMMA InstallKept ==
    ASSUME Repairable, NEW p \in scene.procs, Install(p)
    PROVE  Repairable'
<1>0. /\ p \in Procs /\ Typing /\ Ground /\ Locals /\ At(p) /\ dir \in Directories
      /\ new[p] \in Nat /\ made \in Nat /\ UNCHANGED <<scene, db, made>>
  BY Doer DEF Typing, Locals, Install
<1>1. dir.journal.stage # "none" /\ dir.journal.new = new[p] /\ new[p] \in dir.temps /\ Under(new[p])
  BY <1>0 DEF At, Generated, Install
<1>2. PICK d : d = Installed(new[p])
  OBVIOUS
<1>3. dir' = d /\ maybe' = maybe \union {d} /\ Goto(p, "sync")
  BY <1>1, <1>2 DEF Install, Change
<1>4. /\ d \in Directories /\ Shaped(d) /\ ~Undecided(d) /\ d.journal.stage # "none"
      /\ d.journal.new \notin d.temps /\ Settled(d) = d.key
  BY <1>1, <1>2, LeftSpent
<1>5. d.key = new[p]
  BY <1>0, <1>2, Parts DEF Stages
<1>6. Settled(d) \in Options(d)
  BY <1>4, SettledIsOption
<1>7. ASSUME scene.cuts > 0, NEW e \in maybe
      PROVE  new[p] \in Options(e)
  <2>1. CASE Undecided(dir)
    BY <1>0, <1>1, <1>7, <2>1 DEF Ground, Options, Undecided
  <2>2. CASE ~Undecided(dir)
    <3>1. dir.journal.stage = "committed"
      BY <1>0, <1>1, <2>2 DEF Undecided, Directories, Stages
    <3>2. Settled(dir) = new[p]
      BY <1>1, <3>1 DEF Settled
    <3> QED
      BY <1>0, <1>7, <3>2 DEF Ground
  <2> QED
    BY <2>1, <2>2
<1>8. maybe' \subseteq Directories /\ \A e \in maybe' : Shaped(e)
  BY <1>0, <1>3, <1>4 DEF Ground, Typing
<1>9. ASSUME scene.cuts > 0
      PROVE  (\A e \in maybe' : Settled(d) \in Options(e)) /\ (Undecided(d) => maybe' = {d})
  BY <1>3, <1>4, <1>5, <1>6, <1>7, <1>9
<1>10. Under(Settled(d))
  BY <1>1, <1>4, <1>5
<1>11. Ground'
  BY <1>0, <1>3, <1>4, <1>8, <1>9, <1>10, GroundChanged
<1>12. Locals' /\ pc'[p] = "sync" /\ \A q \in Procs \ {p} : pc'[q] = pc[q]
  BY <1>0, <1>3, Going DEF Steps
<1>13. At(p)'
  BY <1>3, <1>4, <1>12 DEF At, Spent
<1> QED
  BY <1>0, <1>3, <1>4, <1>8, <1>11, <1>12, <1>13, Changed

-----------------------------------------------------------------------------
(* Steps that change the database, and the power cut. *)

\* A secret is stored under the key the directory settles on.
LEMMA SetSecretKept ==
    ASSUME Repairable, NEW p \in scene.procs, NEW s \in Secrets, SetSecret(p, s)
    PROVE  Repairable'
<1>0. /\ p \in Procs /\ Typing /\ Ground /\ Locals /\ At(p) /\ dir \in Directories
      /\ key[p] \in Nat /\ UNCHANGED <<scene, dir, maybe, made>>
  BY Doer DEF Typing, Locals, SetSecret
<1>1. dir.journal.stage = "none" /\ key[p] = dir.key /\ Under(key[p])
  BY <1>0 DEF At, Clear, SetSecret
<1>2. db' = [db EXCEPT ![s] = key[p]] /\ db' \in [Secrets -> Nat]
  BY <1>0 DEF SetSecret, Typing
<1>3. Locals' /\ pc'[p] = "idle" /\ \A q \in Procs \ {p} : pc'[q] = pc[q]
  BY <1>0, Ending DEF SetSecret
<1>4. Settled(dir) = dir.key /\ Settled(dir)' = dir.key
  BY <1>0, <1>1 DEF Settled
<1>5. Under(Settled(dir))'
  BY <1>0, <1>1, <1>2, <1>4 DEF Under, Typing
<1>6. scene.cuts > 0 => \A d \in maybe : Settled(dir)' \in Options(d)
  BY <1>0, <1>4 DEF Ground
<1>7. scene' \in [procs : SUBSET Procs, installs : Int, crashes : Int, cuts : Int, fresh : BOOLEAN]
  BY <1>0 DEF Typing
<1>8. Typing' /\ Ground'
  BY <1>0, <1>2, <1>3, <1>5, <1>6, <1>7, Rewritten
<1> QED
  BY <1>0, <1>3, <1>8, IdleAt, AloneSteps

\* A secret is deleted: what a key opened it still opens.
LEMMA DeleteSecretKept ==
    ASSUME Repairable, NEW s \in Secrets, DeleteSecret(s)
    PROVE  Repairable'
<1>0. Typing /\ Ground /\ Locals /\ dir \in Directories /\ UNCHANGED <<scene, dir, maybe, made, pc, cmd, key, new>>
  BY DEF Repairable, Typing, DeleteSecret, local
<1>1. db' = [db EXCEPT ![s] = NoKey] /\ db' \in [Secrets -> Nat]
  BY <1>0 DEF DeleteSecret, Typing, NoKey
<1>2. ASSUME NEW k, Under(k)
      PROVE  Under(k)'
  BY <1>0, <1>1, <1>2 DEF Under, Typing
<1>3. Under(Settled(dir))' /\ (scene.cuts > 0 => \A d \in maybe : Settled(dir)' \in Options(d))
  <2>1. CASE Undecided(dir)
    <3>1. Settled(dir)' = (IF DecryptsAny(dir.journal.new)' THEN dir.journal.new ELSE dir.key)
          /\ Settled(dir) = (IF DecryptsAny(dir.journal.new) THEN dir.journal.new ELSE dir.key)
      BY <1>0, <2>1 DEF Settled, Undecided, DecryptsAny
    <3>2. dir.journal.new # NoKey
      BY <1>0, <2>1 DEF Ground, Shaped, Undecided, Typing
    <3>3. DecryptsAny(dir.journal.new)' => DecryptsAny(dir.journal.new)
      BY <1>0, <1>1, <3>2 DEF DecryptsAny, Typing
    <3>4. Under(Settled(dir))'
      <4>1. \A t \in Secrets : db'[t] \in {NoKey, Settled(dir)}
        BY <1>0, <1>1 DEF Ground, Under, Typing
      <4> QED
        BY <1>0, <3>1, <3>2, <3>3, <4>1 DEF Under, DecryptsAny
    <3>5. Settled(dir)' \in Options(dir)
      BY <2>1, <3>1 DEF Options
    <3> QED
      BY <1>0, <2>1, <3>4, <3>5 DEF Ground
  <2>2. CASE ~Undecided(dir)
    <3>1. Settled(dir)' = Settled(dir)
      BY <1>0, <2>2 DEF Settled, Undecided, Directories, Stages
    <3> QED
      BY <1>0, <1>1, <3>1 DEF Ground, Under, Typing
  <2> QED
    BY <2>1, <2>2
<1>4. scene' \in [procs : SUBSET Procs, installs : Int, crashes : Int, cuts : Int, fresh : BOOLEAN]
      /\ scene'.cuts = scene.cuts /\ scene'.fresh = scene.fresh /\ Locals'
  BY <1>0 DEF Typing, Locals
<1>5. Typing' /\ Ground'
  BY <1>0, <1>1, <1>3, <1>4, Rewritten
<1>6. ASSUME NEW p \in scene.procs
      PROVE  At(p)'
  <2>1. At(p)
    BY DEF Repairable
  <2> QED
    BY <1>0, <1>2, <2>1 DEF At, Generated, Clear, Spent
<1>7. Quiet'
  BY <1>0 DEF Repairable, Quiet
<1> QED
  BY <1>0, <1>5, <1>6, <1>7 DEF Repairable

\* Every directory that may be found leaves the secrets under the key it settles on.
LEMMA FoundSettled ==
    ASSUME Repairable, scene.cuts > 0, NEW d \in maybe
    PROVE  d \in Directories /\ Shaped(d) /\ Under(Settled(d))
<1>1. d \in Directories /\ Shaped(d) /\ Settled(dir) \in Options(d) /\ Under(Settled(dir))
  BY DEF Repairable, Typing, Ground
<1> QED
  BY <1>1, OptionSettles

LEMMA CutPowerKept ==
    ASSUME Repairable, CutPower
    PROVE  Repairable'
<1>0. Typing /\ Ground /\ Locals
  BY DEF Repairable, Typing
<1>1. PICK d \in maybe : dir' = d /\ maybe' = {d}
  BY DEF CutPower
<1>2. scene.cuts > 0 /\ scene' = [scene EXCEPT !.cuts = @ - 1] /\ UNCHANGED <<cmd, db, made>>
      /\ pc' = [p \in Procs |-> "idle"] /\ key' = [p \in Procs |-> NoKey] /\ new' = [p \in Procs |-> NoKey]
  BY DEF CutPower
<1>3. d \in Directories /\ Shaped(d) /\ Under(Settled(d))
  BY <1>2, FoundSettled
<1>4. /\ scene' \in [procs : SUBSET Procs, installs : Int, crashes : Int, cuts : Int, fresh : BOOLEAN]
      /\ scene'.procs = scene.procs /\ scene'.fresh = scene.fresh
  BY <1>0, <1>2 DEF Typing
<1>5. Locals'
  BY <1>0, <1>2 DEF Locals, Steps, NoKey
<1>6. Typing'
  BY <1>0, <1>1, <1>2, <1>3, <1>4, <1>5 DEF Typing
<1>7. Ground'
  <2>1. Settled(d) \in Options(d)
    BY <1>3, SettledIsOption
  <2> QED
    BY <1>1, <1>2, <1>3, <1>4, <2>1 DEF Ground, Shaped, Under, Settled, DecryptsAny, Options, Undecided
<1>8. Quiet'
  <2>1. ~scene.fresh
    BY <1>0, <1>2 DEF Repairable, Quiet, Typing
  <2> QED
    BY <1>2, <1>4, <2>1 DEF Repairable, Quiet
<1>9. \A p \in scene'.procs : At(p)'
  BY <1>0, <1>2, <1>4, IdleAt DEF Typing
<1> QED
  BY <1>6, <1>7, <1>8, <1>9 DEF Repairable

-----------------------------------------------------------------------------
(* The theorems. *)

LEMMA StartsRepairable ==
    ASSUME Alone, Init
    PROVE  Repairable
<1>1. scene \in SceneType /\ (\A p, q \in scene.procs : p = q) /\ (scene.fresh => scene.cuts = 0)
  BY KeysAssumption DEF Alone, Init
<1>2. scene \in [procs : SUBSET Procs, installs : Int, crashes : Int, cuts : Int, fresh : BOOLEAN]
  BY <1>1 DEF SceneType
<1>3. dir \in Directories /\ dir.journal.stage = "none" /\ dir.journal.new = NoKey
      /\ dir.key = IF scene.fresh THEN NoKey ELSE 1
  BY DEF Init, Directories, Stages, NoJournal, NoKey
<1>4. Locals /\ \A p \in Procs : pc[p] = "idle"
  BY DEF Init, Locals, Steps, Command, NoKey
<1>5. db \in [Secrets -> Nat] /\ made = (IF scene.fresh THEN 0 ELSE 1) /\ maybe = {dir}
  BY DEF Init, NoKey
<1>6. Typing
  BY <1>2, <1>3, <1>4, <1>5 DEF Typing
<1>7. Quiet
  BY <1>1, <1>4 DEF Quiet
<1>8. Ground
  <2>1. Under(Settled(dir))
    BY DEF Init, Under
  <2>2. Settled(dir) \in Options(dir)
    BY <1>3, SettledIsOption
  <2>3. Shaped(dir)
    BY <1>3, <1>5 DEF Shaped, NoKey
  <2> QED
    BY <1>5, <2>1, <2>2, <2>3 DEF Ground
<1>9. \A p \in scene.procs : At(p)
  BY <1>2, <1>4 DEF At
<1> QED
  BY <1>6, <1>7, <1>8, <1>9 DEF Repairable

LEMMA StaysRepairable ==
    ASSUME Repairable, [Next]_vars
    PROVE  Repairable'
<1>1. CASE UNCHANGED vars
  <2>1. UNCHANGED <<scene, dir, maybe, db, made, pc, cmd, key, new>>
    BY <1>1 DEF vars
  <2>2. Typing'
    BY <2>1 DEF Repairable, Typing, Locals
  <2>3. Quiet'
    BY <2>1 DEF Repairable, Quiet
  <2>4. Ground'
    BY <2>1 DEF Repairable, Ground, Shaped, Under, Settled, DecryptsAny, Options, Undecided
  <2>5. \A p \in scene'.procs : At(p)'
    BY <2>1 DEF Repairable, At, Clear, Spent, Generated, Under
  <2> QED
    BY <2>2, <2>3, <2>4, <2>5 DEF Repairable
<1>2. ASSUME NEW p \in scene.procs, RotateStep(p)
      PROVE  Repairable'
  BY <1>2, RecoverKept, RemoveStaleKept, WriteTempKept, WriteJournalKept, ReencryptKept, AdvanceKept, InstallKept,
     SyncKept, UnlogKept DEF RotateStep
<1>3. ASSUME NEW p \in scene.procs, InitStep(p)
      PROVE  Repairable'
  BY <1>3, InitKept, PlaceKeyKept DEF InitStep
<1>4. ASSUME NEW p \in scene.procs,
             \/ \E c \in Command : Open(p, c)
             \/ Lock(p) \/ Resume(p) \/ ResumeSync(p) \/ ResumeUnlog(p) \/ LoadKey(p)
             \/ \E s \in Secrets : SetSecret(p, s)
             \/ EndRun(p) \/ Kill(p)
      PROVE  Repairable'
  BY <1>4, OpenKept, LockKept, ResumeKept, SyncKept, UnlogKept, LoadKept, SetSecretKept, GoneKept
<1> QED
  BY <1>1, <1>2, <1>3, <1>4, DeleteSecretKept, CutPowerKept DEF Next

\* Whatever is killed and however the power is cut, the directory and the database stay such that one key opens every secret.
THEOREM StaysRepaired ==
    ASSUME Alone
    PROVE  Spec => []Repairable
<1>1. Init => Repairable
  BY StartsRepairable
<1>2. Repairable /\ [Next]_vars => Repairable'
  BY StaysRepairable
<1> QED
  BY <1>1, <1>2, PTL DEF Spec

\* The directories that may be found are of those the invariant is about.
LEMMA Finds ==
    ASSUME Repairable, NEW d \in Findable
    PROVE  d \in Directories /\ Under(Settled(d))
<1>1. CASE scene.cuts > 0
  BY <1>1, FoundSettled DEF Findable
<1>2. CASE ~(scene.cuts > 0)
  BY <1>2 DEF Findable, Repairable, Typing, Ground
<1> QED
  BY <1>1, <1>2

\* Whatever was killed, and whatever a power cut undid, the key that rotating or loading settles on is the one every secret is
\* under (rotate.go: the recovery at RotateKey's start and ResumeIfCommitted): rotations one after the other, as many as there are.
THEOREM RotationAlwaysRepairs ==
    ASSUME Alone
    PROVE  Spec => []RotationRepairs
<1>1. Repairable => RotationRepairs
  BY Finds DEF RotationRepairs, Under
<1> QED
  BY <1>1, StaysRepaired, PTL

\* No interruption of a rotation loses a secret: its key is in the key file, or the journal can still install it.
THEOREM NoSecretIsLost ==
    ASSUME Alone
    PROVE  Spec => []NoSecretLost
<1>1. ASSUME NEW d \in Directories
      PROVE  Settled(d) \in Kept(d)
  BY DEF Settled, Kept, Directories, Stages
<1>2. Repairable => NoSecretLost
  BY <1>1, Finds DEF NoSecretLost, Under
<1> QED
  BY <1>2, StaysRepaired, PTL

\* The key a run, a `secret set` or a rotation has loaded opens every stored secret for as long as it is in hand.
THEOREM KeyInHandAlwaysOpens ==
    ASSUME Alone
    PROVE  Spec => []KeyInHandOpens
<1>1. ASSUME Repairable, NEW p \in Procs, pc[p] \in {"write", "use", "temp", "journal", "reencrypt"}
      PROVE  Under(key[p])
  <2>1. p \in scene.procs
    BY <1>1 DEF Repairable, Quiet
  <2>2. At(p)
    BY <1>1, <2>1 DEF Repairable
  <2> QED
    BY <1>1, <2>2 DEF At
<1>2. Repairable => KeyInHandOpens
  BY <1>1 DEF KeyInHandOpens, Under
<1> QED
  BY <1>2, StaysRepaired, PTL
===========================================================================
