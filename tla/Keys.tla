------------------------------- MODULE Keys -------------------------------
(***************************************************************************)
(* The keys of a workspace: the AES key the stored secrets are encrypted   *)
(* with, its rotation with a two-stage journal (internal/crypto/rotate.go, *)
(* encrypt.go), the Ed25519 pair that signs (signing.go), and the commands *)
(* that use them: a session that makes what is missing, `secret set`,      *)
(* `secret delete`, `secret rotate`, and a run that decrypts.              *)
(*                                                                         *)
(* A key is a number, and so is the inode of the file that holds it: the   *)
(* key file is only ever replaced by a rename, so the file a process has   *)
(* open, and has locked, is the file of one key.  A process may be killed  *)
(* between any two steps.  A power cut also undoes renames and removals    *)
(* that were not synced: `maybe` holds what the directory may be after it. *)
(* The database commits with synchronous=FULL and loses nothing.           *)
(* Not modelled: the file modes LoadKey looks at, and a write, a read or a *)
(* sync that fails where a step below does not say so.                     *)
(***************************************************************************)
EXTENDS Integers, FiniteSets

CONSTANTS
    Procs,      \* processes, each a command at a time
    Secrets,    \* names of stored secrets
    MaxKeys,    \* bound: keys ever generated
    Scenes      \* what an instance explores: sets of records, see SceneType

SceneType == [procs : SUBSET Procs,  \* the processes there are
              installs : Nat,        \* bound: rotations that may install a key
              crashes : Nat,         \* bound: processes killed, and public keys not written
              cuts : Nat,            \* bound: power cuts
              fresh : BOOLEAN]       \* the workspace has no keys yet

ASSUME KeysAssumption ==
    /\ MaxKeys \in Nat \ {0}
    /\ Scenes \subseteq SceneType

VARIABLES
    scene,      \* the bounds of this behaviour; crashes and cuts count down
    dir,        \* the workspace directory: key file, rotation journal, temporary keys
    maybe,      \* what the directory may be after a power cut; holds dir
    db,         \* per secret, the key its ciphertext is under
    pair,       \* .signing.key and .signing.pub, each the pair it belongs to
    made,       \* keys generated so far
    pc,         \* per process, its next step
    cmd,        \* per process, the command it is
    open,       \* per process, the inode it has open as .key
    hold,       \* per process, the flock it has on that inode
    key,        \* per process, the key it loaded
    new         \* per process, the key it generated

vars == <<scene, dir, maybe, db, pair, made, pc, cmd, open, hold, key, new>>
local == <<pc, cmd, open, hold, key, new>>

NoKey == 0
NoPair == "none"
Old == "old"    \* the pair of a workspace that has one; a new pair is named after the process that made it
NoJournal == [stage |-> "none", new |-> NoKey]
Command == {"init", "set", "rotate", "run"}

Init ==
    /\ scene \in Scenes
    /\ dir = [key |-> IF scene.fresh THEN NoKey ELSE 1, journal |-> NoJournal, temps |-> {}]
    /\ maybe = {dir}
    /\ db = [s \in Secrets |-> NoKey]
    /\ pair = IF scene.fresh THEN [private |-> NoPair, public |-> NoPair] ELSE [private |-> Old, public |-> Old]
    /\ made = IF scene.fresh THEN 0 ELSE 1
    /\ pc = [p \in Procs |-> "idle"] /\ cmd = [p \in Procs |-> "init"]
    /\ open = [p \in Procs |-> NoKey] /\ hold = [p \in Procs |-> "none"]
    /\ key = [p \in Procs |-> NoKey] /\ new = [p \in Procs |-> NoKey]

-----------------------------------------------------------------------------
(* The directory. *)

\* A rename or a removal that no sync has made durable yet.
Change(d) == dir' = d /\ maybe' = maybe \union {d}
\* One followed by syncDir: what was before cannot come back.
ChangeSynced(d) == dir' = d /\ maybe' = {d}
\* os.Rename of a temporary key over the key file.
Installed(k) == [dir EXCEPT !.key = k, !.temps = @ \ {k}]
Unlogged == [dir EXCEPT !.journal = NoJournal]
WithoutTemp(k) == [dir EXCEPT !.temps = @ \ {k}]
Logged(stage, k) == [dir EXCEPT !.journal = [stage |-> stage, new |-> k]]

\* The process goes on with the next step of its command.
Goto(p, step) == pc' = [pc EXCEPT ![p] = step] /\ UNCHANGED <<cmd, open, hold, key, new>>
\* The command ends, well or not: its lock is gone with its descriptor.
Ended(p) ==
    /\ pc' = [pc EXCEPT ![p] = "idle"] /\ open' = [open EXCEPT ![p] = NoKey]
    /\ hold' = [hold EXCEPT ![p] = "none"] /\ key' = [key EXCEPT ![p] = NoKey]
    /\ new' = [new EXCEPT ![p] = NoKey] /\ UNCHANGED cmd
\* A key no one had before.
Generate(p, step) ==
    /\ made < MaxKeys
    /\ made' = made + 1 /\ new' = [new EXCEPT ![p] = made + 1]
    /\ pc' = [pc EXCEPT ![p] = step] /\ UNCHANGED <<cmd, open, hold, key>>

-----------------------------------------------------------------------------
(* A session makes the keys that are missing: GenerateKey, then            *)
(* GenerateSigningKey.  Neither takes a lock, and neither syncs.           *)

GenerateKey(p) ==
    /\ pc[p] = "idle"
    /\ cmd' = [cmd EXCEPT ![p] = "init"]
    /\ IF dir.key # NoKey
       THEN pc' = [pc EXCEPT ![p] = "statPair"] /\ UNCHANGED <<made, new>>
       ELSE /\ made < MaxKeys /\ made' = made + 1 /\ new' = [new EXCEPT ![p] = made + 1]
            /\ pc' = [pc EXCEPT ![p] = "placeKey"]
    /\ UNCHANGED <<scene, dir, maybe, db, pair, open, hold, key>>

PlaceKey(p) ==
    /\ pc[p] = "placeKey"
    /\ Change([dir EXCEPT !.key = new[p]])
    /\ Goto(p, "statPair")
    /\ UNCHANGED <<scene, db, pair, made>>

\* A private key that is there gives its public half back when that is missing.
GenerateSigningKey(p) ==
    /\ pc[p] = "statPair"
    /\ IF pair.private # NoPair
       THEN pair' = [pair EXCEPT !.public = IF @ = NoPair THEN pair.private ELSE @] /\ Ended(p)
       ELSE Goto(p, "placePrivate") /\ UNCHANGED pair
    /\ UNCHANGED <<scene, dir, maybe, db, made>>

PlacePrivate(p) ==
    /\ pc[p] = "placePrivate"
    /\ pair' = [pair EXCEPT !.private = p]
    /\ Goto(p, "placePublic")
    /\ UNCHANGED <<scene, dir, maybe, db, made>>

\* The write of the public half may fail: then the private key is taken away.
PlacePublic(p) ==
    /\ pc[p] = "placePublic"
    /\ \/ pair' = [pair EXCEPT !.public = p] /\ UNCHANGED scene
       \/ /\ scene.crashes > 0 /\ scene' = [scene EXCEPT !.crashes = @ - 1]
          /\ pair' = [pair EXCEPT !.private = NoPair]
    /\ Ended(p)
    /\ UNCHANGED <<dir, maybe, db, made>>

-----------------------------------------------------------------------------
(* Opening the key file and locking it are two steps: what is locked is    *)
(* the file that was open, whatever .key names by then.                    *)

Open(p, c) ==
    /\ pc[p] = "idle" /\ dir.key # NoKey
    /\ c \in {"set", "rotate", "run"}
    /\ c = "rotate" => scene.installs > 0 \/ dir.journal # NoJournal
    /\ cmd' = [cmd EXCEPT ![p] = c] /\ open' = [open EXCEPT ![p] = dir.key]
    /\ pc' = [pc EXCEPT ![p] = "lock"]
    /\ UNCHANGED <<scene, dir, maybe, db, pair, made, hold, key, new>>

\* The processes with a lock that keeps p's out; nothing waits (LOCK_NB).
Excluding(p) == {q \in Procs \ {p} : /\ open[q] = open[p] /\ hold[q] # "none"
                                     /\ cmd[p] = "rotate" \/ hold[q] = "exclusive"}

Lock(p) ==
    /\ pc[p] = "lock"
    /\ IF Excluding(p) # {} THEN Ended(p)
       ELSE /\ hold' = [hold EXCEPT ![p] = IF cmd[p] = "rotate" THEN "exclusive" ELSE "shared"]
            /\ pc' = [pc EXCEPT ![p] = IF cmd[p] = "rotate" THEN "recover" ELSE "load"]
            /\ UNCHANGED <<cmd, open, key, new>>
    /\ UNCHANGED <<scene, dir, maybe, db, pair, made>>

-----------------------------------------------------------------------------
(* LoadKey: finishes a committed rotation, refuses a pending one.          *)

\* ResumeIfCommitted: the rename, its sync, and the journal's removal.
Resume(p) ==
    /\ pc[p] = "load"
    /\ IF dir.journal.stage # "committed" THEN Goto(p, "check") /\ UNCHANGED <<dir, maybe>>
       ELSE IF dir.journal.new \in dir.temps
       THEN Change(Installed(dir.journal.new)) /\ Goto(p, "loadSync")
       ELSE Goto(p, "loadUnlog") /\ UNCHANGED <<dir, maybe>>
    /\ UNCHANGED <<scene, db, pair, made>>

ResumeSync(p) ==
    /\ pc[p] = "loadSync"
    /\ ChangeSynced(dir) /\ Goto(p, "loadUnlog")
    /\ UNCHANGED <<scene, db, pair, made>>

ResumeUnlog(p) ==
    /\ pc[p] = "loadUnlog"
    /\ Change(Unlogged) /\ Goto(p, "check")
    /\ UNCHANGED <<scene, db, pair, made>>

\* Mutant: The key is loaded although a rotation is pending.
LoadKeyPending(p) ==
    /\ pc[p] = "check"
    /\ IF dir.key = NoKey THEN Ended(p)
       ELSE /\ key' = [key EXCEPT ![p] = dir.key]
            /\ pc' = [pc EXCEPT ![p] = CASE cmd[p] = "rotate" -> "temp" [] cmd[p] = "set" -> "write" [] OTHER -> "use"]
            /\ UNCHANGED <<cmd, open, hold, new>>
    /\ UNCHANGED <<scene, dir, maybe, db, pair, made>>

LoadKey(p) ==
    /\ pc[p] = "check"
    /\ IF dir.journal.stage = "pending" \/ dir.key = NoKey THEN Ended(p)
       ELSE /\ key' = [key EXCEPT ![p] = dir.key]
            /\ pc' = [pc EXCEPT ![p] = CASE cmd[p] = "rotate" -> "temp" [] cmd[p] = "set" -> "write" [] OTHER -> "use"]
            /\ UNCHANGED <<cmd, open, hold, new>>
    /\ UNCHANGED <<scene, dir, maybe, db, pair, made>>

-----------------------------------------------------------------------------
(* RotateKey, under the exclusive lock.                                    *)

\* Mutant: every name must decrypt, also one whose secret was deleted.
DecryptsAll(k) == \A s \in Secrets : db[s] = k

\* tryDecryptAny: some stored secret decrypts with k.
DecryptsAny(k) == \E s \in Secrets : db[s] = k

\* Mutant: A pending rotation is always rolled back, whatever the database says.
RecoverRollsBack(p) ==
    /\ pc[p] = "recover"
    /\ LET k == dir.journal.new IN
       CASE dir.journal.stage = "none" -> Goto(p, "glob") /\ UNCHANGED <<dir, maybe>>
         [] dir.journal.stage = "committed" /\ k \in dir.temps -> Change(Installed(k)) /\ Goto(p, "sync")
         [] dir.journal.stage = "committed" /\ k \notin dir.temps -> Goto(p, "unlog") /\ UNCHANGED <<dir, maybe>>
         [] OTHER -> Change(WithoutTemp(k)) /\ Goto(p, "rollback")
    /\ UNCHANGED <<scene, db, pair, made>>

\* What an interrupted rotation left decides how this one goes on.
Recover(p) ==
    /\ pc[p] = "recover"
    /\ LET k == dir.journal.new IN
       CASE dir.journal.stage = "none" -> Goto(p, "glob") /\ UNCHANGED <<dir, maybe>>
         [] dir.journal.stage = "committed" /\ k \notin dir.temps -> Goto(p, "unlog") /\ UNCHANGED <<dir, maybe>>
         [] dir.journal.stage = "committed" /\ k \in dir.temps -> Change(Installed(k)) /\ Goto(p, "sync")
         [] dir.journal.stage = "pending" /\ k \in dir.temps /\ DecryptsAny(k) -> Change(Installed(k)) /\ Goto(p, "sync")
         [] OTHER -> Change(WithoutTemp(k)) /\ Goto(p, "rollback")
    /\ UNCHANGED <<scene, db, pair, made>>

RollBack(p) ==
    /\ pc[p] = "rollback"
    /\ Change(Unlogged) /\ Goto(p, "glob")
    /\ UNCHANGED <<scene, db, pair, made>>

\* Every temporary key that lies around goes: no other rotation is meant to use one.
RemoveStale(p) ==
    /\ pc[p] = "glob"
    /\ Change([dir EXCEPT !.temps = {}]) /\ Goto(p, "load")
    /\ UNCHANGED <<scene, db, pair, made>>

WriteTemp(p) ==
    /\ pc[p] = "temp"
    /\ IF scene.installs = 0 \/ made = MaxKeys THEN Ended(p) /\ UNCHANGED <<dir, maybe, made>>
       ELSE Generate(p, "journal") /\ Change([dir EXCEPT !.temps = @ \union {made + 1}])
    /\ UNCHANGED <<scene, db, pair>>

\* The journal is renamed into place and synced; it may fail before, or at the sync.
WriteJournal(p) ==
    /\ pc[p] = "journal"
    /\ \/ ChangeSynced(Logged("pending", new[p])) /\ Goto(p, "reencrypt")
       \/ Change(WithoutTemp(new[p])) /\ Ended(p)
       \/ /\ dir' = [Logged("pending", new[p]) EXCEPT !.temps = @ \ {new[p]}]
          /\ maybe' = maybe \union {Logged("pending", new[p]), dir'}
          /\ Ended(p)
    /\ UNCHANGED <<scene, db, pair, made>>

\* One transaction: every secret decrypts under the old key, or none is touched.
Reencrypt(p) ==
    /\ pc[p] = "reencrypt"
    /\ \/ /\ \A s \in Secrets : db[s] \in {NoKey, key[p]}
          /\ db' = [s \in Secrets |-> IF db[s] = NoKey THEN NoKey ELSE new[p]]
          /\ scene' = [scene EXCEPT !.installs = @ - 1]
          /\ Goto(p, "advance") /\ UNCHANGED <<dir, maybe>>
       \/ Change(WithoutTemp(new[p])) /\ Goto(p, "unlogUndone") /\ UNCHANGED <<scene, db>>
    /\ UNCHANGED <<pair, made>>

UndoUnlog(p) ==
    /\ pc[p] = "unlogUndone"
    /\ Change(Unlogged) /\ Ended(p)
    /\ UNCHANGED <<scene, db, pair, made>>

\* A write of the journal that fails here is ignored.
Advance(p) ==
    /\ pc[p] = "advance"
    /\ \/ ChangeSynced(Logged("committed", new[p]))
       \/ UNCHANGED <<dir, maybe>>
    /\ Goto(p, "install")
    /\ UNCHANGED <<scene, db, pair, made>>

\* Without the temporary key the rename fails, and the journal stays.
Install(p) ==
    /\ pc[p] = "install"
    /\ IF new[p] \in dir.temps THEN Change(Installed(new[p])) /\ Goto(p, "sync")
       ELSE Ended(p) /\ UNCHANGED <<dir, maybe>>
    /\ UNCHANGED <<scene, db, pair, made>>

Sync(p) ==
    /\ pc[p] = "sync"
    /\ ChangeSynced(dir) /\ Goto(p, "unlog")
    /\ UNCHANGED <<scene, db, pair, made>>

Unlog(p) ==
    /\ pc[p] = "unlog"
    /\ Change(Unlogged) /\ Ended(p)
    /\ UNCHANGED <<scene, db, pair, made>>

-----------------------------------------------------------------------------
(* The other users of the key. *)

\* `secret set`: what was encrypted with the loaded key is stored, and the lock released.
SetSecret(p, s) ==
    /\ pc[p] = "write"
    /\ db' = [db EXCEPT ![s] = key[p]]
    /\ Ended(p)
    /\ UNCHANGED <<scene, dir, maybe, pair, made>>

\* `secret delete` takes no lock.
DeleteSecret(s) ==
    /\ db[s] # NoKey
    /\ db' = [db EXCEPT ![s] = NoKey]
    /\ UNCHANGED <<scene, dir, maybe, pair, made, local>>

\* A run holds its lock, and the key it loaded, until it ends.
EndRun(p) ==
    /\ pc[p] = "use"
    /\ Ended(p)
    /\ UNCHANGED <<scene, dir, maybe, db, pair, made>>

\* A process is killed: its descriptors are closed, and the lock with them.
Kill(p) ==
    /\ pc[p] # "idle" /\ scene.crashes > 0
    /\ scene' = [scene EXCEPT !.crashes = @ - 1]
    /\ Ended(p)
    /\ UNCHANGED <<dir, maybe, db, pair, made>>

\* The power is cut: the directory is as some moment since the last sync left it.
CutPower ==
    /\ scene.cuts > 0
    /\ scene' = [scene EXCEPT !.cuts = @ - 1]
    /\ dir' \in maybe /\ maybe' = {dir'}
    /\ pc' = [p \in Procs |-> "idle"] /\ open' = [p \in Procs |-> NoKey]
    /\ hold' = [p \in Procs |-> "none"] /\ key' = [p \in Procs |-> NoKey]
    /\ new' = [p \in Procs |-> NoKey]
    /\ UNCHANGED <<cmd, db, pair, made>>

RotateStep(p) ==
    \/ Recover(p) \/ RollBack(p) \/ RemoveStale(p) \/ WriteTemp(p) \/ WriteJournal(p)
    \/ Reencrypt(p) \/ UndoUnlog(p) \/ Advance(p) \/ Install(p) \/ Sync(p) \/ Unlog(p)

InitStep(p) ==
    \/ GenerateKey(p) \/ PlaceKey(p) \/ GenerateSigningKey(p) \/ PlacePrivate(p) \/ PlacePublic(p)

Next ==
    \/ \E p \in scene.procs :
        \/ InitStep(p)
        \/ \E c \in Command : Open(p, c)
        \/ Lock(p) \/ Resume(p) \/ ResumeSync(p) \/ ResumeUnlog(p) \/ LoadKey(p)
        \/ RotateStep(p)
        \/ \E s \in Secrets : SetSecret(p, s)
        \/ EndRun(p) \/ Kill(p)
    \/ \E s \in Secrets : DeleteSecret(s)
    \/ CutPower

Spec == Init /\ [][Next]_vars

-----------------------------------------------------------------------------
(* Properties. *)

\* The directories that may be found next: as it is, and, while the power may still be cut, as an unsynced change left it.
Findable == IF scene.cuts > 0 THEN maybe ELSE {dir}

\* The keys a directory keeps: the key file's, and the one its journal can still install.
Kept(d) == {d.key} \union ({d.journal.new} \intersect d.temps)

\* No secret is lost: whatever was interrupted, and whatever a power cut undoes, the key each stored secret is under is in the key
\* file, or it is the temporary key a journal names (rotate.go: "a two-stage journal recovers from a crash at every step").
NoSecretLost == \A d \in Findable, s \in Secrets : db[s] = NoKey \/ db[s] \in Kept(d)

\* Rotating again repairs it: when every process is gone, the key RotateKey or LoadKey would settle on is the one every secret is
\* under.  LoadKey refuses exactly when it cannot tell (encrypt.go: "refuses rather than return a possibly wrong key").
Settled(d) ==
    CASE d.journal.stage = "none" -> d.key
      [] d.journal.stage = "committed" -> IF d.journal.new \in d.temps THEN d.journal.new ELSE d.key
      [] OTHER -> IF d.journal.new \in d.temps /\ DecryptsAny(d.journal.new) THEN d.journal.new ELSE d.key
RotationRepairs == \A d \in Findable, s \in Secrets : db[s] \in {NoKey, Settled(d)}

\* A key in hand opens every secret, as long as its holder has it: a run's decryption never fails, and `secret set` never stores a
\* ciphertext the next reader cannot open (secret.go: the shared lock from LoadKey through the insert).  Once the rotation itself
\* has committed, it is past its old key.
KeyInHandOpens ==
    \A p \in Procs : pc[p] \in {"write", "use", "temp", "journal", "reencrypt"} =>
        \A s \in Secrets : db[s] \in {NoKey, key[p]}

=============================================================================
