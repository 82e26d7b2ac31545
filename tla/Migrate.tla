-------------------------------- MODULE Migrate --------------------------------
(***************************************************************************)
(* The move of a 1.x vault into the daemon and the later purge of the old  *)
(* copy: pear-migrate (client/migrate.py), a process the window starts     *)
(* with a ticket, and the ops it and the window use (daemon/handlers.py).  *)
(*                                                                         *)
(* The eight 1.x files are one version of the vault, a number; 1.x may     *)
(* write a newer one as long as its units run.  import_v1 is one step:     *)
(* StoreTree has its crashes.  The settings (state.json) are loaded and    *)
(* saved in two store calls, and any other op may save in between.  The    *)
(* 1.x launcher with its backend and window, and the manifests of the 1.x  *)
(* extension, are one thing each.  Left out: a TPM that lost its keys.     *)
(***************************************************************************)
EXTENDS Naturals, FiniteSets

CONSTANTS
  Importer,     \* the pear-migrate processes
  Backup,       \* the names choose_backup_dir may give
  MaxVersion,   \* bound: versions 1.x writes
  MaxStores     \* bound: stores the daemon makes

ASSUME MigrateAssumption ==
  /\ IsFiniteSet(Importer) /\ IsFiniteSet(Backup)
  /\ MaxVersion \in Nat \ {0} /\ MaxStores \in Nat \ {0}
  /\ {"op", "settings"} \cap Importer = {} /\ "none" \notin Backup

VARIABLES
  kind,     \* is_passphrase_vault: "passphrase" or "keyring"
  cur,      \* the version in ~/.config/icp, 0 when that directory is gone
  latest,   \* the newest version 1.x wrote
  backup,   \* the version in each backup directory, 0 for none
  key,      \* the 1.x key in the login keyring: "here", "locked" or "gone"
  alive,    \* the 1.x units may still run
  parts,    \* which of the 1.x "app" and its "manifest" are in place
  store,    \* u<uid>: which object, the version imported, and state.json
  aside,    \* the versions in u<uid>.broken-<time>
  open,     \* s.store holds its keys, and tier 1 is open
  mem,      \* the session: migrating and old_copy
  win,      \* the window is connected
  op,       \* the window's migrate-begin, reset or purge-old-copy
  saver,    \* each task between load_settings and save_settings
  imp,      \* the importers
  job       \* the daemon's import-commit for each importer

v1Vars     == <<kind, cur, latest, backup, key, alive, parts>>
daemonVars == <<store, aside, open, mem, op, saver, job>>
vars       == <<v1Vars, daemonVars, win, imp>>

Versions == 1..MaxVersion
Writer   == Importer \cup {"op", "settings"}
NoCopy   == [dir |-> "none", ver |-> 0]
Copies   == [dir : Backup \cup {"none"}, ver : Versions \cup {0}]
Settings == [pending : BOOLEAN, oc : Copies]
Default  == [pending |-> FALSE, oc |-> NoCopy]

NoOp   == [name |-> "none", at |-> "idle", retry |-> FALSE, oc |-> NoCopy, live |-> TRUE]
NoSave == [at |-> "idle", keys |-> {}, new |-> Default, full |-> Default]
NoJob  == [at |-> "idle", obj |-> 0, oc |-> NoCopy]
NoImp  == [pc |-> "none", conn |-> FALSE, read |-> 0, oc |-> NoCopy]

TypeOK ==
  /\ kind \in {"passphrase", "keyring"}
  /\ cur \in Versions \cup {0} /\ latest \in Versions
  /\ backup \in [Backup -> Versions \cup {0}]
  /\ key \in {"here", "locked", "gone"}
  /\ alive \in BOOLEAN /\ open \in BOOLEAN /\ win \in BOOLEAN
  /\ parts \subseteq {"app", "manifest"}
  /\ store \in [obj : 0..MaxStores, data : Versions \cup {0}, set : Settings]
  /\ aside \subseteq Versions
  /\ mem \in [migrating : BOOLEAN, oc : Copies]
  /\ op.at \in {"idle", "dialog", "make", "save"} /\ op.oc \in Copies
  /\ \A w \in Writer : saver[w].at \in {"idle", "load", "save"} /\ saver[w].full \in Settings
  /\ \A i \in Importer : imp[i].oc \in Copies /\ imp[i].conn \in BOOLEAN
                         /\ job[i].at \in {"idle", "import", "save", "ok", "error"}
  /\ open => store.obj # 0

Init ==
  /\ kind \in {"passphrase", "keyring"}
  /\ cur = 1 /\ latest = 1 /\ backup = [b \in Backup |-> 0]
  /\ key \in IF kind = "keyring" THEN {"here", "locked"} ELSE {"gone"}
  /\ alive = TRUE /\ parts = {"app", "manifest"}
  /\ store = [obj |-> 0, data |-> 0, set |-> Default]
  /\ aside = {} /\ open = FALSE /\ win = FALSE
  /\ mem = [migrating |-> FALSE, oc |-> NoCopy]
  /\ op = NoOp
  /\ saver = [w \in Writer |-> NoSave]
  /\ imp = [i \in Importer |-> NoImp]
  /\ job = [i \in Importer |-> NoJob]

-----------------------------------------------------------------------------
(* Outside: 1.x, the keyring, crashes *)

\* The 1.x sync timer or agent writes the vault again.
OldChanges ==
  /\ alive /\ cur # 0 /\ latest < MaxVersion
  /\ latest' = latest + 1 /\ cur' = latest'
  /\ UNCHANGED <<kind, backup, key, alive, parts, daemonVars, win, imp>>

KeyringUnlocks ==
  /\ key = "locked" /\ key' = "here"
  /\ UNCHANGED <<kind, cur, latest, backup, alive, parts, daemonVars, win, imp>>

Live(i)  == imp[i].pc # "none"
Ended(i) == [imp EXCEPT ![i] = NoImp]

\* Killed, or the session ended.
ImporterDies(i) ==
  /\ Live(i)
  /\ imp' = Ended(i)
  /\ UNCHANGED <<v1Vars, daemonVars, win>>

Disconnected == [i \in Importer |-> [imp[i] EXCEPT !.conn = FALSE]]

\* The daemon stops at any point; systemd starts it again for the next connection, and the
\* first hello reads the settings.
Restart ==
  /\ open' = FALSE /\ win' = FALSE
  /\ mem' = [migrating |-> FALSE, oc |-> store.set.oc]
  /\ op' = NoOp
  /\ saver' = [w \in Writer |-> NoSave]
  /\ job' = [i \in Importer |-> NoJob]
  /\ imp' = Disconnected
  /\ UNCHANGED <<v1Vars, store, aside>>

-----------------------------------------------------------------------------
(* Locks and the window *)

\* Registry.lock: wipes the keys, withdraws the importers, cancels the dialog.  An op past its
\* dialog goes on and finds out at its next check.
Lock ==
  /\ open' = FALSE
  /\ imp' = Disconnected
  /\ op' = IF op.at = "dialog" THEN NoOp ELSE [op EXCEPT !.live = (op.at = "idle")]

Locks ==
  /\ win /\ (open \/ op.at # "idle")
  /\ Lock
  /\ UNCHANGED <<v1Vars, store, aside, mem, saver, job, win>>

WindowOpens ==
  /\ ~win /\ op.at = "idle"
  /\ win' = TRUE
  /\ UNCHANGED <<v1Vars, store, aside, open, mem, op, saver, job, imp>>

WindowCloses ==
  /\ win
  /\ win' = FALSE
  /\ Lock
  /\ UNCHANGED <<v1Vars, store, aside, mem, saver, job>>

Unlock ==
  /\ win /\ ~open /\ store.obj # 0 /\ op.at = "idle"
  /\ open' = TRUE
  /\ UNCHANGED <<v1Vars, store, aside, mem, op, saver, job, win, imp>>

-----------------------------------------------------------------------------
(* _save_setting_keys: of the whole file, the keys an op changes are new *)

Saves(w, keys, new) ==
  saver' = [saver EXCEPT ![w] = [@ EXCEPT !.at = "load", !.keys = keys, !.new = new]]

Merged(s) == [pending |-> IF "pending" \in s.keys THEN s.new.pending ELSE s.full.pending,
              oc      |-> IF "oc" \in s.keys THEN s.new.oc ELSE s.full.oc]

Loads(w) ==
  /\ saver[w].at = "load"
  /\ saver' = [saver EXCEPT ![w] = [@ EXCEPT !.at = "save", !.full = store.set]]
  /\ UNCHANGED <<v1Vars, store, aside, open, mem, op, job, win, imp>>

Stores(w) ==
  /\ saver[w].at = "save"
  /\ store' = [store EXCEPT !.set = Merged(saver[w])]
  /\ saver' = [saver EXCEPT ![w] = NoSave]
  /\ UNCHANGED <<v1Vars, aside, open, mem, op, job, win, imp>>

\* run_store refuses a call while a wipe waits for another one: the save is given up.
Refused(w) ==
  /\ saver[w].at # "idle" /\ ~open
  /\ saver' = [saver EXCEPT ![w] = NoSave]
  /\ UNCHANGED <<v1Vars, store, aside, open, mem, op, job, win, imp>>

\* op_settings, op_features and op_autofill_enable: they change other keys of the same file.
SettingsOp ==
  /\ win /\ open /\ saver["settings"].at = "idle"
  /\ Saves("settings", {}, Default)
  /\ UNCHANGED <<v1Vars, store, aside, open, mem, op, job, win, imp>>

-----------------------------------------------------------------------------
(* The window's ops *)

MigrationPending == mem.migrating \/ store.set.pending
HoldsNothing     == store.data = 0
StartedOver      == store.obj # 0 /\ (MigrationPending \/ HoldsNothing)

Dialog(name, oc) ==
  /\ win /\ op.at = "idle" /\ saver["op"].at = "idle"
  /\ op' = [NoOp EXCEPT !.name = name, !.at = "dialog", !.retry = StartedOver, !.oc = oc]
  /\ UNCHANGED <<v1Vars, store, aside, open, mem, saver, job, win, imp>>

AsksBegin == (store.obj = 0 \/ StartedOver) /\ Dialog("begin", NoCopy)
AsksReset == StartedOver /\ Dialog("reset", NoCopy)
AsksPurge == mem.oc # NoCopy /\ Dialog("purge", mem.oc)

Asked(name) == op.name = name /\ op.at = "dialog"

Dismissed ==
  /\ op.at = "dialog"
  /\ op' = NoOp
  /\ UNCHANGED <<v1Vars, store, aside, open, mem, saver, job, win, imp>>

\* The op's own lock: it ends what is open and goes on.
LocksFirst(name) ==
  /\ open' = FALSE
  /\ imp' = IF open \/ name = "reset" THEN Disconnected ELSE imp
  /\ op' = [op EXCEPT !.at = "make"]

\* What was decided before the dialog is not looked at again.
BeginApproved ==
  /\ Asked("begin") /\ store.obj < MaxStores
  /\ LocksFirst("begin")
  /\ UNCHANGED <<v1Vars, store, aside, mem, saver, job, win>>

ResetApproved ==
  /\ Asked("reset") /\ store.obj < MaxStores
  /\ \/ /\ StartedOver
        /\ LocksFirst("reset")
        /\ mem' = [mem EXCEPT !.migrating = FALSE]
     \/ /\ ~StartedOver
        /\ op' = NoOp
        /\ UNCHANGED <<open, imp, mem>>
  /\ UNCHANGED <<v1Vars, store, aside, saver, job, win>>

\* reset() keeps what the old store holds; create() refuses one that is there.
Makes == op.name = "reset" \/ op.retry \/ store.obj = 0
KeptAside == IF store.data = 0 THEN aside ELSE aside \cup {store.data}

Made ==
  /\ op.at = "make" /\ Makes
  /\ store' = [obj |-> store.obj + 1, data |-> 0, set |-> Default]
  /\ aside' = KeptAside
  /\ open' = op.live
  /\ \/ /\ op.live
        /\ op' = [op EXCEPT !.at = "save"]
        /\ Saves("op", {"pending"}, [Default EXCEPT !.pending = (op.name = "begin")])
        /\ mem' = [mem EXCEPT !.migrating = (op.name = "begin")]
     \/ /\ ~op.live
        /\ op' = NoOp
        /\ UNCHANGED <<saver, mem>>
  /\ UNCHANGED <<v1Vars, job, win, imp>>

MakeRefused ==
  /\ op.at = "make"
  /\ op' = NoOp
  /\ UNCHANGED <<v1Vars, store, aside, open, mem, saver, job, win, imp>>

\* A ticket is redeemed by a process the window starts, or by none.
Starts(i, pc, oc) ==
  imp' = [imp EXCEPT ![i] = [NoImp EXCEPT !.pc = pc, !.conn = TRUE, !.oc = oc]]

Unused == {i \in Importer : ~Live(i) /\ job[i] = NoJob /\ saver[i] = NoSave}

Tickets(pc, oc) ==
  \/ UNCHANGED imp
  \/ Unused # {} /\ Starts(CHOOSE i \in Unused : TRUE, pc, oc)

OpSaved ==
  /\ op.at = "save" /\ saver["op"].at = "idle"
  /\ op' = NoOp
  /\ \/ op.live /\ op.name = "begin" /\ UNCHANGED open /\ Tickets("read", NoCopy)
     \/ op.live /\ op.name = "reset" /\ UNCHANGED <<open, imp>>
     \/ ~op.live /\ open' = FALSE /\ UNCHANGED imp
  /\ UNCHANGED <<v1Vars, store, aside, mem, saver, job, win>>

PurgeApproved ==
  /\ Asked("purge")
  /\ op' = NoOp
  /\ Tickets("purge", op.oc)
  /\ UNCHANGED <<v1Vars, store, aside, open, mem, saver, job, win>>

Abandon ==
  /\ win /\ op.at = "idle" /\ saver["op"].at = "idle"
  /\ store.obj # 0 /\ MigrationPending
  /\ imp' = Disconnected
  /\ mem' = [mem EXCEPT !.migrating = FALSE]
  /\ Saves("op", {"pending"}, Default)
  /\ UNCHANGED <<v1Vars, store, aside, open, op, job, win>>

-----------------------------------------------------------------------------
(* op_import_commit and op_purge_result in the daemon *)

\* Once it has its answer, or nobody waits for it, a job is nothing.
JobGoes(i, at) == job' = [job EXCEPT ![i] = IF at = "idle" THEN NoJob ELSE [@ EXCEPT !.at = at]]

\* import_v1 never merges, and the object it was queued for must still have its keys.
Imports(i) == open /\ job[i].obj = store.obj /\ store.data = 0

\* import_v1 on the worker, and what the handler notes of it in the session once it is back.
JobImports(i) ==
  /\ job[i].at = "import" /\ Imports(i)
  /\ store' = [store EXCEPT !.data = job[i].oc.ver]
  /\ mem' = [mem EXCEPT !.migrating = FALSE, !.oc = job[i].oc]
  /\ Saves(i, {"pending", "oc"}, [Default EXCEPT !.oc = job[i].oc])
  /\ JobGoes(i, "save")
  /\ UNCHANGED <<v1Vars, aside, open, op, win, imp>>

\* A mismatch, a wrong key, a locked or replaced store.
JobFails(i) ==
  /\ job[i].at = "import"
  /\ JobGoes(i, IF imp[i].conn THEN "error" ELSE "idle")
  /\ UNCHANGED <<v1Vars, store, aside, open, mem, op, saver, win, imp>>

\* The save failed or not, the answer is that the import is done; a closed connection gets none.
JobReplies(i) ==
  /\ job[i].at = "save" /\ saver[i].at = "idle"
  /\ JobGoes(i, IF imp[i].conn THEN "ok" ELSE "idle")
  /\ UNCHANGED <<v1Vars, store, aside, open, mem, op, saver, win, imp>>

-----------------------------------------------------------------------------
(* pear-migrate *)

Goes(i, pc) == imp' = [imp EXCEPT ![i].pc = pc]

\* Files that are yours, regular and not too large: read_v1.
Readable == cur # 0

\* op_import_file takes the chunks of each file in order, while the connection lasts.
TakesFiles(i) == imp[i].conn

ReadV1(i) ==
  /\ imp[i].pc = "read"
  /\ imp' = IF Readable /\ TakesFiles(i)
            THEN [imp EXCEPT ![i] = [@ EXCEPT !.pc = "key", !.read = cur]]
            ELSE Ended(i)
  /\ UNCHANGED <<v1Vars, daemonVars, win>>

\* A keyring vault has its key in an unlocked keyring or nowhere; "Check again" reads it again.
InKeyring == key = "here"

\* A passphrase vault has the agent's PEEK, and then the passphrase typed in the window.
PeekedOrTyped == kind = "passphrase"

\* op_import_key tries each against check.enc or vault.enc.
KeyVerifies(i) == imp[i].conn /\ (InKeyring \/ PeekedOrTyped)

SendKey(i) ==
  /\ imp[i].pc = "key" /\ KeyVerifies(i)
  /\ Goes(i, "commit")
  /\ UNCHANGED <<v1Vars, daemonVars, win>>

\* No key, the window's cancel or the end of its pipe, or a connection that is gone.
NoKey(i) ==
  /\ imp[i].pc = "key"
  /\ imp' = Ended(i)
  /\ UNCHANGED <<v1Vars, daemonVars, win>>

Free == {b \in Backup : backup[b] = 0}
ChooseBackupDir == CHOOSE b \in Free : TRUE

Commit(i) ==
  /\ imp[i].pc = "commit" /\ imp[i].conn /\ Free # {}
  /\ LET oc == [dir |-> ChooseBackupDir, ver |-> imp[i].read] IN
     /\ imp' = [imp EXCEPT ![i] = [@ EXCEPT !.pc = "wait", !.read = 0, !.oc = oc]]
     /\ job' = [job EXCEPT ![i] = [at |-> IF open THEN "import" ELSE "error",
                                   obj |-> store.obj, oc |-> oc]]
  /\ UNCHANGED <<v1Vars, store, aside, open, mem, op, saver, win>>

\* Mutant: any answer.
CleansAnyway(i) == job[i].at \in {"ok", "error"}

\* Verified: only an answer that says so lets anything of the old install change.
Cleans(i) == job[i].at = "ok"

CommitAnswered(i) ==
  /\ imp[i].pc = "wait" /\ job[i].at \in {"ok", "error"}
  /\ imp' = IF Cleans(i) THEN [imp EXCEPT ![i].pc = "retire"] ELSE Ended(i)
  /\ JobGoes(i, "idle")
  /\ UNCHANGED <<v1Vars, store, aside, open, mem, op, saver, win>>

\* Mutant: a connection that ended is not noticed before the request.
UnansweredLate(i) ==
  /\ imp[i].pc = "wait" /\ job[i].at \notin {"ok", "error"}
  /\ imp' = Ended(i)
  /\ UNCHANGED <<v1Vars, daemonVars, win>>

\* The connection ended, 600 s passed, or no name is free.
Unanswered(i) ==
  /\ \/ imp[i].pc = "commit" /\ (~imp[i].conn \/ Free = {})
     \/ imp[i].pc = "wait" /\ job[i].at \notin {"ok", "error"}
  /\ imp' = Ended(i)
  /\ UNCHANGED <<v1Vars, daemonVars, win>>

\* purge_secret_service: a locked keyring keeps its items.
KeyLeft == IF key = "here" THEN "gone" ELSE key

\* stop_legacy_units may fail for some.
UnitsLeft == {alive, FALSE}

\* retire_agent, the stray key files, the keyring's items and the units.
Retire(i) ==
  /\ imp[i].pc = "retire"
  /\ key' = KeyLeft
  /\ alive' \in UnitsLeft
  /\ Goes(i, "rename")
  /\ UNCHANGED <<kind, cur, latest, backup, parts, daemonVars, win>>

\* The rest of the old install is touched only if the rename went through.
Rename(i) ==
  /\ imp[i].pc = "rename"
  /\ LET d == imp[i].oc.dir IN
     \/ /\ cur # 0 /\ backup[d] = 0
        /\ backup' = [backup EXCEPT ![d] = cur] /\ cur' = 0
        /\ Goes(i, "manifests")
     \/ /\ imp' = Ended(i)
        /\ UNCHANGED <<backup, cur>>
  /\ UNCHANGED <<kind, latest, key, alive, parts, daemonVars, win>>

\* legacy_manifest_matches, with the consent given in the window; a rename may fail.
MovesManifest == BOOLEAN

\* move_legacy_manifests: into the backup.
MoveManifests(i) ==
  /\ imp[i].pc = "manifests"
  /\ \E moves \in MovesManifest : parts' = IF moves THEN parts \ {"manifest"} ELSE parts
  /\ Goes(i, "app")
  /\ UNCHANGED <<kind, cur, latest, backup, key, alive, daemonVars, win>>

\* retire_1x_app: if the launcher of 2.0 is there, and of 1.x only what was released.
RetireApp(i) ==
  /\ imp[i].pc = "app"
  /\ parts' \in {parts, parts \ {"app"}}
  /\ imp' = Ended(i)
  /\ UNCHANGED <<kind, cur, latest, backup, key, alive, daemonVars, win>>

\* Mutant: the digest is not compared.
UnlinksAnyway(i) == backup[imp[i].oc.dir] # 0

\* do_purge: a file goes only while it is still what was imported.
Unlinks(i) == backup[imp[i].oc.dir] = imp[i].oc.ver

Purge(i) ==
  /\ imp[i].pc = "purge"
  /\ backup' = IF Unlinks(i) THEN [backup EXCEPT ![imp[i].oc.dir] = 0] ELSE backup
  /\ Goes(i, "report")
  /\ UNCHANGED <<kind, cur, latest, key, alive, parts, daemonVars, win>>

PurgeResult(i) ==
  /\ imp[i].pc = "report"
  /\ \/ /\ imp[i].conn /\ saver[i].at = "idle"
        /\ mem' = [mem EXCEPT !.oc = NoCopy]
        /\ Saves(i, {"oc"}, Default)
        /\ imp' = Ended(i)
     \/ /\ ~imp[i].conn
        /\ imp' = Ended(i)
        /\ UNCHANGED <<mem, saver>>
  /\ UNCHANGED <<v1Vars, store, aside, open, op, job, win>>

-----------------------------------------------------------------------------

ImporterSteps(i) ==
  \/ ReadV1(i) \/ SendKey(i) \/ Commit(i) \/ CommitAnswered(i) \/ Unanswered(i)
  \/ Retire(i) \/ Rename(i) \/ MoveManifests(i) \/ RetireApp(i)
  \/ Purge(i) \/ PurgeResult(i)

DaemonSteps ==
  \/ \E w \in Writer : Loads(w) \/ Stores(w) \/ Refused(w)
  \/ Made \/ MakeRefused \/ OpSaved
  \/ \E i \in Importer : JobImports(i) \/ JobFails(i) \/ JobReplies(i)

WindowSteps ==
  \/ WindowOpens \/ WindowCloses \/ Unlock \/ SettingsOp
  \/ AsksBegin \/ AsksReset \/ AsksPurge \/ Dismissed
  \/ BeginApproved \/ ResetApproved \/ PurgeApproved \/ Abandon

Next ==
  \/ OldChanges \/ KeyringUnlocks \/ Restart \/ Locks
  \/ \E i \in Importer : ImporterDies(i) \/ NoKey(i) \/ ImporterSteps(i)
  \/ WindowSteps \/ DaemonSteps

\* A running process and the daemon take their next step; nobody need open a window or answer.
\* Without its window an importer that waits for a key reads the end of its pipe.
Fairness ==
  /\ \A i \in Importer : WF_vars(ImporterSteps(i)) /\ WF_vars(~win /\ NoKey(i))
  /\ WF_vars(DaemonSteps)

Spec == Init /\ [][Next]_vars /\ Fairness

-----------------------------------------------------------------------------
(* Properties *)

Held == {store.data} \cup aside \cup {cur} \cup {backup[b] : b \in Backup}

\* The newest version 1.x wrote is always somewhere: in ~/.config/icp, in a backup, imported in
\* the store, or in a store moved aside.  1.x may write while the import runs, the rename then
\* moves a version nobody imported, and the purge must keep it (do_purge's digests).
NothingLost == latest \in Held

\* "On any mismatch nothing is kept and 1.x stays as it was": the key leaves the keyring, the
\* units stop and the directory is renamed only after some import was verified, and the app and
\* its manifests go only after its vault did, whatever is cancelled, locked, restarted or
\* started twice.
OldStaysUntilImported ==
  [][/\ (key' = "gone" /\ key # "gone") \/ (alive /\ ~alive') \/ (cur # 0 /\ cur' = 0)
          => store.data # 0 \/ aside # {}
     /\ parts' # parts => cur = 0 /\ (store.data # 0 \/ aside # {})]_vars

\* The importer of a window that is gone ends: its pipe ends, its connection is closed by the
\* lock, and no request of it waits for ever.
EndsWithWindow == \A i \in Importer : (~win /\ Live(i)) ~> (win \/ ~Live(i))

\* README, "Rollback": until the old copy is deleted, 1.3.2 opens it again.
RollbackOpens == \A b \in Backup : backup[b] # 0 => (kind = "passphrase" \/ key # "gone")

\* op_migrate_begin: a store it starts over "holds keys and nothing else".
StartedOverHeldNothing == aside = {}

=============================================================================
