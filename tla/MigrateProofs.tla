------------------------------ MODULE MigrateProofs ------------------------------
(***************************************************************************)
(* The theorems on Migrate, for any importers, backup names, versions and  *)
(* stores: the newest version of the vault is always held somewhere, and   *)
(* the old install is taken apart only after a verified import.            *)
(*                                                                         *)
(* Both rest on what the records of an import are worth.  Copied: a copy   *)
(* that anything may purge - the session's, the settings', a save's under  *)
(* way, a dialog's, an importer's - has its version in the store or in a   *)
(* store moved aside, although the settings are loaded and saved in two    *)
(* steps and a store may be replaced between them.  Verified: an importer  *)
(* past its commit, and a job that will say yes, have an import behind     *)
(* them, and what is only done after the rename has it behind it.          *)
(***************************************************************************)
EXTENDS Migrate, TLAPS

Savers  == [at : {"idle", "load", "save"}, keys : SUBSET {"pending", "oc"},
            new : Settings, full : Settings]
Ops     == [name : {"none", "begin", "reset", "purge"}, at : {"idle", "dialog", "make", "save"},
            retry : BOOLEAN, oc : Copies, live : BOOLEAN]
Imps    == [pc : {"none", "read", "key", "commit", "wait", "retire", "rename", "manifests", "app",
                  "purge", "report"},
            conn : BOOLEAN, read : Versions \cup {0}, oc : Copies]
Jobs    == [at : {"idle", "import", "save", "ok", "error"}, obj : 0..MaxStores, oc : Copies]

Types ==
  /\ kind \in {"passphrase", "keyring"} /\ key \in {"here", "locked", "gone"}
  /\ cur \in Versions \cup {0} /\ latest \in Versions
  /\ backup \in [Backup -> Versions \cup {0}] /\ aside \subseteq Versions
  /\ store \in [obj : 0..MaxStores, data : Versions \cup {0}, set : Settings]
  /\ mem \in [migrating : BOOLEAN, oc : Copies]
  /\ alive \in BOOLEAN /\ win \in BOOLEAN /\ parts \subseteq {"app", "manifest"}
  /\ open \in BOOLEAN /\ (open => store.obj # 0)
  /\ op \in Ops /\ (op.at = "make" => store.obj < MaxStores)
  /\ saver \in [Writer -> Savers]
  /\ imp \in [Importer -> Imps] /\ job \in [Importer -> Jobs]

(* The versions an import brought in, and 0 for no copy. *)
Imported == {0, store.data} \cup aside

Copied ==
  /\ {mem.oc.ver, op.oc.ver, store.set.oc.ver} \subseteq Imported
  /\ \A w \in Writer : {saver[w].full.oc.ver, saver[w].new.oc.ver} \subseteq Imported
  /\ \A i \in Importer : imp[i].pc = "purge" => imp[i].oc.ver \in Imported

(* An import commits what it has read, under a name for its backup. *)
HasRead ==
  \A i \in Importer : /\ imp[i].pc \in {"key", "commit"} => imp[i].read # 0
                      /\ imp[i].pc \in {"wait", "retire", "rename"} => imp[i].oc.dir \in Backup
                      /\ job[i].at = "import" => job[i].oc.ver # 0

Verified ==
  \A i \in Importer :
    /\ imp[i].pc \in {"retire", "rename", "manifests", "app"} \/ job[i].at \in {"save", "ok"}
         => store.data # 0 \/ aside # {}
    /\ imp[i].pc \in {"manifests", "app"} => cur = 0

Inv == Types /\ NothingLost /\ Copied /\ HasRead /\ Verified

-----------------------------------------------------------------------------
(* The records *)

LEMMA Copy0 == NoCopy \in Copies /\ NoCopy.ver = 0 /\ Default \in Settings /\ Default.oc = NoCopy
BY DEF NoCopy, Copies, Default, Settings

LEMMA Nulls ==
  /\ NoOp \in Ops /\ NoOp.oc.ver = 0 /\ NoOp.at = "idle"
  /\ NoSave \in Savers /\ NoSave.full.oc.ver = 0 /\ NoSave.new.oc.ver = 0
  /\ NoJob \in Jobs /\ NoJob.at = "idle"
  /\ NoImp \in Imps /\ NoImp.pc = "none"
<1>1. NoOp \in Ops /\ NoOp.oc.ver = 0 /\ NoOp.at = "idle"
  BY Copy0 DEF NoOp, Ops
<1>2. NoSave \in Savers /\ NoSave.full.oc.ver = 0 /\ NoSave.new.oc.ver = 0
  BY Copy0 DEF NoSave, Savers
<1>3. NoJob \in Jobs /\ NoJob.at = "idle"
  BY Copy0, MigrateAssumption DEF NoJob, Jobs
<1>4. NoImp \in Imps /\ NoImp.pc = "none"
  BY Copy0 DEF NoImp, Imps
<1> QED BY <1>1, <1>2, <1>3, <1>4

LEMMA TypesMean == Types => TypeOK
<1> SUFFICES ASSUME Types PROVE TypeOK
  OBVIOUS
<1>1. op.at \in {"idle", "dialog", "make", "save"} /\ op.oc \in Copies
  BY DEF Ops, Types
<1>2. ASSUME NEW w \in Writer PROVE saver[w].at \in {"idle", "load", "save"} /\ saver[w].full \in Settings
  BY DEF Savers, Types
<1>3. ASSUME NEW i \in Importer
      PROVE  /\ imp[i].oc \in Copies /\ imp[i].conn \in BOOLEAN
             /\ job[i].at \in {"idle", "import", "save", "ok", "error"}
  BY DEF Imps, Jobs, Types
<1> QED BY <1>1, <1>2, <1>3 DEF Types, TypeOK

LEMMA InvInit == Init => Inv
<1> SUFFICES ASSUME Init PROVE Inv
  OBVIOUS
<1>1. Types
  <2>1. op \in Ops /\ saver \in [Writer -> Savers] /\ imp \in [Importer -> Imps] /\ job \in [Importer -> Jobs]
    BY Nulls DEF Init
  <2>2. /\ kind \in {"passphrase", "keyring"} /\ key \in {"here", "locked", "gone"}
        /\ cur \in Versions \cup {0} /\ latest \in Versions
        /\ backup \in [Backup -> Versions \cup {0}] /\ aside \subseteq Versions
    BY MigrateAssumption DEF Init, Versions
  <2>3. store \in [obj : 0..MaxStores, data : Versions \cup {0}, set : Settings]
    BY Copy0, MigrateAssumption DEF Init
  <2>4. mem \in [migrating : BOOLEAN, oc : Copies]
    BY Copy0 DEF Init
  <2>5. alive \in BOOLEAN /\ open = FALSE /\ win \in BOOLEAN /\ op.at # "make"
        /\ parts \subseteq {"app", "manifest"}
    BY Nulls DEF Init
  <2> QED BY <2>1, <2>2, <2>3, <2>4, <2>5 DEF Types
<1>2. NothingLost
  BY DEF Init, NothingLost, Held
<1>3. Copied /\ HasRead /\ Verified
  BY Copy0, Nulls DEF Init, Copied, Imported, HasRead, Verified
<1> QED BY <1>1, <1>2, <1>3 DEF Inv

-----------------------------------------------------------------------------
(* Outside and in pear-migrate: the daemon's part stays as it is *)

Past(pc) == pc \in {"retire", "rename", "manifests", "app"}

(* An importer's own step keeps the invariant, if what it goes on as is     *)
(* worth what the invariant says, and no version is dropped.                *)
LEMMA ImporterHolds ==
  ASSUME Inv, UNCHANGED <<kind, latest, daemonVars, win>>,
         NEW i \in Importer, NEW n \in Imps, imp' = [imp EXCEPT ![i] = n],
         key' \in {"here", "locked", "gone"}, alive' \in BOOLEAN, parts' \subseteq {"app", "manifest"},
         cur' \in {cur, 0}, backup' \in [Backup -> Versions \cup {0}], NothingLost',
         n.pc # "purge",
         n.pc \in {"key", "commit"} => n.read # 0,
         n.pc \in {"wait", "retire", "rename"} => n.oc.dir \in Backup,
         Past(n.pc) => store.data # 0 \/ aside # {},
         n.pc \in {"manifests", "app"} => cur' = 0
  PROVE  Inv'
<1> USE DEF daemonVars
<1>1. Types'
  BY DEF Inv, Types
<1>2. ASSUME NEW j \in Importer PROVE imp'[j] = IF j = i THEN n ELSE imp[j]
  BY DEF Inv, Types
<1>3. Copied'
  BY <1>2 DEF Inv, Copied, Imported
<1>4. HasRead'
  BY <1>2 DEF Inv, HasRead
<1>5. Verified'
  BY <1>2 DEF Inv, Verified, Past
<1> QED BY <1>1, <1>3, <1>4, <1>5 DEF Inv

LEMMA EndedHolds ==
  ASSUME Inv, NEW i \in Importer, imp' = Ended(i), UNCHANGED <<v1Vars, daemonVars, win>>
  PROVE  Inv'
<1>1. NothingLost'
  BY DEF Inv, NothingLost, Held, v1Vars, daemonVars
<1> QED
  BY <1>1, Nulls, ImporterHolds DEF Ended, v1Vars, Past, Inv, Types

LEMMA OutsideHolds ==
  ASSUME Inv, OldChanges \/ KeyringUnlocks
  PROVE  Inv'
<1> USE DEF daemonVars
<1>1. Types'
  <2>1. cur' \in Versions \cup {0} /\ latest' \in Versions /\ key' \in {"here", "locked", "gone"}
    BY MigrateAssumption DEF Inv, Types, OldChanges, KeyringUnlocks, Versions
  <2>2. UNCHANGED <<kind, backup, alive, parts, daemonVars, win, imp>>
    BY DEF OldChanges, KeyringUnlocks
  <2> QED BY <2>1, <2>2 DEF Inv, Types
<1>2. NothingLost'
  BY DEF Inv, NothingLost, Held, OldChanges, KeyringUnlocks
<1>3. Copied' /\ HasRead'
  BY DEF Inv, Copied, HasRead, Imported, OldChanges, KeyringUnlocks
<1>4. Verified'
  BY DEF Inv, Verified, OldChanges, KeyringUnlocks
<1> QED BY <1>1, <1>2, <1>3, <1>4 DEF Inv

(* The steps of an importer that change nothing but its own state. *)
LEMMA QuietHolds ==
  ASSUME Inv, NEW i \in Importer,
         ImporterDies(i) \/ NoKey(i) \/ ReadV1(i) \/ SendKey(i) \/ Unanswered(i)
  PROVE  Inv'
<1>1. CASE imp' = Ended(i) /\ UNCHANGED <<v1Vars, daemonVars, win>>
  BY <1>1, EndedHolds
<1>2. NothingLost' /\ imp[i] \in Imps
  BY DEF Inv, Types, NothingLost, Held, v1Vars, daemonVars, ImporterDies, NoKey, ReadV1, SendKey, Unanswered
<1>3. CASE ReadV1(i) /\ Readable /\ imp' # Ended(i)
  <2> DEFINE n == [imp[i] EXCEPT !.pc = "key", !.read = cur]
  <2>1. imp' = [imp EXCEPT ![i] = n]
    BY <1>3 DEF ReadV1
  <2>2. n \in Imps /\ n.pc = "key" /\ n.read # 0
    BY <1>2, <1>3 DEF Imps, Readable, Inv, Types
  <2> HIDE DEF n
  <2> QED
    BY <1>2, <1>3, <2>1, <2>2, ImporterHolds DEF ReadV1, v1Vars, Past, Inv, Types
<1>4. CASE SendKey(i)
  <2> DEFINE n == [imp[i] EXCEPT !.pc = "commit"]
  <2>1. imp' = [imp EXCEPT ![i] = n]
    BY <1>2, <1>4 DEF SendKey, Goes, Imps
  <2>2. n \in Imps /\ n.pc = "commit" /\ n.read # 0
    BY <1>2, <1>4 DEF Imps, SendKey, Inv, HasRead
  <2> HIDE DEF n
  <2> QED
    BY <1>2, <1>4, <2>1, <2>2, ImporterHolds DEF SendKey, v1Vars, Past, Inv, Types
<1> QED
  BY <1>1, <1>3, <1>4 DEF ImporterDies, NoKey, ReadV1, Unanswered

(* The old install is retired: only what the importer has behind it. *)
LEMMA RetiresHolds ==
  ASSUME Inv, NEW i \in Importer, Retire(i) \/ Rename(i) \/ MoveManifests(i) \/ RetireApp(i)
  PROVE  Inv'
<1>1. imp[i] \in Imps /\ Past(imp[i].pc) /\ (store.data # 0 \/ aside # {})
  BY DEF Inv, Types, Verified, Past, Retire, Rename, MoveManifests, RetireApp
<1>2. ASSUME NEW pc \in {"rename", "manifests", "app"} PROVE [imp[i] EXCEPT !.pc = pc] \in Imps
  BY <1>1 DEF Imps
<1>3. CASE Retire(i)
  <2>1. NothingLost'
    BY <1>3 DEF Inv, NothingLost, Held, Retire, daemonVars
  <2>2. imp' = [imp EXCEPT ![i] = [imp[i] EXCEPT !.pc = "rename"]]
    BY <1>1, <1>3 DEF Retire, Goes, Imps
  <2>3. [imp[i] EXCEPT !.pc = "rename"].pc = "rename" /\ [imp[i] EXCEPT !.pc = "rename"].oc.dir \in Backup
    BY <1>1, <1>3 DEF Imps, Retire, Inv, HasRead
  <2> QED
    BY <1>1, <1>2, <1>3, <2>1, <2>2, <2>3, ImporterHolds DEF Retire, KeyLeft, UnitsLeft, Past, Inv, Types
<1>4. CASE Rename(i)
  <2> DEFINE d == imp[i].oc.dir
  <2>1. CASE imp' = Ended(i) /\ UNCHANGED <<backup, cur>>
    BY <1>4, <2>1, EndedHolds DEF Rename, v1Vars
  <2>2. CASE /\ cur # 0 /\ backup[d] = 0
             /\ backup' = [backup EXCEPT ![d] = cur] /\ cur' = 0
             /\ Goes(i, "manifests")
    <3>1. backup' \in [Backup -> Versions \cup {0}]
      BY <2>2 DEF Inv, Types
    <3>2. NothingLost'
      <4>1. d \in Backup
        BY <1>4 DEF Rename, Inv, HasRead
      <4> QED BY <4>1, <2>2, <1>4 DEF Inv, Types, NothingLost, Held, Rename, daemonVars
    <3>3. imp' = [imp EXCEPT ![i] = [imp[i] EXCEPT !.pc = "manifests"]]
      BY <1>1, <2>2 DEF Goes, Imps
    <3>4. [imp[i] EXCEPT !.pc = "manifests"].pc = "manifests"
      BY <1>1 DEF Imps
    <3> QED
      BY <1>1, <1>2, <1>4, <2>2, <3>1, <3>2, <3>3, <3>4, ImporterHolds DEF Rename, Past, Inv, Types
  <2> QED BY <1>4, <2>1, <2>2 DEF Rename
<1>5. CASE MoveManifests(i)
  <2>1. NothingLost' /\ cur = 0
    BY <1>5 DEF Inv, NothingLost, Held, MoveManifests, daemonVars, Verified
  <2>2. imp' = [imp EXCEPT ![i] = [imp[i] EXCEPT !.pc = "app"]]
    BY <1>1, <1>5 DEF MoveManifests, Goes, Imps
  <2>3. [imp[i] EXCEPT !.pc = "app"].pc = "app"
    BY <1>1 DEF Imps
  <2>4. parts' \subseteq {"app", "manifest"}
    BY <1>5 DEF MoveManifests, Inv, Types
  <2> QED
    BY <1>1, <1>2, <1>5, <2>1, <2>2, <2>3, <2>4, ImporterHolds DEF MoveManifests, Past, Inv, Types
<1>6. CASE RetireApp(i)
  <2>1. NothingLost'
    BY <1>6 DEF Inv, NothingLost, Held, RetireApp, daemonVars
  <2>2. imp' = [imp EXCEPT ![i] = NoImp] /\ parts' \subseteq {"app", "manifest"}
    BY <1>6 DEF RetireApp, Ended, Inv, Types
  <2> QED
    BY <1>6, <2>1, <2>2, Nulls, ImporterHolds DEF RetireApp, Past, Inv, Types
<1> QED BY <1>3, <1>4, <1>5, <1>6

(* do_purge takes only a version that was imported.                         *)
LEMMA PurgeHolds ==
  ASSUME Inv, NEW i \in Importer, Purge(i)
  PROVE  Inv'
<1>1. imp[i] \in Imps /\ imp[i].oc.ver \in Imported
  BY DEF Inv, Types, Copied, Purge
<1> DEFINE n == [imp[i] EXCEPT !.pc = "report"]
<1>2. n \in Imps /\ n.pc = "report" /\ imp' = [imp EXCEPT ![i] = n]
  BY <1>1 DEF Imps, Purge, Goes
<1>3. backup' \in [Backup -> Versions \cup {0}]
  BY DEF Purge, Inv, Types
<1>4. NothingLost'
  <2>1. UNCHANGED <<store, aside, cur, latest>>
    BY DEF Purge, daemonVars
  <2>2. CASE backup' = backup
    BY <2>1, <2>2 DEF Inv, NothingLost, Held
  <2>3. CASE Unlinks(i) /\ backup' = [backup EXCEPT ![imp[i].oc.dir] = 0]
    <3>1. ASSUME NEW b \in Backup, backup[b] = latest PROVE latest \in Imported \/ backup'[b] = latest
      BY <1>1, <2>3, <3>1 DEF Unlinks, Inv, Types
    <3>2. latest # 0
      BY MigrateAssumption DEF Inv, Types, Versions
    <3> QED BY <2>1, <3>1, <3>2 DEF Inv, NothingLost, Held, Imported
  <2> QED BY <2>2, <2>3 DEF Purge
<1> HIDE DEF n
<1> QED
  BY <1>2, <1>3, <1>4, ImporterHolds DEF Purge, Past, Inv, Types

-----------------------------------------------------------------------------
(* The daemon *)

LEMMA Saving ==
  ASSUME Types, NEW w \in Writer, NEW keys \in SUBSET {"pending", "oc"}, NEW new \in Settings,
         Saves(w, keys, new)
  PROVE  /\ saver' \in [Writer -> Savers]
         /\ \A v \in Writer : saver'[v].full = saver[v].full
                              /\ saver'[v].new \in {saver[v].new, new}
<1> DEFINE s == [saver[w] EXCEPT !.at = "load", !.keys = keys, !.new = new]
<1>1. saver' = [saver EXCEPT ![w] = s]
  BY DEF Saves
<1>2. s \in Savers /\ s.full = saver[w].full /\ s.new = new
  BY DEF Types, Savers
<1> HIDE DEF s
<1> QED BY <1>1, <1>2 DEF Types

LEMMA ReportHolds ==
  ASSUME Inv, NEW i \in Importer, PurgeResult(i)
  PROVE  Inv'
<1>1. CASE imp' = Ended(i) /\ UNCHANGED <<mem, saver>>
  BY <1>1, EndedHolds DEF PurgeResult, daemonVars
<1>2. CASE mem' = [mem EXCEPT !.oc = NoCopy] /\ Saves(i, {"oc"}, Default) /\ imp' = Ended(i)
  <2>0. UNCHANGED <<v1Vars, store, aside, open, op, job, win>>
    BY DEF PurgeResult
  <2>1. /\ saver' \in [Writer -> Savers]
        /\ \A v \in Writer : saver'[v].full = saver[v].full /\ saver'[v].new \in {saver[v].new, Default}
    BY <1>2, Copy0, Saving DEF Inv, Writer
  <2>2. imp' \in [Importer -> Imps] /\ \A j \in Importer : imp'[j] \in {imp[j], NoImp}
    BY <1>2, Nulls DEF Ended, Inv, Types
  <2>3. mem' \in [migrating : BOOLEAN, oc : Copies] /\ mem'.oc.ver = 0
    BY <1>2, Copy0 DEF Inv, Types
  <2>4. Types'
    BY <2>0, <2>1, <2>2, <2>3 DEF Inv, Types, v1Vars
  <2>5. NothingLost'
    BY <2>0 DEF Inv, NothingLost, Held, v1Vars
  <2>6. Copied'
    BY <2>0, <2>1, <2>2, <2>3, Copy0, Nulls DEF Inv, Copied, Imported
  <2>7. HasRead' /\ Verified'
    BY <2>0, <2>2, Nulls DEF Inv, HasRead, Verified, v1Vars
  <2> QED BY <2>4, <2>5, <2>6, <2>7 DEF Inv
<1> QED BY <1>1, <1>2 DEF PurgeResult

(* What an importer and its job in the daemon go on as. *)
LEMMA JobHolds ==
  ASSUME Inv, UNCHANGED <<v1Vars, store, aside, open, mem, op, saver, win>>,
         NEW i \in Importer, NEW n \in Imps, NEW k \in Jobs,
         imp' = [imp EXCEPT ![i] = n], job' = [job EXCEPT ![i] = k],
         n = imp[i] \/ n.pc \in {"none", "wait", "retire"},
         n.pc \in {"wait", "retire"} => n.oc.dir \in Backup,
         k.at \in {"save", "ok"} \/ n.pc = "retire" => store.data # 0 \/ aside # {},
         k.at = "import" => k.oc.ver # 0
  PROVE  Inv'
<1>1. \A j \in Importer : /\ imp'[j] = IF j = i THEN n ELSE imp[j]
                          /\ job'[j] = IF j = i THEN k ELSE job[j]
  BY DEF Inv, Types
<1>2. imp' \in [Importer -> Imps] /\ job' \in [Importer -> Jobs]
  BY DEF Inv, Types
<1>3. Types'
  BY <1>2 DEF Inv, Types, v1Vars
<1>4. NothingLost'
  BY DEF Inv, NothingLost, Held, v1Vars
<1>5. Copied'
  BY <1>1 DEF Inv, Copied, Imported
<1>6. HasRead'
  BY <1>1 DEF Inv, HasRead
<1>7. Verified'
  BY <1>1 DEF Inv, Verified, v1Vars
<1> QED BY <1>3, <1>4, <1>5, <1>6, <1>7 DEF Inv

LEMMA CommitsHold ==
  ASSUME Inv, NEW i \in Importer, Commit(i) \/ CommitAnswered(i)
  PROVE  Inv'
<1>1. imp[i] \in Imps /\ job[i] \in Jobs
  BY DEF Inv, Types
<1>2. CASE Commit(i)
  <2> DEFINE oc == [dir |-> ChooseBackupDir, ver |-> imp[i].read]
  <2> DEFINE n == [imp[i] EXCEPT !.pc = "wait", !.read = 0, !.oc = oc]
  <2> DEFINE k == [at |-> IF open THEN "import" ELSE "error", obj |-> store.obj, oc |-> oc]
  <2>1. ChooseBackupDir \in Backup
    BY <1>2 DEF Commit, ChooseBackupDir, Free
  <2>2. oc \in Copies /\ imp[i].read # 0
    BY <1>1, <1>2, <2>1 DEF Copies, Imps, Commit, Inv, HasRead
  <2>3. n \in Imps /\ n.pc = "wait" /\ n.oc.dir \in Backup
    BY <1>1, <2>1, <2>2 DEF Imps
  <2>4. k \in Jobs /\ k.at \in {"import", "error"} /\ k.oc.ver # 0
    BY <2>2 DEF Jobs, Inv, Types
  <2>5. imp' = [imp EXCEPT ![i] = n] /\ job' = [job EXCEPT ![i] = k]
    BY <1>2 DEF Commit
  <2>6. UNCHANGED <<v1Vars, store, aside, open, mem, op, saver, win>>
    BY <1>2 DEF Commit
  <2> HIDE DEF n, k, oc
  <2> QED BY <2>3, <2>4, <2>5, <2>6, JobHolds
<1>3. CASE CommitAnswered(i)
  <2> DEFINE n == IF Cleans(i) THEN [imp[i] EXCEPT !.pc = "retire"] ELSE NoImp
  <2>1. imp' = [imp EXCEPT ![i] = n]
    BY <1>1, <1>3 DEF CommitAnswered, Ended, Imps
  <2>2. job' = [job EXCEPT ![i] = NoJob]
    BY <1>3 DEF CommitAnswered, JobGoes
  <2>3. n \in Imps /\ n.pc \in {"none", "retire"} /\ (n.pc = "retire" => n.oc.dir \in Backup)
    BY <1>1, <1>3, Nulls DEF Imps, CommitAnswered, Inv, HasRead
  <2>4. n.pc = "retire" => store.data # 0 \/ aside # {}
    BY Nulls DEF Cleans, Inv, Verified
  <2> HIDE DEF n
  <2> QED BY <1>3, <2>1, <2>2, <2>3, <2>4, Nulls, JobHolds DEF CommitAnswered
<1> QED BY <1>2, <1>3

LEMMA JobEndsHold ==
  ASSUME Inv, NEW i \in Importer, JobFails(i) \/ JobReplies(i)
  PROVE  Inv'
<1>1. imp[i] \in Imps /\ job[i] \in Jobs /\ imp' = [imp EXCEPT ![i] = imp[i]]
  BY DEF Inv, Types, JobFails, JobReplies
<1>2. ASSUME NEW at \in {"ok", "error"} PROVE [job[i] EXCEPT !.at = at] \in Jobs /\ [job[i] EXCEPT !.at = at].at = at
  BY <1>1 DEF Jobs
<1>3. PICK k \in Jobs : /\ job' = [job EXCEPT ![i] = k] /\ k.at \in {"idle", "ok", "error"}
                        /\ k.at = "ok" => JobReplies(i)
  <2>1. CASE job' = [job EXCEPT ![i] = NoJob]
    BY <2>1, Nulls
  <2>2. CASE JobFails(i) /\ job' = [job EXCEPT ![i] = [job[i] EXCEPT !.at = "error"]]
    BY <1>2, <2>2
  <2>3. CASE JobReplies(i) /\ job' = [job EXCEPT ![i] = [job[i] EXCEPT !.at = "ok"]]
    BY <1>2, <2>3
  <2> QED
    BY <1>1, <2>1, <2>2, <2>3 DEF JobFails, JobReplies, JobGoes, Jobs
<1>4. k.at = "ok" => store.data # 0 \/ aside # {}
  BY <1>3 DEF JobReplies, Inv, Verified
<1>5. imp[i].pc \in {"wait", "retire"} => imp[i].oc.dir \in Backup
  BY DEF Inv, HasRead
<1>6. imp[i].pc = "retire" => store.data # 0 \/ aside # {}
  BY DEF Inv, Verified
<1> QED BY <1>1, <1>3, <1>4, <1>5, <1>6, JobHolds DEF JobFails, JobReplies

(* A later import, a replaced store and a save put nothing out of sight.    *)
LEMMA ImportHolds ==
  ASSUME Inv, NEW i \in Importer, JobImports(i)
  PROVE  Inv'
<1> DEFINE oc == job[i].oc
<1> DEFINE k == [job[i] EXCEPT !.at = "save"]
<1>1. job[i] \in Jobs /\ oc \in Copies /\ oc.ver # 0 /\ store.data = 0
  BY DEF Inv, Types, Jobs, HasRead, JobImports, Imports
<1>2. oc.ver \in Versions
  BY <1>1 DEF Copies
<1>3. UNCHANGED <<v1Vars, aside, open, op, win, imp>>
  BY DEF JobImports
<1>4. store' \in [obj : 0..MaxStores, data : Versions \cup {0}, set : Settings]
      /\ store'.data = oc.ver /\ store'.set = store.set /\ store'.obj = store.obj
  BY <1>2 DEF JobImports, Inv, Types
<1>5. mem' \in [migrating : BOOLEAN, oc : Copies] /\ mem'.oc = oc
  BY <1>1 DEF JobImports, Inv, Types
<1>6. [Default EXCEPT !.oc = oc] \in Settings /\ [Default EXCEPT !.oc = oc].oc = oc
  BY <1>1, Copy0 DEF Settings
<1>7. /\ saver' \in [Writer -> Savers]
      /\ \A v \in Writer : saver'[v].full = saver[v].full
                           /\ saver'[v].new \in {saver[v].new, [Default EXCEPT !.oc = oc]}
  BY <1>6, Saving DEF JobImports, Inv, Writer
<1>8. k \in Jobs /\ k.at = "save" /\ job' = [job EXCEPT ![i] = k]
  BY <1>1 DEF Jobs, JobImports, JobGoes
<1>9. \A j \in Importer : job'[j] = IF j = i THEN k ELSE job[j]
  BY <1>8 DEF Inv, Types
<1> HIDE DEF oc, k
<1>10. Types'
  BY <1>3, <1>4, <1>5, <1>7, <1>8 DEF Inv, Types, v1Vars
<1>11. NothingLost'
  <2>1. latest # 0
    BY MigrateAssumption DEF Inv, Types, Versions
  <2> QED BY <1>1, <1>3, <2>1 DEF Inv, NothingLost, Held, v1Vars
<1>12. Copied'
  <2>1. Imported \subseteq Imported' /\ oc.ver \in Imported'
    BY <1>1, <1>3, <1>4 DEF Imported
  <2>2. {mem'.oc.ver, op'.oc.ver, store'.set.oc.ver} \subseteq Imported'
    BY <1>3, <1>4, <1>5, <2>1 DEF Inv, Copied
  <2>3. ASSUME NEW w \in Writer PROVE {saver'[w].full.oc.ver, saver'[w].new.oc.ver} \subseteq Imported'
    BY <1>6, <1>7, <2>1 DEF Inv, Copied
  <2>4. \A j \in Importer : imp'[j].pc = "purge" => imp'[j].oc.ver \in Imported'
    BY <1>3, <2>1 DEF Inv, Copied
  <2> QED BY <2>2, <2>3, <2>4 DEF Copied
<1>13. HasRead'
  BY <1>3, <1>8, <1>9 DEF Inv, HasRead
<1>14. Verified'
  BY <1>1, <1>3, <1>4 DEF Inv, Verified, v1Vars
<1> QED BY <1>10, <1>11, <1>12, <1>13, <1>14 DEF Inv

-----------------------------------------------------------------------------
(* The window's ops, locks and the settings: the 1.x install and the        *)
(* imported versions stay as they are                                       *)

Memories == [migrating : BOOLEAN, oc : Copies]

(* An importer goes on as it was, is none, or has just been started. *)
Follows(i) ==
  \/ imp'[i].pc = imp[i].pc /\ imp'[i].read = imp[i].read /\ imp'[i].oc = imp[i].oc
  \/ imp'[i].pc \in {"none", "read"}
  \/ imp'[i].pc = "purge" /\ imp'[i].oc.ver \in Imported

LEMMA ControlHolds ==
  ASSUME Inv, UNCHANGED <<v1Vars, store, aside>>,
         open' \in BOOLEAN, open' => store.obj # 0, win' \in BOOLEAN,
         mem' \in Memories, mem'.oc.ver \in Imported,
         op' \in Ops, op'.oc.ver \in Imported, op'.at = "make" => store.obj < MaxStores,
         saver' \in [Writer -> Savers],
         \A w \in Writer : {saver'[w].full.oc.ver, saver'[w].new.oc.ver} \subseteq Imported,
         imp' \in [Importer -> Imps], \A i \in Importer : Follows(i),
         job' \in [Importer -> Jobs], \A i \in Importer : job'[i] \in {job[i], NoJob}
  PROVE  Inv'
<1>1. Types'
  BY DEF Inv, Types, v1Vars, Memories
<1>2. NothingLost'
  BY DEF Inv, NothingLost, Held, v1Vars
<1>3. Copied'
  BY DEF Inv, Copied, Imported, Follows
<1>4. HasRead'
  BY Nulls DEF Inv, HasRead, Follows
<1>5. Verified'
  BY Nulls DEF Inv, Verified, Follows, v1Vars
<1> QED BY <1>1, <1>2, <1>3, <1>4, <1>5 DEF Inv

(* What the invariant says of the variables a step leaves alone. *)
LEMMA Standing ==
  ASSUME Inv
  PROVE  /\ open \in BOOLEAN /\ (open => store.obj # 0) /\ win \in BOOLEAN
         /\ mem \in Memories /\ mem.oc.ver \in Imported
         /\ op \in Ops /\ op.oc.ver \in Imported /\ (op.at = "make" => store.obj < MaxStores)
         /\ saver \in [Writer -> Savers]
         /\ \A w \in Writer : {saver[w].full.oc.ver, saver[w].new.oc.ver} \subseteq Imported
         /\ imp \in [Importer -> Imps] /\ job \in [Importer -> Jobs]
         /\ store.set \in Settings /\ store.set.oc.ver \in Imported /\ 0 \in Imported
BY DEF Inv, Types, Copied, Memories, Imported

LEMMA Withdrawn ==
  ASSUME Inv, imp' \in {imp, Disconnected}
  PROVE  imp' \in [Importer -> Imps] /\ \A i \in Importer : Follows(i)
<1>1. \A i \in Importer : imp[i] \in Imps
  BY Standing
<1>2. CASE imp' = imp
  BY <1>2, Standing DEF Follows
<1>3. CASE imp' = Disconnected
  BY <1>1, <1>3 DEF Disconnected, Imps, Follows
<1> QED BY <1>2, <1>3

LEMMA Ticketed ==
  ASSUME Inv, NEW pc \in {"read", "purge"}, NEW oc \in Copies, oc.ver \in Imported, Tickets(pc, oc)
  PROVE  imp' \in [Importer -> Imps] /\ \A i \in Importer : Follows(i)
<1>1. CASE imp' = imp
  BY <1>1, Withdrawn
<1>2. ASSUME NEW i, i \in Unused, Starts(i, pc, oc)
      PROVE  imp' \in [Importer -> Imps] /\ \A j \in Importer : Follows(j)
  <2> DEFINE n == [NoImp EXCEPT !.pc = pc, !.conn = TRUE, !.oc = oc]
  <2>1. n \in Imps /\ n.pc = pc /\ n.oc = oc
    BY Nulls DEF Imps
  <2>2. imp' = [imp EXCEPT ![i] = n] /\ i \in Importer
    BY <1>2 DEF Starts, Unused
  <2> HIDE DEF n
  <2>3. \A j \in Importer : imp'[j] = IF j = i THEN n ELSE imp[j]
    BY <2>2, Standing
  <2> QED BY <2>1, <2>2, <2>3, Standing DEF Follows
<1> QED BY <1>1, <1>2 DEF Tickets

(* A restart, a lock, a window that comes or goes, and the key in the store. *)
LEMMA LocksHold ==
  ASSUME Inv, Restart \/ Locks \/ WindowOpens \/ WindowCloses \/ Unlock
  PROVE  Inv'
<1> USE Standing
<1>1. CASE Restart
  <2>1. mem' \in Memories /\ mem'.oc.ver \in Imported
    BY <1>1 DEF Restart, Memories, Settings
  <2>2. /\ saver' \in [Writer -> Savers]
        /\ \A w \in Writer : {saver'[w].full.oc.ver, saver'[w].new.oc.ver} \subseteq Imported
    BY <1>1, Nulls DEF Restart
  <2>3. job' \in [Importer -> Jobs] /\ \A i \in Importer : job'[i] \in {job[i], NoJob}
    BY <1>1, Nulls DEF Restart
  <2>4. imp' \in [Importer -> Imps] /\ \A i \in Importer : Follows(i)
    BY <1>1, Withdrawn DEF Restart
  <2> QED BY <1>1, <2>1, <2>2, <2>3, <2>4, Nulls, ControlHolds DEF Restart
<1>2. CASE Locks \/ WindowCloses
  <2>1. op' \in Ops /\ op'.oc.ver \in Imported /\ (op'.at = "make" => store.obj < MaxStores)
    BY <1>2, Nulls DEF Locks, WindowCloses, Lock, Ops
  <2>2. imp' \in [Importer -> Imps] /\ \A i \in Importer : Follows(i)
    BY <1>2, Withdrawn DEF Locks, WindowCloses, Lock
  <2>3. UNCHANGED <<v1Vars, store, aside, mem, saver, job>> /\ open' = FALSE /\ win' \in BOOLEAN
    BY <1>2 DEF Locks, WindowCloses, Lock
  <2> QED BY <2>1, <2>2, <2>3, ControlHolds
<1>3. CASE WindowOpens \/ Unlock
  <2>1. imp' \in [Importer -> Imps] /\ \A i \in Importer : Follows(i)
    BY <1>3, Withdrawn DEF WindowOpens, Unlock
  <2>2. UNCHANGED <<v1Vars, store, aside, mem, op, saver, job>>
    BY <1>3 DEF WindowOpens, Unlock
  <2>3. open' \in {open, TRUE} /\ win' \in {win, TRUE} /\ (open' = TRUE => open = TRUE \/ store.obj # 0)
    BY <1>3 DEF WindowOpens, Unlock
  <2> QED BY <2>1, <2>2, <2>3, ControlHolds
<1> QED BY <1>1, <1>2, <1>3

(* A dialog asked and answered, and an op that goes on or ends. *)
LEMMA OpsHold ==
  ASSUME Inv, \/ AsksBegin \/ AsksReset \/ AsksPurge \/ Dismissed \/ MakeRefused
              \/ BeginApproved \/ ResetApproved \/ PurgeApproved \/ OpSaved
  PROVE  Inv'
<1> USE Standing
<1>1. UNCHANGED <<v1Vars, store, aside, saver, job, win>>
  BY DEF AsksBegin, AsksReset, AsksPurge, Dialog, Dismissed, MakeRefused,
         BeginApproved, ResetApproved, PurgeApproved, OpSaved
<1>2. mem' \in Memories /\ mem'.oc.ver \in Imported
  BY DEF AsksBegin, AsksReset, AsksPurge, Dialog, Dismissed, MakeRefused,
         BeginApproved, ResetApproved, PurgeApproved, OpSaved, Memories
<1>3. open' \in {open, FALSE}
  BY DEF AsksBegin, AsksReset, AsksPurge, Dialog, Dismissed, MakeRefused,
         BeginApproved, ResetApproved, PurgeApproved, OpSaved, LocksFirst
<1>4. op' \in Ops /\ op'.oc.ver \in Imported
  <2>1. ASSUME NEW name \in {"begin", "reset", "purge"}, NEW oc \in Copies, oc.ver \in Imported,
               Dialog(name, oc)
        PROVE  op' \in Ops /\ op'.oc.ver \in Imported
    <3>1. StartedOver \in BOOLEAN
      BY DEF StartedOver, MigrationPending, HoldsNothing
    <3>2. op' = [name |-> name, at |-> "dialog", retry |-> StartedOver, oc |-> oc, live |-> TRUE]
      BY <2>1 DEF Dialog, NoOp
    <3> HIDE DEF StartedOver
    <3> QED BY <2>1, <3>1, <3>2 DEF Ops
  <2>2. CASE AsksBegin \/ AsksReset \/ AsksPurge
    BY <2>1, <2>2, Copy0 DEF AsksBegin, AsksReset, AsksPurge, Memories
  <2>3. CASE op' = NoOp
    BY <2>3, Nulls
  <2>4. CASE op' = [op EXCEPT !.at = "make"]
    BY <2>4 DEF Ops
  <2> QED
    BY <2>2, <2>3, <2>4 DEF Dismissed, MakeRefused, BeginApproved, ResetApproved, PurgeApproved,
       OpSaved, LocksFirst
<1>5. imp' \in [Importer -> Imps] /\ \A i \in Importer : Follows(i)
  <2>1. CASE imp' \in {imp, Disconnected}
    BY <2>1, Withdrawn
  <2>2. CASE Tickets("read", NoCopy)
    BY <2>2, Copy0, Ticketed
  <2>3. CASE Tickets("purge", op.oc)
    BY <2>3, Ticketed DEF Ops
  <2> QED
    BY <2>1, <2>2, <2>3 DEF AsksBegin, AsksReset, AsksPurge, Dialog, Dismissed, MakeRefused,
       BeginApproved, ResetApproved, PurgeApproved, OpSaved, LocksFirst
<1>6. open' \in BOOLEAN /\ (open' => store.obj # 0) /\ win' \in BOOLEAN
  <2>1. CASE open' = open
    BY <1>1, <2>1
  <2>2. CASE open' = FALSE
    BY <1>1, <2>2
  <2> QED BY <1>3, <2>1, <2>2
<1>7. op'.at = "make" => store.obj < MaxStores
  <2>1. CASE op' = NoOp
    BY <2>1, Nulls
  <2>2. CASE op'.at = "dialog"
    BY <2>2
  <2> QED
    BY <2>1, <2>2 DEF AsksBegin, AsksReset, AsksPurge, Dialog, NoOp, Dismissed, MakeRefused,
       BeginApproved, ResetApproved, PurgeApproved, OpSaved
<1> QED BY <1>1, <1>2, <1>4, <1>5, <1>6, <1>7, ControlHolds

(* A save is asked for, loads the settings, or is given up. *)
LEMMA SavesHold ==
  ASSUME Inv, SettingsOp \/ Abandon \/ \E w \in Writer : Loads(w) \/ Refused(w)
  PROVE  Inv'
<1> USE Standing
<1>1. UNCHANGED <<v1Vars, store, aside, open, op, job, win>>
  BY DEF SettingsOp, Abandon, Loads, Refused
<1>2. mem' \in Memories /\ mem'.oc.ver \in Imported
  BY DEF SettingsOp, Abandon, Loads, Refused, Memories
<1>3. imp' \in [Importer -> Imps] /\ \A i \in Importer : Follows(i)
  BY Withdrawn DEF SettingsOp, Abandon, Loads, Refused
<1>4. /\ saver' \in [Writer -> Savers]
      /\ \A w \in Writer : {saver'[w].full.oc.ver, saver'[w].new.oc.ver} \subseteq Imported
  <2>1. ASSUME NEW w \in Writer, NEW keys \in SUBSET {"pending", "oc"}, Saves(w, keys, Default)
        PROVE  /\ saver' \in [Writer -> Savers]
               /\ \A v \in Writer : {saver'[v].full.oc.ver, saver'[v].new.oc.ver} \subseteq Imported
    <3>1. /\ saver' \in [Writer -> Savers]
          /\ \A v \in Writer : saver'[v].full = saver[v].full /\ saver'[v].new \in {saver[v].new, Default}
      BY <2>1, Saving, Copy0 DEF Inv
    <3> QED BY <3>1, Copy0
  <2>2. CASE SettingsOp \/ Abandon
    BY <2>1, <2>2 DEF SettingsOp, Abandon, Writer
  <2>3. ASSUME NEW w \in Writer, Loads(w)
        PROVE  /\ saver' \in [Writer -> Savers]
               /\ \A v \in Writer : {saver'[v].full.oc.ver, saver'[v].new.oc.ver} \subseteq Imported
    <3> DEFINE s == [saver[w] EXCEPT !.at = "save", !.full = store.set]
    <3>1. s \in Savers /\ s.full = store.set /\ s.new = saver[w].new
      BY DEF Savers
    <3>2. saver' = [saver EXCEPT ![w] = s]
      BY <2>3 DEF Loads
    <3> HIDE DEF s
    <3> QED BY <3>1, <3>2
  <2>4. ASSUME NEW w \in Writer, Refused(w)
        PROVE  /\ saver' \in [Writer -> Savers]
               /\ \A v \in Writer : {saver'[v].full.oc.ver, saver'[v].new.oc.ver} \subseteq Imported
    BY <2>4, Nulls DEF Refused
  <2> QED BY <2>2, <2>3, <2>4
<1> QED BY <1>1, <1>2, <1>3, <1>4, ControlHolds

(* A save writes the whole file over whatever store there is by now: what   *)
(* it names is imported, in that store or in one moved aside.               *)
LEMMA StoresHold ==
  ASSUME Inv, NEW w \in Writer, Stores(w)
  PROVE  Inv'
<1> USE Standing
<1>1. UNCHANGED <<v1Vars, aside, open, mem, op, job, win, imp>>
  BY DEF Stores
<1>2. Merged(saver[w]) \in Settings /\ Merged(saver[w]).oc.ver \in Imported
  BY DEF Merged, Settings, Savers
<1>3. /\ store' \in [obj : 0..MaxStores, data : Versions \cup {0}, set : Settings]
      /\ store'.data = store.data /\ store'.obj = store.obj /\ store'.set.oc.ver \in Imported
  BY <1>2 DEF Stores, Inv, Types
<1>4. saver' \in [Writer -> Savers] /\ \A v \in Writer : saver'[v] \in {saver[v], NoSave}
  BY Nulls DEF Stores
<1>5. Types'
  BY <1>1, <1>3, <1>4 DEF Inv, Types, v1Vars
<1>6. NothingLost'
  BY <1>1, <1>3 DEF Inv, NothingLost, Held, v1Vars
<1>7. Copied'
  BY <1>1, <1>3, <1>4, Nulls DEF Inv, Copied, Imported
<1>8. HasRead' /\ Verified'
  BY <1>1, <1>3 DEF Inv, HasRead, Verified, v1Vars
<1> QED BY <1>5, <1>6, <1>7, <1>8 DEF Inv

(* A new store, its predecessor's data aside. *)
LEMMA MadeHolds ==
  ASSUME Inv, Made
  PROVE  Inv'
<1> USE Standing
<1>1. UNCHANGED <<v1Vars, job, win, imp>>
  BY DEF Made
<1>2. store' = [obj |-> store.obj + 1, data |-> 0, set |-> Default] /\ aside' = KeptAside
  BY DEF Made
<1>3. Imported \subseteq Imported' /\ 0 \in Imported' /\ aside' \subseteq Versions
  BY <1>2 DEF Imported, KeptAside, Inv, Types
<1>4. store.data # 0 \/ aside # {} => aside' # {}
  BY <1>2 DEF KeptAside
<1>5. mem' \in Memories /\ mem'.oc.ver \in Imported
  BY DEF Made, Memories
<1>6. op' \in Ops /\ op'.oc.ver \in Imported
  BY Nulls DEF Made, Ops
<1>7. [Default EXCEPT !.pending = (op.name = "begin")] \in Settings
      /\ [Default EXCEPT !.pending = (op.name = "begin")].oc = NoCopy
  BY Copy0 DEF Settings
<1>8. /\ saver' \in [Writer -> Savers]
      /\ \A w \in Writer : {saver'[w].full.oc.ver, saver'[w].new.oc.ver} \subseteq Imported
  <2> DEFINE new == [Default EXCEPT !.pending = (op.name = "begin")]
  <2>1. CASE Saves("op", {"pending"}, new)
    <3>1. new \in Settings /\ new.oc.ver = 0
      BY <1>7, Copy0
    <3> HIDE DEF new
    <3>2. /\ saver' \in [Writer -> Savers]
          /\ \A v \in Writer : saver'[v].full = saver[v].full /\ saver'[v].new \in {saver[v].new, new}
      BY <2>1, <3>1, Saving DEF Inv, Writer
    <3> QED BY <3>1, <3>2
  <2>2. CASE saver' = saver
    BY <2>2
  <2> QED BY <2>1, <2>2 DEF Made
<1>9. NothingLost'
  <2>1. latest # 0
    BY MigrateAssumption DEF Inv, Types, Versions
  <2> QED BY <1>1, <1>2, <2>1 DEF Inv, NothingLost, Held, v1Vars, KeptAside
<1>10. Copied'
  <2>1. {mem'.oc.ver, op'.oc.ver, store'.set.oc.ver} \subseteq Imported'
    BY <1>2, <1>3, <1>5, <1>6, Copy0
  <2>2. ASSUME NEW w \in Writer PROVE {saver'[w].full.oc.ver, saver'[w].new.oc.ver} \subseteq Imported'
    BY <1>3, <1>8
  <2>3. \A j \in Importer : imp'[j].pc = "purge" => imp'[j].oc.ver \in Imported'
    BY <1>1, <1>3 DEF Inv, Copied
  <2> QED BY <2>1, <2>2, <2>3 DEF Copied
<1>11. HasRead' /\ Verified'
  BY <1>1, <1>2, <1>4 DEF Inv, HasRead, Verified, v1Vars
<1>12. store' \in [obj : 0..MaxStores, data : Versions \cup {0}, set : Settings]
  BY <1>2, Copy0, MigrateAssumption DEF Made, Inv, Types
<1>13. open' \in BOOLEAN /\ store'.obj # 0 /\ op'.at \in {"save", "idle"}
  BY <1>2, Nulls DEF Made, Ops, Inv, Types
<1>14. Types'
  BY <1>1, <1>3, <1>5, <1>6, <1>8, <1>12, <1>13 DEF Inv, Types, Memories, v1Vars
<1> QED BY <1>9, <1>10, <1>11, <1>14 DEF Inv

-----------------------------------------------------------------------------

LEMMA InvNext == Inv /\ [Next]_vars => Inv'
<1> SUFFICES ASSUME Inv, [Next]_vars PROVE Inv'
  OBVIOUS
<1>1. CASE UNCHANGED vars
  <2>1. UNCHANGED <<v1Vars, daemonVars, win, imp>>
    BY <1>1 DEF vars
  <2>2. imp' \in [Importer -> Imps] /\ \A i \in Importer : Follows(i)
    BY <2>1, Withdrawn
  <2> QED BY <2>1, <2>2, Standing, ControlHolds DEF daemonVars
<1>2. ASSUME NEW i \in Importer, ImporterDies(i) \/ NoKey(i) \/ ImporterSteps(i) PROVE Inv'
  BY <1>2, QuietHolds, RetiresHolds, PurgeHolds, ReportHolds, CommitsHold DEF ImporterSteps
<1>3. CASE WindowSteps
  BY <1>3, LocksHold, OpsHold, SavesHold DEF WindowSteps
<1>4. CASE DaemonSteps
  BY <1>4, SavesHold, StoresHold, MadeHolds, OpsHold, ImportHolds, JobEndsHold DEF DaemonSteps
<1>5. CASE OldChanges \/ KeyringUnlocks \/ Restart \/ Locks
  BY <1>5, OutsideHolds, LocksHold
<1> QED BY <1>1, <1>2, <1>3, <1>4, <1>5 DEF Next

(* Every variable keeps its type (and a call its room for one more store). *)
THEOREM MigrateTypeOK == Spec => []TypeOK
<1>1. Inv => TypeOK
  BY TypesMean DEF Inv
<1> QED BY <1>1, InvInit, InvNext, PTL DEF Spec

(* The newest version 1.x wrote is always in ~/.config/icp, in a backup, in *)
(* the store or in one moved aside (do_purge's digests, the rename, the     *)
(* stores that are started over), whatever dies, restarts or is locked.     *)
THEOREM MigrateNothingLost == Spec => []NothingLost
<1>1. Inv => NothingLost
  BY DEF Inv
<1> QED BY <1>1, InvInit, InvNext, PTL DEF Spec

(* The keyring's key, the units, the vault's directory, the app and its     *)
(* manifests are touched only after a verified import, and the last two     *)
(* only after the rename (client/migrate.py run_import).                    *)
THEOREM MigrateOldStaysUntilImported == Spec => OldStaysUntilImported
<1> DEFINE Step ==
      /\ (key' = "gone" /\ key # "gone") \/ (alive /\ ~alive') \/ (cur # 0 /\ cur' = 0)
           => store.data # 0 \/ aside # {}
      /\ parts' # parts => cur = 0 /\ (store.data # 0 \/ aside # {})
<1>1. Inv /\ [Next]_vars => [Step]_vars
  <2> SUFFICES ASSUME Inv, Next PROVE Step
    OBVIOUS
  <2>1. CASE UNCHANGED v1Vars
    BY <2>1 DEF v1Vars
  <2>2. ASSUME NEW i \in Importer, Retire(i) \/ Rename(i) \/ MoveManifests(i) \/ RetireApp(i)
        PROVE  Step
    <3>1. store.data # 0 \/ aside # {}
      BY <2>2 DEF Inv, Verified, Retire, Rename, MoveManifests, RetireApp
    <3>2. parts' # parts => cur = 0
      BY <2>2 DEF Inv, Verified, Retire, Rename, MoveManifests, RetireApp
    <3> QED BY <3>1, <3>2
  <2>3. CASE OldChanges
    <3>1. cur' # 0
      BY <2>3, MigrateAssumption DEF OldChanges, Inv, Types, Versions
    <3> QED BY <2>3, <3>1 DEF OldChanges
  <2>4. CASE KeyringUnlocks
    BY <2>4 DEF KeyringUnlocks
  <2>5. ASSUME NEW i \in Importer, Purge(i) PROVE Step
    BY <2>5 DEF Purge
  <2>6. ASSUME NEW i \in Importer, ImporterDies(i) \/ NoKey(i) \/ ImporterSteps(i) PROVE Step
    BY <2>1, <2>2, <2>5, <2>6 DEF ImporterSteps, ImporterDies, NoKey, ReadV1, SendKey, Commit,
       CommitAnswered, Unanswered, PurgeResult
  <2>7. CASE Restart \/ Locks
    BY <2>1, <2>7 DEF Restart, Locks
  <2>8. CASE WindowSteps
    BY <2>1, <2>8 DEF WindowSteps, WindowOpens, WindowCloses, Unlock, SettingsOp, AsksBegin, AsksReset,
       AsksPurge, Dialog, Dismissed, BeginApproved, ResetApproved, PurgeApproved, Abandon
  <2>9. CASE DaemonSteps
    BY <2>1, <2>9 DEF DaemonSteps, Loads, Stores, Refused, Made, MakeRefused, OpSaved, JobImports,
       JobFails, JobReplies
  <2> HIDE DEF Step
  <2> QED BY <2>3, <2>4, <2>6, <2>7, <2>8, <2>9 DEF Next
<1> QED BY <1>1, InvInit, InvNext, PTL DEF Spec, OldStaysUntilImported

=============================================================================
