------------------------------ MODULE StoreTree ------------------------------
(***************************************************************************)
(* One user's store on disk: the directory u<uid> of                       *)
(* /var/lib/pear-passwords and the ones beside it, through create(),       *)
(* reset(), unlock(), reseal_if_tpm_available() and import_v1() of         *)
(* vstore/__init__.py and vstore/importer.py, each cut where a crash can   *)
(* cut it, and the handlers that decide which of them may run.             *)
(*                                                                         *)
(* A key pair RK_list / SK_secret is a number; what is sealed under it     *)
(* carries the number.  A blob carries the TPM it is bound to, 0 for none  *)
(* (a host-only blob), and opens while that TPM is there and turned on; a  *)
(* TPM that is cleared is another one.                                     *)
(*                                                                         *)
(* A store call holds the store's mutex, so there is one at a time; a lock *)
(* takes effect when it returns.  Assumed: the fsync of a directory, a     *)
(* rename and an unlink do not fail; a write, the TPM, the exchange of two *)
(* trees and the removals whose failure the code only logs may.            *)
(***************************************************************************)
EXTENDS Integers, Sequences, FiniteSets, Functions

CONSTANTS
  Item,          \* entries a sync or the 1.x vault may bring
  Aside,         \* bound: the names a tree can be moved aside to
  MaxKey,        \* bound: key pairs ever made
  MaxTpm,        \* bound: TPMs, one after the other
  RollbackStops  \* a crash may cut a rollback short

ASSUME BoundsAssumption == MaxKey \in Nat \ {0} /\ MaxTpm \in Nat \ {0}
ASSUME SwitchAssumption == RollbackStops \in BOOLEAN
ASSUME AsideAssumption == Aside \cap {"main", "rotate", "tmp"} = {}

VARIABLES
  disk,       \* the trees that exist, by name: "main" is u<uid>
  tpm,        \* the TPM, from 1
  on,         \* the firmware has it turned on
  key,        \* the keys in memory, 0 while locked
  doc,        \* the entries UserStore._doc knows
  refused,    \* UserStore._fail of the last unlock: "no", "missing" or "lost"
  migrating,  \* Session.migrating
  used,       \* key pairs made so far
  pc,         \* what the running call does next
  new,        \* the key pair it is to leave in memory
  todo,       \* the files it has still to write, rename or unlink
  goal,       \* the op it runs for
  spot        \* where it moved u<uid>

mem  == <<key, doc, refused, migrating>>
args == <<new, todo, goal, spot>>
chip == <<tpm, on>>
vars == <<disk, chip, mem, used, pc, args>>

-----------------------------------------------------------------------------
(* Trees *)

With(f, x, v) == [y \in DOMAIN f \cup {x} |-> IF y = x THEN v ELSE f[y]]
Without(f, x) == Restrict(f, DOMAIN f \ {x})

Blobs  == {"list", "secret", "keys"}          \* list.cred, secret.cred, keys.json
InTurn == <<"list", "secret", "keys">>
NoMeta == [key |-> 0, items |-> {}]

\* keys, prev: the blobs and their .prev; pub, meta, session: 0 while there is no such file.
EmptyTree == [keys |-> << >>, prev |-> << >>, pub |-> 0, meta |-> NoMeta, session |-> 0,
              boxes |-> {}, pending |-> FALSE]

Seal(k)  == [key |-> k, tpm |-> IF on THEN tpm ELSE 0]
Opens(b) == b.tpm = 0 \/ (on /\ b.tpm = tpm)

Has(p)     == p \in DOMAIN disk
main       == disk["main"]
SetMain(t) == With(disk, "main", t)
Remove(p)  == Without(disk, p)
Move(p, q) == With(Without(disk, p), q, disk[p])

\* UserStore._has_keys()
HasKeys == Has("main") /\ DOMAIN main.keys \cap {"list", "keys"} # {}

\* Mutant of KeepsNothing: it looks for a session only.
KeepsNoSession(t) == t.session = 0

KeepsNothing(t) == t.session = 0 /\ t.boxes = {}

Boxes(k, S) == {[key |-> k, item |-> i] : i \in S}

BlobType(b) == b.key \in 1..MaxKey /\ b.tpm \in 0..MaxTpm
TreeType(t) ==
  /\ DOMAIN t.keys \subseteq Blobs /\ \A f \in DOMAIN t.keys : BlobType(t.keys[f])
  /\ DOMAIN t.prev \subseteq Blobs /\ \A f \in DOMAIN t.prev : BlobType(t.prev[f])
  /\ t.pub \in 0..MaxKey /\ t.session \in 0..MaxKey
  /\ t.meta \in [key : 0..MaxKey, items : SUBSET Item]
  /\ t.boxes \subseteq [key : 1..MaxKey, item : Item]
  /\ t.pending \in BOOLEAN

Steps == {"idle", "aside", "discard", "create", "write", "undo", "mark", "unseal", "rollback",
          "load", "drop", "meta", "build", "copy", "swap", "swapped",
          "convert", "away", "into", "imported", "clear"}

TypeOK ==
  /\ DOMAIN disk \subseteq {"main", "rotate", "tmp"} \cup Aside
  /\ \A p \in DOMAIN disk : TreeType(disk[p])
  /\ tpm \in 1..MaxTpm /\ on \in BOOLEAN
  /\ key \in 0..MaxKey /\ doc \subseteq Item
  /\ refused \in {"no", "missing", "lost"} /\ migrating \in BOOLEAN
  /\ used \in 0..MaxKey /\ new \in 0..used
  /\ pc \in Steps
  /\ todo \in Seq({"list", "secret", "pub", "meta", "keys"})
  /\ goal \in {"none", "migrate", "reset", "signin"}
  /\ spot \in Aside \cup {"none"}

\* A store whose blobs a version before key rotation re-sealed in place: the same keys, bound
\* to the TPM, with the host-only ones beside them until an unlock succeeds.
Resealed(S) ==
  [EmptyTree EXCEPT !.keys = [f \in Blobs |-> [key |-> 1, tpm |-> 1]],
                    !.prev = [f \in Blobs |-> [key |-> 1, tpm |-> 0]],
                    !.pub = 1, !.meta = [key |-> 1, items |-> S], !.session = 1,
                    !.boxes = Boxes(1, S)]

Init ==
  /\ \/ disk = << >> /\ used = 0
     \/ disk = With(<< >>, "main", Resealed(Item)) /\ used = 1
  /\ tpm = 1 /\ on \in BOOLEAN
  /\ key = 0 /\ doc = {}
  /\ refused = "no" /\ migrating = FALSE
  /\ pc = "idle"
  /\ new = 0 /\ todo = << >> /\ goal = "none" /\ spot = "none"

\* The call returns.
Return == pc' = "idle" /\ new' = 0 /\ todo' = << >> /\ goal' = "none" /\ spot' = "none"

-----------------------------------------------------------------------------
(* Which op may replace the store *)

\* UserStore.state() = "empty"
IsEmpty == key = 0 /\ refused = "no" /\ ~HasKeys

\* handlers._migration_pending(), handlers._holds_nothing()
MigrationPending == migrating \/ (Has("main") /\ main.pending)
HoldsNothing     == Has("main") => KeepsNothing(main) \/ (~HasKeys /\ main.session = 0)

Replaceable == ~IsEmpty /\ (MigrationPending \/ HoldsNothing)

\* The bounds
NewKeyLeft == used < MaxKey
NameLeft   == Aside \ DOMAIN disk # {}

\* The op goes on to step: the store it had is locked first.
Replace(g, step) ==
  /\ NewKeyLeft /\ NameLeft
  /\ goal' = g /\ pc' = step
  /\ key' = 0 /\ doc' = {}
  /\ UNCHANGED <<disk, chip, refused, used, new, todo, spot>>

\* reset() of a directory that is not there is a create().
Over == IF Has("main") THEN "aside" ELSE "create"

MigrateBegin ==
  /\ pc = "idle" /\ (IsEmpty \/ Replaceable)
  /\ Replace("migrate", IF IsEmpty THEN "create" ELSE Over)
  /\ UNCHANGED migrating

\* op_reset.  A TPM that is turned off is no reason to start over.
Reset ==
  /\ pc = "idle" /\ (refused = "lost" \/ Replaceable)
  /\ Replace("reset", Over)
  /\ migrating' = FALSE

\* op_signin of a user who has no store
SignInFresh ==
  /\ pc = "idle" /\ IsEmpty
  /\ Replace("signin", "create")
  /\ UNCHANGED migrating

\* _save_setting_keys(migration_pending=...) writes state.json, and may fail.
Saved(p) == SetMain([(IF Has("main") THEN main ELSE EmptyTree) EXCEPT !.pending = p])

MigrateAbandon ==
  /\ pc = "idle" /\ ~IsEmpty /\ MigrationPending
  /\ migrating' = FALSE
  /\ disk' \in {Saved(FALSE), disk}
  /\ UNCHANGED <<chip, key, doc, refused, used, pc, args>>

-----------------------------------------------------------------------------
(* reset() *)

\* A store that does not open is kept whatever it holds (discard_empty).
MoveAside ==
  /\ pc = "aside"
  /\ \E a \in Aside \ DOMAIN disk : disk' = Move("main", a) /\ spot' = a
  /\ pc' = IF refused = "no" /\ KeepsNothing(main) THEN "discard" ELSE "create"
  /\ UNCHANGED <<chip, mem, used, new, todo, goal>>

\* It may fail, and is then left.
Discard ==
  /\ pc = "discard"
  /\ disk' \in {Remove(spot), disk}
  /\ pc' = "create"
  /\ UNCHANGED <<chip, mem, used, args>>

-----------------------------------------------------------------------------
(* create(): keys.json last *)

\* Mutant of CreateOrder: keys.json goes with the other blobs.
CreateOrderBlobsFirst == <<"list", "secret", "keys", "pub", "meta">>

CreateOrder == <<"list", "secret", "pub", "meta", "keys">>

StartCreate ==
  /\ pc = "create"
  /\ disk' = IF Has("main") THEN disk ELSE SetMain(EmptyTree)
  /\ new' = used + 1 /\ used' = used + 1
  /\ todo' = CreateOrder
  /\ pc' = "write"
  /\ UNCHANGED <<chip, mem, goal, spot>>

\* The tree once file f of new keys k is written
Written(t, f, k) ==
  IF f = "pub" THEN [t EXCEPT !.pub = k]
  ELSE IF f = "meta" THEN [t EXCEPT !.meta = [key |-> k, items |-> {}]]
  ELSE [t EXCEPT !.keys = With(@, f, Seal(k))]

CreateWrite ==
  /\ pc = "write" /\ todo # << >>
  /\ disk' = SetMain(Written(main, Head(todo), new))
  /\ todo' = Tail(todo)
  /\ UNCHANGED <<chip, mem, used, pc, new, goal, spot>>

\* The session takes over the new object: it is unlocked, and no unlock of it has failed.
Created ==
  /\ pc = "write" /\ todo = << >>
  /\ key' = new /\ doc' = {} /\ refused' = "no"
  /\ IF goal = "migrate" THEN pc' = "mark" /\ UNCHANGED args ELSE Return
  /\ UNCHANGED <<disk, chip, migrating, used>>

\* A write fails: what was written is unlinked, in the order it was written.
CreateFails ==
  /\ pc = "write" /\ todo # << >>
  /\ pc' = "undo"
  /\ todo' = SubSeq(CreateOrder, 1, Len(CreateOrder) - Len(todo))
  /\ UNCHANGED <<disk, chip, mem, used, new, goal, spot>>

Unwritten(t, f) ==
  IF f = "pub" THEN [t EXCEPT !.pub = 0]
  ELSE IF f = "meta" THEN [t EXCEPT !.meta = NoMeta]
  ELSE [t EXCEPT !.keys = Without(@, f)]

Undo ==
  /\ pc = "undo" /\ todo # << >>
  /\ disk' = SetMain(Unwritten(main, Head(todo)))
  /\ todo' = Tail(todo)
  /\ UNCHANGED <<chip, mem, used, pc, new, goal, spot>>

\* The directory goes too if create() made it and nothing else is in it.
Undone ==
  /\ pc = "undo" /\ todo = << >>
  /\ disk' \in {disk} \cup (IF main = EmptyTree THEN {Remove("main")} ELSE {})
  /\ Return
  /\ UNCHANGED <<chip, mem, used>>

\* A failure is only logged.
Mark ==
  /\ pc = "mark"
  /\ migrating' = TRUE
  /\ disk' \in {Saved(TRUE), disk}
  /\ Return
  /\ UNCHANGED <<chip, key, doc, refused, used>>

-----------------------------------------------------------------------------
(* unlock() *)

\* A leftover of reseal() goes first, if it can be removed.
StartUnlock ==
  /\ pc = "idle" /\ key = 0 /\ HasKeys
  /\ disk' \in {Remove("rotate"), disk}
  /\ pc' = "unseal"
  /\ UNCHANGED <<chip, mem, used, args>>

Holds(f, t) == f \in DOMAIN t.keys
CanUnseal   == Holds("keys", main) /\ Holds("list", main) /\ Opens(main.keys["list"])
CanRollBack == Blobs \subseteq DOMAIN main.prev /\ Opens(main.prev["list"])

Unseal ==
  /\ pc = "unseal" /\ CanUnseal
  /\ new' = main.keys["list"].key
  /\ pc' = "load"
  /\ UNCHANGED <<disk, chip, mem, used, todo, goal, spot>>

StartRollback ==
  /\ pc = "unseal" /\ ~CanUnseal /\ CanRollBack
  /\ new' = main.prev["list"].key
  /\ todo' = InTurn
  /\ pc' = "rollback"
  /\ UNCHANGED <<disk, chip, mem, used, goal, spot>>

\* systemd-creds did not run: that says nothing of the blob.
UnsealUnavailable ==
  /\ pc = "unseal"
  /\ Return
  /\ UNCHANGED <<disk, chip, mem, used>>

\* seal.classify(): "missing" is tpm-missing, "lost" tpm-cleared or damaged.
Classified ==
  IF {"keys", "list"} \subseteq DOMAIN main.keys /\ main.keys["keys"].tpm # 0 /\ ~on
  THEN "missing" ELSE "lost"

UnsealRefused ==
  /\ pc = "unseal" /\ ~CanUnseal /\ ~CanRollBack
  /\ refused' = Classified
  /\ Return
  /\ UNCHANGED <<disk, chip, key, doc, migrating, used>>

\* _rollback(): three os.replace
Rollback ==
  /\ pc = "rollback"
  /\ LET f == Head(todo) IN
       disk' = SetMain([main EXCEPT !.keys = With(@, f, main.prev[f]), !.prev = Without(@, f)])
  /\ todo' = Tail(todo)
  /\ pc' = IF todo' = << >> THEN "load" ELSE "rollback"
  /\ UNCHANGED <<chip, mem, used, new, goal, spot>>

Loads == main.pub = new /\ main.meta.key = new

\* No store that unseals fails to load, as KeysJsonLast says; the code is ready for one.
Load ==
  /\ pc = "load"
  /\ key' = IF Loads THEN new ELSE 0
  /\ doc' = IF Loads THEN main.meta.items ELSE {}
  /\ refused' = IF Loads THEN "no" ELSE "lost"
  /\ IF Loads /\ Blobs \subseteq DOMAIN main.keys
       THEN pc' = "drop" /\ todo' = InTurn /\ UNCHANGED <<new, goal, spot>>
       ELSE Return
  /\ UNCHANGED <<disk, chip, migrating, used>>

\* _drop_prev(), once the current set is complete
DropPrev ==
  /\ pc = "drop" /\ todo # << >>
  /\ disk' = SetMain([main EXCEPT !.prev = Without(@, Head(todo))])
  /\ todo' = Tail(todo)
  /\ UNCHANGED <<chip, mem, used, pc, new, goal, spot>>

Dropped ==
  /\ pc = "drop" /\ todo = << >>
  /\ Return
  /\ UNCHANGED <<disk, chip, mem, used>>

-----------------------------------------------------------------------------
(* What an unlocked store is used for *)

\* The end of a sign-in.  Over an import that never committed there is none.
SaveSession ==
  /\ pc = "idle" /\ key # 0 /\ ~MigrationPending
  /\ disk' = SetMain([main EXCEPT !.session = key])
  /\ UNCHANGED <<chip, mem, used, pc, args>>

\* op_signout locks the store when the session is gone.
SignOut ==
  /\ pc = "idle" /\ key # 0 /\ main.session # 0
  /\ disk' = SetMain([main EXCEPT !.session = 0])
  /\ key' = 0 /\ doc' = {}
  /\ UNCHANGED <<chip, refused, migrating, used, pc, args>>

\* A sync: the box of an entry (Entries has the steps of it), then meta.v2.
WriteBox ==
  /\ pc = "idle" /\ key # 0 /\ main.session # 0
  /\ \E i \in Item \ doc :
       /\ disk' = SetMain([main EXCEPT !.boxes = @ \cup Boxes(key, {i})])
       /\ doc' = doc \cup {i}
  /\ pc' = "meta"
  /\ UNCHANGED <<chip, key, refused, migrating, used, args>>

WriteMeta ==
  /\ pc = "meta"
  /\ disk' \in {SetMain([main EXCEPT !.meta = [key |-> key, items |-> doc]]), disk}
  /\ Return
  /\ UNCHANGED <<chip, mem, used>>

-----------------------------------------------------------------------------
(* reseal_if_tpm_available() *)

\* Mutant of StartReseal: the keys there are are sealed again.
StartRewrap ==
  /\ pc = "idle" /\ key # 0 /\ on /\ main.keys["keys"].tpm = 0
  /\ disk' = Remove("rotate")
  /\ new' = key
  /\ pc' = "build"
  /\ UNCHANGED <<chip, mem, used, todo, goal, spot>>

\* tpm_move_state() = "available"; SK_secret unseals.
StartReseal ==
  /\ pc = "idle" /\ key # 0 /\ NewKeyLeft
  /\ on /\ main.keys["keys"].tpm = 0
  /\ Opens(main.keys["secret"]) /\ main.keys["secret"].key = key
  /\ disk' = Remove("rotate")
  /\ new' = used + 1 /\ used' = used + 1
  /\ pc' = "build"
  /\ UNCHANGED <<chip, mem, todo, goal, spot>>

\* The new keys are made and sealed; keys.json is still to come.
BuildRotated ==
  /\ pc = "build"
  /\ disk' = With(disk, "rotate",
                  [EmptyTree EXCEPT !.keys = [f \in {"list", "secret"} |-> Seal(new)], !.pub = new])
  /\ pc' = "copy"
  /\ UNCHANGED <<chip, mem, used, args>>

\* Every box on disk is opened with the old SK_secret and sealed to the new one.
CopyRotated ==
  /\ pc = "copy" /\ \A b \in main.boxes : b.key = key
  /\ disk' = With(disk, "rotate",
        [main EXCEPT !.keys = [f \in Blobs |-> Seal(new)], !.prev = << >>,
                     !.pub = new, !.meta = [key |-> new, items |-> doc],
                     !.session = IF @ = 0 THEN 0 ELSE new,
                     !.boxes = {[b EXCEPT !.key = new] : b \in @}])
  /\ pc' = "swap"
  /\ UNCHANGED <<chip, mem, used, args>>

\* It did not build or read back, or the exchange failed: the old store stays.
ResealFails ==
  /\ pc \in {"build", "copy", "swap"}
  /\ disk' \in {Remove("rotate"), disk}
  /\ Return
  /\ UNCHANGED <<chip, mem, used>>

Exchange ==
  /\ pc = "swap"
  /\ disk' = [disk EXCEPT !["main"] = disk["rotate"], !["rotate"] = main]
  /\ pc' = "swapped"
  /\ UNCHANGED <<chip, mem, used, args>>

\* Mutant of Resealt: the new keys stay on disk.
ResealtOnDisk ==
  /\ pc = "swapped"
  /\ disk' \in {Remove("rotate"), disk}
  /\ Return
  /\ UNCHANGED <<chip, mem, used>>

Resealt ==
  /\ pc = "swapped"
  /\ disk' \in {Remove("rotate"), disk}
  /\ key' = new
  /\ Return
  /\ UNCHANGED <<chip, doc, refused, migrating, used>>

-----------------------------------------------------------------------------
(* op_import_commit: import_v1() into the store migrate-begin made *)

\* keys/ and state.json are linked, the rest is converted.
StartImport ==
  /\ pc = "idle" /\ key # 0 /\ migrating /\ doc = {} /\ NameLeft
  /\ disk' = With(disk, "tmp", [EmptyTree EXCEPT !.keys = main.keys, !.pub = main.pub,
                                                 !.pending = main.pending])
  /\ pc' = "convert"
  /\ UNCHANGED <<chip, mem, used, args>>

Convert ==
  /\ pc = "convert"
  /\ \E signedIn \in {0, key} :
       disk' = [disk EXCEPT !["tmp"].meta = [key |-> key, items |-> Item],
                            !["tmp"].boxes = Boxes(key, Item), !["tmp"].session = signedIn]
  /\ pc' = "away"
  /\ UNCHANGED <<chip, mem, used, args>>

\* An error, or a copy that does not read back as the 1.x vault
ImportFails ==
  /\ pc \in {"convert", "away"}
  /\ disk' = Remove("tmp")
  /\ Return
  /\ UNCHANGED <<chip, mem, used>>

Away ==
  /\ pc = "away"
  /\ \E a \in Aside \ DOMAIN disk : disk' = Move("main", a) /\ spot' = a
  /\ pc' = "into"
  /\ UNCHANGED <<chip, mem, used, new, todo, goal>>

Into ==
  /\ pc = "into"
  /\ disk' = Move("tmp", "main")
  /\ pc' = "imported"
  /\ UNCHANGED <<chip, mem, used, args>>

Imported ==
  /\ pc = "imported"
  /\ disk' = Remove(spot)
  /\ doc' = main.meta.items
  /\ pc' = "clear"
  /\ UNCHANGED <<chip, key, refused, migrating, used, args>>

\* A failure is only logged.
Clear ==
  /\ pc = "clear"
  /\ migrating' = FALSE
  /\ disk' \in {Saved(FALSE), disk}
  /\ Return
  /\ UNCHANGED <<chip, key, doc, refused, used>>

-----------------------------------------------------------------------------
(* A lock, and a crash with what may come of the TPM before the next start *)

\* It waits for the running call; the settings' save after it is refused then.
Lock ==
  /\ pc \in {"idle", "mark", "clear"} /\ key # 0
  /\ key' = 0 /\ doc' = {}
  /\ migrating' \in CASE pc = "idle" -> {migrating} [] pc = "mark" -> {migrating, TRUE}
                       [] pc = "clear" -> {FALSE}
  /\ Return
  /\ UNCHANGED <<disk, chip, refused, used>>

Crash ==
  /\ pc = "rollback" => RollbackStops
  /\ tpm' \in {tpm, tpm + 1} /\ tpm' <= MaxTpm
  /\ on' \in BOOLEAN
  /\ key' = 0 /\ doc' = {} /\ refused' = "no" /\ migrating' = FALSE
  /\ Return
  /\ UNCHANGED <<disk, used>>

Next ==
  \/ MigrateBegin \/ Reset \/ SignInFresh \/ MigrateAbandon
  \/ MoveAside \/ Discard
  \/ StartCreate \/ CreateWrite \/ Created \/ CreateFails \/ Undo \/ Undone \/ Mark
  \/ StartUnlock \/ Unseal \/ StartRollback \/ UnsealUnavailable \/ UnsealRefused
  \/ Rollback \/ Load
  \/ DropPrev \/ Dropped
  \/ SaveSession \/ SignOut \/ WriteBox \/ WriteMeta
  \/ StartReseal \/ BuildRotated \/ CopyRotated \/ ResealFails \/ Exchange \/ Resealt
  \/ StartImport \/ Convert \/ ImportFails \/ Away \/ Into \/ Imported \/ Clear
  \/ Lock \/ Crash

Spec == Init /\ [][Next]_vars

-----------------------------------------------------------------------------
(* Properties *)

\* Blob f of tree t, or its .prev, holds keys k and is not bound to a TPM that is gone.
Survives(t, f, k) ==
  \E set \in {t.keys, t.prev} :
    f \in DOMAIN set /\ set[f].key = k /\ set[f].tpm \in {0, tpm}

\* The entries that can be got out of tree t with the keys in it.
Readable(t) ==
  {i \in t.meta.items : \E k \in 1..used :
     /\ t.meta.key = k /\ t.pub = k
     /\ Survives(t, "list", k) /\ Survives(t, "secret", k)
     /\ [key |-> k, item |-> i] \in t.boxes}

Trees == {"main"} \cup Aside

AllReadable == UNION {Readable(disk[p]) : p \in Trees \cap DOMAIN disk}

(* No step of the program, and no crash, costs an entry: what could be read
   from the store or from a tree that was moved aside still can, unless the
   TPM is cleared.  The order of renames, unlinks and writes in reset(),
   reseal, import_v1(), _rollback() and _drop_prev() is for this. *)
NothingLost == [][tpm' = tpm => AllReadable \subseteq AllReadable']_vars

(* keys.json is written last: a tree that has it is a store that opens, with
   all three blobs, secret.pub and meta.v2 of one key pair - also a tree that
   reset() or import_v1() moved aside, which is all that is left of a store. *)
KeysJsonLast ==
  \A p \in Trees \cap DOMAIN disk :
    LET t == disk[p] IN
    Holds("keys", t) => /\ DOMAIN t.keys = Blobs
                        /\ t.keys["list"].key = t.pub /\ t.keys["secret"].key = t.pub
                        /\ t.meta.key = t.pub

Unlocked == key # 0 /\ pc = "idle"

(* An unlocked store has the keys of the tree that is there now, and knows all
   that its meta.v2 records: what it writes next must open with that tree, and
   must not forget an entry.  reseal and import_v1() swap the tree under the
   store object. *)
MemoryMatchesDisk ==
  Unlocked => /\ Has("main")
              /\ Holds("list", main) /\ main.keys["list"].key = key
              /\ main.pub = key /\ main.meta.key = key /\ main.meta.items \subseteq doc
              /\ main.session \in {0, key}
              /\ \A b \in main.boxes : b.key = key

(* "No host-only copy of a key that opens current data is kept anywhere"
   (reseal_if_tpm_available): once the keys of an unlocked store are on the
   TPM, no tree has a host-only blob of them, whatever crashes and failed
   removals left behind on the way there. *)
NoHostCopy ==
  Unlocked /\ main.keys["keys"].tpm # 0 =>
    \A p \in DOMAIN disk : \A set \in {disk[p].keys, disk[p].prev} : \A f \in DOMAIN set :
      set[f].key = key => set[f].tpm # 0

=============================================================================
