------------------------------- MODULE Entries -------------------------------
(***************************************************************************)
(* The entry boxes of one store: vstore/entries.py (EntryFiles) under      *)
(* UserStore.apply_sync, set_secrets and _replace_secrets of               *)
(* vstore/__init__.py, on a disk that keeps what was written and a memory  *)
(* that a crash or a lock drops.                                           *)
(*                                                                         *)
(* A box is sealed to the public key, so a sync replaces boxes it cannot   *)
(* open: what it knows of a box is the MACs in meta.v2.  A MAC stands here *)
(* for the value it is taken of.  Each write goes to disk whole            *)
(* (format.atomic_write); the steps between the writes are separate        *)
(* actions, and any of them may be the last before a crash or an error.    *)
(*                                                                         *)
(* All calls hold the store's mutex, so there is one at a time.  Left out: *)
(* the titles and dates of meta.v2, and a lost disk cache (the code fsyncs *)
(* after every change of a directory).                                     *)
(***************************************************************************)
EXTENDS Integers, Sequences, FiniteSets, SequencesExt

CONSTANTS
  Id,            \* entry ids
  Items,         \* Items[i]: the forms in which iCloud may hold entry i
  Returns,       \* Returns[i]: those in which it may bring back one it had deleted
  NoPassword,    \* the password of a row that has none: a passkey alone
  MaxHistory,    \* entries.MAX_HISTORY
  MaxVersion,    \* bound: no call starts once a box has this version
  MaxNumber,     \* bound: nor once a history box has this number
  None           \* no MAC yet; no entry in hand

ASSUME MaxHistoryAssumption == MaxHistory \in Nat \ {0}
ASSUME ReturnsAssumption == \A i \in Id : Returns[i] \subseteq Items[i]

\* records.py: a row that is a passkey alone has no password.
ASSUME ItemsAssumption ==
  \A i \in Id : \A it \in Items[i] : it.pw # None /\ (it.kind = "passkey" => it.pw = NoPassword)

VARIABLES
  box,      \* entries/<id>.box, for the ids that have one
  history,  \* history/<id>/<n>.box
  meta,     \* meta.v2: the record of each entry it knows
  unlocked, \* the store is unlocked: doc is in memory
  doc,      \* UserStore._doc, likewise
  pc,       \* the step a call takes next
  call,     \* "sync", "delete" or "set"
  batch,    \* the items the call was given and has not reached
  given,    \* the items it was given
  gone,     \* the ids it is to tombstone
  cur,      \* the entry being replaced
  number,   \* its new history number
  back,     \* it is new, or comes back from the dead
  due,      \* the passwords the records in memory describe and meta.v2 not yet
  owed      \* those meta.v2 has recorded; retention takes what it drops out of both

disk == <<box, history, meta>>
args == <<call, batch, given, gone, cur, number, back>>
vars == <<disk, unlocked, doc, pc, args, due, owed>>

-----------------------------------------------------------------------------
(* A record: what meta.v2 says of the entry, and of its box.  The MACs of a new record are None. *)

With(f, i, x) == [j \in DOMAIN f \cup {i} |-> IF j = i THEN x ELSE f[j]]
Without(f, i) == [j \in DOMAIN f \ {i} |-> f[j]]

NewRecord(kind) ==
  [kind |-> kind, v |-> 0, pwmac |-> None, smac |-> None, hist |-> << >>, deleted |-> FALSE]

Known(d, i) == i \in DOMAIN d
LiveEntry(d, i) == Known(d, i) /\ ~d[i].deleted

HasBox(i)  == i \in DOMAIN box
Numbers(i) == DOMAIN history[i]

\* A number that is taken.
LastNumber(i) == Max({0} \cup ToSet(doc[i].hist) \cup Numbers(i))

\* EntryFiles.next_number(): past all that meta knows and all that is on disk.
NextNumber(i) == LastNumber(i) + 1

TypeOK ==
  /\ DOMAIN box \subseteq Id /\ \A i \in DOMAIN box : box[i].v \in 1..MaxVersion + 1
  /\ \A i \in Id : Numbers(i) \subseteq 1..MaxNumber + 1
  /\ unlocked \in BOOLEAN
  /\ \A d \in {doc, meta} :
       /\ DOMAIN d \subseteq Id
       /\ \A i \in DOMAIN d : /\ DOMAIN d[i] = {"kind", "v", "pwmac", "smac", "hist", "deleted"}
                              /\ Len(d[i].hist) <= MaxHistory + 1
                              /\ IsInjective(d[i].hist)
  /\ pc \in {"idle", "next", "link", "unlink", "moved", "trim", "write", "written", "meta", "final"}
  /\ call \in {"none", "sync", "delete", "set"}
  /\ cur \in Id \cup {None}

Init ==
  /\ box = << >>
  /\ history = [i \in Id |-> << >>]
  /\ meta = << >>
  /\ unlocked = FALSE
  /\ doc = << >>
  /\ pc = "idle"
  /\ call = "none"
  /\ batch = << >>
  /\ given = << >>
  /\ gone = {}
  /\ cur = None
  /\ number = 0
  /\ back = FALSE
  /\ due = [i \in Id |-> {}]
  /\ owed = [i \in Id |-> {}]

-----------------------------------------------------------------------------
(* The calls *)

Room == \A i \in Id : /\ HasBox(i) => box[i].v < MaxVersion
                      /\ Known(doc, i) => doc[i].v < MaxVersion /\ NextNumber(i) <= MaxNumber

Start(c, b, g) ==
  /\ unlocked /\ pc = "idle" /\ Room
  /\ pc' = "next" /\ call' = c
  /\ batch' = b /\ given' = b /\ gone' = g
  /\ UNCHANGED <<disk, unlocked, doc, cur, number, back, due, owed>>

\* apple._deleted(): what the fetch did not return, unless it returned nothing at all.
Missing(b) == IF DOMAIN b = {} THEN {} ELSE {i \in Id : LiveEntry(doc, i)} \ DOMAIN b

\* How iCloud may hold entry i
Forms(i) == IF Known(doc, i) /\ doc[i].deleted THEN Returns[i] ELSE Items[i]

\* A sync applies what iCloud holds.
StartSync ==
  \E S \in SUBSET Id : \E b \in [S -> UNION {Items[i] : i \in S}] :
    /\ \A i \in S : b[i] \in Forms(i)
    /\ Start("sync", b, Missing(b))

\* apple.create() and the end of apple.push_set(): the one entry as it came back.
StartOne ==
  \E i \in Id : \E it \in Forms(i) : Start("sync", With(<< >>, i, it), {})

\* A row that is a passkey alone is read-only.
Editable(i) == LiveEntry(doc, i) /\ doc[i].kind = "login"

\* apple.push_set(): the password was pushed.
StartSet ==
  \E i \in Id : \E it \in Items[i] :
    /\ it.pw # NoPassword
    /\ Editable(i)
    /\ Start("set", With(<< >>, i, it), {})

\* apple.delete()
StartDelete ==
  \E i \in Id : Editable(i) /\ Start("delete", << >>, {i})

-----------------------------------------------------------------------------
(* _replace_secrets *)

\* A record that takes over everything before the box is written.
PreparedEarly(i) == [(IF Known(doc, i) THEN doc[i] ELSE NewRecord(batch[i].kind))
                       EXCEPT !.pwmac = batch[i].pw, !.smac = batch[i].rest, !.deleted = FALSE]

\* The record an item is compared with.  One that is new, or comes back from the dead, first
\* takes over the item's own fields; set_secrets takes none.
Prepared(i) ==
  IF call = "sync" /\ ~LiveEntry(doc, i)
  THEN IF Known(doc, i) THEN [doc[i] EXCEPT !.kind = batch[i].kind, !.deleted = FALSE]
                        ELSE NewRecord(batch[i].kind)
  ELSE doc[i]

Same(r, it) == r.pwmac = it.pw /\ r.smac = it.rest

\* A box without a password is no history.
HeldNoPassword(r) == r.kind = "passkey" \/ r.pwmac = NoPassword

\* A password that is removed leaves nothing behind.
IsHistoryOfLogin(i, r, it) ==
  HasBox(i) /\ r.pwmac \notin {None, it.pw} /\ ~HeldNoPassword(r) /\ it.kind = "login"

\* The old box becomes history.
IsHistory(i, r, it) == HasBox(i) /\ r.pwmac \notin {None, it.pw} /\ ~HeldNoPassword(r)

\* The next item of the list.  The one in hand stays in batch until its box is written.
Take ==
  /\ pc = "next"
  /\ \E i \in DOMAIN batch :
       LET it == batch[i]
           r  == Prepared(i)
       IN IF HasBox(i) /\ Same(r, it)
          THEN /\ doc' = With(doc, i, [r EXCEPT !.kind = IF call = "sync" THEN it.kind ELSE @])
               /\ batch' = Without(batch, i)
               /\ pc' = IF call = "set" THEN "final" ELSE "next"
               /\ UNCHANGED <<cur, number, back>>
          ELSE /\ doc' = With(doc, i, r)
               /\ cur' = i
               /\ back' = ~LiveEntry(doc, i)
               /\ IF IsHistory(i, r, it)
                  THEN number' = NextNumber(i) /\ pc' = "link"
                  ELSE number' = 0 /\ pc' = "write"
               /\ UNCHANGED batch
  /\ UNCHANGED <<disk, unlocked, call, given, gone, due, owed>>

Kept == <<unlocked, args, due, owed>>

\* move_to_history(): link, then unlink, so that the box has a name throughout.
Link ==
  /\ pc = "link"
  /\ number \notin Numbers(cur)
  /\ history' = [history EXCEPT ![cur] = With(@, number, box[cur])]
  /\ pc' = "unlink"
  /\ UNCHANGED <<box, meta, doc, Kept>>

Unlink ==
  /\ pc = "unlink"
  /\ box' = Without(box, cur)
  /\ pc' = "moved"
  /\ UNCHANGED <<history, meta, doc, Kept>>

\* A limit that is one short.
TooManyByOne(hist) == Len(hist) >= MaxHistory

TooMany(hist) == Len(hist) > MaxHistory

Moved ==
  /\ pc = "moved"
  /\ doc' = [doc EXCEPT ![cur].hist = Append(@, number)]
  /\ pc' = IF TooMany(doc'[cur].hist) THEN "trim" ELSE "write"
  /\ UNCHANGED <<disk, Kept>>

\* The passwords in the history boxes of entry i
HistoryHolds(i) == {history[i][n].pw : n \in Numbers(i)}

\* drop_history(): the oldest, past MAX_HISTORY.
Trim ==
  /\ pc = "trim"
  /\ history' = [history EXCEPT ![cur] = Without(@, Head(doc[cur].hist))]
  /\ doc' = [doc EXCEPT ![cur].hist = Tail(@)]
  /\ pc' = IF TooMany(doc'[cur].hist) THEN "trim" ELSE "write"
  /\ UNCHANGED <<box, meta, unlocked, args>>
  /\ LET dropped == HistoryHolds(cur) \ HistoryHolds(cur)'
     IN due' = [due EXCEPT ![cur] = @ \ dropped] /\ owed' = [owed EXCEPT ![cur] = @ \ dropped]

\* A box that is written with the version of the one it replaces.
SameVersion(r) == r.v

NewVersion(r) == r.v + 1

Write ==
  /\ pc = "write"
  /\ LET it == batch[cur]
     IN box' = With(box, cur, [v |-> NewVersion(doc[cur]), pw |-> it.pw, rest |-> it.rest])
  /\ pc' = "written"
  /\ UNCHANGED <<history, meta, doc, Kept>>

\* The MACs of the box just written.
Described(r, it) == [r EXCEPT !.v = @ + 1, !.pwmac = it.pw, !.smac = it.rest]

\* After the box, its record; a sync also takes over the item's own fields, and if a box of
\* a live entry moved into history the records are written at once.
Written ==
  /\ pc = "written"
  /\ LET it == batch[cur]
     IN /\ doc' = [doc EXCEPT ![cur] =
                     [Described(doc[cur], it) EXCEPT !.kind = IF call = "sync" THEN it.kind ELSE @]]
        /\ due' = [due EXCEPT ![cur] = @ \cup ({it.pw} \ {NoPassword})]
  /\ pc' = IF call = "set" THEN "final" ELSE IF number # 0 /\ ~back THEN "meta" ELSE "next"
  /\ batch' = Without(batch, cur)
  /\ cur' = None
  /\ number' = 0
  /\ back' = FALSE
  /\ UNCHANGED <<disk, unlocked, call, given, gone, owed>>

\* _write_meta()
Record ==
  /\ meta' = doc
  /\ owed' = [i \in Id |-> owed[i] \cup due[i]]
  /\ due' = [i \in Id |-> {}]

\* The records are written within the loop.
WriteMeta ==
  /\ pc = "meta"
  /\ Record
  /\ pc' = "next"
  /\ UNCHANGED <<box, history, unlocked, doc, args>>

\* The tombstones, at the end of the list
Tombstone ==
  /\ pc = "next"
  /\ DOMAIN batch = {}
  /\ doc' = [i \in DOMAIN doc |-> [doc[i] EXCEPT !.deleted = @ \/ i \in gone]]
  /\ pc' = "final"
  /\ UNCHANGED <<disk, Kept>>

NoCall ==
  /\ pc' = "idle" /\ call' = "none"
  /\ batch' = << >> /\ given' = << >>
  /\ gone' = {} /\ cur' = None /\ number' = 0 /\ back' = FALSE

\* The records are written at the end, and the call returns.
Finish ==
  /\ pc = "final"
  /\ Record
  /\ NoCall
  /\ UNCHANGED <<box, history, unlocked, doc>>

-----------------------------------------------------------------------------
(* What cuts a call short *)

\* A write fails: the exception ends the call, and what it changed in memory stays (drop_history
\* fails with the number already popped).  meta.v2 may be in place by then: atomic_write syncs
\* the directory after the rename.
Fail ==
  /\ pc \notin {"idle", "next"}
  /\ \/ UNCHANGED <<meta, due, owed>>
     \/ pc = "meta" /\ Record
  /\ doc' = IF pc = "trim" THEN [doc EXCEPT ![cur].hist = Tail(@)] ELSE doc
  /\ NoCall
  /\ UNCHANGED <<box, history, unlocked>>

\* The daemon dies, or a lock wipes the store between two calls.
Crash ==
  /\ unlocked
  /\ unlocked' = FALSE
  /\ doc' = << >>
  /\ due' = [i \in Id |-> {}]
  /\ NoCall
  /\ UNCHANGED <<disk, owed>>

Unlock ==
  /\ ~unlocked
  /\ unlocked' = TRUE
  /\ doc' = meta
  /\ UNCHANGED <<disk, pc, args, due, owed>>

Replace == Link \/ Unlink \/ Moved \/ Trim \/ Write \/ Written

\* open_box(): a box that is older than its record is refused.
OpenBox(b, minV) == b.v >= minV

\* open_entry(), and the current box for history(), with the records d.
OpenEntry(d, i) == LiveEntry(d, i) /\ HasBox(i) /\ OpenBox(box[i], d[i].v)

Next ==
  \/ StartSync \/ StartOne \/ StartSet \/ StartDelete
  \/ Take \/ Replace \/ WriteMeta \/ Tombstone \/ Finish
  \/ Fail \/ Crash \/ Unlock

Spec == Init /\ [][Next]_vars

-----------------------------------------------------------------------------
(* Properties *)

\* No password that meta.v2 has recorded is lost, whatever crash or error cuts a call short:
\* it is in the current box or in a history box, unless the retention limit dropped it.
PasswordsKept ==
  \A i \in Id : \A p \in owed[i] :
    \/ HasBox(i) /\ box[i].pw = p
    \/ \E n \in Numbers(i) : history[i][n].pw = p

\* The current box of an entry opens with the records on disk, and with those in memory:
\* open_entry() never calls it damaged, whatever crash or error cut a call short.
BoxesOpen ==
  \A d \in {meta, doc}, i \in Id : LiveEntry(d, i) /\ HasBox(i) => OpenEntry(d, i)

\* A box with the version its record names is the box the record describes; so a sync that
\* leaves it alone leaves the right one.  (The one a crash left is ahead of its record.)
RecordsMatchBoxes ==
  \A i \in Id :
    pc \in {"idle", "final"} /\ Known(doc, i) /\ HasBox(i) /\ box[i].v = doc[i].v
      => box[i].pw = doc[i].pwmac /\ box[i].rest = doc[i].smac

\* A history box goes only when MaxHistory newer ones are there: also when a crash comes
\* between its unlink and the write of the records that still name it.
OnlyRetentionDrops ==
  \A i \in Id : Known(meta, i) =>
    \A n \in ToSet(meta[i].hist) \ Numbers(i) :
      Cardinality({m \in Numbers(i) : m > n}) >= MaxHistory

\* "The next sync repairs meta": a sync that got through an entry leaves no box one ahead.
SyncRepairsRecords ==
  pc = "final" /\ call = "sync" =>
    \A i \in DOMAIN given : HasBox(i) /\ box[i].v = doc[i].v

=============================================================================
