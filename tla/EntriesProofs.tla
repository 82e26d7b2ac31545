---------------------------- MODULE EntriesProofs ----------------------------
(***************************************************************************)
(* Theorems about Entries, for any entries, forms and limits.              *)
(*                                                                         *)
(* BoxesOpen speaks of the records in memory and of those on disk, so its  *)
(* inductive form keeps the three version numbers of an entry in order     *)
(*                                                                         *)
(*        meta[i].v  <=  doc[i].v  <=  box[i].v                            *)
(*                                                                         *)
(* and says how far the box is ahead at the one step where it is not       *)
(* described yet.  The other three rest on Sound, the shape of boxes and   *)
(* records: MatchInv follows a box and its record through a replacement,   *)
(* HeldInv says where each password is that is recorded, or described in   *)
(* memory and due to be, and RetentionInv orders the numbers of history.   *)
(***************************************************************************)
EXTENDS Entries, FiniteSetTheorems, TLAPS

Versioned(d) == \A i \in DOMAIN d : "v" \in DOMAIN d[i] /\ d[i].v \in Nat

\* No box is older than its record.
Behind(d) == \A i \in DOMAIN d : i \in DOMAIN box => box[i].v >= d[i].v

Typed ==
  /\ Versioned(doc)
  /\ Versioned(meta)
  /\ \A i \in DOMAIN box : box[i].v \in Nat

\* Memory knows all that the disk does.
MetaBehind == unlocked => \A i \in DOMAIN meta : i \in DOMAIN doc /\ doc[i].v >= meta[i].v

\* A call runs on an unlocked store, and set_secrets on a record that is there.
CallKept ==
  /\ pc # "idle" => unlocked
  /\ ~unlocked => DOMAIN doc = {}
  /\ call # "sync" => DOMAIN batch \subseteq DOMAIN doc

Replacing == {"link", "unlink", "moved", "trim", "write", "written"}

InHand ==
  /\ pc \in Replacing => cur \in DOMAIN doc
  /\ pc = "written" => cur \in DOMAIN box /\ box[cur].v = doc[cur].v + 1

BoxInv == Typed /\ Behind(doc) /\ Behind(meta) /\ MetaBehind /\ CallKept /\ InHand

-----------------------------------------------------------------------------
(* Initial states, and the steps that only move between calls *)

LEMMA BoxInvInit == Init => BoxInv
  BY DEF Init, BoxInv, Typed, Versioned, Behind, MetaBehind, CallKept, InHand, Replacing

LEMMA StartKeeps ==
  ASSUME BoxInv,
         NEW c \in {"sync", "delete", "set"}, NEW b, NEW g, Start(c, b, g),
         c = "sync" \/ DOMAIN b \subseteq DOMAIN doc
  PROVE  BoxInv'
  BY DEF Start, BoxInv, Typed, Versioned, Behind, MetaBehind, CallKept, InHand, Replacing, disk

LEMMA StartsKeep ==
  ASSUME BoxInv, StartSync \/ StartOne \/ StartSet \/ StartDelete
  PROVE  BoxInv'
  <1>1. CASE StartSync
    <2>1. PICK S \in SUBSET Id : \E b \in [S -> UNION {Items[i] : i \in S}] :
            Start("sync", b, Missing(b))
      BY <1>1 DEF StartSync
    <2>2. PICK b : Start("sync", b, Missing(b))
      BY <2>1
    <2> QED
      BY <2>2, StartKeeps
  <1>2. CASE StartOne
    <2>1. PICK i \in Id : \E it \in Forms(i) : Start("sync", With(<< >>, i, it), {})
      BY <1>2 DEF StartOne
    <2>2. PICK it : Start("sync", With(<< >>, i, it), {})
      BY <2>1
    <2> QED
      BY <2>2, StartKeeps
  <1>3. CASE StartSet
    <2>0. PICK i \in Id : \E it \in Items[i] :
            Editable(i) /\ Start("set", With(<< >>, i, it), {})
      BY <1>3 DEF StartSet
    <2>1. PICK it : Editable(i) /\ Start("set", With(<< >>, i, it), {})
      BY <2>0
    <2>2. DOMAIN With(<< >>, i, it) \subseteq DOMAIN doc
      BY <2>1 DEF With, Editable, LiveEntry, Known
    <2> QED
      BY <2>1, <2>2, StartKeeps
  <1>4. CASE StartDelete
    <2>1. PICK i \in Id : Start("delete", << >>, {i})
      BY <1>4 DEF StartDelete
    <2>2. DOMAIN << >> \subseteq DOMAIN doc
      OBVIOUS
    <2> QED
      BY <2>1, <2>2, StartKeeps
  <1> QED
    BY <1>1, <1>2, <1>3, <1>4

LEMMA CutKeeps ==
  ASSUME BoxInv, Crash \/ Unlock
  PROVE  BoxInv'
  <1>1. CASE Crash
    BY <1>1 DEF Crash, NoCall, BoxInv, Typed, Versioned, Behind, MetaBehind, CallKept, InHand,
                Replacing, disk
  <1>2. CASE Unlock
    <2>1. pc = "idle" /\ pc' = "idle" /\ unlocked' /\ doc' = meta
      BY <1>2 DEF Unlock, BoxInv, CallKept
    <2>2. Typed' /\ Behind(doc)' /\ Behind(meta)'
      BY <1>2 DEF Unlock, BoxInv, Typed, Versioned, Behind, disk
    <2>3. MetaBehind'
      BY <1>2 DEF Unlock, BoxInv, Typed, Versioned, MetaBehind, disk
    <2>4. DOMAIN batch' \subseteq DOMAIN doc' \/ call' = "sync"
      BY <1>2 DEF Unlock, BoxInv, CallKept, args
    <2> QED
      BY <2>1, <2>2, <2>3, <2>4 DEF BoxInv, CallKept, InHand, Replacing
  <1> QED
    BY <1>1, <1>2

-----------------------------------------------------------------------------
(* _replace_secrets *)

\* The record an item is compared with has a version, and no higher one than its box.
LEMMA PreparedVersion ==
  ASSUME BoxInv, NEW i \in DOMAIN batch
  PROVE  /\ "v" \in DOMAIN Prepared(i)
         /\ Prepared(i).v \in Nat
         /\ Prepared(i).v = IF i \in DOMAIN doc THEN doc[i].v ELSE 0
  <1>1. CASE i \in DOMAIN doc
    BY <1>1 DEF Prepared, Known, BoxInv, Typed, Versioned
  <1>2. CASE i \notin DOMAIN doc
    BY <1>2 DEF Prepared, Known, LiveEntry, NewRecord, BoxInv, CallKept
  <1> QED
    BY <1>1, <1>2

LEMMA TakeKeeps ==
  ASSUME BoxInv, Take
  PROVE  BoxInv'
  <1>1. PICK i \in DOMAIN batch :
          \/ /\ doc' = With(doc, i, [Prepared(i) EXCEPT !.kind = IF call = "sync" THEN batch[i].kind ELSE @])
             /\ batch' = Without(batch, i)
             /\ pc' \in {"final", "next"}
          \/ /\ doc' = With(doc, i, Prepared(i))
             /\ cur' = i
             /\ pc' \in {"link", "write"}
             /\ batch' = batch
    BY Zenon DEF Take
  <1>2. UNCHANGED <<box, meta, unlocked, call>> /\ pc = "next"
    BY DEF Take, disk
  <1>3. /\ DOMAIN doc' = DOMAIN doc \cup {i}
        /\ \A j \in DOMAIN doc' : "v" \in DOMAIN doc'[j] /\ doc'[j].v = IF j \in DOMAIN doc THEN doc[j].v ELSE 0
    BY <1>1, PreparedVersion DEF With, BoxInv, Typed, Versioned
  <1>4. Typed' /\ Behind(meta)'
    BY <1>2, <1>3 DEF BoxInv, Typed, Versioned, Behind
  <1>5. Behind(doc)'
    BY <1>2, <1>3 DEF BoxInv, Typed, Versioned, Behind
  <1>6. MetaBehind'
    BY <1>2, <1>3 DEF BoxInv, MetaBehind
  <1>7. CallKept'
    BY <1>1, <1>2, <1>3 DEF BoxInv, CallKept, Without
  <1>8. InHand'
    BY <1>1, <1>3 DEF InHand, Replacing
  <1> QED
    BY <1>4, <1>5, <1>6, <1>7, <1>8 DEF BoxInv

\* A step that leaves every version and what is in hand alone.
LEMMA SameVersionsKeep ==
  ASSUME BoxInv,
         pc \in Replacing, pc' \in Replacing \ {"written"},
         UNCHANGED <<meta, unlocked, call, batch, cur>>,
         DOMAIN doc' = DOMAIN doc,
         \A j \in DOMAIN doc : "v" \in DOMAIN doc'[j] /\ doc'[j].v = doc[j].v,
         DOMAIN box' \subseteq DOMAIN box,
         \A j \in DOMAIN box' : box'[j] = box[j]
  PROVE  BoxInv'
  BY DEF BoxInv, Typed, Versioned, Behind, MetaBehind, CallKept, InHand, Replacing

LEMMA MoveKeeps ==
  ASSUME BoxInv, Link \/ Unlink \/ Moved \/ Trim
  PROVE  BoxInv'
  <1>1. CASE Link
    BY <1>1, SameVersionsKeep DEF Link, Kept, args, Replacing, BoxInv, Typed, Versioned
  <1>2. CASE Unlink
    BY <1>2, SameVersionsKeep DEF Unlink, Without, Kept, args, Replacing, BoxInv, Typed, Versioned
  <1>3. CASE Moved
    BY <1>3, SameVersionsKeep DEF Moved, Kept, args, disk, Replacing, BoxInv, Typed, Versioned
  <1>4. CASE Trim
    <2>1. /\ doc' = [doc EXCEPT ![cur].hist = Tail(@)]
          /\ pc = "trim" /\ pc' \in {"trim", "write"}
          /\ UNCHANGED <<box, meta, unlocked, args>>
      BY <1>4 DEF Trim
    <2> QED
      BY <2>1, SameVersionsKeep DEF args, Replacing, BoxInv, Typed, Versioned
  <1> QED
    BY <1>1, <1>2, <1>3, <1>4

LEMMA WriteKeeps ==
  ASSUME BoxInv, Write \/ Written
  PROVE  BoxInv'
  <1>1. CASE Write
    <2>1. /\ DOMAIN box' = DOMAIN box \cup {cur}
          /\ box'[cur].v = doc[cur].v + 1
          /\ \A j \in DOMAIN box \ {cur} : box'[j] = box[j]
          /\ pc = "write" /\ pc' = "written" /\ cur' = cur
      BY <1>1 DEF Write, With, NewVersion, Kept, args
    <2>2. UNCHANGED <<meta, doc, unlocked, call, batch>>
      BY <1>1 DEF Write, Kept, args
    <2>3. cur \in DOMAIN doc /\ doc[cur].v \in Nat
      BY <2>1 DEF BoxInv, InHand, Replacing, Typed, Versioned
    <2>4. cur \in DOMAIN meta => meta[cur].v <= doc[cur].v /\ meta[cur].v \in Nat
      BY <2>1, <2>3 DEF BoxInv, MetaBehind, CallKept, Typed, Versioned
    <2>5. Typed'
      BY <2>1, <2>2, <2>3 DEF BoxInv, Typed, Versioned
    <2>6. Behind(doc)' /\ Behind(meta)'
      BY <2>1, <2>2, <2>3, <2>4 DEF BoxInv, Behind
    <2>7. MetaBehind' /\ CallKept'
      BY <2>1, <2>2 DEF BoxInv, MetaBehind, CallKept
    <2>8. InHand'
      BY <2>1, <2>2, <2>3 DEF InHand, Replacing
    <2> QED
      BY <2>5, <2>6, <2>7, <2>8 DEF BoxInv
  <1>2. CASE Written
    <2>1. /\ doc' = [doc EXCEPT ![cur] =
                       [Described(doc[cur], batch[cur]) EXCEPT !.kind = IF call = "sync" THEN batch[cur].kind ELSE @]]
          /\ pc = "written" /\ pc' \in {"final", "meta", "next"}
          /\ batch' = Without(batch, cur)
          /\ UNCHANGED <<box, meta, unlocked, call>>
      BY <1>2 DEF Written, disk
    <2>2. cur \in DOMAIN doc /\ "v" \in DOMAIN doc[cur] /\ doc[cur].v \in Nat
      BY <2>1 DEF BoxInv, InHand, Replacing, Typed, Versioned
    <2>3. cur \in DOMAIN box /\ box[cur].v = doc[cur].v + 1
      BY <2>1 DEF BoxInv, InHand
    <2>4. /\ DOMAIN doc' = DOMAIN doc
          /\ "v" \in DOMAIN doc'[cur] /\ doc'[cur].v = doc[cur].v + 1
          /\ \A j \in DOMAIN doc \ {cur} : doc'[j] = doc[j]
      BY <2>1, <2>2 DEF Described
    <2>5. Typed'
      BY <2>1, <2>2, <2>4 DEF BoxInv, Typed, Versioned
    <2>6. Behind(doc)' /\ Behind(meta)'
      BY <2>1, <2>2, <2>3, <2>4 DEF BoxInv, Behind
    <2>7. MetaBehind'
      BY <2>1, <2>2, <2>4 DEF BoxInv, MetaBehind, Typed, Versioned
    <2>8. CallKept' /\ InHand'
      BY <2>1, <2>4 DEF BoxInv, CallKept, InHand, Replacing, Without
    <2> QED
      BY <2>5, <2>6, <2>7, <2>8 DEF BoxInv
  <1> QED
    BY <1>1, <1>2

-----------------------------------------------------------------------------
(* The records are written *)

LEMMA RecordsKeep ==
  ASSUME BoxInv, WriteMeta \/ Tombstone \/ Finish
  PROVE  BoxInv'
  <1>1. CASE WriteMeta
    BY <1>1 DEF WriteMeta, Record, args, BoxInv, Typed, Versioned, Behind, MetaBehind, CallKept,
                InHand, Replacing
  <1>2. CASE Tombstone
    <2>1. /\ DOMAIN doc' = DOMAIN doc
          /\ \A j \in DOMAIN doc : doc'[j] = [doc[j] EXCEPT !.deleted = @ \/ j \in gone]
          /\ UNCHANGED <<box, meta, unlocked, call, batch>>
          /\ pc = "next" /\ pc' = "final"
      BY <1>2 DEF Tombstone, disk, Kept, args
    <2>2. \A j \in DOMAIN doc : "v" \in DOMAIN doc'[j] /\ doc'[j].v = doc[j].v
      BY <2>1 DEF BoxInv, Typed, Versioned
    <2>3. Typed' /\ Behind(doc)' /\ Behind(meta)'
      BY <2>1, <2>2 DEF BoxInv, Typed, Versioned, Behind
    <2>4. MetaBehind' /\ CallKept' /\ InHand'
      BY <2>1, <2>2 DEF BoxInv, MetaBehind, CallKept, InHand, Replacing
    <2> QED
      BY <2>3, <2>4 DEF BoxInv
  <1>3. CASE Finish
    BY <1>3 DEF Finish, Record, NoCall, BoxInv, Typed, Versioned, Behind, MetaBehind, CallKept,
                InHand, Replacing
  <1> QED
    BY <1>1, <1>2, <1>3

LEMMA FailKeeps ==
  ASSUME BoxInv, Fail
  PROVE  BoxInv'
  <1>1. /\ DOMAIN doc' = DOMAIN doc
        /\ \A j \in DOMAIN doc : "v" \in DOMAIN doc'[j] /\ doc'[j].v = doc[j].v
    BY DEF Fail, BoxInv, InHand, Replacing, Typed, Versioned
  <1>2. meta' = meta \/ (pc = "meta" /\ meta' = doc /\ doc' = doc)
    BY DEF Fail, Record
  <1>3. UNCHANGED <<box, unlocked>> /\ pc' = "idle" /\ DOMAIN batch' = {} /\ pc # "idle"
    BY DEF Fail, NoCall
  <1>4. Typed' /\ Behind(doc)' /\ Behind(meta)'
    BY <1>1, <1>2, <1>3 DEF BoxInv, Typed, Versioned, Behind
  <1>5. MetaBehind' /\ CallKept' /\ InHand'
    BY <1>1, <1>2, <1>3 DEF BoxInv, Typed, Versioned, MetaBehind, CallKept, InHand, Replacing
  <1> QED
    BY <1>4, <1>5 DEF BoxInv

-----------------------------------------------------------------------------
(* The theorem *)

LEMMA BoxInvNext ==
  ASSUME BoxInv, [Next]_vars
  PROVE  BoxInv'
  <1>1. CASE StartSync \/ StartOne \/ StartSet \/ StartDelete
    BY <1>1, StartsKeep
  <1>2. CASE Take
    BY <1>2, TakeKeeps
  <1>3. CASE Replace
    BY <1>3, MoveKeeps, WriteKeeps DEF Replace
  <1>4. CASE WriteMeta \/ Tombstone \/ Finish
    BY <1>4, RecordsKeep
  <1>5. CASE Fail
    BY <1>5, FailKeeps
  <1>6. CASE Crash \/ Unlock
    BY <1>6, CutKeeps
  <1>7. CASE UNCHANGED vars
    BY <1>7 DEF vars, disk, args, BoxInv, Typed, Versioned, Behind, MetaBehind, CallKept, InHand,
                Replacing
  <1> QED
    BY <1>1, <1>2, <1>3, <1>4, <1>5, <1>6, <1>7 DEF Next

\* No current box is ever older than the records on disk, or than those in memory, so
\* open_box() never refuses one as damaged: for any number of entries and any sequence of
\* syncs, edits, deletions, crashes and failed writes (vstore/entries.py, apply_sync).
THEOREM EntriesBoxesOpen == Spec => []BoxesOpen
  <1>1. BoxInv => BoxesOpen
    BY DEF BoxInv, Behind, BoxesOpen, OpenEntry, OpenBox, LiveEntry, Known, HasBox
  <1> QED
    BY BoxInvInit, BoxInvNext, <1>1, PTL DEF Spec

-----------------------------------------------------------------------------
(* The shape of the state *)

Fields == {"kind", "v", "pwmac", "smac", "hist", "deleted"}

Shaped(d) == \A i \in DOMAIN d : DOMAIN d[i] = Fields

\* Records have their fields, and a call works on the items it was given.
Shape ==
  /\ Shaped(doc) /\ Shaped(meta)
  /\ DOMAIN history = Id /\ DOMAIN due = Id /\ DOMAIN owed = Id
  /\ DOMAIN batch \subseteq Id
  /\ \A i \in DOMAIN batch : batch[i] \in Items[i]
  /\ pc \in Replacing => cur \in DOMAIN batch
  /\ pc = "idle" => DOMAIN batch = {}

Sound == BoxInv /\ Shape

LEMMA ShapeInit == Init => Shape
  BY DEF Init, Shape, Shaped, Replacing

\* A sync of what iCloud holds, or of one entry as it came back; an edit; a deletion.
LEMMA StartEffect ==
  ASSUME StartSync \/ StartOne \/ StartSet \/ StartDelete
  PROVE  /\ UNCHANGED <<disk, unlocked, doc, cur, due, owed>>
         /\ unlocked /\ pc = "idle" /\ pc' = "next"
         /\ DOMAIN batch' \subseteq Id
         /\ \/ call' = "sync" /\ \A i \in DOMAIN batch' : batch'[i] \in Forms(i)
            \/ call' = "set" /\ \A i \in DOMAIN batch' : batch'[i] \in Items[i] /\ Editable(i)
            \/ call' = "delete" /\ DOMAIN batch' = {}
  <1>1. CASE StartSync
    <2>1. PICK S \in SUBSET Id : \E b \in [S -> UNION {Items[i] : i \in S}] :
            /\ \A i \in S : b[i] \in Forms(i)
            /\ Start("sync", b, Missing(b))
      BY <1>1 DEF StartSync
    <2>2. PICK b \in [S -> UNION {Items[i] : i \in S}] :
            /\ \A i \in S : b[i] \in Forms(i)
            /\ Start("sync", b, Missing(b))
      BY <2>1
    <2>3. DOMAIN b = S
      OBVIOUS
    <2> QED
      BY <2>2, <2>3 DEF Start
  <1>2. CASE StartOne
    <2>1. PICK i \in Id : \E it \in Forms(i) : Start("sync", With(<< >>, i, it), {})
      BY <1>2 DEF StartOne
    <2>2. PICK it \in Forms(i) : Start("sync", With(<< >>, i, it), {})
      BY <2>1
    <2>3. DOMAIN With(<< >>, i, it) = {i} /\ With(<< >>, i, it)[i] = it
      BY DEF With
    <2> QED
      BY <2>2, <2>3 DEF Start
  <1>3. CASE StartSet
    <2>1. PICK i \in Id : \E it \in Items[i] : Editable(i) /\ Start("set", With(<< >>, i, it), {})
      BY <1>3 DEF StartSet
    <2>2. PICK it \in Items[i] : Editable(i) /\ Start("set", With(<< >>, i, it), {})
      BY <2>1
    <2>3. DOMAIN With(<< >>, i, it) = {i} /\ With(<< >>, i, it)[i] = it
      BY DEF With
    <2> QED
      BY <2>2, <2>3 DEF Start
  <1>4. CASE StartDelete
    <2>1. PICK i \in Id : Start("delete", << >>, {i})
      BY <1>4 DEF StartDelete
    <2>2. DOMAIN << >> = {}
      OBVIOUS
    <2> QED
      BY <2>1, <2>2 DEF Start
  <1> QED
    BY <1>1, <1>2, <1>3, <1>4

LEMMA FormsAreItems ==
  ASSUME NEW i \in Id, NEW it \in Forms(i)
  PROVE  it \in Items[i]
  BY ReturnsAssumption DEF Forms

\* The record of an item is there afterwards, with the versions, MACs and history it had; then
\* the item is as it was, or its old box goes to history first, or its box is replaced.
LEMMA TakeEffect ==
  ASSUME Sound, Take
  PROVE  \E i \in DOMAIN batch :
           /\ DOMAIN doc' = DOMAIN doc \cup {i}
           /\ \A j \in DOMAIN doc \ {i} : doc'[j] = doc[j]
           /\ DOMAIN doc'[i] = Fields
           /\ doc'[i].deleted => i \in DOMAIN doc /\ doc[i].deleted
           /\ IF i \in DOMAIN doc
              THEN /\ doc'[i].v = doc[i].v /\ doc'[i].hist = doc[i].hist
                   /\ doc'[i].pwmac = doc[i].pwmac /\ doc'[i].smac = doc[i].smac
              ELSE /\ call = "sync"
                   /\ doc'[i].v = 0 /\ doc'[i].hist = << >>
                   /\ doc'[i].pwmac = None /\ doc'[i].smac = None
           /\ \/ /\ pc' \in {"next", "final"} /\ batch' = Without(batch, i)
                 /\ doc'[i].pwmac = batch[i].pw
                 /\ doc'[i].kind = IF call = "sync" THEN batch[i].kind ELSE doc[i].kind
              \/ /\ pc' \in {"link", "write"} /\ batch' = batch /\ cur' = i
                 /\ doc'[i].kind = IF call = "sync" /\ ~LiveEntry(doc, i) THEN batch[i].kind
                                                                         ELSE doc[i].kind
                 /\ IF pc' = "link"
                    THEN /\ HasBox(i) /\ number' = NextNumber(i)
                         /\ doc'[i].pwmac \notin {None, batch[i].pw}
                    ELSE HasBox(i) => \/ doc'[i].pwmac \in {None, batch[i].pw, NoPassword}
                                      \/ doc'[i].kind = "passkey"
  <1>1. PICK i \in DOMAIN batch :
          IF HasBox(i) /\ Same(Prepared(i), batch[i])
          THEN /\ doc' = With(doc, i, [Prepared(i) EXCEPT !.kind = IF call = "sync" THEN batch[i].kind ELSE @])
               /\ batch' = Without(batch, i)
               /\ pc' \in {"final", "next"}
          ELSE /\ doc' = With(doc, i, Prepared(i))
               /\ cur' = i
               /\ IF IsHistory(i, Prepared(i), batch[i])
                  THEN number' = NextNumber(i) /\ pc' = "link"
                  ELSE pc' = "write"
               /\ batch' = batch
    BY Zenon DEF Take
  <1>2. /\ DOMAIN Prepared(i) = Fields
        /\ Prepared(i).deleted => i \in DOMAIN doc /\ doc[i].deleted
        /\ IF i \in DOMAIN doc
           THEN /\ Prepared(i).v = doc[i].v /\ Prepared(i).hist = doc[i].hist
                /\ Prepared(i).pwmac = doc[i].pwmac /\ Prepared(i).smac = doc[i].smac
           ELSE /\ call = "sync"
                /\ Prepared(i).v = 0 /\ Prepared(i).hist = << >>
                /\ Prepared(i).pwmac = None /\ Prepared(i).smac = None
        /\ Prepared(i).kind = IF call = "sync" /\ ~LiveEntry(doc, i) THEN batch[i].kind ELSE doc[i].kind
    <2>1. CASE i \in DOMAIN doc
      BY <2>1 DEF Prepared, Known, LiveEntry, Sound, Shape, Shaped, Fields
    <2>2. CASE i \notin DOMAIN doc
      BY <2>2 DEF Prepared, Known, LiveEntry, NewRecord, Sound, BoxInv, CallKept, Fields
    <2> QED
      BY <2>1, <2>2
  <1>3. CASE HasBox(i) /\ Same(Prepared(i), batch[i])
    <2>1. /\ DOMAIN doc' = DOMAIN doc \cup {i}
          /\ \A j \in DOMAIN doc \ {i} : doc'[j] = doc[j]
          /\ doc'[i] = [Prepared(i) EXCEPT !.kind = IF call = "sync" THEN batch[i].kind ELSE @]
      BY <1>1, <1>3 DEF With
    <2>2. /\ DOMAIN doc'[i] = Fields
          /\ \A f \in Fields \ {"kind"} : doc'[i][f] = Prepared(i)[f]
          /\ doc'[i].kind = IF call = "sync" THEN batch[i].kind ELSE doc[i].kind
      BY <2>1, <1>2 DEF Fields
    <2>3. doc'[i].pwmac = batch[i].pw
      BY <2>2, <1>3 DEF Same, Fields
    <2> QED
      BY <1>1, <1>2, <1>3, <2>1, <2>2, <2>3 DEF Fields
  <1>4. CASE ~(HasBox(i) /\ Same(Prepared(i), batch[i]))
    <2>1. /\ DOMAIN doc' = DOMAIN doc \cup {i}
          /\ \A j \in DOMAIN doc \ {i} : doc'[j] = doc[j]
          /\ doc'[i] = Prepared(i)
      BY <1>1, <1>4 DEF With
    <2> QED
      BY <1>1, <1>2, <1>4, <2>1 DEF IsHistory, HeldNoPassword
  <1> QED
    BY <1>3, <1>4

\* The record of the entry in hand, and those of the others, after a step that changes records.
LEMMA WrittenEffect ==
  ASSUME Sound, Written
  PROVE  /\ cur \in Id /\ cur \in DOMAIN doc /\ cur \in DOMAIN batch /\ cur \in DOMAIN box
         /\ DOMAIN doc' = DOMAIN doc
         /\ \A j \in DOMAIN doc \ {cur} : doc'[j] = doc[j]
         /\ DOMAIN doc'[cur] = Fields
         /\ doc'[cur].v = doc[cur].v + 1
         /\ doc'[cur].pwmac = batch[cur].pw /\ doc'[cur].smac = batch[cur].rest
         /\ doc'[cur].hist = doc[cur].hist
         /\ doc'[cur].kind = IF call = "sync" THEN batch[cur].kind ELSE doc[cur].kind
         /\ pc = "written" /\ pc' \in {"final", "meta", "next"}
         /\ batch' = Without(batch, cur)
         /\ due' = [due EXCEPT ![cur] = @ \cup ({batch[cur].pw} \ {NoPassword})]
         /\ UNCHANGED <<disk, unlocked, call, owed>>
  <1>1. /\ doc' = [doc EXCEPT ![cur] =
                     [Described(doc[cur], batch[cur]) EXCEPT !.kind = IF call = "sync" THEN batch[cur].kind ELSE @]]
        /\ pc = "written" /\ pc' \in {"final", "meta", "next"}
        /\ batch' = Without(batch, cur)
        /\ due' = [due EXCEPT ![cur] = @ \cup ({batch[cur].pw} \ {NoPassword})]
        /\ UNCHANGED <<disk, unlocked, call, owed>>
    BY DEF Written
  <1>2. cur \in DOMAIN doc /\ cur \in DOMAIN box /\ cur \in DOMAIN batch /\ cur \in Id
    BY <1>1 DEF Sound, BoxInv, InHand, Shape, Replacing
  <1>3. DOMAIN doc[cur] = Fields
    BY <1>2 DEF Sound, Shape, Shaped
  <1>4. /\ DOMAIN Described(doc[cur], batch[cur]) = Fields
        /\ Described(doc[cur], batch[cur]).v = doc[cur].v + 1
        /\ Described(doc[cur], batch[cur]).pwmac = batch[cur].pw
        /\ Described(doc[cur], batch[cur]).smac = batch[cur].rest
        /\ Described(doc[cur], batch[cur]).hist = doc[cur].hist
        /\ Described(doc[cur], batch[cur]).kind = doc[cur].kind
    BY <1>3 DEF Described, Fields
  <1> QED
    BY <1>1, <1>2, <1>4 DEF Fields

\* Every other step leaves the versions, MACs and kinds of the records alone; their history
\* changes only where a box has moved into it or drops out of it.
LEMMA OtherEffect ==
  ASSUME Sound, Link \/ Unlink \/ Moved \/ Trim \/ Write \/ WriteMeta \/ Tombstone \/ Finish \/ Fail
  PROVE  /\ DOMAIN doc' = DOMAIN doc
         /\ \A j \in DOMAIN doc :
              /\ DOMAIN doc'[j] = Fields
              /\ doc'[j].v = doc[j].v /\ doc'[j].kind = doc[j].kind
              /\ doc'[j].pwmac = doc[j].pwmac /\ doc'[j].smac = doc[j].smac
              /\ doc'[j].hist = CASE Moved /\ j = cur -> Append(doc[j].hist, number)
                                  [] (Trim \/ (Fail /\ pc = "trim")) /\ j = cur -> Tail(doc[j].hist)
                                  [] OTHER -> doc[j].hist
  <1>0. Shaped(doc)
    BY DEF Sound, Shape
  <1>1. CASE Moved
    <2>1. doc' = [doc EXCEPT ![cur].hist = Append(@, number)] /\ pc = "moved"
      BY <1>1 DEF Moved
    <2>2. ~Trim
      BY <2>1 DEF Trim
    <2> QED
      BY <1>0, <1>1, <2>1, <2>2 DEF Shaped, Fields
  <1>2. CASE Trim \/ (Fail /\ pc = "trim")
    <2>1. doc' = [doc EXCEPT ![cur].hist = Tail(@)] /\ pc = "trim"
      BY <1>2 DEF Trim, Fail
    <2>2. ~Moved
      BY <2>1 DEF Moved
    <2> QED
      BY <1>0, <1>2, <2>1, <2>2 DEF Shaped, Fields
  <1>3. CASE Tombstone
    <2>1. /\ doc' = [i \in DOMAIN doc |-> [doc[i] EXCEPT !.deleted = @ \/ i \in gone]]
          /\ pc = "next"
      BY <1>3 DEF Tombstone
    <2>2. ~Moved /\ ~Trim /\ pc # "trim"
      BY <2>1 DEF Moved, Trim
    <2> QED
      BY <1>0, <2>1, <2>2 DEF Shaped, Fields
  <1>4. CASE Link \/ Unlink \/ Write \/ WriteMeta \/ Finish \/ (Fail /\ pc # "trim")
    <2>1. doc' = doc
      BY <1>4 DEF Link, Unlink, Write, WriteMeta, Finish, Fail
    <2>2. ~Trim /\ ~(Fail /\ pc = "trim")
      BY <1>4 DEF Trim, Link, Unlink, Write, WriteMeta, Finish
    <2>3. ~Moved
      BY <1>4 DEF Moved, Link, Unlink, Write, WriteMeta, Finish, Fail, NoCall
    <2> QED
      BY <1>0, <2>1, <2>2, <2>3 DEF Shaped, Fields
  <1> QED
    BY <1>1, <1>2, <1>3, <1>4

LEMMA ShapeNext ==
  ASSUME Sound, [Next]_vars
  PROVE  Shape'
  <1>1. CASE StartSync \/ StartOne \/ StartSet \/ StartDelete
    <2>1. /\ UNCHANGED <<disk, doc, due, owed>> /\ pc' = "next" /\ DOMAIN batch' \subseteq Id
          /\ \/ call' = "sync" /\ \A i \in DOMAIN batch' : batch'[i] \in Items[i]
             \/ call' = "set" /\ \A i \in DOMAIN batch' : batch'[i] \in Items[i]
             \/ call' = "delete" /\ DOMAIN batch' = {}
      BY <1>1, StartEffect, FormsAreItems
    <2> QED
      BY <2>1 DEF Sound, Shape, Shaped, Replacing, disk
  <1>2. CASE Take
    <2>1. PICK i \in DOMAIN batch :
            /\ DOMAIN doc' = DOMAIN doc \cup {i}
            /\ \A j \in DOMAIN doc \ {i} : doc'[j] = doc[j]
            /\ DOMAIN doc'[i] = Fields
            /\ \/ pc' \in {"next", "final"} /\ batch' = Without(batch, i)
               \/ pc' \in {"link", "write"} /\ batch' = batch /\ cur' = i
      BY <1>2, TakeEffect
    <2>2. UNCHANGED <<disk, call, due, owed>>
      BY <1>2 DEF Take
    <2> QED
      BY <2>1, <2>2 DEF Sound, Shape, Shaped, Replacing, Without, disk
  <1>3. CASE Written
    <2>1. /\ DOMAIN doc' = DOMAIN doc
          /\ \A j \in DOMAIN doc : DOMAIN doc'[j] = Fields
          /\ pc' \in {"final", "meta", "next"}
          /\ batch' = Without(batch, cur)
          /\ DOMAIN due' = DOMAIN due
          /\ UNCHANGED <<disk, call, owed>>
      BY <1>3, WrittenEffect DEF Sound, Shape, Shaped
    <2> QED
      BY <2>1 DEF Sound, Shape, Shaped, Replacing, Without, disk
  <1>4. CASE Link \/ Unlink \/ Moved \/ Trim \/ Write \/ WriteMeta \/ Tombstone \/ Finish \/ Fail
    <2>1. Shaped(doc)'
      BY <1>4, OtherEffect DEF Shaped
    <2>2. Shaped(meta)'
      <3>1. UNCHANGED meta \/ meta' = doc
        BY <1>4 DEF Link, Unlink, Moved, Trim, Write, WriteMeta, Tombstone, Finish, Fail, Record, disk
      <3> QED
        BY <3>1 DEF Sound, Shape, Shaped
    <2>3. DOMAIN history' = Id
      BY <1>4 DEF Link, Unlink, Moved, Trim, Write, WriteMeta, Tombstone, Finish, Fail, disk,
                  Sound, Shape
    <2>4. DOMAIN due' = Id /\ DOMAIN owed' = Id
      BY <1>4 DEF Link, Unlink, Moved, Trim, Write, WriteMeta, Tombstone, Finish, Fail, Record,
                  Kept, Sound, Shape
    <2>5. \/ UNCHANGED <<batch, cur>> /\ pc' # "idle" /\ (pc' \in Replacing => pc \in Replacing)
          \/ DOMAIN batch' = {} /\ pc' = "idle"
      BY <1>4 DEF Link, Unlink, Moved, Trim, Write, WriteMeta, Tombstone, Finish, Fail, NoCall,
                  Kept, args, Replacing
    <2> QED
      BY <2>1, <2>2, <2>3, <2>4, <2>5 DEF Sound, Shape, Replacing
  <1>5. CASE Crash
    <2>1. DOMAIN doc' = {} /\ DOMAIN batch' = {} /\ DOMAIN due' = Id
      BY <1>5 DEF Crash, NoCall
    <2>2. UNCHANGED <<disk, owed>> /\ call' = "none" /\ pc' = "idle"
      BY <1>5 DEF Crash, NoCall
    <2> QED
      BY <2>1, <2>2 DEF Sound, Shape, Shaped, Replacing, disk
  <1>6. CASE Unlock
    BY <1>6 DEF Unlock, Sound, Shape, Shaped, Replacing, disk, args
  <1>7. CASE UNCHANGED vars
    BY <1>7 DEF vars, disk, args, Sound, Shape, Shaped, Replacing
  <1> QED
    BY <1>1, <1>2, <1>3, <1>4, <1>5, <1>6, <1>7 DEF Next, Replace

-----------------------------------------------------------------------------
(* The record that names a box's version describes it *)

Matches(d) ==
  \A i \in DOMAIN d : i \in DOMAIN box /\ box[i].v = d[i].v =>
    box[i].pw = d[i].pwmac /\ box[i].rest = d[i].smac

\* A new record has version 0, which no box has; and until its record is written, the box in
\* hand is one ahead, with the item that is still in the batch.
MatchInv ==
  /\ Matches(doc) /\ Matches(meta)
  /\ \A i \in DOMAIN box : box[i].v # 0
  /\ pc = "written" => box[cur].pw = batch[cur].pw /\ box[cur].rest = batch[cur].rest

LEMMA MatchInvInit == Init => MatchInv
  BY DEF Init, MatchInv, Matches

LEMMA MatchInvNext ==
  ASSUME Sound, MatchInv, [Next]_vars
  PROVE  MatchInv'
  <1>1. CASE StartSync \/ StartOne \/ StartSet \/ StartDelete
    <2>1. UNCHANGED <<disk, doc>> /\ pc' = "next"
      BY <1>1, StartEffect
    <2> QED
      BY <2>1 DEF MatchInv, Matches, disk
  <1>2. CASE Take
    <2>1. PICK i \in DOMAIN batch :
            /\ DOMAIN doc' = DOMAIN doc \cup {i}
            /\ \A j \in DOMAIN doc \ {i} : doc'[j] = doc[j]
            /\ IF i \in DOMAIN doc
               THEN /\ doc'[i].v = doc[i].v
                    /\ doc'[i].pwmac = doc[i].pwmac /\ doc'[i].smac = doc[i].smac
               ELSE doc'[i].v = 0
            /\ pc' # "written"
      BY <1>2, TakeEffect, Zenon
    <2>2. UNCHANGED disk
      BY <1>2 DEF Take
    <2> QED
      BY <2>1, <2>2 DEF MatchInv, Matches, disk
  <1>3. CASE Written
    BY <1>3, WrittenEffect DEF MatchInv, Matches, disk
  <1>4. CASE Write
    <2>1. /\ box' = With(box, cur, [v |-> doc[cur].v + 1, pw |-> batch[cur].pw, rest |-> batch[cur].rest])
          /\ pc = "write" /\ UNCHANGED <<meta, doc, batch, cur>>
      BY <1>4 DEF Write, NewVersion, Kept, args
    <2>2. cur \in DOMAIN doc /\ doc[cur].v \in Nat
      BY <2>1 DEF Sound, BoxInv, InHand, Replacing, Typed, Versioned
    <2>3. /\ box'[cur] = [v |-> doc[cur].v + 1, pw |-> batch[cur].pw, rest |-> batch[cur].rest]
          /\ DOMAIN box' = DOMAIN box \cup {cur}
          /\ \A j \in DOMAIN box \ {cur} : box'[j] = box[j]
      BY <2>1 DEF With
    <2>4. cur \in DOMAIN meta => meta[cur].v \in Nat /\ meta[cur].v <= doc[cur].v
      BY <2>1, <2>2 DEF Sound, BoxInv, MetaBehind, CallKept, Typed, Versioned
    <2>5. Matches(doc)' /\ Matches(meta)'
      BY <2>1, <2>2, <2>3, <2>4 DEF MatchInv, Matches
    <2> QED
      BY <2>1, <2>2, <2>3, <2>5 DEF MatchInv
  <1>5. CASE Link \/ Unlink \/ Moved \/ Trim \/ WriteMeta \/ Tombstone \/ Finish \/ Fail
    <2>1. /\ DOMAIN doc' = DOMAIN doc
          /\ \A j \in DOMAIN doc :
               doc'[j].v = doc[j].v /\ doc'[j].pwmac = doc[j].pwmac /\ doc'[j].smac = doc[j].smac
      BY <1>5, OtherEffect
    <2>2. UNCHANGED meta \/ meta' = doc
      BY <1>5 DEF Link, Unlink, Moved, Trim, WriteMeta, Tombstone, Finish, Fail, Record, disk
    <2>3. DOMAIN box' \subseteq DOMAIN box /\ \A j \in DOMAIN box' : box'[j] = box[j]
      BY <1>5 DEF Link, Unlink, Moved, Trim, WriteMeta, Tombstone, Finish, Fail, Without, disk
    <2>4. pc' # "written"
      BY <1>5 DEF Link, Unlink, Moved, Trim, WriteMeta, Tombstone, Finish, Fail, NoCall
    <2> QED
      BY <2>1, <2>2, <2>3, <2>4 DEF MatchInv, Matches
  <1>6. CASE Crash \/ Unlock
    <2>1. UNCHANGED disk /\ (DOMAIN doc' = {} \/ doc' = meta)
      BY <1>6 DEF Crash, Unlock
    <2>2. pc' = "idle"
      BY <1>6 DEF Crash, NoCall, Unlock, Sound, BoxInv, CallKept
    <2> QED
      BY <2>1, <2>2 DEF MatchInv, Matches, disk
  <1>7. CASE UNCHANGED vars
    BY <1>7 DEF vars, disk, args, MatchInv, Matches
  <1> QED
    BY <1>1, <1>2, <1>3, <1>4, <1>5, <1>6, <1>7 DEF Next, Replace

LEMMA SoundInit == Init => Sound
  BY BoxInvInit, ShapeInit DEF Sound

LEMMA SoundNext == Sound /\ [Next]_vars => Sound'
  BY BoxInvNext, ShapeNext DEF Sound

\* A record never claims a box it does not describe, whatever crash or error cut a call short,
\* so an item that a sync finds unchanged is unchanged (_replace_secrets of vstore/__init__.py):
\* at every step, and for the records on disk too.
THEOREM EntriesRecordsMatchBoxes == Spec => []RecordsMatchBoxes
  <1>1. Init => Sound /\ MatchInv
    BY SoundInit, MatchInvInit
  <1>2. Sound /\ MatchInv /\ [Next]_vars => Sound' /\ MatchInv'
    BY SoundNext, MatchInvNext
  <1>3. MatchInv => RecordsMatchBoxes
    BY DEF MatchInv, Matches, RecordsMatchBoxes, Known, HasBox
  <1> QED
    BY <1>1, <1>2, <1>3, PTL DEF Spec

-----------------------------------------------------------------------------
(* No recorded password is lost *)

\* What iCloud brings back after it had deleted it is a login.  Without this the theorem is
\* false: a login that comes back as a passkey alone leaves its password in no box.
LoginsReturn == \A i \in Id : \A it \in Returns[i] : it.kind = "login"

Passwordless(r) == r.kind = "passkey" => r.pwmac \in {None, NoPassword}

\* Box i holds password p, and the records d say so.
NamedBox(d, i, p) == i \in DOMAIN box /\ box[i].pw = p /\ i \in DOMAIN d /\ d[i].pwmac = p

HeldBy(d, i, p) == p \in HistoryHolds(i) \/ NamedBox(d, i, p)

\* Each password in due or owed is in history, or is the one its record names.
Held ==
  \A i \in Id :
    /\ \A p \in due[i] \cup owed[i] : p \notin {None, NoPassword}
    /\ \A p \in owed[i] : HeldBy(meta, i, p)
    /\ unlocked => \A p \in due[i] \cup owed[i] : HeldBy(doc, i, p)
    /\ ~unlocked => due[i] = {}

\* A box whose record names a password is overwritten only with that password.
Overwrites ==
  /\ pc = "write" /\ HasBox(cur) => doc[cur].pwmac \in {None, NoPassword, batch[cur].pw}
  /\ pc = "written" => box[cur].pw = batch[cur].pw
  /\ pc \in {"moved", "trim"} => ~HasBox(cur)
  /\ pc \in {"link", "unlink"} => HasBox(cur)
  /\ pc = "unlink" => number \in Numbers(cur) /\ history[cur][number] = box[cur]

\* Where an item would make the record one of a passkey, the record names no password.
Kinds ==
  /\ \A i \in DOMAIN doc : Passwordless(doc[i])
  /\ \A i \in DOMAIN meta : Passwordless(meta[i])
  /\ \A i \in DOMAIN batch :
       IF call = "sync"
       THEN i \in DOMAIN doc /\ doc[i].deleted => batch[i].kind = "login"
       ELSE doc[i].kind = "login"

HeldInv == Held /\ Overwrites /\ Kinds

LEMMA HeldInvInit == Init => HeldInv
  BY DEF Init, HeldInv, Held, Overwrites, Kinds

LEMMA KindsNext ==
  ASSUME LoginsReturn, Sound, HeldInv, [Next]_vars
  PROVE  Kinds'
  <1>1. CASE StartSync \/ StartOne \/ StartSet \/ StartDelete
    <2>1. /\ UNCHANGED <<disk, doc>> /\ DOMAIN batch' \subseteq Id
          /\ \/ call' = "sync" /\ \A i \in DOMAIN batch' : batch'[i] \in Forms(i)
             \/ call' = "set" /\ \A i \in DOMAIN batch' : Editable(i)
             \/ call' = "delete" /\ DOMAIN batch' = {}
      BY <1>1, StartEffect
    <2>2. /\ \A i \in DOMAIN doc' : Passwordless(doc'[i])
          /\ \A i \in DOMAIN meta' : Passwordless(meta'[i])
      BY <2>1 DEF HeldInv, Kinds, disk
    <2> QED
      BY <2>1, <2>2 DEF LoginsReturn, Kinds, Forms, Known, Editable
  <1>2. CASE Take
    <2>1. PICK i \in DOMAIN batch :
            /\ DOMAIN doc' = DOMAIN doc \cup {i}
            /\ \A j \in DOMAIN doc \ {i} : doc'[j] = doc[j]
            /\ doc'[i].deleted => i \in DOMAIN doc /\ doc[i].deleted
            /\ IF i \in DOMAIN doc THEN doc'[i].pwmac = doc[i].pwmac
                                   ELSE call = "sync" /\ doc'[i].pwmac = None
            /\ \/ /\ batch' = Without(batch, i)
                  /\ doc'[i].pwmac = batch[i].pw
                  /\ doc'[i].kind = IF call = "sync" THEN batch[i].kind ELSE doc[i].kind
               \/ /\ batch' = batch
                  /\ doc'[i].kind = IF call = "sync" /\ ~LiveEntry(doc, i) THEN batch[i].kind
                                                                          ELSE doc[i].kind
      BY <1>2, TakeEffect
    <2>2. UNCHANGED <<disk, call>>
      BY <1>2 DEF Take
    <2>3. batch[i] \in Items[i] /\ i \in Id
      BY DEF Sound, Shape
    <2>4. Passwordless(doc'[i])
      BY <2>1, <2>3, ItemsAssumption DEF HeldInv, Kinds, Passwordless, LiveEntry, Known
    <2>5. \A j \in DOMAIN batch' :
            IF call = "sync" THEN j \in DOMAIN doc' /\ doc'[j].deleted => batch'[j].kind = "login"
                             ELSE doc'[j].kind = "login"
      <3>1. \A j \in DOMAIN batch' : j \in DOMAIN batch /\ batch'[j] = batch[j]
        BY <2>1 DEF Without
      <3>2. \A j \in DOMAIN batch' \ {i} : call # "sync" => j \in DOMAIN doc
        BY <3>1 DEF Sound, BoxInv, CallKept
      <3>3. i \in DOMAIN batch' =>
              IF call = "sync" THEN doc'[i].deleted => batch[i].kind = "login" ELSE doc'[i].kind = "login"
        BY <2>1 DEF HeldInv, Kinds, Without
      <3> QED
        BY <2>1, <3>1, <3>2, <3>3 DEF HeldInv, Kinds
    <2> QED
      BY <2>1, <2>2, <2>4, <2>5 DEF HeldInv, Kinds, disk
  <1>3. CASE Written
    <2>1. /\ cur \in DOMAIN doc /\ cur \in DOMAIN batch
          /\ DOMAIN doc' = DOMAIN doc
          /\ \A j \in DOMAIN doc \ {cur} : doc'[j] = doc[j]
          /\ doc'[cur].pwmac = batch[cur].pw
          /\ doc'[cur].kind = IF call = "sync" THEN batch[cur].kind ELSE doc[cur].kind
          /\ batch' = Without(batch, cur)
          /\ UNCHANGED <<disk, call>>
      BY <1>3, WrittenEffect
    <2>2. batch[cur] \in Items[cur] /\ cur \in Id
      BY <2>1 DEF Sound, Shape
    <2>3. Passwordless(doc'[cur])
      BY <2>1, <2>2, ItemsAssumption DEF HeldInv, Kinds, Passwordless
    <2>4. \A j \in DOMAIN batch' : j \in DOMAIN batch /\ j # cur /\ batch'[j] = batch[j]
      BY <2>1 DEF Without
    <2>5. call # "sync" => \A j \in DOMAIN batch : j \in DOMAIN doc
      BY DEF Sound, BoxInv, CallKept
    <2> QED
      BY <2>1, <2>3, <2>4, <2>5 DEF HeldInv, Kinds, disk
  <1>4. CASE Link \/ Unlink \/ Moved \/ Trim \/ Write \/ WriteMeta \/ Tombstone \/ Finish \/ Fail
    <2>1. /\ DOMAIN doc' = DOMAIN doc
          /\ \A j \in DOMAIN doc : doc'[j].kind = doc[j].kind /\ doc'[j].pwmac = doc[j].pwmac
      BY <1>4, OtherEffect
    <2>2. UNCHANGED meta \/ meta' = doc
      BY <1>4 DEF Link, Unlink, Moved, Trim, Write, WriteMeta, Tombstone, Finish, Fail, Record, disk
    <2>3. \/ UNCHANGED <<batch, call>>
          \/ DOMAIN batch' = {}
      BY <1>4 DEF Link, Unlink, Moved, Trim, Write, WriteMeta, Tombstone, Finish, Fail, NoCall,
                  Kept, args
    <2>4. call = "sync" => \A j \in DOMAIN doc : j \in DOMAIN batch => doc'[j].deleted = doc[j].deleted
      <3>1. CASE Tombstone
        BY <3>1 DEF Tombstone
      <3>2. CASE ~Tombstone
        <4>1. \/ doc' = doc
              \/ \E f : doc' = [doc EXCEPT ![cur].hist = f]
          BY <1>4, <3>2 DEF Link, Unlink, Moved, Trim, Write, WriteMeta, Finish, Fail
        <4> QED
          BY <4>1 DEF Sound, Shape, Shaped, Fields
      <3> QED
        BY <3>1, <3>2
    <2>5. call # "sync" => DOMAIN batch \subseteq DOMAIN doc
      BY DEF Sound, BoxInv, CallKept
    <2> QED
      BY <2>1, <2>2, <2>3, <2>4, <2>5 DEF HeldInv, Kinds, Passwordless
  <1>5. CASE Crash \/ Unlock
    <2>1. /\ UNCHANGED disk
          /\ DOMAIN doc' = {} \/ doc' = meta
          /\ DOMAIN batch' = {}
      BY <1>5 DEF Crash, NoCall, Unlock, Sound, BoxInv, CallKept, Shape, Replacing, args
    <2> QED
      BY <2>1 DEF HeldInv, Kinds, disk
  <1>6. CASE UNCHANGED vars
    BY <1>6 DEF vars, disk, args, HeldInv, Kinds
  <1> QED
    BY <1>1, <1>2, <1>3, <1>4, <1>5, <1>6 DEF Next, Replace

LEMMA OverwritesNext ==
  ASSUME Sound, HeldInv, Kinds', [Next]_vars
  PROVE  Overwrites'
  <1>1. CASE StartSync \/ StartOne \/ StartSet \/ StartDelete
    BY <1>1, StartEffect DEF Overwrites
  <1>2. CASE Take
    <2>1. PICK i \in DOMAIN batch :
            /\ DOMAIN doc' = DOMAIN doc \cup {i}
            /\ \/ pc' \in {"next", "final"}
               \/ /\ pc' \in {"link", "write"} /\ batch' = batch /\ cur' = i
                  /\ IF pc' = "link"
                     THEN HasBox(i)
                     ELSE HasBox(i) => \/ doc'[i].pwmac \in {None, batch[i].pw, NoPassword}
                                       \/ doc'[i].kind = "passkey"
      BY <1>2, TakeEffect
    <2>2. Passwordless(doc'[i])
      BY <2>1 DEF Kinds
    <2>3. UNCHANGED box
      BY <1>2 DEF Take, disk
    <2> QED
      BY <2>1, <2>2, <2>3 DEF Overwrites, Passwordless, HasBox
  <1>3. CASE Link
    BY <1>3 DEF Link, HeldInv, Overwrites, HasBox, Numbers, With, Kept, args, Sound, Shape, Replacing
  <1>4. CASE Unlink
    BY <1>4 DEF Unlink, Overwrites, HasBox, Without, Kept, args
  <1>5. CASE Moved \/ Trim
    <2>1. UNCHANGED <<box, cur>> /\ pc \in {"moved", "trim"} /\ pc' \in {"trim", "write"}
      BY <1>5 DEF Moved, Trim, Kept, disk, args
    <2> QED
      BY <2>1 DEF HeldInv, Overwrites, HasBox
  <1>6. CASE Write
    BY <1>6 DEF Write, Overwrites, With, Kept, args
  <1>7. CASE Written \/ WriteMeta \/ Tombstone \/ Finish \/ Fail \/ Crash
    <2>1. pc' \in {"idle", "next", "meta", "final"}
      BY <1>7 DEF Written, WriteMeta, Tombstone, Finish, Fail, Crash, NoCall
    <2> QED
      BY <2>1 DEF Overwrites
  <1>8. CASE Unlock
    BY <1>8 DEF Unlock, Overwrites, Sound, BoxInv, CallKept
  <1>9. CASE UNCHANGED vars
    BY <1>9 DEF vars, disk, args, HeldInv, Overwrites, HasBox, Numbers
  <1> QED
    BY <1>1, <1>2, <1>3, <1>4, <1>5, <1>6, <1>7, <1>8, <1>9 DEF Next, Replace

LEMMA HeldNext ==
  ASSUME Sound, HeldInv, [Next]_vars
  PROVE  Held'
  <1>0. \A i \in Id :
          /\ \A p \in due[i] \cup owed[i] : p \notin {None, NoPassword}
          /\ \A p \in owed[i] : HeldBy(meta, i, p)
          /\ unlocked => \A p \in due[i] \cup owed[i] : HeldBy(doc, i, p)
          /\ ~unlocked => due[i] = {}
    BY DEF HeldInv, Held
  <1>1. CASE StartSync \/ StartOne \/ StartSet \/ StartDelete \/ UNCHANGED vars
    <2>1. UNCHANGED <<disk, unlocked, doc, due, owed>>
      BY <1>1, StartEffect DEF vars
    <2> QED
      BY <1>0, <2>1 DEF Held, HeldBy, NamedBox, HistoryHolds, Numbers, disk
  <1>2. CASE Take
    <2>1. PICK i \in DOMAIN batch :
            /\ DOMAIN doc' = DOMAIN doc \cup {i}
            /\ \A j \in DOMAIN doc \ {i} : doc'[j] = doc[j]
            /\ i \in DOMAIN doc => doc'[i].pwmac = doc[i].pwmac
      BY <1>2, TakeEffect
    <2>2. UNCHANGED <<disk, unlocked, due, owed>>
      BY <1>2 DEF Take
    <2> QED
      BY <1>0, <2>1, <2>2 DEF Held, HeldBy, NamedBox, HistoryHolds, Numbers, disk
  <1>3. CASE Link
    <2>1. /\ history' = [history EXCEPT ![cur] = With(@, number, box[cur])]
          /\ number \notin Numbers(cur)
          /\ UNCHANGED <<box, meta, unlocked, doc, due, owed>>
      BY <1>3 DEF Link, Kept
    <2>2. \A i \in Id : HistoryHolds(i) \subseteq HistoryHolds(i)'
      BY <2>1 DEF HistoryHolds, Numbers, With, Sound, Shape
    <2> QED
      BY <1>0, <2>1, <2>2 DEF Held, HeldBy, NamedBox
  <1>4. CASE Unlink
    <2>1. /\ box' = Without(box, cur) /\ pc = "unlink"
          /\ UNCHANGED <<history, meta, unlocked, doc, due, owed>>
      BY <1>4 DEF Unlink, Kept
    <2>2. box[cur].pw \in HistoryHolds(cur)
      BY <2>1 DEF HeldInv, Overwrites, HistoryHolds
    <2>3. \A i \in Id : HistoryHolds(i)' = HistoryHolds(i)
      BY <2>1 DEF HistoryHolds, Numbers
    <2>4. \A i \in DOMAIN box \ {cur} : i \in DOMAIN box' /\ box'[i] = box[i]
      BY <2>1 DEF Without
    <2> QED
      BY <1>0, <2>1, <2>2, <2>3, <2>4 DEF Held, HeldBy, NamedBox
  <1>5. CASE Trim
    <2> DEFINE dropped == HistoryHolds(cur) \ HistoryHolds(cur)'
    <2>1. /\ history' = [history EXCEPT ![cur] = Without(@, Head(doc[cur].hist))]
          /\ due' = [due EXCEPT ![cur] = @ \ dropped]
          /\ owed' = [owed EXCEPT ![cur] = @ \ dropped]
          /\ UNCHANGED <<box, meta, unlocked, cur>>
      BY <1>5 DEF Trim, args
    <2>2. /\ DOMAIN doc' = DOMAIN doc
          /\ \A j \in DOMAIN doc : doc'[j].pwmac = doc[j].pwmac
      BY <1>5, OtherEffect
    <2>3. \A i \in Id : i # cur => HistoryHolds(i)' = HistoryHolds(i) /\ due'[i] = due[i] /\ owed'[i] = owed[i]
      BY <2>1 DEF HistoryHolds, Numbers, Sound, Shape
    <2>4. cur \in Id => due'[cur] = due[cur] \ dropped /\ owed'[cur] = owed[cur] \ dropped
      BY <2>1 DEF Sound, Shape
    <2>5. \A i \in Id : /\ due'[i] \subseteq due[i] /\ owed'[i] \subseteq owed[i]
                        /\ \A p \in due'[i] \cup owed'[i] : p \in HistoryHolds(i) => p \in HistoryHolds(i)'
      <3> SUFFICES ASSUME NEW i \in Id
                   PROVE  /\ due'[i] \subseteq due[i] /\ owed'[i] \subseteq owed[i]
                          /\ \A p \in due'[i] \cup owed'[i] :
                               p \in HistoryHolds(i) => p \in HistoryHolds(i)'
        OBVIOUS
      <3>1. CASE i = cur
        <4>1. HistoryHolds(i) = HistoryHolds(cur) /\ HistoryHolds(i)' = HistoryHolds(cur)'
          BY <2>1, <3>1 DEF HistoryHolds, Numbers
        <4> HIDE DEF HistoryHolds
        <4> QED
          BY <2>4, <3>1, <4>1
      <3>2. CASE i # cur
        BY <2>3, <3>2
      <3> QED
        BY <3>1, <3>2
    <2> HIDE DEF dropped
    <2> QED
      BY <1>0, <2>1, <2>2, <2>5 DEF Held, HeldBy, NamedBox
  <1>6. CASE Write
    <2>1. /\ box' = With(box, cur, [v |-> NewVersion(doc[cur]), pw |-> batch[cur].pw, rest |-> batch[cur].rest])
          /\ pc = "write" /\ unlocked
          /\ UNCHANGED <<history, meta, unlocked, doc, due, owed>>
      BY <1>6 DEF Write, Kept, Sound, BoxInv, CallKept
    <2>2. /\ cur \in DOMAIN box' /\ box'[cur].pw = batch[cur].pw
          /\ \A i \in DOMAIN box \ {cur} : i \in DOMAIN box' /\ box'[i] = box[i]
      BY <2>1 DEF With
    <2>3. cur \in DOMAIN box => doc[cur].pwmac \in {None, NoPassword, batch[cur].pw}
      BY <2>1 DEF HeldInv, Overwrites, HasBox
    <2>4. \A i \in Id : HistoryHolds(i)' = HistoryHolds(i)
      BY <2>1 DEF HistoryHolds, Numbers
    <2>5. \A i \in Id : \A p \in due[i] \cup owed[i] :
            p \in HistoryHolds(i) \/ (i \in DOMAIN box' /\ box'[i].pw = p /\ i \in DOMAIN doc /\ doc[i].pwmac = p)
      BY <1>0, <2>1, <2>2, <2>3 DEF HeldBy, NamedBox
    <2> QED
      BY <1>0, <2>1, <2>4, <2>5 DEF Held, HeldBy, NamedBox
  <1>7. CASE Written
    <2>1. /\ cur \in Id /\ cur \in DOMAIN doc /\ cur \in DOMAIN batch /\ cur \in DOMAIN box
          /\ DOMAIN doc' = DOMAIN doc
          /\ \A j \in DOMAIN doc \ {cur} : doc'[j] = doc[j]
          /\ doc'[cur].pwmac = batch[cur].pw
          /\ pc = "written"
          /\ due' = [due EXCEPT ![cur] = @ \cup ({batch[cur].pw} \ {NoPassword})]
          /\ UNCHANGED <<disk, unlocked, owed>>
      BY <1>7, WrittenEffect
    <2>2. box[cur].pw = batch[cur].pw /\ unlocked
      BY <2>1 DEF HeldInv, Overwrites, Sound, BoxInv, CallKept
    <2>3. batch[cur].pw # None
      BY <2>1, ItemsAssumption DEF Sound, Shape
    <2>4. /\ due'[cur] = due[cur] \cup ({batch[cur].pw} \ {NoPassword})
          /\ \A i \in Id \ {cur} : due'[i] = due[i]
      BY <2>1 DEF Sound, Shape
    <2>5. UNCHANGED <<box, history, meta>> /\ \A i \in Id : HistoryHolds(i)' = HistoryHolds(i)
      BY <2>1 DEF disk, HistoryHolds, Numbers
    <2>6. ASSUME NEW i \in Id, NEW p \in due'[i] \cup owed'[i]
          PROVE  p \notin {None, NoPassword} /\ HeldBy(doc', i, p)
      <3>1. CASE i = cur
        BY <1>0, <2>1, <2>2, <2>3, <2>4, <2>6, <3>1 DEF HeldBy, NamedBox
      <3>2. CASE i # cur
        BY <1>0, <2>1, <2>2, <2>4, <2>6, <3>2 DEF HeldBy, NamedBox
      <3> QED
        BY <3>1, <3>2
    <2> QED
      BY <1>0, <2>1, <2>2, <2>5, <2>6 DEF Held, HeldBy, NamedBox
  <1>8. CASE (WriteMeta \/ Finish \/ Fail) /\ Record
    <2>1. /\ meta' = doc
          /\ \A i \in Id : due'[i] = {} /\ owed'[i] = owed[i] \cup due[i]
          /\ UNCHANGED <<box, history, unlocked>>
      BY <1>8 DEF Record, WriteMeta, Finish, Fail
    <2>2. /\ DOMAIN doc' = DOMAIN doc
          /\ \A j \in DOMAIN doc : doc'[j].pwmac = doc[j].pwmac
      BY <1>8, OtherEffect
    <2>3. unlocked
      BY <1>8 DEF WriteMeta, Finish, Fail, Sound, BoxInv, CallKept
    <2> QED
      BY <1>0, <2>1, <2>2, <2>3 DEF Held, HeldBy, NamedBox, HistoryHolds, Numbers
  <1>9. CASE Moved \/ Tombstone \/ (Fail /\ ~Record)
    <2>1. UNCHANGED <<disk, unlocked, due, owed>>
      BY <1>9 DEF Moved, Tombstone, Fail, Kept, disk
    <2>2. /\ DOMAIN doc' = DOMAIN doc
          /\ \A j \in DOMAIN doc : doc'[j].pwmac = doc[j].pwmac
      BY <1>9, OtherEffect
    <2> QED
      BY <1>0, <2>1, <2>2 DEF Held, HeldBy, NamedBox, HistoryHolds, Numbers, disk
  <1>10. CASE Crash
    <2>1. ~unlocked' /\ \A i \in Id : due'[i] = {}
      BY <1>10 DEF Crash
    <2>2. UNCHANGED <<disk, owed>>
      BY <1>10 DEF Crash
    <2> QED
      BY <1>0, <2>1, <2>2 DEF Held, HeldBy, NamedBox, HistoryHolds, Numbers, disk
  <1>11. CASE Unlock
    <2>1. ~unlocked /\ doc' = meta /\ UNCHANGED <<disk, due, owed>>
      BY <1>11 DEF Unlock
    <2> QED
      BY <1>0, <2>1 DEF Held, HeldBy, NamedBox, HistoryHolds, Numbers, disk
  <1>12. WriteMeta \/ Finish => Record
    BY DEF WriteMeta, Finish
  <1> QED
    BY <1>1, <1>2, <1>3, <1>4, <1>5, <1>6, <1>7, <1>8, <1>9, <1>10, <1>11, <1>12 DEF Next, Replace

\* No password that meta.v2 has recorded is lost, whatever crash or error cuts a call short: it
\* stays in the current box or in a history box until the retention limit drops it
\* (_replace_secrets: the old box moves to history before the new one is written), if what
\* comes back from iCloud after it was deleted there is a login.
THEOREM EntriesPasswordsKept ==
  ASSUME LoginsReturn
  PROVE  Spec => []PasswordsKept
  <1>1. Init => Sound /\ HeldInv
    BY SoundInit, HeldInvInit
  <1>2. Sound /\ HeldInv /\ [Next]_vars => Sound' /\ HeldInv'
    BY SoundNext, KindsNext, OverwritesNext, HeldNext DEF HeldInv
  <1>3. HeldInv => PasswordsKept
    BY DEF HeldInv, Held, HeldBy, NamedBox, HistoryHolds, PasswordsKept, HasBox
  <1> QED
    BY <1>1, <1>2, <1>3, PTL DEF Spec

-----------------------------------------------------------------------------
(* Only the retention limit removes a history box *)

\* A bounded set of numbers that is not empty has a largest one.
LEMMA MaxOfBounded ==
  ASSUME NEW S \in SUBSET Nat, S # {}, NEW b \in Nat, \A x \in S : x <= b
  PROVE  Max(S) \in S /\ \A x \in S : x <= Max(S)
  <1> DEFINE U == {c \in Nat : \A x \in S : x <= c}
             T == {0..c : c \in U}
  <1>1. T \subseteq FiniteSubsetsOf(Nat)
    <2> SUFFICES ASSUME NEW c \in U PROVE 0..c \in FiniteSubsetsOf(Nat)
      OBVIOUS
    <2>1. IsFiniteSet(0..c) /\ 0..c \in SUBSET Nat
      BY FS_Interval
    <2> QED
      BY <2>1 DEF FiniteSubsetsOf
  <1>2. T # {}
    OBVIOUS
  <1>3. IsWellFoundedOn(StrictSubsetOrdering(Nat), FiniteSubsetsOf(Nat))
    BY FS_StrictSubsetOrderingWellFounded
  <1>4. \E X \in T : \A Y \in T : <<Y, X>> \notin StrictSubsetOrdering(Nat)
    <2> HIDE DEF T
    <2> QED
      BY <1>1, <1>2, <1>3, WFMin
  <1>5. PICK c \in U : \A Y \in T : <<Y, 0..c>> \notin StrictSubsetOrdering(Nat)
    BY <1>4
  <1>6. c \in S
    <2> SUFFICES ASSUME c \notin S PROVE FALSE
      OBVIOUS
    <2>1. \A x \in S : x <= c - 1
      OBVIOUS
    <2>2. PICK x \in S : TRUE
      OBVIOUS
    <2>3. c - 1 \in U
      BY <2>1, <2>2
    <2>4. 0..(c-1) \in T
      BY <2>3
    <2>5. 0..(c-1) \subseteq 0..c /\ c \in 0..c /\ c \notin 0..(c-1)
      OBVIOUS
    <2>6. <<0..(c-1), 0..c>> \in StrictSubsetOrdering(Nat)
      BY <2>5 DEF StrictSubsetOrdering
    <2> QED
      BY <2>4, <2>6, <1>5
  <1> QED
    BY <1>5, <1>6 DEF Max

Increasing(s) == \A a, b \in 1..Len(s) : a < b => s[a] < s[b]

\* The numbers of N that are newer than n
NewerThan(N, n) == {m \in N : m > n}

\* Each number of s that N lacks has MaxHistory newer ones in N.
Spares(s, N) == \A n \in ToSet(s) \ N : Cardinality(NewerThan(N, n)) >= MaxHistory

LEMMA LargerSet ==
  ASSUME NEW S, NEW T, IsFiniteSet(T), S \subseteq T, Cardinality(S) >= MaxHistory
  PROVE  Cardinality(T) >= MaxHistory
  BY FS_Subset, FS_CardinalityType, MaxHistoryAssumption

LEMMA BoundedIsFinite ==
  ASSUME NEW N \in SUBSET Nat, NEW b \in Nat, \A n \in N : n <= b, NEW n
  PROVE  IsFiniteSet(N) /\ IsFiniteSet(NewerThan(N, n))
  BY FS_BoundedSetOfNaturals, FS_Subset DEF NewerThan

\* What an increasing sequence has after its first element
LEMMA TailIsNewer ==
  ASSUME NEW s \in Seq(Nat), Increasing(s), s # << >>
  PROVE  /\ Tail(s) \in Seq(Nat) /\ Increasing(Tail(s))
         /\ ToSet(s) = {Head(s)} \cup ToSet(Tail(s))
         /\ \A n \in ToSet(Tail(s)) : n > Head(s)
         /\ Cardinality(ToSet(Tail(s))) = Len(s) - 1
  <1>1. /\ Len(s) \in Nat \ {0} /\ Len(Tail(s)) = Len(s) - 1 /\ Tail(s) \in Seq(Nat)
        /\ \A j \in 1..Len(s) - 1 : Tail(s)[j] = s[j+1]
        /\ Head(s) = s[1]
    OBVIOUS
  <1>2. DOMAIN s = 1..Len(s) /\ DOMAIN Tail(s) = 1..Len(s) - 1
    BY <1>1
  <1>3. Increasing(Tail(s))
    BY <1>1 DEF Increasing
  <1>4. ToSet(s) = {Head(s)} \cup ToSet(Tail(s))
    <2>1. \A j \in 1..Len(s) : j = 1 \/ (j - 1 \in 1..Len(s) - 1 /\ s[j] = Tail(s)[j-1])
      BY <1>1
    <2>2. \A j \in 1..Len(s) - 1 : j + 1 \in 1..Len(s)
      BY <1>1
    <2>3. ASSUME NEW n \in ToSet(s) PROVE n \in {Head(s)} \cup ToSet(Tail(s))
      <3>1. PICK j \in 1..Len(s) : n = s[j]
        BY <1>2 DEF ToSet
      <3> QED
        BY <1>1, <1>2, <2>1, <3>1 DEF ToSet
    <2>4. ASSUME NEW n \in ToSet(Tail(s)) PROVE n \in ToSet(s)
      <3>1. PICK j \in 1..Len(s) - 1 : n = Tail(s)[j]
        BY <1>2 DEF ToSet
      <3> QED
        BY <1>1, <1>2, <2>2, <3>1 DEF ToSet
    <2>5. Head(s) \in ToSet(s)
      BY <1>1, <1>2 DEF ToSet
    <2> QED
      BY <2>3, <2>4, <2>5
  <1>5. \A n \in ToSet(Tail(s)) : n > Head(s)
    BY <1>1, <1>2 DEF ToSet, Increasing
  <1>6. Cardinality(ToSet(Tail(s))) = Len(s) - 1
    <2> DEFINE k == Len(s) - 1
               f == [j \in 1..k |-> Tail(s)[j]]
    <2>1. \A a, b \in 1..k : f[a] = f[b] => a = b
      <3>1. \A a, b \in 1..k : a < b => f[a] < f[b] /\ f[a] \in Nat /\ f[b] \in Nat
        BY <1>1, <1>3 DEF Increasing
      <3> QED
        BY <1>1, <3>1
    <2>2. f \in Bijection(1..k, ToSet(Tail(s)))
      BY <1>2, <2>1 DEF Bijection, Injection, Surjection, IsInjective, ToSet
    <2> QED
      BY <1>1, <2>2, FS_CountingElements DEF ExistsBijection
  <1> QED
    BY <1>1, <1>3, <1>4, <1>5, <1>6

\* drop_history() past the limit: the number that goes has MaxHistory newer ones.
LEMMA DropLeavesEnough ==
  ASSUME NEW s \in Seq(Nat), Increasing(s), Len(s) > MaxHistory,
         NEW N \in SUBSET Nat, NEW b \in Nat, \A n \in N : n <= b,
         Spares(s, N)
  PROVE  Cardinality(NewerThan(N \ {Head(s)}, Head(s))) >= MaxHistory
  <1>1. s # << >> /\ Len(s) \in Nat
    BY MaxHistoryAssumption
  <1>2. /\ ToSet(s) = {Head(s)} \cup ToSet(Tail(s))
        /\ \A n \in ToSet(Tail(s)) : n > Head(s) /\ n \in Nat
        /\ Cardinality(ToSet(Tail(s))) = Len(s) - 1
        /\ Head(s) \in Nat
    <2>1. ToSet(s) \subseteq Nat /\ Head(s) \in Nat
      BY <1>1 DEF ToSet
    <2> QED
      BY <1>1, <2>1, TailIsNewer
  <1> DEFINE M == NewerThan(N \ {Head(s)}, Head(s))
  <1>3. IsFiniteSet(M)
    BY BoundedIsFinite
  <1>4. CASE ToSet(Tail(s)) \subseteq N
    <2>1. ToSet(Tail(s)) \subseteq M
      BY <1>2, <1>4 DEF NewerThan
    <2>2. Cardinality(ToSet(Tail(s))) >= MaxHistory
      BY <1>1, <1>2, MaxHistoryAssumption
    <2> QED
      BY <1>3, <2>1, <2>2, LargerSet
  <1>5. CASE ~(ToSet(Tail(s)) \subseteq N)
    <2>1. PICK n \in ToSet(Tail(s)) : n \notin N
      BY <1>5
    <2>2. Cardinality(NewerThan(N, n)) >= MaxHistory
      BY <1>2, <2>1 DEF Spares
    <2>3. ASSUME NEW m \in N, m > n PROVE m \in M
      <3>1. m \in Nat /\ n \in Nat /\ n > Head(s) /\ Head(s) \in Nat
        BY <1>2, <2>1
      <3>2. m > Head(s) /\ m # Head(s)
        BY <2>3, <3>1
      <3> QED
        BY <3>2 DEF NewerThan
    <2>4. NewerThan(N, n) \subseteq M
      BY <2>3 DEF NewerThan
    <2> QED
      BY <1>3, <2>2, <2>4, LargerSet
  <1> QED
    BY <1>4, <1>5

\* So what any record lacks still has MaxHistory newer ones after it.
LEMMA DropKeepsSpares ==
  ASSUME NEW N \in SUBSET Nat, NEW b \in Nat, \A n \in N : n <= b,
         NEW h \in Nat, Cardinality(NewerThan(N \ {h}, h)) >= MaxHistory,
         NEW s \in Seq(Nat), Spares(s, N)
  PROVE  Spares(s, N \ {h})
  <1> SUFFICES ASSUME NEW n \in ToSet(s) \ (N \ {h})
               PROVE  Cardinality(NewerThan(N \ {h}, n)) >= MaxHistory
    BY DEF Spares
  <1>0. n \in Nat
    BY DEF ToSet
  <1>1. IsFiniteSet(NewerThan(N \ {h}, n))
    BY BoundedIsFinite
  <1>2. CASE n <= h
    <2>1. \A m \in N \ {h} : m > h => m > n
      BY <1>0, <1>2
    <2>2. NewerThan(N \ {h}, h) \subseteq NewerThan(N \ {h}, n)
      BY <2>1 DEF NewerThan
    <2> QED
      BY <1>1, <2>2, LargerSet
  <1>3. CASE n > h
    <2>1. NewerThan(N, n) \subseteq NewerThan(N \ {h}, n)
      BY <1>0, <1>3 DEF NewerThan
    <2>2. Cardinality(NewerThan(N, n)) >= MaxHistory
      BY <1>0, <1>3 DEF Spares
    <2> QED
      BY <1>1, <2>1, <2>2, LargerSet
  <1> QED
    BY <1>0, <1>2, <1>3


\* The history boxes of an entry have numbers, and one of them is the last.
Numbered ==
  \A i \in Id : Numbers(i) \in SUBSET Nat /\ \E b \in Nat : \A n \in Numbers(i) : n <= b

\* The history a record names is in order, oldest first.
InOrder(d) ==
  \A i \in DOMAIN d : i \in Id /\ d[i].hist \in Seq(Nat) /\ Increasing(d[i].hist)

SparesAll(d) == \A i \in DOMAIN d : Spares(d[i].hist, Numbers(i))

\* A new number is past all that were used, and the trim runs past the limit only.
Fresh ==
  /\ pc = "link" => number \in Nat /\ \A n \in ToSet(doc[cur].hist) \cup Numbers(cur) : n < number
  /\ pc \in {"unlink", "moved"} =>
       number \in Numbers(cur) /\ \A n \in ToSet(doc[cur].hist) : n < number
  /\ pc = "trim" => Len(doc[cur].hist) > MaxHistory

RetentionInv ==
  Numbered /\ InOrder(doc) /\ InOrder(meta) /\ SparesAll(doc) /\ SparesAll(meta) /\ Fresh

LEMMA RetentionInvInit == Init => RetentionInv
  <1> SUFFICES ASSUME Init PROVE RetentionInv
    OBVIOUS
  <1>1. \A i \in Id : DOMAIN << >> = {} /\ Numbers(i) = {}
    BY DEF Init, Numbers
  <1>2. 0 \in Nat
    OBVIOUS
  <1> QED
    BY <1>1, <1>2 DEF Init, RetentionInv, Numbered, InOrder, SparesAll, Fresh

LEMMA NextNumberIsPast ==
  ASSUME RetentionInv, NEW i \in DOMAIN doc
  PROVE  NextNumber(i) \in Nat /\ \A n \in ToSet(doc[i].hist) \cup Numbers(i) : n < NextNumber(i)
  <1> DEFINE s == doc[i].hist
             S == {0} \cup ToSet(s) \cup Numbers(i)
  <1>1. i \in Id /\ s \in Seq(Nat) /\ Increasing(s)
    BY DEF RetentionInv, InOrder
  <1>2. PICK b \in Nat : \A n \in Numbers(i) : n <= b
    BY <1>1 DEF RetentionInv, Numbered
  <1> HIDE DEF s
  <1>3. \E c \in Nat : \A n \in ToSet(s) : n <= c
    <2>1. CASE s = << >>
      BY <2>1 DEF ToSet
    <2>2. CASE s # << >>
      <3> DEFINE k == Len(s)
      <3>1. k \in 1..k /\ k \in Nat /\ DOMAIN s = 1..k /\ \A j \in 1..k : s[j] \in Nat
        BY <1>1, <2>2
      <3>2. \A j, m \in 1..k : j < m => s[j] < s[m]
        BY <1>1 DEF Increasing
      <3> HIDE DEF k
      <3>3. \A j \in 1..k : s[j] <= s[k]
        BY <3>1, <3>2
      <3>4. \A n \in ToSet(s) : n <= s[k]
        BY <3>1, <3>3 DEF ToSet
      <3> QED
        BY <3>1, <3>4
    <2> QED
      BY <2>1, <2>2
  <1>4. PICK c \in Nat : \A n \in ToSet(s) : n <= c
    BY <1>3
  <1>5. S \in SUBSET Nat /\ S # {}
    BY <1>1 DEF RetentionInv, Numbered, ToSet
  <1>6. \A n \in S : n <= b + c
    BY <1>2, <1>4, <1>5
  <1>7. Max(S) \in Nat /\ \A n \in S : n <= Max(S)
    BY <1>5, <1>6, MaxOfBounded
  <1>8. NextNumber(i) = Max(S) + 1
    BY DEF NextNumber, LastNumber, s
  <1> HIDE DEF S
  <1>9. NextNumber(i) \in Nat /\ \A n \in S : n < NextNumber(i)
    BY <1>5, <1>7, <1>8
  <1> QED
    BY <1>9 DEF S, s

\* A step that leaves the history boxes alone, and takes no number into a record.
LEMMA SameHistory ==
  ASSUME RetentionInv, UNCHANGED history,
         NEW d, NEW e, InOrder(d), SparesAll(d),
         \A i \in DOMAIN e : i \in Id /\ (e[i].hist = << >> \/ (i \in DOMAIN d /\ e[i].hist = d[i].hist))
  PROVE  /\ \A i \in DOMAIN e : i \in Id /\ e[i].hist \in Seq(Nat) /\ Increasing(e[i].hist)
         /\ \A i \in DOMAIN e : Spares(e[i].hist, Numbers(i)')
  <1> SUFFICES ASSUME NEW i \in DOMAIN e
               PROVE  /\ e[i].hist \in Seq(Nat) /\ Increasing(e[i].hist)
                      /\ Spares(e[i].hist, Numbers(i))
    BY DEF Numbers
  <1>1. CASE e[i].hist = << >>
    BY <1>1 DEF Increasing, Spares, ToSet
  <1>2. CASE e[i].hist = d[i].hist /\ i \in DOMAIN d
    BY <1>2 DEF InOrder, SparesAll
  <1> QED
    BY <1>1, <1>2


LEMMA LinkRetention ==
  ASSUME Sound, RetentionInv, Link
  PROVE  RetentionInv'
  <1>1. /\ history' = [history EXCEPT ![cur] = With(@, number, box[cur])]
        /\ pc = "link" /\ pc' = "unlink"
        /\ UNCHANGED <<meta, doc, cur, number>>
    BY DEF Link, Kept, args
  <1>2. cur \in Id /\ cur \in DOMAIN doc
    BY <1>1 DEF Sound, BoxInv, InHand, Shape, Replacing
  <1>3. number \in Nat /\ \A n \in ToSet(doc[cur].hist) \cup Numbers(cur) : n < number
    BY <1>1 DEF RetentionInv, Fresh
  <1>4. \A i \in Id : Numbers(i)' = IF i = cur THEN Numbers(i) \cup {number} ELSE Numbers(i)
    BY <1>1, <1>2 DEF Numbers, With, Sound, Shape
  <1>5. Numbered'
    <2> SUFFICES ASSUME NEW i \in Id
                 PROVE  Numbers(i)' \in SUBSET Nat /\ \E b \in Nat : \A n \in Numbers(i)' : n <= b
      BY DEF Numbered
    <2>1. CASE i = cur
      <3>1. \A n \in Numbers(cur) \cup {number} : n \in Nat /\ n <= number
        BY <1>2, <1>3 DEF RetentionInv, Numbered
      <3> QED
        BY <1>1, <1>3, <1>4, <2>1, <3>1
    <2>2. CASE i # cur
      BY <1>4, <2>2 DEF RetentionInv, Numbered
    <2> QED
      BY <2>1, <2>2
  <1>6. ASSUME NEW d, InOrder(d), SparesAll(d), NEW i \in DOMAIN d
        PROVE  Spares(d[i].hist, Numbers(i)')
    <2>1. i \in Id
      BY <1>6 DEF InOrder
    <2>2. PICK b \in Nat : \A n \in Numbers(i)' : n <= b
      BY <1>5, <2>1 DEF Numbered
    <2>3. Numbers(i)' \in SUBSET Nat
      BY <1>5, <2>1 DEF Numbered
    <2>4. Numbers(i) \subseteq Numbers(i)'
      BY <1>4, <2>1
    <2> SUFFICES ASSUME NEW n \in ToSet(d[i].hist) \ Numbers(i)'
                 PROVE  Cardinality(NewerThan(Numbers(i)', n)) >= MaxHistory
      BY DEF Spares
    <2>5. Cardinality(NewerThan(Numbers(i), n)) >= MaxHistory
      BY <1>6, <2>4 DEF SparesAll, Spares
    <2>6. NewerThan(Numbers(i), n) \subseteq NewerThan(Numbers(i)', n)
      BY <2>4 DEF NewerThan
    <2>7. IsFiniteSet(NewerThan(Numbers(i)', n))
      BY <2>2, <2>3, BoundedIsFinite
    <2> QED
      BY <2>5, <2>6, <2>7, LargerSet
  <1>7. SparesAll(doc)' /\ SparesAll(meta)'
    BY <1>1, <1>6 DEF RetentionInv, SparesAll
  <1>8. Fresh'
    BY <1>1, <1>2, <1>3, <1>4 DEF Fresh, Numbers
  <1> QED
    BY <1>1, <1>5, <1>7, <1>8 DEF RetentionInv, InOrder

LEMMA MovedRetention ==
  ASSUME Sound, RetentionInv, Moved
  PROVE  RetentionInv'
  <1>1. /\ doc' = [doc EXCEPT ![cur].hist = Append(@, number)]
        /\ pc = "moved" /\ pc' = IF TooMany(doc'[cur].hist) THEN "trim" ELSE "write"
        /\ UNCHANGED <<history, meta, cur, number>>
    BY DEF Moved, Kept, args, disk
  <1>2. cur \in DOMAIN doc /\ DOMAIN doc[cur] = Fields
    BY <1>1 DEF Sound, BoxInv, InHand, Shape, Shaped, Replacing
  <1> DEFINE s == doc[cur].hist
  <1>3. cur \in Id /\ s \in Seq(Nat) /\ Increasing(s) /\ Spares(s, Numbers(cur))
    BY <1>2 DEF RetentionInv, InOrder, SparesAll
  <1>4. number \in Numbers(cur) /\ number \in Nat /\ \A n \in ToSet(s) : n < number
    BY <1>1, <1>3 DEF RetentionInv, Fresh, Numbered
  <1>5. /\ DOMAIN doc' = DOMAIN doc
        /\ doc'[cur].hist = Append(s, number)
        /\ \A i \in DOMAIN doc \ {cur} : doc'[i] = doc[i]
    BY <1>1, <1>2 DEF Fields
  <1> HIDE DEF s
  <1>6. /\ Append(s, number) \in Seq(Nat)
        /\ \A j \in 1..Len(s) : Append(s, number)[j] = s[j] /\ s[j] \in Nat /\ s[j] \in ToSet(s)
        /\ Append(s, number)[Len(s) + 1] = number
        /\ Len(Append(s, number)) = Len(s) + 1 /\ Len(s) \in Nat
        /\ DOMAIN Append(s, number) = 1..Len(s) + 1
    BY <1>3, <1>4 DEF ToSet
  <1>7. Increasing(Append(s, number))
    <2> SUFFICES ASSUME NEW a \in 1..Len(s) + 1, NEW b \in 1..Len(s) + 1, a < b
                 PROVE  Append(s, number)[a] < Append(s, number)[b]
      BY <1>6 DEF Increasing
    <2>1. CASE b = Len(s) + 1
      BY <1>4, <1>6, <2>1
    <2>2. CASE b # Len(s) + 1
      <3>1. a \in 1..Len(s) /\ b \in 1..Len(s)
        BY <1>6, <2>2
      <3> QED
        BY <1>3, <1>6, <3>1 DEF Increasing
    <2> QED
      BY <2>1, <2>2
  <1>8. Spares(Append(s, number), Numbers(cur))
    <2>1. ToSet(Append(s, number)) \subseteq ToSet(s) \cup {number}
      <3> SUFFICES ASSUME NEW j \in 1..Len(s) + 1
                   PROVE  Append(s, number)[j] \in ToSet(s) \cup {number}
        BY <1>6 DEF ToSet
      <3>1. j \in 1..Len(s) \/ j = Len(s) + 1
        BY <1>6
      <3> QED
        BY <1>6, <3>1
    <2> QED
      BY <1>3, <1>4, <2>1 DEF Spares
  <1>9. UNCHANGED history
    BY <1>1
  <1>10. InOrder(doc)' /\ SparesAll(doc)'
    BY <1>3, <1>5, <1>6, <1>7, <1>8, <1>9 DEF RetentionInv, InOrder, SparesAll, Numbers
  <1>11. InOrder(meta)' /\ SparesAll(meta)' /\ Numbered'
    BY <1>1 DEF RetentionInv, InOrder, SparesAll, Numbers, Numbered
  <1>12. Fresh'
    BY <1>1 DEF Fresh, TooMany
  <1> QED
    BY <1>10, <1>11, <1>12 DEF RetentionInv

LEMMA TrimRetention ==
  ASSUME Sound, RetentionInv, Trim
  PROVE  RetentionInv'
  <1> DEFINE s == doc[cur].hist
             h == Head(s)
  <1>1. /\ history' = [history EXCEPT ![cur] = Without(@, h)]
        /\ doc' = [doc EXCEPT ![cur].hist = Tail(@)]
        /\ pc = "trim" /\ pc' = IF TooMany(doc'[cur].hist) THEN "trim" ELSE "write"
        /\ UNCHANGED <<meta, cur>>
    BY DEF Trim, args
  <1>2. cur \in DOMAIN doc /\ DOMAIN doc[cur] = Fields
    BY <1>1 DEF Sound, BoxInv, InHand, Shape, Shaped, Replacing
  <1>3. cur \in Id /\ s \in Seq(Nat) /\ Increasing(s) /\ Spares(s, Numbers(cur)) /\ Len(s) > MaxHistory
    BY <1>1, <1>2 DEF RetentionInv, InOrder, SparesAll, Fresh
  <1>4. /\ DOMAIN doc' = DOMAIN doc
        /\ doc'[cur].hist = Tail(s)
        /\ \A i \in DOMAIN doc \ {cur} : doc'[i] = doc[i]
    BY <1>1, <1>2 DEF Fields
  <1>5. \A i \in Id : Numbers(i)' = IF i = cur THEN Numbers(i) \ {h} ELSE Numbers(i)
    BY <1>1, <1>3 DEF Numbers, Without, Sound, Shape
  <1> HIDE DEF s
  <1>6. s # << >> /\ h \in Nat
    BY <1>3, MaxHistoryAssumption
  <1>7. Tail(s) \in Seq(Nat) /\ Increasing(Tail(s)) /\ ToSet(Tail(s)) \subseteq ToSet(s)
    BY <1>3, <1>6, TailIsNewer
  <1> HIDE DEF h
  <1>8. PICK b \in Nat : Numbers(cur) \in SUBSET Nat /\ \A n \in Numbers(cur) : n <= b
    BY <1>3 DEF RetentionInv, Numbered
  <1>9. Cardinality(NewerThan(Numbers(cur) \ {h}, h)) >= MaxHistory
    BY <1>3, <1>8, DropLeavesEnough DEF h
  <1>10. Numbered'
    <2>1. \A n \in Numbers(cur) \ {h} : n \in Nat /\ n <= b
      BY <1>8
    <2> QED
      BY <1>3, <1>5, <2>1 DEF RetentionInv, Numbered
  <1>11. ASSUME NEW t \in Seq(Nat), Spares(t, Numbers(cur)) PROVE Spares(t, Numbers(cur) \ {h})
    BY <1>6, <1>8, <1>9, <1>11, DropKeepsSpares
  <1>12. Spares(Tail(s), Numbers(cur) \ {h})
    <2>1. Spares(s, Numbers(cur) \ {h})
      BY <1>3, <1>11
    <2> QED
      BY <1>7, <2>1 DEF Spares
  <1>13. InOrder(doc)' /\ SparesAll(doc)'
    BY <1>3, <1>4, <1>5, <1>7, <1>12 DEF RetentionInv, InOrder, SparesAll
  <1>14. InOrder(meta)' /\ SparesAll(meta)'
    <2>1. \A i \in DOMAIN meta : Spares(meta[i].hist, Numbers(i)')
      BY <1>3, <1>5, <1>11 DEF RetentionInv, InOrder, SparesAll
    <2> QED
      BY <1>1, <2>1 DEF RetentionInv, InOrder, SparesAll
  <1>15. Fresh'
    BY <1>1 DEF Fresh, TooMany
  <1> QED
    BY <1>10, <1>13, <1>14, <1>15 DEF RetentionInv


LEMMA NumberedSame ==
  ASSUME RetentionInv, UNCHANGED history
  PROVE  Numbered'
  BY DEF RetentionInv, Numbered, Numbers

LEMMA FailRetention ==
  ASSUME Sound, RetentionInv, Fail
  PROVE  RetentionInv'
  <1>1. /\ pc' = "idle" /\ UNCHANGED history
        /\ doc' = IF pc = "trim" THEN [doc EXCEPT ![cur].hist = Tail(@)] ELSE doc
        /\ UNCHANGED meta \/ meta' = doc
    BY DEF Fail, NoCall, Record
  <1>2. InOrder(doc)' /\ SparesAll(doc)'
    <2>1. CASE pc # "trim"
      BY <1>1, <2>1 DEF RetentionInv, InOrder, SparesAll, Numbers
    <2>2. CASE pc = "trim"
      <3> DEFINE s == doc[cur].hist
      <3>1. cur \in DOMAIN doc /\ DOMAIN doc[cur] = Fields
        BY <2>2 DEF Sound, BoxInv, InHand, Shape, Shaped, Replacing
      <3>2. cur \in Id /\ s \in Seq(Nat) /\ Increasing(s) /\ Spares(s, Numbers(cur)) /\ Len(s) > MaxHistory
        BY <2>2, <3>1 DEF RetentionInv, InOrder, SparesAll, Fresh
      <3>3. /\ DOMAIN doc' = DOMAIN doc
            /\ doc'[cur].hist = Tail(s)
            /\ \A i \in DOMAIN doc \ {cur} : doc'[i] = doc[i]
        BY <1>1, <2>2, <3>1 DEF Fields
      <3> HIDE DEF s
      <3>4. s # << >>
        BY <3>2, MaxHistoryAssumption
      <3>5. Tail(s) \in Seq(Nat) /\ Increasing(Tail(s)) /\ ToSet(Tail(s)) \subseteq ToSet(s)
        BY <3>2, <3>4, TailIsNewer
      <3>6. Spares(Tail(s), Numbers(cur))
        BY <3>2, <3>5 DEF Spares
      <3>7. \A i \in Id : Numbers(i)' = Numbers(i)
        BY <1>1 DEF Numbers
      <3> QED
        BY <3>2, <3>3, <3>5, <3>6, <3>7 DEF RetentionInv, InOrder, SparesAll
    <2> QED
      BY <2>1, <2>2
  <1>3. InOrder(meta)' /\ SparesAll(meta)'
    BY <1>1 DEF RetentionInv, InOrder, SparesAll, Numbers
  <1>4. Numbered'
    BY <1>1, NumberedSame
  <1> QED
    BY <1>1, <1>2, <1>3, <1>4 DEF RetentionInv, Fresh

LEMMA RetentionInvNext ==
  ASSUME Sound, RetentionInv, [Next]_vars
  PROVE  RetentionInv'
  <1>0. /\ Numbered /\ Fresh
        /\ InOrder(doc) /\ SparesAll(doc) /\ InOrder(meta) /\ SparesAll(meta)
    BY DEF RetentionInv
  <1>1. CASE StartSync \/ StartOne \/ StartSet \/ StartDelete
    <2>1. UNCHANGED <<history, meta, doc>> /\ pc' = "next"
      BY <1>1, StartEffect DEF disk
    <2> QED
      BY <1>0, <2>1, NumberedSame DEF RetentionInv, InOrder, SparesAll, Numbers, Fresh
  <1>2. CASE Take
    <2>1. PICK i \in DOMAIN batch :
            /\ DOMAIN doc' = DOMAIN doc \cup {i}
            /\ \A j \in DOMAIN doc \ {i} : doc'[j] = doc[j]
            /\ IF i \in DOMAIN doc THEN doc'[i].hist = doc[i].hist
                                   ELSE doc'[i].hist = << >> /\ doc'[i].pwmac = None
            /\ \/ pc' \in {"next", "final"}
               \/ pc' = "write"
               \/ pc' = "link" /\ cur' = i /\ number' = NextNumber(i) /\ doc'[i].pwmac # None
      BY <1>2, TakeEffect, Zenon
    <2>2. UNCHANGED <<history, meta>> /\ i \in Id
      BY <1>2 DEF Take, disk, Sound, Shape
    <2>3. InOrder(doc)' /\ SparesAll(doc)'
      <3>1. \A j \in DOMAIN doc' :
              j \in Id /\ (doc'[j].hist = << >> \/ (j \in DOMAIN doc /\ doc'[j].hist = doc[j].hist))
        BY <1>0, <2>1, <2>2 DEF InOrder
      <3> QED
        BY <1>0, <2>2, <3>1, SameHistory DEF InOrder, SparesAll
    <2>4. InOrder(meta)' /\ SparesAll(meta)' /\ Numbered'
      BY <1>0, <2>2, NumberedSame DEF InOrder, SparesAll, Numbers
    <2>5. Fresh'
      <3>1. CASE pc' # "link"
        BY <2>1, <3>1 DEF Fresh
      <3>2. CASE pc' = "link"
        <4>1. i \in DOMAIN doc /\ doc'[i].hist = doc[i].hist /\ cur' = i /\ number' = NextNumber(i)
          BY <2>1, <3>2
        <4>2. NextNumber(i) \in Nat /\ \A n \in ToSet(doc[i].hist) \cup Numbers(i) : n < NextNumber(i)
          BY <4>1, NextNumberIsPast
        <4> QED
          BY <2>2, <3>2, <4>1, <4>2 DEF Fresh, Numbers
      <3> QED
        BY <3>1, <3>2
    <2> QED
      BY <2>3, <2>4, <2>5 DEF RetentionInv
  <1>3. CASE Unlink
    <2>1. UNCHANGED <<history, meta, doc, cur, number>> /\ pc = "unlink" /\ pc' = "moved"
      BY <1>3 DEF Unlink, Kept, args
    <2> QED
      BY <1>0, <2>1, NumberedSame DEF RetentionInv, InOrder, SparesAll, Numbers, Fresh
  <1>4. CASE Written
    <2>1. /\ cur \in DOMAIN doc /\ DOMAIN doc' = DOMAIN doc
          /\ \A j \in DOMAIN doc \ {cur} : doc'[j] = doc[j]
          /\ doc'[cur].hist = doc[cur].hist
          /\ UNCHANGED <<history, meta>> /\ pc' \in {"final", "meta", "next"}
      BY <1>4, WrittenEffect DEF disk
    <2> QED
      BY <1>0, <2>1, NumberedSame DEF RetentionInv, InOrder, SparesAll, Numbers, Fresh
  <1>5. CASE Write \/ WriteMeta \/ Tombstone \/ Finish
    <2>1. DOMAIN doc' = DOMAIN doc /\ \A j \in DOMAIN doc : doc'[j].hist = doc[j].hist
      <3>1. pc # "trim"
        BY <1>5 DEF Write, WriteMeta, Tombstone, Finish
      <3>2. ~Moved /\ ~Trim
        BY <1>5 DEF Write, WriteMeta, Tombstone, Finish, Moved, Trim
      <3> QED
        BY <1>5, <3>1, <3>2, OtherEffect
    <2>2. UNCHANGED history /\ (UNCHANGED meta \/ meta' = doc) /\ pc' \in {"written", "next", "final", "idle"}
      BY <1>5 DEF Write, WriteMeta, Tombstone, Finish, Record, NoCall, disk
    <2> QED
      BY <1>0, <2>1, <2>2, NumberedSame DEF RetentionInv, InOrder, SparesAll, Numbers, Fresh
  <1>6. CASE Crash \/ Unlock
    <2>1. UNCHANGED <<history, meta>> /\ (DOMAIN doc' = {} \/ doc' = meta)
      BY <1>6 DEF Crash, Unlock, disk
    <2>2. pc' = "idle"
      BY <1>6 DEF Crash, NoCall, Unlock, Sound, BoxInv, CallKept
    <2> QED
      BY <1>0, <2>1, <2>2, NumberedSame DEF RetentionInv, InOrder, SparesAll, Numbers, Fresh
  <1>7. CASE UNCHANGED vars
    BY <1>0, <1>7, NumberedSame
    DEF vars, disk, args, RetentionInv, InOrder, SparesAll, Numbers, Fresh
  <1> QED
    BY <1>1, <1>2, <1>3, <1>4, <1>5, <1>6, <1>7, LinkRetention, MovedRetention, TrimRetention,
       FailRetention DEF Next, Replace

\* A history box goes only when MaxHistory newer ones are there, also when a crash comes between
\* its unlink and the write of the records that still name it (drop_history, and
\* next_number() that never takes a number twice).
THEOREM EntriesOnlyRetentionDrops == Spec => []OnlyRetentionDrops
  <1>1. Init => Sound /\ RetentionInv
    BY SoundInit, RetentionInvInit
  <1>2. Sound /\ RetentionInv /\ [Next]_vars => Sound' /\ RetentionInv'
    BY SoundNext, RetentionInvNext
  <1>3. RetentionInv => OnlyRetentionDrops
    BY DEF RetentionInv, SparesAll, Spares, NewerThan, OnlyRetentionDrops, Known
  <1> QED
    BY <1>1, <1>2, <1>3, PTL DEF Spec

=============================================================================
