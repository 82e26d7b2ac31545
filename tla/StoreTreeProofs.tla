---------------------------- MODULE StoreTreeProofs ----------------------------
(***************************************************************************)
(* The theorems on StoreTree, for any entries, names, keys and TPMs.       *)
(*                                                                         *)
(* TreeInv says what each tree is at each step: of one key pair, whole if  *)
(* it has its keys.json (TreesInv), in step with memory (MemoryInv), and   *)
(* how far a create, an unlock, a reseal or an import has brought its tree *)
(* (CreateInv, UnlockInv, ResealInv, ImportInv).  SealInv holds only if no *)
(* crash cuts a rollback short: the blobs of a tree are then all on one    *)
(* TPM or all on none (Uniform), and keys that are on the TPM are in no     *)
(* other tree without it (Guarded).                                        *)
(***************************************************************************)
EXTENDS StoreTree, TLAPS

-----------------------------------------------------------------------------
(* Types *)

Names   == {"main", "rotate", "tmp"} \cup Aside
Blob    == [key : Nat, tpm : Nat]
KeySets == UNION {[D -> Blob] : D \in SUBSET Blobs}
Boxed   == [key : Nat, item : Item]
Metas   == [key : Nat, items : SUBSET Item]
Tree    == [keys : KeySets, prev : KeySets, pub : Nat, meta : Metas, session : Nat,
            boxes : SUBSET Boxed, pending : BOOLEAN]

DiskOK == disk \in [DOMAIN disk -> Tree] /\ DOMAIN disk \subseteq Names

Types ==
  /\ DiskOK
  /\ tpm \in Nat \ {0} /\ on \in BOOLEAN
  /\ key \in Nat /\ used \in Nat /\ new \in Nat /\ doc \in SUBSET Item
  /\ key <= used /\ new <= used
  /\ pc \in Steps

-----------------------------------------------------------------------------
(* Trees *)

(* A tree has keys.json and all that goes with it, of one key pair, ...     *)
Whole(t) ==
  /\ DOMAIN t.keys = Blobs /\ \A f \in Blobs : t.keys[f].key = t.pub
  /\ t.pub # 0 /\ t.meta.key = t.pub /\ t.session \in {0, t.pub}
  /\ \A b \in t.boxes : b.key = t.pub
  /\ \A f \in DOMAIN t.prev : t.prev[f].key = t.pub /\ t.prev[f].tpm = 0

(* ... or no keys.json yet, and nothing in it.                             *)
Fresh(t) ==
  /\ "keys" \notin DOMAIN t.keys /\ DOMAIN t.prev = {}
  /\ t.session = 0 /\ t.boxes = {}

Within(t, n)  == \A set \in {t.keys, t.prev} : \A f \in DOMAIN set : set[f].key <= n
NotIn(t, k)   == \A set \in {t.keys, t.prev} : \A f \in DOMAIN set : set[f].key # k
TpmOnly(t, k) ==
  \A set \in {t.keys, t.prev} : \A f \in DOMAIN set : set[f].key = k => set[f].tpm # 0

TreesInv ==
  /\ \A p \in Trees \cap DOMAIN disk : Whole(disk[p]) \/ Fresh(disk[p])
  /\ \A p \in DOMAIN disk : Within(disk[p], used)

OnlyIn(p, k) == \A q \in DOMAIN disk \ {p} : NotIn(disk[q], k)

-----------------------------------------------------------------------------
(* The call under way *)

Files == {"list", "secret", "pub", "meta", "keys"}

(* s is what is left of order; Left(s), the files in it.                   *)
InOrder(s, order) ==
  /\ s \in Seq(Files) /\ Len(s) <= Len(order)
  /\ \A i \in 1..Len(s) : s[i] = order[Len(order) - Len(s) + i]

Left(s) == {s[i] : i \in 1..Len(s)}

HasMain == Has("main") /\ Whole(main)

(* With the keys in memory the tree is theirs, but for two short whiles     *)
(* (Exchange, Away) when it is moved under the store object.               *)
MemoryInv ==
  /\ key # 0 => pc \in {"idle", "mark", "drop", "meta", "build", "copy", "swap", "swapped",
                        "convert", "away", "into", "imported", "clear"}
  /\ key # 0 /\ pc \notin {"into", "swapped"} => HasMain /\ main.pub = key
  /\ key # 0 /\ pc \notin {"into", "drop"} => Has("main") /\ DOMAIN main.prev = {}
  /\ key # 0 /\ pc \notin {"into", "imported"} => Has("main") /\ main.meta.items \subseteq doc
  /\ key = 0 => pc \in {"idle", "aside", "discard", "create", "write", "undo", "unseal",
                        "rollback", "load"}

(* create() and what leads to it *)
CreateInv ==
  /\ pc = "aside" => Has("main")
  /\ pc = "discard" => /\ ~Has("main") /\ spot \in Aside \cap DOMAIN disk
                       /\ disk[spot].boxes = {}
  /\ pc = "create" /\ Has("main") => Fresh(main)
  /\ pc = "undo" => Has("main") /\ Fresh(main)
  /\ pc = "write" =>
       /\ Has("main") /\ new # 0 /\ OnlyIn("main", new)
       /\ DOMAIN main.prev = {} /\ main.session = 0 /\ main.boxes = {}
       /\ InOrder(todo, CreateOrder)
       /\ Len(todo) <= 4 => "list" \in DOMAIN main.keys /\ main.keys["list"] = Seal(new)
       /\ Len(todo) <= 3 => "secret" \in DOMAIN main.keys /\ main.keys["secret"] = Seal(new)
       /\ Len(todo) <= 2 => main.pub = new
       /\ Len(todo) <= 1 => main.meta.key = new /\ main.meta.items = {}
       /\ Len(todo) = 0 => "keys" \in DOMAIN main.keys /\ main.keys["keys"] = Seal(new)
       /\ Len(todo) > 0 => "keys" \notin DOMAIN main.keys

UnlockInv ==
  /\ pc = "unseal" => Has("main")
  /\ pc \in {"rollback", "load"} => HasMain /\ new = main.pub
  /\ pc = "rollback" => /\ todo # << >> /\ InOrder(todo, InTurn)
                        /\ DOMAIN main.prev = Left(todo)
  /\ pc = "drop" => InOrder(todo, InTurn) /\ DOMAIN main.prev \subseteq Left(todo)

ResealInv ==
  /\ pc \in {"build", "copy", "swap"} => new # 0 /\ new # key /\ OnlyIn("rotate", new) /\ on
  /\ pc = "build" => "rotate" \notin DOMAIN disk
  /\ pc \in {"copy", "swap"} => Has("rotate") /\ TpmOnly(disk["rotate"], new)
  /\ pc = "swap" =>
       LET r == disk["rotate"] IN
       /\ Whole(r) /\ r.pub = new /\ DOMAIN r.prev = {} /\ r.meta.items \subseteq doc
       /\ \A f \in Blobs : r.keys[f].tpm = tpm
       /\ Readable(main) \subseteq Readable(r)
  /\ pc = "swapped" => HasMain /\ main.pub = new

ImportInv ==
  /\ pc \in {"convert", "away"} => /\ Has("tmp") /\ main.meta.items = {}
                                   /\ disk["tmp"].keys = main.keys /\ disk["tmp"].pub = key
                                   /\ DOMAIN disk["tmp"].prev = {}
  /\ pc = "convert" => disk["tmp"].session = 0 /\ disk["tmp"].boxes = {}
  /\ pc \in {"away", "into"} => Has("tmp") /\ Whole(disk["tmp"])
  /\ pc = "into" => ~Has("main") /\ disk["tmp"].pub = key /\ DOMAIN disk["tmp"].prev = {}
  /\ pc \in {"into", "imported"} => spot \in Aside \cap DOMAIN disk /\ disk[spot].meta.items = {}

TreeInv == Types /\ TreesInv /\ MemoryInv /\ CreateInv /\ UnlockInv /\ ResealInv /\ ImportInv

-----------------------------------------------------------------------------
(* What the blobs are bound to, if no crash cuts a rollback short *)

Uniform(t) ==
  "keys" \in DOMAIN t.keys => \A f \in DOMAIN t.keys : t.keys[f].tpm = t.keys["keys"].tpm

(* The keys of tree p, if they are on the TPM, are nowhere else without it. *)
Guarded(p) ==
  "keys" \in DOMAIN disk[p].keys /\ disk[p].keys["keys"].tpm # 0 =>
    \A q \in DOMAIN disk \ {p} : TpmOnly(disk[q], disk[p].keys["keys"].key)

SealInv ==
  /\ pc # "rollback" /\ Has("main") => Uniform(main) /\ Guarded("main")
  /\ pc = "rollback" =>
       \A f \in Blobs \ Left(todo) : main.keys[f].tpm = 0
  /\ pc \in {"load", "drop"} => \A f \in Blobs : main.keys[f].tpm \in {0, tpm}
  /\ pc = "into" => Uniform(disk["tmp"]) /\ Guarded("tmp")

-----------------------------------------------------------------------------
(* Lemmas on functions, sequences and the directory *)

LEMMA WithFacts ==
  ASSUME NEW f, NEW x, NEW v
  PROVE  /\ DOMAIN With(f, x, v) = DOMAIN f \cup {x}
         /\ With(f, x, v)[x] = v
         /\ \A y \in DOMAIN f \ {x} : With(f, x, v)[y] = f[y]
  BY DEF With

LEMMA WithoutFacts ==
  ASSUME NEW f, NEW x
  PROVE  /\ DOMAIN Without(f, x) = DOMAIN f \ {x}
         /\ \A y \in DOMAIN f \ {x} : Without(f, x)[y] = f[y]
  BY DEF Without, Restrict

(* What is left to do after its head.                                      *)
LEMMA NextFile ==
  ASSUME NEW s, NEW order \in Seq(Files), InOrder(s, order), s # << >>
  PROVE  /\ Len(s) \in 1..Len(order)
         /\ Head(s) = order[Len(order) - Len(s) + 1]
         /\ InOrder(Tail(s), order) /\ Len(Tail(s)) = Len(s) - 1
         /\ Left(s) = {Head(s)} \cup Left(Tail(s))
<1>1. /\ s \in Seq(Files) /\ Len(s) \in Nat /\ Len(s) # 0
      /\ Head(s) = s[1] /\ Tail(s) \in Seq(Files) /\ Len(Tail(s)) = Len(s) - 1
      /\ \A i \in 1..Len(Tail(s)) : Tail(s)[i] = s[i + 1]
  BY DEF InOrder
<1>2. InOrder(Tail(s), order)
  BY <1>1 DEF InOrder
<1>3. ASSUME NEW i \in 1..Len(s)
      PROVE  s[i] \in {Head(s)} \cup Left(Tail(s))
  <2>1. CASE i = 1
    BY <1>1, <2>1
  <2>2. CASE i # 1
    <3>1. i - 1 \in 1..Len(Tail(s)) /\ Tail(s)[i - 1] = s[i]
      BY <1>1, <2>2
    <3> QED BY <3>1 DEF Left
  <2> QED BY <2>1, <2>2
<1>4. ASSUME NEW f \in Left(Tail(s))
      PROVE  f \in Left(s)
  <2>1. PICK i \in 1..Len(Tail(s)) : f = Tail(s)[i]
    BY DEF Left
  <2>2. i + 1 \in 1..Len(s) /\ s[i + 1] = f
    BY <1>1, <2>1
  <2> QED BY <2>2 DEF Left
<1>5. Head(s) \in Left(s)
  BY <1>1 DEF Left
<1>6. Left(s) = {Head(s)} \cup Left(Tail(s))
  BY <1>3, <1>4, <1>5 DEF Left
<1> QED BY <1>1, <1>2, <1>6 DEF InOrder

LEMMA InTurnIs ==
  /\ InTurn \in Seq(Files) /\ Len(InTurn) = 3
  /\ InTurn[1] = "list" /\ InTurn[2] = "secret" /\ InTurn[3] = "keys"
<1>1. Len(InTurn) = 3 /\ InTurn[1] = "list" /\ InTurn[2] = "secret" /\ InTurn[3] = "keys"
  BY DEF InTurn
<1>2. InTurn \in Seq(Files)
  BY DEF InTurn, Files
<1> QED BY <1>1, <1>2

(* The blobs go once each.                                                 *)
LEMMA NextBlob ==
  ASSUME NEW s, InOrder(s, InTurn), s # << >>
  PROVE  /\ Head(s) \in Blobs /\ Head(s) \notin Left(Tail(s))
         /\ Left(s) = {Head(s)} \cup Left(Tail(s)) /\ InOrder(Tail(s), InTurn)
<1>1. /\ InTurn \in Seq(Files) /\ Len(InTurn) = 3
      /\ InTurn[1] = "list" /\ InTurn[2] = "secret" /\ InTurn[3] = "keys"
  BY InTurnIs
<1>2. /\ Len(s) \in 1..3 /\ Head(s) = InTurn[3 - Len(s) + 1]
      /\ InOrder(Tail(s), InTurn) /\ Len(Tail(s)) = Len(s) - 1
      /\ Left(s) = {Head(s)} \cup Left(Tail(s))
  BY <1>1, NextFile
<1>3. Head(s) \in Blobs
  <2>1. Len(s) = 1 \/ Len(s) = 2 \/ Len(s) = 3
    BY <1>2
  <2>2. Head(s) = InTurn[3] \/ Head(s) = InTurn[2] \/ Head(s) = InTurn[1]
    BY <1>2, <2>1
  <2> QED BY <1>1, <2>2 DEF Blobs
<1>4. ASSUME NEW i \in 1..Len(Tail(s))
      PROVE  Tail(s)[i] # Head(s)
  BY <1>1, <1>2 DEF InOrder
<1> QED BY <1>2, <1>3, <1>4 DEF Left

LEMMA AllInTurn == InOrder(InTurn, InTurn) /\ Left(InTurn) = Blobs /\ InTurn # << >>
<1>1. /\ InTurn \in Seq(Files) /\ Len(InTurn) = 3
      /\ InTurn[1] = "list" /\ InTurn[2] = "secret" /\ InTurn[3] = "keys"
  BY InTurnIs
<1>2. InOrder(InTurn, InTurn) /\ InTurn # << >>
  <2>1. \A i \in 1..3 : 3 - 3 + i = i
    OBVIOUS
  <2>2. \A i \in 1..Len(InTurn) : InTurn[i] = InTurn[Len(InTurn) - Len(InTurn) + i]
    BY <1>1, <2>1
  <2>3. Len(InTurn) <= Len(InTurn)
    BY <1>1
  <2>4. InTurn # << >>
    BY DEF InTurn
  <2> QED BY <1>1, <2>2, <2>3, <2>4 DEF InOrder
<1>3. Left(InTurn) = {InTurn[i] : i \in 1..3}
  BY <1>1 DEF Left
<1>4. \A i \in 1..3 : i = 1 \/ i = 2 \/ i = 3
  OBVIOUS
<1> QED BY <1>1, <1>2, <1>3, <1>4 DEF Blobs

(* The directory with one more tree, one less, or one under another name.  *)
LEMMA TreeSet ==
  ASSUME DiskOK, NEW p \in Names, NEW t \in Tree, disk' = With(disk, p, t)
  PROVE  /\ DiskOK' /\ DOMAIN disk' = DOMAIN disk \cup {p} /\ disk'[p] = t
         /\ \A q \in DOMAIN disk \ {p} : disk'[q] = disk[q]
<1>0. /\ DOMAIN With(disk, p, t) = DOMAIN disk \cup {p} /\ With(disk, p, t)[p] = t
      /\ \A q \in DOMAIN disk \ {p} : With(disk, p, t)[q] = disk[q]
  BY DEF With
<1>1. /\ DOMAIN disk' = DOMAIN disk \cup {p} /\ disk'[p] = t
      /\ \A q \in DOMAIN disk \ {p} : disk'[q] = disk[q]
  BY <1>0
<1>2. disk' \in [DOMAIN disk' -> Tree]
  BY <1>1 DEF DiskOK, With
<1> QED BY <1>1, <1>2 DEF DiskOK

LEMMA TreeRemoved ==
  ASSUME DiskOK, NEW p, disk' = Remove(p)
  PROVE  /\ DiskOK' /\ DOMAIN disk' = DOMAIN disk \ {p}
         /\ \A q \in DOMAIN disk \ {p} : disk'[q] = disk[q]
<1>1. /\ DOMAIN disk' = DOMAIN disk \ {p}
      /\ \A q \in DOMAIN disk \ {p} : disk'[q] = disk[q]
  BY WithoutFacts DEF Remove
<1>2. disk' \in [DOMAIN disk' -> Tree]
  BY <1>1 DEF DiskOK, Remove, Without, Restrict
<1> QED BY <1>1, <1>2 DEF DiskOK

LEMMA TreeMoved ==
  ASSUME DiskOK, NEW p \in DOMAIN disk, NEW q \in Names \ DOMAIN disk, disk' = Move(p, q)
  PROVE  /\ DiskOK' /\ DOMAIN disk' = (DOMAIN disk \ {p}) \cup {q} /\ disk'[q] = disk[p]
         /\ \A r \in DOMAIN disk \ {p} : disk'[r] = disk[r]
<1>1. /\ DOMAIN Without(disk, p) = DOMAIN disk \ {p}
      /\ \A r \in DOMAIN disk \ {p} : Without(disk, p)[r] = disk[r]
  BY WithoutFacts
<1>2. /\ DOMAIN disk' = (DOMAIN disk \ {p}) \cup {q} /\ disk'[q] = disk[p]
      /\ \A r \in DOMAIN disk \ {p} : disk'[r] = disk[r]
  <2> DEFINE rest == Without(disk, p)
  <2>1. /\ DOMAIN With(rest, q, disk[p]) = DOMAIN rest \cup {q}
        /\ With(rest, q, disk[p])[q] = disk[p]
        /\ \A r \in DOMAIN rest \ {q} : With(rest, q, disk[p])[r] = rest[r]
    BY DEF With
  <2> QED BY <1>1, <2>1 DEF Move
<1>3. disk[p] \in Tree /\ \A r \in DOMAIN disk' : disk'[r] \in Tree
  BY <1>2 DEF DiskOK
<1>4. disk' \in [DOMAIN disk' -> Tree]
  BY <1>3 DEF Move, With
<1> QED BY <1>2, <1>4 DEF DiskOK

LEMMA EmptyIsTree == EmptyTree \in Tree /\ Fresh(EmptyTree)
<1>1. << >> \in KeySets /\ DOMAIN << >> = {}
  <2>1. << >> \in [{} -> Blob]
    OBVIOUS
  <2> QED BY <2>1 DEF KeySets
<1> QED BY <1>1 DEF EmptyTree, Tree, Fresh, NoMeta, Metas

LEMMA SealIsBlob ==
  ASSUME Types, NEW k \in Nat
  PROVE  Seal(k) \in Blob /\ Seal(k).key = k /\ Seal(k).tpm = IF on THEN tpm ELSE 0
  BY DEF Types, Seal, Blob

(* A set of blobs with one more, or one less.                              *)
LEMMA KeySetWith ==
  ASSUME NEW s \in KeySets, NEW f \in Blobs, NEW b \in Blob
  PROVE  With(s, f, b) \in KeySets
<1>1. DOMAIN s \subseteq Blobs /\ s \in [DOMAIN s -> Blob]
  BY DEF KeySets
<1>2. With(s, f, b) \in [DOMAIN s \cup {f} -> Blob]
  BY <1>1 DEF With
<1> QED BY <1>1, <1>2 DEF KeySets

LEMMA KeySetWithout ==
  ASSUME NEW s \in KeySets, NEW f
  PROVE  Without(s, f) \in KeySets
<1>1. DOMAIN s \subseteq Blobs /\ s \in [DOMAIN s -> Blob]
  BY DEF KeySets
<1>2. Without(s, f) \in [DOMAIN s \ {f} -> Blob]
  BY <1>1 DEF Without, Restrict
<1> QED BY <1>1, <1>2 DEF KeySets

LEMMA KeySetFacts ==
  ASSUME NEW s \in KeySets
  PROVE  DOMAIN s \subseteq Blobs /\ \A f \in DOMAIN s : s[f] \in Blob
  BY DEF KeySets

-----------------------------------------------------------------------------
(* The invariant, action by action *)

(* A part about a call says nothing while another call runs.               *)
LEMMA Elsewhere ==
  /\ pc' \notin {"aside", "discard", "create", "undo", "write"} => CreateInv'
  /\ pc' \notin {"unseal", "rollback", "load", "drop"} => UnlockInv'
  /\ pc' \notin {"build", "copy", "swap", "swapped"} => ResealInv'
  /\ pc' \notin {"convert", "away", "into", "imported"} => ImportInv'
  BY DEF CreateInv, UnlockInv, ResealInv, ImportInv

LEMMA WithinMore ==
  ASSUME TreeInv, NEW p \in DOMAIN disk, NEW n \in Nat, used <= n
  PROVE  Within(disk[p], n)
<1>1. Within(disk[p], used) /\ disk[p] \in Tree
  BY DEF TreeInv, TreesInv, Types, DiskOK
<1>2. ASSUME NEW set \in {disk[p].keys, disk[p].prev}, NEW f \in DOMAIN set
      PROVE  set[f].key \in Nat
  <2>1. set \in KeySets
    BY <1>1 DEF Tree
  <2> QED BY <2>1, KeySetFacts DEF Blob
<1> QED BY <1>1, <1>2 DEF Within, TreeInv, Types

LEMMA TreesStay ==
  ASSUME TreeInv, UNCHANGED disk, used' \in Nat, used <= used'
  PROVE  DiskOK' /\ TreesInv'
  BY WithinMore DEF TreeInv, TreesInv, Types, DiskOK

(* A tree is removed, or its removal fails.                                *)
LEMMA TreeGoes ==
  ASSUME TreeInv, NEW p, disk' \in {Remove(p), disk}, used' \in Nat, used <= used'
  PROVE  /\ DiskOK' /\ TreesInv'
         /\ DOMAIN disk \ {p} \subseteq DOMAIN disk' /\ DOMAIN disk' \subseteq DOMAIN disk
         /\ \A q \in DOMAIN disk' : disk'[q] = disk[q]
         /\ disk' = Remove(p) => p \notin DOMAIN disk'
<1>1. CASE disk' = Remove(p)
  <2>1. /\ DiskOK' /\ DOMAIN disk' = DOMAIN disk \ {p}
        /\ \A q \in DOMAIN disk \ {p} : disk'[q] = disk[q]
    BY <1>1, TreeRemoved DEF TreeInv, Types
  <2> QED BY <2>1, WithinMore DEF TreeInv, TreesInv
<1>2. CASE disk' = disk /\ disk' # Remove(p)
  BY <1>2, TreesStay
<1> QED BY <1>1, <1>2

(* The tree at "main" is replaced, or changed; no other is.                *)
LEMMA MainStays ==
  ASSUME TreeInv, NEW t \in Tree, disk' = SetMain(t), used' = used,
         Whole(t) \/ Fresh(t), Within(t, used)
  PROVE  /\ DiskOK' /\ TreesInv'
         /\ DOMAIN disk' = DOMAIN disk \cup {"main"} /\ main' = t
         /\ \A q \in DOMAIN disk \ {"main"} : disk'[q] = disk[q]
<1>1. /\ DiskOK' /\ DOMAIN disk' = DOMAIN disk \cup {"main"} /\ main' = t
      /\ \A q \in DOMAIN disk \ {"main"} : disk'[q] = disk[q]
  BY TreeSet DEF TreeInv, Types, SetMain, main, Names
<1>2. ASSUME NEW p \in DOMAIN disk'
      PROVE  /\ Within(disk'[p], used')
             /\ p \in Trees => Whole(disk'[p]) \/ Fresh(disk'[p])
  <2>1. CASE p = "main"
    BY <1>1, <2>1 DEF main
  <2>2. CASE p # "main"
    BY <1>1, <2>2 DEF TreeInv, TreesInv
  <2> QED BY <2>1, <2>2
<1> QED BY <1>1, <1>2 DEF TreesInv

LEMMA MainIsTree ==
  ASSUME TreeInv, Has("main")
  PROVE  /\ main \in Tree /\ Within(main, used) /\ (Whole(main) \/ Fresh(main))
         /\ main.keys \in KeySets /\ main.prev \in KeySets
         /\ DOMAIN main.keys \subseteq Blobs /\ DOMAIN main.prev \subseteq Blobs
<1>1. main \in Tree /\ Within(main, used) /\ (Whole(main) \/ Fresh(main))
  BY DEF TreeInv, TreesInv, Types, DiskOK, main, Trees, Has
<1> QED BY <1>1, KeySetFacts DEF Tree

LEMMA InitTree == Init => TreeInv
<1> SUFFICES ASSUME Init PROVE TreeInv
  OBVIOUS
<1>1. CreateInv /\ UnlockInv /\ ResealInv /\ ImportInv /\ MemoryInv
  BY DEF Init, CreateInv, UnlockInv, ResealInv, ImportInv, MemoryInv
<1>2. CASE disk = << >> /\ used = 0
  <2>1. DOMAIN disk = {} /\ disk \in [DOMAIN disk -> Tree]
    BY <1>2
  <2> QED BY <1>1, <1>2, <2>1 DEF Init, TreeInv, Types, DiskOK, TreesInv, Steps
<1>3. CASE disk = With(<< >>, "main", Resealed(Item)) /\ used = 1
  <2> DEFINE t == Resealed(Item)
  <2>0. t = [keys |-> [f \in Blobs |-> [key |-> 1, tpm |-> 1]],
             prev |-> [f \in Blobs |-> [key |-> 1, tpm |-> 0]],
             pub |-> 1, meta |-> [key |-> 1, items |-> Item], session |-> 1,
             boxes |-> Boxes(1, Item), pending |-> FALSE]
    <3> DEFINE ks == [f \in Blobs |-> [key |-> 1, tpm |-> 1]]
               ps == [f \in Blobs |-> [key |-> 1, tpm |-> 0]]
               ms == [key |-> 1, items |-> Item]
               bs == Boxes(1, Item)
    <3>1. t = [EmptyTree EXCEPT !.keys = ks, !.prev = ps, !.pub = 1, !.meta = ms, !.session = 1,
                                !.boxes = bs]
      BY DEF Resealed
    <3> HIDE DEF ks, ps, ms, bs
    <3>2. t = [keys |-> ks, prev |-> ps, pub |-> 1, meta |-> ms, session |-> 1,
               boxes |-> bs, pending |-> FALSE]
      BY <3>1 DEF EmptyTree
    <3> QED BY <3>2 DEF ks, ps, ms, bs
  <2> HIDE DEF t
  <2>1. /\ t.keys = [f \in Blobs |-> [key |-> 1, tpm |-> 1]]
        /\ t.prev = [f \in Blobs |-> [key |-> 1, tpm |-> 0]]
        /\ t.pub = 1 /\ t.meta = [key |-> 1, items |-> Item] /\ t.session = 1
        /\ t.boxes = Boxes(1, Item) /\ t.pending = FALSE
    BY <2>0
  <2>2. t.keys \in KeySets /\ t.prev \in KeySets
    <3>1. t.keys \in [Blobs -> Blob] /\ t.prev \in [Blobs -> Blob]
      BY <2>1 DEF Blob
    <3> QED BY <3>1 DEF KeySets
  <2>3. t.boxes \in SUBSET Boxed /\ \A b \in t.boxes : b.key = 1
    BY <2>1 DEF Boxes, Boxed
  <2>4. t \in Tree
    <3>1. [key |-> 1, items |-> Item] \in Metas
      BY DEF Metas
    <3> QED BY <2>0, <2>1, <2>2, <2>3, <3>1 DEF Tree
  <2>5. Whole(t) /\ Within(t, 1)
    BY <2>1, <2>3 DEF Whole, Within
  <2>6. DOMAIN disk = {"main"} /\ disk["main"] = t
    BY <1>3 DEF With, t
  <2>7. DiskOK
    <3>1. disk \in [DOMAIN disk -> Tree]
      BY <1>3, <2>4, <2>6 DEF With, t
    <3> QED BY <3>1, <2>6 DEF DiskOK, Names
  <2>8. TreesInv
    BY <1>3, <2>5, <2>6 DEF TreesInv
  <2> QED BY <1>1, <1>3, <2>7, <2>8 DEF Init, TreeInv, Types, Steps
<1> QED BY <1>2, <1>3 DEF Init

(* A migration, a reset or a sign-in may begin: create() finds no keys, or reset() a tree. *)
LEMMA BeginKeeps == TreeInv /\ (MigrateBegin \/ Reset \/ SignInFresh) => TreeInv'
<1> SUFFICES ASSUME TreeInv, MigrateBegin \/ Reset \/ SignInFresh PROVE TreeInv'
  OBVIOUS
<1>1. PICK step \in {"create", "aside"} :
        /\ pc = "idle" /\ pc' = step /\ key' = 0 /\ doc' = {}
        /\ UNCHANGED <<disk, chip, used, new, todo, spot>>
        /\ step = "aside" => Has("main")
        /\ step = "create" => ~Has("main") \/ ~HasKeys
  BY DEF MigrateBegin, Reset, SignInFresh, Replace, Over, IsEmpty
<1>2. DiskOK' /\ TreesInv'
  BY <1>1, TreesStay DEF TreeInv, Types
<1>3. Types'
  BY <1>1, <1>2 DEF TreeInv, Types, Steps, chip
<1>4. MemoryInv'
  BY <1>1 DEF MemoryInv
<1>5. step = "create" /\ Has("main") => Fresh(main)
  <2> HAVE step = "create" /\ Has("main")
  <2>1. ~Whole(main)
    BY <1>1 DEF HasKeys, Whole, Blobs
  <2> QED BY <2>1, MainIsTree
<1>6. CreateInv'
  BY <1>1, <1>5 DEF CreateInv, Has, main
<1> QED BY <1>1, <1>2, <1>3, <1>4, <1>6, Elsewhere DEF TreeInv

(* state.json is written, or its write fails.                              *)
LEMMA SavedStays ==
  ASSUME TreeInv, NEW b \in BOOLEAN, disk' \in {Saved(b), disk}, used' = used
  PROVE  /\ DiskOK' /\ TreesInv'
         /\ HasMain => HasMain' /\ main'.pub = main.pub
         /\ Has("main") => /\ Has("main")' /\ main'.prev = main.prev
                           /\ main'.meta = main.meta /\ main'.keys = main.keys
         /\ \A q \in DOMAIN disk \ {"main"} : q \in DOMAIN disk' /\ disk'[q] = disk[q]
<1>1. CASE disk' = disk
  BY <1>1, TreesStay DEF TreeInv, Types, HasMain, Has, main
<1>2. CASE disk' = Saved(b) /\ Has("main")
  <2> DEFINE t == [main EXCEPT !.pending = b]
  <2>1. main \in Tree /\ Within(main, used) /\ (Whole(main) \/ Fresh(main))
    BY <1>2, MainIsTree
  <2>2. /\ t \in Tree /\ t.keys = main.keys /\ t.prev = main.prev /\ t.pub = main.pub
        /\ t.meta = main.meta /\ t.session = main.session /\ t.boxes = main.boxes
    BY <2>1 DEF Tree
  <2>3. Within(t, used) /\ (Whole(main) <=> Whole(t)) /\ (Fresh(main) <=> Fresh(t))
    BY <2>1, <2>2 DEF Within, Whole, Fresh
  <2>4. disk' = SetMain(t)
    BY <1>2 DEF Saved
  <2> HIDE DEF t
  <2>5. /\ DiskOK' /\ TreesInv' /\ DOMAIN disk' = DOMAIN disk \cup {"main"} /\ main' = t
        /\ \A q \in DOMAIN disk \ {"main"} : disk'[q] = disk[q]
    BY <2>1, <2>2, <2>3, <2>4, MainStays
  <2> QED BY <1>2, <2>2, <2>3, <2>5 DEF HasMain, Has
<1>3. CASE disk' = Saved(b) /\ ~Has("main")
  <2> DEFINE t == [EmptyTree EXCEPT !.pending = b]
  <2>1. EmptyTree \in Tree /\ Fresh(EmptyTree)
    BY EmptyIsTree
  <2>2. /\ t \in Tree /\ t.keys = << >> /\ t.prev = << >> /\ t.session = 0 /\ t.boxes = {}
    BY <2>1 DEF Tree, EmptyTree
  <2>3. Within(t, used) /\ Fresh(t)
    BY <2>2 DEF Within, Fresh
  <2>4. disk' = SetMain(t)
    BY <1>3 DEF Saved
  <2> HIDE DEF t
  <2>5. /\ DiskOK' /\ TreesInv' /\ DOMAIN disk' = DOMAIN disk \cup {"main"} /\ main' = t
        /\ \A q \in DOMAIN disk \ {"main"} : disk'[q] = disk[q]
    BY <2>2, <2>3, <2>4, MainStays
  <2> QED BY <1>3, <2>5 DEF HasMain, Has
<1> QED BY <1>1, <1>2, <1>3

LEMMA MigrateAbandonKeeps == TreeInv /\ MigrateAbandon => TreeInv'
<1> SUFFICES ASSUME TreeInv, MigrateAbandon PROVE TreeInv'
  OBVIOUS
<1>1. /\ pc = "idle" /\ pc' = pc /\ disk' \in {Saved(FALSE), disk}
      /\ UNCHANGED <<tpm, on, key, doc, used, new>>
  BY DEF MigrateAbandon, chip, args
<1>2. /\ DiskOK' /\ TreesInv' /\ (HasMain => HasMain' /\ main'.pub = main.pub)
      /\ Has("main") => /\ Has("main")' /\ main'.prev = main.prev /\ main'.meta = main.meta
  BY <1>1, SavedStays
<1>3. MemoryInv'
  BY <1>1, <1>2 DEF MemoryInv, TreeInv
<1> QED BY <1>1, <1>2, <1>3, Elsewhere DEF TreeInv, Types

LEMMA MoveAsideKeeps == TreeInv /\ MoveAside => TreeInv'
<1> SUFFICES ASSUME TreeInv, MoveAside PROVE TreeInv'
  OBVIOUS
<1>1. PICK a \in Aside \ DOMAIN disk : disk' = Move("main", a) /\ spot' = a
  BY DEF MoveAside
<1>2. /\ pc = "aside" /\ pc' \in {"discard", "create"} /\ UNCHANGED <<tpm, on, key, doc, used, new>>
      /\ pc' = "discard" => KeepsNothing(main)
  BY DEF MoveAside, chip, mem
<1>3. Has("main") /\ key = 0
  BY <1>2 DEF TreeInv, CreateInv, MemoryInv
<1>4. /\ DiskOK' /\ DOMAIN disk' = (DOMAIN disk \ {"main"}) \cup {a} /\ disk'[a] = main
      /\ \A r \in DOMAIN disk \ {"main"} : disk'[r] = disk[r]
  <2>1. "main" \in DOMAIN disk /\ a \in Names \ DOMAIN disk
    BY <1>3 DEF Has, Names
  <2> QED BY <1>1, <2>1, TreeMoved DEF TreeInv, Types, main
<1>5. TreesInv'
  BY <1>2, <1>3, <1>4, MainIsTree DEF TreeInv, TreesInv
<1>6. "main" \notin DOMAIN disk'
  BY <1>4, <1>3, AsideAssumption
<1>7. CreateInv'
  BY <1>1, <1>2, <1>4, <1>6 DEF CreateInv, Has, KeepsNothing
<1>8. MemoryInv'
  BY <1>2, <1>3 DEF MemoryInv
<1>9. Types'
  BY <1>2, <1>4 DEF TreeInv, Types, Steps
<1> QED BY <1>2, <1>5, <1>7, <1>8, <1>9, Elsewhere DEF TreeInv

LEMMA DiscardKeeps == TreeInv /\ Discard => TreeInv'
<1> SUFFICES ASSUME TreeInv, Discard PROVE TreeInv'
  OBVIOUS
<1>1. /\ pc = "discard" /\ pc' = "create" /\ UNCHANGED <<tpm, on, key, doc, used, new>>
      /\ disk' \in {Remove(spot), disk}
  BY DEF Discard, chip, mem, args
<1>2. /\ DiskOK' /\ TreesInv' /\ DOMAIN disk' \subseteq DOMAIN disk
  BY <1>1, TreeGoes DEF TreeInv, Types
<1>3. key = 0 /\ ~Has("main")
  BY <1>1 DEF TreeInv, CreateInv, MemoryInv
<1>4. CreateInv'
  BY <1>1, <1>2, <1>3 DEF CreateInv, Has
<1>5. MemoryInv'
  BY <1>1, <1>3 DEF MemoryInv
<1> QED BY <1>1, <1>2, <1>4, <1>5, Elsewhere DEF TreeInv, Types, Steps

LEMMA CreateOrderIs ==
  /\ CreateOrder \in Seq(Files) /\ Len(CreateOrder) = 5
  /\ CreateOrder[1] = "list" /\ CreateOrder[2] = "secret" /\ CreateOrder[3] = "pub"
  /\ CreateOrder[4] = "meta" /\ CreateOrder[5] = "keys" /\ InOrder(CreateOrder, CreateOrder)
<1>1. /\ CreateOrder[1] = "list" /\ CreateOrder[2] = "secret" /\ CreateOrder[3] = "pub"
      /\ CreateOrder[4] = "meta" /\ CreateOrder[5] = "keys" /\ Len(CreateOrder) = 5
  BY DEF CreateOrder
<1>2. CreateOrder \in Seq(Files)
  BY DEF CreateOrder, Files
<1> QED BY <1>1, <1>2 DEF InOrder

(* The file create() writes next, by what is left.                         *)
LEMMA NextCreated ==
  ASSUME NEW s, InOrder(s, CreateOrder), s # << >>
  PROVE  /\ InOrder(Tail(s), CreateOrder)
         /\ \/ Len(s) = 5 /\ Len(Tail(s)) = 4 /\ Head(s) = "list"
            \/ Len(s) = 4 /\ Len(Tail(s)) = 3 /\ Head(s) = "secret"
            \/ Len(s) = 3 /\ Len(Tail(s)) = 2 /\ Head(s) = "pub"
            \/ Len(s) = 2 /\ Len(Tail(s)) = 1 /\ Head(s) = "meta"
            \/ Len(s) = 1 /\ Len(Tail(s)) = 0 /\ Head(s) = "keys"
<1> DEFINE n == Len(s)
           m == Len(Tail(s))
           h == Head(s)
<1>1. /\ n \in 1..5 /\ h = CreateOrder[5 - n + 1] /\ InOrder(Tail(s), CreateOrder) /\ m = n - 1
  BY NextFile, CreateOrderIs
<1> HIDE DEF n, m, h
<1>2. n = 5 \/ n = 4 \/ n = 3 \/ n = 2 \/ n = 1
  BY <1>1
<1>3. /\ n = 5 => m = 4 /\ h = CreateOrder[1]
      /\ n = 4 => m = 3 /\ h = CreateOrder[2]
      /\ n = 3 => m = 2 /\ h = CreateOrder[3]
      /\ n = 2 => m = 1 /\ h = CreateOrder[4]
      /\ n = 1 => m = 0 /\ h = CreateOrder[5]
  BY <1>1
<1>4. /\ \/ n = 5 /\ m = 4 /\ h = "list"
         \/ n = 4 /\ m = 3 /\ h = "secret"
         \/ n = 3 /\ m = 2 /\ h = "pub"
         \/ n = 2 /\ m = 1 /\ h = "meta"
         \/ n = 1 /\ m = 0 /\ h = "keys"
  BY <1>2, <1>3, CreateOrderIs
<1> QED BY <1>1, <1>4 DEF n, m, h

LEMMA StartCreateKeeps == TreeInv /\ StartCreate => TreeInv'
<1> SUFFICES ASSUME TreeInv, StartCreate PROVE TreeInv'
  OBVIOUS
<1>1. /\ pc = "create" /\ pc' = "write" /\ UNCHANGED <<tpm, on, key, doc>>
      /\ new' = used + 1 /\ used' = used + 1 /\ todo' = CreateOrder
      /\ disk' = IF Has("main") THEN disk ELSE SetMain(EmptyTree)
  BY DEF StartCreate, chip, mem
<1>2. key = 0 /\ (Has("main") => Fresh(main)) /\ used \in Nat
  BY <1>1 DEF TreeInv, Types, CreateInv, MemoryInv
<1>3. /\ DiskOK' /\ DOMAIN disk' = DOMAIN disk \cup {"main"} /\ main' \in Tree /\ Fresh(main)'
      /\ (Has("main") /\ main' = main) \/ main' = EmptyTree
      /\ \A q \in DOMAIN disk \ {"main"} : disk'[q] = disk[q]
  <2>1. CASE Has("main")
    <3>1. disk' = disk /\ DiskOK' /\ main' = main /\ main \in Tree /\ Fresh(main)
      BY <1>1, <1>2, <2>1, TreesStay, MainIsTree DEF main
    <3> QED BY <2>1, <3>1 DEF Has, Fresh
  <2>2. CASE ~Has("main")
    <3>1. disk' = With(disk, "main", EmptyTree)
      BY <1>1, <2>2 DEF SetMain
    <3>2. /\ DiskOK' /\ DOMAIN disk' = DOMAIN disk \cup {"main"} /\ disk'["main"] = EmptyTree
          /\ \A q \in DOMAIN disk \ {"main"} : disk'[q] = disk[q]
      BY <3>1, TreeSet, EmptyIsTree DEF TreeInv, Types, Names
    <3> QED BY <3>2, EmptyIsTree DEF main, Fresh
  <2> QED BY <2>1, <2>2
<1>4. ASSUME NEW q \in DOMAIN disk'
      PROVE  Within(disk'[q], used) /\ Within(disk'[q], used')
  <2>1. CASE q # "main" \/ (Has("main") /\ main' = main)
    <3>1. q \in DOMAIN disk /\ disk'[q] = disk[q]
      BY <1>3, <2>1 DEF main, Has
    <3> QED BY <3>1, <1>1, <1>2, WithinMore
  <2>2. CASE q = "main" /\ main' = EmptyTree
    <3>1. EmptyTree.keys = << >> /\ EmptyTree.prev = << >> /\ disk'[q] = EmptyTree
      BY <2>2 DEF EmptyTree, main
    <3> QED BY <3>1 DEF Within
  <2> QED BY <1>3, <2>1, <2>2
<1>5. TreesInv'
  BY <1>3, <1>4 DEF TreeInv, TreesInv, main, Fresh
<1>6. \A q \in DOMAIN disk' : NotIn(disk'[q], new')
  <2> TAKE q \in DOMAIN disk'
  <2>1. Within(disk'[q], used) /\ disk'[q] \in Tree
    BY <1>3, <1>4 DEF DiskOK
  <2>2. ASSUME NEW set \in {disk'[q].keys, disk'[q].prev}, NEW f \in DOMAIN set
        PROVE  set[f].key \in Nat
    <3>1. set \in KeySets
      BY <2>1 DEF Tree
    <3> QED BY <3>1, KeySetFacts DEF Blob
  <2> QED BY <1>1, <1>2, <2>1, <2>2 DEF Within, NotIn
<1>7. CreateInv'
  BY <1>1, <1>2, <1>3, <1>6, CreateOrderIs DEF CreateInv, Has, OnlyIn, Fresh
<1>8. MemoryInv'
  BY <1>1, <1>2 DEF MemoryInv
<1> QED BY <1>1, <1>2, <1>3, <1>5, <1>7, <1>8, Elsewhere DEF TreeInv, Types, Steps

(* Tree m with file f of its blobs (re)written                             *)
LEMMA BlobWritten ==
  ASSUME NEW m \in Tree, NEW f \in Blobs, NEW b \in Blob, NEW n \in Nat,
         Within(m, n), b.key <= n, NEW t, t = [m EXCEPT !.keys = With(@, f, b)]
  PROVE  /\ t \in Tree /\ Within(t, n)
         /\ DOMAIN t.keys = DOMAIN m.keys \cup {f} /\ t.keys[f] = b
         /\ \A g \in DOMAIN m.keys \ {f} : t.keys[g] = m.keys[g]
         /\ t.prev = m.prev /\ t.pub = m.pub /\ t.meta = m.meta /\ t.session = m.session
         /\ t.boxes = m.boxes /\ t.pending = m.pending
<1> DEFINE ks == With(m.keys, f, b)
<1>1. /\ DOMAIN ks = DOMAIN m.keys \cup {f} /\ ks[f] = b
      /\ \A g \in DOMAIN m.keys \ {f} : ks[g] = m.keys[g]
  BY DEF With
<1>2. ks \in KeySets
  BY KeySetWith DEF Tree
<1>3. t = [m EXCEPT !.keys = ks]
  OBVIOUS
<1> HIDE DEF ks
<1>4. /\ t \in Tree /\ t.keys = ks
      /\ t.prev = m.prev /\ t.pub = m.pub /\ t.meta = m.meta /\ t.session = m.session
      /\ t.boxes = m.boxes /\ t.pending = m.pending
  BY <1>2, <1>3 DEF Tree
<1>5. Within(t, n)
  BY <1>1, <1>4 DEF Within
<1> QED BY <1>1, <1>4, <1>5

LEMMA CreateWriteKeeps == TreeInv /\ CreateWrite => TreeInv'
<1> SUFFICES ASSUME TreeInv, CreateWrite PROVE TreeInv'
  OBVIOUS
<1> DEFINE f == Head(todo)
           t == Written(main, f, new)
<1>1. /\ pc = "write" /\ pc' = pc /\ UNCHANGED <<tpm, on, key, doc, used, new>>
      /\ todo # << >> /\ todo' = Tail(todo) /\ disk' = SetMain(t)
  BY DEF CreateWrite, chip, mem
<1>2. /\ key = 0 /\ new # 0 /\ Has("main") /\ OnlyIn("main", new)
      /\ DOMAIN main.prev = {} /\ main.session = 0 /\ main.boxes = {}
      /\ InOrder(todo, CreateOrder)
  BY <1>1 DEF TreeInv, CreateInv, MemoryInv
<1>3. /\ InOrder(todo', CreateOrder)
      /\ \/ Len(todo) = 5 /\ Len(todo') = 4 /\ f = "list"
         \/ Len(todo) = 4 /\ Len(todo') = 3 /\ f = "secret"
         \/ Len(todo) = 3 /\ Len(todo') = 2 /\ f = "pub"
         \/ Len(todo) = 2 /\ Len(todo') = 1 /\ f = "meta"
         \/ Len(todo) = 1 /\ Len(todo') = 0 /\ f = "keys"
  BY <1>1, <1>2, NextCreated
<1>4. /\ main \in Tree /\ Within(main, used) /\ DOMAIN main.keys \subseteq Blobs
      /\ "keys" \notin DOMAIN main.keys
  BY <1>1, <1>2, <1>3, MainIsTree DEF TreeInv, CreateInv
<1>5. /\ Seal(new) \in Blob /\ Seal(new).key = new /\ Seal(new)' = Seal(new)
      /\ new \in Nat /\ used \in Nat /\ new <= used
  BY <1>1, SealIsBlob DEF TreeInv, Types, Seal
<1>6. CASE f \in Blobs
  <2>1. /\ t = [main EXCEPT !.keys = With(@, f, Seal(new))]
    BY <1>6 DEF Written, Blobs
  <2>2. /\ t \in Tree /\ Within(t, used)
        /\ DOMAIN t.keys = DOMAIN main.keys \cup {f} /\ t.keys[f] = Seal(new)
        /\ \A g \in DOMAIN main.keys \ {f} : t.keys[g] = main.keys[g]
        /\ t.prev = main.prev /\ t.pub = main.pub /\ t.meta = main.meta
        /\ t.session = main.session /\ t.boxes = main.boxes
    BY <1>4, <1>5, <1>6, <2>1, BlobWritten
  <2> HIDE DEF t
  <2>3. f # "keys" => Fresh(t)
    BY <1>2, <1>4, <2>2 DEF Fresh
  <2>4. f = "keys" => Whole(t)
    <3> HAVE f = "keys"
    <3>1. Len(todo) = 1
      BY <1>3
    <3>2. /\ main.keys["list"] = Seal(new) /\ main.keys["secret"] = Seal(new)
          /\ {"list", "secret"} \subseteq DOMAIN main.keys /\ main.pub = new /\ main.meta.key = new
      BY <1>1, <3>1 DEF TreeInv, CreateInv
    <3> QED BY <1>2, <1>4, <1>5, <2>2, <3>2 DEF Whole, Blobs
  <2>5. /\ DiskOK' /\ TreesInv' /\ DOMAIN disk' = DOMAIN disk \cup {"main"} /\ main' = t
        /\ \A q \in DOMAIN disk \ {"main"} : disk'[q] = disk[q]
    BY <1>1, <2>2, <2>3, <2>4, MainStays
  <2>6. CreateInv'
    <3>1. OnlyIn("main", new)'
      BY <1>1, <1>2, <2>5 DEF OnlyIn
    <3>2. \/ (Len(todo) = 5 /\ Len(todo') = 4 /\ f = "list")
          \/ (Len(todo) = 4 /\ Len(todo') = 3 /\ f = "secret")
          \/ (Len(todo) = 1 /\ Len(todo') = 0 /\ f = "keys")
      BY <1>3, <1>6 DEF Blobs
    <3>3. /\ Len(todo') <= 4 => "list" \in DOMAIN t.keys /\ t.keys["list"] = Seal(new)
          /\ Len(todo') <= 3 => "secret" \in DOMAIN t.keys /\ t.keys["secret"] = Seal(new)
          /\ Len(todo') <= 2 => t.pub = new
          /\ Len(todo') <= 1 => t.meta.key = new /\ t.meta.items = {}
          /\ Len(todo') = 0 => "keys" \in DOMAIN t.keys /\ t.keys["keys"] = Seal(new)
          /\ Len(todo') > 0 => "keys" \notin DOMAIN t.keys
      <4>1. CASE Len(todo) = 5 /\ Len(todo') = 4 /\ f = "list"
        BY <1>4, <2>2, <4>1
      <4>2. CASE Len(todo) = 4 /\ Len(todo') = 3 /\ f = "secret"
        <5>1. "list" \in DOMAIN main.keys /\ main.keys["list"] = Seal(new)
          BY <1>1, <4>2 DEF TreeInv, CreateInv
        <5> QED BY <1>4, <2>2, <4>2, <5>1
      <4>3. CASE Len(todo) = 1 /\ Len(todo') = 0 /\ f = "keys"
        <5>1. /\ main.keys["list"] = Seal(new) /\ main.keys["secret"] = Seal(new)
              /\ {"list", "secret"} \subseteq DOMAIN main.keys
              /\ main.pub = new /\ main.meta.key = new /\ main.meta.items = {}
          BY <1>1, <4>3 DEF TreeInv, CreateInv
        <5> QED BY <2>2, <4>3, <5>1
      <4> QED BY <3>2, <4>1, <4>2, <4>3
    <3>4. /\ Has("main")' /\ DOMAIN main'.prev = {} /\ main'.session = 0 /\ main'.boxes = {}
      BY <1>2, <2>2, <2>5 DEF Has
    <3>5. InOrder(todo', CreateOrder) /\ pc' = "write" /\ new' = new /\ new # 0
      BY <1>1, <1>2, <1>3
    <3> QED BY <1>5, <2>5, <3>1, <3>3, <3>4, <3>5 DEF CreateInv
  <2>7. MemoryInv'
    BY <1>1, <1>2 DEF MemoryInv
  <2> QED BY <1>1, <2>5, <2>6, <2>7, Elsewhere DEF TreeInv, Types, Steps
<1>7. CASE f \in {"pub", "meta"}
  <2>1. /\ t \in Tree /\ t.keys = main.keys /\ t.prev = main.prev
        /\ t.session = main.session /\ t.boxes = main.boxes
        /\ IF f = "pub" THEN t.pub = new /\ t.meta = main.meta
           ELSE t.pub = main.pub /\ t.meta = [key |-> new, items |-> {}]
    <3>1. [key |-> new, items |-> {}] \in Metas
      BY <1>5 DEF Metas
    <3>2. CASE f = "pub"
      <4>1. t = [main EXCEPT !.pub = new]
        BY <3>2 DEF Written
      <4> HIDE DEF t
      <4> QED BY <1>4, <1>5, <3>2, <4>1 DEF Tree
    <3>3. CASE f = "meta"
      <4>1. t = [main EXCEPT !.meta = [key |-> new, items |-> {}]]
        BY <3>3 DEF Written
      <4> HIDE DEF t
      <4> QED BY <1>4, <3>1, <3>3, <4>1 DEF Tree
    <3> QED BY <1>7, <3>2, <3>3
  <2> HIDE DEF t
  <2>2. Fresh(t) /\ Within(t, used)
    BY <1>2, <1>4, <2>1 DEF Fresh, Within
  <2>3. /\ DiskOK' /\ TreesInv' /\ DOMAIN disk' = DOMAIN disk \cup {"main"} /\ main' = t
        /\ \A q \in DOMAIN disk \ {"main"} : disk'[q] = disk[q]
    BY <1>1, <2>1, <2>2, MainStays
  <2>4. CreateInv'
    <3>1. OnlyIn("main", new)'
      BY <1>1, <1>2, <2>3 DEF OnlyIn
    <3>2. \/ (Len(todo) = 3 /\ Len(todo') = 2 /\ f = "pub")
          \/ (Len(todo) = 2 /\ Len(todo') = 1 /\ f = "meta")
      BY <1>3, <1>7
    <3>3. /\ "list" \in DOMAIN t.keys /\ t.keys["list"] = Seal(new)
          /\ "secret" \in DOMAIN t.keys /\ t.keys["secret"] = Seal(new)
          /\ t.pub = new
          /\ Len(todo') <= 1 => t.meta.key = new /\ t.meta.items = {}
          /\ Len(todo') > 0 /\ "keys" \notin DOMAIN t.keys
      <4>1. /\ main.keys["list"] = Seal(new) /\ main.keys["secret"] = Seal(new)
            /\ {"list", "secret"} \subseteq DOMAIN main.keys
            /\ Len(todo) = 2 => main.pub = new
        <5>1. /\ Len(todo) <= 4 => /\ "list" \in DOMAIN main.keys
                                  /\ main.keys["list"] = Seal(new)
              /\ Len(todo) <= 3 => /\ "secret" \in DOMAIN main.keys
                                  /\ main.keys["secret"] = Seal(new)
              /\ Len(todo) <= 2 => main.pub = new
          BY <1>1 DEF TreeInv, CreateInv
        <5>2. Len(todo) <= 3 /\ Len(todo) <= 4 /\ (Len(todo) = 2 => Len(todo) <= 2)
          <6>1. Len(todo) \in {2, 3}
            BY <3>2
          <6> QED BY <6>1
        <5> QED BY <5>1, <5>2
      <4>2. CASE f = "pub" /\ Len(todo') = 2
        BY <1>4, <2>1, <4>1, <4>2
      <4>3. CASE f = "meta" /\ Len(todo) = 2 /\ Len(todo') = 1
        BY <1>4, <2>1, <4>1, <4>3
      <4> QED BY <3>2, <4>2, <4>3
    <3>4. /\ Has("main")' /\ DOMAIN main'.prev = {} /\ main'.session = 0 /\ main'.boxes = {}
      BY <1>2, <2>1, <2>3 DEF Has
    <3>5. InOrder(todo', CreateOrder) /\ pc' = "write" /\ new' = new /\ new # 0
      BY <1>1, <1>2, <1>3
    <3> QED BY <1>5, <2>3, <3>1, <3>3, <3>4, <3>5 DEF CreateInv
  <2>5. MemoryInv'
    BY <1>1, <1>2 DEF MemoryInv
  <2> QED BY <1>1, <2>3, <2>4, <2>5, Elsewhere DEF TreeInv, Types, Steps
<1>8. f \in Blobs \cup {"pub", "meta"}
  BY <1>3 DEF Blobs
<1> QED BY <1>6, <1>7, <1>8

LEMMA CreatedKeeps == TreeInv /\ Created => TreeInv'
<1> SUFFICES ASSUME TreeInv, Created PROVE TreeInv'
  OBVIOUS
<1>1. /\ pc = "write" /\ pc' \in {"mark", "idle"} /\ todo = << >>
      /\ key' = new /\ doc' = {} /\ UNCHANGED <<disk, tpm, on, used>> /\ new' \in {0, new}
  BY DEF Created, Return, chip, args
<1>2. /\ Has("main") /\ new # 0 /\ DOMAIN main.prev = {} /\ main.session = 0 /\ main.boxes = {}
      /\ {"list", "secret", "keys"} \subseteq DOMAIN main.keys
      /\ main.keys["list"] = Seal(new) /\ main.keys["secret"] = Seal(new)
      /\ main.keys["keys"] = Seal(new)
      /\ main.pub = new /\ main.meta.key = new /\ main.meta.items = {}
  <2>1. Len(todo) = 0
    BY <1>1
  <2> QED BY <1>1, <2>1 DEF TreeInv, CreateInv
<1>3. Seal(new).key = new /\ new \in Nat
  BY SealIsBlob DEF TreeInv, Types
<1>4. Whole(main)
  BY <1>2, <1>3, MainIsTree DEF Whole, Blobs
<1>5. DiskOK' /\ TreesInv'
  BY <1>1, TreesStay DEF TreeInv, Types
<1>6. MemoryInv'
  BY <1>1, <1>2, <1>4 DEF MemoryInv, HasMain, Has, main
<1>7. Types'
  BY <1>1, <1>5 DEF TreeInv, Types, Steps
<1> QED BY <1>1, <1>5, <1>6, <1>7, Elsewhere DEF TreeInv

LEMMA CreateFailsKeeps == TreeInv /\ CreateFails => TreeInv'
<1> SUFFICES ASSUME TreeInv, CreateFails PROVE TreeInv'
  OBVIOUS
<1>1. /\ pc = "write" /\ pc' = "undo" /\ todo # << >> /\ UNCHANGED <<disk, tpm, on, key, doc, used, new>>
  BY DEF CreateFails, chip, mem
<1>2. Has("main") /\ "keys" \notin DOMAIN main.keys /\ key = 0
  <2>1. Len(todo) > 0
    BY <1>1 DEF TreeInv, CreateInv, InOrder
  <2> QED BY <1>1, <2>1 DEF TreeInv, CreateInv, MemoryInv
<1>3. Fresh(main)
  BY <1>2, MainIsTree DEF Whole, Blobs
<1>4. DiskOK' /\ TreesInv'
  BY <1>1, TreesStay DEF TreeInv, Types
<1>5. CreateInv' /\ MemoryInv'
  BY <1>1, <1>2, <1>3 DEF CreateInv, MemoryInv, Has, main
<1> QED BY <1>1, <1>4, <1>5, Elsewhere DEF TreeInv, Types, Steps

LEMMA UndoKeeps == TreeInv /\ Undo => TreeInv'
<1> SUFFICES ASSUME TreeInv, Undo PROVE TreeInv'
  OBVIOUS
<1> DEFINE f == Head(todo)
           t == Unwritten(main, f)
<1>1. /\ pc = "undo" /\ pc' = pc /\ UNCHANGED <<tpm, on, key, doc, used, new>> /\ disk' = SetMain(t)
  BY DEF Undo, chip, mem
<1>2. Has("main") /\ Fresh(main) /\ key = 0
  BY <1>1 DEF TreeInv, CreateInv, MemoryInv
<1>3. main \in Tree /\ Within(main, used)
  BY <1>2, MainIsTree
<1>4. t \in Tree /\ Fresh(t) /\ Within(t, used)
  <2>1. CASE f = "pub"
    <3>1. t = [main EXCEPT !.pub = 0]
      BY <2>1 DEF Unwritten
    <3> HIDE DEF t
    <3>2. /\ t \in Tree /\ t.keys = main.keys /\ t.prev = main.prev
          /\ t.session = main.session /\ t.boxes = main.boxes
      BY <1>3, <3>1 DEF Tree
    <3> QED BY <1>2, <1>3, <3>2 DEF Fresh, Within
  <2>2. CASE f = "meta"
    <3>1. t = [main EXCEPT !.meta = NoMeta] /\ NoMeta \in Metas
      BY <2>2 DEF Unwritten, NoMeta, Metas
    <3> HIDE DEF t
    <3>2. /\ t \in Tree /\ t.keys = main.keys /\ t.prev = main.prev
          /\ t.session = main.session /\ t.boxes = main.boxes
      BY <1>3, <3>1 DEF Tree
    <3> QED BY <1>2, <1>3, <3>2 DEF Fresh, Within
  <2>3. CASE f \notin {"pub", "meta"}
    <3> DEFINE ks == Without(main.keys, f)
    <3>1. t = [main EXCEPT !.keys = ks]
      BY <2>3 DEF Unwritten
    <3>2. /\ ks \in KeySets /\ DOMAIN ks = DOMAIN main.keys \ {f}
          /\ \A g \in DOMAIN ks : ks[g] = main.keys[g]
      BY <1>3, KeySetWithout DEF Tree, Without, Restrict
    <3> HIDE DEF t, ks
    <3>3. /\ t \in Tree /\ t.keys = ks /\ t.prev = main.prev
          /\ t.session = main.session /\ t.boxes = main.boxes
      BY <1>3, <3>1, <3>2 DEF Tree
    <3> QED BY <1>2, <1>3, <3>2, <3>3 DEF Fresh, Within
  <2> QED BY <2>1, <2>2, <2>3
<1> HIDE DEF t
<1>5. DiskOK' /\ TreesInv' /\ Has("main")' /\ main' = t
  BY <1>1, <1>4, MainStays DEF Has
<1>6. CreateInv' /\ MemoryInv'
  BY <1>1, <1>2, <1>4, <1>5 DEF CreateInv, MemoryInv
<1> QED BY <1>1, <1>5, <1>6, Elsewhere DEF TreeInv, Types, Steps

LEMMA UndoneKeeps == TreeInv /\ Undone => TreeInv'
<1> SUFFICES ASSUME TreeInv, Undone PROVE TreeInv'
  OBVIOUS
<1>1. /\ pc = "undo" /\ pc' = "idle" /\ UNCHANGED <<tpm, on, key, doc, used>> /\ new' = 0
      /\ disk' \in {Remove("main"), disk}
  BY DEF Undone, Return, chip, mem
<1>2. key = 0
  BY <1>1 DEF TreeInv, MemoryInv
<1>3. DiskOK' /\ TreesInv'
  BY <1>1, TreeGoes DEF TreeInv, Types
<1>4. MemoryInv'
  BY <1>1, <1>2 DEF MemoryInv
<1> QED BY <1>1, <1>3, <1>4, Elsewhere DEF TreeInv, Types, Steps

LEMMA MarkKeeps == TreeInv /\ Mark => TreeInv'
<1> SUFFICES ASSUME TreeInv, Mark PROVE TreeInv'
  OBVIOUS
<1>1. /\ pc = "mark" /\ pc' = "idle" /\ UNCHANGED <<tpm, on, key, doc, used>> /\ new' = 0
      /\ disk' \in {Saved(TRUE), disk}
  BY DEF Mark, Return, chip
<1>2. /\ DiskOK' /\ TreesInv' /\ (HasMain => HasMain' /\ main'.pub = main.pub)
      /\ Has("main") => /\ Has("main")' /\ main'.prev = main.prev /\ main'.meta = main.meta
  BY <1>1, SavedStays
<1>3. MemoryInv'
  BY <1>1, <1>2 DEF MemoryInv, TreeInv
<1> QED BY <1>1, <1>2, <1>3, Elsewhere DEF TreeInv, Types, Steps

LEMMA StartUnlockKeeps == TreeInv /\ StartUnlock => TreeInv'
<1> SUFFICES ASSUME TreeInv, StartUnlock PROVE TreeInv'
  OBVIOUS
<1>1. /\ pc = "idle" /\ pc' = "unseal" /\ key = 0 /\ Has("main")
      /\ UNCHANGED <<tpm, on, key, doc, used, new>> /\ disk' \in {Remove("rotate"), disk}
  BY DEF StartUnlock, HasKeys, chip, mem, args
<1>2. DiskOK' /\ TreesInv' /\ Has("main")'
  BY <1>1, TreeGoes DEF TreeInv, Types, Has
<1>3. UnlockInv' /\ MemoryInv'
  BY <1>1, <1>2 DEF UnlockInv, MemoryInv
<1> QED BY <1>1, <1>2, <1>3, Elsewhere DEF TreeInv, Types, Steps

(* The call returns with nothing written, or goes on.                      *)
LEMMA UnsealKeeps == TreeInv /\ (Unseal \/ StartRollback) => TreeInv'
<1> SUFFICES ASSUME TreeInv, Unseal \/ StartRollback PROVE TreeInv'
  OBVIOUS
<1>1. /\ pc = "unseal" /\ pc' \in {"load", "rollback"} /\ UNCHANGED <<disk, tpm, on, key, doc, used>>
  BY DEF Unseal, StartRollback, chip, mem
<1>2. Has("main") /\ key = 0
  BY <1>1 DEF TreeInv, UnlockInv, MemoryInv
<1>3. Whole(main) /\ new' = main.pub
  <2>1. CASE Unseal
    <3>1. {"keys", "list"} \subseteq DOMAIN main.keys /\ new' = main.keys["list"].key
      BY <2>1 DEF Unseal, CanUnseal, Holds
    <3> QED BY <1>2, <3>1, MainIsTree DEF Fresh, Whole
  <2>2. CASE StartRollback
    <3>1. Blobs \subseteq DOMAIN main.prev /\ new' = main.prev["list"].key /\ "list" \in Blobs
      BY <2>2 DEF StartRollback, CanRollBack, Blobs
    <3> QED BY <1>2, <3>1, MainIsTree DEF Fresh, Whole
  <2> QED BY <2>1, <2>2
<1>4. DiskOK' /\ TreesInv'
  BY <1>1, TreesStay DEF TreeInv, Types
<1>5. new' \in Nat /\ new' <= used
  <2>1. "list" \in DOMAIN main.keys /\ main.keys["list"].key = main.pub /\ main \in Tree
    BY <1>2, <1>3, MainIsTree DEF Whole, Blobs
  <2> QED BY <1>2, <1>3, <2>1, MainIsTree DEF Within, Tree
<1>6. UnlockInv'
  <2>1. pc' = "rollback" => todo' = InTurn /\ DOMAIN main.prev = Blobs
    BY <1>2, MainIsTree DEF Unseal, StartRollback, CanRollBack
  <2> QED BY <1>1, <1>2, <1>3, <2>1, AllInTurn DEF UnlockInv, HasMain, Has, main
<1>7. MemoryInv'
  BY <1>1, <1>2 DEF MemoryInv
<1> QED BY <1>1, <1>4, <1>5, <1>6, <1>7, Elsewhere DEF TreeInv, Types, Steps

LEMMA UnsealEndsKeeps == TreeInv /\ (UnsealUnavailable \/ UnsealRefused) => TreeInv'
<1> SUFFICES ASSUME TreeInv, UnsealUnavailable \/ UnsealRefused PROVE TreeInv'
  OBVIOUS
<1>1. /\ pc = "unseal" /\ pc' = "idle" /\ new' = 0 /\ UNCHANGED <<disk, tpm, on, key, doc, used>>
  BY DEF UnsealUnavailable, UnsealRefused, Return, chip, mem
<1>2. DiskOK' /\ TreesInv'
  BY <1>1, TreesStay DEF TreeInv, Types
<1>3. MemoryInv'
  BY <1>1 DEF TreeInv, MemoryInv
<1> QED BY <1>1, <1>2, <1>3, Elsewhere DEF TreeInv, Types, Steps

(* One os.replace of _rollback(): what the tree is after it                *)
LEMMA RolledBack ==
  ASSUME TreeInv, Rollback
  PROVE  LET f == Head(todo) IN
         /\ DiskOK' /\ TreesInv' /\ HasMain' /\ main'.pub = main.pub
         /\ DOMAIN disk' = DOMAIN disk \cup {"main"}
         /\ \A q \in DOMAIN disk \ {"main"} : disk'[q] = disk[q]
         /\ f \in Blobs /\ f \in DOMAIN main.prev /\ DOMAIN main'.prev = DOMAIN main.prev \ {f}
         /\ \A g \in DOMAIN main'.prev : main'.prev[g] = main.prev[g]
         /\ main'.keys[f] = main.prev[f] /\ DOMAIN main'.keys = Blobs
         /\ \A g \in Blobs \ {f} : main'.keys[g] = main.keys[g]
         /\ main'.meta = main.meta /\ main'.boxes = main.boxes
<1> DEFINE f == Head(todo)
           ks == With(main.keys, f, main.prev[f])
           ps == Without(main.prev, f)
           t == [main EXCEPT !.keys = ks, !.prev = ps]
<1>1. disk' = SetMain(t) /\ pc = "rollback" /\ used' = used
  BY DEF Rollback
<1>2. HasMain /\ todo # << >> /\ InOrder(todo, InTurn) /\ DOMAIN main.prev = Left(todo)
  BY <1>1 DEF TreeInv, UnlockInv
<1>3. f \in Blobs /\ f \in DOMAIN main.prev
  BY <1>2, NextBlob
<1>4. /\ main \in Tree /\ Within(main, used) /\ Whole(main)
      /\ main.keys \in KeySets /\ main.prev \in KeySets /\ DOMAIN main.keys = Blobs
      /\ main.prev[f] \in Blob
  BY <1>2, <1>3, MainIsTree, KeySetFacts DEF HasMain, Whole
<1>5. /\ ks \in KeySets /\ DOMAIN ks = Blobs /\ ks[f] = main.prev[f]
      /\ \A g \in Blobs \ {f} : ks[g] = main.keys[g]
  <2>1. /\ DOMAIN ks = DOMAIN main.keys \cup {f} /\ ks[f] = main.prev[f]
        /\ \A g \in DOMAIN main.keys \ {f} : ks[g] = main.keys[g]
    BY DEF With
  <2> QED BY <1>3, <1>4, <2>1, KeySetWith
<1>6. /\ ps \in KeySets /\ DOMAIN ps = DOMAIN main.prev \ {f}
      /\ \A g \in DOMAIN ps : ps[g] = main.prev[g]
  BY <1>4, KeySetWithout DEF Without, Restrict
<1> HIDE DEF ks, ps
<1>7. /\ t \in Tree /\ t.keys = ks /\ t.prev = ps /\ t.pub = main.pub /\ t.meta = main.meta
      /\ t.session = main.session /\ t.boxes = main.boxes
  BY <1>4, <1>5, <1>6 DEF Tree
<1> HIDE DEF t
<1>8. Whole(t)
  BY <1>3, <1>4, <1>5, <1>6, <1>7 DEF Whole
<1>9. Within(t, used)
  BY <1>3, <1>4, <1>5, <1>6, <1>7 DEF Within
<1>10. /\ DiskOK' /\ TreesInv' /\ DOMAIN disk' = DOMAIN disk \cup {"main"} /\ main' = t
       /\ \A q \in DOMAIN disk \ {"main"} : disk'[q] = disk[q]
  BY <1>1, <1>7, <1>8, <1>9, MainStays
<1> QED BY <1>3, <1>5, <1>6, <1>7, <1>8, <1>10 DEF HasMain, Has

LEMMA RollbackKeeps == TreeInv /\ Rollback => TreeInv'
<1> SUFFICES ASSUME TreeInv, Rollback PROVE TreeInv'
  OBVIOUS
<1>1. /\ pc = "rollback" /\ pc' = IF todo' = << >> THEN "load" ELSE "rollback"
      /\ todo' = Tail(todo) /\ UNCHANGED <<tpm, on, key, doc, used, new>>
  BY DEF Rollback, chip, mem
<1>2. /\ DiskOK' /\ TreesInv' /\ HasMain' /\ main'.pub = main.pub
      /\ DOMAIN main'.prev = DOMAIN main.prev \ {Head(todo)}
  BY RolledBack
<1>3. /\ new = main.pub /\ todo # << >> /\ InOrder(todo, InTurn) /\ DOMAIN main.prev = Left(todo)
      /\ key = 0
  BY <1>1 DEF TreeInv, UnlockInv, MemoryInv
<1>4. InOrder(todo', InTurn) /\ DOMAIN main'.prev = Left(todo')
  BY <1>1, <1>2, <1>3, NextBlob
<1>5. UnlockInv'
  BY <1>1, <1>2, <1>3, <1>4 DEF UnlockInv
<1>6. MemoryInv'
  BY <1>1, <1>3 DEF MemoryInv
<1> QED BY <1>1, <1>2, <1>5, <1>6, Elsewhere DEF TreeInv, Types, Steps

LEMMA LoadKeeps == TreeInv /\ Load => TreeInv'
<1> SUFFICES ASSUME TreeInv, Load PROVE TreeInv'
  OBVIOUS
<1>1. pc = "load" /\ UNCHANGED <<disk, tpm, on, used>>
  BY DEF Load, chip
<1>2. HasMain /\ new = main.pub
  BY <1>1 DEF TreeInv, UnlockInv
<1>3. Loads /\ Blobs \subseteq DOMAIN main.keys
  BY <1>2 DEF Loads, HasMain, Whole
<1>4. pc' = "drop" /\ todo' = InTurn /\ key' = new /\ doc' = main.meta.items /\ new' = new
  BY <1>3 DEF Load
<1>5. main \in Tree /\ DOMAIN main.prev \subseteq Blobs /\ new # 0
  BY <1>2, MainIsTree DEF HasMain, Whole
<1>6. DiskOK' /\ TreesInv'
  BY <1>1, TreesStay DEF TreeInv, Types
<1>7. MemoryInv' /\ UnlockInv'
  BY <1>1, <1>2, <1>4, <1>5, AllInTurn DEF MemoryInv, UnlockInv, HasMain, Has, main
<1>8. Types'
  BY <1>1, <1>4, <1>5, <1>6 DEF TreeInv, Types, Steps, Tree, Metas
<1> QED BY <1>1, <1>4, <1>6, <1>7, <1>8, Elsewhere DEF TreeInv

(* One unlink of _drop_prev()                                              *)
LEMMA PrevDropped ==
  ASSUME TreeInv, DropPrev
  PROVE  LET f == Head(todo) IN
         /\ DiskOK' /\ TreesInv' /\ HasMain' /\ main'.pub = main.pub
         /\ DOMAIN disk' = DOMAIN disk \cup {"main"}
         /\ \A q \in DOMAIN disk \ {"main"} : disk'[q] = disk[q]
         /\ DOMAIN main'.prev = DOMAIN main.prev \ {f}
         /\ \A g \in DOMAIN main'.prev : main'.prev[g] = main.prev[g]
         /\ main'.keys = main.keys /\ main'.meta = main.meta /\ main'.boxes = main.boxes
<1> DEFINE f == Head(todo)
           ps == Without(main.prev, f)
           t == [main EXCEPT !.prev = ps]
<1>1. disk' = SetMain(t) /\ pc = "drop" /\ used' = used
  BY DEF DropPrev, mem
<1>2. HasMain
  BY <1>1 DEF TreeInv, MemoryInv
<1>3. /\ main \in Tree /\ Within(main, used) /\ Whole(main) /\ main.prev \in KeySets
  BY <1>2, MainIsTree DEF HasMain
<1>4. /\ ps \in KeySets /\ DOMAIN ps = DOMAIN main.prev \ {f}
      /\ \A g \in DOMAIN ps : ps[g] = main.prev[g]
  BY <1>3, KeySetWithout DEF Without, Restrict
<1> HIDE DEF ps
<1>5. /\ t \in Tree /\ t.keys = main.keys /\ t.prev = ps /\ t.pub = main.pub /\ t.meta = main.meta
      /\ t.session = main.session /\ t.boxes = main.boxes
  BY <1>3, <1>4 DEF Tree
<1> HIDE DEF t
<1>6. Whole(t) /\ Within(t, used)
  BY <1>3, <1>4, <1>5 DEF Whole, Within
<1>7. /\ DiskOK' /\ TreesInv' /\ DOMAIN disk' = DOMAIN disk \cup {"main"} /\ main' = t
      /\ \A q \in DOMAIN disk \ {"main"} : disk'[q] = disk[q]
  BY <1>1, <1>5, <1>6, MainStays
<1> QED BY <1>4, <1>5, <1>6, <1>7 DEF HasMain, Has

LEMMA DropPrevKeeps == TreeInv /\ DropPrev => TreeInv'
<1> SUFFICES ASSUME TreeInv, DropPrev PROVE TreeInv'
  OBVIOUS
<1>1. /\ pc = "drop" /\ pc' = pc /\ todo # << >> /\ todo' = Tail(todo)
      /\ UNCHANGED <<tpm, on, key, doc, used, new>>
  BY DEF DropPrev, chip, mem
<1>2. /\ DiskOK' /\ TreesInv' /\ HasMain' /\ main'.pub = main.pub
      /\ DOMAIN main'.prev = DOMAIN main.prev \ {Head(todo)} /\ main'.meta = main.meta
  BY PrevDropped
<1>3. /\ InOrder(todo, InTurn) /\ DOMAIN main.prev \subseteq Left(todo)
      /\ key # 0 /\ main.pub = key /\ main.meta.items \subseteq doc
  BY <1>1 DEF TreeInv, UnlockInv, MemoryInv
<1>4. InOrder(todo', InTurn) /\ DOMAIN main'.prev \subseteq Left(todo')
  BY <1>1, <1>2, <1>3, NextBlob
<1>5. UnlockInv' /\ MemoryInv'
  BY <1>1, <1>2, <1>3, <1>4 DEF UnlockInv, MemoryInv, HasMain
<1> QED BY <1>1, <1>2, <1>5, Elsewhere DEF TreeInv, Types, Steps

LEMMA DroppedKeeps == TreeInv /\ Dropped => TreeInv'
<1> SUFFICES ASSUME TreeInv, Dropped PROVE TreeInv'
  OBVIOUS
<1>1. /\ pc = "drop" /\ pc' = "idle" /\ todo = << >> /\ new' = 0
      /\ UNCHANGED <<disk, tpm, on, key, doc, used>>
  BY DEF Dropped, Return, chip, mem
<1>2. DiskOK' /\ TreesInv'
  BY <1>1, TreesStay DEF TreeInv, Types
<1>3. Left(todo) = {}
  BY <1>1 DEF Left
<1>4. /\ HasMain /\ key # 0 /\ main.pub = key /\ main.meta.items \subseteq doc /\ DOMAIN main.prev = {}
  BY <1>1, <1>3 DEF TreeInv, UnlockInv, MemoryInv
<1>5. MemoryInv'
  BY <1>1, <1>4 DEF MemoryInv, HasMain, Has, main
<1> QED BY <1>1, <1>2, <1>5, Elsewhere DEF TreeInv, Types, Steps

(* What an unlocked store writes into its tree besides keys                *)
LEMMA MainWritten ==
  ASSUME TreeInv, HasMain, NEW t \in Tree, disk' = SetMain(t), used' = used,
         t.keys = main.keys, t.prev = main.prev, t.pub = main.pub,
         t.meta.key = t.pub, t.session \in {0, t.pub}, \A b \in t.boxes : b.key = t.pub
  PROVE  /\ DiskOK' /\ TreesInv' /\ HasMain' /\ main' = t
         /\ DOMAIN disk' = DOMAIN disk \cup {"main"}
         /\ \A q \in DOMAIN disk \ {"main"} : disk'[q] = disk[q]
<1>1. Whole(t) /\ Within(t, used)
  BY MainIsTree DEF HasMain, Whole, Within
<1> QED BY <1>1, MainStays DEF HasMain, Has

LEMMA UseKeeps == TreeInv /\ (SaveSession \/ SignOut \/ WriteBox \/ WriteMeta) => TreeInv'
<1> SUFFICES ASSUME TreeInv, SaveSession \/ SignOut \/ WriteBox \/ WriteMeta PROVE TreeInv'
  OBVIOUS
<1>1. /\ pc \in {"idle", "meta"} /\ UNCHANGED <<tpm, on, used>> /\ new' \in {new, 0}
      /\ key # 0 /\ HasMain /\ main.pub = key /\ DOMAIN main.prev = {}
      /\ main.meta.items \subseteq doc
  <2>1. pc = "idle" => key # 0
    BY DEF SaveSession, SignOut, WriteBox, WriteMeta
  <2>2. pc \in {"idle", "meta"} /\ UNCHANGED <<tpm, on, used>> /\ new' \in {new, 0}
    BY DEF SaveSession, SignOut, WriteBox, WriteMeta, Return, chip, args
  <2>3. pc = "meta" => key # 0
    BY DEF TreeInv, MemoryInv
  <2> QED BY <2>1, <2>2, <2>3 DEF TreeInv, MemoryInv
<1>2. main \in Tree /\ Whole(main) /\ key \in Nat /\ doc \in SUBSET Item
  BY <1>1, MainIsTree DEF HasMain, TreeInv, Types
<1>3. CASE SaveSession \/ SignOut
  <2>1. PICK k \in {0, key} : disk' = SetMain([main EXCEPT !.session = k])
    BY <1>3 DEF SaveSession, SignOut
  <2>2. pc' = "idle" /\ ((key' = key /\ doc' = doc) \/ (key' = 0 /\ doc' = {}))
    BY <1>3 DEF SaveSession, SignOut, mem
  <2> DEFINE t == [main EXCEPT !.session = k]
  <2>3. /\ t \in Tree /\ t.keys = main.keys /\ t.prev = main.prev /\ t.pub = main.pub
        /\ t.meta = main.meta /\ t.session = k /\ t.boxes = main.boxes
    BY <1>2 DEF Tree
  <2>4. disk' = SetMain(t)
    BY <2>1
  <2> HIDE DEF t
  <2>5. DiskOK' /\ TreesInv' /\ HasMain' /\ main' = t
    BY <1>1, <1>2, <2>3, <2>4, MainWritten DEF Whole
  <2>6. MemoryInv'
    BY <1>1, <2>2, <2>3, <2>5 DEF MemoryInv, HasMain
  <2>7. Types'
    BY <1>1, <2>2, <2>5 DEF TreeInv, Types, Steps
  <2> QED BY <2>2, <2>5, <2>6, <2>7, Elsewhere DEF TreeInv
<1>4. CASE WriteBox
  <2>1. PICK i \in Item \ doc : /\ disk' = SetMain([main EXCEPT !.boxes = @ \cup Boxes(key, {i})])
                                /\ doc' = doc \cup {i}
    BY <1>4 DEF WriteBox
  <2>2. pc' = "meta" /\ key' = key
    BY <1>4 DEF WriteBox
  <2> DEFINE bs == main.boxes \cup Boxes(key, {i})
             t == [main EXCEPT !.boxes = bs]
  <2>3. bs \in SUBSET Boxed /\ \A b \in bs : b.key = key
    BY <1>1, <1>2 DEF Tree, Boxed, Boxes, Whole
  <2>4. disk' = SetMain(t)
    BY <2>1
  <2> HIDE DEF bs
  <2>5. /\ t \in Tree /\ t.keys = main.keys /\ t.prev = main.prev /\ t.pub = main.pub
        /\ t.meta = main.meta /\ t.session = main.session /\ t.boxes = bs
    BY <1>2, <2>3 DEF Tree
  <2> HIDE DEF t
  <2>6. DiskOK' /\ TreesInv' /\ HasMain' /\ main' = t
    BY <1>1, <1>2, <2>3, <2>4, <2>5, MainWritten DEF Whole
  <2>7. MemoryInv'
    BY <1>1, <2>1, <2>2, <2>5, <2>6 DEF MemoryInv, HasMain
  <2>8. Types'
    BY <1>1, <2>1, <2>2, <2>6 DEF TreeInv, Types, Steps
  <2> QED BY <2>2, <2>6, <2>7, <2>8, Elsewhere DEF TreeInv
<1>5. CASE WriteMeta
  <2>1. disk' \in {SetMain([main EXCEPT !.meta = [key |-> key, items |-> doc]]), disk}
    BY <1>5 DEF WriteMeta
  <2>2. pc' = "idle" /\ key' = key /\ doc' = doc
    BY <1>5 DEF WriteMeta, Return, mem
  <2> DEFINE ms == [key |-> key, items |-> doc]
             t == [main EXCEPT !.meta = ms]
  <2>3. ms \in Metas /\ ms.key = key /\ ms.items = doc
    BY <1>2 DEF Metas
  <2>4. disk' = SetMain(t) \/ disk' = disk
    BY <2>1
  <2> HIDE DEF ms
  <2>5. /\ t \in Tree /\ t.keys = main.keys /\ t.prev = main.prev /\ t.pub = main.pub
        /\ t.meta = ms /\ t.session = main.session /\ t.boxes = main.boxes
    BY <1>2, <2>3 DEF Tree
  <2> HIDE DEF t
  <2>6. DiskOK' /\ TreesInv' /\ HasMain' /\ main' \in {t, main}
    <3>1. CASE disk' = SetMain(t)
      BY <1>1, <1>2, <2>3, <2>5, <3>1, MainWritten DEF Whole
    <3>2. CASE disk' = disk
      BY <1>1, <3>2, TreesStay DEF TreeInv, Types, HasMain, Has, main
    <3> QED BY <2>4, <3>1, <3>2
  <2>7. MemoryInv'
    BY <1>1, <2>2, <2>3, <2>5, <2>6 DEF MemoryInv, HasMain
  <2>8. Types'
    BY <1>1, <1>2, <2>2, <2>6 DEF TreeInv, Types, Steps
  <2> QED BY <2>2, <2>6, <2>7, <2>8, Elsewhere DEF TreeInv
<1> QED BY <1>3, <1>4, <1>5

(* A key pair that was not made yet is in no tree.                         *)
LEMMA NotYet ==
  ASSUME TreeInv, NEW p \in DOMAIN disk
  PROVE  NotIn(disk[p], used + 1)
<1>1. Within(disk[p], used) /\ disk[p] \in Tree
  BY DEF TreeInv, TreesInv, Types, DiskOK
<1>2. ASSUME NEW set \in {disk[p].keys, disk[p].prev}, NEW f \in DOMAIN set
      PROVE  set[f].key \in Nat
  <2>1. set \in KeySets
    BY <1>1 DEF Tree
  <2> QED BY <2>1, KeySetFacts DEF Blob
<1> QED BY <1>1, <1>2 DEF Within, NotIn, TreeInv, Types

LEMMA StartResealKeeps == TreeInv /\ StartReseal => TreeInv'
<1> SUFFICES ASSUME TreeInv, StartReseal PROVE TreeInv'
  OBVIOUS
<1>1. /\ pc = "idle" /\ pc' = "build" /\ key # 0 /\ on /\ disk' = Remove("rotate")
      /\ new' = used + 1 /\ used' = used + 1 /\ UNCHANGED <<tpm, on, key, doc>>
  BY DEF StartReseal, chip, mem
<1>2. key \in Nat /\ used \in Nat /\ key <= used
  BY DEF TreeInv, Types
<1>3. /\ HasMain /\ main.pub = key /\ DOMAIN main.prev = {} /\ main.meta.items \subseteq doc
  BY <1>1 DEF TreeInv, MemoryInv
<1>4. /\ DiskOK' /\ TreesInv' /\ "rotate" \notin DOMAIN disk' /\ DOMAIN disk' \subseteq DOMAIN disk
      /\ DOMAIN disk \ {"rotate"} \subseteq DOMAIN disk'
      /\ \A q \in DOMAIN disk' : disk'[q] = disk[q]
  BY <1>1, <1>2, TreeGoes
<1>5. Has("main")' /\ main' = main
  BY <1>3, <1>4 DEF HasMain, Has, main
<1>6. OnlyIn("rotate", new)'
  BY <1>1, <1>4, NotYet DEF OnlyIn
<1>7. ResealInv'
  BY <1>1, <1>2, <1>4, <1>6 DEF ResealInv
<1>8. MemoryInv'
  BY <1>1, <1>3, <1>5 DEF MemoryInv, HasMain
<1> QED BY <1>1, <1>2, <1>4, <1>7, <1>8, Elsewhere DEF TreeInv, Types, Steps

(* The tree that is being built is written; no other is.                   *)
LEMMA BesideMain ==
  ASSUME TreeInv, NEW p \in {"rotate", "tmp"}, NEW t \in Tree, disk' = With(disk, p, t),
         used' = used, Within(t, used)
  PROVE  /\ DiskOK' /\ TreesInv' /\ DOMAIN disk' = DOMAIN disk \cup {p} /\ disk'[p] = t
         /\ \A q \in DOMAIN disk \ {p} : disk'[q] = disk[q]
         /\ Has("main") => Has("main")' /\ main' = main
<1>1. /\ DiskOK' /\ DOMAIN disk' = DOMAIN disk \cup {p} /\ disk'[p] = t
      /\ \A q \in DOMAIN disk \ {p} : disk'[q] = disk[q]
  BY TreeSet DEF TreeInv, Types, Names
<1>2. p \notin Trees
  BY AsideAssumption DEF Trees
<1>3. TreesInv'
  BY <1>1, <1>2 DEF TreeInv, TreesInv
<1>4. Has("main") => Has("main")' /\ main' = main
  BY <1>1 DEF Has, main
<1> QED BY <1>1, <1>3, <1>4

(* What can be read of a tree depends on the tree, the TPM and the keys there are. *)
LEMMA ReadableStays ==
  ASSUME UNCHANGED <<tpm, used>>
  PROVE  /\ \A p : (Readable(disk[p]))' = Readable(disk'[p])
         /\ (Readable(main))' = Readable(main')
  BY DEF Readable, Survives

(* What holds in the steps that build the rotated tree                     *)
LEMMA Building ==
  ASSUME TreeInv, pc \in {"build", "copy", "swap", "swapped"}
  PROVE  /\ key # 0 /\ Has("main") /\ DOMAIN main.prev = {} /\ main.meta.items \subseteq doc
         /\ pc # "swapped" => /\ HasMain /\ main.pub = key /\ new # 0 /\ new # key
                              /\ OnlyIn("rotate", new) /\ on
         /\ key \in Nat /\ new \in Nat /\ used \in Nat /\ new <= used /\ doc \in SUBSET Item
         /\ main \in Tree /\ Within(main, used)
<1>1. key # 0 /\ Has("main")
  BY DEF TreeInv, MemoryInv
<1> QED BY <1>1, MainIsTree DEF TreeInv, MemoryInv, ResealInv, Types

LEMMA BuildRotatedKeeps == TreeInv /\ BuildRotated => TreeInv'
<1> SUFFICES ASSUME TreeInv, BuildRotated PROVE TreeInv'
  OBVIOUS
<1> DEFINE ks == [f \in {"list", "secret"} |-> Seal(new)]
           t == [EmptyTree EXCEPT !.keys = ks, !.pub = new]
<1>1. /\ pc = "build" /\ pc' = "copy" /\ disk' = With(disk, "rotate", t)
      /\ UNCHANGED <<tpm, on, key, doc, used, new>>
  BY DEF BuildRotated, chip, mem, args
<1>2. /\ key # 0 /\ HasMain /\ main.pub = key /\ DOMAIN main.prev = {} /\ main.meta.items \subseteq doc
      /\ new # 0 /\ new # key /\ new \in Nat /\ new <= used /\ OnlyIn("rotate", new) /\ on
  BY <1>1, Building
<1>3. Seal(new) \in Blob /\ Seal(new).key = new /\ Seal(new).tpm # 0
  BY <1>2, SealIsBlob DEF TreeInv, Types
<1>4. ks \in KeySets /\ DOMAIN ks = {"list", "secret"} /\ \A f \in DOMAIN ks : ks[f] = Seal(new)
  <2>1. ks \in [{"list", "secret"} -> Blob]
    BY <1>3
  <2> QED BY <2>1 DEF KeySets, Blobs
<1> HIDE DEF ks
<1>5. t \in Tree /\ t.keys = ks /\ t.prev = << >>
  BY <1>2, <1>4, EmptyIsTree DEF Tree, EmptyTree
<1> HIDE DEF t
<1>6. Within(t, used) /\ TpmOnly(t, new)
  BY <1>2, <1>3, <1>4, <1>5 DEF Within, TpmOnly
<1>7. /\ DiskOK' /\ TreesInv' /\ DOMAIN disk' = DOMAIN disk \cup {"rotate"} /\ disk'["rotate"] = t
      /\ \A q \in DOMAIN disk \ {"rotate"} : disk'[q] = disk[q]
      /\ Has("main")' /\ main' = main
  BY <1>1, <1>2, <1>5, <1>6, BesideMain DEF HasMain
<1>8. OnlyIn("rotate", new)'
  BY <1>1, <1>2, <1>7 DEF OnlyIn
<1>9. ResealInv'
  BY <1>1, <1>2, <1>6, <1>7, <1>8 DEF ResealInv, Has
<1>10. MemoryInv'
  BY <1>1, <1>2, <1>7 DEF MemoryInv, HasMain
<1> QED BY <1>1, <1>7, <1>9, <1>10, Elsewhere DEF TreeInv, Types, Steps

LEMMA CopyRotatedKeeps == TreeInv /\ CopyRotated => TreeInv'
<1> SUFFICES ASSUME TreeInv, CopyRotated PROVE TreeInv'
  OBVIOUS
<1> DEFINE ks == [f \in Blobs |-> Seal(new)]
           ms == [key |-> new, items |-> doc]
           bs == {[b EXCEPT !.key = new] : b \in main.boxes}
           ss == IF main.session = 0 THEN 0 ELSE new
           t == [main EXCEPT !.keys = ks, !.prev = << >>, !.pub = new, !.meta = ms,
                             !.session = ss, !.boxes = bs]
<1>1. /\ pc = "copy" /\ pc' = "swap" /\ disk' = With(disk, "rotate", t)
      /\ UNCHANGED <<tpm, on, key, doc, used, new>>
  BY DEF CopyRotated, chip, mem, args
<1>2. /\ key # 0 /\ HasMain /\ main.pub = key /\ DOMAIN main.prev = {} /\ main.meta.items \subseteq doc
      /\ new # 0 /\ new # key /\ new \in Nat /\ used \in Nat /\ new <= used
      /\ OnlyIn("rotate", new) /\ on /\ doc \in SUBSET Item
      /\ main \in Tree /\ Whole(main) /\ key \in Nat
  BY <1>1, Building DEF HasMain
<1>3. /\ Seal(new) \in Blob /\ Seal(new).key = new /\ Seal(new).tpm = tpm /\ tpm # 0
  BY <1>2, SealIsBlob DEF TreeInv, Types
<1>4. ks \in KeySets /\ DOMAIN ks = Blobs /\ \A f \in Blobs : ks[f] = Seal(new)
  <2>1. ks \in [Blobs -> Blob]
    BY <1>3
  <2> QED BY <2>1 DEF KeySets
<1>5. ms \in Metas /\ ms.key = new /\ ms.items = doc
  BY <1>2 DEF Metas
<1>6. /\ bs \in SUBSET Boxed /\ \A b \in bs : b.key = new
      /\ \A k \in Nat, i \in Item : [key |-> k, item |-> i] \in main.boxes
                                    => [key |-> new, item |-> i] \in bs
  <2>1. \A b \in main.boxes : b \in Boxed
    BY <1>2 DEF Tree
  <2>2. ASSUME NEW b \in main.boxes
        PROVE  [b EXCEPT !.key = new] = [key |-> new, item |-> b.item] /\ b.item \in Item
    BY <2>1 DEF Boxed
  <2>3. \A b \in bs : b \in Boxed /\ b.key = new
    BY <1>2, <2>2 DEF Boxed
  <2>4. ASSUME NEW k \in Nat, NEW i \in Item, [key |-> k, item |-> i] \in main.boxes
        PROVE  [key |-> new, item |-> i] \in bs
    <3>1. [[key |-> k, item |-> i] EXCEPT !.key = new] = [key |-> new, item |-> i]
      OBVIOUS
    <3> QED BY <2>4, <3>1
  <2> QED BY <2>3, <2>4
<1>7. ss \in {0, new}
  OBVIOUS
<1>8. << >> \in KeySets /\ DOMAIN << >> = {}
  BY EmptyIsTree DEF EmptyTree, Tree
<1> HIDE DEF ks, ms, bs, ss
<1>9. /\ t \in Tree /\ t.keys = ks /\ t.prev = << >> /\ t.pub = new /\ t.meta = ms
      /\ t.session = ss /\ t.boxes = bs
  <2> DEFINE none == << >>
  <2>1. none \in KeySets
    BY <1>8
  <2>2. t = [main EXCEPT !.keys = ks, !.prev = none, !.pub = new, !.meta = ms, !.session = ss,
                         !.boxes = bs]
    OBVIOUS
  <2> HIDE DEF none, t
  <2>3. ss \in Nat
    BY <1>2, <1>7
  <2>4. t = [keys |-> ks, prev |-> none, pub |-> new, meta |-> ms, session |-> ss,
             boxes |-> bs, pending |-> main.pending]
    BY <1>2, <2>2 DEF Tree
  <2>5. main.pending \in BOOLEAN
    BY <1>2 DEF Tree
  <2> QED BY <1>2, <1>4, <1>5, <1>6, <2>1, <2>3, <2>4, <2>5 DEF Tree, none
<1> HIDE DEF t
<1>10. Within(t, used) /\ TpmOnly(t, new)
  BY <1>2, <1>3, <1>4, <1>8, <1>9 DEF Within, TpmOnly
<1>11. Whole(t)
  BY <1>2, <1>3, <1>4, <1>5, <1>6, <1>7, <1>8, <1>9 DEF Whole
<1>12. /\ DiskOK' /\ TreesInv' /\ DOMAIN disk' = DOMAIN disk \cup {"rotate"} /\ disk'["rotate"] = t
       /\ \A q \in DOMAIN disk \ {"rotate"} : disk'[q] = disk[q]
       /\ Has("main")' /\ main' = main
  BY <1>1, <1>2, <1>9, <1>10, BesideMain DEF HasMain
<1>13. OnlyIn("rotate", new)'
  BY <1>1, <1>2, <1>12 DEF OnlyIn
<1>14. Readable(main) \subseteq Readable(t)
  <2>1. ASSUME NEW i \in Readable(main)
        PROVE  i \in Readable(t)
    <3>1. i \in main.meta.items /\ i \in Item
      BY <1>2 DEF Readable, Tree, Metas
    <3>2. PICK k \in 1..used : [key |-> k, item |-> i] \in main.boxes
      BY DEF Readable
    <3>3. [key |-> new, item |-> i] \in t.boxes
      BY <1>2, <1>6, <1>9, <3>1, <3>2
    <3>4. Survives(t, "list", new) /\ Survives(t, "secret", new)
      BY <1>3, <1>4, <1>9 DEF Survives, Blobs
    <3>5. i \in t.meta.items /\ t.meta.key = new /\ t.pub = new /\ new \in 1..used
      BY <1>2, <1>5, <1>9, <3>1
    <3> QED BY <3>3, <3>4, <3>5 DEF Readable
  <2> QED BY <2>1
<1>15. (Readable(main) \subseteq Readable(disk["rotate"]))'
  <2>1. Readable(main)' = Readable(main)
    BY <1>1, <1>12, ReadableStays
  <2>2. Readable(disk["rotate"])' = Readable(t)
    BY <1>1, <1>12, ReadableStays
  <2> QED BY <1>14, <2>1, <2>2
<1>16. ResealInv'
  <2>1. \A f \in Blobs : t.keys[f].tpm = tpm
    BY <1>3, <1>4, <1>9
  <2>2. t.meta.items = doc /\ DOMAIN t.prev = {}
    BY <1>5, <1>8, <1>9
  <2> QED BY <1>1, <1>2, <1>9, <1>10, <1>11, <1>12, <1>13, <1>15, <2>1, <2>2 DEF ResealInv, Has
<1>17. MemoryInv'
  BY <1>1, <1>2, <1>12 DEF MemoryInv, HasMain
<1> QED BY <1>1, <1>12, <1>16, <1>17, Elsewhere DEF TreeInv, Types, Steps

LEMMA ResealFailsKeeps == TreeInv /\ ResealFails => TreeInv'
<1> SUFFICES ASSUME TreeInv, ResealFails PROVE TreeInv'
  OBVIOUS
<1>1. /\ pc \in {"build", "copy", "swap"} /\ pc' = "idle" /\ disk' \in {Remove("rotate"), disk}
      /\ new' = 0 /\ UNCHANGED <<tpm, on, key, doc, used>>
  BY DEF ResealFails, Return, chip, mem
<1>2. /\ key # 0 /\ HasMain /\ main.pub = key /\ DOMAIN main.prev = {} /\ main.meta.items \subseteq doc
  BY <1>1, Building
<1>3. DiskOK' /\ TreesInv' /\ Has("main")' /\ main' = main
  BY <1>1, <1>2, TreeGoes DEF TreeInv, Types, HasMain, Has, main
<1>4. MemoryInv'
  BY <1>1, <1>2, <1>3 DEF MemoryInv, HasMain
<1> QED BY <1>1, <1>3, <1>4, Elsewhere DEF TreeInv, Types, Steps

LEMMA ExchangeKeeps == TreeInv /\ Exchange => TreeInv'
<1> SUFFICES ASSUME TreeInv, Exchange PROVE TreeInv'
  OBVIOUS
<1>1. /\ pc = "swap" /\ pc' = "swapped" /\ UNCHANGED <<tpm, on, key, doc, used, new>>
      /\ disk' = [disk EXCEPT !["main"] = disk["rotate"], !["rotate"] = main]
  BY DEF Exchange, chip, mem, args
<1>2. /\ key # 0 /\ Has("main") /\ Has("rotate") /\ new # 0
      /\ Whole(disk["rotate"]) /\ disk["rotate"].pub = new /\ DOMAIN disk["rotate"].prev = {}
      /\ disk["rotate"].meta.items \subseteq doc
  BY <1>1, Building DEF TreeInv, ResealInv, HasMain
<1>3. /\ DiskOK' /\ DOMAIN disk' = DOMAIN disk /\ disk'["main"] = disk["rotate"]
      /\ disk'["rotate"] = disk["main"]
      /\ \A q \in DOMAIN disk \ {"main", "rotate"} : disk'[q] = disk[q]
  BY <1>1, <1>2 DEF TreeInv, Types, DiskOK, Has, main
<1>4. TreesInv'
  <2>1. \A p \in DOMAIN disk' : Within(disk'[p], used')
    BY <1>1, <1>2, <1>3 DEF TreeInv, TreesInv, Has
  <2>2. "rotate" \notin Trees
    BY AsideAssumption DEF Trees
  <2> QED BY <1>2, <1>3, <2>1, <2>2 DEF TreeInv, TreesInv
<1>5. HasMain' /\ main'.pub = new /\ DOMAIN main'.prev = {} /\ main'.meta.items \subseteq doc
  BY <1>2, <1>3 DEF HasMain, Has, main
<1>6. ResealInv' /\ MemoryInv'
  BY <1>1, <1>2, <1>5 DEF ResealInv, MemoryInv, HasMain
<1> QED BY <1>1, <1>3, <1>4, <1>6, Elsewhere DEF TreeInv, Types, Steps

LEMMA ResealtKeeps == TreeInv /\ Resealt => TreeInv'
<1> SUFFICES ASSUME TreeInv, Resealt PROVE TreeInv'
  OBVIOUS
<1>1. /\ pc = "swapped" /\ pc' = "idle" /\ disk' \in {Remove("rotate"), disk}
      /\ key' = new /\ new' = 0 /\ UNCHANGED <<tpm, on, doc, used>>
  BY DEF Resealt, Return, chip
<1>2. /\ HasMain /\ main.pub = new /\ DOMAIN main.prev = {} /\ main.meta.items \subseteq doc
      /\ new \in Nat /\ new <= used
  BY <1>1, Building DEF TreeInv, ResealInv
<1>3. DiskOK' /\ TreesInv' /\ Has("main")' /\ main' = main
  BY <1>1, <1>2, TreeGoes DEF TreeInv, Types, HasMain, Has, main
<1>4. MemoryInv'
  BY <1>1, <1>2, <1>3 DEF MemoryInv, HasMain
<1> QED BY <1>1, <1>2, <1>3, <1>4, Elsewhere DEF TreeInv, Types, Steps

(* What holds in the steps of an import                                    *)
LEMMA Importing ==
  ASSUME TreeInv, pc \in {"convert", "away", "into", "imported"}
  PROVE  /\ key # 0 /\ key \in Nat /\ used \in Nat /\ DiskOK
         /\ pc \in {"convert", "away", "imported"} =>
              HasMain /\ main.pub = key /\ DOMAIN main.prev = {} /\ main \in Tree
         /\ pc \in {"convert", "away"} => main.meta.items \subseteq doc
         /\ pc \in {"convert", "away", "into"} =>
              Has("tmp") /\ disk["tmp"] \in Tree /\ Within(disk["tmp"], used)
<1>1. key # 0 /\ key \in Nat /\ used \in Nat /\ DiskOK
  BY DEF TreeInv, MemoryInv, Types
<1>2. pc \in {"convert", "away", "into"} => Has("tmp")
  BY DEF TreeInv, ImportInv
<1>3. pc \in {"convert", "away", "into"} => disk["tmp"] \in Tree /\ Within(disk["tmp"], used)
  BY <1>1, <1>2 DEF TreeInv, TreesInv, DiskOK, Has
<1>4. pc \in {"convert", "away", "imported"} => HasMain /\ main.pub = key /\ DOMAIN main.prev = {}
  BY <1>1 DEF TreeInv, MemoryInv
<1> QED BY <1>1, <1>2, <1>3, <1>4, MainIsTree DEF TreeInv, MemoryInv, HasMain

LEMMA StartImportKeeps == TreeInv /\ StartImport => TreeInv'
<1> SUFFICES ASSUME TreeInv, StartImport PROVE TreeInv'
  OBVIOUS
<1> DEFINE t == [EmptyTree EXCEPT !.keys = main.keys, !.pub = main.pub, !.pending = main.pending]
<1>1. /\ pc = "idle" /\ pc' = "convert" /\ key # 0 /\ doc = {} /\ disk' = With(disk, "tmp", t)
      /\ UNCHANGED <<tpm, on, key, doc, used, new>>
  BY DEF StartImport, chip, mem, args
<1>2. /\ HasMain /\ main.pub = key /\ DOMAIN main.prev = {} /\ main.meta.items \subseteq doc
      /\ main \in Tree /\ Within(main, used)
  BY <1>1, MainIsTree DEF TreeInv, MemoryInv, HasMain
<1>3. /\ t \in Tree /\ t.keys = main.keys /\ t.prev = << >> /\ t.pub = main.pub
      /\ t.session = 0 /\ t.boxes = {}
  BY <1>2, EmptyIsTree DEF Tree, EmptyTree
<1> HIDE DEF t
<1>4. Within(t, used) /\ DOMAIN t.prev = {}
  BY <1>2, <1>3 DEF Within
<1>5. /\ DiskOK' /\ TreesInv' /\ DOMAIN disk' = DOMAIN disk \cup {"tmp"} /\ disk'["tmp"] = t
      /\ Has("main")' /\ main' = main
  BY <1>1, <1>2, <1>3, <1>4, BesideMain DEF HasMain
<1>6. main.meta.items = {}
  BY <1>1, <1>2
<1>7. ImportInv' /\ MemoryInv'
  BY <1>1, <1>2, <1>3, <1>4, <1>5, <1>6 DEF ImportInv, MemoryInv, HasMain, Has
<1> QED BY <1>1, <1>5, <1>7, Elsewhere DEF TreeInv, Types, Steps

LEMMA ConvertKeeps == TreeInv /\ Convert => TreeInv'
<1> SUFFICES ASSUME TreeInv, Convert PROVE TreeInv'
  OBVIOUS
<1>1. /\ pc = "convert" /\ pc' = "away" /\ UNCHANGED <<tpm, on, key, doc, used, new>>
  BY DEF Convert, chip, mem, args
<1>2. PICK ss \in {0, key} :
        disk' = [disk EXCEPT !["tmp"].meta = [key |-> key, items |-> Item],
                             !["tmp"].boxes = Boxes(key, Item), !["tmp"].session = ss]
  BY DEF Convert
<1>3. /\ key # 0 /\ key \in Nat /\ used \in Nat /\ DiskOK
      /\ HasMain /\ main.pub = key /\ DOMAIN main.prev = {} /\ main \in Tree
      /\ main.meta.items \subseteq doc
      /\ Has("tmp") /\ disk["tmp"] \in Tree /\ Within(disk["tmp"], used)
  BY <1>1, Importing
<1>4. /\ main.meta.items = {} /\ disk["tmp"].keys = main.keys /\ disk["tmp"].pub = key
      /\ DOMAIN disk["tmp"].prev = {}
  BY <1>1 DEF TreeInv, ImportInv
<1> DEFINE m == disk["tmp"]
           ms == [key |-> key, items |-> Item]
           bs == Boxes(key, Item)
           t == [m EXCEPT !.meta = ms, !.boxes = bs, !.session = ss]
<1>5. ms \in Metas /\ ms.key = key
  BY <1>3 DEF Metas
<1>6. bs \in SUBSET Boxed /\ \A b \in bs : b.key = key
  BY <1>3 DEF Boxes, Boxed
<1>7. disk' = [disk EXCEPT !["tmp"] = t]
  BY <1>2, <1>3 DEF Has
<1>8. m \in Tree /\ ss \in Nat
  BY <1>3
<1> HIDE DEF ms, bs, m
<1>9. /\ t \in Tree /\ t.keys = m.keys /\ t.prev = m.prev /\ t.pub = m.pub /\ t.meta = ms
      /\ t.session = ss /\ t.boxes = bs
  BY <1>5, <1>6, <1>8 DEF Tree
<1> HIDE DEF t
<1>10. Whole(t)
  BY <1>3, <1>4, <1>5, <1>6, <1>9 DEF Whole, HasMain, m
<1>11. Within(t, used)
  BY <1>3, <1>9 DEF Within, m
<1>12. disk' = With(disk, "tmp", t)
  BY <1>3, <1>7 DEF With, Has, DiskOK
<1>13. /\ DiskOK' /\ TreesInv' /\ DOMAIN disk' = DOMAIN disk \cup {"tmp"} /\ disk'["tmp"] = t
       /\ Has("main")' /\ main' = main
  BY <1>1, <1>3, <1>9, <1>11, <1>12, BesideMain DEF HasMain
<1>14. ImportInv'
  BY <1>1, <1>4, <1>9, <1>10, <1>13 DEF ImportInv, Has, m
<1>15. MemoryInv'
  BY <1>1, <1>3, <1>13 DEF MemoryInv, HasMain
<1> QED BY <1>1, <1>13, <1>14, <1>15, Elsewhere DEF TreeInv, Types, Steps

LEMMA ImportFailsKeeps == TreeInv /\ ImportFails => TreeInv'
<1> SUFFICES ASSUME TreeInv, ImportFails PROVE TreeInv'
  OBVIOUS
<1>1. /\ pc \in {"convert", "away"} /\ pc' = "idle" /\ disk' = Remove("tmp")
      /\ new' = 0 /\ UNCHANGED <<tpm, on, key, doc, used>>
  BY DEF ImportFails, Return, chip, mem
<1>2. /\ key # 0 /\ HasMain /\ main.pub = key /\ DOMAIN main.prev = {} /\ main.meta.items \subseteq doc
  BY <1>1, Importing
<1>3. DiskOK' /\ TreesInv' /\ Has("main")' /\ main' = main
  BY <1>1, <1>2, TreeGoes DEF TreeInv, Types, HasMain, Has, main
<1>4. MemoryInv'
  BY <1>1, <1>2, <1>3 DEF MemoryInv, HasMain
<1> QED BY <1>1, <1>3, <1>4, Elsewhere DEF TreeInv, Types, Steps

LEMMA AwayKeeps == TreeInv /\ Away => TreeInv'
<1> SUFFICES ASSUME TreeInv, Away PROVE TreeInv'
  OBVIOUS
<1>1. PICK a \in Aside \ DOMAIN disk : disk' = Move("main", a) /\ spot' = a
  BY DEF Away
<1>2. pc = "away" /\ pc' = "into" /\ UNCHANGED <<tpm, on, key, doc, used, new>>
  BY DEF Away, chip, mem
<1>3. key # 0 /\ HasMain /\ Has("tmp")
  BY <1>2, Importing
<1>4. /\ main.meta.items = {} /\ disk["tmp"].pub = key /\ DOMAIN disk["tmp"].prev = {}
      /\ Whole(disk["tmp"])
  BY <1>2 DEF TreeInv, ImportInv
<1>5. /\ DiskOK' /\ DOMAIN disk' = (DOMAIN disk \ {"main"}) \cup {a} /\ disk'[a] = main
      /\ \A r \in DOMAIN disk \ {"main"} : disk'[r] = disk[r]
  <2>1. "main" \in DOMAIN disk /\ a \in Names \ DOMAIN disk
    BY <1>3 DEF HasMain, Has, Names
  <2> QED BY <1>1, <2>1, TreeMoved DEF TreeInv, Types, main
<1>6. TreesInv'
  BY <1>2, <1>3, <1>5, MainIsTree DEF TreeInv, TreesInv, HasMain
<1>7. ~Has("main")' /\ Has("tmp")' /\ disk'["tmp"] = disk["tmp"]
  BY <1>3, <1>5, AsideAssumption DEF Has
<1>8. ImportInv'
  BY <1>1, <1>2, <1>4, <1>5, <1>7 DEF ImportInv, Has
<1>9. MemoryInv'
  BY <1>2, <1>3 DEF MemoryInv
<1> QED BY <1>2, <1>5, <1>6, <1>8, <1>9, Elsewhere DEF TreeInv, Types, Steps

LEMMA IntoKeeps == TreeInv /\ Into => TreeInv'
<1> SUFFICES ASSUME TreeInv, Into PROVE TreeInv'
  OBVIOUS
<1>1. /\ pc = "into" /\ pc' = "imported" /\ disk' = Move("tmp", "main")
      /\ UNCHANGED <<tpm, on, key, doc, used, new, spot>>
  BY DEF Into, chip, mem, args
<1>2. /\ key # 0 /\ Has("tmp") /\ Whole(disk["tmp"]) /\ disk["tmp"].pub = key /\ ~Has("main")
      /\ DOMAIN disk["tmp"].prev = {} /\ spot \in Aside \cap DOMAIN disk
      /\ disk[spot].meta.items = {} /\ Within(disk["tmp"], used)
  BY <1>1, Importing DEF TreeInv, ImportInv
<1>3. /\ DiskOK' /\ DOMAIN disk' = (DOMAIN disk \ {"tmp"}) \cup {"main"} /\ disk'["main"] = disk["tmp"]
      /\ \A r \in DOMAIN disk \ {"tmp"} : disk'[r] = disk[r]
  <2>1. "tmp" \in DOMAIN disk /\ "main" \in Names \ DOMAIN disk
    BY <1>2 DEF Has, Names
  <2> QED BY <1>1, <2>1, TreeMoved DEF TreeInv, Types
<1>4. TreesInv'
  BY <1>1, <1>2, <1>3 DEF TreeInv, TreesInv
<1>5. spot \in DOMAIN disk' /\ disk'[spot] = disk[spot]
  BY <1>2, <1>3, AsideAssumption
<1>6. ImportInv'
  BY <1>1, <1>2, <1>5 DEF ImportInv
<1>7. MemoryInv'
  BY <1>1, <1>2, <1>3 DEF MemoryInv, HasMain, Has, main
<1> QED BY <1>1, <1>3, <1>4, <1>6, <1>7, Elsewhere DEF TreeInv, Types, Steps

LEMMA ImportedKeeps == TreeInv /\ Imported => TreeInv'
<1> SUFFICES ASSUME TreeInv, Imported PROVE TreeInv'
  OBVIOUS
<1>1. /\ pc = "imported" /\ pc' = "clear" /\ disk' = Remove(spot) /\ doc' = main.meta.items
      /\ UNCHANGED <<tpm, on, key, used, new>>
  BY DEF Imported, chip, args
<1>2. /\ key # 0 /\ HasMain /\ main.pub = key /\ DOMAIN main.prev = {} /\ main \in Tree
      /\ spot \in Aside
  BY <1>1, Importing DEF TreeInv, ImportInv
<1>3. DiskOK' /\ TreesInv' /\ Has("main")' /\ main' = main
  <2>1. spot # "main"
    BY <1>2, AsideAssumption
  <2> QED BY <1>1, <1>2, <2>1, TreeGoes DEF TreeInv, Types, HasMain, Has, main
<1>4. doc' \in SUBSET Item
  BY <1>1, <1>2 DEF Tree, Metas
<1>5. MemoryInv'
  BY <1>1, <1>2, <1>3 DEF MemoryInv, HasMain
<1> QED BY <1>1, <1>3, <1>4, <1>5, Elsewhere DEF TreeInv, Types, Steps

LEMMA ClearKeeps == TreeInv /\ Clear => TreeInv'
<1> SUFFICES ASSUME TreeInv, Clear PROVE TreeInv'
  OBVIOUS
<1>1. /\ pc = "clear" /\ pc' = "idle" /\ UNCHANGED <<tpm, on, key, doc, used>> /\ new' = 0
      /\ disk' \in {Saved(FALSE), disk}
  BY DEF Clear, Return, chip
<1>2. /\ DiskOK' /\ TreesInv' /\ (HasMain => HasMain' /\ main'.pub = main.pub)
      /\ Has("main") => /\ Has("main")' /\ main'.prev = main.prev /\ main'.meta = main.meta
  BY <1>1, SavedStays
<1>3. MemoryInv'
  BY <1>1, <1>2 DEF MemoryInv, TreeInv
<1> QED BY <1>1, <1>2, <1>3, Elsewhere DEF TreeInv, Types, Steps

LEMMA StopKeeps == TreeInv /\ (Lock \/ Crash) => TreeInv'
<1> SUFFICES ASSUME TreeInv, Lock \/ Crash PROVE TreeInv'
  OBVIOUS
<1>1. /\ pc' = "idle" /\ key' = 0 /\ doc' = {} /\ new' = 0 /\ UNCHANGED <<disk, used>>
      /\ tpm' \in {tpm, tpm + 1} /\ on' \in BOOLEAN
  BY DEF Lock, Crash, Return, chip, TreeInv, Types
<1>2. DiskOK' /\ TreesInv'
  BY <1>1, TreesStay DEF TreeInv, Types
<1>3. MemoryInv'
  BY <1>1 DEF MemoryInv
<1> QED BY <1>1, <1>2, <1>3, Elsewhere DEF TreeInv, Types, Steps

(* TreeInv is inductive.                                                   *)
LEMMA NextTree == TreeInv /\ [Next]_vars => TreeInv'
<1> SUFFICES ASSUME TreeInv, [Next]_vars PROVE TreeInv'
  OBVIOUS
<1>1. CASE UNCHANGED vars
  <2>1. UNCHANGED <<disk, tpm, on, key, doc, used, new, pc, todo, spot>>
    BY <1>1 DEF vars, chip, mem, args
  <2>2. Types' /\ TreesInv' /\ MemoryInv'
    BY <2>1, TreesStay DEF TreeInv, Types, MemoryInv, HasMain, Has, main
  <2>3. CreateInv' /\ UnlockInv'
    BY <2>1 DEF TreeInv, CreateInv, UnlockInv, HasMain, Has, main, OnlyIn, Seal
  <2>4. ResealInv' /\ ImportInv'
    <3>1. (Readable(main) \subseteq Readable(disk["rotate"]))
            <=> (Readable(main) \subseteq Readable(disk["rotate"]))'
      BY <2>1, ReadableStays DEF main
    <3> QED BY <2>1, <3>1 DEF TreeInv, ResealInv, ImportInv, HasMain, Has, main, OnlyIn
  <2> QED BY <2>2, <2>3, <2>4 DEF TreeInv
<1>2. CASE Next
  BY <1>2, BeginKeeps, MigrateAbandonKeeps, MoveAsideKeeps, DiscardKeeps, StartCreateKeeps,
     CreateWriteKeeps, CreatedKeeps, CreateFailsKeeps, UndoKeeps, UndoneKeeps, MarkKeeps,
     StartUnlockKeeps, UnsealKeeps, UnsealEndsKeeps, RollbackKeeps, LoadKeeps, DropPrevKeeps,
     DroppedKeeps, UseKeeps, StartResealKeeps, BuildRotatedKeeps, CopyRotatedKeeps,
     ResealFailsKeeps, ExchangeKeeps, ResealtKeeps, StartImportKeeps, ConvertKeeps,
     ImportFailsKeeps, AwayKeeps, IntoKeeps, ImportedKeeps, ClearKeeps, StopKeeps DEF Next
<1> QED BY <1>1, <1>2

LEMMA TreeAlways == Spec => []TreeInv
  BY InitTree, NextTree, PTL DEF Spec

(* keys.json is written last: no directory that has it, in use or moved aside, is anything  *)
(* but a store that opens, whatever crashed or failed (create(), reset(), reseal and        *)
(* import_v1()).                                                                            *)
THEOREM StoreTreeKeysJsonLast == Spec => []KeysJsonLast
<1>1. TreeInv => KeysJsonLast
  <2> SUFFICES ASSUME TreeInv, NEW p \in Trees \cap DOMAIN disk, "keys" \in DOMAIN disk[p].keys
               PROVE  /\ DOMAIN disk[p].keys = Blobs
                      /\ disk[p].keys["list"].key = disk[p].pub
                      /\ disk[p].keys["secret"].key = disk[p].pub
                      /\ disk[p].meta.key = disk[p].pub
    BY DEF KeysJsonLast, Holds
  <2>1. Whole(disk[p])
    BY DEF TreeInv, TreesInv, Fresh
  <2> QED BY <2>1 DEF Whole, Blobs
<1> QED BY <1>1, TreeAlways, PTL

(* An unlocked store has the keys of the tree that is there, and knows every entry of its   *)
(* meta.v2: reseal_if_tpm_available() and import_v1() put another tree under the store      *)
(* object, and signing out, a failed sync or a lock leave the two in step.                  *)
THEOREM StoreTreeMemoryMatchesDisk == Spec => []MemoryMatchesDisk
<1>1. TreeInv => MemoryMatchesDisk
  <2> SUFFICES ASSUME TreeInv, key # 0, pc = "idle"
               PROVE  /\ Has("main") /\ Holds("list", main) /\ main.keys["list"].key = key
                      /\ main.pub = key /\ main.meta.key = key /\ main.meta.items \subseteq doc
                      /\ main.session \in {0, key} /\ \A b \in main.boxes : b.key = key
    BY DEF MemoryMatchesDisk, Unlocked
  <2>1. HasMain /\ main.pub = key /\ main.meta.items \subseteq doc
    BY DEF TreeInv, MemoryInv
  <2> QED BY <2>1 DEF HasMain, Whole, Holds, Blobs
<1> QED BY <1>1, TreeAlways, PTL

-----------------------------------------------------------------------------
(* What the blobs are bound to.  Not so if a crash may cut a rollback short: the blobs of  *)
(* "main" are then of two kinds, and the ones on the TPM the only ones of their name.      *)

LEMMA SealStays ==
  ASSUME TreeInv, SealInv, pc # "rollback", pc' \notin {"rollback", "load", "drop", "into"},
         Has("main")' => \/ "keys" \notin DOMAIN main'.keys
                         \/ Has("main") /\ main'.keys = main.keys,
         \A q \in DOMAIN disk' \ {"main"} :
           \/ q \in DOMAIN disk /\ disk'[q] = disk[q]
           \/ \A set \in {disk'[q].keys, disk'[q].prev} : \A f \in DOMAIN set : set[f].tpm # 0
           \/ disk'[q].keys = main.keys /\ DOMAIN disk'[q].prev = {}
  PROVE  SealInv'
<1>1. ASSUME Has("main")'
      PROVE  Uniform(main)' /\ Guarded("main")'
  <2>1. CASE "keys" \notin DOMAIN main'.keys
    BY <2>1 DEF Uniform, Guarded, main
  <2>2. CASE Has("main") /\ main'.keys = main.keys /\ "keys" \in DOMAIN main.keys
    <3>1. Uniform(main) /\ Guarded("main")
      BY <2>2 DEF SealInv
    <3>2. ASSUME main.keys["keys"].tpm # 0, NEW q \in DOMAIN disk' \ {"main"}
          PROVE  TpmOnly(disk'[q], main.keys["keys"].key)
      <4>1. CASE q \in DOMAIN disk /\ disk'[q] = disk[q]
        BY <2>2, <3>1, <3>2, <4>1 DEF Guarded, main
      <4>2. CASE \A set \in {disk'[q].keys, disk'[q].prev} : \A f \in DOMAIN set : set[f].tpm # 0
        BY <4>2 DEF TpmOnly
      <4>3. CASE disk'[q].keys = main.keys /\ DOMAIN disk'[q].prev = {}
        BY <2>2, <3>1, <3>2, <4>3 DEF TpmOnly, Uniform
      <4> QED BY <4>1, <4>2, <4>3
    <3> QED BY <2>2, <3>1, <3>2 DEF Uniform, Guarded, main
  <2> QED BY <1>1, <2>1, <2>2
<1> QED BY <1>1 DEF SealInv

LEMMA InitSeal == Init => SealInv
<1> SUFFICES ASSUME Init PROVE SealInv
  OBVIOUS
<1>1. CASE disk = << >>
  BY <1>1 DEF Init, SealInv, Has
<1>2. CASE disk = With(<< >>, "main", Resealed(Item))
  <2>1. DOMAIN disk = {"main"} /\ main = Resealed(Item)
    BY <1>2 DEF With, main
  <2>2. Resealed(Item).keys = [f \in Blobs |-> [key |-> 1, tpm |-> 1]]
    <3> DEFINE ks == [f \in Blobs |-> [key |-> 1, tpm |-> 1]]
               ps == [f \in Blobs |-> [key |-> 1, tpm |-> 0]]
    <3>1. Resealed(Item) = [EmptyTree EXCEPT !.keys = ks, !.prev = ps, !.pub = 1,
                              !.meta = [key |-> 1, items |-> Item], !.session = 1,
                              !.boxes = Boxes(1, Item)]
      BY DEF Resealed
    <3> HIDE DEF ks, ps
    <3>2. Resealed(Item).keys = ks
      BY <3>1 DEF EmptyTree
    <3> QED BY <3>2 DEF ks
  <2>3. Uniform(main) /\ Guarded("main")
    BY <2>1, <2>2 DEF Uniform, Guarded, main, Blobs
  <2> QED BY <2>3 DEF Init, SealInv
<1> QED BY <1>1, <1>2 DEF Init

(* disk' if a tree is written, or removed, without the types of it         *)
LEMMA SetTree ==
  ASSUME NEW p, NEW t, disk' = With(disk, p, t)
  PROVE  /\ DOMAIN disk' = DOMAIN disk \cup {p} /\ disk'[p] = t
         /\ \A q \in DOMAIN disk \ {p} : disk'[q] = disk[q]
  BY DEF With

LEMMA GoneTree ==
  ASSUME NEW p, disk' \in {Remove(p), disk}
  PROVE  /\ DOMAIN disk' \subseteq DOMAIN disk /\ DOMAIN disk \ {p} \subseteq DOMAIN disk'
         /\ \A q \in DOMAIN disk' : disk'[q] = disk[q]
         /\ disk' = Remove(p) => DOMAIN disk' = DOMAIN disk \ {p}
  BY DEF Remove, Without, Restrict

(* No tree is written: some may go.                                        *)
LEMMA SealNothingNew ==
  ASSUME TreeInv, SealInv, pc # "rollback", pc' \notin {"rollback", "load", "drop", "into"},
         \/ disk' = disk
         \/ \E p : disk' \in {Remove(p), disk}
  PROVE  SealInv'
<1>1. /\ DOMAIN disk' \subseteq DOMAIN disk
      /\ \A q \in DOMAIN disk' : disk'[q] = disk[q]
  <2>1. CASE disk' = disk
    BY <2>1
  <2>2. CASE \E p : disk' \in {Remove(p), disk}
    <3>1. PICK p : disk' \in {Remove(p), disk}
      BY <2>2
    <3> QED BY <3>1 DEF Remove, Without, Restrict
  <2> QED BY <2>1, <2>2
<1> QED BY <1>1, SealStays DEF Has, main

LEMMA SealSaved ==
  ASSUME TreeInv, SealInv, pc # "rollback", pc' \notin {"rollback", "load", "drop", "into"},
         NEW b \in BOOLEAN, disk' \in {Saved(b), disk}
  PROVE  SealInv'
<1>1. CASE disk' = disk
  BY <1>1, SealNothingNew
<1>2. CASE disk' = Saved(b)
  <2> DEFINE t == [(IF Has("main") THEN main ELSE EmptyTree) EXCEPT !.pending = b]
  <2>1. /\ DOMAIN disk' = DOMAIN disk \cup {"main"} /\ disk'["main"] = t
        /\ \A q \in DOMAIN disk \ {"main"} : disk'[q] = disk[q]
    BY <1>2, SetTree DEF Saved, SetMain
  <2>2. CASE Has("main")
    <3>1. t.keys = main.keys
      BY <2>2, MainIsTree DEF Tree
    <3> QED BY <2>1, <2>2, <3>1, SealStays DEF main
  <2>3. CASE ~Has("main")
    <3>1. t.keys = << >>
      BY <2>3 DEF EmptyTree
    <3> QED BY <2>1, <3>1, SealStays DEF main
  <2> QED BY <2>2, <2>3
<1> QED BY <1>1, <1>2

(* The steps that write no key, or make the keys of a store that is not finished *)
LEMMA SealCreate ==
  ASSUME TreeInv, TreeInv', SealInv,
         \/ MigrateBegin \/ Reset \/ SignInFresh \/ MigrateAbandon \/ MoveAside \/ Discard
         \/ StartCreate \/ CreateWrite \/ Created \/ CreateFails \/ Undo \/ Undone \/ Mark
  PROVE  SealInv'
<1>1. CASE MigrateBegin \/ Reset \/ SignInFresh
  <2>1. pc = "idle" /\ pc' \in {"create", "aside"} /\ disk' = disk
    BY <1>1 DEF MigrateBegin, Reset, SignInFresh, Replace, Over
  <2> QED BY <2>1, SealNothingNew
<1>2. CASE MigrateAbandon
  <2>1. pc = "idle" /\ pc' = "idle" /\ disk' \in {Saved(FALSE), disk}
    BY <1>2 DEF MigrateAbandon
  <2> QED BY <2>1, SealSaved
<1>3. CASE Mark
  <2>1. pc = "mark" /\ pc' = "idle" /\ disk' \in {Saved(TRUE), disk}
    BY <1>3 DEF Mark, Return
  <2> QED BY <2>1, SealSaved
<1>4. CASE MoveAside
  <2>1. pc' \in {"discard", "create"} /\ pc = "aside"
    BY <1>4 DEF MoveAside
  <2>2. PICK a \in Aside \ DOMAIN disk : disk' = Move("main", a)
    BY <1>4 DEF MoveAside
  <2>3. "main" \in DOMAIN disk /\ a \in Names \ DOMAIN disk /\ a # "main"
    BY <2>1, AsideAssumption DEF TreeInv, CreateInv, Has, Names
  <2>4. DOMAIN disk' = (DOMAIN disk \ {"main"}) \cup {a}
    BY <2>2, <2>3, TreeMoved DEF TreeInv, Types
  <2> QED BY <2>1, <2>3, <2>4 DEF SealInv, Has
<1>5. CASE Discard \/ Undone
  <2>1. pc \in {"discard", "undo"} /\ pc' \in {"create", "idle"} /\ \E p : disk' \in {Remove(p), disk}
    BY <1>5 DEF Discard, Undone, Return
  <2> QED BY <2>1, SealNothingNew
<1>6. CASE StartCreate \/ CreateWrite
  <2>1. pc' = "write"
    BY <1>6 DEF StartCreate, CreateWrite
  <2>2. Has("main")' => (Uniform(main) /\ Guarded("main"))'
    <3>1. CASE Len(todo') > 0
      BY <2>1, <3>1 DEF TreeInv, CreateInv, Uniform, Guarded, main
    <3>2. CASE Len(todo') = 0
      <4>1. /\ main'.keys["list"] = Seal(new)' /\ main'.keys["secret"] = Seal(new)'
            /\ main'.keys["keys"] = Seal(new)' /\ OnlyIn("main", new)' /\ Has("main")'
        BY <2>1, <3>2 DEF TreeInv, CreateInv
      <4>2. DOMAIN main'.keys \subseteq Blobs /\ Seal(new)'.key = new'
        <5>1. main' \in Tree
          BY <4>1 DEF TreeInv, Types, DiskOK, Has, main
        <5> QED BY <5>1, KeySetFacts DEF Tree, Seal
      <4>3. Uniform(main)'
        BY <4>1, <4>2 DEF Uniform, Blobs
      <4>4. Guarded("main")'
        BY <4>1, <4>2 DEF Guarded, OnlyIn, NotIn, TpmOnly, main
      <4> QED BY <4>3, <4>4
    <3>3. Len(todo') > 0 \/ Len(todo') = 0
      <4>1. InOrder(todo, CreateOrder)'
        BY <2>1 DEF TreeInv, CreateInv
      <4> QED BY <4>1 DEF InOrder
    <3> QED BY <3>1, <3>2, <3>3
  <2> QED BY <2>1, <2>2 DEF SealInv
<1>7. CASE Created \/ CreateFails
  <2>1. pc = "write" /\ pc' \in {"mark", "idle", "undo"} /\ disk' = disk
    BY <1>7 DEF Created, CreateFails, Return
  <2> QED BY <2>1, SealNothingNew
<1>8. CASE Undo
  <2>1. pc' = "undo"
    BY <1>8 DEF Undo
  <2>2. "keys" \notin DOMAIN main'.keys
    BY <2>1 DEF TreeInv, CreateInv, Fresh
  <2> QED BY <2>1, <2>2 DEF SealInv, Uniform, Guarded, main
<1> QED BY <1>1, <1>2, <1>3, <1>4, <1>5, <1>6, <1>7, <1>8

LEMMA SealUnlock ==
  ASSUME TreeInv, TreeInv', SealInv,
         \/ StartUnlock \/ Unseal \/ StartRollback \/ UnsealUnavailable \/ UnsealRefused
         \/ Rollback \/ Load \/ DropPrev \/ Dropped
  PROVE  SealInv'
<1>1. CASE StartUnlock
  <2>1. pc = "idle" /\ pc' = "unseal" /\ disk' \in {Remove("rotate"), disk}
    BY <1>1 DEF StartUnlock
  <2> QED BY <2>1, SealNothingNew
<1>2. CASE UnsealUnavailable \/ UnsealRefused \/ Dropped
  <2>1. pc \in {"unseal", "drop"} /\ pc' = "idle" /\ disk' = disk
    BY <1>2 DEF UnsealUnavailable, UnsealRefused, Dropped, Return
  <2> QED BY <2>1, SealNothingNew
<1>3. CASE Unseal
  <2>1. pc = "unseal" /\ pc' = "load" /\ disk' = disk /\ tpm' = tpm /\ CanUnseal
    BY <1>3 DEF Unseal, chip
  <2>2. Has("main") /\ Uniform(main) /\ Guarded("main")
    BY <2>1 DEF TreeInv, UnlockInv, SealInv
  <2>3. DOMAIN main.keys = Blobs
    BY <2>1, <2>2, MainIsTree DEF CanUnseal, Holds, Fresh, Whole
  <2>4. \A f \in Blobs : main.keys[f].tpm \in {0, tpm}
    BY <2>1, <2>2, <2>3 DEF CanUnseal, Holds, Opens, Uniform, Blobs
  <2> QED BY <2>1, <2>2, <2>4 DEF SealInv, Has, main, Uniform, Guarded
<1>4. CASE StartRollback
  <2>1. pc' = "rollback" /\ todo' = InTurn
    BY <1>4 DEF StartRollback
  <2> QED BY <2>1, AllInTurn DEF SealInv
<1>5. CASE Rollback
  <2> DEFINE f == Head(todo)
  <2>1. /\ pc = "rollback" /\ pc' = IF todo' = << >> THEN "load" ELSE "rollback"
        /\ todo' = Tail(todo) /\ tpm' = tpm
    BY <1>5 DEF Rollback, chip
  <2>2. /\ f \in Blobs /\ f \in DOMAIN main.prev /\ main'.keys[f] = main.prev[f]
        /\ \A g \in Blobs \ {f} : main'.keys[g] = main.keys[g]
        /\ DOMAIN main'.keys = Blobs
    BY <1>5, RolledBack
  <2>3. Left(todo) = {f} \cup Left(todo')
    BY <2>1, NextBlob DEF TreeInv, UnlockInv
  <2>4. main.prev[f].tpm = 0
    BY <2>1, <2>2 DEF TreeInv, UnlockInv, HasMain, Whole
  <2>5. \A g \in Blobs \ Left(todo') : main'.keys[g].tpm = 0
    BY <2>1, <2>2, <2>3, <2>4 DEF SealInv
  <2>6. CASE todo' = << >>
    <3>1. Left(todo') = {}
      BY <2>6 DEF Left
    <3>2. \A g \in Blobs : main'.keys[g].tpm = 0
      BY <2>5, <3>1
    <3> QED BY <2>1, <2>2, <2>6, <3>2 DEF SealInv, Uniform, Guarded, main, Blobs
  <2>7. CASE todo' # << >>
    BY <2>1, <2>5, <2>7 DEF SealInv
  <2> QED BY <2>6, <2>7
<1>6. CASE Load
  <2>1. pc = "load" /\ pc' \in {"drop", "idle"} /\ disk' = disk /\ tpm' = tpm
    BY <1>6 DEF Load, Return, chip
  <2>2. Has("main") /\ \A f \in Blobs : main.keys[f].tpm \in {0, tpm}
    BY <2>1 DEF TreeInv, UnlockInv, HasMain, SealInv
  <2> QED BY <2>1, <2>2 DEF SealInv, Has, main, Uniform, Guarded
<1>7. CASE DropPrev
  <2>1. pc = "drop" /\ pc' = "drop" /\ tpm' = tpm
    BY <1>7 DEF DropPrev, chip
  <2>2. /\ DOMAIN disk' = DOMAIN disk \cup {"main"} /\ main'.keys = main.keys
        /\ \A q \in DOMAIN disk \ {"main"} : disk'[q] = disk[q]
    BY <1>7, PrevDropped
  <2>3. HasMain /\ Uniform(main) /\ Guarded("main") /\ \A f \in Blobs : main.keys[f].tpm \in {0, tpm}
    BY <2>1 DEF TreeInv, MemoryInv, HasMain, SealInv
  <2>4. Uniform(main)' /\ Guarded("main")'
    BY <2>2, <2>3 DEF Uniform, Guarded, main
  <2> QED BY <2>1, <2>2, <2>3, <2>4 DEF SealInv
<1> QED BY <1>1, <1>2, <1>3, <1>4, <1>5, <1>6, <1>7

LEMMA SealReseal ==
  ASSUME TreeInv, TreeInv', SealInv,
         \/ SaveSession \/ SignOut \/ WriteBox \/ WriteMeta
         \/ StartReseal \/ BuildRotated \/ CopyRotated \/ ResealFails \/ Exchange \/ Resealt
  PROVE  SealInv'
<1>1. CASE SaveSession \/ SignOut \/ WriteBox \/ WriteMeta
  <2>1. pc \in {"idle", "meta"} /\ pc' \in {"idle", "meta"}
    BY <1>1 DEF SaveSession, SignOut, WriteBox, WriteMeta, Return
  <2>2. key # 0
    BY <1>1, <2>1 DEF SaveSession, SignOut, WriteBox, WriteMeta, TreeInv, MemoryInv
  <2>3. Has("main") /\ main \in Tree
    BY <2>1, <2>2, MainIsTree DEF TreeInv, MemoryInv
  <2>4. \/ disk' = disk
        \/ \E t : disk' = SetMain(t) /\ t.keys = main.keys
    <3>1. CASE SaveSession \/ SignOut
      <4>1. PICK k : disk' = SetMain([main EXCEPT !.session = k])
        BY <3>1 DEF SaveSession, SignOut
      <4>2. [main EXCEPT !.session = k].keys = main.keys
        BY <2>3 DEF Tree
      <4> QED BY <4>1, <4>2
    <3>2. CASE WriteBox
      <4>1. PICK bs : disk' = SetMain([main EXCEPT !.boxes = bs])
        BY <3>2 DEF WriteBox
      <4>2. [main EXCEPT !.boxes = bs].keys = main.keys
        BY <2>3 DEF Tree
      <4> QED BY <4>1, <4>2
    <3>3. CASE WriteMeta
      <4> DEFINE t == [main EXCEPT !.meta = [key |-> key, items |-> doc]]
      <4>1. disk' \in {SetMain(t), disk} /\ t.keys = main.keys
        BY <2>3, <3>3 DEF WriteMeta, Tree
      <4> QED BY <4>1
    <3> QED BY <1>1, <3>1, <3>2, <3>3
  <2>5. CASE disk' = disk
    BY <2>1, <2>5, SealNothingNew
  <2>6. CASE \E t : disk' = SetMain(t) /\ t.keys = main.keys
    <3>1. PICK t : disk' = With(disk, "main", t) /\ t.keys = main.keys
      BY <2>6 DEF SetMain
    <3>2. /\ DOMAIN disk' = DOMAIN disk \cup {"main"} /\ main' = t
          /\ \A q \in DOMAIN disk \ {"main"} : disk'[q] = disk[q]
      BY <3>1 DEF With, main
    <3> QED BY <2>1, <2>3, <3>1, <3>2, SealStays
  <2> QED BY <2>4, <2>5, <2>6
<1>2. CASE StartReseal \/ ResealFails \/ Resealt
  <2>1. /\ pc \in {"idle", "build", "copy", "swap", "swapped"} /\ pc' \in {"build", "idle"}
        /\ disk' \in {Remove("rotate"), disk}
    BY <1>2 DEF StartReseal, ResealFails, Resealt, Return
  <2> QED BY <2>1, SealNothingNew
<1>3. CASE BuildRotated \/ CopyRotated
  <2>1. pc \in {"build", "copy"} /\ pc' \in {"copy", "swap"}
    BY <1>3 DEF BuildRotated, CopyRotated
  <2>2. Has("main") /\ main \in Tree /\ on /\ new \in Nat
    BY <2>1, Building DEF HasMain
  <2>3. Seal(new).tpm # 0
    BY <2>2, SealIsBlob DEF TreeInv, Types
  <2>4. \E t : /\ disk' = With(disk, "rotate", t)
               /\ \A set \in {t.keys, t.prev} : \A f \in DOMAIN set : set[f].tpm # 0
    <3>1. CASE BuildRotated
      <4> DEFINE ks == [f \in {"list", "secret"} |-> Seal(new)]
                 t == [EmptyTree EXCEPT !.keys = ks, !.pub = new]
      <4>1. \A f \in DOMAIN ks : ks[f].tpm # 0
        BY <2>3
      <4>2. disk' = With(disk, "rotate", t)
        BY <3>1 DEF BuildRotated
      <4> HIDE DEF ks
      <4>3. t.keys = ks /\ t.prev = << >>
        BY DEF EmptyTree
      <4> HIDE DEF t
      <4>4. \A set \in {t.keys, t.prev} : \A f \in DOMAIN set : set[f].tpm # 0
        BY <4>1, <4>3
      <4> QED BY <4>2, <4>4
    <3>2. CASE CopyRotated
      <4> DEFINE ks == [f \in Blobs |-> Seal(new)]
                 none == << >>
                 ms == [key |-> new, items |-> doc]
                 ss == IF main.session = 0 THEN 0 ELSE new
                 bs == {[b EXCEPT !.key = new] : b \in main.boxes}
                 t == [main EXCEPT !.keys = ks, !.prev = none, !.pub = new, !.meta = ms,
                                   !.session = ss, !.boxes = bs]
      <4>1. (\A f \in DOMAIN ks : ks[f].tpm # 0) /\ DOMAIN none = {}
        BY <2>3
      <4>2. disk' = With(disk, "rotate", t)
        BY <3>2 DEF CopyRotated
      <4> HIDE DEF ks, none, ms, ss, bs
      <4>3. t.keys = ks /\ t.prev = none
        BY <2>2 DEF Tree
      <4> HIDE DEF t
      <4>4. \A set \in {t.keys, t.prev} : \A f \in DOMAIN set : set[f].tpm # 0
        BY <4>1, <4>3
      <4> QED BY <4>2, <4>4
    <3> QED BY <1>3, <3>1, <3>2
  <2>5. PICK t : /\ disk' = With(disk, "rotate", t)
                 /\ \A set \in {t.keys, t.prev} : \A f \in DOMAIN set : set[f].tpm # 0
    BY <2>4
  <2>6. /\ DOMAIN disk' = DOMAIN disk \cup {"rotate"} /\ disk'["rotate"] = t
        /\ \A q \in DOMAIN disk \ {"rotate"} : disk'[q] = disk[q]
    BY <2>5 DEF With
  <2> QED BY <2>1, <2>2, <2>5, <2>6, SealStays DEF Has, main
<1>4. CASE Exchange
  <2>1. /\ pc = "swap" /\ pc' = "swapped" /\ tpm' = tpm
        /\ disk' = [disk EXCEPT !["main"] = disk["rotate"], !["rotate"] = main]
    BY <1>4 DEF Exchange, chip
  <2>2. /\ Has("main") /\ Has("rotate") /\ Whole(disk["rotate"]) /\ disk["rotate"].pub = new
        /\ OnlyIn("rotate", new) /\ \A f \in Blobs : disk["rotate"].keys[f].tpm = tpm
    BY <2>1, Building DEF TreeInv, ResealInv, HasMain
  <2>3. /\ DOMAIN disk' = DOMAIN disk /\ disk'["main"] = disk["rotate"]
        /\ disk'["rotate"] = disk["main"]
        /\ \A q \in DOMAIN disk \ {"main", "rotate"} : disk'[q] = disk[q]
    BY <2>1, <2>2 DEF TreeInv, Types, DiskOK, Has, main
  <2>4. Uniform(main)'
    BY <2>2, <2>3 DEF Uniform, Whole, main, Blobs
  <2>5. \A q \in DOMAIN disk' \ {"main"} : NotIn(disk'[q], new)
    BY <2>2, <2>3 DEF OnlyIn, Has
  <2>6. disk'["main"].keys["keys"].key = new
    BY <2>2, <2>3 DEF Whole, Blobs
  <2>7. Guarded("main")'
    BY <2>5, <2>6 DEF Guarded, NotIn, TpmOnly
  <2> QED BY <2>1, <2>4, <2>7 DEF SealInv
<1> QED BY <1>1, <1>2, <1>3, <1>4

LEMMA SealImport ==
  ASSUME TreeInv, TreeInv', SealInv,
         \/ StartImport \/ Convert \/ ImportFails \/ Away \/ Into \/ Imported \/ Clear
  PROVE  SealInv'
<1>1. CASE StartImport \/ Convert
  <2>1. pc \in {"idle", "convert"} /\ pc' \in {"convert", "away"} /\ key # 0
    BY <1>1, Importing DEF StartImport, Convert
  <2>2. Has("main") /\ main' = main
    <3>1. Has("main")
      BY <2>1 DEF TreeInv, MemoryInv
    <3>2. CASE StartImport
      BY <3>1, <3>2 DEF StartImport, With, Has, main
    <3>3. CASE Convert
      <4>1. Has("tmp") /\ DiskOK
        BY <3>3, Importing DEF Convert
      <4> QED BY <3>1, <3>3, <4>1 DEF Convert, Has, main, DiskOK
    <3> QED BY <1>1, <3>1, <3>2, <3>3
  <2>3. \A q \in DOMAIN disk' \ {"tmp"} : q \in DOMAIN disk /\ disk'[q] = disk[q]
    <3>1. CASE StartImport
      BY <3>1 DEF StartImport, With
    <3>2. CASE Convert
      <4>1. Has("tmp") /\ DiskOK
        BY <3>2, Importing DEF Convert
      <4> QED BY <3>2, <4>1 DEF Convert, Has, DiskOK
    <3> QED BY <1>1, <3>1, <3>2
  <2>4. disk'["tmp"].keys = main.keys /\ DOMAIN disk'["tmp"].prev = {}
    BY <2>1, <2>2 DEF TreeInv, ImportInv
  <2> QED BY <2>1, <2>2, <2>3, <2>4, SealStays
<1>2. CASE ImportFails \/ Imported
  <2>1. /\ pc \in {"convert", "away", "imported"} /\ pc' \in {"idle", "clear"}
        /\ \E p : disk' \in {Remove(p), disk}
    BY <1>2 DEF ImportFails, Imported, Return
  <2> QED BY <2>1, SealNothingNew
<1>3. CASE Away
  <2>1. pc = "away" /\ pc' = "into"
    BY <1>3 DEF Away
  <2>2. PICK a \in Aside \ DOMAIN disk : disk' = Move("main", a)
    BY <1>3 DEF Away
  <2>3. /\ Has("main") /\ Has("tmp") /\ DOMAIN main.prev = {} /\ Whole(main)
        /\ disk["tmp"].keys = main.keys /\ Uniform(main) /\ Guarded("main")
    BY <2>1, Importing DEF TreeInv, ImportInv, SealInv, HasMain
  <2>4. "main" \in DOMAIN disk /\ a \in Names \ DOMAIN disk /\ a \notin {"main", "tmp"}
    BY <2>3, AsideAssumption DEF Has, Names
  <2>5. /\ DOMAIN disk' = (DOMAIN disk \ {"main"}) \cup {a} /\ disk'[a] = disk["main"]
        /\ \A r \in DOMAIN disk \ {"main"} : disk'[r] = disk[r]
    BY <2>2, <2>4, TreeMoved DEF TreeInv, Types
  <2>6. disk'["tmp"] = disk["tmp"] /\ disk'["tmp"].keys = main.keys
    BY <2>3, <2>5 DEF Has
  <2>7. Uniform(disk["tmp"])'
    BY <2>3, <2>6 DEF Uniform
  <2>8. Guarded("tmp")'
    <3>1. ASSUME "keys" \in DOMAIN main.keys, main.keys["keys"].tpm # 0,
                 NEW q \in DOMAIN disk' \ {"tmp"}
          PROVE  TpmOnly(disk'[q], main.keys["keys"].key)
      <4>1. CASE q = a
        BY <2>3, <2>5, <3>1, <4>1 DEF TpmOnly, Uniform, main
      <4>2. CASE q # a
        BY <2>3, <2>5, <3>1, <4>2 DEF Guarded, main
      <4> QED BY <4>1, <4>2
    <3> QED BY <2>6, <3>1 DEF Guarded
  <2> QED BY <2>1, <2>4, <2>5, <2>7, <2>8 DEF SealInv, Has
<1>4. CASE Into
  <2>1. pc = "into" /\ pc' = "imported" /\ disk' = Move("tmp", "main")
    BY <1>4 DEF Into
  <2>2. Has("tmp") /\ ~Has("main") /\ Uniform(disk["tmp"]) /\ Guarded("tmp")
    BY <2>1 DEF TreeInv, ImportInv, SealInv
  <2>3. /\ DOMAIN disk' = (DOMAIN disk \ {"tmp"}) \cup {"main"} /\ disk'["main"] = disk["tmp"]
        /\ \A r \in DOMAIN disk \ {"tmp"} : disk'[r] = disk[r]
    <3>1. "tmp" \in DOMAIN disk /\ "main" \in Names \ DOMAIN disk
      BY <2>2 DEF Has, Names
    <3> QED BY <2>1, <3>1, TreeMoved DEF TreeInv, Types
  <2>4. Uniform(main)' /\ Guarded("main")'
    BY <2>2, <2>3 DEF Uniform, Guarded, main, Has
  <2> QED BY <2>1, <2>4 DEF SealInv
<1>5. CASE Clear
  <2>1. pc = "clear" /\ pc' = "idle" /\ disk' \in {Saved(FALSE), disk}
    BY <1>5 DEF Clear, Return
  <2> QED BY <2>1, SealSaved
<1> QED BY <1>1, <1>2, <1>3, <1>4, <1>5

LEMMA NextSeal ==
  ASSUME RollbackStops = FALSE, TreeInv, TreeInv', SealInv, [Next]_vars
  PROVE  SealInv'
<1>1. CASE UNCHANGED vars
  <2>1. UNCHANGED <<disk, tpm, pc, todo>>
    BY <1>1 DEF vars, chip, args
  <2> QED BY <2>1 DEF SealInv, Uniform, Guarded, Has, main
<1>2. CASE Lock \/ Crash
  <2>1. pc # "rollback" /\ pc' = "idle" /\ disk' = disk
    BY <1>2 DEF Lock, Crash, Return
  <2> QED BY <2>1, SealNothingNew
<1> QED BY <1>1, <1>2, SealCreate, SealUnlock, SealReseal, SealImport DEF Next

LEMMA SealAlways == ASSUME RollbackStops = FALSE PROVE Spec => [](TreeInv /\ SealInv)
<1>1. TreeInv /\ SealInv /\ [Next]_vars => (TreeInv /\ SealInv)'
  BY NextTree, NextSeal
<1> QED BY <1>1, InitTree, InitSeal, PTL DEF Spec

(* Once the keys of an unlocked store are on the TPM, no tree has a copy of them without it *)
(* - not the leftovers of reseal_if_tpm_available(), nor what import_v1() moved aside.  The *)
(* premise: no crash cuts _rollback() short (it leaves blobs of two kinds in one tree).     *)
THEOREM StoreTreeNoHostCopy ==
  ASSUME RollbackStops = FALSE
  PROVE  Spec => []NoHostCopy
<1>1. TreeInv /\ SealInv => NoHostCopy
  <2> SUFFICES ASSUME TreeInv, SealInv, key # 0, pc = "idle", main.keys["keys"].tpm # 0,
                      NEW p \in DOMAIN disk, NEW set \in {disk[p].keys, disk[p].prev},
                      NEW f \in DOMAIN set, set[f].key = key
               PROVE  set[f].tpm # 0
    BY DEF NoHostCopy, Unlocked
  <2>1. HasMain /\ main.pub = key /\ DOMAIN main.prev = {} /\ Uniform(main) /\ Guarded("main")
    BY DEF TreeInv, MemoryInv, HasMain, SealInv
  <2>2. "keys" \in DOMAIN main.keys /\ main.keys["keys"].key = key
    BY <2>1 DEF HasMain, Whole, Blobs
  <2>3. CASE p = "main"
    BY <2>1, <2>2, <2>3 DEF Uniform, main
  <2>4. CASE p # "main"
    BY <2>1, <2>2, <2>4 DEF Guarded, TpmOnly, main
  <2> QED BY <2>3, <2>4
<1> QED BY <1>1, SealAlways, PTL

-----------------------------------------------------------------------------
(* Nothing is lost *)

LEMMA SameReadable ==
  ASSUME NEW t, NEW u, t.keys = u.keys, t.prev = u.prev, t.pub = u.pub, t.boxes \subseteq u.boxes,
         t.meta.key = u.meta.key, t.meta.items \subseteq u.meta.items
  PROVE  Readable(t) \subseteq Readable(u)
  BY DEF Readable, Survives

(* Nothing is read without a box, or an entry of meta.v2.                  *)
LEMMA NothingReadable ==
  ASSUME NEW t, t.boxes = {} \/ t.meta.items = {}
  PROVE  Readable(t) = {}
  BY DEF Readable

LEMMA ReadableGrows ==
  ASSUME tpm' = tpm, used \in Nat, used' \in Nat, used <= used', NEW p
  PROVE  Readable(disk'[p]) \subseteq (Readable(disk[p]))'
<1>1. ASSUME NEW k \in 1..used
      PROVE  k \in 1..used'
  BY <1>1
<1> QED BY <1>1 DEF Readable, Survives

(* Each tree's entries can be read of a tree there is after the step.      *)
LEMMA AllKept ==
  ASSUME tpm' = tpm, used \in Nat, used' \in Nat, used <= used',
         \A p \in Trees \cap DOMAIN disk :
           \/ Readable(disk[p]) = {}
           \/ \E q \in Trees \cap DOMAIN disk' : Readable(disk[p]) \subseteq Readable(disk'[q])
  PROVE  AllReadable \subseteq AllReadable'
<1> SUFFICES ASSUME NEW i \in AllReadable PROVE i \in AllReadable'
  OBVIOUS
<1>1. PICK p \in Trees \cap DOMAIN disk : i \in Readable(disk[p])
  BY DEF AllReadable
<1>2. PICK q \in Trees \cap DOMAIN disk' : i \in Readable(disk'[q])
  BY <1>1
<1>3. i \in (Readable(disk[q]))'
  BY <1>2, ReadableGrows
<1> QED BY <1>2, <1>3 DEF AllReadable

(* A step that writes main only, so that it reads as before                *)
LEMMA MainKept ==
  ASSUME tpm' = tpm, used \in Nat, used' \in Nat, used <= used',
         NEW t, disk' = With(disk, "main", t),
         Has("main") => Readable(main) = {} \/ Readable(main) \subseteq Readable(t)
  PROVE  AllReadable \subseteq AllReadable'
<1>1. /\ DOMAIN disk' = DOMAIN disk \cup {"main"} /\ disk'["main"] = t
      /\ \A q \in DOMAIN disk \ {"main"} : disk'[q] = disk[q]
  BY DEF With
<1>2. ASSUME NEW p \in Trees \cap DOMAIN disk
      PROVE  \/ Readable(disk[p]) = {}
             \/ \E q \in Trees \cap DOMAIN disk' : Readable(disk[p]) \subseteq Readable(disk'[q])
  <2>1. CASE p = "main"
    BY <1>1, <2>1 DEF Has, main
  <2>2. CASE p # "main"
    BY <1>1, <2>2
  <2> QED BY <2>1, <2>2
<1> QED BY <1>2, AllKept

(* A step that removes a tree that is not in use, or of which nothing can be read *)
LEMMA GoneKept ==
  ASSUME tpm' = tpm, used \in Nat, used' \in Nat, used <= used',
         \/ disk' = disk
         \/ \E p : /\ disk' \in {Remove(p), disk}
                   /\ p \notin Trees \cap DOMAIN disk \/ Readable(disk[p]) = {}
  PROVE  AllReadable \subseteq AllReadable'
<1>1. CASE disk' = disk
  BY <1>1, AllKept
<1>2. CASE disk' # disk
  <2>1. PICK p : disk' = Remove(p) /\ (p \notin Trees \cap DOMAIN disk \/ Readable(disk[p]) = {})
    BY <1>2
  <2>2. DOMAIN disk' = DOMAIN disk \ {p} /\ \A q \in DOMAIN disk' : disk'[q] = disk[q]
    BY <2>1 DEF Remove, Without, Restrict
  <2>3. \A r \in Trees \cap DOMAIN disk :
           \/ Readable(disk[r]) = {}
           \/ \E q \in Trees \cap DOMAIN disk' : Readable(disk[r]) \subseteq Readable(disk'[q])
    BY <2>1, <2>2
  <2> QED BY <2>3, AllKept
<1> QED BY <1>1, <1>2

LEMMA MovedKept ==
  ASSUME tpm' = tpm, used \in Nat, used' \in Nat, used <= used', DiskOK, Has("main"),
         NEW a \in Aside \ DOMAIN disk, disk' = Move("main", a)
  PROVE  AllReadable \subseteq AllReadable'
<1>1. "main" \in DOMAIN disk /\ a \in Names \ DOMAIN disk
  BY DEF Has, Names
<1>2. /\ DOMAIN disk' = (DOMAIN disk \ {"main"}) \cup {a} /\ disk'[a] = disk["main"]
      /\ \A r \in DOMAIN disk \ {"main"} : disk'[r] = disk[r]
  BY <1>1, TreeMoved
<1>3. ASSUME NEW p \in Trees \cap DOMAIN disk
      PROVE  \E q \in Trees \cap DOMAIN disk' : Readable(disk[p]) \subseteq Readable(disk'[q])
  <2>1. CASE p = "main"
    BY <1>2, <2>1 DEF Trees
  <2>2. CASE p # "main"
    BY <1>2, <2>2
  <2> QED BY <2>1, <2>2
<1> QED BY <1>3, AllKept

LEMMA SavedKept ==
  ASSUME TreeInv, tpm' = tpm, used' = used, NEW b \in BOOLEAN, disk' \in {Saved(b), disk}
  PROVE  AllReadable \subseteq AllReadable'
<1>0. used \in Nat
  BY DEF TreeInv, Types
<1>1. CASE disk' = disk
  BY <1>0, <1>1, GoneKept
<1>2. CASE disk' = Saved(b)
  <2> DEFINE t == [(IF Has("main") THEN main ELSE EmptyTree) EXCEPT !.pending = b]
  <2>1. disk' = With(disk, "main", t)
    BY <1>2 DEF Saved, SetMain
  <2>2. ASSUME Has("main")
        PROVE  Readable(main) \subseteq Readable(t)
    <3>1. /\ t.keys = main.keys /\ t.prev = main.prev /\ t.pub = main.pub /\ t.boxes = main.boxes
          /\ t.meta = main.meta
      BY <2>2, MainIsTree DEF Tree
    <3> QED BY <3>1, SameReadable
  <2> HIDE DEF t
  <2> QED BY <1>0, <2>1, <2>2, MainKept
<1> QED BY <1>1, <1>2

LEMMA KeptCreate ==
  ASSUME TreeInv,
         \/ MigrateBegin \/ Reset \/ SignInFresh \/ MigrateAbandon \/ MoveAside \/ Discard
         \/ StartCreate \/ CreateWrite \/ Created \/ CreateFails \/ Undo \/ Undone \/ Mark
  PROVE  AllReadable \subseteq AllReadable'
<1>1. tpm' = tpm /\ used \in Nat /\ used' \in Nat /\ used <= used'
  <2>1. tpm' = tpm /\ used' \in {used, used + 1}
    <3>1. CASE MigrateBegin \/ Reset \/ SignInFresh \/ MigrateAbandon \/ MoveAside \/ Discard
      BY <3>1 DEF MigrateBegin, Reset, SignInFresh, Replace, MigrateAbandon, MoveAside, Discard, chip
    <3>2. CASE StartCreate \/ CreateWrite \/ Created \/ CreateFails \/ Undo \/ Undone \/ Mark
      BY <3>2 DEF StartCreate, CreateWrite, Created, CreateFails, Undo, Undone, Mark, chip
    <3> QED BY <3>1, <3>2
  <2>2. used \in Nat
    BY DEF TreeInv, Types
  <2> QED BY <2>1, <2>2
<1>2. CASE MigrateBegin \/ Reset \/ SignInFresh \/ Created \/ CreateFails
  <2>1. disk' = disk
    BY <1>2 DEF MigrateBegin, Reset, SignInFresh, Replace, Created, CreateFails
  <2> QED BY <1>1, <2>1, GoneKept
<1>3. CASE MigrateAbandon \/ Mark
  <2>1. used' = used /\ \E b \in BOOLEAN : disk' \in {Saved(b), disk}
    BY <1>3 DEF MigrateAbandon, Mark
  <2> QED BY <1>1, <2>1, SavedKept
<1>4. CASE MoveAside
  <2>1. pc = "aside" /\ \E a \in Aside \ DOMAIN disk : disk' = Move("main", a)
    BY <1>4 DEF MoveAside
  <2>2. Has("main") /\ DiskOK
    BY <2>1 DEF TreeInv, CreateInv, Types
  <2> QED BY <1>1, <2>1, <2>2, MovedKept
<1>5. CASE Discard
  <2>1. pc = "discard" /\ disk' \in {Remove(spot), disk}
    BY <1>5 DEF Discard
  <2>2. Readable(disk[spot]) = {}
    BY <2>1, NothingReadable DEF TreeInv, CreateInv
  <2> QED BY <1>1, <2>1, <2>2, GoneKept
<1>6. CASE StartCreate
  <2>1. CASE Has("main")
    BY <1>1, <1>6, <2>1, GoneKept DEF StartCreate
  <2>2. CASE ~Has("main")
    <3>1. disk' = With(disk, "main", EmptyTree)
      BY <1>6, <2>2 DEF StartCreate, SetMain
    <3> QED BY <1>1, <2>2, <3>1, MainKept
  <2> QED BY <2>1, <2>2
<1>7. CASE CreateWrite
  <2>1. pc = "write" /\ disk' = With(disk, "main", Written(main, Head(todo), new))
    BY <1>7 DEF CreateWrite, SetMain
  <2>2. Readable(main) = {}
    BY <2>1, NothingReadable DEF TreeInv, CreateInv
  <2> QED BY <1>1, <2>1, <2>2, MainKept
<1>8. CASE Undo
  <2>1. pc = "undo" /\ disk' = With(disk, "main", Unwritten(main, Head(todo)))
    BY <1>8 DEF Undo, SetMain
  <2>2. Readable(main) = {}
    BY <2>1, NothingReadable DEF TreeInv, CreateInv, Fresh
  <2> QED BY <1>1, <2>1, <2>2, MainKept
<1>9. CASE Undone
  <2>1. pc = "undo" /\ disk' \in {Remove("main"), disk}
    BY <1>9 DEF Undone
  <2>2. Readable(disk["main"]) = {}
    BY <2>1, NothingReadable DEF TreeInv, CreateInv, Fresh, main
  <2> QED BY <1>1, <2>1, <2>2, GoneKept
<1> QED BY <1>2, <1>3, <1>4, <1>5, <1>6, <1>7, <1>8, <1>9

(* _rollback() puts the host-only blobs in the place of the ones on the TPM: the same keys, *)
(* which open without it.                                                                   *)
LEMMA KeptRollback ==
  ASSUME TreeInv, Rollback
  PROVE  AllReadable \subseteq AllReadable'
<1> DEFINE f == Head(todo)
<1>1. tpm' = tpm /\ used \in Nat /\ used' \in Nat /\ used <= used'
  BY DEF Rollback, chip, TreeInv, Types
<1>2. /\ HasMain /\ main.pub = main'.pub /\ f \in DOMAIN main.prev /\ f \in Blobs
      /\ main'.keys[f] = main.prev[f] /\ DOMAIN main'.keys = Blobs
      /\ \A g \in Blobs \ {f} : main'.keys[g] = main.keys[g]
      /\ DOMAIN main'.prev = DOMAIN main.prev \ {f}
      /\ \A g \in DOMAIN main'.prev : main'.prev[g] = main.prev[g]
      /\ main'.meta = main.meta /\ main'.boxes = main.boxes
  BY RolledBack DEF Rollback, TreeInv, UnlockInv
<1>3. DOMAIN main.keys = Blobs /\ main.prev[f].key = main.pub /\ main.prev[f].tpm = 0
  BY <1>2 DEF HasMain, Whole
<1>4. PICK t : disk' = With(disk, "main", t)
  BY DEF Rollback, SetMain
<1>5. t = main'
  BY <1>4 DEF With, main
<1>6. ASSUME NEW g \in {"list", "secret"}, Survives(main, g, main.pub)
      PROVE  Survives(t, g, main.pub)
  <2>1. g \in Blobs
    BY <1>6 DEF Blobs
  <2>2. CASE g = f
    BY <1>2, <1>3, <1>5, <2>2 DEF Survives
  <2>3. CASE g # f
    BY <1>2, <1>3, <1>5, <1>6, <2>1, <2>3 DEF Survives
  <2> QED BY <2>2, <2>3
<1>7. Readable(main) \subseteq Readable(t)
  BY <1>2, <1>5, <1>6 DEF Readable
<1> QED BY <1>1, <1>4, <1>7, MainKept

(* _drop_prev() removes blobs once the ones in their place opened.         *)
LEMMA KeptDropPrev ==
  ASSUME TreeInv, SealInv, DropPrev
  PROVE  AllReadable \subseteq AllReadable'
<1>1. tpm' = tpm /\ used \in Nat /\ used' \in Nat /\ used <= used' /\ pc = "drop"
  BY DEF DropPrev, chip, mem, TreeInv, Types
<1>2. /\ HasMain /\ main'.keys = main.keys /\ main'.meta = main.meta /\ main'.boxes = main.boxes
      /\ main'.pub = main.pub
  BY <1>1, PrevDropped DEF TreeInv, MemoryInv
<1>3. PICK t : disk' = With(disk, "main", t)
  BY DEF DropPrev, SetMain
<1>4. t = main'
  BY <1>3 DEF With, main
<1>5. ASSUME NEW g \in {"list", "secret"}
      PROVE  Survives(t, g, main.pub)
  <2>1. g \in Blobs /\ g \in DOMAIN main.keys /\ main.keys[g].key = main.pub
    BY <1>2 DEF HasMain, Whole, Blobs
  <2>2. main.keys[g].tpm \in {0, tpm}
    BY <1>1, <2>1 DEF SealInv
  <2> QED BY <1>2, <1>4, <2>1, <2>2 DEF Survives
<1>6. Readable(main) \subseteq Readable(t)
  BY <1>2, <1>4, <1>5 DEF Readable
<1> QED BY <1>1, <1>3, <1>6, MainKept

LEMMA KeptUnlock ==
  ASSUME TreeInv,
         StartUnlock \/ Unseal \/ StartRollback \/ UnsealUnavailable \/ UnsealRefused \/ Load \/ Dropped
  PROVE  AllReadable \subseteq AllReadable'
<1>1. tpm' = tpm /\ used \in Nat /\ used' \in Nat /\ used <= used'
  BY DEF StartUnlock, Unseal, StartRollback, UnsealUnavailable, UnsealRefused, Load, Dropped,
         chip, TreeInv, Types
<1>2. disk' \in {Remove("rotate"), disk}
  BY DEF StartUnlock, Unseal, StartRollback, UnsealUnavailable, UnsealRefused, Load, Dropped
<1>3. "rotate" \notin Trees
  BY AsideAssumption DEF Trees
<1> QED BY <1>1, <1>2, <1>3, GoneKept

LEMMA KeptUse ==
  ASSUME TreeInv, SaveSession \/ SignOut \/ WriteBox \/ WriteMeta
  PROVE  AllReadable \subseteq AllReadable'
<1>1. tpm' = tpm /\ used \in Nat /\ used' \in Nat /\ used <= used' /\ key # 0 /\ pc \in {"idle", "meta"}
  <2>1. pc = "idle" => key # 0
    BY DEF SaveSession, SignOut, WriteBox, WriteMeta
  <2>2. tpm' = tpm /\ used' = used /\ pc \in {"idle", "meta"}
    BY DEF SaveSession, SignOut, WriteBox, WriteMeta, chip
  <2> QED BY <2>1, <2>2 DEF TreeInv, MemoryInv, Types
<1>2. Has("main") /\ main \in Tree /\ Whole(main) /\ main.pub = key /\ main.meta.items \subseteq doc
  BY <1>1, MainIsTree DEF TreeInv, MemoryInv, HasMain
<1>3. CASE SaveSession \/ SignOut
  <2>1. PICK k : disk' = SetMain([main EXCEPT !.session = k])
    BY <1>3 DEF SaveSession, SignOut
  <2> DEFINE t == [main EXCEPT !.session = k]
  <2>2. /\ t.keys = main.keys /\ t.prev = main.prev /\ t.pub = main.pub /\ t.boxes = main.boxes
        /\ t.meta = main.meta
    BY <1>2 DEF Tree
  <2>3. disk' = With(disk, "main", t)
    BY <2>1 DEF SetMain
  <2> HIDE DEF t
  <2> QED BY <1>1, <2>2, <2>3, SameReadable, MainKept
<1>4. CASE WriteBox
  <2>1. PICK i \in Item \ doc : disk' = SetMain([main EXCEPT !.boxes = @ \cup Boxes(key, {i})])
    BY <1>4 DEF WriteBox
  <2> DEFINE bs == main.boxes \cup Boxes(key, {i})
             t == [main EXCEPT !.boxes = bs]
  <2>2. main.boxes \subseteq bs /\ disk' = With(disk, "main", t)
    BY <2>1 DEF SetMain
  <2> HIDE DEF bs
  <2>3. /\ t.keys = main.keys /\ t.prev = main.prev /\ t.pub = main.pub /\ t.boxes = bs
        /\ t.meta = main.meta
    BY <1>2 DEF Tree
  <2> HIDE DEF t
  <2> QED BY <1>1, <2>2, <2>3, SameReadable, MainKept
<1>5. CASE WriteMeta
  <2> DEFINE ms == [key |-> key, items |-> doc]
             t == [main EXCEPT !.meta = ms]
  <2>1. disk' = With(disk, "main", t) \/ disk' = disk
    BY <1>5 DEF WriteMeta, SetMain
  <2>2. ms.key = main.meta.key /\ main.meta.items \subseteq ms.items
    BY <1>2 DEF Whole
  <2> HIDE DEF ms
  <2>3. /\ t.keys = main.keys /\ t.prev = main.prev /\ t.pub = main.pub /\ t.boxes = main.boxes
        /\ t.meta = ms
    BY <1>2 DEF Tree
  <2> HIDE DEF t
  <2> QED BY <1>1, <2>1, <2>2, <2>3, SameReadable, MainKept, GoneKept
<1> QED BY <1>3, <1>4, <1>5

LEMMA KeptReseal ==
  ASSUME TreeInv, StartReseal \/ BuildRotated \/ CopyRotated \/ ResealFails \/ Exchange \/ Resealt
  PROVE  AllReadable \subseteq AllReadable'
<1>1. tpm' = tpm /\ used \in Nat /\ used' \in Nat /\ used <= used'
  <2>1. tpm' = tpm /\ used' \in {used, used + 1}
    BY DEF StartReseal, BuildRotated, CopyRotated, ResealFails, Exchange, Resealt, chip
  <2>2. used \in Nat
    BY DEF TreeInv, Types
  <2> QED BY <2>1, <2>2
<1>2. "rotate" \notin Trees
  BY AsideAssumption DEF Trees
<1>3. CASE StartReseal \/ ResealFails \/ Resealt
  <2>1. disk' \in {Remove("rotate"), disk}
    BY <1>3 DEF StartReseal, ResealFails, Resealt
  <2> QED BY <1>1, <1>2, <2>1, GoneKept
<1>4. CASE BuildRotated \/ CopyRotated
  <2>1. PICK t : disk' = With(disk, "rotate", t)
    BY <1>4 DEF BuildRotated, CopyRotated
  <2>2. DOMAIN disk \subseteq DOMAIN disk' /\ \A q \in DOMAIN disk \ {"rotate"} : disk'[q] = disk[q]
    BY <2>1 DEF With
  <2>3. \A p \in Trees \cap DOMAIN disk :
          \E q \in Trees \cap DOMAIN disk' : Readable(disk[p]) \subseteq Readable(disk'[q])
    BY <1>2, <2>2
  <2> QED BY <1>1, <2>3, AllKept
<1>5. CASE Exchange
  <2>1. pc = "swap" /\ disk' = [disk EXCEPT !["main"] = disk["rotate"], !["rotate"] = main]
    BY <1>5 DEF Exchange
  <2>2. Has("main") /\ Has("rotate") /\ Readable(disk["main"]) \subseteq Readable(disk["rotate"])
    BY <2>1, Building DEF TreeInv, ResealInv, main
  <2>3. /\ DOMAIN disk' = DOMAIN disk /\ disk'["main"] = disk["rotate"]
        /\ \A q \in DOMAIN disk \ {"main", "rotate"} : disk'[q] = disk[q]
    BY <2>1, <2>2 DEF TreeInv, Types, DiskOK, Has, main
  <2>4. ASSUME NEW p \in Trees \cap DOMAIN disk
        PROVE  \E q \in Trees \cap DOMAIN disk' : Readable(disk[p]) \subseteq Readable(disk'[q])
    <3>1. Readable(disk[p]) \subseteq Readable(disk'[p])
      BY <1>2, <2>2, <2>3
    <3> QED BY <2>3, <3>1
  <2> QED BY <1>1, <2>4, AllKept
<1> QED BY <1>3, <1>4, <1>5

LEMMA KeptImport ==
  ASSUME TreeInv, StartImport \/ Convert \/ ImportFails \/ Away \/ Into \/ Imported \/ Clear
  PROVE  AllReadable \subseteq AllReadable'
<1>1. tpm' = tpm /\ used' = used /\ used \in Nat
  BY DEF StartImport, Convert, ImportFails, Away, Into, Imported, Clear, chip, TreeInv, Types
<1>2. "tmp" \notin Trees
  BY AsideAssumption DEF Trees
<1>3. CASE StartImport \/ Convert
  <2>1. DOMAIN disk \subseteq DOMAIN disk' /\ \A q \in DOMAIN disk \ {"tmp"} : disk'[q] = disk[q]
    <3>1. CASE StartImport
      BY <3>1 DEF StartImport, With
    <3>2. CASE Convert
      <4>1. Has("tmp") /\ DiskOK
        BY <3>2, Importing DEF Convert
      <4> QED BY <3>2, <4>1 DEF Convert, Has, DiskOK
    <3> QED BY <1>3, <3>1, <3>2
  <2>2. \A p \in Trees \cap DOMAIN disk :
          \E q \in Trees \cap DOMAIN disk' : Readable(disk[p]) \subseteq Readable(disk'[q])
    BY <1>2, <2>1
  <2> QED BY <1>1, <2>2, AllKept
<1>4. CASE ImportFails
  <2>1. disk' \in {Remove("tmp"), disk}
    BY <1>4 DEF ImportFails
  <2> QED BY <1>1, <1>2, <2>1, GoneKept
<1>5. CASE Away
  <2>1. pc = "away" /\ \E a \in Aside \ DOMAIN disk : disk' = Move("main", a)
    BY <1>5 DEF Away
  <2>2. Has("main") /\ DiskOK
    BY <2>1, Importing DEF HasMain
  <2> QED BY <1>1, <2>1, <2>2, MovedKept
<1>6. CASE Into
  <2>1. pc = "into" /\ disk' = Move("tmp", "main")
    BY <1>6 DEF Into
  <2>2. "tmp" \in DOMAIN disk /\ "main" \in Names \ DOMAIN disk
    BY <2>1 DEF TreeInv, ImportInv, Has, Names
  <2>3. /\ DOMAIN disk' = (DOMAIN disk \ {"tmp"}) \cup {"main"}
        /\ \A r \in DOMAIN disk \ {"tmp"} : disk'[r] = disk[r]
    BY <2>1, <2>2, TreeMoved DEF TreeInv, Types
  <2>4. \A p \in Trees \cap DOMAIN disk :
          \E q \in Trees \cap DOMAIN disk' : Readable(disk[p]) \subseteq Readable(disk'[q])
    BY <1>2, <2>3
  <2> QED BY <1>1, <2>4, AllKept
<1>7. CASE Imported
  <2>1. pc = "imported" /\ disk' = Remove(spot)
    BY <1>7 DEF Imported
  <2>2. Readable(disk[spot]) = {}
    BY <2>1, NothingReadable DEF TreeInv, ImportInv
  <2> QED BY <1>1, <2>1, <2>2, GoneKept
<1>8. CASE Clear
  <2>1. disk' \in {Saved(FALSE), disk}
    BY <1>8 DEF Clear
  <2> QED BY <1>1, <2>1, SavedKept
<1> QED BY <1>3, <1>4, <1>5, <1>6, <1>7, <1>8

(* No step of reset(), create(), unlock(), reseal, import_v1() or a sync, and no crash or   *)
(* failure in one, costs an entry that could be read, whatever tree it was in, unless the   *)
(* TPM is cleared.  The premise: no crash cuts _rollback() short.                           *)
THEOREM StoreTreeNothingLost ==
  ASSUME RollbackStops = FALSE
  PROVE  Spec => NothingLost
<1>1. ASSUME TreeInv, SealInv, [Next]_vars, tpm' = tpm
      PROVE  AllReadable \subseteq AllReadable'
  <2>0. used \in Nat
    BY <1>1 DEF TreeInv, Types
  <2>1. CASE Lock \/ Crash \/ UNCHANGED vars
    <3>1. disk' = disk /\ used' = used
      BY <2>1 DEF Lock, Crash, vars
    <3> QED BY <1>1, <2>0, <3>1, GoneKept
  <2>2. CASE Next /\ ~(Lock \/ Crash)
    BY <1>1, <2>2, KeptCreate, KeptUnlock, KeptRollback, KeptDropPrev, KeptUse, KeptReseal,
       KeptImport DEF Next
  <2> QED BY <1>1, <2>1, <2>2
<1>2. TreeInv /\ SealInv /\ [Next]_vars => (tpm' = tpm => AllReadable \subseteq AllReadable')
  BY <1>1
<1>3. Spec => []([tpm' = tpm => AllReadable \subseteq AllReadable']_vars)
  BY <1>2, SealAlways, PTL DEF Spec
<1> QED BY <1>3 DEF NothingLost

=============================================================================
