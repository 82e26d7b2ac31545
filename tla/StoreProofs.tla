----------------------------- MODULE StoreProofs -----------------------------
(***************************************************************************)
(* Theorems about StoreHandlers and Power, for any connections, tasks and  *)
(* store objects.                                                          *)
(***************************************************************************)
EXTENDS Power, TLAPS

\* A call of a store's method is bound to an object, and so is a create() that succeeded.
Bound ==
  \A t \in Task : /\ fn[t] \in Call \ Replaces => obj[t] \in Store
                  /\ fn[t] \in Replaces /\ res[t] = "ok" => obj[t] \in Store

\* An op runs on a connection of its role.
RolesKept ==
  \A t \in Task : /\ op[t] \in WindowOp => Owner[t] \in Window
                  /\ op[t] \in BrowserOp => Owner[t] \in Browser

Typed == TypeOK /\ Bound /\ RolesKept

-----------------------------------------------------------------------------
(* The pieces actions are made of *)

LEMMA InitTyped == Init => Typed
  <1> SUFFICES ASSUME Init PROVE Typed
    OBVIOUS
  <1>1. conn \in [Conn -> Stage]
    BY DEF Init, Stage
  <1>2. store_lock \in Seq(Task)
    BY DEF Init
  <1>3. /\ op \in [Task -> Op \cup {"none"}]
        /\ fn \in [Task -> Call \cup {"none"}]
        /\ obj \in [Task -> Store \cup {NoStore}]
    BY DEF Init
  <1>4. pc \in [Task -> Place] /\ res \in [Task -> Result]
    BY DEF Init, Place, Result
  <1>5. Bound /\ RolesKept
    BY DEF Init, Bound, RolesKept, Call, Replaces, WindowOp, BrowserOp
  <1> QED
    BY <1>1, <1>2, <1>3, <1>4, <1>5 DEF Typed, TypeOK, Init

\* A lock leaves well-typed what it assigns.
LEMMA LockSessionTypes ==
  ASSUME TypeOK, LockSession
  PROVE  /\ tier1' \in Window \cup {NoConn}
         /\ autofill_conn' \in Browser \cup {NoConn}
         /\ autofill_due' \in BOOLEAN
         /\ wipe_after' \in BOOLEAN
         /\ keys' \in SUBSET Store
         /\ wipe_req' \in SUBSET Store
         /\ cancelled' \in SUBSET Task
         /\ fresh' \in SUBSET Task
         /\ jfresh' \in SUBSET Task
  BY DEF TypeOK, LockSession, CloseStore, WipeStore, WipePending, MutexHeld, replacing, CancelPrompts

\* So does a store call, whatever queue it joins.
LEMMA CallInTypes ==
  ASSUME Typed, NEW Q \in Seq(Task), NEW t \in Task, NEW f \in Call, NEW o \in Store,
         NEW J \in SUBSET Task, CallIn(Q, t, f, o, J)
  PROVE  /\ store_lock' \in Seq(Task)
         /\ pc' \in [Task -> Place]
         /\ fn' \in [Task -> Call \cup {"none"}]
         /\ obj' \in [Task -> Store \cup {NoStore}]
         /\ res' \in [Task -> Result]
         /\ jfresh' \in SUBSET Task
         /\ Bound'
  <1>1. Append(Q, t) \in Seq(Task)
    OBVIOUS
  <1>2. Bound'
    BY DEF Typed, TypeOK, CallIn, Bound
  <1> QED
    BY <1>1, <1>2 DEF Typed, TypeOK, CallIn, Place, Result

\* The queue, once its head has left it.
LEMMA TailTypes ==
  ASSUME TypeOK, NEW t \in Task, Owns(t)
  PROVE  Tail(store_lock) \in Seq(Task)
  BY DEF TypeOK, Owns

\* A task at rest is well-typed.
LEMMA RestTypes ==
  ASSUME Typed, NEW t \in Task, NEW F \in SUBSET Task, RestUnder(t, F)
  PROVE  /\ op' \in [Task -> Op \cup {"none"}]
         /\ pc' \in [Task -> Place]
         /\ fn' \in [Task -> Call \cup {"none"}]
         /\ obj' \in [Task -> Store \cup {NoStore}]
         /\ res' \in [Task -> Result]
         /\ fresh' \in SUBSET Task
         /\ Bound'
         /\ RolesKept'
  <1>1. Bound' /\ RolesKept'
    BY DEF Typed, TypeOK, RestUnder, Bound, RolesKept, Call, Replaces, WindowOp, BrowserOp
  <1> QED
    BY <1>1 DEF Typed, TypeOK, RestUnder, Place, Result

\* What the way out of run_store leaves is well-typed.
LEMMA SettleTypes ==
  ASSUME Typed, NEW t \in Task, Settle(t) \/ SettleAndWipe(t)
  PROVE  keys' \in SUBSET Store /\ wipe_req' \in SUBSET Store
  BY DEF Typed, TypeOK, Settle, SettleAndWipe, KeysAfter, ReqAfter

-----------------------------------------------------------------------------
(* Connections and the worker *)

LEMMA ConnectionTyped ==
  ASSUME Typed, NEW c \in Conn,
         HelloWindow(c) \/ HelloReads(c) \/ HelloReply(c) \/ HelloBrowser(c) \/ Close(c) \/ Detach(c)
  PROVE  Typed'
  <1> USE DEF Typed, TypeOK, lockVars, openVars, storeVars, taskVars, Stage
  <1>0. ASSUME UNCHANGED taskVars PROVE Bound' /\ RolesKept'
    BY <1>0 DEF Bound, RolesKept
  <1>1. CASE HelloWindow(c)
    BY <1>0, <1>1, LockSessionTypes DEF HelloWindow
  <1>2. CASE HelloReads(c)
    BY <1>0, <1>2 DEF HelloReads
  <1>3. CASE HelloReply(c)
    BY <1>0, <1>3, LockSessionTypes DEF HelloReply
  <1>4. CASE HelloBrowser(c)
    BY <1>0, <1>4 DEF HelloBrowser
  <1>5. CASE Close(c)
    BY <1>0, <1>5 DEF Close
  <1>6. CASE Detach(c)
    BY <1>0, <1>6, LockSessionTypes DEF Detach, CancelPrompts
  <1> QED
    BY <1>1, <1>2, <1>3, <1>4, <1>5, <1>6

LEMMA LockTyped ==
  ASSUME Typed, Lock \/ AutofillExpires \/ AutofillTimeout
  PROVE  Typed'
  <1> USE DEF Typed, TypeOK, openVars, storeVars, taskVars
  <1>0. ASSUME UNCHANGED taskVars PROVE Bound' /\ RolesKept'
    BY <1>0 DEF Bound, RolesKept
  <1>1. CASE Lock
    BY <1>0, <1>1, LockSessionTypes DEF Lock
  <1>2. CASE AutofillExpires
    BY <1>0, <1>2 DEF AutofillExpires
  <1>3. CASE AutofillTimeout
    BY <1>0, <1>3, LockSessionTypes DEF AutofillTimeout
  <1> QED
    BY <1>1, <1>2, <1>3

LEMMA WorkerTyped ==
  ASSUME Typed, NEW t \in Task, Begin(t) \/ Worker(t)
  PROVE  Typed'
  <1> USE DEF Typed, TypeOK, Bound, RolesKept, notWorker, openVars, storeVars, taskVars,
              WorkerDone, Place, Result
  <1>0. CASE Begin(t)
    BY <1>0 DEF Begin
  <1>1. CASE Enter(t)
    BY <1>1 DEF Enter, Serialized, Replaces
  <1>2. CASE Leave(t)
    BY <1>2 DEF Leave, KeysOnLeaving, Serialized, Replaces
  <1>3. CASE LeaveUnlock(t)
    <2>1. obj[t] \in Store
      BY <1>3 DEF LeaveUnlock, Call, Replaces
    <2> QED
      BY <1>3, <2>1 DEF LeaveUnlock
  <1>4. CASE SyncEnds(t)
    BY <1>4 DEF SyncEnds, Replaces
  <1>5. CASE ReadState(t)
    BY <1>5 DEF ReadState, Replaces
  <1>6. CASE MoveAside(t)
    BY <1>6 DEF MoveAside
  <1>7. CASE Made(t)
    BY <1>7 DEF Made
  <1> QED
    BY <1>0, <1>1, <1>2, <1>3, <1>4, <1>5, <1>6, <1>7 DEF Worker

-----------------------------------------------------------------------------
(* The handlers *)

\* A request starts with a call, on a connection of its role.
LEMMA RequestTyped ==
  ASSUME Typed, NEW t \in Task, Request(t)
  PROVE  Typed'
  <1> USE DEF Typed, TypeOK, SessionKept, openVars, storeVars
  <1>1. ASSUME NEW o \in Ops[t], NEW f \in Call, op[t] = "none", StartsWith(t, o, f),
               fresh' \in SUBSET Task
        PROVE  Typed'
    <2>1. o \in Op /\ RolesKept'
      BY <1>1, OpsAssumption, RoleOpsAssumption DEF StartsWith, RolesKept
    <2> QED
      BY <1>1, <2>1, CallInTypes DEF StartsWith
  <1>2. ASSUME NEW o \in Ops[t], op[t] = "none", StartsAsking(t, o), fresh' \in SUBSET Task
        PROVE  Typed'
    <2>1. o \in Op /\ RolesKept' /\ Bound'
      BY <1>2, OpsAssumption, RoleOpsAssumption DEF StartsAsking, RolesKept, Bound
    <2> QED
      BY <1>2, <2>1 DEF StartsAsking, Place
  <1>3. CASE UnlockStarts(t)
    BY <1>1, <1>3 DEF UnlockStarts, Requested, Call
  <1>4. CASE ReadStarts(t)
    BY <1>1, <1>4 DEF ReadStarts, Requested, Call
  <1>5. CASE QueryStarts(t)
    BY <1>1, <1>5 DEF QueryStarts, Requested, Call
  <1>6. CASE NamedStarts(t)
    BY <1>2, <1>6 DEF NamedStarts, Requested
  <1>7. CASE NamesStarts(t)
    BY <1>2, <1>7 DEF NamesStarts, Requested
  <1>8. CASE ReplaceStarts(t)
    BY <1>1, <1>8 DEF ReplaceStarts, Requested, Call
  <1>9. CASE SyncStarts(t)
    BY <1>1, <1>9 DEF SyncStarts, Call
  <1> QED
    BY <1>3, <1>4, <1>5, <1>6, <1>7, <1>8, <1>9 DEF Request

LEMMA DialogTyped ==
  ASSUME Typed, NEW t \in Task, Dialog(t)
  PROVE  Typed'
  <1> USE DEF Typed, TypeOK, SessionKept, openVars, storeVars
  <1>1. ASSUME NEW f \in Call, GoesOnWith(t, f)
        PROVE  Typed'
    <2>1. CASE wipe_after
      BY <1>1, <2>1, RestTypes DEF GoesOnWith, Rest, Typed, TypeOK
    <2>2. CASE ~wipe_after
      BY <1>1, <2>2, CallInTypes DEF GoesOnWith, RolesKept
    <2> QED
      BY <2>1, <2>2
  <1>2. CASE DialogRefused(t)
    BY <1>2, RestTypes DEF DialogRefused, Rest, Typed, TypeOK
  <1>3. CASE UnlockApproved(t)
    BY <1>1, <1>3 DEF UnlockApproved, Call
  <1>4. CASE NamesApproved(t)
    BY <1>1, <1>4 DEF NamesApproved, Call
  <1>5. CASE NamedApproved(t)
    BY <1>1, <1>5 DEF NamedApproved, Call
  <1>6. CASE FillApproved(t)
    BY <1>1, <1>6 DEF FillApproved, Call
  <1>7. CASE ResetApproved(t)
    BY <1>1, <1>7 DEF ResetApproved, Call
  <1>8. CASE MigrateApproved(t)
    <2> DEFINE f == IF res[t] = "empty" THEN "create" ELSE "reset"
    <2>1. f \in Call
      BY DEF Call
    <2>2. CASE ~Unlocked
      BY <1>1, <1>8, <2>1, <2>2 DEF MigrateApproved
    <2>3. CASE Unlocked /\ WipePending
      BY <1>8, <2>3, RestTypes DEF MigrateApproved, CloseStore, CancelPrompts, WipeStore
    <2>4. CASE Unlocked /\ ~WipePending
      <3>1. CallIn(store_lock, t, f, store, {}) /\ RolesKept'
        BY <1>8, <2>4 DEF MigrateApproved, RolesKept
      <3>2. /\ store_lock' \in Seq(Task)
            /\ pc' \in [Task -> Place]
            /\ fn' \in [Task -> Call \cup {"none"}]
            /\ obj' \in [Task -> Store \cup {NoStore}]
            /\ res' \in [Task -> Result]
            /\ jfresh' \in SUBSET Task
            /\ Bound'
        BY <2>1, <3>1, CallInTypes
      <3>3. /\ CloseStore /\ CancelPrompts(Task \ {t}) /\ fresh' = {t}
            /\ UNCHANGED <<conn, ui, storeVars, op>>
        BY <1>8, <2>4 DEF MigrateApproved
      <3>4. /\ tier1' = NoConn /\ autofill_conn' = NoConn /\ autofill_due' = FALSE
            /\ wipe_after' \in BOOLEAN /\ keys' \in SUBSET Store /\ wipe_req' \in SUBSET Store
            /\ cancelled' \in SUBSET Task
        BY <3>3 DEF CloseStore, CancelPrompts, WipeStore, WipePending, MutexHeld, replacing
      <3> QED
        BY <3>1, <3>2, <3>3, <3>4
    <2> QED
      BY <2>2, <2>3, <2>4
  <1> QED
    BY <1>2, <1>3, <1>4, <1>5, <1>6, <1>7, <1>8 DEF Dialog

LEMMA ReturnTyped ==
  ASSUME Typed, NEW t \in Task, Return(t)
  PROVE  Typed'
  <1> USE DEF Typed, TypeOK, openVars, storeVars
  <1>1. ASSUME Returning(t), Ends(t)
        PROVE  /\ op' \in [Task -> Op \cup {"none"}]
               /\ store_lock' \in Seq(Task)
               /\ pc' \in [Task -> Place]
               /\ fn' \in [Task -> Call \cup {"none"}]
               /\ obj' \in [Task -> Store \cup {NoStore}]
               /\ res' \in [Task -> Result]
               /\ fresh' \in SUBSET Task
               /\ jfresh' \in SUBSET Task
               /\ Bound' /\ RolesKept'
    BY <1>1, RestTypes, TailTypes DEF Returning, Ends, Rest, Typed, TypeOK
  <1>2. ASSUME Returning(t), NEW f \in Call, NEW o \in Store, Then(t, f, o)
        PROVE  /\ op' \in [Task -> Op \cup {"none"}]
               /\ store_lock' \in Seq(Task)
               /\ pc' \in [Task -> Place]
               /\ fn' \in [Task -> Call \cup {"none"}]
               /\ obj' \in [Task -> Store \cup {NoStore}]
               /\ res' \in [Task -> Result]
               /\ jfresh' \in SUBSET Task
               /\ Bound' /\ RolesKept'
    <2>1. Tail(store_lock) \in Seq(Task) /\ jfresh \ {t} \in SUBSET Task
      BY <1>2, TailTypes DEF Returning
    <2> QED
      BY <1>2, <2>1, CallInTypes DEF Then, RolesKept
  <1>3. ASSUME Returning(t), Asks(t)
        PROVE  /\ op' \in [Task -> Op \cup {"none"}]
               /\ store_lock' \in Seq(Task)
               /\ pc' \in [Task -> Place]
               /\ fn' \in [Task -> Call \cup {"none"}]
               /\ obj' \in [Task -> Store \cup {NoStore}]
               /\ res' \in [Task -> Result]
               /\ jfresh' \in SUBSET Task
               /\ Bound' /\ RolesKept'
    BY <1>1, <1>3, TailTypes DEF Asks, Returning, Place, Bound, RolesKept
  <1>4. Returning(t) /\ wipe_after' \in BOOLEAN
    BY DEF Return, Back, FlagAfter, StateReturns, UnlockReturns, TpmReturns, NamesReturns,
           ListReturns, StatusReturns, MetaReturns, EntryReturns, SyncReturns,
           RecheckReturns, MakeReturns, SaveReturns
  <1>5. op[t] \in WindowOp => Owner[t] \in Window
    BY DEF RolesKept
  <1>6. op[t] \in BrowserOp => Owner[t] \in Browser
    BY DEF RolesKept
  <1>7. {"tpm_move_state", "list_meta", "status", "get_meta", "open_entry", "sync", "save_settings",
        "reset"} \subseteq Call
    BY DEF Call
  <1>11. CASE StateReturns(t)
    BY <1>1, <1>2, <1>3, <1>4, <1>7, <1>11, SettleTypes DEF StateReturns
  <1>12. CASE UnlockReturns(t)
    BY <1>1, <1>2, <1>4, <1>7, <1>12, SettleTypes DEF UnlockReturns
  <1>13. CASE TpmReturns(t)
    BY <1>1, <1>2, <1>4, <1>5, <1>7, <1>13, SettleTypes DEF TpmReturns, Back, WindowOp
  <1>14. CASE NamesReturns(t)
    BY <1>1, <1>2, <1>4, <1>6, <1>7, <1>14, SettleTypes DEF NamesReturns, Back, BrowserOp
  <1>15. CASE ListReturns(t)
    BY <1>1, <1>2, <1>4, <1>7, <1>15, SettleTypes DEF ListReturns
  <1>16. CASE StatusReturns(t) \/ EntryReturns(t)
    BY <1>1, <1>4, <1>16, SettleTypes DEF StatusReturns, EntryReturns
  <1>21. CASE MetaReturns(t)
    BY <1>1, <1>2, <1>3, <1>4, <1>7, <1>21, SettleTypes DEF MetaReturns
  <1>17. CASE SyncReturns(t)
    BY <1>1, <1>2, <1>4, <1>7, <1>17, SettleTypes DEF SyncReturns
  <1>18. CASE RecheckReturns(t)
    <2>1. CASE Ends(t) /\ Settle(t) /\ UNCHANGED <<openVars, cancelled>>
      BY <1>1, <1>4, <1>18, <2>1, SettleTypes DEF RecheckReturns
    <2>2. CASE CallIn(Tail(store_lock), t, "reset", store, {}) /\ SettleAndWipe(t)
               /\ CancelPrompts(Task) /\ fresh' = {t} /\ UNCHANGED op
               /\ tier1' = NoConn /\ autofill_conn' = NoConn /\ autofill_due' = FALSE
      <3>1. Tail(store_lock) \in Seq(Task)
        BY <1>4, TailTypes DEF Returning
      <3>2. /\ store_lock' \in Seq(Task)
            /\ pc' \in [Task -> Place]
            /\ fn' \in [Task -> Call \cup {"none"}]
            /\ obj' \in [Task -> Store \cup {NoStore}]
            /\ res' \in [Task -> Result]
            /\ jfresh' \in SUBSET Task
            /\ Bound'
        <4>1. {} \in SUBSET Task /\ store \in Store /\ "reset" \in Call
          BY <1>7
        <4>2. CallIn(Tail(store_lock), t, "reset", store, {})
          BY <2>2
        <4> HIDE DEF Typed, TypeOK
        <4> QED
          BY <3>1, <4>1, <4>2, CallInTypes
      <3> QED
        BY <1>4, <1>18, <2>2, <3>2, SettleTypes DEF RecheckReturns, CancelPrompts, RolesKept
    <2> QED
      BY <1>18, <2>1, <2>2 DEF RecheckReturns
  <1>19. CASE MakeReturns(t)
    <2>1. CASE ~Adopts(t)
      BY <1>1, <1>4, <1>19, <2>1, SettleTypes DEF MakeReturns
    <2>2. CASE Adopts(t)
      <3>1. obj[t] \in Store
        BY <1>19, <2>2 DEF MakeReturns, Back, Adopts, Bound
      <3>2. KeysAfter(t) \in SUBSET Store /\ ReqAfter(t) \in SUBSET Store
        BY DEF KeysAfter, ReqAfter
      <3> QED
        BY <1>1, <1>2, <1>4, <1>7, <1>19, <2>2, <3>1, <3>2, SettleTypes DEF MakeReturns
    <2> QED
      BY <2>1, <2>2
  <1>20. CASE SaveReturns(t)
    BY <1>1, <1>4, <1>5, <1>20, SettleTypes DEF SaveReturns, Back, WindowOp
  <1> QED
    BY <1>11, <1>12, <1>13, <1>14, <1>15, <1>16, <1>17, <1>18, <1>19, <1>20, <1>21
       DEF Return

LEMMA NextTyped == Typed /\ [Next]_vars => Typed'
  <1> SUFFICES ASSUME Typed, [Next]_vars PROVE Typed'
    OBVIOUS
  <1>1. CASE UNCHANGED vars
    BY <1>1 DEF Typed, TypeOK, Bound, RolesKept, vars, openVars, storeVars, taskVars
  <1>2. CASE Next
    BY <1>2, LockTyped, ConnectionTyped, RequestTyped, DialogTyped, WorkerTyped, ReturnTyped
       DEF Next
  <1> QED
    BY <1>1, <1>2

\* Every variable keeps its type; with it, every store call is bound to an object and every op
\* runs on a connection of its role (server._loop's ROLE_OPS, run_store's bound method).
THEOREM StoreTypes == Spec => []Typed
  BY InitTyped, NextTyped, PTL DEF Spec

\* The state is always what TypeOK says: in particular Session.store is a store object and
\* store_lock a queue of requests, whatever create(), reset() and the locks between them do.
THEOREM StoreTypeOK == Spec => []TypeOK
  <1>1. Typed => TypeOK
    BY DEF Typed
  <1> QED
    BY <1>1, StoreTypes, PTL

-----------------------------------------------------------------------------
(***************************************************************************)
(* KeysOnlyWhileOpen.  It is nearly inductive: what it lacks is that a     *)
(* task in one of the two calls that justify the keys (tpm_move_state and  *)
(* save_settings) cannot start over, or be asking, so that it leaves that  *)
(* call only through the check of its own handler.                         *)
(***************************************************************************)

Waiting == {"tpm_move_state", "save_settings"}

Committed ==
  \A t \in Task : /\ op[t] = "none" => pc[t] = "idle"
                  /\ pc[t] \in {"idle", "ask"} => fn[t] \notin Waiting

KeysInv == Typed /\ Committed /\ KeysOnlyWhileOpen

LEMMA InitKeys == Init => KeysInv
  <1>1. Init => Committed /\ KeysOnlyWhileOpen
    BY DEF Init, Committed, KeysOnlyWhileOpen, Waiting
  <1> QED
    BY <1>1, InitTyped DEF KeysInv

\* A lock wipes the store's keys or leaves the wipe to the running call.
LEMMA CloseStoreWipes ==
  ASSUME CloseStore PROVE store \in keys' => wipe_after'
  BY DEF CloseStore, WipeStore, WipePending

\* Nothing that matters changes for the tasks.
LEMMA SameOpening ==
  ASSUME UNCHANGED <<store, taskVars, pc, fresh>>, Opening PROVE Opening'
  BY DEF Opening, taskVars

LEMMA SameCommitted ==
  ASSUME UNCHANGED <<taskVars, pc>>, Committed PROVE Committed'
  BY DEF Committed, taskVars

LEMMA ConnectionKeys ==
  ASSUME KeysInv, NEW c \in Conn,
         HelloWindow(c) \/ HelloReads(c) \/ HelloReply(c) \/ HelloBrowser(c) \/ Close(c) \/ Detach(c)
  PROVE  Committed' /\ KeysOnlyWhileOpen'
  <1> USE DEF KeysInv
  <1>1. Committed'
    BY SameCommitted DEF HelloWindow, HelloReads, HelloReply, HelloBrowser, Close, Detach
  <1> SUFFICES KeysOnlyWhileOpen'
    BY <1>1
  <1>2. ASSUME LockSession, UNCHANGED storeVars PROVE KeysOnlyWhileOpen'
    BY <1>2, CloseStoreWipes DEF LockSession, KeysOnlyWhileOpen, storeVars
  <1>3. ASSUME UNCHANGED lockVars, UNCHANGED <<storeVars, taskVars, pc>> PROVE KeysOnlyWhileOpen'
    BY <1>3, SameOpening DEF KeysOnlyWhileOpen, Open, lockVars, openVars, storeVars
  <1>4. CASE HelloWindow(c)
    BY <1>2, <1>3, <1>4 DEF HelloWindow
  <1>5. CASE HelloReads(c)
    BY <1>3, <1>5 DEF HelloReads
  <1>6. CASE HelloReply(c)
    BY <1>2, <1>3, <1>6 DEF HelloReply
  <1>7. CASE HelloBrowser(c)
    BY <1>3, <1>7 DEF HelloBrowser
  <1>8. CASE Close(c)
    BY <1>3, <1>8 DEF Close
  <1>9. CASE Detach(c)
    <2>1. CASE DetachLocks(c)
      BY <1>2, <1>9, <2>1 DEF Detach
    <2>2. CASE ~DetachLocks(c)
      <3>1. autofill_conn = c => tier1 # NoConn
        BY <2>2, NoConnAssumption DEF DetachLocks, Unlocked, Closed, Live
      <3>2. UNCHANGED <<tier1, wipe_after, keys, fresh, storeVars, taskVars, pc>>
        BY <1>9, <2>2 DEF Detach
      <3>3. autofill_conn # c => UNCHANGED autofill_conn
        BY <1>9, <2>2 DEF Detach
      <3> QED
        BY <3>1, <3>2, <3>3, SameOpening DEF KeysOnlyWhileOpen, Open, storeVars
    <2> QED
      BY <2>1, <2>2
  <1> QED
    BY <1>4, <1>5, <1>6, <1>7, <1>8, <1>9

LEMMA LockKeys ==
  ASSUME KeysInv, Lock \/ AutofillExpires \/ AutofillTimeout
  PROVE  Committed' /\ KeysOnlyWhileOpen'
  <1> USE DEF KeysInv
  <1>1. Committed'
    BY SameCommitted DEF Lock, AutofillExpires, AutofillTimeout
  <1> SUFFICES KeysOnlyWhileOpen'
    BY <1>1
  <1>2. ASSUME LockSession, UNCHANGED storeVars PROVE KeysOnlyWhileOpen'
    BY <1>2, CloseStoreWipes DEF LockSession, KeysOnlyWhileOpen, storeVars
  <1>3. CASE Lock
    BY <1>2, <1>3 DEF Lock
  <1>4. CASE AutofillExpires
    BY <1>4, SameOpening DEF AutofillExpires, KeysOnlyWhileOpen, Open, storeVars
  <1>5. CASE AutofillTimeout
    <2>1. CASE Unlocked
      <3>1. tier1 # NoConn
        BY <2>1, NoConnAssumption DEF Unlocked, Closed, Live
      <3> QED
        BY <1>5, <2>1, <3>1, SameOpening DEF AutofillTimeout, KeysOnlyWhileOpen, Open, storeVars
    <2>2. CASE ~Unlocked
      BY <1>2, <1>5, <2>2 DEF AutofillTimeout
    <2> QED
      BY <2>1, <2>2
  <1> QED
    BY <1>3, <1>4, <1>5

\* The worker adds the store's keys only in unlock, and takes none of Opening's reasons away.
LEMMA WorkerKeys ==
  ASSUME KeysInv, NEW t \in Task, Begin(t) \/ Worker(t)
  PROVE  Committed' /\ KeysOnlyWhileOpen'
  <1> USE DEF KeysInv, Typed, TypeOK
  <1>1. pc[t] \in {"wait", "run", "in"}
    BY DEF Begin, Worker, Enter, Leave, LeaveUnlock, SyncEnds, ReadState, MoveAside, Made
  <1>2. /\ UNCHANGED <<op, fn, fresh, store, tier1, autofill_conn, wipe_after>>
        /\ pc'[t] \in {"run", "in", "ret"}
        /\ \A u \in Task \ {t} : pc'[u] = pc[u] /\ obj'[u] = obj[u] /\ res'[u] = res[u]
    <2> USE DEF notWorker, WorkerDone, openVars, storeVars, taskVars
    <2>1. CASE Begin(t)
      BY <2>1 DEF Begin
    <2>2. CASE Enter(t)
      BY <2>2 DEF Enter
    <2>3. CASE Leave(t)
      BY <2>3 DEF Leave
    <2>4. CASE LeaveUnlock(t)
      BY <2>4 DEF LeaveUnlock
    <2>5. CASE SyncEnds(t)
      BY <2>5 DEF SyncEnds
    <2>6. CASE ReadState(t)
      BY <2>6 DEF ReadState
    <2>7. CASE MoveAside(t)
      BY <2>7 DEF MoveAside
    <2>8. CASE Made(t)
      BY <2>8 DEF Made
    <2> QED
      BY <2>1, <2>2, <2>3, <2>4, <2>5, <2>6, <2>7, <2>8 DEF Worker
  <1>3. Committed'
    BY <1>1, <1>2 DEF Committed
  <1>4. Opening => Opening'
    BY <1>1, <1>2 DEF Opening
  <1>5. store \in keys' => store \in keys \/ Opening'
    <2> USE DEF notWorker, WorkerDone, storeVars
    <2>1. CASE LeaveUnlock(t)
      BY <1>2, <2>1 DEF LeaveUnlock, Opening
    <2>2. CASE Made(t)
      BY <2>2 DEF Made, Unreferenced
    <2>3. CASE ~LeaveUnlock(t) /\ ~Made(t)
      BY <2>3 DEF Begin, Worker, Enter, Leave, KeysOnLeaving, SyncEnds, ReadState, MoveAside
    <2> QED
      BY <2>1, <2>2, <2>3
  <1> QED
    BY <1>2, <1>3, <1>4, <1>5 DEF KeysOnlyWhileOpen, Open

\* A request starts from rest, so it takes no reason away.
LEMMA RequestKeys ==
  ASSUME KeysInv, NEW t \in Task, Request(t)
  PROVE  Committed' /\ KeysOnlyWhileOpen'
  <1> USE DEF KeysInv, Typed, TypeOK
  <1>1. /\ op[t] = "none"
        /\ UNCHANGED <<store, keys, wipe_after, tier1, autofill_conn>>
        /\ \A u \in Task \ {t} : /\ pc'[u] = pc[u] /\ obj'[u] = obj[u] /\ res'[u] = res[u]
                                 /\ fn'[u] = fn[u] /\ op'[u] = op[u]
                                 /\ u \in fresh => u \in fresh'
        /\ op'[t] # "none"
        /\ pc'[t] = "ask" => fn'[t] = fn[t]
        /\ pc'[t] \in {"ask", "run", "wait"}
    <2> USE DEF StartsWith, StartsAsking, CallIn, SessionKept, openVars, storeVars, Requested
    <2>1. \A o \in Ops[t] : o # "none"
      BY OpsAssumption DEF Op, WindowOp, BrowserOp
    <2>2. CASE UnlockStarts(t)
      BY <2>1, <2>2 DEF UnlockStarts
    <2>3. CASE ReadStarts(t)
      BY <2>1, <2>3 DEF ReadStarts
    <2>4. CASE QueryStarts(t)
      BY <2>1, <2>4 DEF QueryStarts
    <2>5. CASE NamedStarts(t)
      BY <2>1, <2>5 DEF NamedStarts
    <2>6. CASE NamesStarts(t)
      BY <2>1, <2>6 DEF NamesStarts
    <2>7. CASE ReplaceStarts(t)
      BY <2>1, <2>7 DEF ReplaceStarts
    <2>8. CASE SyncStarts(t)
      BY <2>1, <2>8 DEF SyncStarts
    <2> QED
      BY <2>2, <2>3, <2>4, <2>5, <2>6, <2>7, <2>8 DEF Request
  <1>2. Committed'
    BY <1>1 DEF Committed
  <1>3. Opening => Opening'
    BY <1>1 DEF Opening, Committed, Waiting
  <1> QED
    BY <1>1, <1>2, <1>3 DEF KeysOnlyWhileOpen, Open

\* An approved dialog leads to a call, or to a lock; its task justified no keys.
LEMMA DialogKeys ==
  ASSUME KeysInv, NEW t \in Task, Dialog(t)
  PROVE  Committed' /\ KeysOnlyWhileOpen'
  <1> USE DEF KeysInv, Typed, TypeOK
  <1>1. pc[t] = "ask"
    BY DEF Dialog, DialogRefused, UnlockApproved, NamesApproved, NamedApproved, FillApproved,
           ResetApproved, MigrateApproved, Approved
  <1>2. UNCHANGED store
    BY DEF Dialog, DialogRefused, UnlockApproved, NamesApproved, NamedApproved, FillApproved,
           ResetApproved, MigrateApproved, GoesOnWith, storeVars
  <1>3. /\ \A u \in Task \ {t} : /\ pc'[u] = pc[u] /\ obj'[u] = obj[u] /\ res'[u] = res[u]
                                 /\ fn'[u] = fn[u] /\ op'[u] = op[u]
        /\ \/ op'[t] = "none" /\ pc'[t] = "idle" /\ fn'[t] = "none"
           \/ op'[t] = op[t] /\ pc'[t] \in {"run", "wait"}
    BY DEF Dialog, DialogRefused, UnlockApproved, NamesApproved, NamedApproved, FillApproved,
           ResetApproved, MigrateApproved, GoesOnWith, CallIn, Rest, RestUnder
  <1>4. Committed'
    BY <1>1, <1>3 DEF Committed, Waiting
  <1>5. CASE \E f \in Call : GoesOnWith(t, f)
    <2>1. /\ UNCHANGED <<keys, wipe_after, tier1, autofill_conn>>
          /\ \A u \in Task \ {t} : u \in fresh => u \in fresh'
      BY <1>5 DEF GoesOnWith, SessionKept, openVars, Rest, RestUnder
    <2>2. Opening => Opening'
      BY <1>1, <1>2, <1>3, <2>1 DEF Opening, Committed, Waiting
    <2> QED
      BY <1>2, <1>4, <2>1, <2>2 DEF KeysOnlyWhileOpen, Open
  <1>6. CASE DialogRefused(t)
    <2>1. /\ UNCHANGED <<keys, wipe_after, tier1, autofill_conn>>
          /\ \A u \in Task \ {t} : u \in fresh => u \in fresh'
      BY <1>6 DEF DialogRefused, SessionKept, openVars, Rest, RestUnder
    <2>2. Opening => Opening'
      BY <1>1, <1>2, <1>3, <2>1 DEF Opening, Committed, Waiting
    <2> QED
      BY <1>2, <1>4, <2>1, <2>2 DEF KeysOnlyWhileOpen, Open
  <1>7. CASE CloseStore
    BY <1>2, <1>4, <1>7, CloseStoreWipes DEF KeysOnlyWhileOpen
  <1>8. CloseStore \/ DialogRefused(t) \/ \E f \in Call : GoesOnWith(t, f)
    <2>1. {"unlock", "list_meta", "rematch", "recheck", "create", "reset"} \subseteq Call
      BY DEF Call
    <2>2. CASE MigrateApproved(t)
      BY <2>1, <2>2 DEF MigrateApproved
    <2>3. CASE ~MigrateApproved(t)
      BY <2>1, <2>3 DEF Dialog, UnlockApproved, NamesApproved, NamedApproved, FillApproved,
                        ResetApproved
    <2> QED
      BY <2>2, <2>3
  <1> QED
    BY <1>5, <1>6, <1>7, <1>8

\* A returning call justified the keys only if it was an unlock, or one before open_tier1; the
\* handler then opens the store, goes on to the next such call, or wipes the keys.
LEMMA ReturnKeys ==
  ASSUME KeysInv, NEW t \in Task, Return(t)
  PROVE  Committed' /\ KeysOnlyWhileOpen'
  <1> USE DEF KeysInv, Typed, TypeOK
  <1>1. Returning(t) /\ op[t] # "none" /\ UNCHANGED disk
    BY DEF Return, Back, StateReturns, UnlockReturns, TpmReturns, NamesReturns, ListReturns, StatusReturns,
           MetaReturns, EntryReturns, SyncReturns, RecheckReturns, MakeReturns, SaveReturns, storeVars
  <1>2. /\ \A u \in Task \ {t} : /\ pc'[u] = pc[u] /\ obj'[u] = obj[u] /\ res'[u] = res[u]
                                 /\ fn'[u] = fn[u] /\ op'[u] = op[u]
        /\ \/ op'[t] = "none" /\ pc'[t] = "idle" /\ fn'[t] = "none"
           \/ op'[t] = op[t] /\ pc'[t] \in {"run", "wait"}
           \/ op'[t] = op[t] /\ pc'[t] = "ask" /\ fn'[t] = fn[t] /\ fn[t] \in {"state", "get_meta"}
    <2>1. ASSUME Ends(t) \/ (\E f \in Call, o \in Store : Then(t, f, o))
                   \/ (CallIn(Tail(store_lock), t, "reset", store, {}) /\ UNCHANGED op)
                   \/ (Asks(t) /\ fn[t] \in {"state", "get_meta"})
          PROVE  <1>2
      BY <2>1 DEF Ends, Rest, RestUnder, Then, CallIn, Asks
    <2>2. {"tpm_move_state", "list_meta", "status", "get_meta", "open_entry", "sync",
           "save_settings"} \subseteq Call /\ store \in Store
      BY DEF Call
    <2>3. fn[t] \in Replaces /\ res[t] = "ok" => obj[t] \in Store
      BY DEF Bound
    <2>4. CASE MakeReturns(t)
      BY <2>1, <2>2, <2>3, <2>4 DEF MakeReturns, Back, Adopts
    <2>5. CASE StateReturns(t)
      BY <2>1, <2>2, <2>5 DEF StateReturns, Back
    <2>6. CASE UnlockReturns(t) \/ TpmReturns(t) \/ NamesReturns(t) \/ SyncReturns(t)
      BY <2>1, <2>2, <2>6 DEF UnlockReturns, TpmReturns, NamesReturns, SyncReturns
    <2>7. CASE ListReturns(t) \/ MetaReturns(t)
      BY <2>1, <2>2, <2>7 DEF ListReturns, MetaReturns, Back
    <2>8. CASE StatusReturns(t) \/ EntryReturns(t) \/ SaveReturns(t) \/ RecheckReturns(t)
      BY <2>1, <2>8 DEF StatusReturns, EntryReturns, SaveReturns, RecheckReturns
    <2> QED
      BY <2>4, <2>5, <2>6, <2>7, <2>8 DEF Return
  <1>3. Committed'
    BY <1>1, <1>2 DEF Committed, Waiting, Returning
  <1> SUFFICES KeysOnlyWhileOpen'
    BY <1>3
  \* With the keys settled and t no reason for them, nothing is lost.
  <1>4. ASSUME Settle(t), UNCHANGED <<store, tier1, autofill_conn>>, fn[t] # "unlock" \/ res[t] # "ok",
               fn[t] \notin Waiting, \A u \in Task \ {t} : u \in fresh => u \in fresh'
        PROVE  KeysOnlyWhileOpen'
    <2>1. store \in keys' => store \in keys /\ ~wipe_after
      BY <1>4 DEF Settle, KeysAfter, Wipes
    <2>2. Opening => Opening'
      BY <1>2, <1>4 DEF Opening, Waiting
    <2> QED
      BY <1>4, <2>1, <2>2 DEF KeysOnlyWhileOpen, Open
  <1>5. ASSUME SettleAndWipe(t), UNCHANGED store PROVE KeysOnlyWhileOpen'
    BY <1>5 DEF SettleAndWipe, KeysOnlyWhileOpen
  <1>6. Ends(t) => \A u \in Task \ {t} : u \in fresh => u \in fresh'
    BY DEF Ends, Rest, RestUnder
  <1>11. CASE StateReturns(t)
    BY <1>4, <1>6, <1>11 DEF StateReturns, Back, Asks, Waiting, openVars, storeVars
  <1>12. CASE UnlockReturns(t)
    <2>1. CASE res[t] # "ok"
      BY <1>4, <1>6, <1>12, <2>1 DEF UnlockReturns, Back, Waiting, openVars, storeVars
    <2>2. CASE res[t] = "ok" /\ NotLockedMeanwhile(t) /\ ui = Owner[t]
      <3>1. fn'[t] = "tpm_move_state" /\ t \in fresh'
        BY <1>12, <2>2 DEF UnlockReturns, Then, CallIn, NotLockedMeanwhile
      <3> QED
        BY <3>1 DEF KeysOnlyWhileOpen, Opening
    <2>3. CASE res[t] = "ok" /\ ~(NotLockedMeanwhile(t) /\ ui = Owner[t])
      BY <1>5, <1>12, <2>3 DEF UnlockReturns, storeVars
    <2> QED
      BY <2>1, <2>2, <2>3
  <1>13. CASE TpmReturns(t)
    <2>1. CASE NotLockedMeanwhile(t)
      <3>1. tier1' # NoConn
        BY <1>13, <2>1, NoConnAssumption DEF TpmReturns, NotLockedMeanwhile, Closed, Live
      <3> QED
        BY <3>1 DEF KeysOnlyWhileOpen, Open
    <2>2. CASE ~NotLockedMeanwhile(t)
      BY <1>5, <1>13, <2>2 DEF TpmReturns, storeVars
    <2> QED
      BY <2>1, <2>2
  <1>14. CASE NamesReturns(t)
    <2>1. CASE res[t] # "ok"
      BY <1>4, <1>6, <1>14, <2>1 DEF NamesReturns, Back, Waiting, openVars, storeVars
    <2>2. CASE res[t] = "ok" /\ NotLockedMeanwhile(t)
      <3>1. autofill_conn' # NoConn
        BY <1>14, <2>2, NoConnAssumption DEF NamesReturns, NotLockedMeanwhile, Closed, Live
      <3> QED
        BY <3>1 DEF KeysOnlyWhileOpen, Open
    <2>3. CASE res[t] = "ok" /\ ~NotLockedMeanwhile(t)
      BY <1>5, <1>14, <2>3 DEF NamesReturns, storeVars
    <2> QED
      BY <2>1, <2>2, <2>3
  <1>15. CASE ListReturns(t)
    BY <1>4, <1>6, <1>15 DEF ListReturns, Back, Waiting, openVars, storeVars
  <1>16. CASE StatusReturns(t) \/ EntryReturns(t)
    BY <1>4, <1>6, <1>16 DEF StatusReturns, EntryReturns, Back, Waiting, openVars, storeVars
  <1>21. CASE MetaReturns(t)
    BY <1>4, <1>6, <1>21 DEF MetaReturns, Back, Asks, Waiting, openVars, storeVars
  <1>17. CASE SyncReturns(t)
    BY <1>4, <1>6, <1>17 DEF SyncReturns, Back, Waiting, openVars, storeVars
  <1>18. CASE RecheckReturns(t)
    BY <1>4, <1>5, <1>6, <1>18 DEF RecheckReturns, Back, Waiting, openVars, storeVars
  <1>19. CASE MakeReturns(t)
    <2>1. CASE ~Adopts(t)
      BY <1>4, <1>6, <1>19, <2>1 DEF MakeReturns, Back, Waiting, Replaces, openVars
    <2>2. CASE Adopts(t) /\ NotLockedSince(t)
      <3>1. fn'[t] = "save_settings" /\ t \in fresh'
        BY <1>19, <2>2 DEF MakeReturns, Then, CallIn, NotLockedSince, NotLockedMeanwhile
      <3> QED
        BY <3>1 DEF KeysOnlyWhileOpen, Opening
    <2>3. CASE Adopts(t) /\ ~NotLockedSince(t)
      BY <1>19, <2>3 DEF MakeReturns, KeysOnlyWhileOpen
    <2> QED
      BY <2>1, <2>2, <2>3
  <1>20. CASE SaveReturns(t)
    <2>1. CASE NotLockedSince(t)
      <3>1. tier1' # NoConn
        BY <1>20, <2>1, NoConnAssumption
           DEF SaveReturns, NotLockedSince, NotLockedMeanwhile, Closed, Live
      <3> QED
        BY <3>1 DEF KeysOnlyWhileOpen, Open
    <2>2. CASE ~NotLockedSince(t)
      BY <1>5, <1>20, <2>2 DEF SaveReturns, storeVars
    <2> QED
      BY <2>1, <2>2
  <1> QED
    BY <1>11, <1>12, <1>13, <1>14, <1>15, <1>16, <1>17, <1>18, <1>19, <1>20, <1>21
       DEF Return

LEMMA NextKeys == KeysInv /\ [Next]_vars => KeysInv'
  <1> SUFFICES ASSUME KeysInv, [Next]_vars PROVE Committed' /\ KeysOnlyWhileOpen'
    BY NextTyped DEF KeysInv
  <1>1. CASE UNCHANGED vars
    BY <1>1 DEF KeysInv, Committed, KeysOnlyWhileOpen, Open, Opening, vars, openVars, storeVars,
                taskVars
  <1>2. CASE Next
    BY <1>2, LockKeys, ConnectionKeys, RequestKeys, DialogKeys, WorkerKeys, ReturnKeys DEF Next
  <1> QED
    BY <1>1, <1>2

\* Whatever lock, hang-up or timer lands between the steps of whatever handlers, the store's
\* keys are in memory only while it is open, about to be opened by a handler that saw no lock,
\* or while a lock waits for the running call to return (Registry.lock, Registry.run_store).
THEOREM StoreKeysOnlyWhileOpen == Spec => []KeysOnlyWhileOpen
  <1>1. KeysInv => KeysOnlyWhileOpen
    BY DEF KeysInv
  <1> QED
    BY <1>1, InitKeys, NextKeys, PTL DEF Spec

-----------------------------------------------------------------------------
(***************************************************************************)
(* ReadsAreCurrent and NewStoreIsAwaited.  What a query lacks, an epoch of *)
(* its own to compare, the queue on store_lock makes up for: whoever opens *)
(* the store saw no lock since it joined the queue, so nobody behind it    *)
(* did either (InOrder), and those a lock did hit find the store closed    *)
(* until they are through (LockedOut, LockedRun).                          *)
(***************************************************************************)

InQueue(t) == pc[t] \in {"wait", "run", "in", "ret"}

\* store_lock holds the tasks in a call, and only its head has begun.
Queued ==
  /\ \A t \in Task : InQueue(t) => \E j \in 1..Len(store_lock) : store_lock[j] = t
  /\ \A j \in 1..Len(store_lock) : InQueue(store_lock[j]) /\ (j > 1 => pc[store_lock[j]] = "wait")
  /\ \A i, j \in 1..Len(store_lock) : store_lock[i] = store_lock[j] => i = j

\* A lock since a task joined the queue is one since those ahead of it did.
InOrder ==
  \A i, j \in 1..Len(store_lock) :
    i < j /\ fn[store_lock[j]] = "list_meta" /\ store_lock[i] \in fresh => store_lock[j] \in fresh

\* A read a lock has hit finds the store closed, to the end of its call.
LockedOut == \A t \in Task : InQueue(t) /\ fn[t] = "list_meta" /\ t \notin fresh => ~Open
LockedRun == \A t \in Task : Running(t) /\ t \notin jfresh => ~Open

\* A lock waits for every create() and reset() it met.
AwaitsNew == \A t \in Task : Running(t) /\ fn[t] \in Replaces /\ t \notin jfresh => wipe_after

Queue == Queued /\ InOrder

QueueInv == KeysInv /\ Queue /\ LockedOut /\ LockedRun /\ AwaitsNew

\* A task's epoch is captured or dropped; the others' is kept, or all are outdated by a lock.
KeepsEpochs(t) == fresh' \ {t} = fresh \ {t} \/ (fresh' \subseteq {t} /\ ~Open')

\* The other tasks stay where they are.
OthersStay(t) == \A u \in Task \ {t} : pc'[u] = pc[u] /\ fn'[u] = fn[u]

LEMMA InitQueue == Init => QueueInv
  <1>1. Init => Queue /\ LockedOut /\ LockedRun /\ AwaitsNew
    BY DEF Init, Queue, Queued, InOrder, LockedOut, LockedRun, AwaitsNew, InQueue, Running, Open
  <1> QED
    BY <1>1, InitKeys DEF QueueInv

\* A running task is the queue's head.
LEMMA RunnerOwns ==
  ASSUME Typed, Queued, NEW t \in Task, Running(t) PROVE Owns(t)
  BY DEF Typed, TypeOK, Queued, InQueue, Running, Owns

-----------------------------------------------------------------------------
(* The four ways a step can change the queue *)

LEMMA AppendElements ==
  ASSUME NEW S, NEW q \in Seq(S), NEW e \in S
  PROVE  /\ Append(q, e) \in Seq(S) /\ Len(Append(q, e)) = Len(q) + 1
         /\ Append(q, e)[Len(q) + 1] = e
         /\ \A j \in 1..Len(q) : Append(q, e)[j] = q[j]
         /\ Len(q) \in Nat /\ (q = << >> <=> Len(q) = 0)
         /\ \A j \in 1..Len(q) : q[j] \in S
  OBVIOUS

LEMMA TailElements ==
  ASSUME NEW S, NEW q \in Seq(S), q # << >>
  PROVE  /\ Tail(q) \in Seq(S) /\ Len(Tail(q)) = Len(q) - 1
         /\ \A j \in 1..(Len(q) - 1) : Tail(q)[j] = q[j + 1]
         /\ Head(q) = q[1]
         /\ Len(q) \in Nat \ {0}
         /\ \A j \in 1..Len(q) : q[j] \in S
  OBVIOUS

\* The queue stays; one task may go on in its place, or stay out of the queue.
LEMMA QueueStays ==
  ASSUME Typed, Queue, NEW t \in Task, OthersStay(t), UNCHANGED store_lock, KeepsEpochs(t),
         \/ InQueue(t) /\ InQueue(t)' /\ Owns(t) /\ fn'[t] = fn[t] /\ UNCHANGED fresh
         \/ ~InQueue(t) /\ ~InQueue(t)'
  PROVE  Queue'
  <1>1. store_lock \in Seq(Task)
    BY DEF Typed, TypeOK
  <1>2. Len(store_lock) \in Nat /\ \A j \in 1..Len(store_lock) : store_lock[j] \in Task
    BY <1>1
  <1>4. ASSUME NEW u \in Task, u # t PROVE (InQueue(u)' <=> InQueue(u)) /\ pc'[u] = pc[u] /\ fn'[u] = fn[u]
    BY <1>4 DEF OthersStay, InQueue
  <1>5. CASE ~InQueue(t) /\ ~InQueue(t)'
    <2>1. \A j \in 1..Len(store_lock) : store_lock[j] \in Task \ {t}
      BY <1>2, <1>5 DEF Queue, Queued
    <2>2. Queued'
      BY <1>4, <1>5, <2>1 DEF Queue, Queued
    <2>3. InOrder'
      BY <1>4, <2>1 DEF Queue, InOrder, KeepsEpochs
    <2> QED
      BY <2>2, <2>3 DEF Queue
  <1>6. CASE InQueue(t) /\ InQueue(t)' /\ Owns(t) /\ fn'[t] = fn[t] /\ UNCHANGED fresh
    <2>1. t = store_lock[1] /\ Len(store_lock) >= 1
      BY <1>1, <1>6, TailElements DEF Owns
    <2>2. \A j \in 2..Len(store_lock) : store_lock[j] \in Task \ {t}
      BY <1>2, <2>1 DEF Queue, Queued
    <2>3. \A u \in Task : (InQueue(u)' <=> InQueue(u)) /\ fn'[u] = fn[u]
      BY <1>4, <1>6
    <2>4. Queued'
      BY <1>2, <1>4, <2>2, <2>3 DEF Queue, Queued
    <2>5. InOrder'
      BY <1>2, <1>6, <2>3 DEF Queue, InOrder
    <2> QED
      BY <2>4, <2>5 DEF Queue
  <1> QED
    BY <1>5, <1>6

\* A task joins it.
LEMMA QueueJoined ==
  ASSUME Typed, Queue, NEW t \in Task, OthersStay(t), KeepsEpochs(t),
         store_lock' = Append(store_lock, t), ~InQueue(t),
         pc'[t] = IF store_lock = << >> THEN "run" ELSE "wait",
         fn'[t] = "list_meta" => t \in fresh'
  PROVE  Queue'
  <1> DEFINE n == Len(store_lock)
  <1>1. /\ n \in Nat /\ (store_lock = << >> <=> n = 0)
        /\ Len(store_lock') = n + 1
        /\ store_lock'[n + 1] = t
        /\ \A j \in 1..n : store_lock'[j] = store_lock[j]
        /\ \A j \in 1..n : store_lock[j] \in Task
    BY AppendElements DEF Typed, TypeOK
  <1>2. \A j \in 1..n : store_lock[j] # t
    BY DEF Queue, Queued
  <1>3. \A u \in Task \ {t} : (InQueue(u)' <=> InQueue(u)) /\ pc'[u] = pc[u] /\ fn'[u] = fn[u]
    BY DEF OthersStay, InQueue
  <1> HIDE DEF n
  <1>4. \A u \in Task : InQueue(u)' => \E j \in 1..(n + 1) : store_lock'[j] = u
    BY <1>1, <1>3 DEF Queue, Queued, n
  <1>5. \A j \in 1..(n + 1) : InQueue(store_lock[j])' /\ (j > 1 => pc'[store_lock'[j]] = "wait")
    <2>1. InQueue(t)' /\ (n + 1 > 1 => pc'[t] = "wait")
      BY <1>1 DEF InQueue
    <2> QED
      BY <1>1, <1>2, <1>3, <2>1 DEF Queue, Queued, n
  <1>6. \A i, j \in 1..(n + 1) : store_lock'[i] = store_lock'[j] => i = j
    BY <1>1, <1>2 DEF Queue, Queued, n
  <1>7. InOrder'
    <2> SUFFICES ASSUME NEW i \in 1..(n + 1), NEW j \in 1..(n + 1), i < j,
                        fn'[store_lock'[j]] = "list_meta", store_lock'[i] \in fresh'
                 PROVE  store_lock'[j] \in fresh'
      BY <1>1 DEF InOrder
    <2>1. CASE j = n + 1
      BY <1>1, <2>1
    <2>2. CASE j # n + 1
      <3>1. i \in 1..n /\ j \in 1..n
        BY <1>1, <2>2
      <3> QED
        BY <1>1, <1>2, <1>3, <3>1 DEF Queue, InOrder, KeepsEpochs, n
    <2> QED
      BY <2>1, <2>2
  <1> QED
    BY <1>1, <1>4, <1>5, <1>6, <1>7 DEF Queue, Queued

\* What is behind the head of the queue, when the head's call returns.
LEMMA QueueBehind ==
  ASSUME Typed, Queue, NEW t \in Task, OthersStay(t), Returning(t)
  PROVE  /\ Len(store_lock) \in Nat \ {0} /\ store_lock[1] = t
         /\ Tail(store_lock) \in Seq(Task) /\ Len(Tail(store_lock)) = Len(store_lock) - 1
         /\ \A j \in 1..(Len(store_lock) - 1) : Tail(store_lock)[j] = store_lock[j + 1]
         /\ \A j \in 2..Len(store_lock) :
              /\ store_lock[j] \in Task \ {t}
              /\ InQueue(store_lock[j]) /\ pc[store_lock[j]] = "wait"
              /\ pc'[store_lock[j]] = "wait" /\ fn'[store_lock[j]] = fn[store_lock[j]]
         /\ \A u \in Task \ {t} : InQueue(u)' => \E j \in 2..Len(store_lock) : store_lock[j] = u
  <1>1. /\ Len(store_lock) \in Nat \ {0} /\ store_lock[1] = t
        /\ Tail(store_lock) \in Seq(Task) /\ Len(Tail(store_lock)) = Len(store_lock) - 1
        /\ \A j \in 1..(Len(store_lock) - 1) : Tail(store_lock)[j] = store_lock[j + 1]
        /\ \A j \in 1..Len(store_lock) : store_lock[j] \in Task
    BY TailElements DEF Typed, TypeOK, Returning, Owns
  <1>2. \A j \in 2..Len(store_lock) : /\ store_lock[j] \in Task \ {t}
                                      /\ InQueue(store_lock[j]) /\ pc[store_lock[j]] = "wait"
    BY <1>1 DEF Queue, Queued
  <1>3. \A u \in Task \ {t} : (InQueue(u)' <=> InQueue(u)) /\ pc'[u] = pc[u] /\ fn'[u] = fn[u]
    BY DEF OthersStay, InQueue
  <1>4. \A u \in Task \ {t} : InQueue(u) => \E j \in 2..Len(store_lock) : store_lock[j] = u
    BY <1>1 DEF Queue, Queued
  <1> QED
    BY <1>1, <1>2, <1>3, <1>4

\* Its head leaves it.
LEMMA QueueLeft ==
  ASSUME Typed, Queue, NEW t \in Task, OthersStay(t), KeepsEpochs(t),
         Returning(t), store_lock' = Tail(store_lock), ~InQueue(t)'
  PROVE  Queue' /\ \A u \in Task : ~Running(u)'
  <1> DEFINE n == Len(store_lock)
  <1>1. /\ n \in Nat \ {0} /\ Len(store_lock') = n - 1
        /\ \A j \in 1..(n - 1) : store_lock'[j] = store_lock[j + 1]
        /\ \A j \in 2..n : /\ store_lock[j] \in Task \ {t}
                           /\ InQueue(store_lock[j]) /\ pc'[store_lock[j]] = "wait"
                           /\ fn'[store_lock[j]] = fn[store_lock[j]]
        /\ \A u \in Task \ {t} : InQueue(u)' => \E j \in 2..n : store_lock[j] = u
    BY QueueBehind
  <1>2. \A i, j \in 1..n : store_lock[i] = store_lock[j] => i = j
    BY DEF Queue, Queued
  <1>3. \A i, j \in 1..n :
          i < j /\ fn[store_lock[j]] = "list_meta" /\ store_lock[i] \in fresh => store_lock[j] \in fresh
    BY DEF Queue, InOrder
  <1> HIDE DEF n
  <1>4. \A u \in Task : InQueue(u)' => \E j \in 1..(n - 1) : store_lock'[j] = u
    <2> SUFFICES ASSUME NEW u \in Task \ {t}, InQueue(u)'
                 PROVE  \E j \in 1..(n - 1) : store_lock'[j] = u
      OBVIOUS
    <2>1. PICK k \in 2..n : store_lock[k] = u
      BY <1>1
    <2>2. k - 1 \in 1..(n - 1) /\ store_lock'[k - 1] = u
      BY <1>1, <2>1
    <2> QED
      BY <2>2
  <1>5. \A j \in 1..(n - 1) : pc'[store_lock'[j]] = "wait" /\ store_lock'[j] \in Task \ {t}
    BY <1>1
  <1>6. Queued'
    BY <1>1, <1>2, <1>4, <1>5 DEF Queued, InQueue
  <1>7. InOrder'
    <2> SUFFICES ASSUME NEW i \in 1..(n - 1), NEW j \in 1..(n - 1), i < j,
                        fn'[store_lock'[j]] = "list_meta", store_lock'[i] \in fresh'
                 PROVE  store_lock'[j] \in fresh'
      BY <1>1 DEF InOrder
    <2>1. i + 1 \in 2..n /\ j + 1 \in 2..n /\ i + 1 \in 1..n /\ j + 1 \in 1..n /\ i + 1 < j + 1
      BY <1>1
    <2>2. store_lock'[i] = store_lock[i + 1] /\ store_lock'[j] = store_lock[j + 1]
      BY <1>1
    <2>3. fn[store_lock[j + 1]] = "list_meta" /\ store_lock[i + 1] \in fresh
      BY <1>1, <2>1, <2>2 DEF KeepsEpochs
    <2>4. store_lock[j + 1] \in fresh
      BY <1>3, <2>1, <2>3
    <2> QED
      BY <1>1, <2>1, <2>2, <2>4 DEF KeepsEpochs
  <1>8. \A u \in Task : ~Running(u)'
    BY <1>4, <1>5 DEF Running, InQueue
  <1> QED
    BY <1>6, <1>7, <1>8 DEF Queue

\* Its head leaves it and joins it again.
LEMMA QueueRejoined ==
  ASSUME Typed, Queue, NEW t \in Task, OthersStay(t), KeepsEpochs(t),
         Returning(t), store_lock' = Append(Tail(store_lock), t),
         pc'[t] = IF Tail(store_lock) = << >> THEN "run" ELSE "wait",
         fn'[t] = "list_meta" => t \in fresh'
  PROVE  /\ Queue'
         /\ \A u \in Task : Running(u)' => u = t /\ Tail(store_lock) = << >>
  <1> DEFINE n == Len(store_lock)
  <1>1. /\ n \in Nat \ {0}
        /\ Tail(store_lock) \in Seq(Task) /\ Len(Tail(store_lock)) = n - 1
        /\ \A j \in 1..(n - 1) : Tail(store_lock)[j] = store_lock[j + 1]
        /\ \A j \in 2..n : /\ store_lock[j] \in Task \ {t}
                           /\ InQueue(store_lock[j]) /\ pc'[store_lock[j]] = "wait"
                           /\ fn'[store_lock[j]] = fn[store_lock[j]]
        /\ \A u \in Task \ {t} : InQueue(u)' => \E j \in 2..n : store_lock[j] = u
    BY QueueBehind
  <1>2. /\ Len(store_lock') = n /\ store_lock'[n] = t
        /\ (Tail(store_lock) = << >> <=> n = 1)
        /\ \A j \in 1..(n - 1) : store_lock'[j] = Tail(store_lock)[j]
    <2> DEFINE q == Tail(store_lock)
    <2>1. q \in Seq(Task) /\ Len(q) = n - 1 /\ store_lock' = Append(q, t)
      BY <1>1
    <2> HIDE DEF n, q
    <2>2. /\ Len(Append(q, t)) = Len(q) + 1 /\ Append(q, t)[Len(q) + 1] = t
          /\ (q = << >> <=> Len(q) = 0)
          /\ \A j \in 1..Len(q) : Append(q, t)[j] = q[j]
      <3>1. q \in Seq(Task)
        BY <2>1
      <3> QED
        BY ONLY <3>1, t \in Task, AppendElements
    <2>3. Len(store_lock') = n /\ store_lock'[n] = t /\ (q = << >> <=> n = 1)
      BY <1>1, <2>1, <2>2
    <2> QED
      BY <2>1, <2>2, <2>3 DEF q
  <1>3. \A i, j \in 1..n : store_lock[i] = store_lock[j] => i = j
    BY DEF Queue, Queued
  <1>4. \A i, j \in 1..n :
          i < j /\ fn[store_lock[j]] = "list_meta" /\ store_lock[i] \in fresh => store_lock[j] \in fresh
    BY DEF Queue, InOrder
  <1> HIDE DEF n
  <1>5. \A j \in 1..(n - 1) : /\ store_lock'[j] = store_lock[j + 1] /\ j + 1 \in 2..n
                              /\ pc'[store_lock'[j]] = "wait" /\ store_lock'[j] \in Task \ {t}
    <2> SUFFICES ASSUME NEW j \in 1..(n - 1)
                 PROVE  /\ store_lock'[j] = store_lock[j + 1] /\ j + 1 \in 2..n
                        /\ pc'[store_lock'[j]] = "wait" /\ store_lock'[j] \in Task \ {t}
      OBVIOUS
    <2>1. store_lock'[j] = store_lock[j + 1]
      BY <1>1, <1>2
    <2>2. j + 1 \in 2..n
      BY <1>1
    <2> QED
      BY <1>1, <2>1, <2>2
  <1>6. \A u \in Task : InQueue(u)' => \E j \in 1..n : store_lock'[j] = u
    <2>1. ASSUME NEW u \in Task \ {t}, InQueue(u)' PROVE \E j \in 1..n : store_lock'[j] = u
      <3>1. PICK k \in 2..n : store_lock[k] = u
        BY <1>1, <2>1
      <3>2. k - 1 \in 1..n /\ k - 1 \in 1..(n - 1) /\ store_lock'[k - 1] = u
        BY <1>1, <1>2, <3>1
      <3> QED
        BY <3>2
    <2>2. n \in 1..n
      BY <1>1
    <2> QED
      BY <1>2, <2>1, <2>2
  <1>7. pc'[t] \in {"run", "wait"} /\ (n > 1 => pc'[t] = "wait")
    BY <1>1, <1>2
  <1>8. \A j \in 1..n : j \in 1..(n - 1) \/ j = n
    BY <1>1
  <1>9. Queued'
    <2>1. \A j \in 1..n : InQueue(store_lock[j])' /\ (j > 1 => pc'[store_lock'[j]] = "wait")
      BY <1>1, <1>2, <1>5, <1>7, <1>8 DEF InQueue
    <2>2. \A i, j \in 1..n : store_lock'[i] = store_lock'[j] => i = j
      BY <1>1, <1>2, <1>3, <1>5, <1>8
    <2> QED
      BY <1>2, <1>6, <2>1, <2>2 DEF Queued
  <1>10. InOrder'
    <2> SUFFICES ASSUME NEW i \in 1..n, NEW j \in 1..n, i < j,
                        fn'[store_lock'[j]] = "list_meta", store_lock'[i] \in fresh'
                 PROVE  store_lock'[j] \in fresh'
      BY <1>2 DEF InOrder
    <2>1. CASE j = n
      BY <1>2, <2>1
    <2>2. CASE j # n
      <3>1. i \in 1..(n - 1) /\ j \in 1..(n - 1) /\ i + 1 < j + 1
        BY <1>1, <2>2
      <3>2. i + 1 \in 1..n /\ j + 1 \in 1..n /\ i + 1 \in 2..n /\ j + 1 \in 2..n
        BY <1>1, <3>1
      <3>3. store_lock'[i] = store_lock[i + 1] /\ store_lock'[j] = store_lock[j + 1]
        BY <1>5, <3>1
      <3>4. fn[store_lock[j + 1]] = "list_meta" /\ store_lock[i + 1] \in fresh
        BY <1>1, <3>2, <3>3 DEF KeepsEpochs
      <3>5. store_lock[j + 1] \in fresh
        BY <1>4, <3>1, <3>2, <3>4
      <3> QED
        BY <1>1, <3>2, <3>3, <3>5 DEF KeepsEpochs
    <2> QED
      BY <2>1, <2>2
  <1>11. \A u \in Task : Running(u)' => u = t /\ n = 1
    <2>1. \A u \in Task : Running(u)' => InQueue(u)' /\ pc'[u] # "wait"
      BY DEF Running, InQueue
    <2>2. ASSUME NEW u \in Task, Running(u)' PROVE u = t
      <3>1. PICK j \in 1..n : store_lock'[j] = u
        BY <1>6, <2>1, <2>2
      <3> QED
        BY <1>2, <1>5, <1>8, <2>1, <2>2, <3>1
    <2>3. Running(t)' => n = 1
      BY <1>1, <1>7, <2>1
    <2> QED
      BY <2>2, <2>3
  <1> QED
    BY <1>2, <1>9, <1>10, <1>11 DEF Queue

-----------------------------------------------------------------------------
(* The steps *)

\* A lock, a timer or a connection: no task moves, and what is given up is closed.
LEMMA AmbientQueue ==
  ASSUME QueueInv, UNCHANGED <<store_lock, pc, taskVars>>,
         \/ UNCHANGED <<tier1, wipe_after, fresh, jfresh>> /\ (Open' => Open)
         \/ LockSession
  PROVE  Queue' /\ LockedOut' /\ LockedRun' /\ AwaitsNew'
  <1> USE DEF QueueInv, KeysInv, taskVars
  <1>1. Queue'
    <2>1. Queued'
      BY DEF Queue, Queued, InQueue
    <2>2. InOrder'
      BY DEF Queue, InOrder, LockSession
    <2> QED
      BY <2>1, <2>2 DEF Queue
  <1>2. CASE UNCHANGED <<tier1, wipe_after, fresh, jfresh>> /\ (Open' => Open)
    BY <1>1, <1>2 DEF LockedOut, LockedRun, AwaitsNew, InQueue, Running
  <1>3. CASE LockSession
    <2>1. ~Open' /\ wipe_after' = WipePending
      BY <1>3 DEF Open, LockSession, CloseStore, WipeStore
    <2> QED
      BY <1>1, <2>1 DEF LockedOut, LockedRun, AwaitsNew, Running, WipePending, replacing
  <1> QED
    BY <1>1, <1>2, <1>3

LEMMA ConnectionQueue ==
  ASSUME QueueInv, NEW c \in Conn,
         HelloWindow(c) \/ HelloReads(c) \/ HelloReply(c) \/ HelloBrowser(c) \/ Close(c) \/ Detach(c)
  PROVE  Queue' /\ LockedOut' /\ LockedRun' /\ AwaitsNew'
  <1> USE DEF lockVars, openVars, Open
  <1>1. UNCHANGED <<store_lock, pc, taskVars>>
    BY DEF HelloWindow, HelloReads, HelloReply, HelloBrowser, Close, Detach
  <1>2. \/ UNCHANGED <<tier1, wipe_after, fresh, jfresh>> /\ (Open' => Open)
        \/ LockSession
    BY DEF HelloWindow, HelloReads, HelloReply, HelloBrowser, Close, Detach
  <1> QED
    BY <1>1, <1>2, AmbientQueue DEF QueueInv, KeysInv

LEMMA LockQueue ==
  ASSUME QueueInv, Lock \/ AutofillExpires \/ AutofillTimeout
  PROVE  Queue' /\ LockedOut' /\ LockedRun' /\ AwaitsNew'
  <1> USE DEF lockVars, openVars, Open
  <1>1. UNCHANGED <<store_lock, pc, taskVars>>
    BY DEF Lock, AutofillExpires, AutofillTimeout
  <1>2. \/ UNCHANGED <<tier1, wipe_after, fresh, jfresh>> /\ (Open' => Open)
        \/ LockSession
    BY DEF Lock, AutofillExpires, AutofillTimeout
  <1> QED
    BY <1>1, <1>2, AmbientQueue DEF QueueInv, KeysInv

\* The worker, and the pool that begins a call: the head of the queue goes on.
LEMMA WorkerMoves ==
  ASSUME Typed, NEW t \in Task, Begin(t) \/ Worker(t)
  PROVE  /\ pc[t] \in {"wait", "run", "in"} /\ pc'[t] \in {"run", "in", "ret"}
         /\ UNCHANGED <<fn, fresh, store_lock, tier1, autofill_conn, wipe_after>>
         /\ \A u \in Task \ {t} : pc'[u] = pc[u]
         /\ (Running(t) /\ UNCHANGED jfresh) \/ (Owns(t) /\ jfresh' = jfresh \cup {t})
  <1> USE DEF notWorker, WorkerDone, openVars, storeVars, taskVars, Typed, TypeOK, Running
  <1>1. CASE Begin(t)
    BY <1>1 DEF Begin
  <1>2. CASE Enter(t)
    BY <1>2 DEF Enter
  <1>3. CASE Leave(t)
    BY <1>3 DEF Leave
  <1>4. CASE LeaveUnlock(t)
    BY <1>4 DEF LeaveUnlock
  <1>5. CASE SyncEnds(t)
    BY <1>5 DEF SyncEnds
  <1>6. CASE ReadState(t)
    BY <1>6 DEF ReadState
  <1>7. CASE MoveAside(t)
    BY <1>7 DEF MoveAside
  <1>8. CASE Made(t)
    BY <1>8 DEF Made
  <1> QED
    BY <1>1, <1>2, <1>3, <1>4, <1>5, <1>6, <1>7, <1>8 DEF Worker

LEMMA WorkerQueue ==
  ASSUME QueueInv, NEW t \in Task, Begin(t) \/ Worker(t)
  PROVE  Queue' /\ LockedOut' /\ LockedRun' /\ AwaitsNew'
  <1> USE DEF QueueInv, KeysInv
  <1>1. /\ pc[t] \in {"wait", "run", "in"} /\ pc'[t] \in {"run", "in", "ret"}
        /\ UNCHANGED <<fn, fresh, store_lock, tier1, autofill_conn, wipe_after>>
        /\ \A u \in Task \ {t} : pc'[u] = pc[u]
        /\ (Running(t) /\ UNCHANGED jfresh) \/ (Owns(t) /\ jfresh' = jfresh \cup {t})
    BY WorkerMoves
  <1>2. Owns(t) /\ InQueue(t) /\ InQueue(t)' /\ OthersStay(t)
    BY <1>1, RunnerOwns DEF InQueue, OthersStay, Queue
  <1>3. Queue'
    BY <1>1, <1>2, QueueStays DEF KeepsEpochs
  <1>4. Open' <=> Open
    BY <1>1 DEF Open
  <1>5. LockedOut' /\ LockedRun' /\ AwaitsNew'
    BY <1>1, <1>2, <1>4 DEF LockedOut, LockedRun, AwaitsNew, Running, InQueue
  <1> QED
    BY <1>3, <1>5

\* A task that is in no call joins the queue, or raises a dialog, or is answered.
LEMMA OutsideQueue ==
  ASSUME QueueInv, NEW t \in Task, ~InQueue(t), OthersStay(t), KeepsEpochs(t), Open' => Open,
         \A u \in Task \ {t} : u \in jfresh => u \in jfresh' \/ ~Open',
         \/ ~InQueue(t)' /\ UNCHANGED store_lock
         \/ /\ store_lock' = Append(store_lock, t)
            /\ pc'[t] = IF store_lock = << >> THEN "run" ELSE "wait"
            /\ pc'[t] = "run" => t \in jfresh'
            /\ fn'[t] = "list_meta" => t \in fresh'
  PROVE  Queue' /\ LockedOut' /\ LockedRun'
  <1> USE DEF QueueInv, KeysInv
  <1>1. Queue'
    BY QueueStays, QueueJoined
  <1>2. LockedOut'
    BY DEF LockedOut, OthersStay, KeepsEpochs, InQueue
  <1>3. LockedRun'
    BY DEF LockedRun, OthersStay, Running, InQueue
  <1> QED
    BY <1>1, <1>2, <1>3

LEMMA RequestQueue ==
  ASSUME QueueInv, NEW t \in Task, Request(t)
  PROVE  Queue' /\ LockedOut' /\ LockedRun' /\ AwaitsNew'
  <1>1. Typed /\ ~InQueue(t)
    BY DEF QueueInv, KeysInv, Committed, InQueue, Request, UnlockStarts, ReadStarts, QueryStarts, NamedStarts,
           NamesStarts, ReplaceStarts, SyncStarts, Requested
  <1>2. ASSUME NEW o, StartsAsking(t, o), fresh' \in {fresh, fresh \cup {t}}
        PROVE  Queue' /\ LockedOut' /\ LockedRun' /\ AwaitsNew'
    <2>1. /\ OthersStay(t) /\ KeepsEpochs(t) /\ ~InQueue(t)'
          /\ UNCHANGED <<store_lock, jfresh, tier1, autofill_conn, wipe_after, fn>> /\ pc'[t] = "ask"
      BY <1>1, <1>2 DEF StartsAsking, SessionKept, OthersStay, KeepsEpochs, InQueue, Typed, TypeOK,
                        openVars
    <2>2. Open' <=> Open
      BY <2>1 DEF Open
    <2>3. AwaitsNew'
      BY <2>1 DEF QueueInv, KeysInv, AwaitsNew, Running, OthersStay
    <2> QED
      BY <1>1, <2>1, <2>2, <2>3, OutsideQueue
  <1>3. ASSUME NEW o, NEW f, StartsWith(t, o, f),
               fresh' = fresh \cup {t} \/ (UNCHANGED fresh /\ f # "list_meta")
        PROVE  Queue' /\ LockedOut' /\ LockedRun' /\ AwaitsNew'
    <2>1. /\ OthersStay(t) /\ KeepsEpochs(t)
          /\ store_lock' = Append(store_lock, t)
          /\ pc'[t] = IF store_lock = << >> THEN "run" ELSE "wait"
          /\ pc'[t] = "run" => t \in jfresh'
          /\ jfresh' \ {t} = jfresh \ {t}
          /\ fn'[t] = "list_meta" => t \in fresh'
          /\ UNCHANGED <<tier1, autofill_conn, wipe_after>>
      BY <1>1, <1>3 DEF StartsWith, CallIn, SessionKept, OthersStay, KeepsEpochs, Typed, TypeOK, openVars
    <2>2. Open' <=> Open
      BY <2>1 DEF Open
    <2>3. AwaitsNew'
      BY <2>1 DEF QueueInv, KeysInv, AwaitsNew, Running, OthersStay
    <2> QED
      BY <1>1, <2>1, <2>2, <2>3, OutsideQueue
  <1>4. CASE UnlockStarts(t)
    BY <1>3, <1>4 DEF UnlockStarts
  <1>5. CASE ReadStarts(t)
    BY <1>3, <1>5 DEF ReadStarts
  <1>6. CASE QueryStarts(t)
    BY <1>3, <1>6 DEF QueryStarts
  <1>7. CASE NamedStarts(t)
    BY <1>2, <1>7 DEF NamedStarts
  <1>8. CASE NamesStarts(t)
    BY <1>2, <1>8 DEF NamesStarts
  <1>9. CASE ReplaceStarts(t)
    BY <1>3, <1>9 DEF ReplaceStarts
  <1>10. CASE SyncStarts(t)
    BY <1>3, <1>10 DEF SyncStarts
  <1> QED
    BY <1>4, <1>5, <1>6, <1>7, <1>8, <1>9, <1>10 DEF Request

LEMMA DialogQueue ==
  ASSUME QueueInv, NEW t \in Task, Dialog(t)
  PROVE  Queue' /\ LockedOut' /\ LockedRun' /\ AwaitsNew'
  <1>1. Typed /\ ~InQueue(t)
    BY DEF QueueInv, KeysInv, InQueue, Dialog, DialogRefused, UnlockApproved, NamesApproved, NamedApproved,
           FillApproved, ResetApproved, MigrateApproved, Approved
  <1>2. ASSUME Rest(t), UNCHANGED <<store_lock, jfresh, tier1, autofill_conn, wipe_after>>
        PROVE  Queue' /\ LockedOut' /\ LockedRun' /\ AwaitsNew'
    <2>1. OthersStay(t) /\ KeepsEpochs(t) /\ ~InQueue(t)' /\ pc'[t] = "idle"
      BY <1>1, <1>2 DEF Rest, RestUnder, OthersStay, KeepsEpochs, InQueue, Typed, TypeOK
    <2>2. Open' <=> Open
      BY <1>2 DEF Open
    <2>3. AwaitsNew'
      BY <1>2, <2>1 DEF QueueInv, KeysInv, AwaitsNew, Running, OthersStay
    <2> QED
      BY <1>1, <1>2, <2>1, <2>2, <2>3, OutsideQueue
  <1>3. ASSUME NEW f, GoesOnWith(t, f)
        PROVE  Queue' /\ LockedOut' /\ LockedRun' /\ AwaitsNew'
    <2>1. CASE wipe_after
      BY <1>2, <1>3, <2>1 DEF GoesOnWith, SessionKept, openVars
    <2>2. CASE ~wipe_after
      <3>1. /\ OthersStay(t) /\ KeepsEpochs(t)
            /\ store_lock' = Append(store_lock, t)
            /\ pc'[t] = IF store_lock = << >> THEN "run" ELSE "wait"
            /\ pc'[t] = "run" => t \in jfresh'
            /\ jfresh' \ {t} = jfresh \ {t}
            /\ t \in fresh'
            /\ UNCHANGED <<tier1, autofill_conn, wipe_after>>
        BY <1>1, <1>3, <2>2 DEF GoesOnWith, CallIn, SessionKept, OthersStay, KeepsEpochs, Typed, TypeOK,
                                openVars
      <3>2. Open' <=> Open
        BY <3>1 DEF Open
      <3>3. AwaitsNew'
        BY <3>1 DEF QueueInv, KeysInv, AwaitsNew, Running, OthersStay
      <3> QED
        BY <1>1, <3>1, <3>2, <3>3, OutsideQueue
    <2> QED
      BY <2>1, <2>2
  <1>4. CASE DialogRefused(t)
    BY <1>2, <1>4 DEF DialogRefused, SessionKept, openVars
  <1>5. CASE UnlockApproved(t) \/ NamesApproved(t) \/ NamedApproved(t) \/ FillApproved(t)
               \/ ResetApproved(t)
    BY <1>3, <1>5 DEF UnlockApproved, NamesApproved, NamedApproved, FillApproved, ResetApproved
  \* The window is locked first; what that lock meets is waited for, and refuses the import.
  <1>6. CASE MigrateApproved(t)
    <2>1. CASE ~Unlocked
      BY <1>3, <1>6, <2>1 DEF MigrateApproved
    <2>2. CASE Unlocked
      <3>1. CloseStore
        BY <1>6, <2>2 DEF MigrateApproved
      <3>2. ~Open' /\ wipe_after' = WipePending
        BY <3>1 DEF Open, CloseStore, WipeStore
      <3>3. CASE WipePending
        <4>1. RestUnder(t, {}) /\ jfresh' = {} /\ UNCHANGED store_lock
          BY <1>6, <2>2, <3>3 DEF MigrateApproved
        <4>2. OthersStay(t) /\ KeepsEpochs(t) /\ ~InQueue(t)'
          BY <1>1, <3>2, <4>1 DEF RestUnder, OthersStay, KeepsEpochs, InQueue, Typed, TypeOK
        <4>3. AwaitsNew'
          BY <3>2, <3>3 DEF AwaitsNew
        <4> QED
          BY <1>1, <3>2, <4>1, <4>2, <4>3, OutsideQueue
      <3>4. CASE ~WipePending
        <4> DEFINE f == IF res[t] = "empty" THEN "create" ELSE "reset"
        <4>1. CallIn(store_lock, t, f, store, {}) /\ fresh' = {t}
          BY <1>6, <2>2, <3>4 DEF MigrateApproved
        <4>2. /\ OthersStay(t) /\ KeepsEpochs(t)
              /\ store_lock' = Append(store_lock, t)
              /\ pc'[t] = IF store_lock = << >> THEN "run" ELSE "wait"
              /\ pc'[t] = "run" => t \in jfresh'
              /\ t \in fresh' /\ jfresh' \subseteq {t}
          BY <1>1, <3>2, <4>1 DEF CallIn, OthersStay, KeepsEpochs, Typed, TypeOK
        <4>3. \A u \in Task : Running(u) => fn[u] \notin Replaces
          BY <3>4 DEF WipePending, replacing, Running
        <4>4. AwaitsNew'
          BY <4>2, <4>3 DEF AwaitsNew, Running, OthersStay
        <4> QED
          BY <1>1, <3>2, <4>2, <4>4, OutsideQueue
      <3> QED
        BY <3>3, <3>4
    <2> QED
      BY <2>1, <2>2
  <1> QED
    BY <1>4, <1>5, <1>6 DEF Dialog

\* A returning handler leaves the queue or joins its end; it opens the store only if no lock
\* landed since it had joined before.
LEMMA ReturnMoves ==
  ASSUME Typed, NEW t \in Task, Return(t)
  PROVE  /\ Returning(t) /\ OthersStay(t) /\ KeepsEpochs(t)
         /\ \/ store_lock' = Tail(store_lock) /\ ~InQueue(t)'
            \/ /\ store_lock' = Append(Tail(store_lock), t)
               /\ pc'[t] = IF Tail(store_lock) = << >> THEN "run" ELSE "wait"
               /\ pc'[t] = "run" => t \in jfresh'
               /\ fn'[t] = "list_meta" => t \in fresh'
         /\ Open' => Open \/ t \in fresh
  <1> USE DEF Typed, TypeOK
  <1>1. ASSUME Ends(t)
        PROVE  /\ OthersStay(t) /\ fresh' \ {t} = fresh \ {t}
               /\ store_lock' = Tail(store_lock) /\ ~InQueue(t)'
    BY <1>1 DEF Ends, Rest, RestUnder, OthersStay, InQueue
  <1>2. ASSUME Asks(t)
        PROVE  OthersStay(t) /\ store_lock' = Tail(store_lock) /\ ~InQueue(t)'
    BY <1>2 DEF Asks, Ends, Rest, RestUnder, OthersStay, InQueue
  <1>3. ASSUME NEW f, NEW o, Then(t, f, o), UNCHANGED fresh, f = "list_meta" => t \in fresh
        PROVE  /\ OthersStay(t) /\ fresh' \ {t} = fresh \ {t}
               /\ store_lock' = Append(Tail(store_lock), t)
               /\ pc'[t] = IF Tail(store_lock) = << >> THEN "run" ELSE "wait"
               /\ pc'[t] = "run" => t \in jfresh'
               /\ fn'[t] = "list_meta" => t \in fresh'
    BY <1>3 DEF Then, CallIn, OthersStay
  <1>4. Returning(t)
    BY DEF Return, Back, StateReturns, UnlockReturns, TpmReturns, NamesReturns, ListReturns, StatusReturns,
           MetaReturns, EntryReturns, SyncReturns, RecheckReturns, MakeReturns, SaveReturns
  <1>5. UNCHANGED <<tier1, autofill_conn>> => (Open' <=> Open)
    BY DEF Open
  <1>11. CASE StateReturns(t)
    <2>1. fresh' \ {t} = fresh \ {t}
      BY <1>1, <1>11 DEF StateReturns
    <2> QED
      BY <1>1, <1>2, <1>3, <1>4, <1>5, <1>11, <2>1 DEF StateReturns, KeepsEpochs, openVars
  <1>12. CASE UnlockReturns(t)
    BY <1>1, <1>3, <1>4, <1>5, <1>12 DEF UnlockReturns, KeepsEpochs, openVars
  <1>13. CASE TpmReturns(t)
    BY <1>1, <1>3, <1>4, <1>5, <1>13 DEF TpmReturns, KeepsEpochs, NotLockedMeanwhile
  <1>14. CASE NamesReturns(t)
    BY <1>1, <1>3, <1>4, <1>5, <1>14 DEF NamesReturns, KeepsEpochs, NotLockedMeanwhile, openVars
  <1>15. CASE ListReturns(t)
    BY <1>1, <1>3, <1>4, <1>5, <1>15 DEF ListReturns, KeepsEpochs, openVars
  <1>16. CASE StatusReturns(t) \/ EntryReturns(t)
    BY <1>1, <1>4, <1>5, <1>16 DEF StatusReturns, EntryReturns, KeepsEpochs, openVars
  <1>21. CASE MetaReturns(t)
    <2>1. fresh' \ {t} = fresh \ {t}
      BY <1>1, <1>21 DEF MetaReturns
    <2> QED
      BY <1>1, <1>2, <1>3, <1>4, <1>5, <1>21, <2>1 DEF MetaReturns, KeepsEpochs, openVars
  <1>17. CASE SyncReturns(t)
    BY <1>1, <1>3, <1>4, <1>5, <1>17 DEF SyncReturns, KeepsEpochs, openVars
  <1>18. CASE RecheckReturns(t)
    <2>1. CASE Ends(t) /\ UNCHANGED openVars
      BY <1>1, <1>4, <1>5, <2>1 DEF KeepsEpochs, openVars
    <2>2. CASE /\ CallIn(Tail(store_lock), t, "reset", store, {}) /\ fresh' = {t}
               /\ tier1' = NoConn /\ autofill_conn' = NoConn
      BY <1>4, <2>2 DEF CallIn, OthersStay, KeepsEpochs, Open
    <2> QED
      BY <1>18, <2>1, <2>2 DEF RecheckReturns
  <1>19. CASE MakeReturns(t)
    BY <1>1, <1>3, <1>4, <1>5, <1>19 DEF MakeReturns, KeepsEpochs, openVars
  <1>20. CASE SaveReturns(t)
    BY <1>1, <1>4, <1>5, <1>20 DEF SaveReturns, KeepsEpochs, NotLockedSince, NotLockedMeanwhile
  <1> QED
    BY <1>11, <1>12, <1>13, <1>14, <1>15, <1>16, <1>17, <1>18, <1>19, <1>20, <1>21
       DEF Return

LEMMA ReturnQueue ==
  ASSUME QueueInv, NEW t \in Task, Return(t)
  PROVE  Queue' /\ LockedOut' /\ LockedRun' /\ AwaitsNew'
  <1>1. Typed /\ Queue /\ LockedOut
    BY DEF QueueInv, KeysInv
  <1>2. /\ Returning(t) /\ OthersStay(t) /\ KeepsEpochs(t)
        /\ \/ store_lock' = Tail(store_lock) /\ ~InQueue(t)'
           \/ /\ store_lock' = Append(Tail(store_lock), t)
              /\ pc'[t] = IF Tail(store_lock) = << >> THEN "run" ELSE "wait"
              /\ pc'[t] = "run" => t \in jfresh'
              /\ fn'[t] = "list_meta" => t \in fresh'
        /\ Open' => Open \/ t \in fresh
    BY <1>1, ReturnMoves
  <1>3. Queue' /\ \A u \in Task : Running(u)' => u \in jfresh'
    <2>1. CASE store_lock' = Tail(store_lock) /\ ~InQueue(t)'
      BY <1>1, <1>2, <2>1, QueueLeft
    <2>2. CASE ~(store_lock' = Tail(store_lock) /\ ~InQueue(t)')
      BY <1>1, <1>2, <2>2, QueueRejoined
    <2> QED
      BY <2>1, <2>2
  <1>4. LockedRun' /\ AwaitsNew'
    BY <1>3 DEF LockedRun, AwaitsNew
  <1>5. LockedOut'
    <2> SUFFICES ASSUME NEW u \in Task, InQueue(u)', fn'[u] = "list_meta", u \notin fresh', Open'
                 PROVE  FALSE
      BY DEF LockedOut
    <2>1. u # t
      BY <1>2
    <2>2. InQueue(u) /\ fn[u] = "list_meta" /\ u \notin fresh
      BY <1>2, <2>1 DEF OthersStay, InQueue, KeepsEpochs
    <2>3. t \in fresh
      BY <1>1, <1>2, <2>2 DEF LockedOut
    <2>4. PICK j \in 2..Len(store_lock) : store_lock[j] = u
      BY <1>1, <1>2, <2>1, QueueBehind
    <2>5. 1 \in 1..Len(store_lock) /\ j \in 1..Len(store_lock) /\ 1 < j /\ store_lock[1] = t
      BY <1>1, <1>2, QueueBehind
    <2> QED
      BY <1>1, <2>2, <2>3, <2>4, <2>5 DEF Queue, InOrder
  <1> QED
    BY <1>3, <1>4, <1>5

LEMMA NextQueue == QueueInv /\ [Next]_vars => QueueInv'
  <1> SUFFICES ASSUME QueueInv, [Next]_vars
               PROVE  Queue' /\ LockedOut' /\ LockedRun' /\ AwaitsNew'
    BY NextKeys DEF QueueInv
  <1>1. CASE UNCHANGED vars
    BY <1>1 DEF QueueInv, Queue, Queued, InOrder, LockedOut, LockedRun, AwaitsNew, InQueue,
                Running, Open, vars, openVars, taskVars
  <1>2. CASE Next
    BY <1>2, LockQueue, ConnectionQueue, RequestQueue, DialogQueue, WorkerQueue, ReturnQueue DEF Next
  <1> QED
    BY <1>1, <1>2

LEMMA QueueAlways == Spec => []QueueInv
  BY InitQueue, NextQueue, PTL DEF Spec

\* Whatever the number of connections and requests, what a handler that looks again sends was
\* read in the unlock it is sent in.  A query or a names request, which compare no epoch, find
\* the store closed to them from a lock until they are answered (autofill._open_session,
\* Registry.run_store's queue); a grant's read compares it (handlers._still), and so does the
\* sync's event.  The last call of a fill began after every lock there was.  Of the reply to
\* unlock nothing is said: it is sent unchecked.
THEOREM StoreReadsAreCurrent == Spec => []ReadsAreCurrent
  <1>1. QueueInv => ReadsAreCurrent
    <2> SUFFICES ASSUME QueueInv, NEW t \in Task, Releases(t)
                 PROVE  t \in jfresh /\ (op[t] # "fill" => t \in fresh)
      BY DEF ReadsAreCurrent
    <2>1. Running(t) /\ InQueue(t)
      BY DEF Releases, Running, InQueue
    <2>2. \A c \in {Owner[t]} : OpenSession(c) => Open
      BY OwnerAssumption, NoConnAssumption
         DEF OpenSession, Unlocked, AutofillOpen, Closed, Live, Open, Conn
    <2>3. Unlocked => Open
      BY NoConnAssumption DEF Unlocked, Closed, Live, Open
    <2>4. Open
      BY <2>2, <2>3 DEF Releases, Still
    <2>5. t \in jfresh
      BY <2>1, <2>4 DEF QueueInv, LockedRun
    <2>6. fn[t] = "list_meta" => t \in fresh
      BY <2>1, <2>4 DEF QueueInv, LockedOut
    <2> QED
      BY <2>5, <2>6 DEF Releases, Still
  <1> QED
    BY <1>1, QueueAlways, PTL

\* A lock that lands during a create() or reset() stays pending until the object it makes is
\* wiped, so that sleep is held back for it (Session.replacing, wipes_pending).
THEOREM StoreNewStoreIsAwaited == Spec => []NewStoreIsAwaited
  <1>1. QueueInv => NewStoreIsAwaited
    BY DEF QueueInv, KeysInv, AwaitsNew, NewStoreIsAwaited
  <1> QED
    BY <1>1, QueueAlways, PTL

-----------------------------------------------------------------------------
(***************************************************************************)
(* NoStrayKeys, SyncStaysInOneUnlock and WindowHasItsKeys, if a window has *)
(* one request at a time that opens or replaces the store (OneOpener).     *)
(* Such a request is Deep once it is past its dialog.  There is one Deep   *)
(* request in the queue (OneDeep): a window that says hello while another  *)
(* one's is still there queues up behind it (QueuedBehind), and that one's *)
(* window being gone it makes no further call.  So no two requests load,   *)
(* wipe or replace the store's keys across each other (Objects, Loaded).   *)
(***************************************************************************)

DeepCall == {"unlock", "tpm_move_state", "recheck", "create", "reset", "save_settings"}

Deep(t) == InQueue(t) /\ fn[t] \in DeepCall

Ahead(u, v) == \E i, j \in 1..Len(store_lock) : i < j /\ store_lock[i] = u /\ store_lock[j] = v

OpsKept == \A t \in Task : op[t] \in Ops[t] \cup {"none"}

CallsKept ==
  \A t \in Task : InQueue(t) =>
    /\ fn[t] \in DeepCall => op[t] \in Opener
    /\ fn[t] \in {"unlock", "tpm_move_state"} => op[t] = "unlock"
    /\ op[t] \in Opener => fn[t] \in DeepCall \cup {"state", "list_meta", "status"}

\* One window is connected at a time, and tier 1 is its.
WindowInv ==
  /\ autofill_conn = NoConn
  /\ tier1 \in {NoConn, ui}
  /\ \A c \in Window : ~Closed(c) => ui = c

QueuedBehind ==
  \A u, v \in Task : Ahead(u, v) /\ Deep(v) /\ op[u] \in Opener => Closed(Owner[u])

AskAlone ==
  \A t, u \in Task : op[t] \in Opener /\ pc[t] = "ask" /\ ~Closed(Owner[t]) => ~Deep(u)

OneDeep == \A t, u \in Task : Deep(t) /\ Deep(u) => t = u

Orderly == OpsKept /\ CallsKept /\ WindowInv /\ QueuedBehind /\ AskAlone /\ OneDeep

LEMMA InitOrderly == Init => Orderly
  <1> SUFFICES ASSUME Init PROVE Orderly
    OBVIOUS
  <1>1. \A t \in Task : ~InQueue(t) /\ op[t] = "none" /\ pc[t] = "idle"
    BY DEF Init, InQueue
  <1>2. WindowInv
    BY DEF Init, WindowInv, Closed, Live, Conn
  <1> QED
    BY <1>1, <1>2 DEF Orderly, OpsKept, CallsKept, QueuedBehind, AskAlone, OneDeep, Deep, Opener

\* Two requests that open or replace the store come from two windows, one of which is closed.
LEMMA OtherClosed ==
  ASSUME Typed, OneOpener, OpsKept, WindowInv, NEW t \in Task, NEW u \in Task, t # u,
         op[t] \in Opener, op[u] \in Opener, ~Closed(Owner[t])
  PROVE  Closed(Owner[u])
  <1>1. Owner[t] \in Window /\ Owner[u] \in Window
    BY DEF Typed, RolesKept, Opener, WindowOp
  <1>2. Owner[t] # Owner[u]
    BY DEF OneOpener, OpsKept, Opener
  <1> QED
    BY <1>1, <1>2 DEF WindowInv

\* What is ahead of what, when task t joins the queue, leaves its head, or both.
LEMMA AheadJoined ==
  ASSUME Typed, NEW t \in Task, store_lock' = Append(store_lock, t), NEW u, NEW v, Ahead(u, v)'
  PROVE  Ahead(u, v) \/ v = t
  <1> DEFINE n == Len(store_lock)
  <1>1. /\ n \in Nat /\ Len(store_lock') = n + 1 /\ store_lock'[n + 1] = t
        /\ \A j \in 1..n : store_lock'[j] = store_lock[j]
    BY AppendElements DEF Typed, TypeOK
  <1> HIDE DEF n
  <1>2. PICK i \in 1..(n + 1), j \in 1..(n + 1) : i < j /\ store_lock'[i] = u /\ store_lock'[j] = v
    BY <1>1 DEF Ahead
  <1>3. CASE j = n + 1
    BY <1>1, <1>2, <1>3
  <1>4. CASE j # n + 1
    <2>1. i \in 1..n /\ j \in 1..n
      BY <1>1, <1>2, <1>4
    <2> QED
      BY <1>1, <1>2, <2>1 DEF Ahead, n
  <1> QED
    BY <1>3, <1>4

LEMMA AheadLeft ==
  ASSUME Typed, store_lock # << >>, store_lock' = Tail(store_lock), NEW u, NEW v, Ahead(u, v)'
  PROVE  Ahead(u, v)
  <1> DEFINE n == Len(store_lock)
  <1>1. /\ n \in Nat \ {0} /\ Len(store_lock') = n - 1
        /\ \A j \in 1..(n - 1) : store_lock'[j] = store_lock[j + 1]
    BY TailElements DEF Typed, TypeOK
  <1> HIDE DEF n
  <1>2. PICK i \in 1..(n - 1), j \in 1..(n - 1) : i < j /\ store_lock'[i] = u /\ store_lock'[j] = v
    BY <1>1 DEF Ahead
  <1>3. /\ i + 1 \in 1..n /\ j + 1 \in 1..n /\ i + 1 < j + 1
        /\ store_lock[i + 1] = u /\ store_lock[j + 1] = v
    BY <1>1, <1>2
  <1> QED
    BY <1>3 DEF Ahead, n

LEMMA AheadRejoined ==
  ASSUME Typed, NEW t \in Task, store_lock # << >>, store_lock' = Append(Tail(store_lock), t),
         NEW u, NEW v, Ahead(u, v)'
  PROVE  Ahead(u, v) \/ v = t
  <1> DEFINE n == Len(store_lock)
             q == Tail(store_lock)
  <1>1. /\ n \in Nat \ {0} /\ q \in Seq(Task) /\ Len(q) = n - 1
        /\ \A j \in 1..(n - 1) : q[j] = store_lock[j + 1]
    BY TailElements DEF Typed, TypeOK
  <1>2. store_lock' = Append(q, t)
    OBVIOUS
  <1> HIDE DEF n, q
  <1>3. /\ Len(store_lock') = Len(q) + 1 /\ store_lock'[Len(q) + 1] = t
        /\ \A j \in 1..Len(q) : store_lock'[j] = q[j]
    BY ONLY <1>1, <1>2, t \in Task, AppendElements
  <1>4. PICK i \in 1..n, j \in 1..n : i < j /\ store_lock'[i] = u /\ store_lock'[j] = v
    BY <1>1, <1>3 DEF Ahead
  <1>5. CASE j = n
    BY <1>1, <1>3, <1>4, <1>5
  <1>6. CASE j # n
    <2>1. i \in 1..(n - 1) /\ j \in 1..(n - 1)
      BY <1>1, <1>4, <1>6
    <2>2. /\ i + 1 \in 1..n /\ j + 1 \in 1..n /\ i + 1 < j + 1
          /\ store_lock[i + 1] = u /\ store_lock[j + 1] = v
      BY <1>1, <1>3, <1>4, <2>1
    <2> QED
      BY <2>2 DEF Ahead, n
  <1> QED
    BY <1>5, <1>6

\* A task that returns is ahead of all others in the queue; only those in it are ahead.
LEMMA HeadAhead ==
  ASSUME Typed, Queue, NEW t \in Task, Returning(t), NEW u \in Task \ {t}, InQueue(u)
  PROVE  Ahead(t, u)
  <1>1. store_lock \in Seq(Task) /\ store_lock # << >> /\ Head(store_lock) = t
    BY DEF Typed, TypeOK, Returning, Owns
  <1>2. store_lock[1] = t /\ Len(store_lock) \in Nat \ {0}
    BY <1>1, TailElements
  <1>3. PICK j \in 1..Len(store_lock) : store_lock[j] = u
    BY DEF Queue, Queued
  <1>4. 1 \in 1..Len(store_lock) /\ 1 < j
    BY <1>2, <1>3
  <1> QED
    BY <1>2, <1>3, <1>4 DEF Ahead

LEMMA AheadQueued ==
  ASSUME Queue, NEW u, NEW v, Ahead(u, v) PROVE InQueue(u) /\ InQueue(v)
  BY DEF Ahead, Queue, Queued

\* A step of task t: it goes on in its call, ends, asks, or makes a (further) call.
GoesOn(t) == /\ InQueue(t) /\ InQueue(t)'
             /\ UNCHANGED <<store_lock, op, fn>>

LeavesQueue(t) == \/ ~InQueue(t) /\ UNCHANGED store_lock
                  \/ Returning(t) /\ store_lock' = Tail(store_lock)

EndsUp(t)  == LeavesQueue(t) /\ pc'[t] = "idle" /\ op'[t] = "none"

AsksOn(t)  == /\ LeavesQueue(t) /\ pc'[t] = "ask" /\ op'[t] \in Ops[t]
              /\ op'[t] \in Opener => Returning(t) /\ op'[t] = op[t] /\ ~Closed(Owner[t])

Calls(t) ==
  /\ \/ ~InQueue(t) /\ store_lock' = Append(store_lock, t)
     \/ Returning(t) /\ store_lock' = Append(Tail(store_lock), t)
  /\ InQueue(t)'
  /\ op'[t] \in Ops[t]
  /\ InQueue(t) => op'[t] = op[t]
  /\ fn'[t] \in {"unlock", "tpm_move_state"} => op'[t] = "unlock"
  /\ op'[t] \in Opener => fn'[t] \in DeepCall \cup {"state", "list_meta", "status"}
  /\ fn'[t] \in DeepCall => /\ op'[t] = op[t] /\ op[t] \in Opener /\ ~Closed(Owner[t])
                            /\ pc[t] = "ask" \/ Deep(t)

Moves(t) ==
  /\ \A u \in Task \ {t} : pc'[u] = pc[u] /\ fn'[u] = fn[u] /\ op'[u] = op[u]
  /\ UNCHANGED <<conn, ui>>
  /\ autofill_conn' \in {autofill_conn, NoConn}
  /\ tier1' \in {tier1, NoConn} \/ (tier1' = Owner[t] /\ op[t] \in Opener /\ ~Closed(Owner[t]))
  /\ GoesOn(t) \/ EndsUp(t) \/ AsksOn(t) \/ Calls(t)

LEMMA MovesKeep ==
  ASSUME Typed, Queue, Queue', OneOpener, Orderly, NEW t \in Task, Moves(t)
  PROVE  Orderly'
  <1> USE DEF Orderly
  <1>1. \A u \in Task \ {t} : /\ pc'[u] = pc[u] /\ fn'[u] = fn[u] /\ op'[u] = op[u]
                              /\ (InQueue(u)' <=> InQueue(u)) /\ (Deep(u)' <=> Deep(u))
    BY DEF Moves, InQueue, Deep
  <1>2. \A c : Closed(c)' <=> Closed(c)
    BY DEF Moves, Closed, Live
  <1>3. OpsKept'
    BY <1>1 DEF Moves, GoesOn, EndsUp, AsksOn, Calls, OpsKept
  <1>4. CallsKept'
    <2>1. EndsUp(t) \/ AsksOn(t) => ~InQueue(t)'
      BY DEF EndsUp, AsksOn, InQueue
    <2> QED
      BY <1>1, <2>1 DEF Moves, GoesOn, Calls, CallsKept
  <1>5. WindowInv'
    <2>1. op[t] \in Opener /\ ~Closed(Owner[t]) => Owner[t] = ui
      BY DEF Typed, RolesKept, Opener, WindowOp, WindowInv
    <2> QED
      BY <1>2, <2>1 DEF Moves, WindowInv
  <1>6. OneDeep'
    <2>1. ASSUME NEW u \in Task \ {t}, Deep(u), Deep(t)' PROVE FALSE
      <3>1. CASE GoesOn(t)
        BY <2>1, <3>1 DEF GoesOn, Deep, OneDeep
      <3>2. CASE Calls(t)
        <4>1. fn'[t] \in DeepCall
          BY <2>1 DEF Deep
        <4> QED
          BY <2>1, <3>2, <4>1 DEF Calls, OneDeep, AskAlone
      <3>3. CASE EndsUp(t) \/ AsksOn(t)
        BY <2>1, <3>3 DEF EndsUp, AsksOn, Deep, InQueue
      <3> QED
        BY <3>1, <3>2, <3>3 DEF Moves
    <2> QED
      BY <1>1, <2>1 DEF OneDeep
  <1>7. AskAlone'
    <2> SUFFICES ASSUME NEW s \in Task, NEW u \in Task, op'[s] \in Opener, pc'[s] = "ask",
                        ~Closed(Owner[s]), Deep(u)'
                 PROVE  FALSE
      BY <1>2 DEF AskAlone
    <2>1. CASE s # t /\ u # t
      BY <1>1, <2>1 DEF AskAlone
    <2>2. CASE s = t
      <3>1. u # t
        BY <2>2 DEF Deep, InQueue
      <3>2. AsksOn(t)
        BY <2>2 DEF Moves, GoesOn, EndsUp, Calls, InQueue, Opener
      <3>3. Returning(t) /\ op[t] \in Opener
        BY <2>2, <3>2 DEF AsksOn
      <3>4. Deep(u) /\ Ahead(t, u)
        BY <1>1, <3>1, <3>3, HeadAhead DEF Deep
      <3> QED
        BY <2>2, <3>3, <3>4 DEF QueuedBehind
    <2>3. CASE s # t /\ u = t
      <3>1. op[s] \in Opener /\ pc[s] = "ask"
        BY <1>1, <2>3
      <3>2. ~Deep(t)
        BY <3>1 DEF AskAlone
      <3>3. Calls(t) /\ fn'[t] \in DeepCall
        BY <2>3, <3>2 DEF Moves, GoesOn, EndsUp, AsksOn, Deep, InQueue
      <3> QED
        BY <2>3, <3>1, <3>2, <3>3, OtherClosed DEF Calls
    <2> QED
      BY <2>1, <2>2, <2>3
  <1>8. QueuedBehind'
    <2> SUFFICES ASSUME NEW u \in Task, NEW v \in Task, Ahead(u, v)', Deep(v)', op'[u] \in Opener
                 PROVE  Closed(Owner[u])
      BY <1>2 DEF QueuedBehind
    <2>1. Ahead(u, v) \/ (Calls(t) /\ v = t)
      <3>1. Returning(t) => store_lock # << >>
        BY DEF Returning, Owns
      <3>2. GoesOn(t) => Ahead(u, v)
        BY DEF GoesOn, Ahead
      <3>3. EndsUp(t) \/ AsksOn(t) => Ahead(u, v)
        <4>1. UNCHANGED store_lock => Ahead(u, v)
          BY DEF Ahead
        <4> QED
          BY <3>1, <4>1, AheadLeft DEF EndsUp, AsksOn, LeavesQueue
      <3>4. Calls(t) => Ahead(u, v) \/ v = t
        BY <3>1, AheadJoined, AheadRejoined DEF Calls
      <3> QED
        BY <3>2, <3>3, <3>4 DEF Moves
    <2>2. CASE v = t /\ Calls(t)
      <3>1. op[t] \in Opener /\ ~Closed(Owner[t])
        BY <2>2 DEF Calls, Deep
      <3>2. u # t
        <4>1. ~Ahead(t, t)'
          BY DEF Ahead, Queue, Queued
        <4> QED
          BY <2>2, <4>1
      <3> QED
        BY <1>1, <3>1, <3>2, OtherClosed
    <2>3. CASE Ahead(u, v) /\ ~(v = t /\ Calls(t))
      <3>1. Deep(v)
        BY <1>1, <2>3 DEF Moves, GoesOn, EndsUp, AsksOn, Deep, InQueue
      <3>2. CASE u # t
        BY <1>1, <2>3, <3>1, <3>2 DEF QueuedBehind
      <3>3. CASE u = t
        <4>1. InQueue(t)
          BY <2>3, <3>3, AheadQueued
        <4> QED
          BY <2>3, <3>1, <3>3, <4>1 DEF Moves, GoesOn, EndsUp, AsksOn, Calls, QueuedBehind, Opener
      <3> QED
        BY <3>2, <3>3
    <2> QED
      BY <2>1, <2>2, <2>3
  <1> QED
    BY <1>3, <1>4, <1>5, <1>6, <1>7, <1>8

\* A lock, a timer or a connection moves no task, opens nothing, and brings back the window of
\* none that is still there.
LEMMA AmbientKeeps ==
  ASSUME Typed, Queue, Orderly, UNCHANGED <<store_lock, pc, taskVars>>, WindowInv',
         \A u \in Task : pc[u] # "idle" /\ Closed(Owner[u]) => Closed(Owner[u])'
  PROVE  Orderly'
  <1> USE DEF Orderly, taskVars
  <1>1. /\ \A u \in Task : (InQueue(u)' <=> InQueue(u)) /\ (Deep(u)' <=> Deep(u))
        /\ \A u, v \in Task : Ahead(u, v)' <=> Ahead(u, v)
    BY DEF InQueue, Deep, Ahead
  <1>2. OpsKept' /\ CallsKept' /\ OneDeep'
    BY <1>1 DEF OpsKept, CallsKept, OneDeep
  <1>3. AskAlone'
    BY <1>1 DEF AskAlone
  <1>4. QueuedBehind'
    BY <1>1, AheadQueued DEF QueuedBehind, InQueue
  <1> QED
    BY <1>2, <1>3, <1>4

LEMMA ConnectionOrderly ==
  ASSUME QueueInv, Orderly, NEW c \in Conn,
         HelloWindow(c) \/ HelloReads(c) \/ HelloReply(c) \/ HelloBrowser(c) \/ Close(c) \/ Detach(c)
  PROVE  Orderly'
  <1> USE DEF QueueInv, KeysInv, Typed, TypeOK, Orderly, WindowInv, Closed, Live, Stage,
              lockVars, openVars, LockSession, CloseStore
  <1>1. UNCHANGED <<store_lock, pc, taskVars>>
    BY DEF HelloWindow, HelloReads, HelloReply, HelloBrowser, Close, Detach
  <1>2. \A u \in Task : pc[u] # "idle" /\ Closed(Owner[u]) => Closed(Owner[u])'
    BY DEF HelloWindow, HelloReads, HelloReply, HelloBrowser, Close, Detach, Unused
  <1>3. WindowInv'
    <2>1. CASE HelloWindow(c)
      BY <2>1 DEF HelloWindow, Conn
    <2>2. CASE HelloReads(c) \/ HelloReply(c) \/ Close(c)
      BY <2>2 DEF HelloReads, HelloReply, Close
    <2>3. CASE HelloBrowser(c)
      BY <2>3, RolesAssumption DEF HelloBrowser, Conn
    <2>4. CASE Detach(c)
      BY <2>4 DEF Detach, DetachLocks, Conn
    <2> QED
      BY <2>1, <2>2, <2>3, <2>4
  <1> QED
    BY <1>1, <1>2, <1>3, AmbientKeeps

LEMMA LockOrderly ==
  ASSUME QueueInv, Orderly, Lock \/ AutofillExpires \/ AutofillTimeout
  PROVE  Orderly'
  <1> USE DEF Orderly, Closed, Live
  <1>1. UNCHANGED <<store_lock, pc, taskVars, conn, ui>>
    BY DEF Lock, AutofillExpires, AutofillTimeout
  <1>2. tier1' \in {tier1, NoConn} /\ autofill_conn' \in {autofill_conn, NoConn}
    BY DEF Lock, AutofillExpires, AutofillTimeout, LockSession, CloseStore
  <1>3. WindowInv'
    BY <1>1, <1>2 DEF WindowInv
  <1> QED
    BY <1>1, <1>3, AmbientKeeps DEF QueueInv, KeysInv

LEMMA WorkerOrderly ==
  ASSUME QueueInv, Queue', OneOpener, Orderly, NEW t \in Task, Begin(t) \/ Worker(t)
  PROVE  Orderly'
  <1>1. /\ pc[t] \in {"wait", "run", "in"} /\ pc'[t] \in {"run", "in", "ret"}
        /\ UNCHANGED <<fn, store_lock, tier1, autofill_conn>>
        /\ \A u \in Task \ {t} : pc'[u] = pc[u]
    BY WorkerMoves DEF QueueInv, KeysInv
  <1>2. UNCHANGED <<conn, ui, op>>
    BY DEF Begin, Worker, Enter, Leave, LeaveUnlock, SyncEnds, ReadState, MoveAside, Made,
           notWorker, taskVars
  <1>3. Moves(t)
    BY <1>1, <1>2 DEF Moves, GoesOn, InQueue
  <1> QED
    BY <1>3, MovesKeep DEF QueueInv, KeysInv

LEMMA RequestOrderly ==
  ASSUME QueueInv, Queue', OneOpener, Orderly, NEW t \in Task, Request(t)
  PROVE  Orderly'
  <1> USE DEF SessionKept, openVars
  <1>1. Typed /\ ~InQueue(t) /\ op[t] = "none"
    BY DEF QueueInv, KeysInv, Committed, InQueue, Request, UnlockStarts, ReadStarts, QueryStarts,
           NamedStarts, NamesStarts, ReplaceStarts, SyncStarts, Requested
  <1>2. ASSUME NEW o \in Ops[t] \ Opener, StartsAsking(t, o) PROVE Moves(t)
    <2>1. AsksOn(t)
      BY <1>1, <1>2 DEF StartsAsking, AsksOn, LeavesQueue, Typed, TypeOK
    <2> QED
      BY <1>2, <2>1 DEF StartsAsking, Moves
  <1>3. ASSUME NEW o \in Ops[t], NEW f \in {"list_meta", "state", "get_meta", "open_entry"},
               StartsWith(t, o, f), o \in Opener => f \in {"list_meta", "state"}
        PROVE  Moves(t)
    <2>1. Calls(t)
      BY <1>1, <1>3 DEF StartsWith, CallIn, Calls, InQueue, DeepCall, Typed, TypeOK
    <2> QED
      BY <1>3, <2>1 DEF StartsWith, CallIn, Moves
  <1>4. Moves(t)
    <2>1. CASE UnlockStarts(t)
      BY <1>3, <2>1 DEF UnlockStarts, Requested
    <2>2. CASE ReadStarts(t)
      BY <1>3, <2>2 DEF ReadStarts, Requested, Opener
    <2>3. CASE QueryStarts(t)
      BY <1>3, <2>3 DEF QueryStarts, Requested
    <2>4. CASE NamedStarts(t)
      BY <1>2, <2>4 DEF NamedStarts, Requested, Opener
    <2>5. CASE NamesStarts(t)
      BY <1>2, <2>5 DEF NamesStarts, Requested, Opener
    <2>6. CASE ReplaceStarts(t)
      BY <1>3, <2>6 DEF ReplaceStarts, Requested
    <2>7. CASE SyncStarts(t)
      BY <1>3, <2>7 DEF SyncStarts, Opener
    <2> QED
      BY <2>1, <2>2, <2>3, <2>4, <2>5, <2>6, <2>7 DEF Request
  <1> QED
    BY <1>4, MovesKeep DEF QueueInv, KeysInv

LEMMA DialogOrderly ==
  ASSUME QueueInv, Queue', OneOpener, Orderly, NEW t \in Task, Dialog(t)
  PROVE  Orderly'
  <1> USE DEF SessionKept, openVars
  <1>1. Typed /\ ~InQueue(t) /\ pc[t] = "ask"
    BY DEF QueueInv, KeysInv, InQueue, Dialog, DialogRefused, UnlockApproved, NamesApproved, NamedApproved,
           FillApproved, ResetApproved, MigrateApproved, Approved
  <1>2. ASSUME NEW o, Approved(t, o), o # "none"
        PROVE  op[t] = o /\ o \in Ops[t] /\ o # "names" /\ ~Closed(Owner[t])
    BY <1>2 DEF Approved, Orderly, OpsKept, OneOpener
  <1>3. ASSUME NEW F, RestUnder(t, F), UNCHANGED <<store_lock, conn, ui>>,
               tier1' \in {tier1, NoConn}, autofill_conn' \in {autofill_conn, NoConn}
        PROVE  Moves(t)
    <2>1. EndsUp(t)
      BY <1>1, <1>3 DEF RestUnder, EndsUp, LeavesQueue, Typed, TypeOK
    <2> QED
      BY <1>3, <2>1 DEF RestUnder, Moves
  <1>4. ASSUME NEW f, NEW J, CallIn(store_lock, t, f, store, J), UNCHANGED <<op, conn, ui>>,
               tier1' \in {tier1, NoConn}, autofill_conn' \in {autofill_conn, NoConn},
               op[t] \in Ops[t],
               \/ op[t] \notin Opener /\ f \in {"list_meta", "rematch"}
               \/ /\ op[t] \in Opener /\ f \in DeepCall /\ ~Closed(Owner[t])
                  /\ f \in {"unlock", "tpm_move_state"} => op[t] = "unlock"
        PROVE  Moves(t)
    <2>1. Calls(t)
      BY <1>1, <1>4 DEF CallIn, Calls, InQueue, DeepCall, Typed, TypeOK
    <2> QED
      BY <1>4, <2>1 DEF CallIn, Moves
  <1>5. ASSUME NEW f, GoesOnWith(t, f), op[t] \in Ops[t],
               \/ op[t] \notin Opener /\ f \in {"list_meta", "rematch"}
               \/ /\ op[t] \in Opener /\ f \in DeepCall /\ ~Closed(Owner[t])
                  /\ f \in {"unlock", "tpm_move_state"} => op[t] = "unlock"
        PROVE  Moves(t)
    BY <1>3, <1>4, <1>5 DEF GoesOnWith, Rest
  <1>6. Moves(t)
    <2>1. CASE DialogRefused(t)
      BY <1>3, <2>1 DEF DialogRefused, Rest
    <2>2. CASE UnlockApproved(t)
      BY <1>2, <1>5, <2>2 DEF UnlockApproved, Opener, DeepCall
    <2>3. CASE NamesApproved(t)
      BY <1>2, <2>3 DEF NamesApproved
    <2>4. CASE NamedApproved(t)
      BY <1>2, <1>5, <2>4 DEF NamedApproved, Opener
    <2>5. CASE FillApproved(t)
      BY <1>2, <1>5, <2>5 DEF FillApproved, Opener
    <2>6. CASE ResetApproved(t)
      BY <1>2, <1>5, <2>6 DEF ResetApproved, Opener, DeepCall
    <2>7. CASE MigrateApproved(t)
      <3>1. op[t] = "migrate" /\ op[t] \in Ops[t] /\ ~Closed(Owner[t])
        BY <1>2, <2>7 DEF MigrateApproved
      <3>2. CASE ~Unlocked
        BY <1>5, <2>7, <3>1, <3>2 DEF MigrateApproved, Opener, DeepCall
      <3>3. CASE Unlocked
        BY <1>3, <1>4, <2>7, <3>1, <3>3 DEF MigrateApproved, CloseStore, Opener, DeepCall
      <3> QED
        BY <3>2, <3>3
    <2> QED
      BY <2>1, <2>2, <2>3, <2>4, <2>5, <2>6, <2>7 DEF Dialog
  <1> QED
    BY <1>6, MovesKeep DEF QueueInv, KeysInv

LEMMA ReturnOrderly ==
  ASSUME QueueInv, Queue', OneOpener, Orderly, NEW t \in Task, Return(t)
  PROVE  Orderly'
  <1> USE DEF openVars, storeVars
  <1>1. Typed /\ Returning(t) /\ InQueue(t) /\ UNCHANGED <<conn, ui>>
    BY DEF QueueInv, KeysInv, Return, Back, Returning, InQueue, StateReturns, UnlockReturns, TpmReturns,
           NamesReturns, ListReturns, StatusReturns, MetaReturns, EntryReturns, SyncReturns,
           RecheckReturns, MakeReturns, SaveReturns
  <1>2. ASSUME NEW o, NEW f, Back(t, o, f), o # "none"
        PROVE  op[t] = o /\ fn[t] = f /\ o \in Ops[t] /\ o # "names"
    BY <1>2 DEF Back, Orderly, OpsKept, OneOpener
  <1> DEFINE Opens == /\ autofill_conn' \in {autofill_conn, NoConn}
                      /\ \/ tier1' \in {tier1, NoConn}
                         \/ tier1' = Owner[t] /\ op[t] \in Opener /\ ~Closed(Owner[t])
  <1>3. ASSUME Opens, Ends(t) PROVE Moves(t)
    <2>1. EndsUp(t)
      BY <1>1, <1>3 DEF Ends, Rest, RestUnder, EndsUp, LeavesQueue, Typed, TypeOK
    <2> QED
      BY <1>1, <1>3, <2>1 DEF Ends, Rest, RestUnder, Moves
  <1>4. ASSUME Opens, Asks(t), op[t] \in Ops[t] PROVE Moves(t)
    <2>1. CASE MayAsk(t)
      <3>1. AsksOn(t)
        BY <1>1, <1>4, <2>1 DEF Asks, MayAsk, AsksOn, LeavesQueue, Typed, TypeOK
      <3>2. \A u \in Task \ {t} : pc'[u] = pc[u] /\ fn'[u] = fn[u] /\ op'[u] = op[u]
        BY <1>1, <1>4, <2>1 DEF Asks, Typed, TypeOK
      <3> QED
        BY <1>1, <1>4, <3>1, <3>2 DEF Moves
    <2>2. CASE ~MayAsk(t)
      BY <1>3, <1>4, <2>2 DEF Asks
    <2> QED
      BY <2>1, <2>2
  <1>5. ASSUME Opens, NEW f, NEW o, NEW J, CallIn(Tail(store_lock), t, f, o, J), UNCHANGED op,
               op[t] \in Ops[t],
               \/ f \in {"list_meta", "status"}
               \/ op[t] \notin Opener /\ f \in {"get_meta", "open_entry", "sync"}
               \/ /\ op[t] \in Opener /\ f \in DeepCall /\ ~Closed(Owner[t]) /\ fn[t] \in DeepCall
                  /\ f \in {"unlock", "tpm_move_state"} => op[t] = "unlock"
        PROVE  Moves(t)
    <2>1. Calls(t)
      BY <1>1, <1>5 DEF CallIn, Calls, InQueue, Deep, DeepCall, Typed, TypeOK
    <2> QED
      BY <1>1, <1>5, <2>1 DEF CallIn, Moves
  <1>6. Moves(t)
    <2> USE DEF Then, NotLockedSince, NotLockedMeanwhile, StillAsked
    <2>1. CASE StateReturns(t)
      BY <1>2, <1>3, <1>4, <1>5, <2>1 DEF StateReturns, Opener
    <2>2. CASE UnlockReturns(t)
      BY <1>2, <1>3, <1>5, <2>2 DEF UnlockReturns, Opener, DeepCall
    <2>3. CASE TpmReturns(t)
      BY <1>2, <1>3, <1>5, <2>3 DEF TpmReturns, Opener
    <2>4. CASE NamesReturns(t)
      BY <1>2, <2>4 DEF NamesReturns
    <2>5. CASE ListReturns(t)
      BY <1>2, <1>3, <1>5, <2>5 DEF ListReturns, Opener
    <2>6. CASE StatusReturns(t) \/ EntryReturns(t)
      BY <1>3, <2>6 DEF StatusReturns, EntryReturns
    <2>11. CASE MetaReturns(t)
      BY <1>2, <1>3, <1>4, <1>5, <2>11 DEF MetaReturns, Opener
    <2>7. CASE SyncReturns(t)
      BY <1>2, <1>3, <1>5, <2>7 DEF SyncReturns
    <2>8. CASE RecheckReturns(t)
      BY <1>2, <1>3, <1>5, <2>8 DEF RecheckReturns, Opener, DeepCall
    <2>9. CASE MakeReturns(t)
      <3>1. op[t] \in Opener /\ op[t] \in Ops[t] /\ fn[t] \in DeepCall
        BY <1>2, <2>9 DEF MakeReturns, Opener, DeepCall, Replaces
      <3> QED
        BY <1>3, <1>5, <2>9, <3>1 DEF MakeReturns, DeepCall
    <2>10. CASE SaveReturns(t)
      <3>1. op[t] \in Opener
        BY <1>2, <2>10 DEF SaveReturns, Opener
      <3> QED
        BY <1>3, <2>10, <3>1 DEF SaveReturns
    <2> QED
      BY <2>1, <2>2, <2>3, <2>4, <2>5, <2>6, <2>7, <2>8, <2>9, <2>10, <2>11 DEF Return
  <1> QED
    BY <1>6, MovesKeep DEF QueueInv, KeysInv

LEMMA NextOrderly ==
  ASSUME OneOpener, QueueInv, Orderly, [Next]_vars
  PROVE  Orderly'
  <1>1. Queue'
    BY NextQueue DEF QueueInv
  <1>2. CASE UNCHANGED vars
    BY <1>2 DEF Orderly, OpsKept, CallsKept, WindowInv, QueuedBehind, AskAlone, OneDeep, Deep, Ahead,
                InQueue, Closed, Live, vars, openVars, taskVars
  <1>3. CASE Next
    BY <1>1, <1>3, LockOrderly, ConnectionOrderly, RequestOrderly, DialogOrderly, WorkerOrderly,
       ReturnOrderly DEF Next
  <1> QED
    BY <1>2, <1>3

-----------------------------------------------------------------------------
(* With one Deep request at a time: the objects and their keys *)

\* An unlock is of the session's store; a new store is made over one without keys, and only
\* its object has any.
Objects ==
  /\ \A t \in Task : InQueue(t) /\ fn[t] = "unlock" => obj[t] = store
  /\ \A t \in Task : InQueue(t) /\ fn[t] \in Replaces =>
       /\ store \notin keys
       /\ pc[t] # "ret" \/ res[t] # "ok" => obj[t] = NoStore
  /\ \A o \in keys \ {store} : \E t \in Task : Running(t) /\ fn[t] \in Replaces /\ obj[t] = o

\* No lock waits while a handler that saw none has a call, or tier 1 is open.
Current ==
  /\ \A t \in fresh : InQueue(t) => ~wipe_after
  /\ \A t \in fresh : Running(t) => t \in jfresh
  /\ tier1 # NoConn => ~wipe_after
  /\ wipe_req \subseteq {store}
  /\ wipe_req # {} => wipe_after

\* A handler that saw no lock since its unlock, or its new store, finds the keys.
Loaded ==
  \A t \in fresh :
    /\ InQueue(t) /\ fn[t] \in Waiting =>
         store \in keys /\ \A u \in Task : Running(u) => u \in jfresh
    /\ pc[t] = "ret" /\ res[t] = "ok" /\ fn[t] = "unlock" => store \in keys
    /\ pc[t] = "ret" /\ res[t] = "ok" /\ fn[t] \in Replaces => obj[t] \in keys

\* While the window is unlocked nothing is under way that loads, wipes or replaces the keys.
Undisturbed ==
  Unlocked =>
    /\ store \in keys
    /\ \A t \in Task : /\ Deep(t) => fn[t] = "recheck"
                       /\ op[t] = "unlock" => \/ Closed(Owner[t])
                                              \/ InQueue(t) /\ fn[t] \in {"list_meta", "status"}

LoadInv == Objects /\ Current /\ Loaded /\ Undisturbed /\ SyncStaysInOneUnlock

SafeInv == QueueInv /\ Orderly /\ LoadInv

LEMMA InitLoad == Init => LoadInv
  <1> SUFFICES ASSUME Init PROVE LoadInv
    OBVIOUS
  <1>1. \A t \in Task : ~InQueue(t) /\ fn[t] = "none"
    BY DEF Init, InQueue
  <1>2. ~Unlocked
    BY NoConnAssumption DEF Init, Unlocked, Closed, Live
  <1> QED
    BY <1>1, <1>2 DEF Init, LoadInv, Objects, Current, Loaded, Undisturbed, SyncStaysInOneUnlock

\* One task runs at a time.
LEMMA OneRunner ==
  ASSUME Typed, Queue, NEW t \in Task, NEW u \in Task, Running(t), Running(u)
  PROVE  t = u
  BY RunnerOwns DEF Queue, Owns

LEMMA UnlockedOpen == Unlocked => tier1 # NoConn
  BY NoConnAssumption DEF Unlocked, Closed, Live, Conn

\* A call in progress is on the session's store, unless it makes a new one: no other object
\* has keys.
LEMMA KeysOfRunner ==
  ASSUME Typed, Queue, Objects, NEW t \in Task, Running(t)
  PROVE  /\ fn[t] \notin Replaces => keys \subseteq {store}
         /\ fn[t] \in Replaces => keys \subseteq {obj[t]}
  <1>1. fn[t] \in Replaces => store \notin keys
    BY DEF Objects, InQueue, Running
  <1>2. ASSUME NEW o \in keys, o # store PROVE fn[t] \in Replaces /\ obj[t] = o
    BY <1>2, OneRunner DEF Objects
  <1> QED
    BY <1>1, <1>2

\* A lock.
LEMMA LockLoad ==
  ASSUME SafeInv, LockSession, UNCHANGED <<store, pc, taskVars>>
  PROVE  LoadInv'
  <1> USE DEF SafeInv, LoadInv, QueueInv, KeysInv, taskVars
  <1>1. /\ keys' \subseteq keys /\ fresh' = {} /\ tier1' = NoConn
        /\ MutexHeld(store) => wipe_after' /\ store \in wipe_req'
        /\ ~MutexHeld(store) => store \notin keys' /\ wipe_req' = wipe_req \ {store}
        /\ wipe_req' \subseteq wipe_req \cup {store}
    BY DEF LockSession, CloseStore, WipeStore, WipePending
  <1>2. Objects'
    BY <1>1 DEF Objects, InQueue, Running
  <1>3. Current' /\ Loaded'
    BY <1>1 DEF Current, Loaded
  <1>4. Undisturbed'
    BY <1>1, NoConnAssumption DEF Undisturbed, Unlocked, Closed, Live
  <1>5. SyncStaysInOneUnlock'
    <2> SUFFICES ASSUME NEW t \in Task, fn[t] = "sync", obj[t] \in keys', pc[t] \in {"run", "in"}
                 PROVE  pc[t] = "in" /\ obj[t] \in wipe_req'
      BY DEF SyncStaysInOneUnlock
    <2>1. Running(t) /\ obj[t] = store
      BY <1>1, KeysOfRunner DEF Running, Replaces
    <2>2. PICK u \in Task : pc[u] = "in" /\ obj[u] = store
      BY <1>1, <2>1 DEF MutexHeld
    <2>3. u = t
      BY <2>1, <2>2, OneRunner DEF Running
    <2> QED
      BY <1>1, <2>1, <2>2, <2>3
  <1> QED
    BY <1>2, <1>3, <1>4, <1>5

\* A step that leaves keys, tasks and tier 1 alone, and opens no window.
LEMMA QuietLoad ==
  ASSUME SafeInv,
         UNCHANGED <<store, pc, taskVars, tier1, keys, wipe_req, wipe_after, fresh, jfresh>>,
         Unlocked' => Unlocked /\ \A c \in Window : Closed(c) => Closed(c)'
  PROVE  LoadInv'
  <1> USE DEF SafeInv, LoadInv, QueueInv, KeysInv, taskVars, InQueue, Running
  <1>1. Objects' /\ Current' /\ Loaded' /\ SyncStaysInOneUnlock'
    BY DEF Objects, Current, Loaded, SyncStaysInOneUnlock
  <1>2. Undisturbed'
    BY DEF Undisturbed, Deep, Typed, RolesKept, WindowOp
  <1> QED
    BY <1>1, <1>2

LEMMA ConnectionLoad ==
  ASSUME SafeInv, NEW c \in Conn,
         HelloWindow(c) \/ HelloReads(c) \/ HelloReply(c) \/ HelloBrowser(c) \/ Close(c) \/ Detach(c)
  PROVE  LoadInv'
  <1> USE DEF lockVars, openVars, storeVars
  <1>1. UNCHANGED <<store, pc, taskVars>>
    BY DEF HelloWindow, HelloReads, HelloReply, HelloBrowser, Close, Detach
  <1>2. CASE LockSession
    BY <1>1, <1>2, LockLoad
  <1>3. CASE ~LockSession
    <2>1. UNCHANGED <<tier1, keys, wipe_req, wipe_after, fresh, jfresh>>
      BY <1>3 DEF HelloWindow, HelloReads, HelloReply, HelloBrowser, Close, Detach
    <2>2. Unlocked' => Unlocked /\ \A w \in Window : Closed(w) => Closed(w)'
      <3> USE DEF SafeInv, QueueInv, KeysInv, Typed, TypeOK, Unlocked, Closed, Live, Stage
      <3>1. CASE HelloWindow(c)
        BY <1>3, <2>1, <3>1, NoConnAssumption DEF HelloWindow
      <3>2. CASE HelloReads(c) \/ HelloReply(c) \/ Close(c)
        BY <2>1, <3>2 DEF HelloReads, HelloReply, Close
      <3>3. CASE HelloBrowser(c)
        BY <2>1, <3>3, RolesAssumption, NoConnAssumption DEF HelloBrowser
      <3>4. CASE Detach(c)
        BY <1>3, <2>1, <3>4 DEF Detach, DetachLocks
      <3> QED
        BY <3>1, <3>2, <3>3, <3>4
    <2> QED
      BY <1>1, <2>1, <2>2, QuietLoad
  <1> QED
    BY <1>2, <1>3

LEMMA LockingLoad ==
  ASSUME SafeInv, Lock \/ AutofillExpires \/ AutofillTimeout
  PROVE  LoadInv'
  <1> USE DEF storeVars
  <1>1. UNCHANGED <<store, pc, taskVars, conn, ui>>
    BY DEF Lock, AutofillExpires, AutofillTimeout
  <1>2. CASE LockSession
    BY <1>1, <1>2, LockLoad
  <1>3. CASE ~LockSession
    <2>1. UNCHANGED <<tier1, keys, wipe_req, wipe_after, fresh, jfresh>>
      BY <1>3 DEF Lock, AutofillExpires, AutofillTimeout
    <2> QED
      BY <1>1, <2>1, QuietLoad DEF Unlocked, Closed, Live
  <1> QED
    BY <1>2, <1>3

\* The worker.  It is the head's, so it finds no other call under way.
LEMMA WorkerLoad ==
  ASSUME SafeInv, NEW t \in Task, Begin(t) \/ Worker(t)
  PROVE  LoadInv'
  <1> USE DEF SafeInv, LoadInv, QueueInv, KeysInv
  <1>1. /\ pc[t] \in {"wait", "run", "in"} /\ pc'[t] \in {"run", "in", "ret"}
        /\ UNCHANGED <<fn, fresh, store_lock, tier1, wipe_after>>
        /\ \A u \in Task \ {t} : pc'[u] = pc[u]
        /\ (Running(t) /\ UNCHANGED jfresh) \/ (Owns(t) /\ jfresh' = jfresh \cup {t})
    BY WorkerMoves
  <1>2. /\ UNCHANGED <<conn, ui, op, store, wipe_req>>
        /\ \A u \in Task \ {t} : obj'[u] = obj[u] /\ res'[u] = res[u]
    BY DEF Begin, Worker, Enter, Leave, LeaveUnlock, SyncEnds, ReadState, MoveAside, Made,
           WorkerDone, notWorker, taskVars, storeVars, Typed, TypeOK
  <1>3. Owns(t) /\ InQueue(t) /\ InQueue(t)' /\ Running(t)'
    BY <1>1, RunnerOwns DEF InQueue, Running, Queue
  <1>4. \A u \in Task \ {t} : ~Running(u) /\ ~Running(u)'
    BY <1>1, <1>3, RunnerOwns DEF Queue, Owns, Running
  <1>5. \A u \in Task : (InQueue(u)' <=> InQueue(u)) /\ (Deep(u)' <=> Deep(u))
    BY <1>1, <1>3 DEF InQueue, Deep
  <1>6. Unlocked' <=> Unlocked
    BY <1>1, <1>2 DEF Unlocked, Closed, Live
  <1>7. \A c : Closed(c)' <=> Closed(c)
    BY <1>2 DEF Closed, Live
  <1>8. t \in fresh => t \in jfresh'
    BY <1>1 DEF Current
  <1>9. Current'
    <2>1. fresh \subseteq Task
      BY DEF Typed, TypeOK
    <2> QED
      BY <1>1, <1>2, <1>4, <1>5, <1>8, <2>1 DEF Current
  \* What is left, by what the step does to the keys.
  <1>10. ASSUME UNCHANGED obj, keys' = keys \/ (wipe_after /\ keys' = keys \ {store}),
                pc[t] = "in" /\ fn[t] \in Replaces => res'[t] # "ok",
                pc'[t] = "ret" /\ res'[t] = "ok" => fn[t] # "unlock" /\ fn[t] \notin Replaces,
                fn[t] \in Replaces /\ pc[t] # "in" => pc'[t] # "ret" \/ res'[t] # "ok"
         PROVE  Objects' /\ Loaded' /\ Undisturbed'
    <2>1. Objects'
      <3>1. \A o \in keys' \ {store'} : Running(t)' /\ fn'[t] \in Replaces /\ obj'[t] = o
        BY <1>1, <1>2, <1>3, <1>4, <1>10 DEF Objects, Running
      <3> QED
        BY <1>1, <1>2, <1>5, <1>10, <3>1 DEF Objects
    <2>2. Loaded'
      <3>1. fresh \subseteq Task
        BY DEF Typed, TypeOK
      <3> QED
        BY <1>1, <1>2, <1>4, <1>5, <1>8, <1>10, <3>1 DEF Loaded, Current, Running
    <2>3. Undisturbed'
      BY <1>1, <1>2, <1>5, <1>6, <1>7, <1>10, UnlockedOpen DEF Undisturbed, Current
    <2> QED
      BY <2>1, <2>2, <2>3
  <1> USE DEF notWorker, WorkerDone, taskVars, storeVars, Typed, TypeOK
  <1>11. ASSUME fn[t] # "sync" \/ pc'[t] = "ret" PROVE SyncStaysInOneUnlock'
    BY <1>1, <1>4, <1>11 DEF SyncStaysInOneUnlock, Running
  <1>12. CASE Begin(t)
    <2>1. SyncStaysInOneUnlock'
      BY <1>1, <1>4, <1>12 DEF Begin, SyncStaysInOneUnlock, Running
    <2> QED
      BY <1>9, <1>10, <1>12, <2>1 DEF Begin
  <1>13. CASE Enter(t)
    <2>1. fn[t] \notin Replaces
      BY <1>13 DEF Enter, Serialized, NeedsKeys, Replaces
    <2>2. ~Enters(t) => wipe_after /\ obj[t] = store
      BY DEF Enters, Current
    <2>3. SyncStaysInOneUnlock'
      BY <1>1, <1>2, <1>4, <1>13 DEF Enter, Enters, SyncStaysInOneUnlock, Running
    <2> QED
      BY <1>9, <1>10, <1>13, <2>1, <2>2, <2>3 DEF Enter
  <1>14. CASE Leave(t)
    <2>1. fn[t] \notin Replaces /\ fn[t] # "unlock"
      BY <1>14 DEF Leave, Serialized, NeedsKeys, Replaces
    <2>2. keys' = keys \/ (wipe_after /\ keys' = keys \ {store})
      BY <1>14 DEF Leave, KeysOnLeaving, Current
    <2>3. SyncStaysInOneUnlock'
      BY <1>1, <1>2, <1>4, <1>14 DEF Leave, KeysOnLeaving, SyncStaysInOneUnlock, Running
    <2> QED
      BY <1>9, <1>10, <1>14, <2>1, <2>2, <2>3 DEF Leave
  <1>15. CASE SyncEnds(t)
    BY <1>9, <1>10, <1>11, <1>15 DEF SyncEnds, Replaces
  <1>16. CASE ReadState(t)
    BY <1>9, <1>10, <1>11, <1>16 DEF ReadState, Replaces
  <1>17. CASE MoveAside(t)
    <2>1. fn[t] # "sync" /\ fn[t] # "unlock"
      BY <1>17 DEF MoveAside, Replaces
    <2> QED
      BY <1>9, <1>10, <1>11, <1>17, <2>1 DEF MoveAside
  <1>18. CASE LeaveUnlock(t)
    <2>1. Deep(t) /\ obj[t] = store /\ fn[t] = "unlock"
      BY <1>3, <1>18 DEF LeaveUnlock, Objects, Deep, DeepCall
    <2>2. \A u \in Task : Deep(u) => u = t
      BY <2>1 DEF Orderly, OneDeep
    <2>3. ~Unlocked
      BY <2>1 DEF Undisturbed
    <2>4. keys \subseteq {store} /\ keys' \subseteq {store} /\ UNCHANGED obj
      BY <1>18, <2>1, KeysOfRunner DEF LeaveUnlock, Running, Replaces
    <2>5. Objects'
      BY <1>1, <1>2, <1>5, <2>1, <2>2, <2>4 DEF Objects, Deep, DeepCall, Replaces
    <2>6. res'[t] = "ok" /\ t \in fresh => store \in keys'
      BY <1>3, <1>18, <2>1 DEF LeaveUnlock, Current
    <2>7. Loaded'
      BY <1>1, <1>2, <1>3, <1>4, <1>5, <2>1, <2>2, <2>6 DEF Loaded, Running, Deep, DeepCall, Replaces, Waiting
    <2> QED
      BY <1>6, <1>9, <1>11, <2>1, <2>3, <2>5, <2>7 DEF Undisturbed
  <1>19. CASE Made(t)
    <2>1. Deep(t) /\ fn[t] \in Replaces /\ obj[t] = NoStore /\ store \notin keys
      BY <1>3, <1>19 DEF Made, Objects, Deep, DeepCall, Replaces
    <2>2. \A u \in Task : Deep(u) => u = t
      BY <2>1 DEF Orderly, OneDeep
    <2>3. ~Unlocked
      BY <2>1 DEF Undisturbed
    <2>4. keys = {}
      BY <1>19, <2>1, KeysOfRunner, NoStoreAssumption DEF Made, Running
    <2>5. \/ pc'[t] = "ret" /\ obj'[t] # store /\ keys' = {obj'[t]} /\ res'[t] = "ok"
          \/ keys' = {} /\ res'[t] # "ok" /\ obj'[t] = NoStore
      BY <1>19, <2>1, <2>4 DEF Made, Unreferenced
    <2>6. Objects'
      BY <1>1, <1>2, <1>3, <1>5, <2>1, <2>2, <2>5 DEF Objects, Deep, DeepCall, Replaces
    <2>7. Loaded'
      BY <1>1, <1>2, <1>3, <1>4, <1>5, <2>1, <2>2, <2>5 DEF Loaded, Running, Deep, DeepCall, Replaces, Waiting
    <2> QED
      BY <1>6, <1>9, <1>11, <2>1, <2>3, <2>6, <2>7 DEF Undisturbed, Replaces
  <1> QED
    BY <1>12, <1>13, <1>14, <1>15, <1>16, <1>17, <1>18, <1>19 DEF Worker

\* A task that is in no call makes one, or raises a dialog, or is answered.
LEMMA OutsideLoad ==
  ASSUME SafeInv, NEW t \in Task, ~InQueue(t),
         UNCHANGED <<conn, ui, tier1, store, keys, wipe_req, wipe_after>>,
         \A u \in Task \ {t} : /\ pc'[u] = pc[u] /\ fn'[u] = fn[u] /\ op'[u] = op[u]
                               /\ obj'[u] = obj[u] /\ res'[u] = res[u],
         fresh' \ {t} = fresh \ {t}, jfresh' \ {t} = jfresh \ {t}, fresh' \in SUBSET Task,
         \/ ~InQueue(t)' /\ op'[t] # "unlock"
         \/ /\ ~wipe_after
            /\ pc'[t] \in {"wait", "run"} /\ (pc'[t] = "run" => t \in jfresh')
            /\ fn'[t] \notin Waiting
            /\ fn'[t] \in DeepCall => fn'[t] = "recheck" \/ ~Unlocked
            /\ fn'[t] = "unlock" => obj'[t] = store
            /\ fn'[t] \in Replaces => obj'[t] = NoStore /\ store \notin keys
            /\ op'[t] = "unlock" /\ Unlocked => fn'[t] = "list_meta"
  PROVE  LoadInv'
  <1> USE DEF SafeInv, LoadInv, QueueInv, KeysInv
  <1>1. \A u \in Task \ {t} : /\ (InQueue(u)' <=> InQueue(u)) /\ (Running(u)' <=> Running(u))
                              /\ (Deep(u)' <=> Deep(u))
                              /\ (u \in fresh' <=> u \in fresh) /\ (u \in jfresh' <=> u \in jfresh)
    BY DEF InQueue, Running, Deep
  <1>2. ~Running(t) /\ (Running(t)' => t \in jfresh') /\ pc'[t] \notin {"in", "ret"}
    BY DEF Running, InQueue
  <1>3. (Unlocked' <=> Unlocked) /\ \A c : Closed(c)' <=> Closed(c)
    BY DEF Unlocked, Closed, Live
  <1>4. Objects'
    <2>1. \A o \in keys' \ {store'} : \E u \in Task : Running(u)' /\ fn'[u] \in Replaces /\ obj'[u] = o
      BY <1>1, <1>2 DEF Objects
    <2>2. \A u \in Task : InQueue(u)' /\ fn'[u] = "unlock" => obj'[u] = store'
      BY <1>1 DEF Objects
    <2>3. \A u \in Task : InQueue(u)' /\ fn'[u] \in Replaces =>
            store' \notin keys' /\ (pc'[u] # "ret" \/ res'[u] # "ok" => obj'[u] = NoStore)
      BY <1>1 DEF Objects
    <2> QED
      BY <2>1, <2>2, <2>3 DEF Objects
  <1>5. Current'
    <2>1. \A u \in fresh' : InQueue(u)' => ~wipe_after'
      BY <1>1 DEF Current
    <2>2. \A u \in fresh' : Running(u)' => u \in jfresh'
      BY <1>1, <1>2 DEF Current
    <2> QED
      BY <2>1, <2>2 DEF Current
  <1>6. Loaded'
    <2> SUFFICES ASSUME NEW u \in fresh', u # t
                 PROVE  /\ InQueue(u)' /\ fn'[u] \in Waiting =>
                             store' \in keys' /\ \A v \in Task : Running(v)' => v \in jfresh'
                        /\ pc'[u] = "ret" /\ res'[u] = "ok" /\ fn'[u] = "unlock" => store' \in keys'
                        /\ pc'[u] = "ret" /\ res'[u] = "ok" /\ fn'[u] \in Replaces => obj'[u] \in keys'
      BY <1>2 DEF Loaded, InQueue
    <2>1. u \in Task \ {t} /\ u \in fresh
      OBVIOUS
    <2>2. InQueue(u)' /\ fn'[u] \in Waiting => store \in keys /\ \A v \in Task : Running(v) => v \in jfresh
      BY <1>1, <2>1 DEF Loaded
    <2> QED
      BY <1>1, <1>2, <2>1, <2>2 DEF Loaded
  <1>7. Undisturbed'
    BY <1>1, <1>3 DEF Undisturbed, Deep, InQueue, DeepCall
  <1>8. SyncStaysInOneUnlock'
    BY <1>1, <1>2 DEF SyncStaysInOneUnlock, Running
  <1> QED
    BY <1>4, <1>5, <1>6, <1>7, <1>8

LEMMA RequestLoad ==
  ASSUME SafeInv, NEW t \in Task, Request(t)
  PROVE  LoadInv'
  <1> USE DEF SafeInv, QueueInv, KeysInv, Typed, TypeOK, SessionKept, openVars, storeVars, Requested
  <1>1. ~InQueue(t)
    BY DEF Committed, InQueue, Request, UnlockStarts, ReadStarts, QueryStarts,
           NamedStarts, NamesStarts, ReplaceStarts, SyncStarts
  <1>2. ASSUME NEW o, StartsAsking(t, o), o # "unlock", fresh' \in {fresh, fresh \cup {t}}
        PROVE  LoadInv'
    BY <1>1, <1>2, OutsideLoad DEF StartsAsking, InQueue
  <1>3. ASSUME NEW o, NEW f \in {"list_meta", "state", "get_meta", "open_entry"}, StartsWith(t, o, f),
               fresh' \in {fresh, fresh \cup {t}}, o = "unlock" /\ Unlocked => f = "list_meta"
        PROVE  LoadInv'
    <2>1. fn'[t] = f /\ f \notin DeepCall /\ f \notin Waiting /\ f \notin Replaces
      BY <1>3 DEF StartsWith, CallIn, DeepCall, Waiting, Replaces
    <2> QED
      BY <1>1, <1>3, <2>1, OutsideLoad DEF StartsWith, CallIn, DeepCall
  <1>4. CASE UnlockStarts(t)
    BY <1>3, <1>4 DEF UnlockStarts, Unlocked
  <1>5. CASE ReadStarts(t)
    BY <1>3, <1>5 DEF ReadStarts
  <1>6. CASE QueryStarts(t)
    BY <1>3, <1>6 DEF QueryStarts
  <1>7. CASE NamedStarts(t)
    BY <1>2, <1>7 DEF NamedStarts
  <1>8. CASE NamesStarts(t)
    BY <1>2, <1>8 DEF NamesStarts
  <1>9. CASE ReplaceStarts(t)
    BY <1>3, <1>9 DEF ReplaceStarts
  <1>10. CASE SyncStarts(t)
    BY <1>3, <1>10 DEF SyncStarts
  <1> QED
    BY <1>4, <1>5, <1>6, <1>7, <1>8, <1>9, <1>10 DEF Request

\* An approved dialog of a window still there finds no Deep request (AskAlone), so no keys
\* either unless the window is unlocked.
LEMMA NoKeysYet ==
  ASSUME SafeInv, NEW t \in Task, op[t] \in Opener, pc[t] = "ask", ~Closed(Owner[t]),
         ui = Owner[t], ~Unlocked, ~wipe_after
  PROVE  store \notin keys
  <1> USE DEF SafeInv, QueueInv, KeysInv, Orderly
  <1>1. \A u \in Task : ~Deep(u)
    BY DEF AskAlone
  <1>2. ~Open
    BY NoConnAssumption DEF Open, Unlocked, WindowInv, Typed, TypeOK
  <1>3. ~Opening
    BY <1>1 DEF Opening, Deep, InQueue, DeepCall, Waiting, Committed, Typed, TypeOK, Place
  <1> QED
    BY <1>2, <1>3 DEF KeysOnlyWhileOpen

LEMMA DialogLoad ==
  ASSUME OneOpener, SafeInv, NEW t \in Task, Dialog(t)
  PROVE  LoadInv'
  <1> USE DEF SafeInv, QueueInv, KeysInv, Typed, TypeOK, SessionKept, openVars, storeVars
  <1>1. ~InQueue(t) /\ pc[t] = "ask"
    BY DEF InQueue, Dialog, DialogRefused, UnlockApproved, NamesApproved, NamedApproved,
           FillApproved, ResetApproved, MigrateApproved, Approved
  <1>2. ASSUME Rest(t), SessionKept, UNCHANGED <<conn, ui, store, jfresh>>
        PROVE  LoadInv'
    BY <1>1, <1>2, OutsideLoad DEF Rest, RestUnder, InQueue
  <1>3. ASSUME NEW f, GoesOnWith(t, f), f \notin Waiting,
               f \in DeepCall => f = "recheck" \/ ~Unlocked,
               f \in Replaces /\ ~wipe_after => store \notin keys,
               op[t] = "unlock" /\ Unlocked => f = "list_meta"
        PROVE  LoadInv'
    <2>1. CASE wipe_after
      BY <1>2, <1>3, <2>1 DEF GoesOnWith
    <2>2. CASE ~wipe_after
      BY <1>1, <1>3, <2>2, OutsideLoad DEF GoesOnWith, CallIn, Replaces
    <2> QED
      BY <2>1, <2>2
  <1>4. CASE DialogRefused(t)
    BY <1>2, <1>4 DEF DialogRefused
  <1>5. CASE UnlockApproved(t)
    <2>1. ~Unlocked
      BY <1>1, <1>5 DEF UnlockApproved, Approved, LoadInv, Undisturbed
    <2> QED
      BY <1>3, <1>5, <2>1 DEF UnlockApproved, Waiting, Replaces
  <1>6. CASE NamesApproved(t)
    BY <1>6 DEF NamesApproved, Approved, Orderly, OpsKept, OneOpener
  <1>7. CASE NamedApproved(t)
    BY <1>3, <1>7 DEF NamedApproved, Approved, Waiting, Replaces, DeepCall
  <1>8. CASE FillApproved(t)
    BY <1>3, <1>8 DEF FillApproved, Approved, Waiting, Replaces, DeepCall
  <1>9. CASE ResetApproved(t)
    BY <1>3, <1>9 DEF ResetApproved, Approved, Waiting, Replaces, DeepCall
  <1>10. CASE MigrateApproved(t)
    <2> DEFINE f == IF res[t] = "empty" THEN "create" ELSE "reset"
    <2>1. /\ op[t] = "migrate" /\ ~Closed(Owner[t]) /\ ui = Owner[t]
          /\ f \in Replaces /\ f \notin Waiting
      BY <1>10 DEF MigrateApproved, Approved, StillAsked, Waiting, Replaces
    <2>2. CASE ~Unlocked
      <3>1. ~wipe_after => store \notin keys
        BY <1>1, <2>1, <2>2, NoKeysYet DEF Opener
      <3>2. GoesOnWith(t, f)
        BY <1>10, <2>2 DEF MigrateApproved
      <3> HIDE DEF f
      <3> QED
        BY <1>3, <2>1, <2>2, <3>1, <3>2
    <2>3. CASE Unlocked
      <3>1. /\ tier1' = NoConn /\ keys' \subseteq keys /\ UNCHANGED store
            /\ MutexHeld(store) => store \in wipe_req'
            /\ ~MutexHeld(store) => store \notin keys' /\ wipe_req' = wipe_req \ {store}
            /\ wipe_req' \subseteq wipe_req \cup {store}
            /\ wipe_after' = WipePending
            /\ MutexHeld(store) => WipePending
        BY <1>10, <2>3 DEF MigrateApproved, CloseStore, WipeStore, WipePending
      <3>2. ~Unlocked'
        BY <3>1, NoConnAssumption DEF Unlocked, Closed, Live
      <3>3. \/ RestUnder(t, {}) /\ jfresh' = {}
            \/ ~WipePending /\ CallIn(store_lock, t, f, store, {}) /\ fresh' = {t}
        BY <1>10, <2>3 DEF MigrateApproved
      <3>4. /\ \A u \in Task \ {t} : /\ pc'[u] = pc[u] /\ fn'[u] = fn[u]
                                     /\ obj'[u] = obj[u] /\ res'[u] = res[u]
            /\ \/ pc'[t] = "idle" /\ fn'[t] = "none" /\ fresh' = {}
               \/ /\ ~WipePending /\ fresh' = {t} /\ pc'[t] \in {"wait", "run"}
                  /\ pc'[t] = "run" => t \in jfresh'
                  /\ fn'[t] \in Replaces /\ obj'[t] = NoStore
        <4> HIDE DEF f
        <4> QED
          BY <2>1, <3>3 DEF RestUnder, CallIn
      <3>5. \A u \in Task \ {t} : (InQueue(u)' <=> InQueue(u)) /\ (Running(u)' <=> Running(u))
        BY <3>4 DEF InQueue, Running
      <3>6. Objects'
        <4>1. \A o \in keys' \ {store'} : \E u \in Task : Running(u)' /\ fn'[u] \in Replaces /\ obj'[u] = o
          BY <1>1, <3>1, <3>4, <3>5 DEF LoadInv, Objects, Running
        <4>2. \A u \in Task : InQueue(u)' /\ fn'[u] = "unlock" => obj'[u] = store'
          BY <3>1, <3>4, <3>5 DEF LoadInv, Objects, InQueue, Replaces
        <4>3. \A u \in Task : InQueue(u)' /\ fn'[u] \in Replaces =>
                store' \notin keys' /\ (pc'[u] # "ret" \/ res'[u] # "ok" => obj'[u] = NoStore)
          BY <3>1, <3>4, <3>5 DEF LoadInv, Objects, InQueue
        <4> QED
          BY <4>1, <4>2, <4>3 DEF Objects
      <3>7. Current'
        BY <3>1, <3>4 DEF LoadInv, Current, InQueue, Running
      <3>8. Loaded' /\ Undisturbed'
        BY <3>2, <3>4 DEF Loaded, Undisturbed, Waiting, Replaces
      <3>9. SyncStaysInOneUnlock'
        <4> SUFFICES ASSUME NEW u \in Task, fn'[u] = "sync", obj'[u] \in keys', pc'[u] \in {"run", "in"}
                     PROVE  pc'[u] = "in" /\ obj'[u] \in wipe_req'
          BY DEF SyncStaysInOneUnlock
        <4>1. u # t
          BY <3>4 DEF Replaces
        <4>2. Running(u) /\ fn[u] = "sync" /\ obj[u] \in keys'
          BY <3>4, <4>1 DEF Running
        <4>3. obj[u] = store
          BY <3>1, <4>2, KeysOfRunner DEF LoadInv, Replaces
        <4>4. PICK v \in Task : pc[v] = "in" /\ obj[v] = store
          BY <3>1, <4>2, <4>3 DEF MutexHeld
        <4>5. v = u
          BY <4>2, <4>4, OneRunner DEF Running
        <4> QED
          BY <3>1, <3>4, <4>1, <4>2, <4>3, <4>4, <4>5
      <3> QED
        BY <3>6, <3>7, <3>8, <3>9 DEF LoadInv
    <2> QED
      BY <2>2, <2>3
  <1> QED
    BY <1>4, <1>5, <1>6, <1>7, <1>8, <1>9, <1>10 DEF Dialog

\* A task other than t, when t's call returns.
LEMMA AfterReturn ==
  ASSUME SafeInv, OneOpener, NEW t \in Task, Return(t)
  PROVE  /\ Returning(t) /\ Running(t) /\ InQueue(t) /\ UNCHANGED <<conn, ui>>
         /\ \A u \in Task \ {t} :
              /\ pc'[u] = pc[u] /\ fn'[u] = fn[u] /\ op'[u] = op[u]
              /\ obj'[u] = obj[u] /\ res'[u] = res[u]
              /\ (u \in fresh' => u \in fresh)
              /\ ~Running(u) /\ ~Running(u)' /\ (InQueue(u)' <=> InQueue(u)) /\ (Deep(u)' <=> Deep(u))
         /\ ~wipe_after' /\ wipe_req' = {}
         /\ \A u \in Task : Running(u)' => u \in jfresh'
         /\ pc'[t] \notin {"in", "ret"}
  <1> USE DEF SafeInv, LoadInv, QueueInv, KeysInv
  <1>1. Returning(t) /\ UNCHANGED <<conn, ui>> /\ wipe_after' = FlagAfter(t)
    BY DEF Return, Back, StateReturns, UnlockReturns, TpmReturns, NamesReturns, ListReturns, StatusReturns,
           MetaReturns, EntryReturns, SyncReturns, RecheckReturns, MakeReturns, SaveReturns
  <1>2. Running(t) /\ InQueue(t) /\ OthersStay(t)
    BY <1>1, ReturnMoves DEF Returning, Running, InQueue
  <1>3. \A u \in Task \ {t} : ~Running(u)
    BY <1>2, OneRunner
  <1>4. \A u \in Task \ {t} : /\ ~Running(u)' /\ (InQueue(u)' <=> InQueue(u)) /\ (Deep(u)' <=> Deep(u))
    BY <1>2, <1>3 DEF OthersStay, Running, InQueue, Deep
  <1>5. \A u \in Task : Running(u)' => u \in jfresh'
    BY <1>1, <1>2, ReturnMoves, QueueLeft, QueueRejoined
  <1>6. ASSUME Ends(t) \/ Asks(t) \/ (\E f, o : Then(t, f, o))
               \/ (CallIn(Tail(store_lock), t, "reset", store, {}) /\ UNCHANGED op)
        PROVE  /\ \A u \in Task \ {t} : op'[u] = op[u] /\ obj'[u] = obj[u] /\ res'[u] = res[u]
               /\ pc'[t] \notin {"in", "ret"}
    BY <1>6 DEF Ends, Rest, RestUnder, Asks, Then, CallIn, Typed, TypeOK
  <1>7. Ends(t) \/ Asks(t) \/ (\E f, o : Then(t, f, o))
          \/ (CallIn(Tail(store_lock), t, "reset", store, {}) /\ UNCHANGED op)
    BY DEF Return, StateReturns, UnlockReturns, TpmReturns, NamesReturns, ListReturns, StatusReturns,
           MetaReturns, EntryReturns, SyncReturns, RecheckReturns, MakeReturns, SaveReturns
  <1>8. \A u \in Task \ {t} : u \in fresh' => u \in fresh
    BY ReturnMoves DEF KeepsEpochs
  <1>9. Settle(t) \/ SettleAndWipe(t) \/ wipe_req' = ReqAfter(t)
    BY DEF Return, StateReturns, UnlockReturns, TpmReturns, NamesReturns, ListReturns, StatusReturns,
           MetaReturns, EntryReturns, SyncReturns, RecheckReturns, MakeReturns, SaveReturns, Settle
  <1>10. wipe_req' = {}
    BY <1>9 DEF Settle, SettleAndWipe, ReqAfter, Wipes, Current
  <1>11. ~wipe_after'
    BY <1>1 DEF FlagAfter, Wipes
  <1> QED
    BY <1>1, <1>2, <1>3, <1>4, <1>5, <1>6, <1>7, <1>8, <1>10, <1>11 DEF OthersStay

\* Then all that is left to show is where the keys are.
LEMMA ReturnLoad ==
  ASSUME SafeInv, OneOpener, NEW t \in Task, Return(t), Objects', Loaded', Undisturbed'
  PROVE  LoadInv'
  <1>1. /\ ~wipe_after' /\ wipe_req' = {}
        /\ \A u \in Task : Running(u)' => u \in jfresh'
        /\ \A u \in Task : pc'[u] # "in"
    BY AfterReturn DEF Running
  <1>2. fresh' \in SUBSET Task
    BY NextTyped DEF SafeInv, QueueInv, KeysInv, Next, Typed, TypeOK
  <1>3. Current'
    BY <1>1, <1>2 DEF Current
  <1>4. SyncStaysInOneUnlock'
    BY <1>1 DEF SyncStaysInOneUnlock, Running
  <1> QED
    BY <1>3, <1>4 DEF LoadInv

\* No lock landed: run_store's finally clause leaves the keys alone.
LEMMA KeysSettled ==
  ASSUME NEW t \in Task, ~wipe_after, t \in jfresh \/ (Unlocked /\ fn[t] \notin Replaces)
  PROVE  KeysAfter(t) = keys
  BY DEF KeysAfter, MadeInVain, Wipes

\* The returning task was not to touch the keys, and makes no call that will.
LEMMA QuietReturn ==
  ASSUME SafeInv, OneOpener, NEW t \in Task, Return(t), Settle(t), UNCHANGED <<store, tier1>>,
         fn[t] \in Replaces => res[t] # "ok",
         ~Deep(t)',
         op'[t] = "unlock" =>
           \/ ~Closed(Owner[t]) /\ op[t] = "unlock" /\ fn[t] \notin {"list_meta", "status"}
           \/ InQueue(t)' /\ fn'[t] = "status"
  PROVE  LoadInv'
  <1> USE DEF SafeInv, LoadInv, QueueInv, KeysInv
  <1>1. /\ Returning(t) /\ Running(t) /\ InQueue(t) /\ UNCHANGED <<conn, ui>>
        /\ \A u \in Task \ {t} :
             /\ pc'[u] = pc[u] /\ fn'[u] = fn[u] /\ op'[u] = op[u]
             /\ obj'[u] = obj[u] /\ res'[u] = res[u]
             /\ (u \in fresh' => u \in fresh)
             /\ ~Running(u) /\ ~Running(u)' /\ (InQueue(u)' <=> InQueue(u)) /\ (Deep(u)' <=> Deep(u))
        /\ \A u \in Task : Running(u)' => u \in jfresh'
        /\ pc'[t] \notin {"in", "ret"}
    BY AfterReturn
  <1>2. fresh' \in SUBSET Task
    BY NextTyped DEF Next, Typed, TypeOK
  <1>3. keys \subseteq {store} /\ keys' \subseteq keys
    <2>1. fn[t] \in Replaces => obj[t] = NoStore /\ keys = {}
      BY <1>1, KeysOfRunner, NoStoreAssumption DEF Objects, Typed, TypeOK
    <2> QED
      BY <1>1, <2>1, KeysOfRunner DEF Settle, KeysAfter
  <1>4. ~(InQueue(t)' /\ fn'[t] \in DeepCall)
    BY DEF Deep
  <1>5. Objects'
    BY <1>1, <1>3, <1>4 DEF Objects, DeepCall, Replaces
  <1>6. Loaded'
    <2> SUFFICES ASSUME NEW u \in fresh', InQueue(u)', fn'[u] \in Waiting PROVE store \in keys'
      BY <1>1, <1>2 DEF Loaded, Running
    <2>1. u \in Task \ {t}
      BY <1>2, <1>4 DEF DeepCall, Waiting
    <2>2. store \in keys /\ t \in jfresh /\ ~wipe_after
      BY <1>1, <2>1 DEF Loaded, Current
    <2> QED
      BY <2>2, KeysSettled DEF Settle
  <1>7. Undisturbed'
    <2> SUFFICES ASSUME Unlocked' PROVE Undisturbed'
      BY DEF Undisturbed
    <2>1. Unlocked /\ \A c : Closed(c)' <=> Closed(c)
      BY <1>1 DEF Unlocked, Closed, Live
    <2>2. ~wipe_after
      BY <2>1, UnlockedOpen DEF Current
    <2>3. store \in keys /\ \A u \in Task : Deep(u) => fn[u] = "recheck"
      BY <2>1 DEF Undisturbed
    <2>4. fn[t] \notin Replaces
      BY <1>1, <2>3 DEF Deep, DeepCall, Replaces
    <2>5. store' \in keys'
      BY <1>1, <2>1, <2>2, <2>3, <2>4, KeysSettled DEF Settle
    <2>6. op'[t] = "unlock" => InQueue(t)' /\ fn'[t] = "status"
      BY <2>1 DEF Undisturbed
    <2> QED
      BY <1>1, <2>1, <2>3, <2>5, <2>6 DEF Undisturbed
  <1> QED
    BY <1>5, <1>6, <1>7, ReturnLoad

LEMMA ReturnLoads ==
  ASSUME SafeInv, OneOpener, NEW t \in Task, Return(t)
  PROVE  LoadInv'
  <1> USE DEF SafeInv, QueueInv, KeysInv, openVars, storeVars
  <1>1. /\ Returning(t) /\ Running(t) /\ InQueue(t) /\ UNCHANGED <<conn, ui>>
        /\ \A u \in Task \ {t} :
             /\ pc'[u] = pc[u] /\ fn'[u] = fn[u] /\ op'[u] = op[u]
             /\ obj'[u] = obj[u] /\ res'[u] = res[u]
             /\ (u \in fresh' => u \in fresh)
             /\ ~Running(u) /\ ~Running(u)' /\ (InQueue(u)' <=> InQueue(u)) /\ (Deep(u)' <=> Deep(u))
        /\ \A u \in Task : Running(u)' => u \in jfresh'
        /\ pc'[t] \notin {"in", "ret"}
    BY AfterReturn
  <1>2. pc[t] = "ret" /\ fresh' \in SUBSET Task
    <2>1. Typed'
      BY ReturnTyped
    <2> QED
      BY <1>1, <2>1 DEF Typed, TypeOK, Returning
  <1>3. \A c : Closed(c)' <=> Closed(c)
    BY <1>1 DEF Closed, Live
  \* A task that ends, or asks, is Deep no more; nor is one that reads the list.
  <1>4. /\ Ends(t) => ~InQueue(t)' /\ op'[t] = "none"
        /\ Asks(t) => ~InQueue(t)' /\ (op'[t] = "none" \/ (op'[t] = op[t] /\ ~Closed(Owner[t])))
        /\ \A f, o : Then(t, f, o) => /\ InQueue(t)' /\ fn'[t] = f /\ op'[t] = op[t]
                                      /\ f \notin Replaces => obj'[t] = o
    BY DEF Ends, Rest, RestUnder, Asks, MayAsk, Then, CallIn, InQueue, Typed, TypeOK
  <1>5. ASSUME Settle(t), UNCHANGED <<store, tier1>>, Ends(t), fn[t] \in Replaces => res[t] # "ok"
        PROVE  LoadInv'
    BY <1>4, <1>5, QuietReturn DEF Deep
  <1>6. ASSUME Settle(t), UNCHANGED <<store, tier1>>, Asks(t), fn[t] \notin Replaces,
               op[t] = "unlock" => fn[t] \notin {"list_meta", "status"}
        PROVE  LoadInv'
    BY <1>4, <1>6, QuietReturn DEF Deep
  \* A further call that is not Deep.
  <1>20. ASSUME Settle(t), UNCHANGED <<store, tier1>>, NEW f, Then(t, f, store), f \notin DeepCall,
                fn[t] \notin Replaces, op[t] = "unlock" => f = "status"
         PROVE  LoadInv'
    BY <1>4, <1>20, QuietReturn DEF Deep
  \* A Deep task returns: no other is, and no other request opens the store.
  <1>7. ASSUME Deep(t), NEW u \in Task \ {t} PROVE ~Deep(u) /\ ~Deep(u)'
    BY <1>1, <1>7 DEF Orderly, OneDeep
  <1>8. ASSUME Deep(t), ~Closed(Owner[t]), NEW u \in Task, u # t, op'[u] = "unlock" PROVE Closed(Owner[u])
    <2>1. op[t] \in Opener /\ op[u] \in Opener
      BY <1>1, <1>8 DEF Orderly, CallsKept, Deep, Opener
    <2> QED
      BY <1>8, <2>1, OtherClosed DEF Orderly
  <1>9. t \in fresh => t \in jfresh /\ ~wipe_after /\ KeysAfter(t) = keys
    BY <1>1, KeysSettled DEF LoadInv, Current
  <1>10. Deep(t) /\ fn[t] # "recheck" => ~Unlocked
    BY DEF LoadInv, Undisturbed
  <1>11. UNCHANGED tier1 => (Unlocked' <=> Unlocked)
    BY <1>1 DEF Unlocked, Closed, Live
  \* It does not go on, and the keys are wiped.
  <1>12. ASSUME SettleAndWipe(t), UNCHANGED <<store, tier1>>, Ends(t), Deep(t), fn[t] # "recheck",
                fn[t] \notin Replaces
         PROVE  LoadInv'
    <2>1. keys' = {}
      BY <1>1, <1>12, KeysOfRunner DEF SettleAndWipe, KeysAfter, LoadInv
    <2>2. \A u \in Task : ~Deep(u)'
      BY <1>4, <1>7, <1>12 DEF Deep
    <2>3. Objects' /\ Loaded' /\ Undisturbed'
      BY <1>1, <1>2, <1>10, <1>11, <1>12, <2>1, <2>2
         DEF Objects, Loaded, Undisturbed, InQueue, Deep, DeepCall, Replaces, Waiting
    <2> QED
      BY <2>3, ReturnLoad
  \* It goes on, having seen no lock, to the call before open_tier1.
  <1>13. ASSUME UNCHANGED tier1, t \in fresh, Settle(t), store' \in keys, keys \subseteq {store'},
                NEW f \in Waiting, Then(t, f, store'), Deep(t), fn[t] # "recheck"
         PROVE  LoadInv'
    <2>1. keys' = {store'}
      BY <1>9, <1>13 DEF Settle
    <2>2. fn'[t] \in Waiting
      BY <1>4, <1>13
    <2>3. Objects'
      BY <1>1, <1>7, <1>13, <2>1, <2>2 DEF Objects, Deep, DeepCall, Replaces, Waiting
    <2>4. Loaded'
      BY <1>1, <1>2, <2>1 DEF Loaded, Running
    <2>5. Undisturbed'
      BY <1>10, <1>11, <1>13 DEF Undisturbed
    <2> QED
      BY <2>3, <2>4, <2>5, ReturnLoad
  \* It opens tier 1, having seen no lock.
  <1>14. ASSUME t \in fresh, fn[t] \in Waiting, Settle(t), UNCHANGED store, ~Closed(Owner[t]), Deep(t),
                Ends(t) \/ (Then(t, "list_meta", store) /\ op[t] = "unlock")
         PROVE  LoadInv'
    <2>1. store \in keys /\ keys \subseteq {store}
      BY <1>1, <1>14, KeysOfRunner DEF LoadInv, Loaded, Waiting, Replaces
    <2>2. keys' = {store'}
      BY <1>9, <1>14, <2>1 DEF Settle
    <2>3. ~Deep(t)' /\ (op'[t] = "unlock" => InQueue(t)' /\ fn'[t] = "list_meta")
      BY <1>4, <1>14 DEF Deep, DeepCall
    <2>4. \A u \in Task : ~Deep(u)'
      BY <1>7, <1>14, <2>3
    <2>5. Objects' /\ Loaded'
      BY <1>1, <1>2, <2>2, <2>4 DEF Objects, Loaded, InQueue, Deep, DeepCall, Replaces, Waiting
    <2>6. Undisturbed'
      BY <1>3, <1>8, <1>14, <2>2, <2>3, <2>4 DEF Undisturbed
    <2> QED
      BY <2>5, <2>6, ReturnLoad
  <1> USE DEF Back, NotLockedSince, NotLockedMeanwhile
  <1>21. CASE StateReturns(t)
    BY <1>5, <1>6, <1>20, <1>21 DEF StateReturns, Replaces, DeepCall
  <1>22. CASE UnlockReturns(t)
    <2>1. /\ fn[t] = "unlock" /\ Deep(t) /\ keys \subseteq {store}
          /\ t \in fresh /\ res[t] = "ok" => store \in keys
      BY <1>1, <1>2, <1>22, KeysOfRunner DEF UnlockReturns, Deep, DeepCall, Replaces, LoadInv, Loaded
    <2> QED
      BY <1>5, <1>12, <1>13, <1>22, <2>1 DEF UnlockReturns, Waiting, Replaces
  <1>23. CASE TpmReturns(t)
    <2>1. fn[t] = "tpm_move_state" /\ op[t] = "unlock" /\ Deep(t)
      BY <1>1, <1>23 DEF TpmReturns, Deep, DeepCall
    <2> QED
      BY <1>12, <1>14, <1>23, <2>1 DEF TpmReturns, Waiting, Replaces
  <1>24. CASE NamesReturns(t)
    BY <1>24 DEF NamesReturns, Orderly, OpsKept, OneOpener
  <1>25. CASE ListReturns(t)
    BY <1>5, <1>20, <1>25 DEF ListReturns, Replaces, DeepCall
  <1>26. CASE StatusReturns(t) \/ EntryReturns(t)
    BY <1>5, <1>26 DEF StatusReturns, EntryReturns, Replaces
  <1>31. CASE MetaReturns(t)
    BY <1>5, <1>6, <1>20, <1>31 DEF MetaReturns, Replaces, DeepCall
  <1>27. CASE SyncReturns(t)
    BY <1>5, <1>20, <1>27 DEF SyncReturns, Replaces, DeepCall
  <1>28. CASE RecheckReturns(t)
    <2>1. fn[t] = "recheck" /\ Deep(t) /\ UNCHANGED store
      BY <1>1, <1>28 DEF RecheckReturns, Deep, DeepCall
    <2>2. CASE Ends(t) /\ Settle(t) /\ UNCHANGED openVars
      BY <1>5, <2>1, <2>2 DEF Replaces
    <2>3. CASE /\ tier1' = NoConn /\ SettleAndWipe(t) /\ fresh' = {t}
               /\ CallIn(Tail(store_lock), t, "reset", store, {})
      <3>1. keys' = {}
        BY <1>1, <2>1, <2>3, KeysOfRunner DEF SettleAndWipe, KeysAfter, LoadInv, Replaces
      <3>2. fn'[t] = "reset" /\ obj'[t] = NoStore
        BY <2>3 DEF CallIn, Replaces, Typed, TypeOK
      <3>3. Objects' /\ Loaded'
        BY <1>1, <1>2, <1>7, <2>1, <2>3, <3>1, <3>2
           DEF Objects, Loaded, InQueue, Deep, DeepCall, Replaces, Waiting
      <3>4. Undisturbed'
        BY <2>3, NoConnAssumption DEF Undisturbed, Unlocked, Closed, Live
      <3> QED
        BY <3>3, <3>4, ReturnLoad
    <2> QED
      BY <1>28, <2>2, <2>3 DEF RecheckReturns
  <1>29. CASE MakeReturns(t)
    <2>1. fn[t] \in Replaces /\ Deep(t) /\ keys \subseteq {obj[t]}
      BY <1>1, <1>29, KeysOfRunner DEF MakeReturns, Deep, DeepCall, Replaces, LoadInv
    <2>2. CASE ~Adopts(t)
      BY <1>5, <1>29, <2>2 DEF MakeReturns, Adopts
    <2>3. CASE Adopts(t) /\ NotLockedSince(t)
      <3>1. obj[t] \in keys /\ t \in fresh
        BY <1>2, <2>1, <2>3 DEF Adopts, LoadInv, Loaded
      <3> QED
        BY <1>13, <1>29, <2>1, <2>3, <3>1 DEF MakeReturns, Waiting, Replaces
    <2>4. CASE Adopts(t) /\ ~NotLockedSince(t)
      <3>1. keys' = {} /\ Ends(t) /\ UNCHANGED tier1
        BY <1>29, <2>1, <2>4 DEF MakeReturns, KeysAfter
      <3>2. \A u \in Task : ~Deep(u)'
        BY <1>4, <1>7, <2>1, <3>1 DEF Deep
      <3>3. ~Unlocked'
        BY <1>10, <1>11, <2>1, <3>1 DEF Replaces
      <3>4. Objects' /\ Loaded' /\ Undisturbed'
        BY <1>1, <1>2, <3>1, <3>2, <3>3
           DEF Objects, Loaded, Undisturbed, InQueue, Deep, DeepCall, Replaces, Waiting
      <3> QED
        BY <3>4, ReturnLoad
    <2> QED
      BY <2>2, <2>3, <2>4
  <1>30. CASE SaveReturns(t)
    <2>1. fn[t] = "save_settings" /\ Deep(t)
      BY <1>1, <1>30 DEF SaveReturns, Deep, DeepCall
    <2> QED
      BY <1>12, <1>14, <1>30, <2>1 DEF SaveReturns, Waiting, Replaces
  <1> QED
    BY <1>21, <1>22, <1>23, <1>24, <1>25, <1>26, <1>27, <1>28, <1>29, <1>30, <1>31
       DEF Return

LEMMA NextSafe ==
  ASSUME OneOpener PROVE SafeInv /\ [Next]_vars => SafeInv'
  <1> SUFFICES ASSUME SafeInv, [Next]_vars PROVE LoadInv'
    BY NextQueue, NextOrderly DEF SafeInv
  <1>1. CASE UNCHANGED vars
    BY <1>1, QuietLoad DEF vars, openVars, storeVars, Unlocked, Closed, Live
  <1>2. CASE Next
    BY <1>2, LockingLoad, ConnectionLoad, RequestLoad, DialogLoad, WorkerLoad, ReturnLoads DEF Next
  <1> QED
    BY <1>1, <1>2

LEMMA SafeAlways ==
  ASSUME OneOpener PROVE Spec => []SafeInv
  <1>1. Init => SafeInv
    BY InitQueue, InitOrderly, InitLoad DEF SafeInv
  <1> QED
    BY <1>1, NextSafe, PTL DEF Spec

\* With one request at a time that opens or replaces the store, no object that the session has
\* replaced keeps its keys: an unlock never reaches the old object once a new one is the
\* session's (handlers._replace_store, op_unlock, Registry.run_store).
THEOREM StoreNoStrayKeys == ASSUME OneOpener PROVE Spec => []NoStrayKeys
  <1>1. SafeInv => NoStrayKeys
    BY DEF SafeInv, LoadInv, Objects, NoStrayKeys
  <1> QED
    BY <1>1, SafeAlways, PTL

\* Then a sync never works on the keys of a later unlock, although it is many calls with waits
\* for the network between them (handlers.background_sync, UserStore._serialized).
THEOREM StoreSyncStaysInOneUnlock == ASSUME OneOpener PROVE Spec => []SyncStaysInOneUnlock
  <1>1. SafeInv => SyncStaysInOneUnlock
    BY DEF SafeInv, LoadInv
  <1> QED
    BY <1>1, SafeAlways, PTL

\* And an unlocked window has its keys: no handler that gives up wipes them under it
\* (Session.unlocked, _wipe_store's callers).
THEOREM StoreWindowHasItsKeys == ASSUME OneOpener PROVE Spec => []WindowHasItsKeys
  <1>1. SafeInv => WindowHasItsKeys
    BY DEF SafeInv, LoadInv, Undisturbed, WindowHasItsKeys
  <1> QED
    BY <1>1, SafeAlways, PTL


-----------------------------------------------------------------------------
(***************************************************************************)
(* NoKeysAsleep, of the module Power.  Between the lock of a night and the *)
(* suspend the store is Shut: nothing is open, and no request in a call    *)
(* has seen no lock since, so that none can open it until a person         *)
(* approves another.  SafeInv then says what keys there may be.  It also   *)
(* takes that a request which is over has no epoch (NoneFresh), and that a *)
(* lock waits only for a call that runs (WipeAwaited).                     *)
(***************************************************************************)

Shut == ~Open /\ \A t \in fresh : ~InQueue(t)

NoneFresh   == \A t \in Task : op[t] = "none" => t \notin fresh
WipeAwaited == wipe_after => \E t \in Task : Running(t)

GateInv == NoneFresh /\ WipeAwaited

LEMMA InitGate == Init => GateInv
  BY DEF Init, GateInv, NoneFresh, WipeAwaited

\* What one task does to both.
LEMMA TaskShut ==
  ASSUME Shut, NEW t \in Task, OthersStay(t), fresh' \subseteq fresh \cup {t}, fresh' \subseteq Task,
         UNCHANGED <<tier1, autofill_conn>>, InQueue(t)' => t \notin fresh'
  PROVE  Shut'
  BY DEF Shut, Open, OthersStay, InQueue

LEMMA TaskGate ==
  ASSUME Typed, GateInv, NEW t \in Task, \A u \in Task \ {t} : op'[u] = op[u] /\ pc'[u] = pc[u],
         fresh' \subseteq fresh \cup {t}, op'[t] = "none" => t \notin fresh',
         wipe_after' => wipe_after /\ ~Running(t)
  PROVE  GateInv'
  BY DEF GateInv, NoneFresh, WipeAwaited, Running

\* A session that is open for a connection is open.
LEMMA SessionOpen ==
  ASSUME NEW c, OpenSession(c) PROVE Open
  BY UnlockedOpen, NoConnAssumption DEF OpenSession, AutofillOpen, Closed, Live, Open

\* A lock, a timer or a connection: no task moves and nothing opens.
LEMMA AmbientGate ==
  ASSUME GateInv, UNCHANGED <<pc, op>>,
         \/ UNCHANGED <<tier1, wipe_after, fresh>> /\ (Open' => Open)
         \/ LockSession
  PROVE  GateInv' /\ (Shut => Shut')
  <1>1. CASE UNCHANGED <<tier1, wipe_after, fresh>> /\ (Open' => Open)
    BY <1>1 DEF GateInv, NoneFresh, WipeAwaited, Running, Shut, InQueue
  <1>2. CASE LockSession
    <2>1. ~Open' /\ fresh' = {} /\ wipe_after' = WipePending
      BY <1>2 DEF LockSession, CloseStore, WipeStore, Open
    <2>2. WipePending => \E t \in Task : Running(t)
      BY DEF WipePending, MutexHeld, replacing, Running
    <2> QED
      BY <2>1, <2>2 DEF GateInv, NoneFresh, WipeAwaited, Running, Shut
  <1> QED
    BY <1>1, <1>2

LEMMA LockingGate ==
  ASSUME GateInv, \/ Lock \/ AutofillExpires \/ AutofillTimeout
                  \/ \E c \in Conn : HelloWindow(c) \/ HelloReads(c) \/ HelloReply(c)
                                       \/ HelloBrowser(c) \/ Close(c) \/ Detach(c)
  PROVE  GateInv' /\ (Shut => Shut')
  <1> USE DEF lockVars, openVars, taskVars, Open
  <1>1. UNCHANGED <<pc, op>>
    BY DEF Lock, AutofillExpires, AutofillTimeout, HelloWindow, HelloReads, HelloReply, HelloBrowser,
           Close, Detach
  <1>2. \/ UNCHANGED <<tier1, wipe_after, fresh>> /\ (Open' => Open)
        \/ LockSession
    BY DEF Lock, AutofillExpires, AutofillTimeout, HelloWindow, HelloReads, HelloReply, HelloBrowser,
           Close, Detach
  <1> QED
    BY <1>1, <1>2, AmbientGate

LEMMA WorkerGate ==
  ASSUME Typed, GateInv, NEW t \in Task, Begin(t) \/ Worker(t)
  PROVE  GateInv' /\ (Shut => Shut')
  <1>1. /\ pc[t] \in {"wait", "run", "in"} /\ pc'[t] \in {"run", "in", "ret"}
        /\ UNCHANGED <<fresh, tier1, autofill_conn, wipe_after>>
        /\ \A u \in Task \ {t} : pc'[u] = pc[u]
    BY WorkerMoves
  <1>2. UNCHANGED op
    BY DEF Begin, Worker, Enter, Leave, LeaveUnlock, SyncEnds, ReadState, MoveAside, Made,
           notWorker, taskVars
  <1>3. \A u \in Task : (Running(u) => Running(u)') /\ (InQueue(u)' => InQueue(u))
    BY <1>1 DEF Running, InQueue
  <1> QED
    BY <1>1, <1>2, <1>3 DEF GateInv, NoneFresh, WipeAwaited, Shut, Open, Typed, TypeOK

LEMMA RequestGate ==
  ASSUME QueueInv, GateInv, NEW t \in Task, Request(t)
  PROVE  GateInv' /\ (Shut => Shut')
  <1>1. Typed /\ ~InQueue(t) /\ ~Running(t) /\ op[t] = "none" /\ t \notin fresh
    BY DEF QueueInv, KeysInv, Committed, GateInv, NoneFresh, InQueue, Running, Request, UnlockStarts,
           ReadStarts, QueryStarts, NamedStarts, NamesStarts, ReplaceStarts, SyncStarts, Requested
  <1>2. ASSUME NEW o, o # "none", NEW f, StartsWith(t, o, f) \/ StartsAsking(t, o),
               UNCHANGED fresh \/ (fresh' = fresh \cup {t} /\ Open)
        PROVE  GateInv' /\ (Shut => Shut')
    <2>1. /\ OthersStay(t) /\ \A u \in Task \ {t} : op'[u] = op[u] /\ pc'[u] = pc[u]
          /\ op'[t] = o
          /\ UNCHANGED <<tier1, autofill_conn, wipe_after>>
      BY <1>1, <1>2 DEF StartsWith, StartsAsking, CallIn, SessionKept, openVars, OthersStay, Typed, TypeOK
    <2>2. GateInv'
      BY <1>1, <1>2, <2>1, TaskGate
    <2>3. Shut => Shut'
      BY <1>1, <1>2, <2>1, TaskShut DEF Shut, Typed, TypeOK
    <2> QED
      BY <2>2, <2>3
  <1>3. CASE UnlockStarts(t)
    BY <1>2, <1>3, UnlockedOpen DEF UnlockStarts, Open
  <1>4. CASE ReadStarts(t)
    BY <1>2, <1>4, UnlockedOpen DEF ReadStarts, Open
  <1>5. CASE QueryStarts(t)
    BY <1>2, <1>5, SessionOpen DEF QueryStarts
  <1>6. CASE NamedStarts(t)
    BY <1>2, <1>6, SessionOpen DEF NamedStarts
  <1>7. CASE NamesStarts(t)
    BY <1>2, <1>7 DEF NamesStarts
  <1>8. CASE ReplaceStarts(t)
    BY <1>2, <1>8 DEF ReplaceStarts
  <1>9. CASE SyncStarts(t)
    BY <1>2, <1>9, UnlockedOpen DEF SyncStarts, Open
  <1> QED
    BY <1>3, <1>4, <1>5, <1>6, <1>7, <1>8, <1>9 DEF Request

LEMMA DialogGate ==
  ASSUME QueueInv, GateInv, NEW t \in Task, Dialog(t)
  PROVE  GateInv' /\ (Shut /\ ~Approves => Shut')
  <1>1. Typed /\ pc[t] = "ask" /\ ~InQueue(t) /\ ~Running(t)
    BY DEF QueueInv, KeysInv, InQueue, Running, Dialog, DialogRefused, UnlockApproved, NamesApproved,
           NamedApproved, FillApproved, ResetApproved, MigrateApproved, Approved
  <1>2. ASSUME NEW F, RestUnder(t, F), F \subseteq fresh, UNCHANGED <<tier1, autofill_conn, wipe_after>>
        PROVE  GateInv' /\ (Shut => Shut')
    <2>1. /\ OthersStay(t) /\ \A u \in Task \ {t} : op'[u] = op[u] /\ pc'[u] = pc[u]
          /\ fresh' \subseteq fresh /\ t \notin fresh'
      BY <1>1, <1>2 DEF RestUnder, OthersStay, Typed, TypeOK
    <2>2. GateInv'
      BY <1>1, <1>2, <2>1, TaskGate
    <2>3. Shut => Shut'
      BY <1>1, <1>2, <2>1, TaskShut DEF Typed, TypeOK
    <2> QED
      BY <2>2, <2>3
  <1>3. ASSUME NEW f, GoesOnWith(t, f), op[t] # "none"
        PROVE  GateInv' /\ (Shut /\ ~Approves => Shut')
    <2>1. CASE wipe_after
      BY <1>2, <1>3, <2>1 DEF GoesOnWith, SessionKept, openVars, Rest
    <2>2. CASE ~wipe_after
      <3>1. /\ \A u \in Task \ {t} : op'[u] = op[u] /\ pc'[u] = pc[u]
            /\ fresh' = fresh \cup {t} /\ op'[t] = op[t] /\ ~wipe_after'
            /\ pc'[t] \in {"wait", "run"}
        BY <1>1, <1>3, <2>2 DEF GoesOnWith, CallIn, SessionKept, Typed, TypeOK
      <3>2. GateInv'
        BY <1>1, <1>3, <3>1, TaskGate
      <3> QED
        BY <1>1, <3>1, <3>2 DEF Approves
    <2> QED
      BY <2>1, <2>2
  <1>4. ASSUME NEW o, Approved(t, o), o # "none" PROVE op[t] # "none"
    BY <1>4 DEF Approved
  <1>5. CASE DialogRefused(t)
    BY <1>2, <1>5 DEF DialogRefused, SessionKept, openVars, Rest
  <1>6. CASE UnlockApproved(t) \/ NamesApproved(t) \/ NamedApproved(t) \/ FillApproved(t)
               \/ ResetApproved(t)
    BY <1>3, <1>4, <1>6 DEF UnlockApproved, NamesApproved, NamedApproved, FillApproved, ResetApproved
  \* The window is locked first; it was open.
  <1>7. CASE MigrateApproved(t)
    <2>1. CASE ~Unlocked
      BY <1>3, <1>4, <1>7, <2>1 DEF MigrateApproved
    <2>2. CASE Unlocked
      <3>1. ~Shut
        BY <2>2, UnlockedOpen DEF Shut, Open
      <3>2. wipe_after' = WipePending
        BY <1>7, <2>2 DEF MigrateApproved, CloseStore, WipeStore
      <3>3. WipePending => \E u \in Task \ {t} : Running(u)
        BY <1>1 DEF WipePending, MutexHeld, replacing, Running
      <3>4. \A u \in Task \ {t} : pc'[u] = pc[u]
        BY <1>1, <1>7, <2>2 DEF MigrateApproved, RestUnder, CallIn, Typed, TypeOK
      <3>5. WipeAwaited'
        BY <3>2, <3>3, <3>4 DEF WipeAwaited, Running
      <3>6. NoneFresh'
        BY <1>4, <1>7, <2>2 DEF MigrateApproved, RestUnder, NoneFresh
      <3> QED
        BY <3>1, <3>5, <3>6 DEF GateInv
    <2> QED
      BY <2>1, <2>2
  <1> QED
    BY <1>5, <1>6, <1>7 DEF Dialog

\* A call that returns leaves no lock waiting; a handler a lock has hit opens nothing.
LEMMA ReturnGate ==
  ASSUME QueueInv, GateInv, NEW t \in Task, Return(t)
  PROVE  GateInv' /\ (Shut => Shut')
  <1>1. Typed /\ Returning(t) /\ InQueue(t) /\ OthersStay(t) /\ (Open' => Open \/ t \in fresh)
    BY ReturnMoves DEF QueueInv, KeysInv, Returning, InQueue
  <1>2. ~wipe_after'
    BY DEF Return, Back, StateReturns, UnlockReturns, TpmReturns, NamesReturns, ListReturns, StatusReturns,
           MetaReturns, EntryReturns, SyncReturns, RecheckReturns, MakeReturns, SaveReturns, FlagAfter, Wipes
  <1>3. op[t] # "none"
    BY DEF Return, Back, StateReturns, UnlockReturns, TpmReturns, NamesReturns, ListReturns, StatusReturns,
           MetaReturns, EntryReturns, SyncReturns, RecheckReturns, MakeReturns, SaveReturns
  <1> DEFINE Goes == /\ \A u \in Task \ {t} : op'[u] = op[u]
                     /\ fresh' \subseteq fresh \cup {t}
                     /\ op'[t] = "none" => t \notin fresh'
                     /\ t \notin fresh => t \notin fresh' \/ ~InQueue(t)'
  <1>4. ASSUME Ends(t) PROVE Goes
    BY <1>1, <1>4 DEF Ends, Rest, RestUnder, Typed, TypeOK
  <1>5. ASSUME Asks(t), fresh' \in {fresh, fresh \cup {t}, fresh \ {t}},
               ~MayAsk(t) => fresh' = fresh \ {t}
        PROVE  Goes
    BY <1>1, <1>3, <1>5 DEF Asks, Ends, Rest, RestUnder, InQueue, Typed, TypeOK
  <1>6. ASSUME NEW f, NEW o, Then(t, f, o), UNCHANGED fresh PROVE Goes
    BY <1>1, <1>3, <1>6 DEF Then
  <1>7. Goes
    <2>1. CASE StateReturns(t)
      BY <1>4, <1>5, <1>6, <2>1 DEF StateReturns
    <2>2. CASE UnlockReturns(t)
      BY <1>4, <1>6, <2>2 DEF UnlockReturns
    <2>3. CASE TpmReturns(t)
      BY <1>4, <1>6, <2>3 DEF TpmReturns
    <2>4. CASE NamesReturns(t)
      BY <1>4, <1>6, <2>4 DEF NamesReturns
    <2>5. CASE ListReturns(t)
      BY <1>4, <1>6, <2>5 DEF ListReturns
    <2>6. CASE StatusReturns(t) \/ EntryReturns(t)
      BY <1>4, <2>6 DEF StatusReturns, EntryReturns
    <2>11. CASE MetaReturns(t)
      BY <1>4, <1>5, <1>6, <2>11 DEF MetaReturns
    <2>7. CASE SyncReturns(t)
      BY <1>4, <1>6, <2>7 DEF SyncReturns
    <2>8. CASE RecheckReturns(t)
      BY <1>1, <1>3, <1>4, <2>8 DEF RecheckReturns, StillAsked
    <2>9. CASE MakeReturns(t)
      BY <1>4, <1>6, <2>9 DEF MakeReturns
    <2>10. CASE SaveReturns(t)
      BY <1>4, <2>10 DEF SaveReturns
    <2> QED
      BY <2>1, <2>2, <2>3, <2>4, <2>5, <2>6, <2>7, <2>8, <2>9, <2>10, <2>11 DEF Return
  <1>8. GateInv'
    BY <1>2, <1>3, <1>7 DEF GateInv, NoneFresh, WipeAwaited
  <1>9. Shut => Shut'
    BY <1>1, <1>7 DEF Shut, OthersStay, InQueue, Typed, TypeOK
  <1> QED
    BY <1>8, <1>9

LEMMA NextGate ==
  ASSUME QueueInv, GateInv, [Next]_vars
  PROVE  GateInv' /\ (Shut /\ (Next => ~Approves) => Shut')
  <1>1. CASE UNCHANGED vars
    BY <1>1 DEF GateInv, NoneFresh, WipeAwaited, Running, Shut, Open, InQueue, vars, openVars, taskVars
  <1>2. CASE Next
    BY <1>2, LockingGate, WorkerGate, RequestGate, DialogGate, ReturnGate DEF Next, QueueInv, KeysInv
  <1> QED
    BY <1>1, <1>2

\* A lock shuts the store.
LEMMA LockShuts ==
  ASSUME Lock PROVE Shut'
  BY DEF Lock, LockSession, CloseStore, Shut, Open

\* With the store shut, only a running call can still have keys.
LEMMA ShutKeys ==
  ASSUME SafeInv, GateInv, Shut, keys # {}
  PROVE  \E t \in Task : Running(t)
  <1>1. CASE store \in keys
    <2>1. wipe_after \/ Opening
      BY <1>1 DEF SafeInv, QueueInv, KeysInv, KeysOnlyWhileOpen, Shut
    <2>2. CASE wipe_after
      BY <2>2 DEF GateInv, WipeAwaited
    <2>3. CASE Opening
      <3>1. PICK t \in Task : \/ pc[t] = "ret"
                              \/ fn[t] \in Waiting /\ t \in fresh
        BY <2>3 DEF Opening, Waiting
      <3>2. fn[t] \in Waiting /\ t \in fresh => InQueue(t)
        BY DEF SafeInv, QueueInv, KeysInv, Typed, TypeOK, Committed, Place, InQueue
      <3> QED
        BY <3>1, <3>2 DEF Shut, Running
    <2> QED
      BY <2>1, <2>2, <2>3
  <1>2. CASE store \notin keys
    BY <1>2 DEF SafeInv, LoadInv, Objects
  <1> QED
    BY <1>1, <1>2

-----------------------------------------------------------------------------
(* The night *)

SleepTypes ==
  /\ machine \in {"awake", "leaving", "asleep"}
  /\ pump \in {"idle", "locking", "waiting"}
  /\ signals \in Seq(BOOLEAN)
  /\ nights \in Nat
  /\ owed \in BOOLEAN /\ late \in BOOLEAN
  /\ watching \in BOOLEAN /\ inhibitor \in BOOLEAN /\ excuse \in BOOLEAN

\* Where a night can be that nothing excuses: the signal is in the queue of a thread with
\* nothing else to do; lock_all is with the event loop; it was run; or the wait for the loop
\* has timed out.
Asked      == /\ machine = "leaving" /\ inhibitor /\ pump = "idle"
              /\ signals # << >> /\ Head(signals) /\ Tail(signals) = << >>
HandedOver == machine = "leaving" /\ inhibitor /\ signals = << >> /\ pump = "locking" /\ owed
LockedUp   == signals = << >> /\ pump # "locking" /\ (pump = "waiting" => inhibitor) /\ ~owed /\ Shut
GivenUp    == signals = << >> /\ pump = "idle" /\ ~inhibitor /\ owed /\ late

Watched == inhibitor \/ signals # << >> => watching

NightInv ==
  /\ Watched
  /\ machine = "asleep" => ~inhibitor
  /\ machine # "awake" /\ ~excuse => Asked \/ HandedOver \/ LockedUp \/ GivenUp

PowerInv == SleepTypes /\ SafeInv /\ GateInv /\ NightInv

\* What the machine and the watcher do to the store, if anything, is a step of its own.
LEMMA PowerIsNext ==
  ASSUME [PowerNext]_allVars PROVE [Next]_vars
  <1>1. ASSUME Lock PROVE Next
    BY <1>1 DEF Next
  <1>2. ASSUME NEW t \in Task, SyncStarts(t) PROVE Next
    BY <1>2 DEF Next, Request
  <1> QED
    BY <1>1, <1>2 DEF PowerNext, allVars, StoreStep, PrepareForSleep, Suspend, WakeUp, Watcher, BeforeSleep,
       ReleaseInhibitor, TakeInhibitor, LockAll, SleepWaitOver, IdleLock, SyncDue

\* The watcher's queue
LEMMA Signals ==
  ASSUME NEW S, NEW q \in Seq(S), NEW b \in S
  PROVE  /\ Append(q, b) \in Seq(S)
         /\ q # << >> => Tail(q) \in Seq(S)
         /\ Append(<< >>, b) # << >> /\ Head(Append(<< >>, b)) = b /\ Tail(Append(<< >>, b)) = << >>
  OBVIOUS

LEMMA SleepTyped ==
  ASSUME SleepTypes, [PowerNext]_allVars PROVE SleepTypes'
  <1> USE DEF SleepTypes
  <1>1. CASE UNCHANGED sleepVars
    BY <1>1 DEF sleepVars
  <1>2. CASE StoreStep
    BY <1>2 DEF StoreStep
  <1>3. CASE PrepareForSleep
    <2>1. signals' \in Seq(BOOLEAN)
      BY <1>3, Signals DEF PrepareForSleep, Signal
    <2>2. nights' \in Nat
      BY <1>3 DEF PrepareForSleep
    <2> QED
      BY <1>3, <2>1, <2>2 DEF PrepareForSleep, NotReady
  <1>4. CASE Suspend \/ SleepWaitOver
    BY <1>4 DEF Suspend, SleepWaitOver
  <1>5. CASE WakeUp
    <2>1. signals' \in Seq(BOOLEAN)
      BY <1>5, Signals DEF WakeUp, Signal
    <2> QED
      BY <1>5, <2>1 DEF WakeUp
  <1>6. CASE BeforeSleep \/ TakeInhibitor
    <2>1. signals' \in Seq(BOOLEAN)
      BY <1>6, Signals DEF BeforeSleep, TakeInhibitor
    <2> QED
      BY <1>6, <2>1 DEF BeforeSleep, TakeInhibitor
  <1>7. CASE ReleaseInhibitor
    BY <1>7 DEF ReleaseInhibitor, HeldAfter
  <1>8. CASE LockAll
    BY <1>8 DEF LockAll
  <1> QED
    BY <1>1, <1>2, <1>3, <1>4, <1>5, <1>6, <1>7, <1>8
       DEF PowerNext, Watcher, allVars, IdleLock, SyncDue

\* What the machine, the watcher and the scheduler do keeps the store shut.
LEMMA NightShut ==
  ASSUME Shut, UNCHANGED vars \/ IdleLock \/ SyncDue PROVE Shut'
  <1>1. CASE UNCHANGED vars
    BY <1>1 DEF Shut, Open, InQueue, vars, openVars
  <1>2. CASE IdleLock
    BY <1>2, LockShuts DEF IdleLock
  <1>3. CASE SyncDue
    BY <1>3, UnlockedOpen DEF SyncDue, Shut, Open
  <1> QED
    BY <1>1, <1>2, <1>3

LEMMA WatchedKept ==
  ASSUME SleepTypes, Watched, [PowerNext]_allVars PROVE Watched'
  <1>1. CASE UNCHANGED <<signals, watching, inhibitor>>
    BY <1>1 DEF Watched
  <1>2. CASE PrepareForSleep \/ WakeUp
    <2>1. UNCHANGED <<watching, inhibitor>> /\ (~watching => UNCHANGED signals)
      BY <1>2 DEF PrepareForSleep, WakeUp, Signal
    <2> QED
      BY <2>1 DEF Watched
  <1>3. CASE BeforeSleep \/ TakeInhibitor
    <2>1. signals # << >> /\ UNCHANGED watching
      BY <1>3 DEF BeforeSleep, TakeInhibitor
    <2> QED
      BY <2>1 DEF Watched
  <1>4. CASE ReleaseInhibitor
    BY <1>4 DEF ReleaseInhibitor, HeldAfter, Watched
  <1> QED
    BY <1>1, <1>2, <1>3, <1>4 DEF PowerNext, Watcher, allVars, sleepVars, StoreStep, Suspend, LockAll,
       SleepWaitOver, IdleLock, SyncDue

\* A night that nothing excuses stays in one of its four places.
LEMMA NightKept ==
  ASSUME PowerInv, [PowerNext]_allVars PROVE NightInv'
  <1>1. /\ SleepTypes /\ NightInv /\ SleepTypes'
        /\ Shut /\ (UNCHANGED vars \/ IdleLock \/ SyncDue) => Shut'
        /\ Watched'
    BY SleepTyped, NightShut, WatchedKept DEF PowerInv, NightInv
  <1> USE DEF NightInv
  <1>2. CASE UNCHANGED allVars \/ IdleLock \/ SyncDue
    <2>1. UNCHANGED sleepVars
      BY <1>2 DEF allVars, IdleLock, SyncDue
    <2> QED
      BY <1>1, <1>2, <2>1 DEF allVars, sleepVars, Asked, HandedOver, LockedUp, GivenUp
  <1>3. CASE StoreStep
    <2>1. UNCHANGED <<machine, nights, signals, pump, owed, late, watching, inhibitor>>
      BY <1>3 DEF StoreStep
    <2>2. ASSUME machine' # "awake", ~excuse', LockedUp PROVE Shut'
      <3>1. machine = "leaving" /\ Wiped
        BY <1>1, <1>3, <2>1, <2>2 DEF StoreStep, Awake, SleepTypes, LockedUp, Wiped
      <3>2. Next /\ ~Approves
        BY <1>3, <2>2, <3>1 DEF StoreStep
      <3> QED
        BY <2>2, <3>2, NextGate DEF PowerInv, SafeInv, LockedUp
    <2>3. ~excuse' => ~excuse
      BY <1>3 DEF StoreStep
    <2> QED
      BY <1>1, <2>1, <2>2, <2>3 DEF Asked, HandedOver, LockedUp, GivenUp
  <1>4. CASE PrepareForSleep
    <2>1. ~excuse' => inhibitor /\ watching /\ signals = << >> /\ pump = "idle"
      BY <1>1, <1>4 DEF PrepareForSleep, NotReady, Watched
    <2>2. ~excuse' => signals' = Append(<< >>, TRUE)
      BY <1>4, <2>1 DEF PrepareForSleep, Signal
    <2>3. LET q == Append(<< >>, TRUE) IN q # << >> /\ Head(q) = TRUE /\ Tail(q) = << >>
      <3>1. << >> \in Seq(BOOLEAN) /\ TRUE \in BOOLEAN
        OBVIOUS
      <3> QED
        BY <3>1, Signals
    <2> QED
      BY <1>1, <1>4, <2>1, <2>2, <2>3 DEF PrepareForSleep, Asked
  \* Only LockedUp and GivenUp have no inhibitor.
  <1>5. CASE Suspend
    BY <1>1, <1>5 DEF Suspend, Asked, HandedOver, LockedUp, GivenUp
  <1>6. CASE WakeUp
    BY <1>1, <1>6 DEF WakeUp
  <1>7. CASE BeforeSleep
    <2>1. signals # << >>
      BY <1>7 DEF BeforeSleep
    <2>2. Asked => signals' = << >>
      BY <1>7 DEF BeforeSleep, Asked
    <2> QED
      BY <1>1, <1>7, <2>1, <2>2 DEF BeforeSleep, Awake, SleepTypes, Asked, HandedOver, LockedUp, GivenUp
  <1>8. CASE LockAll
    BY <1>1, <1>8, LockShuts DEF LockAll, Asked, HandedOver, LockedUp, GivenUp
  <1>9. CASE SleepWaitOver
    BY <1>1, <1>9 DEF SleepWaitOver, Asked, HandedOver, LockedUp, GivenUp
  <1>10. CASE ReleaseInhibitor
    BY <1>1, <1>10 DEF ReleaseInhibitor, Done, HeldAfter, Asked, HandedOver, LockedUp, GivenUp
  <1>11. CASE TakeInhibitor
    <2>1. Asked => Head(signals)
      BY DEF Asked
    <2> QED
      BY <1>1, <1>11, <2>1 DEF TakeInhibitor, Awake, Asked, HandedOver, LockedUp, GivenUp
  <1> QED
    BY <1>2, <1>3, <1>4, <1>5, <1>6, <1>7, <1>8, <1>9, <1>10, <1>11
       DEF PowerNext, Watcher

LEMMA InitPower == PowerInit => PowerInv
  <1> SUFFICES ASSUME PowerInit PROVE PowerInv
    OBVIOUS
  <1>1. Init
    BY DEF PowerInit
  <1>2. SafeInv /\ GateInv
    BY <1>1, InitQueue, InitOrderly, InitLoad, InitGate DEF SafeInv
  <1>3. SleepTypes
    <2>1. signals \in Seq(BOOLEAN)
      BY DEF PowerInit
    <2> QED
      BY <2>1 DEF PowerInit, SleepTypes
  <1>4. NightInv
    <2>1. inhibitor => watching
      BY DEF PowerInit
    <2>2. signals = << >> /\ machine = "awake"
      BY DEF PowerInit
    <2> QED
      BY <2>1, <2>2 DEF NightInv, Watched
  <1> QED
    BY <1>2, <1>3, <1>4 DEF PowerInv

\* The suspend finds no key in memory, unless a store call is still running, the event loop did
\* not get to the lock in time, or the night was not covered at all: however many nights there
\* are, whatever requests, windows and timers come between, and wherever the thread is
\* (LogindWatcher.before_sleep, release_inhibitor; Registry.lock, run_store).
THEOREM PowerNoKeysAsleep == ASSUME OneOpener PROVE PowerSpec => []NoKeysAsleep
  <1>1. PowerInv /\ [PowerNext]_allVars => PowerInv'
    <2> SUFFICES ASSUME PowerInv, [PowerNext]_allVars PROVE PowerInv'
      OBVIOUS
    <2>1. [Next]_vars
      BY PowerIsNext
    <2>2. SafeInv' /\ GateInv'
      BY <2>1, NextSafe, NextGate DEF PowerInv, SafeInv
    <2> QED
      BY <2>2, SleepTyped, NightKept DEF PowerInv
  <1>2. PowerInv => NoKeysAsleep
    <2> SUFFICES ASSUME PowerInv, machine = "asleep", keys # {}, ~excuse, ~(owed /\ late)
                 PROVE  \E t \in Task : Running(t)
      BY DEF NoKeysAsleep
    <2>1. Shut
      BY DEF PowerInv, NightInv, Asked, HandedOver, LockedUp, GivenUp
    <2> QED
      BY <2>1, ShutKeys DEF PowerInv
  <1> QED
    BY <1>1, <1>2, InitPower, PTL DEF PowerSpec

\* The machine and the clock add nothing to what the store goes through: each step of Power is a
\* step of StoreHandlers or leaves it alone, so all that holds of the one holds of the other
\* (serve's lock_all and the scheduler's calls are locks and syncs like any others).
THEOREM PowerImplementsStore == PowerSpec => Spec
  <1>1. PowerInit => Init
    BY DEF PowerInit
  <1> QED
    BY <1>1, PowerIsNext, PTL DEF PowerSpec, Spec

=============================================================================
