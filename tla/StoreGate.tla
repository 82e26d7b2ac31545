------------------------------ MODULE StoreGate ------------------------------
(***************************************************************************)
(* One uid's store behind the daemon's gate: the state of                  *)
(* daemon/sessions.py (Session, Registry.run_store, lock, _wipe_store,     *)
(* detach, open_autofill) and of vstore/__init__.py (UserStore._serialized,*)
(* unlock, try_lock), with the steps a store call takes on its worker      *)
(* thread and the events that lock.  The module StoreHandlers adds the     *)
(* handlers that make the calls, and the specification.                    *)
(*                                                                         *)
(* The grain is the event loop's: one action per stretch of a handler      *)
(* between two awaits, and separate actions for the worker thread.         *)
(*                                                                         *)
(* A lock bumps Session.epoch, and handlers and run_store compare the      *)
(* epoch they captured with the current one.  Only that comparison         *)
(* matters, so the counter is represented by two sets of tasks: `fresh',   *)
(* whose handler saw no lock since it captured the epoch, and `jfresh',    *)
(* whose store call saw none since it began.  A lock empties both.  (For a *)
(* handler that captures no epoch, `fresh' says that no lock landed since  *)
(* its request came; no action reads it, only a property does.)            *)
(*                                                                         *)
(* Left out: what a store call computes, the rate limit on refused dialogs *)
(* and the grants and tickets a lock drops, which share no state with the  *)
(* keys; the events; the exception _wipe_store swallows.                   *)
(***************************************************************************)
EXTENDS Naturals, Sequences

CONSTANTS
  Window,     \* connections whose role is "ui"
  Browser,    \* connections whose role is "autofill"
  Task,       \* the requests (and background syncs) in flight at one time
  Owner,      \* Owner[t] is the connection a task's request comes on
  Ops,        \* Ops[t] is the set of ops the task may run
  Store,      \* UserStore objects; one nobody refers to is used again
  NoConn, NoStore

Conn == Window \cup Browser

WindowOp  == {"unlock", "read", "reset", "migrate"}
BrowserOp == {"names", "named", "query", "fill"}
Op == WindowOp \cup BrowserOp \cup {"sync"}

ASSUME OwnerAssumption   == Owner \in [Task -> Conn \cup {NoConn}]
ASSUME OpsAssumption     == Ops \in [Task -> SUBSET Op]
\* protocol.ROLE_OPS: each role has its own ops.
ASSUME RoleOpsAssumption ==
  \A t \in Task : /\ Ops[t] \cap WindowOp # {} => Owner[t] \in Window
                  /\ Ops[t] \cap BrowserOp # {} => Owner[t] \in Browser
ASSUME NoConnAssumption  == NoConn \notin Conn
ASSUME NoStoreAssumption == NoStore \notin Store
ASSUME RolesAssumption   == Window \cap Browser = {}

VARIABLES
  conn,           \* each connection's stage, see Stage
  ui, tier1,      \* Session.ui and Session.tier1
  autofill_conn,  \* the connection a browser's own unlock serves
  autofill_due,   \* clock() has passed autofill_until
  wipe_after,     \* a lock waits for the running store call
  store_lock,     \* the tasks holding (head) or awaiting Session.store_lock, in order
  store,          \* Session.store
  disk,           \* whether u<uid> holds a store
  keys,           \* the UserStore objects whose _rk is in memory
  wipe_req,       \* those whose _wipe_req is set
  op, pc, fn,     \* per task: the op, where it is, and the store call it makes
  obj,            \* the object that call's method is bound to
  res,            \* what the call returned
  cancelled,      \* the tasks whose pending dialog was cancelled (_Pending.cancelled)
  fresh, jfresh   \* see above

openVars  == <<tier1, autofill_conn, autofill_due>>
storeVars == <<store, disk>>
taskVars  == <<op, fn, obj, res>>
vars == <<conn, ui, openVars, wipe_after, store_lock, storeVars, keys, wipe_req,
          taskVars, pc, cancelled, fresh, jfresh>>

-----------------------------------------------------------------------------
(* Types *)

\* "hello": the store's status is being read for a window's hello; "found" and "clear":
\* it was, and said unlocked or not; "closing": closed, and detach() has not run yet.
Stage == {"off", "hello", "found", "clear", "on", "closing"}

\* "ask": a dialog is up; "wait": queued on store_lock; "run": handed to the worker, which
\* is outside any serialized method; "in": inside one, or part-way through create() or
\* reset(); "ret": the worker is done and the task has not resumed.
Place == {"idle", "ask", "wait", "run", "in", "ret"}

\* The store calls.  state: UserStore.state, or the status a sync asks for first; status: the
\* one that goes with a list; recheck: the reads a reset repeats after its dialog; rematch: the
\* get_meta a fill repeats after its own; open_entry: or history; sync: apple.sync, many
\* serialized calls with network steps between them.
Call == {"state", "unlock", "tpm_move_state", "list_meta", "status", "get_meta", "rematch",
         "open_entry", "sync", "recheck", "create", "reset", "save_settings"}

NeedsKeys  == {"list_meta", "get_meta", "rematch", "open_entry", "sync"}
Serialized == NeedsKeys \cup {"unlock", "tpm_move_state", "save_settings"}
Replaces   == {"create", "reset"}      \* run with replaces=True

Result == {"none", "ok", "empty", "locked", "failed"}

TypeOK ==
  /\ conn \in [Conn -> Stage]
  /\ ui \in Window \cup {NoConn}
  /\ tier1 \in Window \cup {NoConn}
  /\ autofill_conn \in Browser \cup {NoConn}
  /\ autofill_due \in BOOLEAN
  /\ wipe_after \in BOOLEAN
  /\ store_lock \in Seq(Task)
  /\ store \in Store
  /\ disk \in {"empty", "store"}
  /\ keys \in SUBSET Store
  /\ wipe_req \in SUBSET Store
  /\ op \in [Task -> Op \cup {"none"}]
  /\ pc \in [Task -> Place]
  /\ fn \in [Task -> Call \cup {"none"}]
  /\ obj \in [Task -> Store \cup {NoStore}]
  /\ res \in [Task -> Result]
  /\ cancelled \in SUBSET Task
  /\ fresh \in SUBSET Task
  /\ jfresh \in SUBSET Task

Init ==
  /\ conn = [c \in Conn |-> "off"]
  /\ ui = NoConn
  /\ tier1 = NoConn
  /\ autofill_conn = NoConn
  /\ autofill_due = FALSE
  /\ wipe_after = FALSE
  /\ store_lock = << >>
  /\ store \in Store
  /\ disk \in {"empty", "store"}
  /\ keys = {}
  /\ wipe_req = {}
  /\ op = [t \in Task |-> "none"]
  /\ pc = [t \in Task |-> "idle"]
  /\ fn = [t \in Task |-> "none"]
  /\ obj = [t \in Task |-> NoStore]
  /\ res = [t \in Task |-> "none"]
  /\ cancelled = {}
  /\ fresh = {}
  /\ jfresh = {}

-----------------------------------------------------------------------------
(* Session state *)

\* The connections that are not closed
Live == {c \in Conn : conn[c] \notin {"off", "closing"}}
Closed(c) == c \notin Live

\* Session.unlocked()
Unlocked == tier1 = ui /\ ~Closed(tier1)

\* Registry.autofill_open()
AutofillOpen(c) == autofill_conn = c /\ ~Closed(c) /\ ~autofill_due

\* An answer that is sent whatever happened since the request.
OpenSessionAssumed(c) == TRUE

\* autofill._open_session(): the store may be read for this autofill connection.  (Its
\* touch_autofill moves a deadline that has not passed, which autofill_due does not show.)
OpenSession(c) == Unlocked \/ AutofillOpen(c)

\* Tier 1 is open, or the store is open for a browser.
Open == tier1 # NoConn \/ autofill_conn # NoConn

-----------------------------------------------------------------------------
(* The store's mutex and the wipe *)

MutexHeld(o) == \E t \in Task : pc[t] = "in" /\ obj[t] = o /\ fn[t] \in Serialized

\* Session.replacing: run_store has a create() or reset() in hand.
replacing == \E t \in Task : pc[t] \in {"run", "in", "ret"} /\ fn[t] \in Replaces

\* A wipe that forgets a create()/reset() in progress.
WipePendingIgnoringNew == MutexHeld(store)

\* _wipe_store leaves wipe_after set when a call holds the mutex, and also while
\* create()/reset() builds an object this wipe cannot reach.
WipePending == MutexHeld(store) \/ replacing

\* Registry._wipe_store(), with UserStore.try_lock()
WipeStore ==
  /\ wipe_after' = WipePending
  /\ IF MutexHeld(store)
     THEN wipe_req' = wipe_req \cup {store} /\ UNCHANGED keys
     ELSE wipe_req' = wipe_req \ {store} /\ keys' = keys \ {store}

\* cancel_prompts(): the dialogs of tasks T are given up; polkit still answers each.
CancelPrompts(T) == cancelled' = cancelled \cup {t \in T : pc[t] = "ask"}

\* Registry.lock(), apart from the epoch it bumps
CloseStore ==
  /\ tier1' = NoConn
  /\ autofill_conn' = NoConn
  /\ autofill_due' = FALSE
  /\ WipeStore

LockSession ==
  /\ CloseStore
  /\ fresh' = {}
  /\ jfresh' = {}
  /\ CancelPrompts(Task)

\* What Registry.lock() assigns
lockVars == <<openVars, fresh, jfresh, cancelled, wipe_after, wipe_req, keys>>

\* A lock trigger of its own: the Lock button, screen lock, sleep, the session's end,
\* idleness, sign-out.
Lock ==
  /\ LockSession
  /\ UNCHANGED <<conn, ui, store_lock, storeVars, taskVars, pc>>

-----------------------------------------------------------------------------
(* Connections *)

\* A connection's name is used again once its last request has ended.
Unused(c) == conn[c] = "off" /\ \A t \in Task : Owner[t] = c => pc[t] = "idle"

\* A new window says hello; while another is live the answer is "already-running".
HelloWindow(c) ==
  /\ c \in Window
  /\ Unused(c)
  /\ Closed(ui)
  /\ conn' = [conn EXCEPT ![c] = "hello"]
  /\ ui' = c
  /\ IF tier1 # NoConn THEN LockSession ELSE UNCHANGED lockVars
  /\ UNCHANGED <<store_lock, storeVars, taskVars, pc>>

\* A worker reads the store's status for the hello.
HelloReads(c) ==
  /\ conn[c] = "hello"
  /\ conn' = [conn EXCEPT ![c] = IF store \in keys THEN "found" ELSE "clear"]
  /\ UNCHANGED <<ui, lockVars, store_lock, storeVars, taskVars, pc>>

\* hello resumes: a store found unlocked locks the uid.
HelloReply(c) ==
  /\ conn[c] \in {"found", "clear"}
  /\ conn' = [conn EXCEPT ![c] = "on"]
  /\ IF conn[c] = "found" THEN LockSession ELSE UNCHANGED lockVars
  /\ UNCHANGED <<ui, store_lock, storeVars, taskVars, pc>>

HelloBrowser(c) ==
  /\ c \in Browser
  /\ Unused(c)
  /\ conn' = [conn EXCEPT ![c] = "on"]
  /\ UNCHANGED <<ui, lockVars, store_lock, storeVars, taskVars, pc>>

\* Conn.close(): the peer hung up or stopped reading; detach() has not run yet.
Close(c) ==
  /\ conn[c] = "on"
  /\ conn' = [conn EXCEPT ![c] = "closing"]
  /\ UNCHANGED <<ui, lockVars, store_lock, storeVars, taskVars, pc>>

\* The connection is what the store is open for: the window, or with tier 1 closed a browser.
DetachLocks(c) == ui = c \/ (autofill_conn = c /\ ~Unlocked)

\* Registry.detach()
Detach(c) ==
  /\ conn[c] = "closing"
  /\ conn' = [conn EXCEPT ![c] = "off"]
  /\ ui' = IF ui = c THEN NoConn ELSE ui
  /\ IF DetachLocks(c)
     THEN LockSession
     ELSE /\ autofill_conn' = IF autofill_conn = c THEN NoConn ELSE autofill_conn
          /\ autofill_due' = (autofill_due /\ autofill_conn # c)
          /\ CancelPrompts({t \in Task : Owner[t] = c})
          /\ UNCHANGED <<tier1, wipe_after, keys, wipe_req, fresh, jfresh>>
  /\ UNCHANGED <<store_lock, storeVars, taskVars, pc>>

\* AUTOFILL_OPEN_S have passed since the browser's last request.
AutofillExpires ==
  /\ autofill_conn # NoConn
  /\ ~autofill_due
  /\ autofill_due' = TRUE
  /\ UNCHANGED <<conn, ui, tier1, autofill_conn, fresh, jfresh, cancelled, wipe_after, wipe_req,
                 keys, store_lock, storeVars, taskVars, pc>>

\* _autofill_timeout() -> close_autofill(): a full lock unless the window is unlocked.
AutofillTimeout ==
  /\ autofill_conn # NoConn
  /\ autofill_due
  /\ IF Unlocked
     THEN /\ autofill_conn' = NoConn
          /\ autofill_due' = FALSE
          /\ UNCHANGED <<tier1, fresh, jfresh, cancelled, wipe_after, wipe_req, keys>>
     ELSE LockSession
  /\ UNCHANGED <<conn, ui, store_lock, storeVars, taskVars, pc>>

-----------------------------------------------------------------------------
(* run_store: the queue on store_lock, and the way in *)

Owns(t) == store_lock # << >> /\ Head(store_lock) = t

\* Task t calls method f of object o while q holds or awaits store_lock; `current' is
\* jfresh as the rest of the step leaves it.
CallIn(q, t, f, o, current) ==
  /\ store_lock' = Append(q, t)
  /\ pc' = [pc EXCEPT ![t] = IF q = << >> THEN "run" ELSE "wait"]
  /\ fn' = [fn EXCEPT ![t] = f]
  /\ obj' = [obj EXCEPT ![t] = IF f \in Replaces THEN NoStore ELSE o]
  /\ res' = [res EXCEPT ![t] = "none"]
  /\ jfresh' = IF q = << >> THEN current \cup {t} ELSE current \ {t}

\* The task at the head of store_lock takes it over.  (run_store looks at wipe_after once
\* more here; a call it would refuse would never be answered, against RequestsEnd.)
Begin(t) ==
  /\ Owns(t)
  /\ pc[t] = "wait"
  /\ ~wipe_after
  /\ pc' = [pc EXCEPT ![t] = "run"]
  /\ jfresh' = jfresh \cup {t}
  /\ UNCHANGED <<conn, ui, openVars, wipe_after, store_lock, storeVars, keys, wipe_req, taskVars,
                 cancelled, fresh>>

-----------------------------------------------------------------------------
(* The worker thread *)

\* What the worker leaves alone
notWorker == <<conn, ui, openVars, wipe_after, store_lock, store, op, cancelled, fresh,
               jfresh>>

WorkerDone(t, r) ==
  /\ pc' = [pc EXCEPT ![t] = "ret"]
  /\ res' = [res EXCEPT ![t] = r]

\* _serialized lets a call in unless a lock waits for one.
Enters(t) == obj[t] \notin wipe_req

\* A serialized method is entered, or refused and the keys wiped.
Enter(t) ==
  /\ pc[t] = "run"
  /\ fn[t] \in Serialized
  /\ IF Enters(t)
     THEN pc' = [pc EXCEPT ![t] = "in"] /\ UNCHANGED <<res, keys>>
     ELSE WorkerDone(t, "locked") /\ keys' = keys \ {obj[t]}
  /\ UNCHANGED <<notWorker, disk, wipe_req, fn, obj>>

\* A method that leaves the wipe to run_store.
KeysKeptOnLeaving(t) == keys

\* The keys once the method is left: a lock that landed during it wipes them.
KeysOnLeaving(t) == keys \ (wipe_req \cap {obj[t]})

\* A serialized method other than unlock returns; one that needs the keys needs them now.
Leave(t) ==
  /\ pc[t] = "in"
  /\ fn[t] \in Serialized \ {"unlock"}
  /\ keys' = KeysOnLeaving(t)
  /\ IF fn[t] \in NeedsKeys /\ obj[t] \notin keys
     THEN WorkerDone(t, "locked")
     ELSE \/ fn[t] # "sync" /\ WorkerDone(t, "ok")
          \/ fn[t] = "sync" /\ pc' = [pc EXCEPT ![t] = "run"] /\ UNCHANGED res
  /\ UNCHANGED <<notWorker, disk, wipe_req, fn, obj>>

\* unlock returns: at once with the keys in memory, else after unsealing them, which may fail.
LeaveUnlock(t) ==
  /\ pc[t] = "in"
  /\ fn[t] = "unlock"
  /\ \/ /\ obj[t] \in keys \/ disk = "store"
        /\ keys' = (keys \cup {obj[t]}) \ (wipe_req \cap {obj[t]})
        /\ WorkerDone(t, "ok")
     \/ /\ obj[t] \notin keys
        /\ WorkerDone(t, "failed")
        /\ UNCHANGED keys
  /\ UNCHANGED <<notWorker, disk, wipe_req, fn, obj>>

\* Between two store calls a sync ends, fails, or finds the store locked (_still_unlocked).
SyncEnds(t) ==
  /\ pc[t] = "run"
  /\ fn[t] = "sync"
  /\ \E r \in {"ok", "failed", "locked"} :
       /\ r = "locked" => obj[t] \in wipe_req \/ obj[t] \notin keys
       /\ WorkerDone(t, r)
  /\ UNCHANGED <<notWorker, disk, keys, wipe_req, fn, obj>>

\* A read that takes no mutex and no key.
ReadState(t) ==
  /\ pc[t] = "run"
  /\ fn[t] \in {"state", "status", "recheck"}
  /\ WorkerDone(t, IF disk = "empty" /\ obj[t] \notin keys THEN "empty" ELSE "ok")
  /\ UNCHANGED <<notWorker, disk, keys, wipe_req, fn, obj>>

\* reset() moves the store aside; create() alone is refused over one.  Neither holds a mutex.
MoveAside(t) ==
  /\ pc[t] = "run"
  /\ fn[t] \in Replaces
  /\ IF fn[t] = "create" /\ disk = "store"
     THEN WorkerDone(t, "failed") /\ UNCHANGED disk
     ELSE pc' = [pc EXCEPT ![t] = "in"] /\ disk' = "empty" /\ UNCHANGED res
  /\ UNCHANGED <<notWorker, keys, wipe_req, fn, obj>>

\* create() builds a new object that comes back unlocked, or fails and leaves nothing.
Unreferenced(o) == o # store /\ o \notin keys \cup wipe_req /\ \A t \in Task : obj[t] # o

Made(t) ==
  /\ pc[t] = "in"
  /\ fn[t] \in Replaces
  /\ \/ \E o \in Store :
          /\ Unreferenced(o)
          /\ disk' = "store"
          /\ keys' = keys \cup {o}
          /\ obj' = [obj EXCEPT ![t] = o]
          /\ WorkerDone(t, "ok")
     \/ WorkerDone(t, "failed") /\ UNCHANGED <<disk, keys, obj>>
  /\ UNCHANGED <<notWorker, wipe_req, fn>>

Worker(t) ==
  \/ Enter(t) \/ Leave(t) \/ LeaveUnlock(t) \/ SyncEnds(t)
  \/ ReadState(t) \/ MoveAside(t) \/ Made(t)

-----------------------------------------------------------------------------
(* run_store: the way out.  The finally clause runs in the stretch in which the caller goes   *)
(* on, so these say what it makes of the state, and the handlers' actions use them.           *)

\* A way out that waits for the wipe it is there to carry out.
ReturningWhenWiped(t) == Owns(t) /\ pc[t] = "ret" /\ ~wipe_after

Returning(t) == Owns(t) /\ pc[t] = "ret"

\* A lock landed during the call, and no unlock since.
Wipes(t) == wipe_after \/ (t \notin jfresh /\ ~Unlocked)

\* The object create() or reset() made, when a lock landed meanwhile.
MadeInVain(t) == IF fn[t] \in Replaces /\ t \notin jfresh THEN {obj[t]} ELSE {}

KeysAfter(t) == keys \ (MadeInVain(t) \cup IF Wipes(t) THEN {store} ELSE {})
ReqAfter(t)  == IF Wipes(t) THEN wipe_req \ {store} ELSE wipe_req

FlagAfter(t) == wipe_after /\ ~Wipes(t)

=============================================================================
