---------------------------- MODULE StoreHandlers ----------------------------
(***************************************************************************)
(* The handlers that open the store, read it or replace it, over           *)
(* StoreGate: op_unlock, op_grant/op_history ("read"), background_sync,    *)
(* op_reset and op_migrate_begin of daemon/handlers.py; autofill-query,    *)
(* -names and -fill of daemon/autofill.py.  An autofill-names request is   *)
(* op "names" when it finds the store closed to it (_unlock_for_names) and *)
(* "named" when it finds it open.                                          *)
(*                                                                         *)
(* Each action is one stretch of a handler: it starts with the request, or *)
(* with polkit's answer, or with the return of a store call (run_store's   *)
(* finally clause included), and ends at the next await.                   *)
(***************************************************************************)
EXTENDS StoreGate

\* A task whose request was refused, or is answered: nothing of it is left.
RestUnder(t, current) ==
  /\ op' = [op EXCEPT ![t] = "none"]
  /\ pc' = [pc EXCEPT ![t] = "idle"]
  /\ fn' = [fn EXCEPT ![t] = "none"]
  /\ obj' = [obj EXCEPT ![t] = NoStore]
  /\ res' = [res EXCEPT ![t] = "none"]
  /\ fresh' = current \ {t}

Rest(t) == RestUnder(t, fresh)

\* polkit_authorize: one pending dialog for each role
PromptFree(t) ==
  \A u \in Task : pc[u] = "ask" /\ u \notin cancelled
                    => (Owner[u] \in Window) # (Owner[t] \in Window)

MayAsk(t) == ~Closed(Owner[t]) /\ PromptFree(t)

\* The daemon serves the request.
Requested(t, o) == op[t] = "none" /\ o \in Ops[t] /\ conn[Owner[t]] = "on"

SessionKept == UNCHANGED <<openVars, wipe_after, keys, wipe_req>>

-----------------------------------------------------------------------------
(* The requests *)

\* Task t starts op o with a store call, or is refused because a lock waits.
StartsWith(t, o, f) ==
  /\ ~wipe_after
  /\ op' = [op EXCEPT ![t] = o]
  /\ CallIn(store_lock, t, f, store, jfresh)
  /\ UNCHANGED <<conn, ui, storeVars, cancelled>> /\ SessionKept

StartsAsking(t, o) ==
  /\ MayAsk(t)
  /\ op' = [op EXCEPT ![t] = o]
  /\ pc' = [pc EXCEPT ![t] = "ask"]
  /\ UNCHANGED <<conn, ui, storeVars, store_lock, fn, obj, res, cancelled, jfresh>> /\ SessionKept

UnlockStarts(t) ==
  /\ Requested(t, "unlock")
  /\ IF Unlocked /\ tier1 = Owner[t]
     THEN StartsWith(t, "unlock", "list_meta") /\ fresh' = fresh \cup {t}
     ELSE ui = Owner[t] /\ StartsWith(t, "unlock", "state") /\ UNCHANGED fresh

\* op_grant looks its entry up first; op_history, whose grant did that, reads at once.  (The
\* serial of a grant is in Grants.)
ReadStarts(t) ==
  /\ Requested(t, "read")
  /\ Unlocked /\ tier1 = Owner[t]
  /\ \E f \in {"get_meta", "open_entry"} : StartsWith(t, "read", f)
  /\ fresh' = fresh \cup {t}

QueryStarts(t) ==
  \E o \in {"query", "fill"} :
    /\ Requested(t, o)
    /\ OpenSession(Owner[t])
    /\ StartsWith(t, o, "list_meta")
    /\ fresh' = fresh \cup {t}

NamedStarts(t) ==
  /\ Requested(t, "named")
  /\ OpenSession(Owner[t])
  /\ StartsAsking(t, "named")
  /\ fresh' = fresh \cup {t}

NamesStarts(t) ==
  /\ Requested(t, "names")
  /\ ~OpenSession(Owner[t])
  /\ disk = "store" \/ store \in keys
  /\ ~wipe_after
  /\ StartsAsking(t, "names")
  /\ UNCHANGED fresh

ReplaceStarts(t) ==
  \E o \in {"reset", "migrate"} :
    /\ Requested(t, o)
    /\ ui = Owner[t]
    /\ StartsWith(t, o, "state")
    /\ UNCHANGED fresh

\* The scheduler's sync, or the one that follows an unlock's reply
SyncStarts(t) ==
  /\ op[t] = "none" /\ "sync" \in Ops[t]
  /\ Unlocked
  /\ \A u \in Task : op[u] # "sync"                 \* Session.busy
  /\ StartsWith(t, "sync", "state")
  /\ fresh' = fresh \cup {t}

-----------------------------------------------------------------------------
(* polkit's answer *)

\* authorize() raises: refused, dismissed, unanswered, or cancelled by the daemon.
DialogRefused(t) ==
  /\ pc[t] = "ask"
  /\ Rest(t)
  /\ cancelled' = cancelled \ {t}
  /\ UNCHANGED <<conn, ui, storeVars, store_lock, jfresh>> /\ SessionKept

Approved(t, o) ==
  /\ op[t] = o /\ pc[t] = "ask"
  /\ t \notin cancelled
  /\ ~Closed(Owner[t])

\* The handler goes on with a store call, or is refused because a lock waits.
GoesOnWith(t, f) ==
  /\ UNCHANGED <<conn, ui, storeVars, cancelled>> /\ SessionKept
  /\ IF wipe_after
     THEN Rest(t) /\ UNCHANGED <<store_lock, jfresh>>
     ELSE /\ CallIn(store_lock, t, f, store, jfresh)
          /\ fresh' = fresh \cup {t}
          /\ UNCHANGED op

UnlockApproved(t) == Approved(t, "unlock") /\ GoesOnWith(t, "unlock")

\* _unlock_for_names: the window may have unlocked while the dialog was up.
NamesApproved(t) ==
  Approved(t, "names") /\ GoesOnWith(t, IF Unlocked THEN "list_meta" ELSE "unlock")

NamedApproved(t) == Approved(t, "named") /\ OpenSession(Owner[t]) /\ GoesOnWith(t, "list_meta")

FillApproved(t) == Approved(t, "fill") /\ OpenSession(Owner[t]) /\ GoesOnWith(t, "rematch")

\* The approval is still this window's, and no lock landed since the dialog was raised.
StillAsked(t) == ~Closed(Owner[t]) /\ ui = Owner[t] /\ t \in fresh

ResetApproved(t) == Approved(t, "reset") /\ StillAsked(t) /\ GoesOnWith(t, "recheck")

\* op_migrate_begin: an unlocked window is locked first; then create(), or reset() over a
\* store that was there.
MigrateApproved(t) ==
  /\ Approved(t, "migrate")
  /\ StillAsked(t)
  /\ LET f == IF res[t] = "empty" THEN "create" ELSE "reset"
     IN IF ~Unlocked
        THEN GoesOnWith(t, f)
        ELSE /\ CloseStore
             /\ CancelPrompts(Task \ {t})
             /\ UNCHANGED <<conn, ui, storeVars>>
             /\ IF WipePending
                THEN RestUnder(t, {}) /\ jfresh' = {} /\ UNCHANGED store_lock
                ELSE /\ CallIn(store_lock, t, f, store, {})
                     /\ fresh' = {t}
                     /\ UNCHANGED op

-----------------------------------------------------------------------------
(* A store call returns *)

Back(t, o, f) ==
  /\ Returning(t)
  /\ op[t] = o /\ fn[t] = f
  /\ wipe_after' = FlagAfter(t)

Settle(t) == keys' = KeysAfter(t) /\ wipe_req' = ReqAfter(t)

\* The handler itself goes on to call _wipe_store, the mutex being free.
SettleAndWipe(t) == keys' = KeysAfter(t) \ {store} /\ wipe_req' = wipe_req \ {store}

\* The request is answered, or ends in an error.
Ends(t) ==
  /\ Rest(t)
  /\ store_lock' = Tail(store_lock)
  /\ jfresh' = jfresh \ {t}

\* The handler makes another store call.
Then(t, f, o) ==
  /\ CallIn(Tail(store_lock), t, f, o, jfresh \ {t})
  /\ UNCHANGED op

\* The handler raises a dialog, or is refused one.
Asks(t) ==
  IF MayAsk(t)
  THEN /\ pc' = [pc EXCEPT ![t] = "ask"]
       /\ store_lock' = Tail(store_lock)
       /\ jfresh' = jfresh \ {t}
       /\ UNCHANGED <<op, fn, obj, res>>
  ELSE Ends(t)

\* op_unlock, op_migrate_begin/op_reset and background_sync after the store's state was read.
\* The sync does not look whether a lock landed: it goes on unless it has nobody signed in.
StateReturns(t) ==
  /\ \/ /\ Back(t, "unlock", "state")
        /\ IF res[t] = "empty" THEN Ends(t) ELSE Asks(t) /\ fresh' = fresh \ {t}
     \/ \E o \in {"reset", "migrate"} :
          /\ Back(t, o, "state")
          /\ \/ Ends(t)                           \* a store that holds something is refused
             \/ /\ o = "migrate" \/ res[t] # "empty"
                /\ Asks(t)
                /\ fresh' = IF MayAsk(t) THEN fresh \cup {t} ELSE fresh \ {t}
     \/ /\ Back(t, "sync", "state")
        /\ Ends(t) \/ (res[t] # "empty" /\ Then(t, "sync", store) /\ UNCHANGED fresh)
  /\ Settle(t)
  /\ UNCHANGED <<conn, ui, openVars, storeVars, cancelled>>

\* A read whose answer is not checked again.
StillAssumed(t) == TRUE

\* handlers._still()
Still(t) == t \in fresh /\ Unlocked /\ tier1 = Owner[t]

\* A handler that never looks back.
NotLockedAssumed(t) == TRUE

\* s.epoch == epoch and not conn.closed
NotLockedMeanwhile(t) == t \in fresh /\ ~Closed(Owner[t])

\* op_unlock, the store unlocked: check, and ask for the TPM's state.
UnlockReturns(t) ==
  /\ Back(t, "unlock", "unlock")
  /\ IF res[t] # "ok"
     THEN Ends(t) /\ Settle(t)
     ELSE IF NotLockedMeanwhile(t) /\ ui = Owner[t]
          THEN Then(t, "tpm_move_state", store) /\ Settle(t) /\ UNCHANGED fresh
          ELSE Ends(t) /\ SettleAndWipe(t)
  /\ UNCHANGED <<conn, ui, openVars, storeVars, cancelled>>

\* op_unlock: tier 1 opens on this connection.
TpmReturns(t) ==
  /\ Back(t, "unlock", "tpm_move_state")
  /\ IF NotLockedMeanwhile(t)
     THEN /\ tier1' = Owner[t]
          /\ Then(t, "list_meta", store)
          /\ Settle(t)
          /\ UNCHANGED fresh
     ELSE Ends(t) /\ SettleAndWipe(t) /\ UNCHANGED tier1
  /\ UNCHANGED <<conn, ui, autofill_conn, autofill_due, storeVars, cancelled>>

\* _unlock_for_names, the store unlocked: it opens for this connection.
NamesReturns(t) ==
  /\ Back(t, "names", "unlock")
  /\ IF res[t] # "ok"
     THEN Ends(t) /\ Settle(t) /\ UNCHANGED openVars
     ELSE IF NotLockedMeanwhile(t)
          THEN /\ autofill_conn' = Owner[t]
               /\ autofill_due' = FALSE
               /\ Then(t, "list_meta", store)
               /\ Settle(t)
               /\ UNCHANGED <<tier1, fresh>>
          ELSE Ends(t) /\ SettleAndWipe(t) /\ UNCHANGED openVars
  /\ UNCHANGED <<conn, ui, storeVars, cancelled>>

\* The list: the answer to a query or a names request.  An unlock's reply and a sync's event
\* want the store's status too, and a fill the entry it is for, if the list has it.
ListReturns(t) ==
  /\ \/ (\E o \in {"names", "named", "query"} : Back(t, o, "list_meta")) /\ Ends(t)
     \/ /\ \E o \in {"unlock", "sync"} : Back(t, o, "list_meta")
        /\ IF res[t] = "ok" THEN Then(t, "status", store) /\ UNCHANGED fresh ELSE Ends(t)
     \/ /\ Back(t, "fill", "list_meta")
        /\ Ends(t) \/ (res[t] = "ok" /\ Then(t, "get_meta", store) /\ UNCHANGED fresh)
  /\ Settle(t)
  /\ UNCHANGED <<conn, ui, openVars, storeVars, cancelled>>

\* The status: the unlock is answered, and the sync's event goes out or not.
StatusReturns(t) ==
  /\ \E o \in {"unlock", "sync"} : Back(t, o, "status")
  /\ Ends(t)
  /\ Settle(t)
  /\ UNCHANGED <<conn, ui, openVars, storeVars, cancelled>>

\* The entry, if it is there (and matches): a grant's, opened if nothing locked meanwhile; a
\* fill's, whose dialog comes next; and the same once more, to be opened whatever happened.
MetaReturns(t) ==
  /\ \/ /\ Back(t, "read", "get_meta")
        /\ Ends(t) \/ (res[t] = "ok" /\ Still(t) /\ Then(t, "open_entry", store) /\ UNCHANGED fresh)
     \/ /\ Back(t, "fill", "get_meta")
        /\ Ends(t) \/ (res[t] = "ok" /\ Asks(t) /\ fresh' = IF MayAsk(t) THEN fresh ELSE fresh \ {t})
     \/ /\ Back(t, "fill", "rematch")
        /\ Ends(t) \/ (res[t] = "ok" /\ Then(t, "open_entry", store) /\ UNCHANGED fresh)
  /\ Settle(t)
  /\ UNCHANGED <<conn, ui, openVars, storeVars, cancelled>>

EntryReturns(t) ==
  /\ \E o \in {"read", "fill"} : Back(t, o, "open_entry")
  /\ Ends(t)
  /\ Settle(t)
  /\ UNCHANGED <<conn, ui, openVars, storeVars, cancelled>>

\* background_sync: the list follows, unless a lock landed.
SyncReturns(t) ==
  /\ Back(t, "sync", "sync")
  /\ IF res[t] = "ok" /\ t \in fresh /\ Unlocked
     THEN Then(t, "list_meta", store) /\ UNCHANGED fresh
     ELSE Ends(t)
  /\ Settle(t)
  /\ UNCHANGED <<conn, ui, openVars, storeVars, cancelled>>

\* op_reset: a lock that landed during the reads ends the op; then its own lock, whose epoch
\* the rest of the op is held to.
RecheckReturns(t) ==
  /\ Back(t, "reset", "recheck")
  /\ \/ Ends(t) /\ Settle(t) /\ UNCHANGED <<openVars, cancelled>>
     \/ /\ res[t] # "empty"
        /\ StillAsked(t)
        /\ tier1' = NoConn
        /\ autofill_conn' = NoConn
        /\ autofill_due' = FALSE
        /\ CancelPrompts(Task)
        /\ SettleAndWipe(t)
        /\ CallIn(Tail(store_lock), t, "reset", store, {})
        /\ fresh' = {t}
        /\ UNCHANGED op
  /\ UNCHANGED <<conn, ui, storeVars>>

\* _not_locked_since()
NotLockedSince(t) == NotLockedMeanwhile(t) /\ ui = Owner[t]

\* A failed create() that leaves its result as the session's store.
AdoptsAnything(t) == TRUE

\* The new object is the session's only if the op goes on.
AdoptsIfKept(t) == res[t] = "ok" /\ NotLockedSince(t)

\* s.store = new, once there is one
Adopts(t) == res[t] = "ok"

\* _replace_store(): the new object is the session's, whatever happens next.
MakeReturns(t) ==
  /\ \E o \in {"reset", "migrate"}, f \in Replaces : Back(t, o, f)
  /\ IF ~Adopts(t)
     THEN Ends(t) /\ Settle(t) /\ UNCHANGED store
     ELSE /\ store' = obj[t]
          /\ IF NotLockedSince(t)
             THEN Then(t, "save_settings", obj[t]) /\ Settle(t) /\ UNCHANGED fresh
             ELSE Ends(t) /\ keys' = KeysAfter(t) \ {obj[t]} /\ wipe_req' = ReqAfter(t)
  /\ UNCHANGED <<conn, ui, openVars, disk, cancelled>>

\* The record of the migration is written, or not, which is logged: tier 1 opens on the new store.
\* (Its load and its save are one call here; Migrate has them as two.)
SaveReturns(t) ==
  /\ \E o \in {"reset", "migrate"} : Back(t, o, "save_settings")
  /\ Ends(t)
  /\ IF NotLockedSince(t)
     THEN tier1' = Owner[t] /\ Settle(t)
     ELSE SettleAndWipe(t) /\ UNCHANGED tier1
  /\ UNCHANGED <<conn, ui, autofill_conn, autofill_due, storeVars, cancelled>>

Return(t) ==
  \/ StateReturns(t) \/ UnlockReturns(t) \/ TpmReturns(t) \/ NamesReturns(t) \/ ListReturns(t)
  \/ StatusReturns(t) \/ MetaReturns(t) \/ EntryReturns(t) \/ SyncReturns(t) \/ RecheckReturns(t)
  \/ MakeReturns(t) \/ SaveReturns(t)

-----------------------------------------------------------------------------

Request(t) ==
  \/ UnlockStarts(t) \/ ReadStarts(t) \/ QueryStarts(t) \/ NamedStarts(t) \/ NamesStarts(t)
  \/ ReplaceStarts(t) \/ SyncStarts(t)

Dialog(t) ==
  \/ DialogRefused(t) \/ UnlockApproved(t) \/ NamesApproved(t) \/ NamedApproved(t)
  \/ FillApproved(t) \/ ResetApproved(t) \/ MigrateApproved(t)

Next ==
  \/ Lock \/ AutofillExpires \/ AutofillTimeout
  \/ \E c \in Conn : HelloWindow(c) \/ HelloReads(c) \/ HelloReply(c) \/ HelloBrowser(c)
                       \/ Close(c) \/ Detach(c)
  \/ \E t \in Task : Request(t) \/ Dialog(t) \/ Begin(t) \/ Worker(t) \/ Return(t)

Spec == Init /\ [][Next]_vars

\* The worker pool runs what it is given, the event loop resumes what is ready and notices a
\* closed socket, a dialog ends by itself (polkit's agent gives up), and a sync is a finite
\* sequence of calls.  Users, browsers, timers and lock triggers owe nothing.  (A task is at one
\* Place at a time and leaves it by its own steps only, so that one condition serves for all.)
Fairness ==
  /\ \A t \in Task : WF_vars(Begin(t) \/ Worker(t) \/ Return(t) \/ Dialog(t))
  /\ \A t \in {u \in Task : "sync" \in Ops[u]} : SF_vars(SyncEnds(t))
  /\ \A c \in Conn : WF_vars(Detach(c))

-----------------------------------------------------------------------------
(* Properties *)

Running(t) == pc[t] \in {"run", "in", "ret"}

\* Keys that are in memory although nothing is open yet, because a handler that saw no lock
\* is about to open the store: its unlock has just returned, or it waits for the call between
\* the unlock (or the new store) and open_tier1.
Opening ==
  \E t \in Task :
    \/ pc[t] = "ret" /\ fn[t] = "unlock" /\ res[t] = "ok" /\ obj[t] = store
    \/ fn[t] \in {"tpm_move_state", "save_settings"} /\ t \in fresh

\* The store's keys are in memory only while it is open, about to be, or a lock waits for the
\* running call: whatever lock, close or timer lands between the steps of whatever handlers.
\* (Registry.lock, run_store's finally clause, and every check after an await.)
KeysOnlyWhileOpen == store \in keys => Open \/ wipe_after \/ Opening

\* An object the session no longer refers to holds no keys, save one still being returned.
NoStrayKeys ==
  \A o \in keys \ {store} : \E t \in Task : Running(t) /\ obj[t] = o

\* A read that a handler which looks again is about to send: the call succeeded, and the
\* handler's own check after it holds.
Releases(t) ==
  /\ pc[t] = "ret"
  /\ \/ fn[t] = "list_meta" /\ op[t] \in {"names", "named", "query"}
        /\ res[t] = "ok" /\ OpenSession(Owner[t])
     \/ fn[t] = "open_entry" /\ op[t] = "fill" /\ res[t] = "ok" /\ OpenSession(Owner[t])
     \/ fn[t] = "open_entry" /\ op[t] = "read" /\ res[t] = "ok" /\ Still(t)
     \/ fn[t] = "status" /\ op[t] = "sync" /\ t \in fresh /\ Unlocked

\* What a handler that looks again sends was read in the unlock it is sent in: no lock landed
\* since the call began, nor since the request came, although a query and a names request look
\* at no epoch.  (A fill is held to its last call alone: between its two calls after the dialog
\* it looks at nothing.  The reply to unlock is not among them, see UnlockReplyIsCurrent.)
ReadsAreCurrent ==
  \A t \in Task : Releases(t) => t \in jfresh /\ (op[t] # "fill" => t \in fresh)

\* The same of the reply to unlock, which is the whole list.  False: see MCStoreReply.cfg.
\* op_unlock reads the list and the status after it opened tier 1, and looks at nothing then.
UnlockReplyIsCurrent ==
  \A t \in Task : pc[t] = "ret" /\ op[t] = "unlock" /\ fn[t] = "status" => t \in fresh

\* The calls of apple.sync touch the keys of the unlock it was started in, and no later one's:
\* inside a call they are there only if no lock landed or the call itself will wipe them on its way out.
SyncStaysInOneUnlock ==
  \A t \in Task :
    fn[t] = "sync" /\ obj[t] \in keys =>
      /\ pc[t] = "in" => t \in jfresh \/ obj[t] \in wipe_req
      /\ pc[t] = "run" => t \in jfresh

\* While create() or reset() runs past a lock, the lock stays pending until the new object
\* is wiped: sleep is held back for it (wipes_pending).
NewStoreIsAwaited ==
  \A t \in Task : Running(t) /\ fn[t] \in Replaces /\ t \notin jfresh /\ obj[t] \in keys
                     => wipe_after

\* The same of every call: keys that are in memory past a lock are waited for.
KeysPastLockAreAwaited ==
  \A t \in Task : Running(t) /\ t \notin jfresh /\ obj[t] \in keys => wipe_after

\* The premise of three of them: a window has one request at a time that opens or replaces the
\* store, as the screens of app/shell.qml send them, and no browser opens it.
Opener == {"unlock", "reset", "migrate"}

OneOpener ==
  \A t, u \in Task :
    /\ "names" \notin Ops[t]
    /\ t # u /\ Ops[t] \cap Opener # {} /\ Ops[u] \cap Opener # {} => Owner[t] # Owner[u]

\* Once a lock is through and no request is left, no key of the uid is in memory.
LockedMeansNoKeys ==
  ~Open /\ ~wipe_after /\ (\A t \in Task : op[t] = "none") => keys = {}

\* While tier 1 is open on a live window its store is unlocked.
WindowHasItsKeys == Unlocked => store \in keys

\* Every lock's wipe is carried out.
WipesHappen == wipe_after ~> ~wipe_after

\* Every request is answered, whatever locks land.
RequestsEnd == \A t \in Task : op[t] # "none" ~> op[t] = "none"

=============================================================================
