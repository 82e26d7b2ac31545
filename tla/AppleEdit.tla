------------------------------- MODULE AppleEdit -------------------------------
(***************************************************************************)
(* Edits that go to iCloud: op_set, op_create and op_delete                *)
(* (daemon/handlers.py), push_set, create, delete and sync                 *)
(* (daemon/apple.py), and the records they write (cli/push.py,             *)
(* keychain/update.py), while another device changes the same entry.       *)
(*                                                                         *)
(* iCloud keeps an entry as two records: one with the password, one with   *)
(* the details (the password history Apple's own app shows, notes, sites   *)
(* and code, and the title).  A save replaces a record as a whole with     *)
(* what was made of the copy fetched before; no version is compared.       *)
(* iCloud is external: it takes a save of a record that is still there,    *)
(* refuses one of a record that was deleted, and any request may fail.     *)
(* Another device writes both records at one time.                         *)
(*                                                                         *)
(* One entry is modelled.  A value is the number of the change that wrote  *)
(* it.  Left out: the form of the values (Details), a second record of the *)
(* same account or of its details made by two devices at once, and Wi-Fi   *)
(* networks.                                                               *)
(***************************************************************************)
EXTENDS Account

CONSTANT MaxChanges   \* bound: changes made to the entry, here and elsewhere

ASSUME AppleAssumption == MaxChanges \in Nat

VARIABLES
  cloud,    \* iCloud's two records
  zone,     \* push.Zone: the copy the current step works from
  base,     \* history: what the first fetch of the edit saw
  local,    \* the entry in the store
  nick,     \* the store's own nickname for it, 0 for none
  edit,     \* the edit: what it asks for, and the value it writes
  todo,     \* the fields push_set has still to push
  got,      \* the entry as _landed or sync fetched it
  changes,  \* how many changes there were
  met,      \* history: another device wrote since the edit's first fetch
  skipped,  \* history: the save of the password history failed
  raced     \* history: another device added or deleted a record during an edit

accountIdle == <<session, circle, latch, signinVars>>   \* what an edit leaves alone
editVars == <<zone, base, edit, todo, got, met, skipped>>
vars == <<accountVars, cloud, editVars, local, nick, changes, raced>>

Gone == 0
Number == 1..MaxChanges

\* Records that are not there have pw = Gone, has = FALSE.
NoDetails == [has |-> FALSE, hi |-> Gone, details |-> Gone, title |-> Gone]
NoEntry   == [pw |-> Gone, det |-> NoDetails]

Fields == {"password", "details", "title"}
NoEdit == [op |-> "none", fields |-> {}, v |-> Gone]

Value == Number \cup {Gone}
Records == [pw : Value, det : [has : BOOLEAN, hi : Value, details : Value, title : Value]]

TypeOK ==
  /\ AccountTypeOK
  /\ cloud \in Records /\ zone \in Records /\ base \in Records /\ got \in Records
  /\ local \in [there : BOOLEAN, pw : Value, details : Value, title : Value]
  /\ nick \in Value
  /\ edit \in [op : {"none", "set", "create", "delete"}, fields : SUBSET Fields, v : Value]
  /\ todo \subseteq edit.fields
  /\ busy \in {"edit"} <=> edit.op # "none"
  /\ changes \in 0..MaxChanges
  /\ met \in BOOLEAN /\ skipped \in BOOLEAN /\ raced \in BOOLEAN

NoItem == [there |-> FALSE, pw |-> Gone, details |-> Gone, title |-> Gone]

\* The entry as to_sync_item makes it of the records: a name of this store's own, or Apple's.
Item(r, name) ==
  IF r.pw = Gone THEN NoItem
  ELSE [there |-> TRUE, pw |-> r.pw, details |-> r.det.details,
        title |-> IF name # Gone THEN name ELSE r.det.title]

Init ==
  /\ AccountInit
  /\ cloud = NoEntry /\ zone = NoEntry /\ base = NoEntry /\ got = NoEntry
  /\ local = NoItem /\ nick = Gone
  /\ edit = NoEdit /\ todo = {}
  /\ changes = 0
  /\ met = FALSE /\ skipped = FALSE /\ raced = FALSE

-----------------------------------------------------------------------------
(* Another device *)

Elsewhere(new) ==
  /\ cloud' = new
  /\ met' = TRUE
  /\ UNCHANGED <<accountVars, zone, base, edit, todo, got, skipped, local, nick>>

DeviceChanges ==
  /\ cloud.pw # Gone /\ changes < MaxChanges
  /\ changes' = changes + 1
  /\ \/ Elsewhere([cloud EXCEPT !.pw = changes',
                                 !.det.hi = IF cloud.det.has THEN changes' ELSE @])
     \/ Elsewhere([cloud EXCEPT !.det = [@ EXCEPT !.has = TRUE, !.details = changes']])
     \/ Elsewhere([cloud EXCEPT !.det = [@ EXCEPT !.has = TRUE, !.title = changes']])
  /\ raced' = (raced \/ (busy = "edit" /\ cloud'.det.has # cloud.det.has))

\* With or without details: a login saved before Apple's Passwords app has none.  (Not while
\* this computer creates the same entry: see above.)
DeviceCreates ==
  /\ cloud = NoEntry /\ edit.op # "create" /\ changes < MaxChanges
  /\ changes' = changes + 1
  /\ \/ Elsewhere([NoEntry EXCEPT !.pw = changes'])
     \/ Elsewhere([pw |-> changes',
                   det |-> [NoDetails EXCEPT !.has = TRUE, !.details = changes']])
  /\ UNCHANGED raced

DeviceDeletes ==
  /\ cloud.pw # Gone
  /\ Elsewhere(NoEntry)
  /\ raced' = (raced \/ busy = "edit")
  /\ UNCHANGED changes

-----------------------------------------------------------------------------
(* Edits: from the op to the fetched zone *)

\* op_set, op_create and op_delete, once their own checks and dialogs are behind them.
EditStarts(op, fields) ==
  /\ open /\ busy = "none" /\ changes < MaxChanges
  /\ op \in {"set", "delete"} => local.there
  /\ busy' = "edit" /\ pc' = "open"
  /\ changes' = changes + 1
  /\ edit' = [op |-> op, fields |-> fields, v |-> changes']
  /\ todo' = (IF op = "set" THEN fields ELSE {})
  /\ met' = FALSE /\ skipped' = FALSE
  /\ UNCHANGED <<open, accountIdle, cloud, zone, base, got, local, nick, raced>>

\* Mutant of Fetched: the zone of the first step serves the later ones too.
FetchedOnce == IF zone # NoEntry THEN zone ELSE cloud

\* push.open_zone: every step works from a fresh fetch.
Fetched == cloud

\* push_set's order.
NextField ==
  CASE "password" \in todo -> "password"
    [] "password" \notin todo /\ "details" \in todo -> "details"
    [] OTHER -> "title"

OpenZone ==
  /\ pc = "open" /\ Fresh
  /\ zone' = Fetched
  /\ base' = (IF zone = NoEntry THEN cloud ELSE base)
  /\ met' = (zone # NoEntry /\ met)
  /\ pc' = (IF edit.op = "set" THEN NextField ELSE edit.op)
  /\ UNCHANGED <<open, busy, accountIdle, cloud, edit, todo, got, skipped,
                 local, nick, changes, raced>>

\* The call ends, with an error or without one.
EndCall ==
  /\ Over
  /\ edit' = NoEdit /\ todo' = {} /\ zone' = NoEntry /\ base' = NoEntry /\ got' = NoEntry
  /\ met' = FALSE /\ skipped' = FALSE

\* A request fails or the server refuses it; the step's own checks refuse; the session has no
\* fresh tokens; the fetched entry is not what it has to be.
EditFails ==
  /\ busy \in {"edit", "sync"} /\ pc # "done"
  /\ EndCall
  /\ UNCHANGED <<open, session, circle, latch, cloud, local, nick, changes, raced>>

\* push_set's loop: the next step starts with a fetch of its own.
NextStep ==
  /\ todo' = todo \ {NextField}
  /\ pc' = (IF todo' = {} THEN "landed" ELSE "open")
  /\ UNCHANGED <<open, busy, accountIdle, zone, base, edit, got, met, local, nick,
                 changes, raced>>

Still(next) ==
  /\ pc' = next
  /\ UNCHANGED <<open, busy, accountIdle, zone, base, edit, todo, got, met,
                 skipped, local, nick, changes, raced>>

-----------------------------------------------------------------------------
(* The steps: cli/push.py *)

\* push_password: the password's record first, then the history in the details record.
SavePassword ==
  /\ pc = "password" /\ zone.pw # Gone /\ cloud.pw # Gone
  /\ cloud' = [cloud EXCEPT !.pw = edit.v]
  /\ Still("history")

SaveHistory ==
  /\ pc = "history" /\ zone.det.has /\ cloud.det.has
  /\ cloud' = [cloud EXCEPT !.det = [zone.det EXCEPT !.hi = edit.v]]
  /\ NextStep
  /\ UNCHANGED skipped

\* There is no details record, or its save failed, which is only logged.
SkipHistory ==
  /\ pc = "history"
  /\ skipped' = (skipped \/ zone.det.has)
  /\ NextStep
  /\ UNCHANGED cloud

\* push_details: an entry without a details record gets one.
SaveDetails ==
  /\ pc = "details" /\ zone.pw # Gone
  /\ zone.det.has = cloud.det.has
  /\ cloud' = [cloud EXCEPT !.det = [zone.det EXCEPT !.has = TRUE, !.details = edit.v]]
  /\ NextStep
  /\ UNCHANGED skipped

\* push_nickname: without a details record the name stays here.
SaveTitle ==
  /\ pc = "title"
  /\ IF zone.det.has
       THEN cloud.det.has /\ cloud' = [cloud EXCEPT !.det = [zone.det EXCEPT !.title = edit.v]]
       ELSE UNCHANGED cloud
  /\ NextStep
  /\ UNCHANGED skipped

\* create_entry: the password's record, then the details.
CreateOrder == <<"password", "details">>

\* Mutant of DeleteOrder: the password goes first.
DeletePasswordFirst == <<"password", "details">>

\* delete_entry: the details record first, so that what is left is an ordinary login.
DeleteOrder == <<"details", "password">>

\* One request of create_entry, which refuses an account that is there.
Create(which, next) ==
  /\ zone = NoEntry
  /\ cloud' = (IF which = "password" THEN [cloud EXCEPT !.pw = edit.v]
               ELSE [cloud EXCEPT !.det = [NoDetails EXCEPT !.has = TRUE, !.details = edit.v,
                                                            !.title = edit.v]])
  /\ Still(next)

\* One request of delete_entry, for a record the fetch had.
Delete(which, next) ==
  /\ zone.pw # Gone
  /\ cloud' = (IF which = "password" THEN [cloud EXCEPT !.pw = Gone]
               ELSE [cloud EXCEPT !.det = IF zone.det.has THEN NoDetails ELSE @])
  /\ Still(next)

CreateFirst  == pc = "create"  /\ Create(CreateOrder[1], "create2")
CreateSecond == pc = "create2" /\ Create(CreateOrder[2], "landed")
DeleteFirst  == pc = "delete"  /\ Delete(DeleteOrder[1], "delete2")
DeleteSecond == pc = "delete2" /\ Delete(DeleteOrder[2], "landed")

-----------------------------------------------------------------------------
(* What came of it *)

\* Mutant of Landed: the answer to the save is believed.
LandedAssumed(r) == TRUE

\* _landed: the entry fetched again shows the change.
Landed(r) ==
  IF edit.op = "delete"
    THEN r.pw = Gone
    ELSE /\ r.pw # Gone
         /\ "password" \in edit.fields => r.pw = edit.v
         /\ "details" \in edit.fields /\ edit.op = "set" => r.det.details = edit.v
         /\ "title" \in edit.fields /\ edit.op = "set" /\ zone.det.has => r.det.title = edit.v

Refetch ==
  /\ pc = "landed" /\ Landed(cloud)
  /\ got' = cloud
  /\ pc' = "apply"
  /\ UNCHANGED <<open, busy, accountIdle, cloud, zone, base, edit, todo, met,
                 skipped, local, nick, changes, raced>>

\* A name goes into the store if Apple could not take it.
Named ==
  IF edit.op # "set" \/ "title" \notin edit.fields THEN nick
  ELSE IF zone.det.has THEN Gone ELSE edit.v

\* save_nicknames, set_secrets and apply_sync; a lock has each of them refused.  (Of the values
\* the password stands for all; a nickname that is taken away is left out.)
SetSecrets ==
  /\ pc = "apply" /\ open
  /\ nick' = Named
  /\ local' = [local EXCEPT !.pw = IF edit.op = "set" /\ "password" \in edit.fields
                                      THEN got.pw ELSE @]
  /\ pc' = "applied"
  /\ UNCHANGED <<open, busy, accountIdle, cloud, editVars, changes, raced>>

ApplySync ==
  /\ pc = "applied" /\ open
  /\ local' = Item(got, nick)
  /\ pc' = "done"
  /\ UNCHANGED <<open, busy, accountIdle, cloud, editVars, nick, changes, raced>>

\* The reply.
EditDone ==
  /\ pc = "done"
  /\ EndCall
  /\ UNCHANGED <<open, session, circle, latch, cloud, local, nick, changes, raced>>

\* background_sync and op_sync: apple.sync() fetches, then applies.
SyncStarts ==
  /\ open /\ busy = "none" /\ Fresh
  /\ busy' = "sync" /\ pc' = "sync"
  /\ UNCHANGED <<open, accountIdle, cloud, editVars, local, nick, changes, raced>>

SyncFetches ==
  /\ pc = "sync" /\ open
  /\ got' = cloud /\ pc' = "fetched"
  /\ UNCHANGED <<open, busy, accountIdle, cloud, zone, base, edit, todo, met,
                 skipped, local, nick, changes, raced>>

\* Of _deleted: a fetch that brought nothing at all deletes nothing here.
SyncApplies ==
  /\ pc = "fetched" /\ open
  /\ local' \in {Item(got, nick)} \cup (IF got.pw = Gone THEN {local} ELSE {})
  /\ EndCall
  /\ latch' = FALSE
  /\ UNCHANGED <<open, session, circle, cloud, nick, changes, raced>>

\* The sync a sign-in ends with.  (That it may ask for one more code is left out.)
SigninSyncs ==
  /\ FirstSync
  /\ local' \in IF open THEN {Item(cloud, nick)} \cup (IF cloud.pw = Gone THEN {local} ELSE {})
                        ELSE {local}
  /\ UNCHANGED <<cloud, editVars, nick, changes, raced>>

-----------------------------------------------------------------------------
(* Specification *)

Edit ==
  \/ \E F \in (SUBSET Fields) \ {{}} : EditStarts("set", F)
  \/ EditStarts("create", {"password", "details"}) \/ EditStarts("delete", {})
  \/ OpenZone \/ SavePassword \/ SaveHistory \/ SkipHistory \/ SaveDetails \/ SaveTitle
  \/ CreateFirst \/ CreateSecond \/ DeleteFirst \/ DeleteSecond
  \/ Refetch \/ SetSecrets \/ ApplySync \/ EditDone \/ EditFails

Sync == SyncStarts \/ SyncFetches \/ SyncApplies

\* Not during a sign-in, whose steps have nothing to do with the entry until it syncs.
Device == busy # "signin" /\ (DeviceChanges \/ DeviceCreates \/ DeviceDeletes)

Next ==
  \/ (Signin \/ Person) /\ UNCHANGED <<cloud, editVars, local, nick, changes, raced>>
  \/ SigninSyncs
  \/ NeedsLogin /\ EndCall /\ UNCHANGED <<cloud, local, nick, changes, raced>>
  \/ Edit \/ Sync \/ Device

\* The worker of a sign-in goes on until it asks; Apple's requests end in time (each has a
\* timeout).  Nothing is assumed of the person or of other devices.
Fairness ==
  /\ WF_vars(Signin /\ UNCHANGED <<cloud, editVars, local, nick, changes, raced>>)
  /\ WF_vars(SigninSyncs)

Spec == Init /\ [][Next]_vars /\ Fairness

-----------------------------------------------------------------------------
(* Properties *)

\* An edit that was answered changed what it was asked to and nothing else, although it rewrites
\* one record up to three times from copies of it: where no other device wrote meanwhile, iCloud
\* holds the new values, the password in Apple's own history too, and the rest is as it was.
\* (push_set: a fresh fetch before every step.)
EditsKeepEachOther ==
  pc = "done" /\ edit.op = "set" /\ ~met /\ ~skipped =>
    LET asked(f, old) == IF f \in edit.fields THEN edit.v ELSE old
    IN /\ cloud.pw = asked("password", base.pw)
       /\ cloud.det.details = asked("details", base.det.details)
       /\ base.det.has => /\ cloud.det.title = asked("title", base.det.title)
                          /\ cloud.det.hi = asked("password", base.det.hi)

\* An edit that was answered is what the store shows, whatever other devices did meanwhile.
\* (_landed.)
AnsweredIsStored ==
  pc = "done" =>
    /\ edit.op = "delete" => ~local.there
    /\ edit.op # "delete" => local.there
    /\ "password" \in edit.fields => local.pw = edit.v
    /\ edit.op = "set" /\ "details" \in edit.fields => local.details = edit.v
    /\ edit.op = "set" /\ "title" \in edit.fields => local.title = edit.v

\* However an edit is cut short, it leaves no details without a password, which Apple's app
\* would show nowhere; only another device that adds or deletes a record during the edit can.
\* (create_entry, delete_entry.)
NoOrphan == cloud.det.has /\ cloud.pw = Gone => raced

\* An escrow attempt is spent only on a passcode typed and a join confirmed in this very
\* sign-in.  (_join_and_sync.)
NothingSpentUnasked ==
  [][spent' > spent => yes = Consent]_vars

\* The store never takes itself for a member when Apple does not, even if the join fails after
\* the escrow gave the sponsor's key.
JoinedIsTrue == session = "joined" => circle

\* A sign-in that meets a lock ends, wherever it is, and gives the store back.
\* (SocketFrontend.cancel.)
SigninEnds == ~open /\ busy = "signin" ~> busy # "signin"

=============================================================================
