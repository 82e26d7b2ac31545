---------------------------- MODULE AppleEditProofs ----------------------------
(***************************************************************************)
(* What is proved of AppleEdit (and of Account, which it extends): the     *)
(* edits that go to iCloud and the sign-in, for any number of changes.     *)
(*                                                                         *)
(* Types says which steps belong to which call.  For the sign-in, Consents *)
(* says what an answered question proves, and Joined what a join has done  *)
(* so far.  For the edits, EditInv says what the two records look like     *)
(* between two requests of a create or a delete (Pairs), which fields      *)
(* push_set has still to push (Loop) and has written (Keeps), and what     *)
(* _landed found (Answers).  Each is kept by every step.                   *)
(***************************************************************************)
EXTENDS AppleEdit, TLAPS

SigninStep == {"apple_id", "password", "mint", "code", "minted", "identity", "list", "device",
               "join_confirm", "pet", "device_passcode", "join", "vouch", "save_joined",
               "first_sync"}
Ending == {"landed", "apply", "applied", "done"}
StepsOf(op) ==
  IF op = "set" THEN {"open", "password", "history", "details", "title"} \cup Ending
  ELSE IF op = "create" THEN {"open", "create", "create2"} \cup Ending
  ELSE IF op = "delete" THEN {"open", "delete", "delete2"} \cup Ending
  ELSE {}

\* What a call has to do, by its kind.
Steps ==
  /\ busy = "none" => pc = "idle"
  /\ busy = "signin" => pc \in SigninStep
  /\ busy = "sync" => pc \in {"sync", "fetched"}
  /\ busy = "edit" => pc \in StepsOf(edit.op)

\* What is there only while its call runs.
Quiet ==
  /\ busy # "signin" => /\ work = "none" /\ asking = "none" /\ said = "none" /\ ~cancelled
                        /\ spent = 0 /\ yes = {}
  /\ busy # "edit" => edit = NoEdit /\ todo = {} /\ zone = NoEntry /\ base = NoEntry

\* The value an edit writes, and the fields.
Asked ==
  /\ edit.op # "none" => edit.v \in Number
  /\ edit.op = "create" => edit.fields = {"password", "details"}
  /\ edit.op \in {"none", "delete"} => edit.fields = {}

Types == TypeOK /\ Steps /\ Quiet /\ Asked

\* A value was typed for every question of Consent that is behind the sign-in.
Consents ==
  /\ asking = "none" => said = "none"
  /\ said = "value" /\ asking \in Consent => asking \in yes
  /\ pc \in {"pet", "device_passcode"} => "join_confirm" \in yes
  /\ pc = "join" => yes = Consent

\* The record says "joined" only once the voucher was taken.
Joined == session = "joined" \/ work = "joined" \/ pc = "save_joined" => circle

\* The two records between two requests, if no other device added or deleted one.
Pairs ==
  /\ NoOrphan
  /\ edit.op = "set" /\ zone.pw # Gone => cloud.pw # Gone \/ raced
  /\ pc = "create2" => cloud.pw # Gone \/ raced
  /\ pc = "delete" /\ zone.pw # Gone =>
       (cloud.pw # Gone /\ (cloud.det.has => zone.det.has)) \/ raced
  /\ pc = "delete2" => (cloud.pw # Gone /\ ~cloud.det.has) \/ raced

\* push_set's loop: the field of the step is the next of those left.
Loop ==
  edit.op = "set" =>
    /\ pc = "open" => todo # {} /\ (zone = NoEntry => todo = edit.fields)
    /\ pc \in Fields => todo # {} /\ pc = NextField
    /\ pc = "history" => "password" \in todo /\ zone.pw # Gone
    /\ pc \in Ending => todo = {}

Pushed(f) == f \in edit.fields /\ f \notin todo
Now(f, old) == IF Pushed(f) THEN edit.v ELSE old

\* After the first fetch of push_set, as long as no other device wrote.
Keeps ==
  edit.op = "set" /\ ~met /\ (pc = "open" => zone # NoEntry) =>
    /\ cloud.pw = IF pc = "history" \/ Pushed("password") THEN edit.v ELSE base.pw
    /\ cloud.det.details = Now("details", base.det.details)
    /\ base.det.has => /\ cloud.det.has
                       /\ cloud.det.title = Now("title", base.det.title)
                       /\ ~skipped => cloud.det.hi = Now("password", base.det.hi)
    /\ pc \in Fields => zone = cloud
    /\ pc = "history" => zone.det = cloud.det

\* From _landed to the reply.
Answers ==
  /\ pc \in {"apply", "applied", "done"} => Landed(got)
  /\ pc \in {"applied", "done"} /\ edit.op = "set" /\ "title" \in edit.fields =>
       nick = IF zone.det.has THEN Gone ELSE edit.v
  /\ pc = "done" => local = Item(got, nick)

-----------------------------------------------------------------------------
(* Types *)

Rest == <<cloud, editVars, local, nick, changes, raced>>

LEMMA EmptyTypes ==
  /\ Gone \in Value /\ NoEntry \in Records
  /\ NoItem \in [there : BOOLEAN, pw : Value, details : Value, title : Value]
  /\ NoEdit \in [op : {"none", "set", "create", "delete"}, fields : SUBSET Fields, v : Value]
  /\ NoEdit.op = "none" /\ NoEdit.fields = {}
BY DEF Records, Value, NoEntry, NoDetails, NoItem, NoEdit

LEMMA InitTypes == Init => Types
<1> SUFFICES ASSUME Init PROVE Types
  OBVIOUS
<1>1. /\ open \in BOOLEAN /\ circle \in BOOLEAN /\ latch \in BOOLEAN /\ cancelled \in BOOLEAN
      /\ met \in BOOLEAN /\ skipped \in BOOLEAN /\ raced \in BOOLEAN
  BY Zenon DEF Init, AccountInit
<1>2. AccountTypeOK
  BY <1>1 DEF Init, AccountInit, AccountTypeOK, Progress, Questions
<1>3. changes \in 0..MaxChanges
  BY AppleAssumption DEF Init
<1>4. TypeOK
  BY <1>1, <1>2, <1>3, EmptyTypes DEF Init, AccountInit, TypeOK
<1> QED
  BY <1>4, EmptyTypes DEF Init, AccountInit, Types, Steps, Quiet, Asked

\* The call is over: what Over leaves fits a daemon without a call.
LEMMA OverTypes ==
  ASSUME Types, Over, UNCHANGED <<open, session, circle>>, latch' \in BOOLEAN,
         local' \in [there : BOOLEAN, pw : Value, details : Value, title : Value],
         UNCHANGED <<cloud, nick, changes, raced>>,
         \/ EndCall
         \/ busy # "edit" /\ UNCHANGED editVars
  PROVE  Types'
<1>1. edit' = NoEdit /\ todo' = {} /\ zone' = NoEntry /\ base' = NoEntry
  BY DEF EndCall, editVars, Types, Quiet
<1>2. got' \in Records /\ met' \in BOOLEAN /\ skipped' \in BOOLEAN
  BY EmptyTypes DEF EndCall, editVars, Types, TypeOK
<1>3. AccountTypeOK'
  <2>1. open' \in BOOLEAN /\ circle' \in BOOLEAN /\ cancelled' \in BOOLEAN
    BY Zenon DEF Over, Types, TypeOK, AccountTypeOK
  <2> QED
    BY <2>1 DEF Over, Types, TypeOK, AccountTypeOK, Progress
<1>4. TypeOK'
  BY <1>1, <1>2, <1>3, EmptyTypes DEF Over, Types, TypeOK
<1> QED
  BY <1>1, <1>4, EmptyTypes DEF Over, Types, Steps, Quiet, Asked

LEMMA SigninTypes == Types /\ Signin /\ UNCHANGED Rest => Types'
<1> SUFFICES ASSUME Types, Signin, UNCHANGED Rest PROVE Types'
  OBVIOUS
<1> USE DEF Types, TypeOK, AccountTypeOK, Steps, Quiet, Asked, StepsOf, Ending, SigninStep, Rest,
            editVars
<1>0. ASSUME Over, UNCHANGED <<open, session, circle, latch>>, busy # "edit" PROVE Types'
  BY <1>0, OverTypes
<1>1. CASE Unwind
  BY <1>1, <1>0 DEF Unwind
<1>2. CASE Fails
  BY <1>2, <1>0 DEF Fails
<1>3. CASE MintAsks
  BY <1>3 DEF MintAsks, Go, signinVars
<1>4. CASE SaveTokens
  BY <1>4, <1>0 DEF SaveTokens, Save, signinVars, Progress
<1>5. CASE SaveIdentity
  BY <1>5, <1>0 DEF SaveIdentity, Save, signinVars, Progress
<1>6. CASE ListBottles
  BY <1>6 DEF ListBottles, Go, signinVars
<1>7. CASE MintPet
  BY <1>7 DEF MintPet, Go, signinVars
<1>8. CASE Recover
  BY <1>8 DEF Recover
<1>9. CASE JoinWithVoucher
  BY <1>9 DEF JoinWithVoucher, signinVars
<1>10. CASE SaveJoined
  BY <1>10, <1>0 DEF SaveJoined, Save, signinVars, Progress
<1>11. CASE \E q \in Questions : pc = q /\ busy = "signin" /\ Ask(q)
  BY <1>11 DEF Ask
<1>12. ASSUME NEW q \in Questions, NEW next \in SigninStep, Answered(q, next) PROVE Types'
  BY <1>12, <1>0 DEF Answered, Questions
<1> QED
  BY <1>1, <1>2, <1>3, <1>4, <1>5, <1>6, <1>7, <1>8, <1>9, <1>10, <1>11, <1>12
  DEF Signin, Questions

LEMMA PersonTypes == Types /\ Person /\ UNCHANGED Rest => Types'
<1> SUFFICES ASSUME Types, Person, UNCHANGED Rest PROVE Types'
  OBVIOUS
<1> USE DEF Types, TypeOK, AccountTypeOK, Steps, Quiet, Asked, StepsOf, Ending, SigninStep, Rest,
            editVars
<1>1. CASE SigninStarts
  BY <1>1 DEF SigninStarts, Kept, Progress
<1>2. CASE Answer
  BY <1>2 DEF Answer, Consent
<1>3. CASE CancelAnswer
  BY <1>3 DEF CancelAnswer, Cancel
<1>4. CASE Lock
  <2>1. open' \in BOOLEAN /\ cancelled' \in BOOLEAN
    BY <1>4, Zenon DEF Lock, Cancel
  <2> QED
    BY <1>4, <2>1 DEF Lock, Cancel
<1>5. CASE Unlock
  BY <1>5 DEF Unlock, signinVars
<1>6. CASE SignOut
  BY <1>6 DEF SignOut, signinVars, Progress
<1> QED
  BY <1>1, <1>2, <1>3, <1>4, <1>5, <1>6 DEF Person


\* What a new change writes.
LEMMA ChangeIsNumber ==
  ASSUME Types, changes < MaxChanges, changes' = changes + 1
  PROVE  changes' \in Number /\ changes' \in Value /\ changes' # Gone /\ changes' \in 0..MaxChanges
BY AppleAssumption DEF Types, TypeOK, Number, Value, Gone

\* A record made of a typed one.
LEMMA RecordTypes ==
  ASSUME NEW r \in Records, NEW v \in Value
  PROVE  /\ r.pw \in Value
         /\ r.det \in [has : BOOLEAN, hi : Value, details : Value, title : Value]
         /\ [r EXCEPT !.pw = v] \in Records
         /\ [r EXCEPT !.pw = v, !.det.hi = IF r.det.has THEN v ELSE @] \in Records
         /\ [r EXCEPT !.det = [@ EXCEPT !.has = TRUE, !.details = v]] \in Records
         /\ [r EXCEPT !.det = [@ EXCEPT !.has = TRUE, !.title = v]] \in Records
BY DEF Records

\* The copy of the details that a step saves.
LEMMA SavedTypes ==
  ASSUME NEW r \in Records, NEW z \in Records, NEW v \in Value
  PROVE  /\ [r EXCEPT !.det = [z.det EXCEPT !.hi = v]] \in Records
         /\ [r EXCEPT !.det = [z.det EXCEPT !.has = TRUE, !.details = v]] \in Records
         /\ [r EXCEPT !.det = [z.det EXCEPT !.title = v]] \in Records
         /\ [r EXCEPT !.det = [NoDetails EXCEPT !.has = TRUE, !.details = v, !.title = v]] \in Records
         /\ [r EXCEPT !.det = IF z.det.has THEN NoDetails ELSE @] \in Records
BY EmptyTypes DEF Records, NoDetails, NoEntry

LEMMA ItemTypes ==
  ASSUME NEW r \in Records, NEW name \in Value
  PROVE  Item(r, name) \in [there : BOOLEAN, pw : Value, details : Value, title : Value]
BY EmptyTypes DEF Item, Records

LEMMA DeviceTypes == Types /\ Device => Types'
<1> SUFFICES ASSUME Types, Device PROVE Types'
  OBVIOUS
<1> DEFINE Same == UNCHANGED <<accountVars, zone, base, edit, todo, got, skipped, local, nick>>
<1>1. Same /\ met' = TRUE
  BY DEF Device, DeviceChanges, DeviceCreates, DeviceDeletes, Elsewhere
<1>2. raced' \in BOOLEAN
  BY Zenon DEF Device, DeviceChanges, DeviceCreates, DeviceDeletes, Types, TypeOK
<1>3. cloud' \in Records /\ changes' \in 0..MaxChanges
  <2>1. CASE DeviceChanges
    <3>1. changes' \in Value /\ changes' \in 0..MaxChanges
      BY <2>1, ChangeIsNumber DEF DeviceChanges
    <3>2. cloud \in Records
      BY DEF Types, TypeOK
    <3>3. /\ [cloud EXCEPT !.pw = changes', !.det.hi = IF cloud.det.has THEN changes' ELSE @] \in Records
          /\ [cloud EXCEPT !.det = [@ EXCEPT !.has = TRUE, !.details = changes']] \in Records
          /\ [cloud EXCEPT !.det = [@ EXCEPT !.has = TRUE, !.title = changes']] \in Records
      BY <3>1, <3>2, RecordTypes
    <3> QED
      BY <2>1, <3>1, <3>3 DEF DeviceChanges, Elsewhere
  <2>2. CASE DeviceCreates
    <3>1. changes' \in Value /\ changes' \in 0..MaxChanges
      BY <2>2, ChangeIsNumber DEF DeviceCreates
    <3>2. [NoEntry EXCEPT !.pw = changes'] \in Records
      BY <3>1, EmptyTypes, RecordTypes
    <3>3. [pw |-> changes', det |-> [NoDetails EXCEPT !.has = TRUE, !.details = changes']] \in Records
      BY <3>1, EmptyTypes DEF Records, NoDetails
    <3> QED
      BY <2>2, <3>1, <3>2, <3>3 DEF DeviceCreates, Elsewhere
  <2>3. CASE DeviceDeletes
    BY <2>3, EmptyTypes DEF DeviceDeletes, Elsewhere, Types, TypeOK
  <2> QED
    BY <2>1, <2>2, <2>3 DEF Device
<1>4. AccountTypeOK'
  BY <1>1 DEF Types, TypeOK, AccountTypeOK, accountVars, signinVars
<1>5. TypeOK'
  BY <1>1, <1>2, <1>3, <1>4 DEF Types, TypeOK, accountVars
<1> QED
  BY <1>1, <1>5 DEF Types, Steps, Quiet, Asked, accountVars, signinVars


LEMMA EditTypes == Types /\ Edit => Types'
<1> SUFFICES ASSUME Types, Edit PROVE Types'
  OBVIOUS
<1> USE DEF accountIdle, signinVars
<1>1. ASSUME NEW op \in {"set", "create", "delete"}, NEW F \in SUBSET Fields, EditStarts(op, F),
             op = "create" => F = {"password", "details"}, op = "delete" => F = {}
      PROVE  Types'
  <2>1. changes' \in Number /\ changes' \in Value /\ changes' \in 0..MaxChanges
    BY <1>1, ChangeIsNumber DEF EditStarts
  <2>2. met' \in BOOLEAN /\ skipped' \in BOOLEAN
    BY <1>1, Zenon DEF EditStarts
  <2>3. edit' = [op |-> op, fields |-> F, v |-> changes'] /\ todo' \subseteq F
    BY <1>1 DEF EditStarts
  <2>4. TypeOK'
    BY <1>1, <2>1, <2>2, <2>3 DEF EditStarts, Types, TypeOK, AccountTypeOK
  <2> QED
    BY <1>1, <2>1, <2>3, <2>4 DEF EditStarts, Types, Steps, Quiet, Asked, StepsOf
<1>2. CASE OpenZone
  <2>1. TypeOK'
    BY <1>2 DEF OpenZone, Fetched, Types, TypeOK, AccountTypeOK
  <2>2. busy = "edit" /\ edit.op \in {"set", "create", "delete"}
    BY <1>2 DEF OpenZone, Types, TypeOK, AccountTypeOK, Steps, SigninStep
  <2> QED
    BY <1>2, <2>1, <2>2 DEF OpenZone, Types, TypeOK, Steps, Quiet, Asked, StepsOf, NextField
<1>3. ASSUME pc \in {"password", "history", "details", "title"}, busy = "edit", edit.op = "set",
             cloud' \in Records, skipped' \in BOOLEAN, NextStep PROVE Types'
  <2>1. TypeOK'
    BY <1>3 DEF NextStep, Types, TypeOK, AccountTypeOK
  <2> QED
    BY <1>3, <2>1 DEF NextStep, Types, Steps, Quiet, Asked, StepsOf, Ending
<1>4. ASSUME NEW next, busy = "edit", next \in StepsOf(edit.op), cloud' \in Records, Still(next)
      PROVE  Types'
  <2>1. TypeOK'
    BY <1>4 DEF Still, Types, TypeOK, AccountTypeOK
  <2> QED
    BY <1>4, <2>1 DEF Still, Types, Steps, Quiet, Asked
<1>5. /\ cloud \in Records /\ zone \in Records /\ edit.v \in Value
      /\ skipped \in BOOLEAN /\ (skipped \/ zone.det.has) \in BOOLEAN
      /\ busy \in {"none", "signin", "edit", "sync"}
  BY DEF Types, TypeOK, AccountTypeOK
<1>6. busy # "edit" => zone.pw = Gone /\ zone.det.has = FALSE
  BY DEF Types, Quiet, NoEntry, NoDetails
<1>7. ASSUME pc = "password", zone.pw # Gone \/ zone.det.has PROVE busy = "edit" /\ edit.op = "set"
  BY <1>5, <1>6, <1>7 DEF Types, TypeOK, Steps, StepsOf, Ending
<1>8. ASSUME pc \in {"history", "details", "title"} PROVE busy = "edit" /\ edit.op = "set"
  BY <1>5, <1>8 DEF Types, TypeOK, Steps, StepsOf, Ending, SigninStep
<1>9. CASE SavePassword
  BY <1>4, <1>5, <1>7, <1>9, RecordTypes DEF SavePassword, StepsOf
<1>10. CASE SaveHistory
  BY <1>3, <1>5, <1>8, <1>10, SavedTypes DEF SaveHistory
<1>11. CASE SkipHistory
  BY <1>3, <1>5, <1>8, <1>11 DEF SkipHistory
<1>12. CASE SaveDetails
  BY <1>3, <1>5, <1>8, <1>12, SavedTypes DEF SaveDetails
<1>13. CASE SaveTitle
  BY <1>3, <1>5, <1>8, <1>13, SavedTypes DEF SaveTitle
<1>14. ASSUME pc \in {"create", "create2"} PROVE busy = "edit" /\ edit.op = "create"
  BY <1>5, <1>14 DEF Types, TypeOK, Steps, StepsOf, Ending, SigninStep
<1>15. ASSUME pc \in {"delete", "delete2"} PROVE busy = "edit" /\ edit.op = "delete"
  BY <1>5, <1>15 DEF Types, TypeOK, Steps, StepsOf, Ending, SigninStep
<1>16. CASE CreateFirst
  BY <1>4, <1>5, <1>14, <1>16, RecordTypes DEF CreateFirst, Create, CreateOrder, StepsOf
<1>17. CASE CreateSecond
  BY <1>4, <1>5, <1>14, <1>17, SavedTypes DEF CreateSecond, Create, CreateOrder, StepsOf, Ending
<1>18. CASE DeleteFirst
  BY <1>4, <1>5, <1>15, <1>18, SavedTypes DEF DeleteFirst, Delete, DeleteOrder, StepsOf
<1>19. CASE DeleteSecond
  BY <1>4, <1>5, <1>15, <1>19, RecordTypes, EmptyTypes
  DEF DeleteSecond, Delete, DeleteOrder, StepsOf, Ending
<1>20. ASSUME pc \in Ending PROVE busy = "edit" /\ Ending \subseteq StepsOf(edit.op)
  BY <1>5, <1>20 DEF Types, TypeOK, Steps, StepsOf, Ending, SigninStep
<1>21. CASE Refetch
  <2>1. TypeOK'
    BY <1>21 DEF Refetch, Types, TypeOK, AccountTypeOK
  <2> QED
    BY <1>20, <1>21, <2>1 DEF Refetch, Types, Steps, Quiet, Asked, Ending
<1>22. CASE SetSecrets
  <2>1. nick' \in Value /\ got.pw \in Value
    BY <1>5, <1>22, EmptyTypes, RecordTypes DEF SetSecrets, Named, Types, TypeOK
  <2>2. TypeOK'
    BY <1>22, <2>1 DEF SetSecrets, editVars, Types, TypeOK, AccountTypeOK
  <2> QED
    BY <1>20, <1>22, <2>2 DEF SetSecrets, editVars, Types, Steps, Quiet, Asked, Ending
<1>23. CASE ApplySync
  <2>1. local' \in [there : BOOLEAN, pw : Value, details : Value, title : Value]
    BY <1>23, ItemTypes DEF ApplySync, Types, TypeOK
  <2>2. TypeOK'
    BY <1>23, <2>1 DEF ApplySync, editVars, Types, TypeOK, AccountTypeOK
  <2> QED
    BY <1>20, <1>23, <2>2 DEF ApplySync, editVars, Types, Steps, Quiet, Asked, Ending
<1>24. CASE EditDone \/ EditFails
  <2>1. latch' \in BOOLEAN /\ local' \in [there : BOOLEAN, pw : Value, details : Value, title : Value]
    BY <1>24 DEF EditDone, EditFails, Types, TypeOK, AccountTypeOK
  <2> QED
    BY <1>24, <2>1, OverTypes DEF EditDone, EditFails, EndCall
<1> QED
  BY <1>1, <1>2, <1>9, <1>10, <1>11, <1>12, <1>13, <1>16, <1>17, <1>18, <1>19, <1>21, <1>22,
     <1>23, <1>24
  DEF Edit, Fields


LEMMA SyncTypes == Types /\ (Sync \/ SigninSyncs) => Types'
<1> SUFFICES ASSUME Types, Sync \/ SigninSyncs PROVE Types'
  OBVIOUS
<1> USE DEF accountIdle, signinVars
<1>1. CASE SyncStarts
  <2>1. TypeOK'
    BY <1>1 DEF SyncStarts, editVars, Types, TypeOK, AccountTypeOK
  <2> QED
    BY <1>1, <2>1 DEF SyncStarts, editVars, Types, Steps, Quiet, Asked
<1>2. ASSUME pc \in {"sync", "fetched"} PROVE busy = "sync"
  BY <1>2 DEF Types, TypeOK, AccountTypeOK, Steps, StepsOf, Ending, SigninStep
<1>3. CASE SyncFetches
  <2>1. TypeOK'
    BY <1>3 DEF SyncFetches, Types, TypeOK, AccountTypeOK
  <2> QED
    BY <1>2, <1>3, <2>1 DEF SyncFetches, Types, Steps, Quiet, Asked
<1>4. CASE SyncApplies
  <2>1. local' \in [there : BOOLEAN, pw : Value, details : Value, title : Value]
    BY <1>4, ItemTypes DEF SyncApplies, Types, TypeOK
  <2>2. latch' \in BOOLEAN
    BY <1>4, Zenon DEF SyncApplies
  <2> QED
    BY <1>4, <2>1, <2>2, OverTypes DEF SyncApplies, EndCall
<1>5. CASE SigninSyncs
  <2>1. local' \in [there : BOOLEAN, pw : Value, details : Value, title : Value]
    BY <1>5, ItemTypes DEF SigninSyncs, Types, TypeOK
  <2>2. latch' \in BOOLEAN
    BY <1>5, Zenon DEF SigninSyncs, FirstSync, Types, TypeOK, AccountTypeOK
  <2>3. busy # "edit"
    BY <1>5 DEF SigninSyncs, FirstSync, Types, Steps, StepsOf, Ending
  <2> QED
    BY <1>5, <2>1, <2>2, <2>3, OverTypes DEF SigninSyncs, FirstSync
<1> QED
  BY <1>1, <1>3, <1>4, <1>5 DEF Sync

LEMMA NextTypes == Types /\ [Next]_vars => Types'
<1> SUFFICES ASSUME Types, [Next]_vars PROVE Types'
  OBVIOUS
<1>1. CASE NeedsLogin /\ EndCall /\ UNCHANGED <<cloud, local, nick, changes, raced>>
  <2>1. latch' \in BOOLEAN
    BY <1>1, Zenon DEF NeedsLogin, Types, TypeOK, AccountTypeOK
  <2> QED
    BY <1>1, <2>1, OverTypes DEF NeedsLogin, EndCall, Types, TypeOK
<1>2. CASE UNCHANGED vars
  <2>1. TypeOK'
    BY <1>2 DEF vars, accountVars, signinVars, editVars, Types, TypeOK, AccountTypeOK
  <2> QED
    BY <1>2, <2>1 DEF vars, accountVars, signinVars, editVars, Types, Steps, Quiet, Asked
<1> QED
  BY <1>1, <1>2, SigninTypes, PersonTypes, SyncTypes, EditTypes, DeviceTypes DEF Next, Rest

LEMMA TypesAlways == Spec => []Types
BY InitTypes, NextTypes, PTL DEF Spec

\* Type correctness of the account and of the edits, for any bound on the changes.
THEOREM AppleEditTypeOK == Spec => []TypeOK
<1>1. Types => TypeOK
  BY DEF Types
<1> QED
  BY <1>1, TypesAlways, PTL

-----------------------------------------------------------------------------
(* The sign-in *)

\* A step that is none of the sign-in's or of the window's.
Elsewise == SigninSyncs \/ (NeedsLogin /\ EndCall) \/ Edit \/ Sync \/ Device \/ UNCHANGED vars

\* It keeps the record and the circle, and begins no step of a sign-in.
LEMMA ElsewiseKeeps ==
  ASSUME Types, Elsewise
  PROVE  /\ session' = session /\ circle' = circle
         /\ \/ UNCHANGED <<pc, signinVars>>
            \/ /\ pc' \notin {"pet", "device_passcode", "join", "save_joined"}
               /\ work' \in {work, "none"} /\ spent' \in {spent, 0}
               /\ \/ UNCHANGED <<asking, said, yes>>
                  \/ asking' = "none" /\ said' = "none"
<1>1. UNCHANGED <<session, circle>>
  BY DEF Elsewise, SigninSyncs, FirstSync, NeedsLogin, Edit, EditStarts, OpenZone, SavePassword,
     SaveHistory, SkipHistory, SaveDetails, SaveTitle, CreateFirst, CreateSecond, DeleteFirst,
     DeleteSecond, Create, Delete, Refetch, SetSecrets, ApplySync, EditDone, EditFails, NextStep,
     Still, Sync, SyncStarts, SyncFetches, SyncApplies, Device, DeviceChanges, DeviceCreates,
     DeviceDeletes, Elsewhere, accountIdle, vars, accountVars
<1>2. ASSUME Over PROVE /\ pc' = "idle" /\ work' = "none"
                       /\ asking' = "none" /\ said' = "none" /\ spent' = 0
  BY <1>2 DEF Over
<1>3. CASE SigninSyncs \/ NeedsLogin \/ EditDone \/ EditFails \/ SyncApplies
  BY <1>1, <1>2, <1>3 DEF SigninSyncs, FirstSync, NeedsLogin, EditDone, EditFails, SyncApplies,
                          EndCall
<1>4. CASE Device \/ UNCHANGED vars
  BY <1>1, <1>4 DEF Device, DeviceChanges, DeviceCreates, DeviceDeletes, Elsewhere, vars, accountVars
<1>5. CASE (Edit /\ ~EditDone /\ ~EditFails) \/ SyncStarts \/ SyncFetches
  <2>1. UNCHANGED signinVars
    BY <1>5 DEF Edit, EditStarts, OpenZone, SavePassword,
       SaveHistory, SkipHistory, SaveDetails, SaveTitle, CreateFirst, CreateSecond, DeleteFirst,
       DeleteSecond, Create, Delete, Refetch, SetSecrets, ApplySync, NextStep,
       Still, SyncStarts, SyncFetches, accountIdle
  <2>2. OpenZone => pc' \in {"password", "details", "title", "set", "create", "delete", "none"}
    BY DEF OpenZone, NextField, Types, TypeOK
  <2>3. pc' \notin {"pet", "device_passcode", "join", "save_joined"}
    BY <1>5, <2>2 DEF Edit, EditStarts, SavePassword, SaveHistory, SkipHistory, SaveDetails,
       SaveTitle, CreateFirst, CreateSecond, DeleteFirst, DeleteSecond, Create, Delete, Refetch,
       SetSecrets, ApplySync, NextStep, Still, SyncStarts, SyncFetches
  <2>4. work' = work /\ spent' = spent /\ asking' = asking /\ said' = said /\ yes' = yes
    BY <2>1 DEF signinVars
  <2> QED
    BY <1>1, <2>3, <2>4
<1> QED
  BY <1>3, <1>4, <1>5 DEF Elsewise, Sync


LEMMA OverConsents ==
  ASSUME Over PROVE Consents' /\ spent' = 0 /\ work' = "none" /\ pc' = "idle"
BY DEF Over, Consents, Consent

LEMMA NextConsents == Types /\ Consents /\ [Next]_vars => Consents'
<1> SUFFICES ASSUME Types, Consents, [Next]_vars PROVE Consents'
  OBVIOUS
<1> USE DEF Consents
<1>1. CASE Elsewise
  BY <1>1, ElsewiseKeeps DEF signinVars, Consent
<1>2. CASE Signin
  <2>1. CASE Unwind \/ Fails
    BY <2>1, OverConsents DEF Unwind, Fails
  <2>2. CASE SaveTokens \/ SaveIdentity \/ SaveJoined
    BY <2>2, OverConsents DEF SaveTokens, SaveIdentity, SaveJoined, Save, signinVars
  <2>3. CASE MintAsks \/ ListBottles \/ MintPet
    BY <2>3 DEF MintAsks, ListBottles, MintPet, Go, signinVars
  <2>4. CASE Recover \/ JoinWithVoucher
    BY <2>4 DEF Recover, JoinWithVoucher, signinVars
  <2>5. CASE \E q \in Questions : pc = q /\ busy = "signin" /\ Ask(q)
    <3>1. said' = said /\ yes' = yes /\ pc' = pc /\ asking' = pc /\ asking = "none"
      BY <2>5 DEF Ask
    <3> QED
      BY <2>5, <3>1
  <2>6. CASE Answered("apple_id", "password") \/ Answered("password", "mint")
             \/ Answered("code", "minted") \/ Answered("device", "join_confirm")
    BY <2>6, OverConsents DEF Answered, Consent
  <2>7. CASE Answered("join_confirm", "pet")
    BY <2>7, OverConsents DEF Answered, GoesOn, Consent
  <2>8. CASE Answered("device_passcode", "join")
    BY <2>8, OverConsents DEF Answered, GoesOn, Consent, Types, TypeOK, AccountTypeOK
  <2> QED
    BY <1>2, <2>1, <2>2, <2>3, <2>4, <2>5, <2>6, <2>7, <2>8 DEF Signin
<1>3. CASE Person
  BY <1>3 DEF Person, SigninStarts, Answer, CancelAnswer, Lock, Unlock, SignOut, Cancel, signinVars,
     Consent, Types, Quiet, TypeOK, AccountTypeOK
<1> QED
  BY <1>1, <1>2, <1>3 DEF Next, Elsewise

\* A join that Apple was told of is not forgotten, and none is claimed.
LEMMA NextJoined == Types /\ Joined /\ [Next]_vars => Joined'
<1> SUFFICES ASSUME Types, Joined, [Next]_vars PROVE Joined'
  OBVIOUS
<1> USE DEF Joined
<1>1. CASE Elsewise
  BY <1>1, ElsewiseKeeps DEF signinVars
<1>2. CASE Signin
  <2>1. CASE Unwind \/ Fails
    BY <2>1, OverConsents DEF Unwind, Fails
  <2>2. CASE SaveTokens \/ SaveIdentity \/ SaveJoined
    BY <2>2, OverConsents DEF SaveTokens, SaveIdentity, SaveJoined, Save, signinVars
  <2>3. CASE MintAsks \/ ListBottles \/ MintPet \/ Recover \/ JoinWithVoucher
    BY <2>3 DEF MintAsks, ListBottles, MintPet, Recover, JoinWithVoucher, Go, signinVars
  <2>4. CASE \E q \in Questions : pc = q /\ busy = "signin" /\ Ask(q)
    BY <2>4 DEF Ask
  <2>5. ASSUME NEW q, NEW next \in SigninStep \ {"save_joined"}, Answered(q, next) PROVE Joined'
    BY <2>5, OverConsents DEF Answered
  <2> QED
    BY <1>2, <2>1, <2>2, <2>3, <2>4, <2>5 DEF Signin, SigninStep
<1>3. CASE Person
  BY <1>3 DEF Person, SigninStarts, Kept, Answer, CancelAnswer, Lock, Unlock, SignOut, signinVars
<1> QED
  BY <1>1, <1>2, <1>3 DEF Next, Elsewise

LEMMA SigninAlways == Spec => [](Types /\ Consents /\ Joined)
<1>1. Init => Types /\ Consents /\ Joined
  BY InitTypes DEF Init, AccountInit, Consents, Consent, Joined
<1>2. Types /\ Consents /\ Joined /\ [Next]_vars => (Types /\ Consents /\ Joined)'
  BY NextTypes, NextConsents, NextJoined
<1> QED
  BY <1>1, <1>2, PTL DEF Spec

\* The store never takes itself for a member of the circle when Apple does not: joinWithVoucher
\* comes before the record that says so, and the record of an earlier sign-in is kept only with
\* its membership.  (_join_and_sync.)
THEOREM AppleEditJoinedIsTrue == Spec => []JoinedIsTrue
<1>1. Joined => JoinedIsTrue
  BY DEF Joined, JoinedIsTrue
<1> QED
  BY <1>1, SigninAlways, PTL

\* An escrow attempt is spent only after a passcode was typed and the join confirmed in the same
\* sign-in, whatever is cancelled, locked or asked again.  (_join_and_sync.)
THEOREM AppleEditNothingSpentUnasked == Spec => NothingSpentUnasked
<1>1. Types /\ Consents /\ Joined /\ [Next]_vars => [spent' > spent => yes = Consent]_vars
  <2> SUFFICES ASSUME Types, Consents, Next, spent' > spent PROVE yes = Consent
    BY DEF vars, accountVars, signinVars
  <2>1. spent \in 0..1
    BY DEF Types, TypeOK, AccountTypeOK
  <2>2. ~Elsewise
    BY <2>1, ElsewiseKeeps DEF signinVars
  <2>3. CASE Signin
    BY <2>1, <2>3, OverConsents
    DEF Signin, Unwind, Fails, MintAsks, SaveTokens, SaveIdentity, ListBottles, MintPet, Recover,
        JoinWithVoucher, SaveJoined, Ask, Answered, Save, Go, signinVars, Consents
  <2>4. CASE Person
    BY <2>1, <2>4 DEF Person, SigninStarts, Answer, CancelAnswer, Lock, Unlock, SignOut, signinVars
  <2> QED
    BY <2>2, <2>3, <2>4 DEF Next, Elsewise
<1> QED
  BY <1>1, SigninAlways, PTL DEF Spec, NothingSpentUnasked


-----------------------------------------------------------------------------
(* The edits *)

\* A step after which no edit runs, and which leaves iCloud alone.
Aside == /\ UNCHANGED <<cloud, raced>> /\ edit'.op = "none"
         /\ pc' \notin {"create2", "delete", "delete2", "apply", "applied", "done"}

\* A step that leaves the running edit as it is.
Frozen == UNCHANGED <<pc, cloud, editVars, local, nick, raced>>

\* The steps of an edit, but for its end.
Works ==
  \/ OpenZone \/ SavePassword \/ SaveHistory \/ SkipHistory \/ SaveDetails \/ SaveTitle
  \/ CreateFirst \/ CreateSecond \/ DeleteFirst \/ DeleteSecond
  \/ Refetch \/ SetSecrets \/ ApplySync

Starts ==
  \/ \E F \in (SUBSET Fields) \ {{}} : EditStarts("set", F)
  \/ EditStarts("create", {"password", "details"}) \/ EditStarts("delete", {})

LEMMA StepKinds ==
  ASSUME Types, [Next]_vars
  PROVE  Starts \/ Works \/ Device \/ Aside \/ Frozen
<1>1. Types'
  BY NextTypes
<1>2. ASSUME busy' # "edit", UNCHANGED <<cloud, raced>> PROVE Aside
  <2>1. edit'.op = "none"
    BY <1>1, <1>2, EmptyTypes DEF Types, Quiet
  <2>2. pc' \in SigninStep \cup {"idle", "sync", "fetched"}
    BY <1>1, <1>2 DEF Types, TypeOK, AccountTypeOK, Steps
  <2> QED
    BY <1>2, <2>1, <2>2 DEF Aside, SigninStep
<1>3. ASSUME Over, UNCHANGED <<cloud, raced>> PROVE Aside
  BY <1>2, <1>3 DEF Over
<1>4. CASE (Signin \/ Person) /\ UNCHANGED Rest
  <2>1. UNCHANGED <<cloud, editVars, local, nick, raced>>
    BY <1>4 DEF Rest
  <2>2. CASE busy' # "edit"
    BY <1>2, <2>1, <2>2
  <2>3. CASE busy' = "edit"
    <3>1. busy = "edit"
      BY <1>4, <2>3, <1>1, <2>1 DEF Types, TypeOK, editVars
    <3>2. asking = "none" /\ said = "none" /\ ~cancelled /\ pc \in StepsOf(edit.op)
      BY <3>1 DEF Types, Quiet, Steps
    <3>3. pc' = pc
      <4>1. CASE Person
        BY <3>1, <3>2, <4>1 DEF Person, SigninStarts, Answer, CancelAnswer, Lock, Unlock, SignOut
      <4>2. CASE Signin
        BY <2>3, <3>1, <3>2, <4>2
        DEF Signin, Unwind, Fails, MintAsks, SaveTokens, SaveIdentity, ListBottles, MintPet,
            Recover, JoinWithVoucher, SaveJoined, Ask, Answered, Questions, StepsOf, Ending
      <4> QED
        BY <1>4, <4>1, <4>2
    <3> QED
      BY <2>1, <3>3 DEF Frozen
  <2> QED
    BY <2>2, <2>3
<1>5. CASE SigninSyncs \/ (NeedsLogin /\ UNCHANGED <<cloud, raced>>)
  BY <1>3, <1>5 DEF SigninSyncs, FirstSync, NeedsLogin
<1>6. CASE Sync
  <2>1. busy' # "edit"
    BY <1>6 DEF Sync, SyncStarts, SyncFetches, SyncApplies, EndCall, Over, Types, Steps, StepsOf,
       Ending
  <2> QED
    BY <1>2, <1>6, <2>1 DEF Sync, SyncStarts, SyncFetches, SyncApplies
<1>7. CASE EditDone \/ EditFails
  BY <1>3, <1>7 DEF EditDone, EditFails, EndCall
<1>8. CASE UNCHANGED vars
  BY <1>8 DEF Frozen, vars, accountVars, editVars
<1> QED
  BY <1>4, <1>5, <1>6, <1>7, <1>8 DEF Next, Edit, Works, Starts, Rest

LEMMA AsideKeeps ==
  ASSUME Pairs, Aside PROVE Pairs' /\ Loop' /\ Keeps' /\ Answers'
BY DEF Aside, Pairs, Loop, Keeps, Answers, NoOrphan

LEMMA FrozenKeeps ==
  ASSUME Pairs, Loop, Keeps, Answers, Frozen PROVE Pairs' /\ Loop' /\ Keeps' /\ Answers'
BY DEF Frozen, editVars, Pairs, Loop, Keeps, Answers, NoOrphan, NextField, Now, Pushed, Landed, Item

\* An edit that starts works from no copy yet.
LEMMA StartsKeeps ==
  ASSUME Types, Pairs, Starts PROVE Pairs' /\ Loop' /\ Keeps' /\ Answers'
<1>1. PICK op \in {"set", "create", "delete"}, F \in SUBSET Fields :
        EditStarts(op, F) /\ (op = "set" => F # {})
  <2>1. {"password", "details"} \in SUBSET Fields /\ {} \in SUBSET Fields
    BY DEF Fields
  <2> QED
    BY <2>1, Zenon DEF Starts
<1>2. zone = NoEntry /\ zone.pw = Gone
  BY <1>1 DEF EditStarts, Types, Quiet, NoEntry
<1>3. /\ pc' = "open" /\ UNCHANGED <<cloud, zone, raced>>
      /\ edit'.op = op /\ edit'.fields = F /\ (op = "set" => todo' = F)
  BY <1>1 DEF EditStarts
<1> QED
  BY <1>1, <1>2, <1>3 DEF Pairs, Loop, Keeps, Answers, NoOrphan, Fields, Ending


\* What only the steps of an edit know: who runs, and on which fields.
LEMMA InEdit ==
  ASSUME Types, Works
  PROVE  /\ busy = "edit" /\ pc \in StepsOf(edit.op) /\ edit.v \in Number /\ edit.v # Gone
         /\ OpenZone => pc = "open"
         /\ SavePassword \/ SaveHistory \/ SkipHistory \/ SaveDetails \/ SaveTitle => edit.op = "set"
         /\ CreateFirst \/ CreateSecond => edit.op = "create"
         /\ DeleteFirst \/ DeleteSecond => edit.op = "delete"
<1>1. busy \in {"none", "signin", "edit", "sync"} /\ edit.op \in {"none", "set", "create", "delete"}
  BY DEF Types, TypeOK, AccountTypeOK
<1>2. busy # "edit" => zone.pw = Gone
  BY DEF Types, Quiet, NoEntry
<1>3. busy = "edit"
  BY <1>1, <1>2 DEF Works, OpenZone, SavePassword, SaveHistory, SkipHistory, SaveDetails, SaveTitle,
     CreateFirst, CreateSecond, DeleteFirst, DeleteSecond, Refetch, SetSecrets, ApplySync,
     Types, Steps, SigninStep
<1>4. pc \in StepsOf(edit.op) /\ edit.op # "none"
  BY <1>3 DEF Types, TypeOK, Steps
<1>5. edit.v \in Number /\ edit.v # Gone
  BY <1>4, AppleAssumption DEF Types, Asked, Number, Gone
<1> QED
  BY <1>1, <1>3, <1>4, <1>5 DEF OpenZone, SavePassword, SaveHistory, SkipHistory, SaveDetails,
     SaveTitle, CreateFirst, CreateSecond, DeleteFirst, DeleteSecond, StepsOf, Ending

\* Components of a record after a save.
LEMMA Saved ==
  ASSUME NEW r \in Records, NEW d, NEW v
  PROVE  /\ [r EXCEPT !.pw = v].pw = v /\ [r EXCEPT !.pw = v].det = r.det
         /\ [r EXCEPT !.det = d].det = d /\ [r EXCEPT !.det = d].pw = r.pw
BY DEF Records

LEMMA SavedDetails ==
  ASSUME NEW d \in [has : BOOLEAN, hi : Value, details : Value, title : Value], NEW v
  PROVE  /\ LET e == [d EXCEPT !.hi = v]
            IN e.has = d.has /\ e.hi = v /\ e.details = d.details /\ e.title = d.title
         /\ LET e == [d EXCEPT !.has = TRUE, !.details = v]
            IN e.has /\ e.hi = d.hi /\ e.details = v /\ e.title = d.title
         /\ LET e == [d EXCEPT !.title = v]
            IN e.has = d.has /\ e.hi = d.hi /\ e.details = d.details /\ e.title = v
OBVIOUS

\* What each step does to the two records.
LEMMA StepSaves ==
  ASSUME Types, Works
  PROVE  /\ SavePassword => cloud'.pw = edit.v /\ cloud'.det = cloud.det
         /\ SaveHistory => /\ cloud'.pw = cloud.pw /\ cloud'.det.has = zone.det.has
                           /\ cloud'.det.hi = edit.v /\ cloud'.det.details = zone.det.details
                           /\ cloud'.det.title = zone.det.title
         /\ SaveDetails => /\ cloud'.pw = cloud.pw /\ cloud'.det.has
                           /\ cloud'.det.hi = zone.det.hi /\ cloud'.det.details = edit.v
                           /\ cloud'.det.title = zone.det.title
         /\ SaveTitle /\ zone.det.has =>
              /\ cloud'.pw = cloud.pw /\ cloud'.det.has = zone.det.has
              /\ cloud'.det.hi = zone.det.hi /\ cloud'.det.details = zone.det.details
              /\ cloud'.det.title = edit.v
         /\ CreateFirst => cloud'.pw = edit.v
         /\ CreateSecond => cloud'.pw = cloud.pw
         /\ DeleteFirst => /\ cloud'.pw = cloud.pw
                           /\ cloud'.det.has => cloud.det.has /\ ~zone.det.has
         /\ DeleteSecond => cloud'.pw = Gone /\ cloud'.det = cloud.det
<1>1. cloud \in Records /\ zone \in Records
      /\ zone.det \in [has : BOOLEAN, hi : Value, details : Value, title : Value]
  BY DEF Types, TypeOK, Records
<1>2. SavePassword => cloud'.pw = edit.v /\ cloud'.det = cloud.det
  BY <1>1, Saved DEF SavePassword
<1>3. ASSUME NEW d, cloud' = [cloud EXCEPT !.det = d] PROVE cloud'.pw = cloud.pw /\ cloud'.det = d
  BY <1>1, <1>3, Saved
<1>4. SaveHistory => cloud'.pw = cloud.pw /\ cloud'.det = [zone.det EXCEPT !.hi = edit.v]
  BY <1>3 DEF SaveHistory
<1>5. SaveDetails => /\ cloud'.pw = cloud.pw
                     /\ cloud'.det = [zone.det EXCEPT !.has = TRUE, !.details = edit.v]
  BY <1>3 DEF SaveDetails
<1>6. SaveTitle /\ zone.det.has => /\ cloud'.pw = cloud.pw
                                  /\ cloud'.det = [zone.det EXCEPT !.title = edit.v]
  BY <1>3 DEF SaveTitle
<1>7. CreateFirst => cloud'.pw = edit.v
  BY <1>1, Saved DEF CreateFirst, Create, CreateOrder
<1>8. CreateSecond => cloud'.pw = cloud.pw
  BY <1>3 DEF CreateSecond, Create, CreateOrder
<1>9. DeleteFirst => /\ cloud'.pw = cloud.pw
                     /\ cloud'.det.has => cloud.det.has /\ ~zone.det.has
  <2>1. DeleteFirst => /\ cloud'.pw = cloud.pw
                       /\ cloud'.det = IF zone.det.has THEN NoDetails ELSE cloud.det
    BY <1>1, Saved DEF DeleteFirst, Delete, DeleteOrder
  <2> QED
    BY <2>1 DEF NoDetails
<1>10. DeleteSecond => cloud'.pw = Gone /\ cloud'.det = cloud.det
  BY <1>1, Saved DEF DeleteSecond, Delete, DeleteOrder
<1>11. SaveHistory => /\ cloud'.det.has = zone.det.has /\ cloud'.det.hi = edit.v
                      /\ cloud'.det.details = zone.det.details
                      /\ cloud'.det.title = zone.det.title
  BY <1>1, <1>4, SavedDetails
<1>12. SaveDetails => /\ cloud'.det.has /\ cloud'.det.hi = zone.det.hi
                      /\ cloud'.det.details = edit.v /\ cloud'.det.title = zone.det.title
  BY <1>1, <1>5, SavedDetails
<1>13. SaveTitle /\ zone.det.has => /\ cloud'.det.has = zone.det.has
                                   /\ cloud'.det.hi = zone.det.hi
                                   /\ cloud'.det.details = zone.det.details
                                   /\ cloud'.det.title = edit.v
  BY <1>1, <1>6
<1> QED
  BY <1>2, <1>4, <1>5, <1>6, <1>7, <1>8, <1>9, <1>10, <1>11, <1>12, <1>13


LEMMA WorksPairs == ASSUME Types, Pairs, Works PROVE Pairs'
<1>1. UNCHANGED raced /\ edit' = edit
  BY DEF Works, OpenZone, SavePassword, SaveHistory, SkipHistory, SaveDetails, SaveTitle,
     CreateFirst, CreateSecond, DeleteFirst, DeleteSecond, Create, Delete, Refetch, SetSecrets,
     ApplySync, NextStep, Still, editVars
<1> USE <1>1, InEdit, StepSaves DEF Pairs, NoOrphan, StepsOf, Ending
<1>2. CASE OpenZone
  BY <1>2 DEF OpenZone, Fetched, NextField
<1>3. CASE SavePassword
  BY <1>3 DEF SavePassword, Still
<1>4. CASE SaveHistory
  BY <1>4 DEF SaveHistory, NextStep
<1>5. CASE SaveDetails
  BY <1>5 DEF SaveDetails, NextStep
<1>6. CASE SaveTitle \/ SkipHistory
  BY <1>6 DEF SaveTitle, SkipHistory, NextStep
<1>7. CASE CreateFirst
  BY <1>7 DEF CreateFirst, Create, Still
<1>8. CASE CreateSecond
  BY <1>8 DEF CreateSecond, Create, Still
<1>9. CASE DeleteFirst
  BY <1>9 DEF DeleteFirst, Delete, Still
<1>10. CASE DeleteSecond
  BY <1>10 DEF DeleteSecond, Delete, Still
<1>11. CASE Refetch \/ SetSecrets \/ ApplySync
  BY <1>11 DEF Refetch, SetSecrets, ApplySync, editVars
<1> QED
  BY <1>2, <1>3, <1>4, <1>5, <1>6, <1>7, <1>8, <1>9, <1>10, <1>11 DEF Works

LEMMA WorksLoop == ASSUME Types, Loop, Works PROVE Loop'
<1> SUFFICES ASSUME edit'.op = "set" PROVE Loop'
  BY DEF Loop
<1>1. edit' = edit
  BY DEF Works, OpenZone, SavePassword, SaveHistory, SkipHistory, SaveDetails, SaveTitle,
     CreateFirst, CreateSecond, DeleteFirst, DeleteSecond, Create, Delete, Refetch, SetSecrets,
     ApplySync, NextStep, Still, editVars
<1>2. edit.op = "set" /\ pc \in StepsOf("set") /\ todo \subseteq Fields
  BY <1>1, InEdit DEF Types, TypeOK
<1> USE <1>1, <1>2 DEF Loop, StepsOf, Ending, Fields
<1>3. CASE OpenZone
  BY <1>3 DEF OpenZone, NextField
<1>4. CASE SavePassword
  BY <1>4 DEF SavePassword, Still, NextField
<1>5. ASSUME NextStep, pc = "history" \/ pc \in Fields, zone = NoEntry => pc = "title"
      PROVE  Loop'
  BY <1>5 DEF NextStep, NextField, NoEntry
<1>6. CASE SaveHistory \/ SkipHistory \/ SaveDetails
  BY <1>5, <1>6 DEF SaveHistory, SkipHistory, SaveDetails, NoEntry
<1>7. CASE SaveTitle
  BY <1>5, <1>7 DEF SaveTitle
<1>8. CASE Refetch \/ SetSecrets \/ ApplySync
  BY <1>8 DEF Refetch, SetSecrets, ApplySync, editVars
<1> QED
  BY <1>3, <1>4, <1>6, <1>7, <1>8, InEdit DEF Works


\* Every save of push_set leaves what the earlier ones wrote: it replaces a record by a copy that
\* the step has fetched after them.
LEMMA WorksKeeps == ASSUME Types, Loop, Keeps, Works PROVE Keeps'
<1>1. edit' = edit
  BY DEF Works, OpenZone, SavePassword, SaveHistory, SkipHistory, SaveDetails, SaveTitle,
     CreateFirst, CreateSecond, DeleteFirst, DeleteSecond, Create, Delete, Refetch, SetSecrets,
     ApplySync, NextStep, Still, editVars
<1> SUFFICES ASSUME edit.op = "set", ~met', pc' = "open" => zone' # NoEntry PROVE Keeps'
  BY <1>1 DEF Keeps
<1>2. pc \in StepsOf("set") /\ todo \subseteq Fields /\ todo \subseteq edit.fields
  BY InEdit DEF Types, TypeOK
<1>3. CASE OpenZone
  <2>1. pc = "open" /\ pc' \in Fields /\ zone' = cloud /\ UNCHANGED <<cloud, edit, todo, skipped>>
    BY <1>3 DEF OpenZone, Fetched, NextField, Fields
  <2>2. CASE zone = NoEntry
    <3>1. base' = cloud /\ todo = edit.fields
      BY <1>3, <2>1, <2>2 DEF OpenZone, Loop
    <3> QED
      BY <2>1, <3>1 DEF Keeps, Now, Pushed, Fields
  <2>3. CASE zone # NoEntry
    <3>1. base' = base /\ ~met
      BY <1>3, <2>3 DEF OpenZone
    <3> QED
      BY <2>1, <2>3, <3>1 DEF Keeps, Now, Pushed, Fields
  <2> QED
    BY <2>2, <2>3
<1>4. ASSUME ~OpenZone PROVE UNCHANGED <<met, zone, base>>
  BY <1>4, InEdit DEF Works, SavePassword, SaveHistory, SkipHistory, SaveDetails, SaveTitle,
     Refetch, SetSecrets, ApplySync, NextStep, Still, editVars
<1>5. CASE SavePassword
  <2>1. pc = "password" /\ pc' = "history" /\ UNCHANGED <<todo, skipped>> /\ zone = cloud /\ ~met
        /\ UNCHANGED <<zone, base>>
    BY <1>4, <1>5, InEdit DEF SavePassword, Still, Keeps, Fields, OpenZone
  <2> QED
    BY <1>1, <1>5, <2>1, StepSaves DEF Keeps, Now, Pushed, Fields
<1>6. ASSUME NEW f \in Fields, f \in todo, NextStep, NextField = f
      PROVE  /\ pc' \in {"open", "landed"} /\ Pushed(f)' /\ (todo' = todo \ {f})
             /\ \A g \in Fields \ {f} : Pushed(g)' <=> Pushed(g)
  BY <1>1, <1>2, <1>6 DEF NextStep, Pushed
<1>7. ASSUME pc = "history", NextStep
      PROVE  /\ pc' \in {"open", "landed"} /\ Pushed("password")' /\ ~Pushed("password")
             /\ Pushed("details")' = Pushed("details") /\ Pushed("title")' = Pushed("title")
  <2>1. NextField = "password" /\ "password" \in todo
    BY <1>7 DEF Loop, NextField
  <2> QED
    BY <1>6, <1>7, <2>1 DEF Fields, Pushed
<1>8. CASE SaveHistory
  <2>1. pc = "history" /\ UNCHANGED skipped /\ zone.det = cloud.det /\ ~met /\ UNCHANGED <<zone, base>>
    BY <1>4, <1>8, InEdit DEF SaveHistory, Keeps, OpenZone
  <2> QED
    BY <1>1, <1>7, <1>8, <2>1, StepSaves DEF SaveHistory, Keeps, Now, Fields
<1>9. CASE SkipHistory
  <2>1. pc = "history" /\ zone.det = cloud.det /\ ~met /\ UNCHANGED <<cloud, zone, base>>
    BY <1>4, <1>9, InEdit DEF SkipHistory, Keeps, OpenZone
  <2>2. ~skipped' => ~skipped /\ ~cloud.det.has
    BY <1>9, <2>1, Zenon DEF SkipHistory
  <2> QED
    BY <1>1, <1>7, <1>9, <2>1, <2>2 DEF SkipHistory, Keeps, Now, Fields
<1>10. CASE SaveDetails
  <2>1. pc = "details" /\ UNCHANGED skipped /\ zone = cloud /\ ~met /\ UNCHANGED <<zone, base>>
    BY <1>4, <1>10, InEdit DEF SaveDetails, Keeps, OpenZone, Fields
  <2>2. NextField = "details" /\ "details" \in todo
    BY <1>2, <2>1 DEF Loop, NextField, Fields
  <2>3. /\ pc' \in {"open", "landed"} /\ Pushed("details")'
        /\ Pushed("password")' = Pushed("password") /\ Pushed("title")' = Pushed("title")
    BY <1>6, <1>10, <2>2 DEF SaveDetails, Fields, Pushed
  <2> QED
    BY <1>1, <1>10, <2>1, <2>3, StepSaves DEF Keeps, Now, Fields
<1>11. CASE SaveTitle
  <2>1. pc = "title" /\ UNCHANGED skipped /\ zone = cloud /\ ~met /\ UNCHANGED <<zone, base>>
    BY <1>4, <1>11, InEdit DEF SaveTitle, Keeps, OpenZone, Fields
  <2>2. NextField = "title" /\ "title" \in todo
    BY <1>2, <2>1 DEF Loop, NextField, Fields
  <2>3. /\ pc' \in {"open", "landed"} /\ Pushed("title")'
        /\ Pushed("password")' = Pushed("password") /\ Pushed("details")' = Pushed("details")
    BY <1>6, <1>11, <2>2 DEF SaveTitle, Fields, Pushed
  <2>4. CASE zone.det.has
    BY <1>1, <1>11, <2>1, <2>3, <2>4, StepSaves DEF Keeps, Now, Fields
  <2>5. CASE ~zone.det.has
    BY <1>1, <1>11, <2>1, <2>3, <2>5 DEF SaveTitle, Keeps, Now, Fields
  <2> QED
    BY <2>4, <2>5
<1>12. CASE Refetch \/ SetSecrets \/ ApplySync
  <2>1. pc \in Ending /\ pc' \in Ending /\ UNCHANGED <<cloud, zone, base, todo, met, skipped>>
    BY <1>12 DEF Refetch, SetSecrets, ApplySync, editVars, Ending
  <2> QED
    BY <1>1, <2>1 DEF Keeps, Now, Pushed, Ending, Fields
<1> QED
  BY <1>3, <1>5, <1>8, <1>9, <1>10, <1>11, <1>12, InEdit DEF Works

\* What is stored is what _landed saw.
LEMMA WorksAnswers == ASSUME Types, Answers, Works PROVE Answers'
<1>1. CASE OpenZone
  BY <1>1 DEF OpenZone, NextField, Answers, Types, TypeOK
<1>2. CASE SavePassword \/ SaveHistory \/ SkipHistory \/ SaveDetails \/ SaveTitle
           \/ CreateFirst \/ CreateSecond \/ DeleteFirst \/ DeleteSecond
  BY <1>2 DEF SavePassword, SaveHistory, SkipHistory, SaveDetails, SaveTitle, CreateFirst,
     CreateSecond, DeleteFirst, DeleteSecond, Create, Delete, NextStep, Still, Answers
<1>3. CASE Refetch
  BY <1>3 DEF Refetch, Answers, Landed
<1>4. CASE SetSecrets
  BY <1>4 DEF SetSecrets, editVars, Named, Answers, Landed
<1>5. CASE ApplySync
  <2>1. UNCHANGED <<got, edit, zone, nick>> /\ local' = Item(got, nick) /\ pc = "applied"
        /\ pc' = "done"
    BY <1>5 DEF ApplySync, editVars
  <2> QED
    BY <2>1 DEF Answers, Landed, Item
<1> QED
  BY <1>1, <1>2, <1>3, <1>4, <1>5 DEF Works

LEMMA DeviceKeeps ==
  ASSUME Types, Pairs, Loop, Answers, Device PROVE Pairs' /\ Loop' /\ Keeps' /\ Answers'
<1>1. /\ UNCHANGED <<pc, busy, zone, base, edit, todo, got, skipped, local, nick>> /\ met' = TRUE
  BY DEF Device, DeviceChanges, DeviceCreates, DeviceDeletes, Elsewhere, accountVars
<1>2. Loop' /\ Keeps' /\ Answers'
  BY <1>1 DEF Loop, Keeps, Answers, NextField, Landed, Item
<1>3. Pairs'
  <2>1. edit.op # "none" <=> busy = "edit"
    BY DEF Types, TypeOK
  <2>2. pc \in {"create2", "delete", "delete2"} => busy = "edit"
    BY DEF Types, TypeOK, AccountTypeOK, Steps, SigninStep
  <2>3. CASE DeviceChanges
    <3>1. changes' # Gone /\ cloud.pw # Gone
      BY <2>3, ChangeIsNumber DEF DeviceChanges
    <3>2. cloud'.pw # Gone /\ (raced' <=> (raced \/ (busy = "edit" /\ cloud'.det.has # cloud.det.has)))
      <4>1. cloud \in Records
        BY DEF Types, TypeOK
      <4> QED
        BY <2>3, <3>1, <4>1 DEF DeviceChanges, Elsewhere, Records
    <3> QED
      BY <1>1, <2>1, <2>2, <3>1, <3>2 DEF Pairs, NoOrphan
  <2>4. CASE DeviceCreates
    <3>1. changes' # Gone /\ cloud.pw = Gone /\ raced' = raced
      BY <2>4, ChangeIsNumber DEF DeviceCreates, NoEntry
    <3>2. cloud'.pw # Gone
      BY <2>4, <3>1 DEF DeviceCreates, Elsewhere, NoEntry
    <3> QED
      BY <1>1, <3>1, <3>2 DEF Pairs, NoOrphan
  <2>5. CASE DeviceDeletes
    <3>1. ~cloud'.det.has /\ (raced' <=> (raced \/ busy = "edit"))
      BY <2>5 DEF DeviceDeletes, Elsewhere, NoEntry, NoDetails
    <3> QED
      BY <1>1, <2>1, <2>2, <3>1 DEF Pairs, NoOrphan
  <2> QED
    BY <2>3, <2>4, <2>5 DEF Device
<1> QED
  BY <1>2, <1>3

EditInv == Types /\ Pairs /\ Loop /\ Keeps /\ Answers

LEMMA EditAlways == Spec => []EditInv
<1>1. Init => EditInv
  BY InitTypes, EmptyTypes DEF EditInv, Init, AccountInit, Pairs, Loop, Keeps, Answers, NoOrphan,
     NoEntry, NoDetails
<1>2. EditInv /\ [Next]_vars => EditInv'
  <2> SUFFICES ASSUME EditInv, [Next]_vars PROVE EditInv'
    OBVIOUS
  <2>1. Types'
    BY NextTypes DEF EditInv
  <2>2. CASE Starts
    BY <2>1, <2>2, StartsKeeps DEF EditInv
  <2>3. CASE Works
    BY <2>1, <2>3, WorksPairs, WorksLoop, WorksKeeps, WorksAnswers DEF EditInv
  <2>4. CASE Device
    BY <2>1, <2>4, DeviceKeeps DEF EditInv
  <2>5. CASE Aside \/ Frozen
    BY <2>1, <2>5, AsideKeeps, FrozenKeeps DEF EditInv
  <2> QED
    BY <2>2, <2>3, <2>4, <2>5, StepKinds DEF EditInv
<1> QED
  BY <1>1, <1>2, PTL DEF Spec

\* However an edit is cut short, only another device can leave details without a password: a
\* create writes the password first, a delete removes it last.  (create_entry, delete_entry.)
THEOREM AppleEditNoOrphan == Spec => []NoOrphan
<1>1. EditInv => NoOrphan
  BY DEF EditInv, Pairs
<1> QED
  BY <1>1, EditAlways, PTL

\* An edit that was answered changed what it was asked to and nothing else, in any order of its
\* up to four saves and for any fields, unless another device wrote in between.  (push_set.)
THEOREM AppleEditEditsKeepEachOther == Spec => []EditsKeepEachOther
<1>1. EditInv => EditsKeepEachOther
  <2> SUFFICES ASSUME EditInv, pc = "done", edit.op = "set", ~met, ~skipped
               PROVE  EditsKeepEachOther
    BY DEF EditsKeepEachOther
  <2>1. \A f \in Fields : Pushed(f) <=> f \in edit.fields
    BY DEF EditInv, Loop, Ending, Pushed
  <2> QED
    BY <2>1 DEF EditInv, Keeps, Now, EditsKeepEachOther, Fields
<1> QED
  BY <1>1, EditAlways, PTL

\* An edit that was answered is what the store shows, whatever other devices wrote since.
\* (_landed, set_secrets, save_nicknames, apply_sync.)
THEOREM AppleEditAnsweredIsStored == Spec => []AnsweredIsStored
<1>1. EditInv => AnsweredIsStored
  <2> SUFFICES ASSUME EditInv, pc = "done" PROVE AnsweredIsStored
    BY DEF AnsweredIsStored
  <2>1. Landed(got) /\ local = Item(got, nick)
    BY DEF EditInv, Answers
  <2>2. edit.op \in {"set", "create", "delete"}
    BY DEF EditInv, Types, TypeOK, AccountTypeOK, Steps, SigninStep
  <2>3. edit.v # Gone
    BY <2>2, AppleAssumption DEF EditInv, Types, Asked, Number, Gone
  <2> QED
    BY <2>1, <2>2, <2>3
    DEF EditInv, Answers, Types, Asked, AnsweredIsStored, Landed, Item, NoItem
<1> QED
  BY <1>1, EditAlways, PTL

=============================================================================
