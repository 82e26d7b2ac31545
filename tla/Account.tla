-------------------------------- MODULE Account --------------------------------
(***************************************************************************)
(* Signing in to iCloud: op_signin, op_answer and op_signout               *)
(* (daemon/handlers.py), login, relogin and the join of the keychain       *)
(* circle (daemon/apple.py, auth/signin.py, octagon/client.py), and the    *)
(* questions a worker thread asks the window (daemon/frontend.py).         *)
(*                                                                         *)
(* Session.busy and the store lock let one Apple call run at a time.  A    *)
(* step of a call is what it does between two questions or two requests to *)
(* Apple, which is external: a request may succeed or fail.  A lock makes  *)
(* the store refuse every later call of the one that runs, and no unlock   *)
(* gets in before it is over.                                              *)
(*                                                                         *)
(* The session record grows along Progress; what it holds besides (tokens, *)
(* the password, web cookies) is not told apart.  Apple may ask for its    *)
(* code when the tokens are minted; that it may ask again for the PETs of  *)
(* a join is left out.                                                     *)
(***************************************************************************)
EXTENDS Naturals, Sequences

VARIABLES
  open,      \* tier 1 is open; FALSE from a lock on
  busy,      \* Session.busy
  session,   \* session.v2: how far it has come, see Progress
  circle,    \* Apple counts this computer among the circle's peers
  latch,     \* needs_login
  pc,        \* the step of the call that runs
  work,      \* the record in the memory of login() or relogin()
  asking,    \* SocketFrontend._asks: the question that waits, "none" if none does
  said,      \* its answer, "none" before it
  cancelled, \* SocketFrontend._cancelled
  spent,     \* history: escrow attempts this sign-in spent
  yes        \* history: the questions of Consent that got an answer other than an empty line

signinVars == <<work, asking, said, cancelled, spent, yes>>
accountVars == <<open, busy, session, circle, latch, pc, signinVars>>

\* "peer": with an Octagon identity; "joined": with octagon.joined and the sponsor's key.
Progress == {"none", "tokens", "peer", "joined"}

Questions == {"apple_id", "password", "code", "device", "join_confirm", "device_passcode"}

\* The ones an escrow attempt needs.
Consent == {"join_confirm", "device_passcode"}

AccountTypeOK ==
  /\ open \in BOOLEAN
  /\ busy \in {"none", "signin", "edit", "sync"}
  /\ session \in Progress /\ work \in Progress
  /\ circle \in BOOLEAN /\ latch \in BOOLEAN
  /\ asking \in Questions \cup {"none"}
  /\ said \in {"none", "cancel", "empty", "value"}
  /\ cancelled \in BOOLEAN
  /\ spent \in 0..1 /\ yes \subseteq Consent

AccountInit ==
  /\ open = TRUE /\ busy = "none"
  /\ session = "none" /\ circle = FALSE /\ latch = FALSE
  /\ pc = "idle" /\ work = "none"
  /\ asking = "none" /\ said = "none" /\ cancelled = FALSE
  /\ spent = 0 /\ yes = {}

\* The call is over, well or not: the handler's finally clause.
Over ==
  /\ busy' = "none" /\ pc' = "idle"
  /\ work' = "none" /\ asking' = "none" /\ said' = "none" /\ cancelled' = FALSE
  /\ spent' = 0 /\ yes' = {}

-----------------------------------------------------------------------------
(* Locks *)

\* Mutant of Cancel: the questions that wait are answered, the next one is asked all the same.
CancelAsked ==
  /\ UNCHANGED cancelled
  /\ said' = IF asking # "none" /\ said = "none" THEN "cancel" ELSE said

\* SocketFrontend.cancel
Cancel ==
  /\ cancelled' = TRUE
  /\ said' = IF asking # "none" /\ said = "none" THEN "cancel" ELSE said

\* Registry.lock: the button, the window's end, sleep; also what ends a sign-in whose window
\* is gone.
Lock ==
  /\ open
  /\ open' = FALSE
  /\ IF busy = "signin" THEN Cancel ELSE UNCHANGED <<cancelled, said>>
  /\ UNCHANGED <<busy, session, circle, latch, pc, work, asking, spent, yes>>

\* op_unlock waits for the store lock, which a running call holds.
Unlock ==
  /\ ~open /\ busy = "none"
  /\ open' = TRUE
  /\ UNCHANGED <<busy, session, circle, latch, pc, signinVars>>

-----------------------------------------------------------------------------
(* Questions *)

\* SocketFrontend._await, the worker's side: a cancelled frontend asks nothing.
Ask(q) ==
  /\ asking = "none" /\ ~cancelled
  /\ asking' = q
  /\ UNCHANGED <<open, busy, session, circle, latch, pc, work, said, cancelled, spent, yes>>

\* op_answer: an answer to a question that does not wait any more is refused.
Answer ==
  /\ asking # "none" /\ said = "none"
  /\ \E a \in {"empty", "value"} :
       /\ said' = a
       /\ yes' = IF a = "value" THEN yes \cup ({asking} \cap Consent) ELSE yes
  /\ UNCHANGED <<open, busy, session, circle, latch, pc, work, asking, cancelled, spent>>

\* op_answer with cancel, and op_cancel of the sign-in's rid.
CancelAnswer ==
  /\ busy = "signin" /\ ~cancelled
  /\ Cancel
  /\ UNCHANGED <<open, busy, session, circle, latch, pc, work, asking, spent, yes>>

\* Cancelled unwinds the whole call.
Unwind ==
  /\ busy = "signin"
  /\ \/ said = "cancel"
     \/ /\ cancelled /\ asking = "none"
        /\ pc \in Questions
  /\ Over
  /\ UNCHANGED <<open, session, circle, latch>>

\* Mutant of GoesOn: an empty line confirms.
GoesOnAnyway(q) == TRUE

\* What an answer must be for the sign-in to go on: an Apple ID may be the saved one, a code is
\* for Apple to judge, and the rest default to no.
GoesOn(q) == said = "value" \/ q = "code" \/ (q = "apple_id" /\ session # "none")

\* The answer of question q is there: on to the step next.
Answered(q, next) ==
  /\ pc = q /\ asking = q /\ said \in {"empty", "value"}
  /\ IF GoesOn(q)
       THEN /\ pc' = next
            /\ asking' = "none" /\ said' = "none"
            /\ UNCHANGED <<busy, work, cancelled, spent, yes>>
       ELSE Over
  /\ UNCHANGED <<open, session, circle, latch>>

-----------------------------------------------------------------------------
(* Signing in *)

\* _signin: the peer identity of the record before is kept across a new sign-in.
Kept == IF session \in {"peer", "joined"} THEN session ELSE "none"

\* op_signin, once its dialog was answered: login() without a session, relogin() with one.
SigninStarts ==
  /\ open /\ busy = "none"
  /\ busy' = "signin" /\ pc' = "apple_id"
  /\ work' = Kept
  /\ UNCHANGED <<open, session, circle, latch, asking, said, cancelled, spent, yes>>

Go(next) == pc' = next /\ UNCHANGED <<busy, signinVars>>

\* A request to Apple fails: the call ends with an error.
Fails ==
  /\ pc \in {"mint", "minted", "list", "pet", "join", "vouch", "first_sync"} /\ busy = "signin"
  /\ Over
  /\ UNCHANGED <<open, session, circle, latch>>

\* signin.mint_tokens: Apple may want a code before it hands out the tokens.
MintAsks ==
  /\ pc = "mint"
  /\ Go("code")
  /\ UNCHANGED <<open, session, circle, latch>>

\* The store takes the record, unless a lock came: then the call ends.
Save(record, next) ==
  /\ IF open
       THEN session' = record /\ pc' = next /\ UNCHANGED <<busy, signinVars>>
       ELSE UNCHANGED session /\ Over
  /\ UNCHANGED <<open, circle, latch>>

SaveTokens ==
  /\ pc \in {"mint", "minted"}
  /\ Save(IF work = "none" THEN "tokens" ELSE work,
          IF work = "joined" THEN "first_sync" ELSE "identity")

\* ensure_peer_identity, and the record saved with it.
SaveIdentity ==
  /\ pc = "identity"
  /\ Save("peer", "list")

\* list_recoverable_bottles: a lone device needs no choice.
ListBottles ==
  /\ pc = "list"
  /\ \E next \in {"device", "join_confirm"} : Go(next)
  /\ UNCHANGED <<open, session, circle, latch>>

\* A fresh PET, right before the passcode.
MintPet ==
  /\ pc = "pet"
  /\ Go("device_passcode")
  /\ UNCHANGED <<open, session, circle, latch>>

\* try_recover_escrow: an attempt is spent whatever the passcode is worth.
Recover ==
  /\ pc = "join"
  /\ spent' = 1 /\ pc' = "vouch"
  /\ UNCHANGED <<open, busy, session, circle, latch, work, asking, said, cancelled, yes>>

\* Mutant of JoinWithVoucher: the sponsor's key is saved as soon as it is there.
JoinWithoutWaiting ==
  /\ pc = "vouch"
  /\ session' = (IF open THEN "joined" ELSE session)
  /\ pc' = "save_joined"
  /\ UNCHANGED <<open, busy, circle, latch, signinVars>>

\* joinWithVoucher: from here on Apple counts this computer as a peer.
JoinWithVoucher ==
  /\ pc = "vouch"
  /\ circle' = TRUE
  /\ pc' = "save_joined"
  /\ UNCHANGED <<open, busy, session, latch, signinVars>>

SaveJoined ==
  /\ pc = "save_joined"
  /\ Save("joined", "first_sync")

\* _sync_with at the end of a sign-in, and fetch_aliases, which never fails the call.  What it
\* brings in is AppleEdit's matter.
FirstSync ==
  /\ pc = "first_sync"
  /\ Over
  /\ latch' = IF open THEN FALSE ELSE latch
  /\ UNCHANGED <<open, session, circle>>

\* op_signout locks as well.
SignOut ==
  /\ open /\ busy = "none" /\ session # "none"
  /\ session' = "none" /\ open' = FALSE
  /\ UNCHANGED <<busy, circle, latch, pc, signinVars>>

\* _session and _fresh_tokens of a run with nobody to ask.
Fresh == session = "joined" /\ ~latch

\* Apple wants a person: the run ends, and the store is told if it still listens.
NeedsLogin ==
  /\ pc \in {"sync", "open"} /\ Fresh
  /\ Over
  /\ latch' = IF open THEN TRUE ELSE latch
  /\ UNCHANGED <<open, session, circle>>

\* The worker thread of login() and relogin().
Signin ==
  \/ Unwind \/ Fails \/ MintAsks \/ SaveTokens \/ SaveIdentity \/ ListBottles
  \/ MintPet \/ Recover \/ JoinWithVoucher \/ SaveJoined
  \/ \E q \in Questions : pc = q /\ busy = "signin" /\ Ask(q)
  \/ Answered("apple_id", "password") \/ Answered("password", "mint")
  \/ Answered("code", "minted") \/ Answered("device", "join_confirm")
  \/ Answered("join_confirm", "pet") \/ Answered("device_passcode", "join")

\* The window.
Person == SigninStarts \/ Answer \/ CancelAnswer \/ Lock \/ Unlock \/ SignOut

=============================================================================
