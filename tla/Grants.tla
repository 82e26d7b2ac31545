-------------------------------- MODULE Grants --------------------------------
(***************************************************************************)
(* One uid's access to single entries: the grant (daemon/grants.py), the   *)
(* copy tickets (daemon/tickets.py), the clip connections, and the ops of  *)
(* handlers.py that use them: grant, release, reveal, totp, history, copy, *)
(* copy-text, set, delete, and the clip role's hello, redeem and           *)
(* clip-result.  The module Clip adds the clip process and the             *)
(* specification.                                                          *)
(*                                                                         *)
(* The grain is the event loop's, one action per stretch between awaits.   *)
(* Session.epoch, Session.grant_serial and `current(uid) is g' are only    *)
(* ever compared with what a handler captured, so each is a set of the     *)
(* tasks whose captured value is still the current one: fresh, latest,     *)
(* mine.  A copy is a name for the ticket, the value snapshot it carries   *)
(* and the process the window starts with it.                              *)
(*                                                                         *)
(* Left out: the checks of a request's form, the rate limit of copy-text,  *)
(* and which refusal a spent grant gives.  The throttle of refused tickets *)
(* is a refusal that may come at any time.  How the store opens and locks  *)
(* is the matter of StoreGate; here a store call succeeds or fails.  What  *)
(* an edit does at Apple is in AppleEdit.                                  *)
(***************************************************************************)
EXTENDS Naturals, FiniteSets

CONSTANTS
  Window,      \* connections whose role is "ui"; one that is gone is used again
  Id,          \* entries
  Task,        \* requests that wait for a store call
  Copy,        \* copies; one that is over is used again
  MaxBusy,     \* bound: requests waiting for the store and clip processes at one time
  NoConn, NoId

ASSUME GrantsAssumption ==
  /\ NoConn \notin Window /\ NoId \notin Id
  /\ MaxBusy \in Nat

VARIABLES
  conn,        \* each window: "off", "on" or "closing" (closed, detach() to come)
  ui, tier1,   \* Session.ui and Session.tier1
  grant,       \* the live Grant: its entry, and whether it is for a single use
  due,         \* clock() has reached expires_mono
  used,        \* Grant.used: a single-use grant an edit spent and is yet to end
  op, id,      \* per task: the op, "none" while idle, and its entry
  pc,          \* which store call it waits for, and "ret" when that is over
  ok,          \* the tasks whose store call succeeded
  fresh, latest, mine,
  spent,       \* the tasks whose own use spent a single-use grant
  tickets,     \* TicketBook._tickets, without those older than TICKET_TTL_S
  cconn,       \* per copy: the clip connection's stage, see ClipStage
  asked        \* history: the entry of the last grant asked for and not released

sessVars  == <<conn, ui, tier1>>
grantVars == <<grant, due, used>>
taskVars  == <<op, id, pc, ok, spent>>
daemonVars == <<sessVars, grantVars, taskVars, fresh, latest, mine, tickets, cconn,
                asked>>

NoGrant == [id |-> NoId, single |-> FALSE]

\* "on": hello accepted; "redeemed": op_redeem gave the value; "result": clip-result came;
\* "shut": closed by the daemon or by the process.
ClipStage == {"none", "on", "redeemed", "result", "shut"}

Waiting == {"meta", "open", "history", "ret"}

DaemonTypeOK ==
  /\ conn \in [Window -> {"off", "on", "closing"}]
  /\ ui \in Window \cup {NoConn} /\ tier1 \in Window \cup {NoConn}
  /\ grant \in [id : Id, single : BOOLEAN] \cup {NoGrant}
  /\ due \in BOOLEAN /\ used \in BOOLEAN
  /\ op \in [Task -> {"none", "grant", "opening", "history", "copy", "set", "pushing", "delete"}]
  /\ id \in [Task -> Id \cup {NoId}]
  /\ pc \in [Task -> Waiting \cup {"idle"}]
  /\ ok \subseteq Task /\ fresh \subseteq Task /\ latest \subseteq Task
  /\ mine \subseteq Task /\ spent \subseteq Task
  /\ tickets \subseteq [copy : Copy, conn : Window] 
  /\ cconn \in [Copy -> ClipStage]
  /\ asked \in Id \cup {NoId}

DaemonInit ==
  /\ conn = [w \in Window |-> "off"]
  /\ ui = NoConn /\ tier1 = NoConn
  /\ grant = NoGrant /\ due = FALSE /\ used = FALSE
  /\ op = [t \in Task |-> "none"] /\ id = [t \in Task |-> NoId]
  /\ pc = [t \in Task |-> "idle"]
  /\ ok = {} /\ fresh = {} /\ latest = {} /\ mine = {} /\ spent = {}
  /\ tickets = {}
  /\ cconn = [c \in Copy |-> "none"]
  /\ asked = NoId

-----------------------------------------------------------------------------
(* The grant *)

\* handlers._tier1()
Tier1(w) == tier1 = w /\ ui = w /\ conn[w] = "on"

\* Registry._drop_grant, and end_grant for one that ran out.
Drop == grant' = NoGrant /\ due' = FALSE /\ used' = FALSE /\ mine' = {}

KeepGrant == UNCHANGED <<grantVars, mine>>

\* Registry.grant_check on a live grant of entry i.
Granted(i) == grant.id = i /\ ~due /\ ~used

\* One value leaves through grant_use(); a single-use grant ends with it.
GiveOut == IF grant.single THEN Drop ELSE KeepGrant

\* check_grant_expiry(): a grant past its time is ended by the next op that asks for it.
ExpiredOp(w) ==
  /\ Tier1(w) /\ due
  /\ Drop
  /\ UNCHANGED <<sessVars, taskVars, fresh, latest, tickets, cconn, asked>>

\* Registry._grant_timeout
GrantTimeout ==
  /\ due
  /\ Drop
  /\ UNCHANGED <<sessVars, taskVars, fresh, latest, tickets, cconn, asked>>

GrantComesDue ==
  /\ grant # NoGrant /\ ~grant.single /\ ~due
  /\ due' = TRUE
  /\ UNCHANGED <<sessVars, grant, used, taskVars, fresh, latest, mine, tickets, cconn, asked>>

\* op_release: what op_grant has under way for the window is void from here on.
Release(w) ==
  /\ conn[w] = "on" /\ ui = w
  /\ latest' = {}
  /\ Drop
  /\ asked' = NoId
  /\ UNCHANGED <<sessVars, taskVars, fresh, tickets, cconn>>

\* op_reveal and op_totp: no await between the check and the answer.
Reveal(w, i) ==
  /\ Tier1(w) /\ Granted(i)
  /\ GiveOut
  /\ UNCHANGED <<sessVars, taskVars, fresh, latest, tickets, cconn, asked>>

-----------------------------------------------------------------------------
(* Locks and connections *)

\* Registry.withdraw: an open clip connection is told, and closed.
Withdrawn == [c \in Copy |-> IF cconn[c] = "none" THEN "none" ELSE "shut"]

\* Mutant of Lock: the clip offer is left to its timeout.
LockKeepingOffers ==
  /\ tier1' = NoConn
  /\ fresh' = {}
  /\ Drop
  /\ tickets' = {}
  /\ UNCHANGED cconn

\* Registry.lock, as far as this module goes.
Lock ==
  /\ tier1' = NoConn
  /\ fresh' = {}
  /\ Drop
  /\ tickets' = {}
  /\ cconn' = Withdrawn

\* A lock trigger: the button, idleness, sleep, logind.
LockTrigger ==
  /\ ui # NoConn
  /\ Lock
  /\ UNCHANGED <<conn, ui, taskVars, latest, asked>>

\* hello of a window: refused while another one is open; tier 1 of a window that closed and
\* is not detached yet is locked.
HelloWindow(w) ==
  /\ conn[w] = "off"
  /\ ui # NoConn => conn[ui] # "on"
  /\ conn' = [conn EXCEPT ![w] = "on"]
  /\ ui' = w
  /\ IF tier1 # NoConn
       THEN Lock
       ELSE UNCHANGED <<tier1, fresh, grantVars, mine, tickets, cconn>>
  /\ UNCHANGED <<taskVars, latest, asked>>

\* op_unlock opened tier 1 (StoreHandlers).
Unlock(w) ==
  /\ conn[w] = "on" /\ ui = w /\ tier1 = NoConn
  /\ tier1' = w
  /\ UNCHANGED <<conn, ui, grantVars, taskVars, fresh, latest, mine, tickets, cconn, asked>>

Close(w) ==
  /\ conn[w] = "on"
  /\ conn' = [conn EXCEPT ![w] = "closing"]
  /\ UNCHANGED <<ui, tier1, grantVars, taskVars, fresh, latest, mine, tickets, cconn, asked>>

\* Registry.detach
Detach(w) ==
  /\ conn[w] = "closing"
  /\ conn' = [conn EXCEPT ![w] = "off"]
  /\ IF ui = w
       THEN Lock /\ ui' = NoConn
       ELSE UNCHANGED <<ui, tier1, fresh, grantVars, mine, tickets, cconn>>
  /\ UNCHANGED <<taskVars, latest, asked>>

-----------------------------------------------------------------------------
(* Requests that wait for the store *)

\* What keeps the daemon busy; a copy keeps it busy until its process is gone.
Busy == {t \in Task : op[t] # "none"} \cup {c \in Copy : cconn[c] # "none"}

Begin(t, o, i, call) ==
  /\ op[t] = "none" /\ Cardinality(Busy) < MaxBusy
  /\ op' = [op EXCEPT ![t] = o]
  /\ id' = [id EXCEPT ![t] = i]
  /\ pc' = [pc EXCEPT ![t] = call]
  /\ fresh' = fresh \cup {t}

Finish(t) ==
  /\ op' = [op EXCEPT ![t] = "none"]
  /\ id' = [id EXCEPT ![t] = NoId]
  /\ pc' = [pc EXCEPT ![t] = "idle"]
  /\ ok' = ok \ {t} /\ spent' = spent \ {t}
  /\ fresh' = fresh \ {t}

\* handlers._still(): tier 1 cannot have moved to another connection without a lock.
Still(t) == t \in fresh /\ tier1 # NoConn /\ Tier1(tier1)

\* The worker's result: the store may be locked by then, or the entry gone.
StoreReturns(t) ==
  /\ pc[t] \in Waiting \ {"ret"}
  /\ pc' = [pc EXCEPT ![t] = "ret"]
  /\ \/ t \in fresh /\ ok' = ok \cup {t}
     \/ UNCHANGED ok
  /\ UNCHANGED <<sessVars, grantVars, op, id, spent, fresh, latest, mine, tickets, cconn, asked>>

\* op_grant: get_meta() first.
GrantStarts(w, t, i) ==
  /\ Tier1(w)
  /\ Begin(t, "grant", i, "meta")
  /\ latest' = {t}
  /\ asked' = i
  /\ UNCHANGED <<sessVars, grantVars, ok, spent, mine, tickets, cconn>>

\* then release_grant(), which bumps the serial the handler goes on with, and open_entry().
GrantOpens(t) ==
  /\ op[t] = "grant" /\ pc[t] = "ret" /\ t \in ok
  /\ Still(t) /\ t \in latest
  /\ op' = [op EXCEPT ![t] = "opening"]
  /\ pc' = [pc EXCEPT ![t] = "open"]
  /\ ok' = ok \ {t}
  /\ Drop
  /\ UNCHANGED <<sessVars, id, spent, fresh, latest, tickets, cconn, asked>>

\* Mutant of MayGrant: a release or a newer grant that came meanwhile goes unnoticed.
MayGrantAnyway(t) == Still(t)

MayGrant(t) == Still(t) /\ t \in latest

\* GrantTable.put(): grant_s = 0 makes it a single-use grant, without a timer.
NewGrant(i) == {[id |-> i, single |-> single] : single \in BOOLEAN}

\* and put_grant().
GrantPut(t) ==
  /\ op[t] = "opening" /\ pc[t] = "ret" /\ t \in ok
  /\ MayGrant(t)
  /\ grant' \in NewGrant(id[t])
  /\ due' = FALSE /\ used' = FALSE /\ mine' = {}
  /\ Finish(t)
  /\ UNCHANGED <<sessVars, latest, tickets, cconn, asked>>

\* The checks after an await that end op_grant; what it opened is wiped.
GrantRefused(t) ==
  /\ op[t] \in {"grant", "opening"} /\ pc[t] = "ret"
  /\ t \notin ok \/ (IF op[t] = "opening" THEN ~MayGrant(t) ELSE ~(Still(t) /\ t \in latest))
  /\ Finish(t)
  /\ UNCHANGED <<sessVars, grantVars, latest, mine, tickets, cconn, asked>>

\* op_history uses the grant, then reads the store.
HistoryStarts(w, t, i) ==
  /\ Tier1(w) /\ Granted(i)
  /\ Begin(t, "history", i, "history")
  /\ IF grant.single
       THEN Drop /\ spent' = spent \cup {t}
       ELSE mine' = mine \cup {t} /\ UNCHANGED <<grantVars, spent>>
  /\ UNCHANGED <<sessVars, ok, latest, tickets, cconn, asked>>

\* The grant must still be the one it used, unless that use spent it.
MayShowHistory(t) == t \in ok /\ Still(t) /\ (t \in spent \/ t \in mine)

HistoryEnds(t) ==
  /\ op[t] = "history" /\ pc[t] = "ret"
  /\ Finish(t)
  /\ mine' = mine \ {t}
  /\ UNCHANGED <<sessVars, grantVars, latest, tickets, cconn, asked>>

\* op_set checks the grant, then get_meta().
SetStarts(w, t, i) ==
  /\ Tier1(w) /\ Granted(i)
  /\ Begin(t, "set", i, "meta")
  /\ UNCHANGED <<sessVars, grantVars, ok, spent, latest, mine, tickets, cconn, asked>>

\* It checks the grant again and uses it; one for a single use is spent now and ended after
\* the push.  (Session.busy: one push at a time.)
SetPushes(t) ==
  /\ op[t] = "set" /\ pc[t] = "ret" /\ t \in ok
  /\ Still(t) /\ Granted(id[t])
  /\ \A u \in Task : op[u] # "pushing"
  /\ op' = [op EXCEPT ![t] = "pushing"]
  /\ pc' = [pc EXCEPT ![t] = "open"]
  /\ ok' = ok \ {t}
  /\ used' = grant.single
  /\ spent' = IF grant.single THEN spent \cup {t} ELSE spent
  /\ UNCHANGED <<sessVars, grant, due, id, fresh, latest, mine, tickets, cconn, asked>>

\* One of those checks fails, the entry is read-only, or a sync has the store.
SetRefused(t) ==
  /\ op[t] = "set" /\ pc[t] = "ret"
  /\ Finish(t)
  /\ UNCHANGED <<sessVars, grantVars, latest, mine, tickets, cconn, asked>>

\* The push is through: what it spent ends, or whichever grant the uid has by now.  A push that
\* failed ends nothing.  (That a grant which stays reads its values anew is left out.)
SetEnds(t) ==
  /\ op[t] = "pushing" /\ pc[t] = "ret"
  /\ IF t \in ok /\ t \in spent THEN Drop ELSE KeepGrant
  /\ Finish(t)
  /\ UNCHANGED <<sessVars, latest, tickets, cconn, asked>>

\* op_delete: all it waits for, the dialog and Apple among it, is one wait here.
DeleteStarts(w, t, i) ==
  /\ Tier1(w)
  /\ Begin(t, "delete", i, "meta")
  /\ UNCHANGED <<sessVars, grantVars, ok, spent, latest, mine, tickets, cconn, asked>>

\* A grant on what was deleted is released, and what op_grant has under way is void.
DeleteEnds(t) ==
  /\ op[t] = "delete" /\ pc[t] = "ret"
  /\ IF t \in ok /\ grant.id = id[t]
     THEN Drop /\ latest' = {} /\ asked' = NoId
     ELSE KeepGrant /\ UNCHANGED <<latest, asked>>
  /\ Finish(t)
  /\ UNCHANGED <<sessVars, tickets, cconn>>

-----------------------------------------------------------------------------
(* Copies *)

\* A copy nothing refers to any more.
Free(c) == cconn[c] = "none" /\ \A t \in tickets : t.copy # c

\* Mutant of Issue: the offer of the copy before it stays.
IssueBeside(w) ==
  \E c \in Copy : /\ Free(c)
                  /\ tickets' = tickets \cup {[copy |-> c, conn |-> w]}
                  /\ UNCHANGED cconn

\* One offer at a time: earlier tickets are revoked and live clip connections withdrawn, then
\* TicketBook.issue().
Issue(w) ==
  \E c \in Copy : /\ Free(c)
                  /\ tickets' = {[copy |-> c, conn |-> w]}
                  /\ cconn' = Withdrawn

\* op_copy of a password, code or note.
CopySecret(w, i) ==
  /\ Tier1(w) /\ Granted(i)
  /\ GiveOut
  /\ Issue(w)
  /\ UNCHANGED <<sessVars, taskVars, fresh, latest, asked>>

\* op_copy of a username or domain: from the list, without a grant.
CopyStarts(w, t, i) ==
  /\ Tier1(w)
  /\ Begin(t, "copy", i, "meta")
  /\ UNCHANGED <<sessVars, grantVars, ok, spent, latest, mine, tickets, cconn, asked>>

CopyEnds(t) ==
  /\ op[t] = "copy" /\ pc[t] = "ret"
  /\ IF t \in ok /\ Still(t)
       THEN Issue(tier1)
       ELSE UNCHANGED <<tickets, cconn>>
  /\ Finish(t)
  /\ UNCHANGED <<sessVars, grantVars, latest, mine, asked>>

\* op_copy_text: for a field of an entry being edited the grant is checked, not used; one of
\* an entry being created needs none.
CopyText(w, field) ==
  /\ Tier1(w)
  /\ field = "edit" => \E i \in Id : Granted(i)
  /\ Issue(w)
  /\ UNCHANGED <<sessVars, grantVars, taskVars, fresh, latest, mine, asked>>

\* TICKET_TTL_S is over: redeem() refuses the ticket as it refuses one it does not know.
TicketAges(c) ==
  /\ tickets' = {t \in tickets : t.copy # c} /\ tickets' # tickets
  /\ UNCHANGED <<sessVars, grantVars, taskVars, fresh, latest, mine, cconn, asked>>

\* TicketBook.redeem, and hello's comparison with the current window.  child: the process's
\* parent is the window that asked for the ticket.
Redeemable(t, child) ==
  /\ conn[t.conn] = "on" /\ t.conn = ui
  /\ child

\* hello of a clip process with the ticket of copy c: whatever comes of it, the ticket is
\* gone.
HelloClip(c, child) ==
  LET held == {t \in tickets : t.copy = c}
  IN /\ tickets' = tickets \ held
     /\ \/ /\ \E t \in held : Redeemable(t, child)
           /\ cconn' = [cconn EXCEPT ![c] = "on"]
        \/ UNCHANGED cconn
     /\ UNCHANGED <<sessVars, grantVars, taskVars, fresh, latest, mine, asked>>

\* A second process, or one the window did not start, presents a ticket.
StrayHello(c) == HelloClip(c, FALSE)

=============================================================================
