------------------------------ MODULE ClipProofs ------------------------------
(***************************************************************************)
(* Theorems about Grants and Clip, for any windows, entries, requests and  *)
(* copies, and any programs on the desktop.                                *)
(*                                                                         *)
(* The daemon's side: a copy is on its way as a ticket or as a live        *)
(* connection, never as both, and never as two; a lock ends it, and only   *)
(* an unlocked window starts one.  The process's side: while it serves,    *)
(* paste[c] are the readers of the one program that got the value.         *)
(***************************************************************************)
EXTENDS Clip, FiniteSetTheorems, TLAPS

-----------------------------------------------------------------------------
(* Copies on their way *)

\* The property, and what keeps two copies apart.
OfferInv ==
  /\ SecretsOnlyWhileOpen
  /\ DOMAIN cconn = Copy
  /\ \A t \in tickets : t.copy \in Copy /\ cconn[t.copy] = "none"
  /\ \A s, t \in tickets : s.copy = t.copy
  /\ \A c \in Copy : Live(c) => tickets = {}
  /\ \A c, d \in Copy : Live(c) /\ Live(d) => c = d

LEMMA OfferInvInit == Init => OfferInv
  BY DEF Init, DaemonInit, OfferInv, SecretsOnlyWhileOpen, Live

\* A step that touches no copy and opens nothing.
LEMMA QuietKeeps ==
  ASSUME OfferInv, UNCHANGED <<tickets, cconn>>,
         tier1' = NoConn => tier1 = NoConn,
         grant' \in {grant, NoGrant} \/ tier1' # NoConn
  PROVE  OfferInv'
  BY DEF OfferInv, SecretsOnlyWhileOpen, Live

LEMMA LockKeeps ==
  ASSUME OfferInv, Lock
  PROVE  OfferInv'
  BY DEF Lock, Drop, Withdrawn, OfferInv, SecretsOnlyWhileOpen, Live

\* Nothing is issued without an unlocked window, and what was on its way is called back.
LEMMA IssueKeeps ==
  ASSUME OfferInv, NEW w, Issue(w), tier1' # NoConn
  PROVE  OfferInv'
  <1>1. PICK c \in Copy : /\ Free(c)
                          /\ tickets' = {[copy |-> c, conn |-> w]}
                          /\ cconn' = Withdrawn
    BY DEF Issue
  <1>2. /\ DOMAIN cconn' = Copy /\ cconn'[c] = "none"
        /\ \A d \in Copy : cconn'[d] \in {"none", "shut"}
    BY <1>1 DEF Free, Withdrawn
  <1>3. \A d \in Copy : ~Live(d)'
    BY <1>2 DEF Live
  <1> QED
    BY <1>1, <1>2, <1>3 DEF OfferInv, SecretsOnlyWhileOpen

\* A ticket that is presented is gone, and only the one copy on its way comes to life.
LEMMA HelloKeeps ==
  ASSUME OfferInv, NEW c \in Copy, NEW child, HelloClip(c, child), UNCHANGED <<tier1, grant>>
  PROVE  OfferInv'
  <1> DEFINE held == {t \in tickets : t.copy = c}
  <1>1. /\ tickets' = tickets \ held
        /\ \/ held # {} /\ cconn' = [cconn EXCEPT ![c] = "on"]
           \/ UNCHANGED cconn
    BY DEF HelloClip
  <1>2. CASE held # {} /\ cconn' = [cconn EXCEPT ![c] = "on"]
    <2>1. \A t \in tickets : t.copy = c
      BY <1>2 DEF OfferInv
    <2>2. tickets' = {} /\ tickets # {}
      BY <1>1, <1>2, <2>1
    <2>3. tier1 # NoConn /\ \A d \in Copy : ~Live(d)
      BY <2>2 DEF OfferInv, SecretsOnlyWhileOpen
    <2>4. \A d \in Copy : Live(d)' => d = c
      BY <1>2, <2>3 DEF OfferInv, Live
    <2> QED
      BY <1>2, <2>2, <2>3, <2>4 DEF OfferInv, SecretsOnlyWhileOpen
  <1>3. CASE UNCHANGED cconn
    BY <1>1, <1>3 DEF OfferInv, SecretsOnlyWhileOpen, Live
  <1> QED
    BY <1>1, <1>2, <1>3

LEMMA OfferInvDaemon ==
  ASSUME OfferInv, Daemon
  PROVE  OfferInv'
  <1>0. \A w \in Window : w # NoConn
    BY GrantsAssumption
  <1>1. CASE LockTrigger
    BY <1>1, LockKeeps DEF LockTrigger
  <1>2. CASE GrantComesDue \/ GrantTimeout
    BY <1>2, QuietKeeps DEF GrantComesDue, GrantTimeout, Drop, sessVars
  <1>3. ASSUME NEW w \in Window,
               HelloWindow(w) \/ Unlock(w) \/ Close(w) \/ Detach(w) \/ Release(w) \/ ExpiredOp(w)
        PROVE  OfferInv'
    <2>1. CASE HelloWindow(w) \/ Detach(w)
      BY <2>1, LockKeeps, QuietKeeps DEF HelloWindow, Detach, grantVars
    <2>2. CASE Unlock(w) \/ Close(w)
      BY <1>0, <2>2, QuietKeeps DEF Unlock, Close, grantVars
    <2>3. CASE Release(w) \/ ExpiredOp(w)
      BY <2>3, QuietKeeps DEF Release, ExpiredOp, Drop, sessVars
    <2> QED
      BY <1>3, <2>1, <2>2, <2>3
  <1>4. ASSUME NEW w \in Window, NEW i \in Id, Reveal(w, i) \/ CopySecret(w, i)
        PROVE  OfferInv'
    <2>1. CASE Reveal(w, i)
      BY <2>1, QuietKeeps DEF Reveal, GiveOut, Drop, KeepGrant, grantVars, sessVars
    <2>2. CASE CopySecret(w, i)
      BY <1>0, <2>2, IssueKeeps DEF CopySecret, Tier1, sessVars
    <2> QED
      BY <1>4, <2>1, <2>2
  <1>5. ASSUME NEW w \in Window, NEW f \in {"edit", "create"}, CopyText(w, f)
        PROVE  OfferInv'
    BY <1>0, <1>5, IssueKeeps DEF CopyText, Tier1, sessVars
  <1>6. ASSUME NEW w \in Window, NEW t \in Task, NEW i \in Id,
               \/ GrantStarts(w, t, i) \/ HistoryStarts(w, t, i) \/ CopyStarts(w, t, i)
               \/ SetStarts(w, t, i) \/ DeleteStarts(w, t, i)
        PROVE  OfferInv'
    BY <1>6, QuietKeeps
    DEF GrantStarts, HistoryStarts, CopyStarts, SetStarts, DeleteStarts, Drop, grantVars, sessVars
  <1>7. ASSUME NEW t \in Task,
               StoreReturns(t) \/ GrantOpens(t) \/ GrantPut(t) \/ GrantRefused(t) \/ HistoryEnds(t)
        PROVE  OfferInv'
    BY <1>7, QuietKeeps
    DEF StoreReturns, GrantOpens, GrantPut, MayGrant, Still, GrantRefused, HistoryEnds, Drop,
        grantVars, sessVars
  <1>7a. ASSUME NEW t \in Task, SetPushes(t) \/ SetRefused(t) \/ SetEnds(t) \/ DeleteEnds(t)
         PROVE  OfferInv'
    BY <1>7a, QuietKeeps
    DEF SetPushes, SetRefused, SetEnds, DeleteEnds, KeepGrant, Drop, grantVars, sessVars
  <1>8. ASSUME NEW t \in Task, CopyEnds(t)
        PROVE  OfferInv'
    BY <1>8, IssueKeeps, QuietKeeps DEF CopyEnds, Still, grantVars, sessVars
  <1>9. ASSUME NEW c \in Copy, TicketAges(c) \/ StrayHello(c)
        PROVE  OfferInv'
    <2>1. CASE TicketAges(c)
      BY <2>1 DEF TicketAges, OfferInv, SecretsOnlyWhileOpen, Live, sessVars, grantVars
    <2>2. CASE StrayHello(c)
      BY <2>2, HelloKeeps DEF StrayHello, HelloClip, sessVars, grantVars
    <2> QED
      BY <1>9, <2>1, <2>2
  <1> QED
    BY <1>1, <1>2, <1>3, <1>4, <1>5, <1>6, <1>7, <1>7a, <1>8, <1>9 DEF Daemon

LEMMA OfferInvNext ==
  ASSUME OfferInv, [Next]_vars
  PROVE  OfferInv'
  <1>1. CASE Daemon
    BY <1>1, OfferInvDaemon
  <1>2. ASSUME NEW c \in Copy, Start(c)
        PROVE  OfferInv'
    BY <1>2, HelloKeeps DEF Start, HelloClip, sessVars, grantVars
  <1>3. ASSUME NEW c \in Copy, Redeem(c) \/ Report(c) \/ Exit(c)
        PROVE  OfferInv'
    <2>1. /\ UNCHANGED <<tickets, tier1, grant>>
          /\ \/ UNCHANGED cconn
             \/ cconn[c] \in {"on", "redeemed"} /\ cconn' = [cconn EXCEPT ![c] = "redeemed"]
             \/ cconn' = [cconn EXCEPT ![c] = "result"] /\ cconn[c] = "redeemed"
             \/ cconn' = [cconn EXCEPT ![c] = "none"]
      BY <1>3 DEF Redeem, Report, Exit, sessVars, grantVars
    <2> QED
      BY <2>1 DEF OfferInv, SecretsOnlyWhileOpen, Live
  <1>4. CASE UNCHANGED daemonVars
    BY <1>4, QuietKeeps DEF daemonVars, sessVars, grantVars
  <1>5. CASE Compositor
    BY <1>4, <1>5 DEF Compositor, OtherCopies, AskToPaste
  <1>6. ASSUME NEW c \in Copy, TakeSelection(c) \/ OfferFails(c) \/ Loop(c) \/ TimePasses(c)
        PROVE  OfferInv'
    BY <1>4, <1>6 DEF TakeSelection, OfferFails, Loop, OnSend, Tick, OnCancelled, OnWithdraw,
                      CompositorGone, SeatGoes, Over, TimePasses
  <1>7. CASE UNCHANGED vars
    BY <1>4, <1>7 DEF vars
  <1> QED
    BY <1>1, <1>2, <1>3, <1>5, <1>6, <1>7 DEF Next, Process

\* With no window unlocked there is no grant, no ticket and no clip connection the daemon would
\* still answer, whatever order locks, hang-ups, late detaches and slow store calls come in
\* (Registry.lock, handlers._still, TicketBook.redeem).
THEOREM ClipSecretsOnlyWhileOpen == Spec => []SecretsOnlyWhileOpen
  <1>1. OfferInv => SecretsOnlyWhileOpen
    BY DEF OfferInv
  <1> QED
    BY OfferInvInit, OfferInvNext, <1>1, PTL DEF Spec

\* At most one copy is on its way, as a ticket or as a clip connection (the revoke and the
\* withdraw before every TicketBook.issue, and the ticket a hello consumes).
THEOREM ClipOneOffer == Spec => []OneOffer
  <1>1. OfferInv => OneOffer
    <2> SUFFICES ASSUME OfferInv PROVE OneOffer
      OBVIOUS
    <2> DEFINE S == {t.copy : t \in tickets} \cup {c \in Copy : Live(c)}
    <2>1. \A x, y \in S : x = y
      BY DEF OfferInv
    <2>2. S = {} \/ \E x : S = {x}
      BY <2>1
    <2> HIDE DEF S
    <2>3. Cardinality(S) = 0 \/ Cardinality(S) = 1
      BY <2>2, FS_EmptySet, FS_Singleton
    <2> QED
      BY <2>3 DEF OneOffer, S
  <1> QED
    BY OfferInvInit, OfferInvNext, <1>1, PTL DEF Spec

-----------------------------------------------------------------------------
(* The grant that is put *)

\* Of the handlers, op_grant's newest alone goes by the current serial, and only until a release.
AskedInv ==
  /\ DOMAIN op = Task /\ DOMAIN id = Task
  /\ \A t \in latest : op[t] \in {"grant", "opening"} => id[t] = asked
  /\ latest \subseteq Task

LEMMA AskedInvInit == Init => AskedInv
  BY DEF Init, DaemonInit, AskedInv

\* A request that ends, and one that waits for something else than a grant.
LEMMA AskedKeeps ==
  ASSUME AskedInv, UNCHANGED <<latest, asked>>, NEW t \in Task,
         Finish(t) \/ \E o \in {"history", "copy", "set", "delete"}, i \in Id : \E call : Begin(t, o, i, call)
  PROVE  AskedInv'
  BY DEF AskedInv, Finish, Begin

LEMMA AskedInvNext ==
  ASSUME AskedInv, [Next]_vars
  PROVE  AskedInv'
  <1>0. CASE UNCHANGED <<op, id, latest, asked>>
    BY <1>0 DEF AskedInv
  <1>1. CASE LockTrigger \/ GrantComesDue \/ GrantTimeout
    BY <1>0, <1>1 DEF LockTrigger, GrantComesDue, GrantTimeout, taskVars
  <1>2. ASSUME NEW w \in Window,
               HelloWindow(w) \/ Unlock(w) \/ Close(w) \/ Detach(w) \/ ExpiredOp(w)
        PROVE  AskedInv'
    BY <1>0, <1>2 DEF HelloWindow, Unlock, Close, Detach, ExpiredOp, taskVars
  <1>3. ASSUME NEW w \in Window, Release(w)
        PROVE  AskedInv'
    BY <1>3 DEF Release, AskedInv, taskVars
  <1>4. ASSUME NEW w \in Window, NEW i \in Id, Reveal(w, i) \/ CopySecret(w, i)
        PROVE  AskedInv'
    BY <1>0, <1>4 DEF Reveal, CopySecret, taskVars
  <1>5. ASSUME NEW w \in Window, NEW f \in {"edit", "create"}, CopyText(w, f)
        PROVE  AskedInv'
    BY <1>0, <1>5 DEF CopyText, taskVars
  <1>6. ASSUME NEW w \in Window, NEW t \in Task, NEW i \in Id, GrantStarts(w, t, i)
        PROVE  AskedInv'
    BY <1>6 DEF GrantStarts, Begin, AskedInv
  <1>7. ASSUME NEW w \in Window, NEW t \in Task, NEW i \in Id,
               \/ HistoryStarts(w, t, i) \/ CopyStarts(w, t, i)
               \/ SetStarts(w, t, i) \/ DeleteStarts(w, t, i)
        PROVE  AskedInv'
    BY <1>7, AskedKeeps DEF HistoryStarts, CopyStarts, SetStarts, DeleteStarts
  <1>8. ASSUME NEW t \in Task, StoreReturns(t)
        PROVE  AskedInv'
    BY <1>0, <1>8 DEF StoreReturns
  <1>9. ASSUME NEW t \in Task, GrantOpens(t) \/ SetPushes(t) \/ DeleteEnds(t)
        PROVE  AskedInv'
    <2>1. CASE GrantOpens(t)
      BY <2>1 DEF GrantOpens, AskedInv
    <2>2. CASE SetPushes(t)
      BY <2>2 DEF SetPushes, AskedInv
    <2>3. CASE DeleteEnds(t) /\ latest' = {}
      BY <2>3 DEF DeleteEnds, Finish, AskedInv
    <2>4. CASE DeleteEnds(t) /\ UNCHANGED <<latest, asked>>
      BY <2>4, AskedKeeps DEF DeleteEnds
    <2> QED
      BY <1>9, <2>1, <2>2, <2>3, <2>4 DEF DeleteEnds
  <1>10. ASSUME NEW t \in Task,
                \/ GrantPut(t) \/ GrantRefused(t) \/ HistoryEnds(t) \/ CopyEnds(t)
                \/ SetRefused(t) \/ SetEnds(t)
        PROVE  AskedInv'
    BY <1>10, AskedKeeps DEF GrantPut, GrantRefused, HistoryEnds, CopyEnds, SetRefused, SetEnds
  <1>11. ASSUME NEW c \in Copy, TicketAges(c) \/ StrayHello(c) \/ Start(c)
        PROVE  AskedInv'
    BY <1>0, <1>11 DEF TicketAges, StrayHello, Start, HelloClip, taskVars
  <1>12. CASE Daemon
    BY <1>1, <1>2, <1>3, <1>4, <1>5, <1>6, <1>7, <1>8, <1>9, <1>10, <1>11, <1>12 DEF Daemon
  <1>13. ASSUME NEW c \in Copy, Redeem(c) \/ Report(c) \/ Exit(c)
        PROVE  AskedInv'
    BY <1>0, <1>13 DEF Redeem, Report, Exit, taskVars
  <1>14. CASE UNCHANGED daemonVars
    BY <1>0, <1>14 DEF daemonVars, taskVars
  <1>15. CASE Compositor
    BY <1>14, <1>15 DEF Compositor, OtherCopies, AskToPaste
  <1>16. ASSUME NEW c \in Copy, TakeSelection(c) \/ OfferFails(c) \/ Loop(c) \/ TimePasses(c)
        PROVE  AskedInv'
    BY <1>14, <1>16 DEF TakeSelection, OfferFails, Loop, OnSend, Tick, OnCancelled, OnWithdraw,
                      CompositorGone, SeatGoes, Over, TimePasses
  <1> QED
    BY <1>11, <1>12, <1>13, <1>14, <1>15, <1>16 DEF Next, Process, vars

\* No other step of the daemon puts a grant.
LEMMA OnlyGrantPut ==
  ASSUME [Next]_vars, grant' # grant, grant' # NoGrant
  PROVE  \E t \in Task : GrantPut(t)
  <1>0. CASE grant' \in {grant, NoGrant}
    BY <1>0
  <1>1. CASE LockTrigger \/ GrantComesDue \/ GrantTimeout
    BY <1>0, <1>1 DEF LockTrigger, GrantComesDue, GrantTimeout, Lock, Drop
  <1>2. ASSUME NEW w \in Window,
               \/ HelloWindow(w) \/ Unlock(w) \/ Close(w) \/ Detach(w) \/ Release(w) \/ ExpiredOp(w)
        PROVE  FALSE
    BY <1>0, <1>2 DEF HelloWindow, Unlock, Close, Detach, Release, ExpiredOp, Lock, Drop, grantVars
  <1>3. ASSUME NEW w \in Window, NEW i \in Id, Reveal(w, i) \/ CopySecret(w, i)
        PROVE  FALSE
    BY <1>0, <1>3 DEF Reveal, CopySecret, GiveOut, KeepGrant, Drop, grantVars
  <1>4. ASSUME NEW w \in Window, NEW f \in {"edit", "create"}, CopyText(w, f)
        PROVE  FALSE
    BY <1>0, <1>4 DEF CopyText, grantVars
  <1>5. ASSUME NEW w \in Window, NEW t \in Task, NEW i \in Id,
               \/ GrantStarts(w, t, i) \/ HistoryStarts(w, t, i) \/ CopyStarts(w, t, i)
               \/ SetStarts(w, t, i) \/ DeleteStarts(w, t, i)
        PROVE  FALSE
    BY <1>0, <1>5
    DEF GrantStarts, HistoryStarts, CopyStarts, SetStarts, DeleteStarts, Drop, grantVars
  <1>6. ASSUME NEW t \in Task,
               \/ StoreReturns(t) \/ GrantOpens(t) \/ GrantRefused(t) \/ HistoryEnds(t)
               \/ CopyEnds(t) \/ SetPushes(t) \/ SetRefused(t) \/ SetEnds(t) \/ DeleteEnds(t)
        PROVE  FALSE
    BY <1>0, <1>6
    DEF StoreReturns, GrantOpens, GrantRefused, HistoryEnds, CopyEnds, SetPushes, SetRefused,
        SetEnds, DeleteEnds, KeepGrant, Drop, grantVars
  <1>7. ASSUME NEW c \in Copy, TicketAges(c) \/ StrayHello(c) \/ Start(c) \/ Redeem(c) \/ Report(c) \/ Exit(c)
        PROVE  FALSE
    BY <1>0, <1>7 DEF TicketAges, StrayHello, Start, HelloClip, Redeem, Report, Exit, grantVars
  <1>8. daemonVars' # daemonVars
    BY DEF daemonVars, grantVars
  <1>9. ASSUME NEW c \in Copy, TakeSelection(c) \/ OfferFails(c) \/ Loop(c) \/ TimePasses(c)
        PROVE  FALSE
    BY <1>8, <1>9 DEF TakeSelection, OfferFails, Loop, OnSend, Tick, OnCancelled, OnWithdraw,
                      CompositorGone, SeatGoes, Over, TimePasses
  <1>10. CASE Compositor \/ UNCHANGED vars
    BY <1>8, <1>10 DEF Compositor, OtherCopies, AskToPaste, vars
  <1>11. CASE Daemon
    BY <1>1, <1>2, <1>3, <1>4, <1>5, <1>6, <1>7, <1>11 DEF Daemon
  <1> QED
    BY <1>7, <1>9, <1>10, <1>11 DEF Next, Process

\* A grant is put only for the entry the window asked for last and has not released, although
\* op_grant calls may overtake each other in the store (Session.grant_serial).
THEOREM ClipLatestGrantWins == Spec => LatestGrantWins
  <1>1. ASSUME AskedInv, [Next]_vars
        PROVE  grant' # grant /\ grant' # NoGrant => grant'.id = asked
    <2> SUFFICES ASSUME grant' # grant, grant' # NoGrant PROVE grant'.id = asked
      OBVIOUS
    <2>1. PICK t \in Task : GrantPut(t)
      BY <1>1, OnlyGrantPut
    <2>2. op[t] = "opening" /\ t \in latest /\ grant' \in NewGrant(id[t])
      BY <2>1 DEF GrantPut, MayGrant
    <2> QED
      BY <1>1, <2>2 DEF AskedInv, NewGrant
  <1>2. AskedInv /\ [Next]_vars => [grant' # grant /\ grant' # NoGrant => grant'.id = asked]_vars
    BY <1>1
  <1> QED
    BY AskedInvInit, AskedInvNext, <1>2, PTL DEF Spec, LatestGrantWins

-----------------------------------------------------------------------------
(* What is told of a copy *)

\* While an offer is served, paste[c] is empty until somebody got the value; what is told at the
\* end is what had happened by then.
OutcomeInv ==
  /\ DOMAIN got = Copy /\ DOMAIN paste = Copy /\ DOMAIN outcome = Copy
  /\ DOMAIN proc = Copy /\ DOMAIN ask = Copy
  /\ \A c \in Copy :
       /\ proc[c] \in {"none", "hello", "value"} => got[c] = {} /\ paste[c] = {}
       /\ proc[c] = "serving" => (paste[c] = {} <=> got[c] = {})
       /\ proc[c] = "over" => paste[c] = {}
       /\ proc[c] # "over" => outcome[c] = "none"
       /\ outcome[c] = "pasted" => got[c] # {}
       /\ outcome[c] \in {"expired", "replaced", "withdrawn"} => got[c] = {}
       /\ ask[c] \subseteq Program

LEMMA OutcomeInvInit == Init => OutcomeInv
  BY DEF Init, OutcomeInv

\* The steps of a process but for a request to paste and the end of the offer
LEMMA ProcessKeeps ==
  ASSUME OutcomeInv, NEW c \in Copy,
         Start(c) \/ Redeem(c) \/ TakeSelection(c) \/ OfferFails(c) \/ Report(c) \/ TimePasses(c) \/ Exit(c)
  PROVE  OutcomeInv'
  <1>1. CASE Start(c) \/ Redeem(c) \/ TakeSelection(c)
    <2>1. /\ UNCHANGED <<ask, paste, outcome, got>>
          /\ proc[c] \in {"none", "hello", "value"}
          /\ \E s \in {"none", "hello", "value", "serving"} : proc' = [proc EXCEPT ![c] = s]
      BY <1>1 DEF Start, Redeem, TakeSelection, offerVars
    <2> QED
      BY <2>1 DEF OutcomeInv
  <1>2. CASE OfferFails(c)
    BY <1>2 DEF OfferFails, OutcomeInv
  <1>3. CASE Report(c) \/ TimePasses(c)
    BY <1>3 DEF Report, TimePasses, offerVars, OutcomeInv
  <1>4. CASE Exit(c)
    BY <1>4 DEF Exit, OutcomeInv
  <1> QED
    BY <1>1, <1>2, <1>3, <1>4

\* What on_send() did with the request of program p.
LEMMA OnSendEffect ==
  ASSUME OutcomeInv, NEW c \in Copy, OnSend(c)
  PROVE  /\ proc[c] = "serving" /\ UNCHANGED <<proc, outcome>>
         /\ ask' = [ask EXCEPT ![c] = {}]
         /\ \/ UNCHANGED <<got, paste>>
            \/ \E p \in Program :
                 /\ Serves(c, Readers(p)) /\ Readers(p) # {}
                 /\ got' = [got EXCEPT ![c] = @ \cup {p}]
                 /\ paste' = IF paste[c] = {} THEN [paste EXCEPT ![c] = Readers(p)] ELSE paste
  <1>1. PICK p \in ask[c], written \in WriteAll :
          LET served == Serves(c, Readers(p))
              pasted == served /\ paste[c] = {} /\ IsPaste(written)
          IN /\ got' = IF served /\ written # "nothing"
                       THEN [got EXCEPT ![c] = @ \cup {p}] ELSE got
             /\ paste' = IF pasted THEN [paste EXCEPT ![c] = Readers(p)] ELSE paste
    BY DEF OnSend
  <1>2. p \in Program
    BY DEF OutcomeInv
  <1>3. Serves(c, Readers(p)) => Readers(p) # {}
    BY DEF Serves
  <1>4. /\ proc[c] = "serving" /\ UNCHANGED <<proc, outcome>>
        /\ ask' = [ask EXCEPT ![c] = {}]
    BY DEF OnSend
  <1> QED
    BY <1>1, <1>2, <1>3, <1>4 DEF IsPaste

LEMMA OnSendKeeps ==
  ASSUME OutcomeInv, NEW c \in Copy, OnSend(c)
  PROVE  OutcomeInv'
  <1>1. /\ proc[c] = "serving" /\ UNCHANGED <<proc, outcome>>
        /\ ask' = [ask EXCEPT ![c] = {}]
        /\ \/ UNCHANGED <<got, paste>>
           \/ \E p \in Program :
                /\ Readers(p) # {}
                /\ got' = [got EXCEPT ![c] = @ \cup {p}]
                /\ paste' = IF paste[c] = {} THEN [paste EXCEPT ![c] = Readers(p)] ELSE paste
    BY OnSendEffect
  <1> QED
    BY <1>1 DEF OutcomeInv

\* The offer ends, and is told "pasted" for a paste.
LEMMA OverKeeps ==
  ASSUME OutcomeInv, NEW c \in Copy,
         NEW o \in {"failed"} \cup
           {PastedOr(c, r) : r \in {"expired", "replaced", "withdrawn", "failed"}},
         Over(c, o)
  PROVE  OutcomeInv'
  <1>1. /\ proc[c] = "serving"
        /\ proc' = [proc EXCEPT ![c] = "over"]
        /\ outcome' = [outcome EXCEPT ![c] = o]
        /\ ask' = [ask EXCEPT ![c] = {}]
        /\ paste' = [paste EXCEPT ![c] = {}]
        /\ UNCHANGED got
    BY DEF Over
  <1>2. /\ o = "pasted" => got[c] # {}
        /\ o \in {"expired", "replaced", "withdrawn"} => got[c] = {}
    BY <1>1 DEF OutcomeInv, PastedOr
  <1> QED
    BY <1>1, <1>2 DEF OutcomeInv

\* How an offer ends
LEMMA LoopEnds ==
  ASSUME NEW c \in Copy, Loop(c), ~OnSend(c)
  PROVE  \E o \in {"failed"} \cup {PastedOr(c, r) : r \in {"expired", "replaced", "withdrawn", "failed"}} :
           Over(c, o)
  BY DEF Loop, Tick, OnCancelled, OnWithdraw, CompositorGone, SeatGoes

LEMMA OutcomeInvNext ==
  ASSUME OutcomeInv, [Next]_vars
  PROVE  OutcomeInv'
  <1>1. CASE (Daemon /\ UNCHANGED <<proc, offerVars>>) \/ UNCHANGED vars
    BY <1>1 DEF offerVars, vars, OutcomeInv
  <1>2. CASE Compositor
    <2>1. CASE OtherCopies
      BY <2>1 DEF OtherCopies, OutcomeInv
    <2>2. ASSUME NEW p \in Program, AskToPaste(p) PROVE OutcomeInv'
      BY <2>2 DEF AskToPaste, OutcomeInv
    <2> QED
      BY <1>2, <2>1, <2>2 DEF Compositor
  <1>3. ASSUME NEW c \in Copy, Loop(c)
        PROVE  OutcomeInv'
    BY <1>3, OnSendKeeps, OverKeeps, LoopEnds
  <1> QED
    BY <1>1, <1>2, <1>3, ProcessKeeps DEF Next, Process

\* What the window is told of a copy is so: "pasted" when somebody got the value, and
\* "expired", "replaced" or "withdrawn" when nobody did (Offer.outcome).
THEOREM ClipOutcomeIsTrue == Spec => []OutcomeIsTrue
  <1>1. OutcomeInv => OutcomeIsTrue
    BY DEF OutcomeInv, OutcomeIsTrue
  <1> QED
    BY OutcomeInvInit, OutcomeInvNext, <1>1, PTL DEF Spec

-----------------------------------------------------------------------------
(* What a copied value reaches *)

\* The value went to one program at most, whose readers paste[c] are for as long as it may ask
\* again.
ReaderInv ==
  \A c \in Copy :
    /\ got[c] = {} \/ \E p \in Program \ Recorder : got[c] = {p}
    /\ paste[c] # {} => \E p \in Program : got[c] = {p} /\ paste[c] = Readers(p)

LEMMA ReaderInvInit == Init => ReaderInv
  BY DEF Init, ReaderInv

\* Whom the value is written for.
LEMMA ServedIsOne ==
  ASSUME OneProgramEach, RecordersAreKnown, OutcomeInv, ReaderInv,
         NEW c \in Copy, proc[c] = "serving", NEW p \in Program, Serves(c, Readers(p))
  PROVE  IF paste[c] = {} THEN got[c] = {} /\ p \notin Recorder ELSE got[c] = {p}
  <1>1. CASE paste[c] = {}
    <2>1. ~OnlyWatchers(Readers(p))
      BY <1>1 DEF Serves
    <2>2. p \notin Recorder
      BY <2>1 DEF RecordersAreKnown, OnlyWatchers
    <2> QED
      BY <1>1, <2>2 DEF OutcomeInv
  <1>2. CASE paste[c] # {}
    <2>1. Readers(p) = paste[c] /\ Readers(p) # {} /\ Bridge \notin Readers(p)
      BY <1>2 DEF Serves, ReServes
    <2>2. PICK q \in Program : got[c] = {q} /\ paste[c] = Readers(q)
      BY <1>2 DEF ReaderInv
    <2> QED
      BY <1>2, <2>1, <2>2 DEF OneProgramEach
  <1> QED
    BY <1>1, <1>2

LEMMA ReaderInvNext ==
  ASSUME OneProgramEach, RecordersAreKnown, OutcomeInv, ReaderInv, [Next]_vars
  PROVE  ReaderInv'
  <1>0. CASE UNCHANGED <<paste, got>>
    BY <1>0 DEF ReaderInv
  <1>1. CASE (Daemon /\ UNCHANGED <<proc, offerVars>>) \/ UNCHANGED vars
    BY <1>0, <1>1 DEF offerVars, vars
  <1>2. CASE Compositor
    BY <1>0, <1>2 DEF Compositor, OtherCopies, AskToPaste
  <1>3. ASSUME NEW c \in Copy,
               \/ Start(c) \/ Redeem(c) \/ TakeSelection(c) \/ OfferFails(c) \/ Report(c)
               \/ TimePasses(c)
        PROVE  ReaderInv'
    BY <1>0, <1>3 DEF Start, Redeem, TakeSelection, OfferFails, Report, TimePasses, offerVars
  <1>4. ASSUME NEW c \in Copy, Exit(c)
        PROVE  ReaderInv'
    <2>1. proc[c] = "over" /\ got' = [got EXCEPT ![c] = {}] /\ UNCHANGED paste
      BY <1>4 DEF Exit
    <2> QED
      BY <2>1 DEF ReaderInv, OutcomeInv
  <1>5. ASSUME NEW c \in Copy, OnSend(c)
        PROVE  ReaderInv'
    <2>1. CASE UNCHANGED <<got, paste>>
      BY <1>0, <2>1
    <2>2. CASE \E p \in Program :
                 /\ Serves(c, Readers(p))
                 /\ got' = [got EXCEPT ![c] = @ \cup {p}]
                 /\ paste' = IF paste[c] = {} THEN [paste EXCEPT ![c] = Readers(p)] ELSE paste
      <3>1. PICK p \in Program :
              /\ Serves(c, Readers(p))
              /\ got' = [got EXCEPT ![c] = @ \cup {p}]
              /\ paste' = IF paste[c] = {} THEN [paste EXCEPT ![c] = Readers(p)] ELSE paste
        BY <2>2
      <3>2. IF paste[c] = {} THEN got[c] = {} /\ p \notin Recorder ELSE got[c] = {p}
        BY <1>5, <3>1, ServedIsOne, OnSendEffect
      <3>3. got' = [got EXCEPT ![c] = {p}] /\ p \notin Recorder
        BY <3>1, <3>2 DEF ReaderInv
      <3> QED
        BY <3>1, <3>2, <3>3 DEF ReaderInv, OutcomeInv
    <2> QED
      BY <1>5, <2>1, <2>2, OnSendEffect
  <1>6. ASSUME NEW c \in Copy, Loop(c), ~OnSend(c)
        PROVE  ReaderInv'
    <2>1. paste' = [paste EXCEPT ![c] = {}] /\ UNCHANGED got
      BY <1>6, LoopEnds DEF Over
    <2> QED
      BY <2>1 DEF ReaderInv, OutcomeInv
  <1> QED
    BY <1>1, <1>2, <1>3, <1>4, <1>5, <1>6 DEF Next, Process

\* A copied value, or a part of it, reaches one program only, and none that records the
\* clipboard, if no two programs share their readers and recorders are known ones: the grace
\* time of a paste serves its own program again and nobody else (Offer.on_send).
THEOREM ClipOnePaste ==
  ASSUME OneProgramEach, RecordersAreKnown
  PROVE  Spec => []OnePaste
  <1>1. ReaderInv => OnePaste
    <2> SUFFICES ASSUME ReaderInv, NEW c \in Copy
                 PROVE  Cardinality(got[c]) <= 1 /\ got[c] \cap Recorder = {}
      BY DEF OnePaste
    <2>1. got[c] = {} \/ \E p \in Program \ Recorder : got[c] = {p}
      BY DEF ReaderInv
    <2>2. CASE got[c] = {}
      BY <2>2, FS_EmptySet
    <2>3. ASSUME NEW p \in Program \ Recorder, got[c] = {p}
          PROVE  Cardinality(got[c]) <= 1 /\ got[c] \cap Recorder = {}
      <3>1. Cardinality({p}) = 1
        BY FS_Singleton
      <3> QED
        BY <2>3, <3>1
    <2> QED
      BY <2>1, <2>2, <2>3
  <1>2. Init => OutcomeInv /\ ReaderInv
    BY OutcomeInvInit, ReaderInvInit
  <1>3. OutcomeInv /\ ReaderInv /\ [Next]_vars => OutcomeInv' /\ ReaderInv'
    BY OutcomeInvNext, ReaderInvNext
  <1> QED
    BY <1>1, <1>2, <1>3, PTL DEF Spec

=============================================================================
