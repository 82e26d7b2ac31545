--------------------------------- MODULE Clip ---------------------------------
(***************************************************************************)
(* The clip process (client/clip.py): it redeems one copy ticket, puts the *)
(* value on the Wayland clipboard for one paste, and takes it away.  One   *)
(* process per copy, started by the window; the daemon's side is Grants.   *)
(*                                                                         *)
(* The compositor is external: a request to paste goes to the source that  *)
(* is the selection, one at a time, and a source that is replaced hears of *)
(* it some time later.  Offer.identify sees the processes that hold the    *)
(* request's pipe, not the program the value is for; it is one step, and   *)
(* processes do not end during it.  READER_POLICY is "proc", as released.  *)
(* The hint MIME type is always answered and changes nothing.              *)
(***************************************************************************)
EXTENDS Grants

CONSTANTS
  Program,   \* what asks for the clipboard
  Recorder,  \* the programs among them that record every copy, where nobody pastes
  Holders,   \* the processes that have an end of the pipe of each one's request open
  ReadEnd,   \* those that have the read end
  Opaque,    \* processes whose /proc/<pid>/fd cannot be listed
  Parent,    \* the parent of each process
  Known,     \* the processes whose command line is_watcher_argv() knows
  Bridge,    \* the compositor, which reads for X11 programs
  NoCopy

ASSUME ProgramAssumption ==
  /\ Recorder \subseteq Program
  /\ \A p \in Program : ReadEnd[p] # {} /\ ReadEnd[p] \subseteq Holders[p]
  /\ \A p \in Program : Holders[p] \subseteq DOMAIN Parent
  /\ Bridge \notin Known
  /\ NoCopy \notin Copy

VARIABLES
  proc,       \* per copy: where its process is, see Stages
  selection,  \* the copy whose source is the selection, NoCopy for any other
  ask,        \* per copy: the program whose request it has not seen, {} for none
  paste,      \* Offer.paste_holders; {} before the paste
  late,       \* the clock passed next_wakeup(): the timeout, or the grace of a paste
  outcome,    \* Offer.outcome
  got         \* history: per copy, the programs the value was written for

offerVars == <<selection, ask, paste, late, outcome, got>>
vars == <<daemonVars, proc, offerVars>>

\* "value": it has the value and no offer yet; "serving": in the loop of serve(); "over":
\* the source is destroyed and the process has not exited.
Stages == {"none", "hello", "value", "serving", "over"}

Outcomes == {"none", "pasted", "expired", "replaced", "withdrawn", "failed"}

TypeOK ==
  /\ DaemonTypeOK
  /\ proc \in [Copy -> Stages]
  /\ selection \in {c \in Copy : proc[c] = "serving"} \cup {NoCopy}
  /\ ask \in [Copy -> SUBSET Program]
  /\ late \subseteq Copy
  /\ paste \in [Copy -> SUBSET DOMAIN Parent]
  /\ outcome \in [Copy -> Outcomes]
  /\ got \in [Copy -> SUBSET Program]

Init ==
  /\ DaemonInit
  /\ proc = [c \in Copy |-> "none"]
  /\ selection = NoCopy
  /\ ask = [c \in Copy |-> {}]
  /\ late = {}
  /\ paste = [c \in Copy |-> {}]
  /\ outcome = [c \in Copy |-> "none"]
  /\ got = [c \in Copy |-> {}]

-----------------------------------------------------------------------------
(* From the ticket to the offer: run() *)

\* Channel.hello(): a refused ticket ends the process.
Start(c) ==
  /\ proc[c] = "none" /\ \E t \in tickets : t.copy = c
  /\ HelloClip(c, TRUE)
  /\ proc' = [proc EXCEPT ![c] = IF cconn'[c] = "on" THEN "hello" ELSE "none"]
  /\ UNCHANGED offerVars

\* request("redeem") and op_redeem, which hands the value out once.
Redeem(c) ==
  /\ proc[c] = "hello"
  /\ IF cconn[c] = "on"
       THEN /\ cconn' = [cconn EXCEPT ![c] = "redeemed"]
            /\ proc' = [proc EXCEPT ![c] = "value"]
       ELSE /\ cconn' = [cconn EXCEPT ![c] = "none"]
            /\ proc' = [proc EXCEPT ![c] = "none"]
  /\ UNCHANGED <<sessVars, grantVars, taskVars, fresh, latest, mine, tickets, asked, offerVars>>

\* DataControl.offer(): the source becomes the selection.
TakeSelection(c) ==
  /\ proc[c] = "value"
  /\ proc' = [proc EXCEPT ![c] = "serving"]
  /\ selection' = c
  /\ UNCHANGED <<daemonVars, ask, paste, late, outcome, got>>

\* The compositor cannot be reached, or has no data-control protocol.
OfferFails(c) ==
  /\ proc[c] = "value"
  /\ proc' = [proc EXCEPT ![c] = "over"]
  /\ outcome' = [outcome EXCEPT ![c] = "failed"]
  /\ UNCHANGED <<daemonVars, selection, ask, paste, late, got>>

-----------------------------------------------------------------------------
(* The compositor *)

\* Another program copies something.
OtherCopies ==
  /\ selection # NoCopy
  /\ selection' = NoCopy
  /\ UNCHANGED <<daemonVars, proc, ask, paste, late, outcome, got>>

AskToPaste(p) ==
  /\ selection # NoCopy /\ ask[selection] = {}
  /\ ask' = [ask EXCEPT ![selection] = {p}]
  /\ UNCHANGED <<daemonVars, proc, selection, paste, late, outcome, got>>

-----------------------------------------------------------------------------
(* The loop of serve() *)

MAX_ANCESTRY == 4

Line(q) ==
  LET up[n \in 0..MAX_ANCESTRY] ==
        IF n = 0 THEN q
        ELSE IF up[n - 1] \in DOMAIN Parent THEN Parent[up[n - 1]] ELSE up[n - 1]
  IN  {up[n] : n \in 0..MAX_ANCESTRY}

\* is_watcher(): a watcher, or descended from one.
IsWatcher(q) == Line(q) \cap Known # {}

\* The scan of /proc leaves out the compositor, which holds the write end of every request.
PipeHolders(p) == Holders[p] \ ({Bridge} \cup Opaque)

HoldsReadEnd(p) == {Bridge} \cap ReadEnd[p]

\* identify()
Readers(p) == PipeHolders(p) \cup HoldsReadEnd(p)

OnlyWatchers(R) == \A q \in R : q # Bridge /\ IsWatcher(q)

\* Mutant of ReServes: the bridge may ask again too.
ReServesBridge(c, R) == R = paste[c] /\ c \notin late

\* Only the paste that already happened may ask again, only briefly, and never the bridge.
ReServes(c, R) == R = paste[c] /\ Bridge \notin R /\ c \notin late

\* Whether the value is written at all: never for a pipe nobody is seen to hold.
Serves(c, R) ==
  /\ R # {}
  /\ IF paste[c] # {} THEN ReServes(c, R) ELSE ~OnlyWatchers(R)

\* _write_all: nothing of the value, for a reader that is gone or never reads, a part of it
\* before the deadline, or all of it.
WriteAll == {"nothing", "part", "all"}

\* Any byte that reached the pipe is the paste.
IsPaste(written) == written # "nothing"

\* Offer.on_send()
OnSend(c) ==
  /\ proc[c] = "serving" /\ ask[c] # {}
  /\ ask' = [ask EXCEPT ![c] = {}]
  /\ \E p \in ask[c], written \in WriteAll :
       LET served == Serves(c, Readers(p))
           pasted == served /\ paste[c] = {} /\ IsPaste(written)
       IN /\ got' = IF served /\ written # "nothing"
                    THEN [got EXCEPT ![c] = @ \cup {p}] ELSE got
          /\ paste' = IF pasted THEN [paste EXCEPT ![c] = Readers(p)] ELSE paste
          /\ late' = IF pasted THEN late \ {c} ELSE late
  /\ UNCHANGED <<daemonVars, proc, selection, outcome>>

TimePasses(c) ==
  /\ proc[c] = "serving" /\ c \notin late
  /\ late' = late \cup {c}
  /\ UNCHANGED <<daemonVars, proc, selection, ask, paste, outcome, got>>

\* The offer is over with outcome o: destroy_source(), which clears the clipboard only if
\* this source is still the selection.
Over(c, o) ==
  /\ proc[c] = "serving"
  /\ proc' = [proc EXCEPT ![c] = "over"]
  /\ outcome' = [outcome EXCEPT ![c] = o]
  /\ selection' = IF selection = c THEN NoCopy ELSE selection
  /\ ask' = [ask EXCEPT ![c] = {}]
  /\ paste' = [paste EXCEPT ![c] = {}]
  /\ late' = late \ {c}
  /\ UNCHANGED <<daemonVars, got>>

\* Mutant of PastedOr: the outcome is the reason it ended.
ReasonOnly(c, o) == o

PastedOr(c, o) == IF paste[c] # {} THEN "pasted" ELSE o

\* Mutant of Ends: an offer that was pasted is left up.
EndsUnpasted(c) == c \in late /\ paste[c] = {}

\* Offer.tick()
Ends(c) == c \in late

Tick(c)        == Ends(c) /\ Over(c, PastedOr(c, "expired"))
OnCancelled(c) == selection # c /\ Over(c, PastedOr(c, "replaced"))
OnWithdraw(c)  == cconn[c] = "shut" /\ Over(c, PastedOr(c, "withdrawn"))

\* The compositor's connection breaks.
CompositorGone(c) == Over(c, PastedOr(c, "failed"))

\* The seat goes away, or the sync behind the offer is not answered in OFFER_CONFIRM_S:
\* "failed", even after a paste.
SeatGoes(c) == Over(c, "failed")

\* clip-result: op_clip_result takes one, of a connection that redeemed.
Report(c) ==
  /\ proc[c] = "over" /\ cconn[c] = "redeemed"
  /\ cconn' = [cconn EXCEPT ![c] = "result"]
  /\ UNCHANGED <<sessVars, grantVars, taskVars, fresh, latest, mine, tickets, asked,
                 proc, offerVars>>

\* The process exits; nothing of the copy is left.
Exit(c) ==
  /\ proc[c] = "over" /\ cconn[c] # "redeemed"
  /\ proc' = [proc EXCEPT ![c] = "none"]
  /\ cconn' = [cconn EXCEPT ![c] = "none"]
  /\ outcome' = [outcome EXCEPT ![c] = "none"]
  /\ got' = [got EXCEPT ![c] = {}]
  /\ UNCHANGED <<sessVars, grantVars, taskVars, fresh, latest, mine, tickets, asked,
                 selection, ask, paste, late>>

-----------------------------------------------------------------------------
(* Specification *)

Daemon ==
  \/ LockTrigger \/ GrantComesDue \/ GrantTimeout
  \/ \E w \in Window : \/ HelloWindow(w) \/ Unlock(w) \/ Close(w) \/ Detach(w)
                       \/ Release(w) \/ ExpiredOp(w)
                       \/ \E i \in Id : Reveal(w, i) \/ CopySecret(w, i)
                       \/ \E f \in {"edit", "create"} : CopyText(w, f)
                       \/ \E t \in Task, i \in Id :
                            \/ GrantStarts(w, t, i) \/ HistoryStarts(w, t, i) \/ CopyStarts(w, t, i)
                            \/ SetStarts(w, t, i) \/ DeleteStarts(w, t, i)
  \/ \E t \in Task : \/ StoreReturns(t) \/ GrantOpens(t) \/ GrantPut(t) \/ GrantRefused(t)
                     \/ HistoryEnds(t) \/ CopyEnds(t)
                     \/ SetPushes(t) \/ SetRefused(t) \/ SetEnds(t) \/ DeleteEnds(t)
  \/ \E c \in Copy : TicketAges(c) \/ StrayHello(c)

Loop(c) ==
  \/ OnSend(c) \/ Tick(c) \/ OnCancelled(c) \/ OnWithdraw(c)
  \/ CompositorGone(c) \/ SeatGoes(c)

Process(c) ==
  \/ Start(c) \/ Redeem(c) \/ TakeSelection(c) \/ OfferFails(c) \/ Loop(c)
  \/ Report(c) \/ Exit(c)

Compositor == OtherCopies \/ \E p \in Program : AskToPaste(p)

Next ==
  \/ Daemon /\ UNCHANGED <<proc, offerVars>>
  \/ Compositor
  \/ \E c \in Copy : Process(c) \/ TimePasses(c)

\* The loop of serve() runs whatever is ready, and wakes up at next_wakeup().  Nothing is
\* assumed of the daemon, the user, the compositor or the programs that paste.
Fairness == \A c \in Copy : WF_vars(Tick(c)) /\ WF_vars(TimePasses(c))

Spec == Init /\ [][Next]_vars /\ Fairness

-----------------------------------------------------------------------------
(* Two premises about the desktop, for OnePaste *)

\* No two programs share all that is seen to read for them, unless the bridge reads for both.
OneProgramEach ==
  \A p, q \in Program :
    Readers(p) = Readers(q) /\ Readers(p) # {} /\ Bridge \notin Readers(p) => p = q

\* A recorder reads through processes that is_watcher() knows, never through the bridge.
RecordersAreKnown ==
  \A p \in Recorder : \A q \in Readers(p) : q # Bridge /\ IsWatcher(q)

-----------------------------------------------------------------------------
(* Properties *)

Live(c) == cconn[c] \in {"on", "redeemed"}

\* With no window unlocked there is nothing left to read a secret with: no grant, no ticket
\* and no clip connection the daemon would still answer, whatever order locks, hang-ups, late
\* detaches and slow store calls come in.  (Registry.lock, _still, TicketBook.redeem.)
SecretsOnlyWhileOpen ==
  tier1 = NoConn => grant = NoGrant /\ tickets = {} /\ \A c \in Copy : ~Live(c)

\* At most one copy is on its way: a ticket nobody has redeemed, or a clip connection.  (The
\* revoke and withdraw before every TicketBook.issue, and the ticket a hello consumes.)
OneOffer ==
  Cardinality({t.copy : t \in tickets} \cup {c \in Copy : Live(c)}) <= 1

\* A grant is only ever put for the entry the window asked for last and has not released,
\* although two op_grant calls may overtake each other in the store.  (Session.grant_serial.)
LatestGrantWins ==
  [][grant' # grant /\ grant' # NoGrant => grant'.id = asked]_vars

\* A copied value, or a part of it, reaches one program only, and not one that records the
\* clipboard, although every X11 program's request comes from the same process, the compositor
\* is on every pipe and a recorder reads through its children.  (Offer.on_send with its grace
\* time, make_identifier.)
OnePaste ==
  \A c \in Copy : Cardinality(got[c]) <= 1 /\ got[c] \cap Recorder = {}

\* What the window is told of a copy is so: "pasted" if and only if somebody got the value,
\* but for a seat that went away.  (Offer.outcome.)
OutcomeIsTrue ==
  \A c \in Copy : /\ outcome[c] = "pasted" => got[c] # {}
                  /\ outcome[c] \in {"expired", "replaced", "withdrawn"} => got[c] = {}

\* Whatever is put on the clipboard leaves it: after the timeout, or soon after its paste.
OffersEnd == \A c \in Copy : selection = c ~> selection # c

\* handlers.py:722: "One offer at a time: a new copy withdraws the previous one."  A copy that
\* was withdrawn never takes the clipboard.
WithdrawnStaysOff ==
  [][\A c \in Copy : selection' = c /\ selection # c => cconn[c] # "shut"]_vars

=============================================================================
