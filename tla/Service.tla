-------------------------------- MODULE Service --------------------------------
(***************************************************************************)
(* A browser's request on its way: the extension, its native-messaging     *)
(* host (client/autofill.py), the daemon's connection (daemon/server.py),  *)
(* Registry.authorize with its pool of threads (daemon/sessions.py), and   *)
(* polkit's dialog (daemon/polkit.py), with locks, cancels, hang-ups, the  *)
(* switch in the window and restarts of the daemon in between.             *)
(*                                                                         *)
(* A request is a fill with a handle of this unlock; what the store does   *)
(* for it once the dialog is approved is in StoreHandlers, and is one step *)
(* here.  polkit, the bus and the person are external: a check whose call  *)
(* was sent shows a dialog, which ends when a person answers it, when a    *)
(* CancelCheckAuthorization for it comes after it is shown, or with        *)
(* polkitd, for which the bus sends an error of its own; what any client   *)
(* of the bus sends goes through dbus_safe.Router.  One user, the          *)
(* browser's bucket only.  Left out: malformed frames and lines, the state *)
(* events, and a polkitd that starts anew between the question who owns    *)
(* its name and the call.                                                  *)
(***************************************************************************)
EXTENDS Naturals, FiniteSets, Sequences

CONSTANTS
  Req,          \* the extension's requests
  None,         \* no request
  MaxConns,     \* bound: connections the host makes
  MaxHosts,     \* connections of a uid the daemon serves (MAX_AUTOFILL_CONNS)
  MaxPending,   \* requests the host lets wait
  MaxInflight,  \* requests of a connection the daemon lets run
  PoolSize,     \* threads of the prompt pool
  MaxRefused    \* refusals before the limit (PROMPT_ANSWERED_PER_MIN)

ASSUME ServiceAssumption ==
  /\ IsFiniteSet(Req) /\ None \notin Req
  /\ {MaxConns, MaxHosts, MaxPending, MaxInflight, PoolSize, MaxRefused} \subseteq Nat \ {0}

VARIABLES
  ext,       \* per request: "new", in the "pipe", "read" by the host
  answers,   \* per request: how many answers the extension got
  pipe,      \* the requests in the browser's pipe
  host,      \* the host: what it does, for whom, its last refusal, whether it may connect
  sock,      \* the host's connection, 0 for none
  waits,     \* Host.pending
  up, down,  \* what is on the way on that connection
  conn,      \* the daemon's side of each connection
  on,        \* autofill_enabled: in state.json and in the session
  loaded,    \* session_for: "no", "loading", "yes"
  open,      \* the uid is unlocked
  task,      \* the daemon's task of each request, and its check
  bucket,    \* Registry._pending: the request whose dialog is pending
  cancels,   \* the cancels in the pool's queue
  refusals,  \* Registry._answered: the refusals of the last minute
  history    \* approvals, fills, what was called off before, wrong "disabled" answers

hostVars   == <<ext, answers, pipe, host, sock, waits>>
checkVars  == <<task, bucket, cancels, refusals>>
daemonVars == <<conn, on, loaded, open>>
vars == <<hostVars, up, down, daemonVars, checkVars, history>>

Conns == 1..MaxConns
Used  == {c \in Conns : conn[c] # "unused"}
NoTask == [at |-> "none", conn |-> 0, off |-> FALSE, said |-> "nothing"]

TypeOK ==
  /\ ext \in [Req -> {"new", "pipe", "read"}]
  /\ answers \in [Req -> Nat]
  /\ pipe \in Seq(Req) /\ up \in Seq(Req)
  /\ host \in [at : {"idle", "connecting", "gone"}, cur : Req \cup {None},
               refused : {"no", "forbidden", "too-many", "connect"}, gap : BOOLEAN]
  /\ sock \in 0..MaxConns /\ waits \subseteq Req
  /\ conn \in [Conns -> {"unused", "hello", "load", "open", "closed", "detached", "released"}]
  /\ on \in [disk : BOOLEAN, mem : BOOLEAN]
  /\ loaded \in {"no", "loading", "yes"} /\ open \in BOOLEAN
  /\ task \in [Req -> [at : {"none", "queued", "calling", "shown", "lost", "back", "ended"},
                       conn : 0..MaxConns, off : BOOLEAN,
                       said : {"nothing", "yes", "no", "cancelled"}]]
  /\ bucket \in Req \cup {None} /\ cancels \subseteq Req
  /\ refusals \in 0..MaxRefused
  /\ bucket # None => task[bucket].at \in {"queued", "calling", "shown", "lost", "back"}

Init ==
  /\ ext = [r \in Req |-> "new"] /\ answers = [r \in Req |-> 0]
  /\ pipe = << >> /\ up = << >> /\ down = << >>
  /\ host = [at |-> "idle", cur |-> None, refused |-> "no", gap |-> FALSE]
  /\ sock = 0 /\ waits = {}
  /\ conn = [c \in Conns |-> "unused"]
  /\ \E b \in BOOLEAN : on = [disk |-> b, mem |-> FALSE]
  /\ loaded = "no" /\ open = FALSE
  /\ task = [r \in Req |-> NoTask]
  /\ bucket = None /\ cancels = {} /\ refusals = 0
  /\ history = [approved |-> {}, filled |-> {}, off |-> {}, wrong |-> FALSE]

-----------------------------------------------------------------------------
(* The extension and its host *)

ExtensionAsks(r) ==
  /\ host.at # "gone" /\ ext[r] = "new"
  /\ ext' = [ext EXCEPT ![r] = "pipe"]
  /\ pipe' = Append(pipe, r)
  /\ UNCHANGED <<answers, host, sock, waits, up, down, daemonVars, checkVars, history>>

Answer(S) == answers' = [r \in Req |-> IF r \in S THEN answers[r] + 1 ELSE answers[r]]

\* Host.send of an error the host makes itself.
HostAnswers(r) == Answer({r}) /\ UNCHANGED <<sock, waits, up, conn>>

Sends(r) ==
  /\ waits' = waits \cup {r}
  /\ up' = Append(up, r)
  /\ UNCHANGED answers

\* ensure_daemon connects at most once a second.
Connects(r) ==
  /\ host' = [host EXCEPT !.at = "connecting", !.cur = r, !.gap = TRUE]
  /\ \E c \in Conns \ Used : sock' = c /\ \A d \in Conns \ Used : c <= d
                             /\ conn' = [conn EXCEPT ![c] = "hello"]
  /\ UNCHANGED <<answers, waits, up>>

\* from_extension, for a well-formed fill.
FromExtension ==
  /\ host.at = "idle" /\ pipe # << >>
  /\ LET r == Head(pipe) IN
     /\ ext' = [ext EXCEPT ![r] = "read"]
     /\ pipe' = Tail(pipe)
     /\ \/ /\ Cardinality(waits) >= MaxPending \/ (sock = 0 /\ (host.gap \/ Used = Conns))
           /\ HostAnswers(r) /\ UNCHANGED host
        \/ /\ Cardinality(waits) < MaxPending /\ sock # 0
           /\ Sends(r) /\ UNCHANGED <<host, sock, conn>>
        \/ /\ Cardinality(waits) < MaxPending /\ sock = 0 /\ ~host.gap
           /\ Connects(r)
  /\ UNCHANGED <<down, on, loaded, open, checkVars, history>>

SecondPasses ==
  /\ host.gap /\ host.at = "idle" /\ sock = 0
  /\ host' = [host EXCEPT !.gap = FALSE]
  /\ UNCHANGED <<ext, answers, pipe, sock, waits, up, down, daemonVars, checkVars, history>>

\* connect_daemon reads the hello's answer.
Connected ==
  /\ host.at = "connecting" /\ down # << >> /\ Head(down).kind = "hello"
  /\ host' = [host EXCEPT !.at = "idle", !.cur = None, !.refused = "no"]
  /\ down' = Tail(down)
  /\ Sends(host.cur)
  /\ UNCHANGED <<ext, pipe, sock, daemonVars, checkVars, history>>

\* A refusal, the end of the connection, or no answer in time.  "disabled" is what the
\* extension is told when the refusal was "forbidden", and "too-many" is passed on
\* (_unreachable).
ConnectFails ==
  /\ host.at = "connecting"
  /\ \/ down # << >> /\ Head(down).kind \in {"forbidden", "too-many"}
     \/ down = << >> /\ conn[sock] # "open"
  /\ host' = [host EXCEPT !.at = "idle", !.cur = None,
                          !.refused = IF down = << >> THEN "connect" ELSE Head(down).kind]
  /\ Answer({host.cur})
  /\ down' = << >> /\ sock' = 0
  /\ UNCHANGED <<ext, pipe, waits, up, daemonVars, checkVars, history>>

\* from_daemon: a reply to a request that waits.
FromDaemon ==
  /\ host.at = "idle" /\ down # << >> /\ Head(down).kind = "reply"
  /\ down' = Tail(down)
  /\ LET r == Head(down).req IN
     /\ Answer(waits \cap {r})
     /\ waits' = waits \ {r}
  /\ UNCHANGED <<ext, pipe, host, sock, up, daemonVars, checkVars, history>>

\* Mutant: what waits is forgotten, not answered.
GoneSilently ==
  /\ waits' = {}
  /\ UNCHANGED answers

\* daemon_gone: everything that waits is answered.
GoneAnswers ==
  /\ Answer(waits)
  /\ waits' = {}

DaemonGone ==
  /\ host.at = "idle" /\ sock # 0 /\ down = << >>
  /\ conn[sock] \in {"closed", "detached", "released"}
  /\ GoneAnswers
  /\ sock' = 0 /\ up' = << >>
  /\ UNCHANGED <<ext, pipe, host, down, daemonVars, checkVars, history>>

\* The extension closes its port, or the browser ends.
PortCloses ==
  /\ host.at # "gone"
  /\ host' = [host EXCEPT !.at = "gone", !.cur = None]
  /\ UNCHANGED <<ext, answers, pipe, sock, waits, up, down, daemonVars, checkVars, history>>

-----------------------------------------------------------------------------
(* The daemon's connection *)

Reply(c, m) == down' = IF conn[c] = "open" /\ c = sock /\ host.at # "gone"
                       THEN Append(down, m) ELSE down

Closing(c) == conn' = [conn EXCEPT ![c] = "closed"]

\* session_for: the first hello reads the settings, one that comes meanwhile goes on with what
\* the session has.
HelloLoads(c) ==
  /\ conn[c] = "hello" /\ loaded = "no"
  /\ loaded' = "loading"
  /\ conn' = [conn EXCEPT ![c] = "load"]
  /\ UNCHANGED <<hostVars, up, down, on, open, checkVars, history>>

\* The window's hello loads them as well.
WindowLoads ==
  /\ loaded = "no" /\ loaded' = "loading"
  /\ UNCHANGED <<hostVars, up, down, conn, on, open, checkVars, history>>

Loaded ==
  /\ loaded = "loading"
  /\ loaded' = "yes"
  /\ on' = [on EXCEPT !.mem = on.disk]
  /\ conn' = [c \in Conns |-> IF conn[c] = "load" THEN "hello" ELSE conn[c]]
  /\ UNCHANGED <<hostVars, up, down, open, checkVars, history>>

Greets(c, kind) ==
  down' = IF c = sock THEN Append(down, [kind |-> kind, req |-> None]) ELSE down

\* Registry.connections: of another host, or one its host gave up whose end is yet unread.
Served == {c \in Conns : conn[c] = "open"}

\* _serve: the hello is answered and the connection attached; its loop begins.
HelloAccepted(c) ==
  /\ conn[c] = "hello" /\ loaded # "no" /\ on.mem /\ Cardinality(Served) < MaxHosts
  /\ conn' = [conn EXCEPT ![c] = "open"]
  /\ Greets(c, "hello")
  /\ UNCHANGED <<hostVars, up, on, loaded, open, checkVars, history>>

\* hello for the role autofill: switched off, or too many hosts.
HelloRefused(c) ==
  /\ conn[c] = "hello" /\ loaded # "no"
  /\ Closing(c)
  /\ \/ ~on.mem /\ Greets(c, "forbidden") /\ history' = [history EXCEPT !.wrong = @ \/ on.disk]
     \/ on.mem /\ Cardinality(Served) >= MaxHosts /\ Greets(c, "too-many") /\ UNCHANGED history
  /\ UNCHANGED <<hostVars, up, on, loaded, open, checkVars>>

Running(c) == {r \in Req : task[r].conn = c /\ task[r].at \notin {"none", "ended"}}

\* Mutant: the pidfd is closed with the connection.
ReleasedAtOnce(c, left) == [conn EXCEPT ![c] = "released"]

\* release_pidfd: once the last task of the connection is done.
Released(c, left) == [conn EXCEPT ![c] = IF left = {} THEN "released" ELSE "detached"]

\* Registry._cancel.
CallOff(S) ==
  /\ task' = [r \in Req |-> IF r \in S THEN [task[r] EXCEPT !.off = TRUE] ELSE task[r]]
  /\ cancels' = cancels \cup S
  /\ bucket' = IF bucket \in S THEN None ELSE bucket
  /\ history' = [history EXCEPT !.off = @ \cup S]

PendingOf(S) == {bucket} \cap S

\* The loop reads the end of the connection, or it was closed here; detach.
Detach(c) ==
  /\ \/ conn[c] = "closed"
     \/ conn[c] = "open" /\ (c # sock \/ (host.at = "gone" /\ up = << >>))
  /\ conn' = Released(c, Running(c))
  /\ CallOff(PendingOf(Running(c)))
  /\ UNCHANGED <<hostVars, up, down, on, loaded, open, refusals>>

Replied(r) == [kind |-> "reply", req |-> r]

\* _require_enabled and _open_session, for what the handler asks first.
Shut == ~on.mem \/ ~open

\* A full connection, a fill that is shut out, a dialog pending, too many refusals.
Refuses(c) ==
  \/ Shut \/ bucket # None
  \/ Cardinality(Running(c)) >= MaxInflight \/ refusals >= MaxRefused

\* Server._loop takes a line and makes its task; authorize hands the check to the pool.
Reads(c) ==
  /\ conn[c] = "open" /\ c = sock /\ up # << >>
  /\ up' = Tail(up)
  /\ LET r == Head(up) IN
     \/ /\ Refuses(c)
        /\ Reply(c, Replied(r))
        /\ UNCHANGED <<task, bucket>>
     \/ /\ ~Refuses(c)
        /\ task' = [task EXCEPT ![r] = [NoTask EXCEPT !.at = "queued", !.conn = c]]
        /\ bucket' = r
        /\ UNCHANGED down
  /\ UNCHANGED <<hostVars, daemonVars, cancels, refusals, history>>

-----------------------------------------------------------------------------
(* The pool and polkit *)

\* Router._pending: the calls that wait for their reply; "lost" when none will come.
Pending == {r \in Req : task[r].at \in {"shown", "lost"}}

Busy == Pending \cup {r \in Req : task[r].at = "calling"}
Free == Cardinality(Busy) < PoolSize

CheckStarts(r) ==
  /\ task[r].at = "queued" /\ Free
  /\ task' = [task EXCEPT ![r].at = "calling"]
  /\ UNCHANGED <<hostVars, up, down, daemonVars, bucket, cancels, refusals, history>>

\* The call goes out with the pidfd: a dialog, or polkit has nobody to show it to.
CheckCalls(r) ==
  /\ task[r].at = "calling"
  /\ \/ task' = [task EXCEPT ![r].at = "shown"]
     \/ task' = [task EXCEPT ![r].at = "back", ![r].said = "cancelled"]
  /\ UNCHANGED <<hostVars, up, down, daemonVars, bucket, cancels, refusals, history>>

\* What may come with the serial of a call, "odd" if it cannot be parsed.
Message == [type : {"return", "error", "signal", "odd"},
            sender : {"polkitd", "bus", "other"}, says : {"yes", "no"}]

\* Mutant: whatever has the serial is the reply.
IsReplyBySerial(m) == m.type # "odd"

\* Router._dispatch: a return or an error, from who owned the name when the call was sent.
IsReply(m) == m.type \in {"return", "error"} /\ m.sender = "polkitd"

\* classify, and a check that failed.
Classified(m) == IF m.type = "return" THEN m.says ELSE "cancelled"

Answered(t, m) == IF IsReply(m) THEN [t EXCEPT !.at = "back", !.said = Classified(m)] ELSE t

\* The person answers, or another client of the bus sends something.
Delivers(r, m) ==
  /\ task[r].at = "shown" /\ m.sender # "bus"
  /\ task' = [task EXCEPT ![r] = Answered(@, m)]
  /\ history' = IF m = [type |-> "return", sender |-> "polkitd", says |-> "yes"]
                THEN [history EXCEPT !.approved = @ \cup {r}] ELSE history
  /\ UNCHANGED <<hostVars, up, down, daemonVars, bucket, cancels, refusals>>

NoReply == [type |-> "error", sender |-> "bus", says |-> "no"]

\* polkitd ends and is started again: the bus answers for it.
PolkitdDies ==
  /\ \E r \in Req : task[r].at = "shown"
  /\ task' = [r \in Req |-> IF task[r].at = "shown"
                            THEN Answered([task[r] EXCEPT !.at = "lost"], NoReply) ELSE task[r]]
  /\ UNCHANGED <<hostVars, up, down, daemonVars, bucket, cancels, refusals, history>>

\* Authority.cancel: it takes a thread too, and ends only a dialog polkit already has.
CancelCall(r) ==
  /\ r \in cancels /\ Free
  /\ cancels' = cancels \ {r}
  /\ task' = IF task[r].at = "shown"
             THEN [task EXCEPT ![r].at = "back", ![r].said = "cancelled"] ELSE task
  /\ UNCHANGED <<hostVars, up, down, daemonVars, bucket, refusals, history>>

\* Router._receiver ends: so does every call that waits, with RouterClosed.
Closed(r) ==
  IF r \in Pending THEN [task[r] EXCEPT !.at = "back", !.said = "cancelled"] ELSE task[r]

\* A call on the shared bus connection fails, a cancel that times out for one, and closes it;
\* polkit takes the dialogs down.
BusCloses ==
  /\ Pending # {}
  /\ task' = [r \in Req |-> Closed(r)]
  /\ UNCHANGED <<hostVars, up, down, daemonVars, bucket, cancels, refusals, history>>

\* authorize: a cancel wins over the answer, and nobody uses an approval for a closed connection.
Outcome(r) ==
  IF task[r].off \/ (task[r].said = "yes" /\ conn[task[r].conn] # "open")
  THEN "cancelled" ELSE task[r].said

\* The task goes on, fills if the uid is still unlocked, and ends with a reply.
Resumes(r) ==
  /\ task[r].at = "back"
  /\ task' = [task EXCEPT ![r].at = "ended"]
  /\ bucket' = IF bucket = r THEN None ELSE bucket
  /\ refusals' = IF Outcome(r) = "no" /\ refusals < MaxRefused THEN refusals + 1 ELSE refusals
  /\ history' = IF Outcome(r) = "yes" /\ open
                THEN [history EXCEPT !.filled = @ \cup {r}] ELSE history
  /\ LET c == task[r].conn IN
     /\ Reply(c, Replied(r))
     /\ conn' = IF conn[c] = "detached" THEN Released(c, Running(c) \ {r}) ELSE conn
  /\ UNCHANGED <<hostVars, up, on, loaded, open, cancels>>

MinutePasses ==
  /\ refusals > 0 /\ refusals' = 0
  /\ UNCHANGED <<hostVars, up, down, daemonVars, task, bucket, cancels, history>>

-----------------------------------------------------------------------------
(* The window, locks, restarts *)

Unlock ==
  /\ loaded = "yes" /\ ~open /\ open' = TRUE
  /\ UNCHANGED <<hostVars, up, down, conn, on, loaded, checkVars, history>>

\* Registry.lock: the pending dialog is cancelled.
Lock ==
  /\ open /\ open' = FALSE
  /\ CallOff(PendingOf(Req))
  /\ UNCHANGED <<hostVars, up, down, conn, on, loaded, refusals>>

\* op_autofill_enable, off: every host is disconnected.
TurnsOff ==
  /\ loaded = "yes" /\ on.mem
  /\ on' = [disk |-> FALSE, mem |-> FALSE]
  /\ conn' = [c \in Conns |-> IF conn[c] = "open" THEN "closed" ELSE conn[c]]
  /\ UNCHANGED <<hostVars, up, down, loaded, open, checkVars, history>>

TurnsOn ==
  /\ loaded = "yes" /\ ~on.mem
  /\ on' = [disk |-> TRUE, mem |-> TRUE]
  /\ UNCHANGED <<hostVars, up, down, conn, loaded, open, checkVars, history>>

\* The daemon ends; polkit takes down the dialogs of a caller that is gone.
Restart ==
  /\ loaded # "no"
  /\ loaded' = "no" /\ open' = FALSE
  /\ on' = [on EXCEPT !.mem = FALSE]
  /\ conn' = [c \in Conns |-> IF conn[c] = "unused" THEN "unused" ELSE "released"]
  /\ task' = [r \in Req |-> IF task[r].at = "none" THEN NoTask
                            ELSE [task[r] EXCEPT !.at = "ended"]]
  /\ bucket' = None /\ cancels' = {} /\ refusals' = 0
  /\ UNCHANGED <<hostVars, up, down, history>>

-----------------------------------------------------------------------------

HostSteps == FromExtension \/ Connected \/ ConnectFails \/ FromDaemon \/ DaemonGone

ConnSteps(c) == HelloLoads(c) \/ HelloAccepted(c) \/ HelloRefused(c) \/ Detach(c) \/ Reads(c)

CheckSteps(r) == CheckStarts(r) \/ CheckCalls(r) \/ CancelCall(r) \/ Resumes(r)

Next ==
  \/ \E r \in Req : ExtensionAsks(r) \/ CheckSteps(r) \/ \E m \in Message : Delivers(r, m)
  \/ HostSteps \/ SecondPasses \/ PortCloses
  \/ \E c \in Conns : ConnSteps(c)
  \/ WindowLoads \/ Loaded \/ Unlock \/ Lock \/ TurnsOff \/ TurnsOn
  \/ PolkitdDies \/ BusCloses \/ MinutePasses \/ Restart

\* Processes and threads that can go on do; nobody need answer a dialog, ask, lock or switch.
Fairness ==
  /\ WF_vars(HostSteps) /\ WF_vars(Loaded)
  /\ \A c \in Conns : WF_vars(ConnSteps(c))
  /\ \A r \in Req : WF_vars(CheckSteps(r))

Spec == Init /\ [][Next]_vars /\ Fairness

-----------------------------------------------------------------------------
(* Properties *)

Promise == INSTANCE Fills WITH
  asked    <- {r \in Req : ext[r] # "new"},
  approved <- history.approved,
  off      <- history.off,
  filled   <- history.filled

\* All of this implements Fills: one answer to a request, not one from the daemon's reply and
\* another from daemon_gone or from a second loss of the daemon (Host.pending); and a fill only
\* for a dialog the person approved, not for what another client of the bus sent (Router), and
\* never for one that a lock or a hang-up called off before, even when the answer crosses the
\* cancel (authorize).
KeepsPromise == Promise!Spec

\* A check that has yet to hand the connection's pidfd to polkit finds it open: its number can
\* not have become another file's (Conn.release_pidfd).
PidfdLives ==
  \A r \in Req : task[r].at \in {"queued", "calling"} => conn[task[r].conn] # "released"

\* Every request the host read gets an answer, unless the browser goes, a dialog is on the
\* screen or polkitd ended under one: no loss of the daemon, refusal, full pool or limit leaves
\* the page waiting.
AnswerComes ==
  \A r \in Req : ext[r] = "read" ~> (answers[r] > 0 \/ host.at = "gone" \/ Pending # {})

\* docs/protocol.md: "polkitd/the bus unreachable" is "no-agent".  A dialog that goes with its
\* polkitd is an answer too: its check ends.
LossIsNoticed == \A r \in Req : task[r].at = "lost" ~> task[r].at # "lost"

\* docs/autofill-protocol.md: "disabled" means autofill is switched off in the window.
DisabledIsTrue == ~history.wrong

=============================================================================
