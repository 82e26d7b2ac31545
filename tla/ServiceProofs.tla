----------------------------- MODULE ServiceProofs -----------------------------
(***************************************************************************)
(* The theorems on Service, for any requests and any limits: the pidfd of  *)
(* a check under way is open, and the extension's host, the daemon and     *)
(* polkit together implement Fills.                                        *)
(*                                                                         *)
(* The invariant has a part for the host and one for the daemon.  Line     *)
(* says that a request is in one place on its way - the browser's pipe,    *)
(* the connection being made, the line to the daemon, a task - and has no  *)
(* answer before the host lets it go; that is why no two of its replies    *)
(* count.  Held says what a task under way has: its connection's pidfd,    *)
(* the cancel that came, and an approval if it was told yes.               *)
(***************************************************************************)
EXTENDS Service, TLAPS

Hosts == [at : {"idle", "connecting", "gone"}, cur : Req \cup {None},
          refused : {"no", "forbidden", "too-many", "connect"}, gap : BOOLEAN]
Ends == {"unused", "hello", "load", "open", "closed", "detached", "released"}
Tasks == [at : {"none", "queued", "calling", "shown", "lost", "back", "ended"},
          conn : 0..MaxConns, off : BOOLEAN, said : {"nothing", "yes", "no", "cancelled"}]
Histories == [approved : SUBSET Req, filled : SUBSET Req, off : SUBSET Req, wrong : BOOLEAN]

Active(r) == task[r].at \in {"queued", "calling", "shown", "lost", "back"}

(* TypeOK, the history, and whom the host connects for. *)
Types ==
  /\ TypeOK /\ history \in Histories
  /\ host.cur # None <=> host.at = "connecting"

In(r, s) == \E i \in 1..Len(s) : s[i] = r
Once(s)  == \A i, j \in 1..Len(s) : s[i] = s[j] => i = j

(* A request is in one place on its way to the daemon, and unanswered until *)
(* the host has let it go.                                                 *)
Line(r) ==
  /\ ext[r] \in {"new", "pipe"} => /\ answers[r] = 0 /\ r \notin waits /\ r # host.cur
                                   /\ ~In(r, up) /\ task[r].at = "none"
  /\ In(r, pipe) => ext[r] = "pipe"
  /\ r \in waits \cup {host.cur} => answers[r] = 0
  /\ r = host.cur => r \notin waits /\ ~In(r, up) /\ task[r].at = "none"
  /\ In(r, up) => task[r].at = "none"

(* What a task under way holds: the pidfd of its connection, a cancel that  *)
(* came, and an approval if it was told yes.                               *)
Held(r) ==
  /\ Active(r) => /\ task[r].conn \in Conns
                  /\ conn[task[r].conn] \notin {"unused", "released"}
                  /\ r \notin history.filled
                  /\ r \in history.off => task[r].off
                  /\ task[r].said = "yes" => r \in history.approved
  /\ task[r].at = "none" => r \notin history.off \cup history.filled

Inv ==
  /\ Types /\ Once(pipe) /\ Once(up)
  /\ \A r \in Req : Line(r) /\ Held(r)

-----------------------------------------------------------------------------
(* Types *)

LEMMA TypeInit == Init => Types
<1>1. 0 \in 0..MaxConns /\ 0 \in 0..MaxRefused /\ None \notin Req
  BY ServiceAssumption
<1>2. NoTask \in Tasks
  BY <1>1 DEF NoTask, Tasks
<1>3. Init => task \in [Req -> Tasks]
  BY <1>2 DEF Init
<1>4. Init => /\ host \in Hosts /\ history \in Histories
              /\ host.cur # None <=> host.at = "connecting"
  BY DEF Init, Hosts, Histories
<1>5. Init => /\ ext \in [Req -> {"new", "pipe", "read"}] /\ answers \in [Req -> Nat]
              /\ pipe \in Seq(Req) /\ up \in Seq(Req) /\ waits \subseteq Req
              /\ conn \in [Conns -> Ends] /\ on \in [disk : BOOLEAN, mem : BOOLEAN]
  BY DEF Init, Ends
<1>6. Init => bucket = None
  BY DEF Init
<1> QED BY <1>1, <1>3, <1>4, <1>5, <1>6 DEF Init, Types, TypeOK, Hosts, Tasks, Ends

(* The host's steps leave the tasks and, but for a new one, the connections. *)
LEMMA HostTypes ==
  ASSUME Types,
         \/ \E r \in Req : ExtensionAsks(r)
         \/ FromExtension \/ Connected \/ ConnectFails \/ FromDaemon \/ DaemonGone
         \/ SecondPasses \/ PortCloses
  PROVE  Types'
<1>. DEFINE Front == /\ ext \in [Req -> {"new", "pipe", "read"}] /\ answers \in [Req -> Nat]
                     /\ pipe \in Seq(Req) /\ up \in Seq(Req) /\ host \in Hosts
                     /\ sock \in 0..MaxConns /\ waits \subseteq Req /\ conn \in [Conns -> Ends]
                     /\ host.cur # None <=> host.at = "connecting"
<1>1. Front
  BY DEF Types, TypeOK, Hosts, Ends
<1>. SUFFICES Front'
  <2>1. UNCHANGED <<on, loaded, open, checkVars, history>>
    BY DEF ExtensionAsks, FromExtension, Connected, ConnectFails, FromDaemon, DaemonGone,
           SecondPasses, PortCloses, daemonVars
  <2> QED BY <2>1 DEF Types, TypeOK, Hosts, Ends, checkVars
<1>2. ASSUME NEW S, Answer(S) PROVE answers' \in [Req -> Nat]
  BY <1>1, <1>2 DEF Answer
<1>3. ASSUME NEW r \in Req, ExtensionAsks(r) PROVE Front'
  BY <1>1, <1>3 DEF ExtensionAsks, daemonVars
<1>4. CASE FromExtension
  <2>. DEFINE r == Head(pipe)
  <2>1. r \in Req /\ Tail(pipe) \in Seq(Req) /\ Append(up, r) \in Seq(Req)
    BY <1>1, <1>4 DEF FromExtension
  <2>2. /\ ext' = [ext EXCEPT ![r] = "read"] /\ pipe' = Tail(pipe)
        /\ \/ Answer({r}) /\ UNCHANGED <<host, sock, waits, up, conn>>
           \/ waits' = waits \cup {r} /\ up' = Append(up, r) /\ UNCHANGED <<answers, host, sock, conn>>
           \/ /\ host' = [host EXCEPT !.at = "connecting", !.cur = r, !.gap = TRUE]
              /\ \E c \in Conns \ Used : sock' = c /\ conn' = [conn EXCEPT ![c] = "hello"]
              /\ UNCHANGED <<answers, waits, up>>
    BY <1>4 DEF FromExtension, HostAnswers, Sends, Connects
  <2>3. r # None
    BY <2>1, ServiceAssumption
  <2>. HIDE DEF r
  <2>4. CASE Answer({r}) /\ UNCHANGED <<host, sock, waits, up, conn>>
    BY <1>1, <1>2, <2>1, <2>2, <2>4
  <2>5. CASE waits' = waits \cup {r} /\ up' = Append(up, r) /\ UNCHANGED <<answers, host, sock, conn>>
    BY <1>1, <2>1, <2>2, <2>5
  <2>6. CASE /\ host' = [host EXCEPT !.at = "connecting", !.cur = r, !.gap = TRUE]
             /\ \E c \in Conns \ Used : sock' = c /\ conn' = [conn EXCEPT ![c] = "hello"]
             /\ UNCHANGED <<answers, waits, up>>
    <3>1. host' \in Hosts /\ host'.cur = r /\ host'.at = "connecting"
      BY <1>1, <2>1, <2>6 DEF Hosts
    <3>2. sock' \in 0..MaxConns /\ conn' \in [Conns -> Ends]
      BY <1>1, <2>6 DEF Conns, Ends
    <3> QED BY <1>1, <2>1, <2>2, <2>3, <2>6, <3>1, <3>2
  <2> QED BY <2>2, <2>4, <2>5, <2>6
<1>5. CASE Connected
  <2>1. host.cur \in Req
    BY <1>1, <1>5 DEF Connected, Hosts
  <2>2. /\ host' = [host EXCEPT !.at = "idle", !.cur = None, !.refused = "no"]
        /\ waits' = waits \cup {host.cur} /\ up' = Append(up, host.cur)
        /\ UNCHANGED <<ext, answers, pipe, sock, conn>>
    BY <1>5 DEF Connected, Sends, daemonVars
  <2>3. host' \in Hosts /\ host'.cur = None /\ host'.at = "idle"
    BY <1>1, <2>2 DEF Hosts
  <2> QED BY <1>1, <2>1, <2>2, <2>3
<1>6. CASE ConnectFails
  <2>1. /\ \E k \in {"connect", "forbidden", "too-many"} :
             host' = [host EXCEPT !.at = "idle", !.cur = None, !.refused = k]
        /\ Answer({host.cur}) /\ sock' = 0 /\ UNCHANGED <<ext, pipe, waits, up, conn>>
    BY <1>6 DEF ConnectFails, daemonVars
  <2>2. host' \in Hosts /\ host'.cur = None /\ host'.at = "idle"
    BY <1>1, <2>1 DEF Hosts
  <2>3. 0 \in 0..MaxConns
    BY ServiceAssumption
  <2> QED BY <1>1, <1>2, <2>1, <2>2, <2>3
<1>7. CASE FromDaemon
  BY <1>1, <1>2, <1>7 DEF FromDaemon, daemonVars
<1>8. CASE DaemonGone
  <2>1. 0 \in 0..MaxConns /\ << >> \in Seq(Req)
    BY ServiceAssumption
  <2>2. /\ Answer(waits) /\ waits' = {} /\ sock' = 0 /\ up' = << >>
        /\ UNCHANGED <<ext, pipe, host, conn>>
    BY <1>8 DEF DaemonGone, GoneAnswers, daemonVars
  <2> QED BY <1>1, <1>2, <2>1, <2>2
<1>9. CASE SecondPasses
  BY <1>1, <1>9 DEF SecondPasses, daemonVars, Hosts
<1>10. CASE PortCloses
  BY <1>1, <1>10 DEF PortCloses, daemonVars, Hosts
<1> QED BY <1>3, <1>4, <1>5, <1>6, <1>7, <1>8, <1>9, <1>10


(* The daemon's steps leave the extension and its host. *)
DaemonNext ==
  \/ \E c \in Conns : ConnSteps(c)
  \/ \E r \in Req : CheckSteps(r) \/ \E m \in Message : Delivers(r, m)
  \/ WindowLoads \/ Loaded \/ Unlock \/ Lock \/ TurnsOff \/ TurnsOn
  \/ PolkitdDies \/ BusCloses \/ MinutePasses \/ Restart

LEMMA CallOffTypes ==
  ASSUME Types, NEW S \in SUBSET Req, CallOff(S)
  PROVE  /\ task' \in [Req -> Tasks] /\ history' \in Histories
         /\ \A r \in Req : Active(r)' <=> Active(r)
         /\ bucket' \in {bucket, None}
<1>1. task \in [Req -> Tasks] /\ history \in Histories
  BY DEF Types, TypeOK, Tasks
<1>2. \A r \in Req : task'[r] = IF r \in S THEN [task[r] EXCEPT !.off = TRUE] ELSE task[r]
  BY DEF CallOff
<1>3. \A r \in Req : task'[r] \in Tasks /\ task'[r].at = task[r].at
  BY <1>1, <1>2 DEF Tasks
<1>4. task' \in [Req -> Tasks]
  BY <1>3 DEF CallOff
<1> QED BY <1>1, <1>3, <1>4 DEF CallOff, Histories, Active

(* The steps of a check change the place of its task and what was said. *)
LEMMA CheckTypes ==
  ASSUME Types, NEW r \in Req, CheckStarts(r) \/ CheckCalls(r) \/ CancelCall(r)
  PROVE  /\ task' \in [Req -> Tasks]
         /\ \A q \in Req : /\ Active(q)' <=> Active(q)
                           /\ task'[q].at = "none" <=> task[q].at = "none"
                           /\ task'[q].conn = task[q].conn /\ task'[q].off = task[q].off
                           /\ task'[q].said \in {task[q].said, "cancelled"}
         /\ UNCHANGED <<hostVars, up, down, daemonVars, bucket, refusals, history>>
         /\ cancels' \in SUBSET cancels
<1>1. task \in [Req -> Tasks]
  BY DEF Types, TypeOK, Tasks
<1>2. \/ task' = task
      \/ /\ Active(r)
         /\ \/ \E at \in {"calling", "shown"} : task' = [task EXCEPT ![r].at = at]
            \/ task' = [task EXCEPT ![r].at = "back", ![r].said = "cancelled"]
  BY DEF CheckStarts, CheckCalls, CancelCall, Active
<1>3. ASSUME NEW q \in Req, NEW at \in {"calling", "shown", "back"}, NEW t \in Tasks
      PROVE  /\ [t EXCEPT !.at = at] \in Tasks
             /\ [t EXCEPT !.at = "back", !.said = "cancelled"] \in Tasks
  BY DEF Tasks
<1>4. task' \in [Req -> Tasks]
  <2>1. CASE task' = task
    BY <1>1, <2>1
  <2>2. ASSUME NEW at \in {"calling", "shown"}, task' = [task EXCEPT ![r].at = at]
        PROVE  task' \in [Req -> Tasks]
    BY <1>1, <1>3, <2>2
  <2>3. CASE task' = [task EXCEPT ![r].at = "back", ![r].said = "cancelled"]
    <3>1. task' = [task EXCEPT ![r] = [task[r] EXCEPT !.at = "back", !.said = "cancelled"]]
      BY <1>1, <2>3
    <3>2. [task[r] EXCEPT !.at = "back", !.said = "cancelled"] \in Tasks
      BY <1>1, <1>3
    <3> QED BY <1>1, <3>1, <3>2
  <2> QED BY <1>2, <2>1, <2>2, <2>3
<1>5. ASSUME NEW q \in Req
      PROVE  /\ Active(q)' <=> Active(q)
             /\ task'[q].at = "none" <=> task[q].at = "none"
             /\ task'[q].conn = task[q].conn /\ task'[q].off = task[q].off
             /\ task'[q].said \in {task[q].said, "cancelled"}
  BY <1>1, <1>2 DEF Tasks, Active
<1> QED BY <1>4, <1>5 DEF CheckStarts, CheckCalls, CancelCall

(* A message is the reply only if polkitd sent it, and a yes only if that   *)
(* is what it returns.                                                      *)
LEMMA AnsweredType ==
  ASSUME NEW t \in Tasks, NEW m \in Message, t.at \in {"shown", "lost"}
  PROVE  /\ Answered(t, m) \in Tasks
         /\ Answered(t, m).at \in {t.at, "back"}
         /\ Answered(t, m).conn = t.conn /\ Answered(t, m).off = t.off
         /\ Answered(t, m).said = "yes" =>
              \/ t.said = "yes"
              \/ m = [type |-> "return", sender |-> "polkitd", says |-> "yes"]
BY DEF Answered, IsReply, Classified, Tasks, Message

(* So do the ends of a dialog. *)
LEMMA DialogTypes ==
  ASSUME Types, (\E r \in Req, m \in Message : Delivers(r, m)) \/ PolkitdDies \/ BusCloses
  PROVE  /\ task' \in [Req -> Tasks]
         /\ \A q \in Req : /\ Active(q)' <=> Active(q)
                           /\ task'[q].at = "none" <=> task[q].at = "none"
                           /\ task'[q].conn = task[q].conn /\ task'[q].off = task[q].off
                           /\ task'[q].said = "yes" => task[q].said = "yes" \/ q \in history'.approved
         /\ UNCHANGED <<hostVars, up, down, daemonVars, bucket, cancels, refusals>>
         /\ history' \in Histories /\ history'.filled = history.filled /\ history'.off = history.off
         /\ \E r \in Req : history'.approved \in {history.approved, history.approved \cup {r}} /\ Active(r)
<1>1. task \in [Req -> Tasks] /\ history \in Histories
  BY DEF Types, TypeOK, Tasks
<1>2. ASSUME NEW r \in Req, NEW m \in Message, Delivers(r, m)
      PROVE  /\ task' \in [Req -> Tasks]
             /\ \A q \in Req : /\ Active(q)' <=> Active(q)
                               /\ task'[q].at = "none" <=> task[q].at = "none"
                               /\ task'[q].conn = task[q].conn /\ task'[q].off = task[q].off
                               /\ task'[q].said = "yes" => task[q].said = "yes" \/ q \in history'.approved
             /\ history' \in Histories /\ history'.filled = history.filled
             /\ history'.off = history.off /\ Active(r)
             /\ history'.approved \in {history.approved, history.approved \cup {r}}
  <2>1. /\ task[r].at = "shown" /\ task[r] \in Tasks
        /\ task' = [task EXCEPT ![r] = Answered(task[r], m)]
    BY <1>1, <1>2 DEF Delivers
  <2>2. PICK t \in Tasks :
          /\ t = Answered(task[r], m) /\ t.at \in {"shown", "back"}
          /\ t.conn = task[r].conn /\ t.off = task[r].off
          /\ t.said = "yes" => task[r].said = "yes"
                                 \/ m = [type |-> "return", sender |-> "polkitd", says |-> "yes"]
    BY <2>1, AnsweredType
  <2>3. /\ history' \in Histories /\ history'.filled = history.filled /\ history'.off = history.off
        /\ history'.approved \in {history.approved, history.approved \cup {r}}
        /\ m = [type |-> "return", sender |-> "polkitd", says |-> "yes"] => r \in history'.approved
    BY <1>1, <1>2 DEF Delivers, Histories
  <2>4. \A q \in Req : task'[q] = IF q = r THEN t ELSE task[q]
    BY <1>1, <2>1, <2>2
  <2>5. task' \in [Req -> Tasks]
    BY <1>1, <2>1, <2>2
  <2> QED BY <2>1, <2>2, <2>3, <2>4, <2>5 DEF Active
<1>3. ASSUME PolkitdDies \/ BusCloses
      PROVE  \A q \in Req :
               /\ task'[q] \in Tasks /\ (Active(q)' <=> Active(q))
               /\ task'[q].at = "none" <=> task[q].at = "none"
               /\ task'[q].conn = task[q].conn /\ task'[q].off = task[q].off
               /\ task'[q].said = "yes" => task[q].said = "yes"
  <2>1. SUFFICES ASSUME NEW q \in Req
        PROVE  /\ task'[q] \in Tasks /\ (Active(q)' <=> Active(q))
               /\ task'[q].at = "none" <=> task[q].at = "none"
               /\ task'[q].conn = task[q].conn /\ task'[q].off = task[q].off
               /\ task'[q].said = "yes" => task[q].said = "yes"
    OBVIOUS
  <2>2. task[q] \in Tasks
    BY <1>1
  <2>3. CASE task'[q] = task[q]
    BY <2>2, <2>3 DEF Active
  <2>4. CASE task[q].at = "shown" /\ task'[q] = Answered([task[q] EXCEPT !.at = "lost"], NoReply)
    <3>1. PICK t \in Tasks : t = [task[q] EXCEPT !.at = "lost"]
      BY <2>2 DEF Tasks
    <3>2. /\ t.at = "lost" /\ t.conn = task[q].conn /\ t.off = task[q].off /\ t.said = task[q].said
      BY <2>2, <3>1 DEF Tasks
    <3>3. NoReply \in Message /\ NoReply # [type |-> "return", sender |-> "polkitd", says |-> "yes"]
      BY DEF NoReply, Message
    <3>4. /\ Answered(t, NoReply) \in Tasks /\ Answered(t, NoReply).at \in {"lost", "back"}
          /\ Answered(t, NoReply).conn = t.conn /\ Answered(t, NoReply).off = t.off
          /\ Answered(t, NoReply).said = "yes" => t.said = "yes"
      BY <3>2, <3>3, AnsweredType
    <3> QED BY <2>4, <3>1, <3>2, <3>4 DEF Active
  <2>5. CASE Active(q) /\ task'[q] = [task[q] EXCEPT !.at = "back", !.said = "cancelled"]
    BY <2>2, <2>5 DEF Active, Tasks
  <2>6. CASE PolkitdDies
    <3>1. task'[q] = IF task[q].at = "shown"
                     THEN Answered([task[q] EXCEPT !.at = "lost"], NoReply) ELSE task[q]
      BY <2>6 DEF PolkitdDies
    <3> QED BY <2>3, <2>4, <3>1
  <2>7. CASE BusCloses
    <3>1. task'[q] = Closed(q)
      BY <2>7 DEF BusCloses
    <3> QED BY <2>3, <2>5, <3>1 DEF Closed, Pending, Active
  <2> QED BY <1>3, <2>6, <2>7
<1>4. ASSUME PolkitdDies \/ BusCloses
      PROVE  /\ task' \in [Req -> Tasks] /\ history' = history /\ \E r \in Req : Active(r)
  <2>1. task' = [q \in Req |-> task'[q]]
    BY <1>4 DEF PolkitdDies, BusCloses
  <2>2. \A q \in Req : task'[q] \in Tasks
    BY <1>3, <1>4
  <2>3. task' \in [Req -> Tasks]
    BY <2>1, <2>2
  <2>4. \E r \in Req : Active(r)
    BY <1>4 DEF PolkitdDies, BusCloses, Pending, Active
  <2> QED BY <1>4, <2>3, <2>4 DEF PolkitdDies, BusCloses
<1> QED BY <1>1, <1>2, <1>3, <1>4 DEF Delivers, PolkitdDies, BusCloses


(* What a running task may lose, and what it may not, in a step that takes  *)
(* no request off the line.                                                 *)
LEMMA QuietStep ==
  ASSUME Inv, Types', UNCHANGED <<hostVars, up>>,
         \A q \in Req :
           /\ Active(q)' => /\ Active(q) /\ task'[q].conn = task[q].conn
                            /\ conn'[task[q].conn] \notin {"unused", "released"}
                            /\ task[q].off => task'[q].off
                            /\ task'[q].said = "yes" => task[q].said = "yes" \/ q \in history'.approved
           /\ task'[q].at = "none" <=> task[q].at = "none"
           /\ q \in history'.off => q \in history.off \/ (Active(q) /\ task'[q].off)
           /\ q \in history'.filled => q \in history.filled \/ task'[q].at = "ended",
         history.approved \subseteq history'.approved
  PROVE  Inv'
<1>1. ASSUME NEW q \in Req PROVE Line(q)'
  BY DEF Inv, Line, hostVars, In
<1>2. ASSUME NEW q \in Req PROVE Held(q)'
  BY DEF Inv, Held, Active
<1>3. Once(pipe)' /\ Once(up)'
  BY DEF Inv, Once, hostVars
<1> QED BY <1>1, <1>2, <1>3 DEF Inv

LEMMA ConnTypes ==
  ASSUME Types, NEW c \in Conns, HelloLoads(c) \/ HelloAccepted(c) \/ HelloRefused(c) \/ Detach(c)
  PROVE  /\ conn' \in [Conns -> Ends] /\ conn[c] \notin {"unused", "released"}
         /\ UNCHANGED <<hostVars, up, on, open, refusals>> /\ loaded' \in {loaded, "loading"}
         /\ \A d \in Conns \ {c} : conn'[d] = conn[d]
         /\ conn'[c] \in {"load", "open", "closed", "detached", "released"}
<1>1. conn \in [Conns -> Ends]
  BY DEF Types, TypeOK, Ends
<1>2. /\ conn[c] \in {"hello", "closed", "open"} /\ loaded' \in {loaded, "loading"}
      /\ UNCHANGED <<hostVars, up, on, open, refusals>>
      /\ \E v \in {"load", "open", "closed", "detached", "released"} : conn' = [conn EXCEPT ![c] = v]
  <2>1. CASE HelloLoads(c)
    BY <2>1 DEF HelloLoads, checkVars
  <2>2. CASE HelloAccepted(c)
    BY <2>2 DEF HelloAccepted, checkVars
  <2>3. CASE HelloRefused(c)
    BY <2>3 DEF HelloRefused, Closing, checkVars
  <2>4. CASE Detach(c)
    BY <2>4 DEF Detach, Released
  <2> QED BY <2>1, <2>2, <2>3, <2>4
<1> QED BY <1>1, <1>2 DEF Ends

LEMMA ConnHolds ==
  ASSUME Inv, NEW c \in Conns, HelloLoads(c) \/ HelloAccepted(c) \/ HelloRefused(c) \/ Detach(c)
  PROVE  Inv'
<1>1. /\ conn' \in [Conns -> Ends] /\ UNCHANGED <<hostVars, up, on, open, refusals>>
      /\ loaded' \in {loaded, "loading"}
      /\ \A d \in Conns \ {c} : conn'[d] = conn[d]
      /\ conn'[c] \in {"load", "open", "closed", "detached", "released"}
  BY ConnTypes DEF Inv
<1>2. CASE HelloLoads(c) \/ HelloAccepted(c) \/ HelloRefused(c)
  <2>1. UNCHANGED <<task, bucket, cancels>> /\ history' \in Histories
        /\ history'.off = history.off /\ history'.filled = history.filled
        /\ history'.approved = history.approved
    BY <1>2 DEF HelloLoads, HelloAccepted, HelloRefused, checkVars, Inv, Types, TypeOK, Histories
  <2>2. conn'[c] # "released"
    BY <1>2 DEF HelloLoads, HelloAccepted, HelloRefused, Closing, Inv, Types, TypeOK
  <2>3. Types'
    BY <1>1, <2>1 DEF Inv, Types, TypeOK, Ends, hostVars
  <2>4. \A q \in Req : Active(q) => conn'[task[q].conn] \notin {"unused", "released"}
    BY <1>1, <2>2 DEF Inv, Held
  <2> QED BY <1>1, <2>1, <2>3, <2>4, QuietStep DEF Active
<1>3. CASE Detach(c)
  <2>. DEFINE S == PendingOf(Running(c))
  <2>1. S \in SUBSET Req /\ CallOff(S) /\ conn' = Released(c, Running(c)) /\ \A q \in S : Active(q)
    BY <1>3 DEF Detach, PendingOf, Running, Inv, Types, TypeOK, Active
  <2>. HIDE DEF S
  <2>2. /\ task' \in [Req -> Tasks] /\ history' \in Histories /\ bucket' \in {bucket, None}
        /\ \A r \in Req : Active(r)' <=> Active(r)
    BY <2>1, CallOffTypes DEF Inv
  <2>3. cancels' \subseteq Req
    BY <2>1 DEF CallOff, Inv, Types, TypeOK
  <2>4. Types'
    BY <1>1, <2>2, <2>3 DEF Inv, Types, TypeOK, Ends, hostVars, Tasks, Active
  <2>5. /\ \A q \in Req : task'[q] = IF q \in S THEN [task[q] EXCEPT !.off = TRUE] ELSE task[q]
        /\ history' = [history EXCEPT !.off = @ \cup S]
        /\ task \in [Req -> Tasks] /\ history \in Histories
    BY <2>1 DEF CallOff, Inv, Types, TypeOK, Tasks
  <2>6. history'.off = history.off \cup S /\ history'.filled = history.filled
        /\ history'.approved = history.approved
    BY <2>5 DEF Histories
  <2>7. ASSUME NEW q \in Req, Active(q) PROVE conn'[task[q].conn] \notin {"unused", "released"}
    <3>1. q \in Running(task[q].conn)
      BY <2>7 DEF Running, Active
    <3>2. task[q].conn = c => conn'[c] = "detached"
      BY <2>1, <3>1 DEF Released, Inv, Types, TypeOK
    <3> QED BY <1>1, <2>7, <3>2 DEF Inv, Held
  <2>8. ASSUME NEW q \in Req
        PROVE  /\ task'[q].at = task[q].at /\ task'[q].conn = task[q].conn
               /\ task'[q].said = task[q].said
               /\ task[q].off => task'[q].off
               /\ q \in S => task'[q].off
    BY <2>5 DEF Tasks
  <2>9. \A q \in Req : q \in history'.off => q \in history.off \/ (Active(q) /\ task'[q].off)
    BY <2>1, <2>6, <2>8
  <2>10. UNCHANGED <<hostVars, up>> /\ history.approved \subseteq history'.approved
    BY <1>1, <2>6
  <2> QED BY <2>2, <2>4, <2>6, <2>7, <2>8, <2>9, <2>10, QuietStep
<1> QED BY <1>2, <1>3

LEMMA CheckHolds ==
  ASSUME Inv, NEW r \in Req, CheckStarts(r) \/ CheckCalls(r) \/ CancelCall(r)
  PROVE  Inv'
<1>1. /\ task' \in [Req -> Tasks]
      /\ \A q \in Req : /\ Active(q)' <=> Active(q)
                        /\ task'[q].at = "none" <=> task[q].at = "none"
                        /\ task'[q].conn = task[q].conn /\ task'[q].off = task[q].off
                        /\ task'[q].said \in {task[q].said, "cancelled"}
      /\ UNCHANGED <<hostVars, up, down, daemonVars, bucket, refusals, history>>
      /\ cancels' \in SUBSET cancels
  BY CheckTypes DEF Inv
<1>2. Types'
  BY <1>1 DEF Inv, Types, TypeOK, hostVars, daemonVars, Tasks, Active
<1>3. \A q \in Req : Active(q) => conn'[task[q].conn] \notin {"unused", "released"}
  BY <1>1 DEF Inv, Held, daemonVars
<1> QED BY <1>1, <1>2, <1>3, QuietStep

LEMMA DialogHolds ==
  ASSUME Inv, (\E r \in Req, m \in Message : Delivers(r, m)) \/ PolkitdDies \/ BusCloses
  PROVE  Inv'
<1>1. /\ task' \in [Req -> Tasks]
      /\ \A q \in Req : /\ Active(q)' <=> Active(q)
                        /\ task'[q].at = "none" <=> task[q].at = "none"
                        /\ task'[q].conn = task[q].conn /\ task'[q].off = task[q].off
                        /\ task'[q].said = "yes" => task[q].said = "yes" \/ q \in history'.approved
      /\ UNCHANGED <<hostVars, up, down, daemonVars, bucket, cancels, refusals>>
      /\ history' \in Histories /\ history'.filled = history.filled /\ history'.off = history.off
      /\ \E r \in Req : history'.approved \in {history.approved, history.approved \cup {r}} /\ Active(r)
  BY DialogTypes DEF Inv
<1>2. Types'
  BY <1>1 DEF Inv, Types, TypeOK, hostVars, daemonVars, Tasks, Active
<1>3. \A q \in Req : Active(q) => conn'[task[q].conn] \notin {"unused", "released"}
  BY <1>1 DEF Inv, Held, daemonVars
<1>4. history.approved \subseteq history'.approved
  BY <1>1
<1> QED BY <1>1, <1>2, <1>3, <1>4, QuietStep


(* The window, locks, time and restarts. *)
LEMMA WindowHolds ==
  ASSUME Inv,
         WindowLoads \/ Loaded \/ Unlock \/ Lock \/ TurnsOff \/ TurnsOn \/ MinutePasses \/ Restart
  PROVE  Inv'
<1>1. /\ task \in [Req -> Tasks] /\ history \in Histories /\ conn \in [Conns -> Ends]
      /\ \A q \in Req : task[q].at \notin {"none", "ended"} <=> Active(q)
  BY DEF Inv, Types, TypeOK, Tasks, Ends, Active
<1>2. UNCHANGED <<hostVars, up>>
  BY DEF WindowLoads, Loaded, Unlock, Lock, TurnsOff, TurnsOn, MinutePasses, Restart
<1>3. CASE WindowLoads \/ Loaded \/ Unlock \/ TurnsOff \/ TurnsOn \/ MinutePasses
  <2>1. UNCHANGED <<task, bucket, cancels, history>> /\ refusals' \in {refusals, 0}
    BY <1>3 DEF WindowLoads, Loaded, Unlock, TurnsOff, TurnsOn, MinutePasses, checkVars, daemonVars
  <2>2. /\ conn' \in [Conns -> Ends] /\ on' \in [disk : BOOLEAN, mem : BOOLEAN]
        /\ loaded' \in {"no", "loading", "yes"} /\ open' \in BOOLEAN
        /\ \A c \in Conns : conn'[c] = conn[c] \/ (conn[c] = "load" /\ conn'[c] = "hello")
                              \/ (conn[c] = "open" /\ conn'[c] = "closed")
    <3>1. on \in [disk : BOOLEAN, mem : BOOLEAN] /\ loaded \in {"no", "loading", "yes"}
          /\ open \in BOOLEAN
      BY DEF Inv, Types, TypeOK
    <3>2. CASE Loaded
      BY <1>1, <3>1, <3>2 DEF Loaded, Ends
    <3>3. CASE TurnsOff
      BY <1>1, <3>1, <3>3 DEF TurnsOff, Ends
    <3>4. CASE TurnsOn
      BY <1>1, <3>1, <3>4 DEF TurnsOn
    <3>5. CASE MinutePasses
      <4>1. UNCHANGED <<conn, on, loaded, open>>
        BY <3>5 DEF MinutePasses, daemonVars
      <4> QED BY <1>1, <3>1, <4>1
    <3>6. CASE WindowLoads
      BY <1>1, <3>1, <3>6 DEF WindowLoads
    <3>7. CASE Unlock
      BY <1>1, <3>1, <3>7 DEF Unlock
    <3> QED BY <1>3, <3>2, <3>3, <3>4, <3>5, <3>6, <3>7
  <2>3. 0 \in 0..MaxRefused
    BY ServiceAssumption
  <2>4. Types'
    BY <1>2, <2>1, <2>2, <2>3 DEF Inv, Types, TypeOK, hostVars, Ends
  <2>5. \A q \in Req : Active(q) => conn'[task[q].conn] \notin {"unused", "released"}
    BY <2>2 DEF Inv, Held
  <2> QED BY <1>2, <2>1, <2>4, <2>5, QuietStep DEF Active
<1>4. CASE Lock
  <2>. DEFINE S == PendingOf(Req)
  <2>1. /\ S \in SUBSET Req /\ CallOff(S) /\ \A q \in S : Active(q)
        /\ UNCHANGED <<conn, on, loaded, refusals>> /\ open' = FALSE
    <3>1. S \in SUBSET Req /\ \A q \in S : Active(q)
      BY ServiceAssumption DEF PendingOf, Inv, Types, TypeOK, Active
    <3> QED BY <1>4, <3>1 DEF Lock
  <2>. HIDE DEF S
  <2>2. /\ task' \in [Req -> Tasks] /\ history' \in Histories /\ bucket' \in {bucket, None}
        /\ \A r \in Req : Active(r)' <=> Active(r)
    BY <2>1, CallOffTypes DEF Inv
  <2>3. cancels' \subseteq Req
    BY <2>1 DEF CallOff, Inv, Types, TypeOK
  <2>4. Types'
    <3>1. bucket' \in Req \cup {None} /\ (bucket' # None => Active(bucket)')
      BY <2>2 DEF Inv, Types, TypeOK, Active
    <3>2. bucket' # None => task'[bucket'].at \in {"queued", "calling", "shown", "lost", "back"}
      BY <3>1 DEF Active
    <3> QED BY <1>2, <2>1, <2>2, <2>3, <3>1, <3>2 DEF Inv, Types, TypeOK, hostVars, Tasks
  <2>5. /\ \A q \in Req : task'[q] = IF q \in S THEN [task[q] EXCEPT !.off = TRUE] ELSE task[q]
        /\ history' = [history EXCEPT !.off = @ \cup S]
    BY <1>1, <2>1 DEF CallOff
  <2>6. history'.off = history.off \cup S /\ history'.filled = history.filled
        /\ history'.approved = history.approved
    BY <1>1, <2>5 DEF Histories
  <2>7. ASSUME NEW q \in Req
        PROVE  /\ task'[q].at = task[q].at /\ task'[q].conn = task[q].conn
               /\ task'[q].said = task[q].said
               /\ task[q].off => task'[q].off
               /\ q \in S => task'[q].off
    BY <1>1, <2>5 DEF Tasks
  <2>8. \A q \in Req : q \in history'.off => q \in history.off \/ (Active(q) /\ task'[q].off)
    BY <2>1, <2>6, <2>7
  <2>9. \A q \in Req : Active(q) => conn'[task[q].conn] \notin {"unused", "released"}
    BY <2>1 DEF Inv, Held
  <2>10. history.approved \subseteq history'.approved
    BY <2>6
  <2> QED BY <1>2, <2>2, <2>4, <2>6, <2>7, <2>8, <2>9, <2>10, QuietStep
<1>5. CASE Restart
  <2>1. /\ \A q \in Req : task'[q] = IF task[q].at = "none" THEN NoTask
                                     ELSE [task[q] EXCEPT !.at = "ended"]
        /\ task' = [q \in Req |-> task'[q]]
        /\ conn' = [c \in Conns |-> IF conn[c] = "unused" THEN "unused" ELSE "released"]
        /\ bucket' = None /\ cancels' = {} /\ refusals' = 0 /\ loaded' = "no" /\ open' = FALSE
        /\ on' = [on EXCEPT !.mem = FALSE] /\ history' = history
    BY <1>5 DEF Restart
  <2>2. NoTask \in Tasks /\ NoTask.at = "none" /\ 0 \in 0..MaxRefused
    BY ServiceAssumption DEF NoTask, Tasks
  <2>3. \A q \in Req : /\ task'[q] \in Tasks /\ task'[q].at \in {"none", "ended"}
                       /\ task'[q].at = "none" <=> task[q].at = "none"
    BY <1>1, <2>1, <2>2 DEF Tasks
  <2>4. task' \in [Req -> Tasks]
    BY <2>1, <2>3
  <2>5. conn' \in [Conns -> Ends] /\ on' \in [disk : BOOLEAN, mem : BOOLEAN]
    BY <2>1 DEF Inv, Types, TypeOK, Ends
  <2>6. Types'
    BY <1>2, <2>1, <2>2, <2>4, <2>5 DEF Inv, Types, TypeOK, hostVars, Tasks, Ends
  <2>7. \A q \in Req : ~Active(q)'
    BY <2>3 DEF Active
  <2> QED BY <1>2, <2>1, <2>3, <2>6, <2>7, QuietStep
<1> QED BY <1>3, <1>4, <1>5

(* A task ends: it may fill, and its connection may have waited for it. *)
LEMMA ResumesHolds ==
  ASSUME Inv, NEW r \in Req, Resumes(r)
  PROVE  Inv'
<1>. DEFINE c == task[r].conn
<1>1. /\ task \in [Req -> Tasks] /\ history \in Histories /\ conn \in [Conns -> Ends]
      /\ Active(r) /\ c \in Conns /\ task[r].at = "back"
      /\ UNCHANGED <<hostVars, up, on, loaded, open, cancels>>
  BY DEF Inv, Types, TypeOK, Tasks, Ends, Held, Active, Resumes
<1>2. /\ task' = [task EXCEPT ![r].at = "ended"]
      /\ bucket' = IF bucket = r THEN None ELSE bucket
      /\ refusals' \in {refusals, refusals + 1} /\ (refusals' = refusals \/ refusals < MaxRefused)
      /\ history' \in {history, [history EXCEPT !.filled = @ \cup {r}]}
      /\ conn' = IF conn[c] = "detached" THEN Released(c, Running(c) \ {r}) ELSE conn
  BY DEF Resumes
<1>3. ASSUME NEW q \in Req
      PROVE  /\ task'[q] \in Tasks
             /\ task'[q].at = IF q = r THEN "ended" ELSE task[q].at
             /\ task'[q].conn = task[q].conn /\ task'[q].off = task[q].off
             /\ task'[q].said = task[q].said
  BY <1>1, <1>2 DEF Tasks
<1>4. task' \in [Req -> Tasks]
  BY <1>1, <1>2 DEF Tasks
<1>5. /\ history' \in Histories /\ history'.off = history.off
      /\ history'.approved = history.approved
      /\ history'.filled \subseteq history.filled \cup {r}
  BY <1>1, <1>2 DEF Histories
<1>6. conn' \in [Conns -> Ends] /\ refusals' \in 0..MaxRefused
  <2>1. conn' \in [Conns -> Ends]
    BY <1>1, <1>2 DEF Released, Ends
  <2>2. refusals \in 0..MaxRefused /\ MaxRefused \in Nat
    BY ServiceAssumption DEF Inv, Types, TypeOK
  <2> QED BY <1>2, <2>1, <2>2
<1>7. \A q \in Req : Active(q)' <=> Active(q) /\ q # r
  BY <1>3 DEF Active
<1>8. bucket' # None => Active(bucket)' /\ bucket' \in Req
  BY <1>2, <1>7 DEF Inv, Types, TypeOK, Active
<1>9. Types'
  BY <1>1, <1>4, <1>5, <1>6, <1>8 DEF Inv, Types, TypeOK, hostVars, Tasks, Ends, Active
<1>10. ASSUME NEW q \in Req, Active(q), q # r PROVE conn'[task[q].conn] \notin {"unused", "released"}
  <2>1. q \in Running(task[q].conn)
    BY <1>10 DEF Running, Active
  <2>2. CASE task[q].conn = c /\ conn[c] = "detached"
    <3>1. q \in Running(c) \ {r}
      BY <1>10, <2>1, <2>2
    <3>2. conn' = [conn EXCEPT ![c] = "detached"]
      BY <1>2, <2>2, <3>1 DEF Released
    <3> QED BY <1>1, <2>2, <3>2
  <2>3. CASE ~(task[q].conn = c /\ conn[c] = "detached")
    <3>1. conn'[task[q].conn] = conn[task[q].conn]
      BY <1>1, <1>2, <1>10, <2>3 DEF Released, Inv, Held
    <3> QED BY <1>10, <3>1 DEF Inv, Held
  <2> QED BY <2>2, <2>3
<1>11. /\ UNCHANGED <<hostVars, up>> /\ history.approved \subseteq history'.approved
       /\ \A q \in Req : task'[q].at = "none" <=> task[q].at = "none"
       /\ \A q \in Req : q \in history'.filled => q \in history.filled \/ task'[q].at = "ended"
  BY <1>1, <1>3, <1>5
<1> QED BY <1>3, <1>5, <1>7, <1>9, <1>10, <1>11, QuietStep


-----------------------------------------------------------------------------
(* The line: what the sequences hold *)

LEMMA HeadGone ==
  ASSUME NEW s \in Seq(Req), s # << >>, Once(s)
  PROVE  /\ Head(s) \in Req /\ In(Head(s), s) /\ Tail(s) \in Seq(Req) /\ Once(Tail(s))
         /\ \A x : In(x, Tail(s)) <=> In(x, s) /\ x # Head(s)
<1>1. /\ Tail(s) \in Seq(Req) /\ Len(Tail(s)) = Len(s) - 1 /\ Len(s) \in Nat \ {0}
      /\ \A i \in 1..Len(Tail(s)) : Tail(s)[i] = s[i + 1] /\ i + 1 \in 1..Len(s)
      /\ Head(s) = s[1] /\ Head(s) \in Req /\ 1 \in 1..Len(s)
  OBVIOUS
<1>2. ASSUME NEW x, In(x, Tail(s)) PROVE In(x, s) /\ x # Head(s)
  <2>1. PICK i \in 1..Len(Tail(s)) : Tail(s)[i] = x
    BY <1>2 DEF In
  <2>2. s[i + 1] = x /\ i + 1 \in 1..Len(s) /\ i + 1 # 1
    BY <1>1, <2>1
  <2> QED BY <1>1, <2>2 DEF In, Once
<1>3. ASSUME NEW x, In(x, s), x # Head(s) PROVE In(x, Tail(s))
  <2>1. PICK i \in 1..Len(s) : s[i] = x
    BY <1>3 DEF In
  <2>2. i - 1 \in 1..Len(Tail(s)) /\ (i - 1) + 1 = i
    BY <1>1, <1>3, <2>1
  <2>3. Tail(s)[i - 1] = x
    BY <1>1, <2>1, <2>2
  <2> QED BY <2>2, <2>3 DEF In
<1>4. Once(Tail(s))
  BY <1>1 DEF Once
<1> QED BY <1>1, <1>2, <1>3, <1>4 DEF In

LEMMA JoinsLast ==
  ASSUME NEW s \in Seq(Req), NEW r \in Req, ~In(r, s), Once(s)
  PROVE  /\ Append(s, r) \in Seq(Req) /\ Once(Append(s, r))
         /\ \A x : In(x, Append(s, r)) <=> In(x, s) \/ x = r
<1>. DEFINE t == Append(s, r)
<1>1. /\ t \in Seq(Req) /\ Len(t) = Len(s) + 1 /\ Len(s) \in Nat
      /\ \A i \in 1..Len(s) : t[i] = s[i] /\ i \in 1..Len(t)
      /\ t[Len(s) + 1] = r
      /\ \A i \in 1..Len(t) : i \in 1..Len(s) \/ i = Len(s) + 1
  OBVIOUS
<1>. HIDE DEF t
<1>2. \A i \in 1..Len(s) : t[i] # r
  BY <1>1 DEF In
<1>3. Once(t)
  BY <1>1, <1>2 DEF Once
<1>4. ASSUME NEW x PROVE In(x, t) <=> In(x, s) \/ x = r
  <2>1. Len(s) + 1 \in 1..Len(t)
    BY <1>1
  <2> QED BY <1>1, <2>1 DEF In
<1> QED BY <1>1, <1>3, <1>4 DEF t

(* A line is read: a task takes the request off the line. *)
LEMMA ReadsHolds ==
  ASSUME Inv, NEW c \in Conns, Reads(c)
  PROVE  Inv'
<1>. DEFINE r == Head(up)
<1>1. /\ conn[c] = "open" /\ up # << >> /\ up \in Seq(Req) /\ Once(up)
      /\ task \in [Req -> Tasks] /\ history \in Histories /\ up' = Tail(up)
      /\ UNCHANGED <<hostVars, conn, on, loaded, open, cancels, refusals, history>>
      /\ \/ UNCHANGED <<task, bucket>>
         \/ task' = [task EXCEPT ![r] = [NoTask EXCEPT !.at = "queued", !.conn = c]] /\ bucket' = r
  BY DEF Reads, Inv, Types, TypeOK, Tasks, daemonVars
<1>2. /\ r \in Req /\ In(r, up) /\ Tail(up) \in Seq(Req) /\ Once(Tail(up))
      /\ \A x : In(x, Tail(up)) <=> In(x, up) /\ x # r
  BY <1>1, HeadGone
<1>3. task[r].at = "none" /\ ext[r] = "read" /\ r # host.cur
  BY <1>2 DEF Inv, Types, TypeOK, Line
<1>. HIDE DEF r
<1>4. CASE UNCHANGED <<task, bucket>>
  <2>1. Types'
    BY <1>1, <1>2, <1>4 DEF Inv, Types, TypeOK, hostVars
  <2>2. ASSUME NEW q \in Req PROVE Line(q)' /\ Held(q)'
    <3>1. In(q, up)' => In(q, up)
      BY <1>1, <1>2 DEF In
    <3>2. In(q, pipe)' <=> In(q, pipe)
      BY <1>1 DEF hostVars, In
    <3>. HIDE DEF In
    <3> QED BY <1>1, <1>4, <3>1, <3>2 DEF Inv, Line, Held, Active, hostVars
  <2> QED BY <1>1, <1>2, <2>1, <2>2 DEF Inv, Once, hostVars
<1>5. CASE task' = [task EXCEPT ![r] = [NoTask EXCEPT !.at = "queued", !.conn = c]] /\ bucket' = r
  <2>1. PICK t \in Tasks : /\ t = [NoTask EXCEPT !.at = "queued", !.conn = c]
                           /\ t.at = "queued" /\ t.conn = c /\ ~t.off /\ t.said = "nothing"
    <3>1. NoTask \in Tasks /\ ~NoTask.off /\ NoTask.said = "nothing" /\ c \in 0..MaxConns
      BY ServiceAssumption DEF NoTask, Tasks, Conns
    <3>2. ASSUME NEW u \in Tasks, NEW d \in 0..MaxConns
          PROVE  LET v == [u EXCEPT !.at = "queued", !.conn = d] IN
                 /\ v \in Tasks /\ v.at = "queued" /\ v.conn = d
                 /\ v.off = u.off /\ v.said = u.said
      BY DEF Tasks
    <3>. DEFINE v == [NoTask EXCEPT !.at = "queued", !.conn = c]
    <3>3. v \in Tasks /\ v.at = "queued" /\ v.conn = c /\ ~v.off /\ v.said = "nothing"
      <4>1. v.off = NoTask.off /\ v.said = NoTask.said /\ v \in Tasks /\ v.at = "queued"
            /\ v.conn = c
        BY <3>1, <3>2
      <4>. HIDE DEF v
      <4> QED BY <3>1, <4>1
    <3>. HIDE DEF v
    <3> QED BY <3>3 DEF v
  <2>2. /\ task' \in [Req -> Tasks]
        /\ \A q \in Req : task'[q] = IF q = r THEN t ELSE task[q]
    BY <1>1, <1>2, <1>5, <2>1
  <2>3. Types'
    BY <1>1, <1>2, <1>5, <2>1, <2>2 DEF Inv, Types, TypeOK, hostVars, Tasks, Active
  <2>4. ASSUME NEW q \in Req PROVE Line(q)'
    <3>1. In(q, up)' <=> In(q, up) /\ q # r
      BY <1>1, <1>2 DEF In
    <3>2. In(q, pipe)' <=> In(q, pipe)
      BY <1>1 DEF hostVars, In
    <3>. HIDE DEF In
    <3> QED BY <1>1, <1>3, <2>2, <3>1, <3>2 DEF Inv, Line, hostVars
  <2>5. ASSUME NEW q \in Req PROVE Held(q)'
    <3>1. CASE q = r
      <4>1. r \notin history.off \cup history.filled
        BY <1>2, <1>3 DEF Inv, Held
      <4> QED BY <1>1, <2>1, <2>2, <3>1, <4>1 DEF Held, Active
    <3>2. CASE q # r
      BY <1>1, <2>2, <3>2 DEF Inv, Held, Active
    <3> QED BY <3>1, <3>2
  <2> QED BY <1>1, <1>2, <2>3, <2>4, <2>5 DEF Inv, Once, hostVars
<1> QED BY <1>1, <1>4, <1>5

(* The host's steps: a request moves on, or is answered and let go. *)
LEMMA HostHolds ==
  ASSUME Inv,
         \/ \E r \in Req : ExtensionAsks(r)
         \/ FromExtension \/ Connected \/ ConnectFails \/ FromDaemon \/ DaemonGone
         \/ SecondPasses \/ PortCloses
  PROVE  Inv'
<1>1. /\ Types' /\ UNCHANGED <<on, loaded, open, checkVars, history>>
      /\ pipe \in Seq(Req) /\ up \in Seq(Req) /\ Once(pipe) /\ Once(up)
      /\ ext \in [Req -> {"new", "pipe", "read"}] /\ answers \in [Req -> Nat]
      /\ host \in Hosts /\ conn \in [Conns -> Ends] /\ task' = task
  BY HostTypes DEF ExtensionAsks, FromExtension, Connected, ConnectFails, FromDaemon, DaemonGone,
                   SecondPasses, PortCloses, daemonVars, checkVars, Inv, Types, TypeOK, Hosts, Ends
<1>2. SUFFICES /\ Once(pipe)' /\ Once(up)' /\ \A q \in Req : Line(q)'
               /\ \A c \in Conns : conn[c] \notin {"unused", "released"} =>
                                     conn'[c] \notin {"unused", "released"}
  <2>1. \A q \in Req : Active(q)' <=> Active(q)
    BY <1>1 DEF Active
  <2> QED BY <1>1, <2>1 DEF Inv, Held
<1>3. ASSUME NEW S, Answer(S), NEW q \in Req
      PROVE  answers'[q] = IF q \in S THEN answers[q] + 1 ELSE answers[q]
  BY <1>3 DEF Answer
<1>4. ASSUME UNCHANGED <<pipe, up, conn>>, \A q \in Req : Line(q)'
      PROVE  /\ Once(pipe)' /\ Once(up)' /\ \A q \in Req : Line(q)'
             /\ \A c \in Conns : conn[c] \notin {"unused", "released"} =>
                                   conn'[c] \notin {"unused", "released"}
  BY <1>1, <1>4 DEF Once
<1>. DEFINE Goal == /\ Once(pipe)' /\ Once(up)' /\ \A q \in Req : Line(q)'
                    /\ \A c \in Conns : conn[c] \notin {"unused", "released"} =>
                                          conn'[c] \notin {"unused", "released"}
<1>5. ASSUME NEW r \in Req, ExtensionAsks(r) PROVE Goal
  <2>1. /\ ext[r] = "new" /\ ext' = [ext EXCEPT ![r] = "pipe"] /\ pipe' = Append(pipe, r)
        /\ UNCHANGED <<answers, host, sock, waits, up, conn>>
    BY <1>5 DEF ExtensionAsks, daemonVars
  <2>2. ~In(r, pipe)
    BY <2>1 DEF Inv, Line
  <2>3. Once(pipe)' /\ \A x : In(x, pipe)' <=> In(x, pipe) \/ x = r
    BY <1>1, <2>1, <2>2, JoinsLast DEF Once, In
  <2>4. ASSUME NEW q \in Req PROVE Line(q)'
    <3>1. In(q, up)' <=> In(q, up)
      BY <2>1 DEF In
    <3>2. ext'[q] = IF q = r THEN "pipe" ELSE ext[q]
      BY <1>1, <2>1
    <3>. HIDE DEF In
    <3> QED BY <1>1, <2>1, <2>3, <3>1, <3>2 DEF Inv, Line
  <2> QED BY <1>1, <2>1, <2>3, <2>4 DEF Once
<1>6. CASE FromExtension
  <2>. DEFINE r == Head(pipe)
  <2>1. /\ r \in Req /\ In(r, pipe) /\ Once(Tail(pipe))
        /\ \A x : In(x, Tail(pipe)) <=> In(x, pipe) /\ x # r
    BY <1>1, <1>6, HeadGone DEF FromExtension
  <2>2. /\ ext' = [ext EXCEPT ![r] = "read"] /\ pipe' = Tail(pipe) /\ host.at = "idle"
        /\ \/ Answer({r}) /\ UNCHANGED <<host, waits, up, conn>>
           \/ waits' = waits \cup {r} /\ up' = Append(up, r) /\ UNCHANGED <<answers, host, conn>>
           \/ /\ host' = [host EXCEPT !.at = "connecting", !.cur = r, !.gap = TRUE]
              /\ \E c \in Conns \ Used : conn' = [conn EXCEPT ![c] = "hello"]
              /\ UNCHANGED <<answers, waits, up>>
    BY <1>6 DEF FromExtension, HostAnswers, Sends, Connects
  <2>3. /\ ext[r] = "pipe" /\ answers[r] = 0 /\ r \notin waits /\ r # host.cur
        /\ ~In(r, up) /\ task[r].at = "none"
    BY <2>1 DEF Inv, Line
  <2>. HIDE DEF r
  <2>4. Once(pipe)' /\ \A x : In(x, pipe)' <=> In(x, pipe) /\ x # r
    BY <2>1, <2>2 DEF Once, In
  <2>5. host.cur = None
    BY <2>2 DEF Inv, Types
  <2>6. \A q \in Req : ext'[q] = IF q = r THEN "read" ELSE ext[q]
    BY <1>1, <2>2
  <2>7. CASE Answer({r}) /\ UNCHANGED <<host, waits, up, conn>>
    <3>1. \A q \in Req : answers'[q] = IF q = r THEN answers[q] + 1 ELSE answers[q]
      BY <1>3, <2>7
    <3>2. ASSUME NEW q \in Req PROVE Line(q)'
      <4>1. In(q, up)' <=> In(q, up)
        BY <2>7 DEF In
      <4>. HIDE DEF In
      <4> QED BY <1>1, <2>3, <2>4, <2>6, <2>7, <3>1, <4>1 DEF Inv, Line
    <3> QED BY <1>1, <2>4, <2>7, <3>2 DEF Once
  <2>8. CASE waits' = waits \cup {r} /\ up' = Append(up, r) /\ UNCHANGED <<answers, host, conn>>
    <3>1. Once(up)' /\ \A x : In(x, up)' <=> In(x, up) \/ x = r
      BY <1>1, <2>1, <2>3, <2>8, JoinsLast DEF Once, In
    <3>2. ASSUME NEW q \in Req PROVE Line(q)'
      <4>. HIDE DEF In
      <4> QED BY <1>1, <2>3, <2>4, <2>6, <2>8, <3>1 DEF Inv, Line
    <3> QED BY <1>1, <2>4, <2>8, <3>1, <3>2
  <2>9. CASE /\ host' = [host EXCEPT !.at = "connecting", !.cur = r, !.gap = TRUE]
             /\ \E c \in Conns \ Used : conn' = [conn EXCEPT ![c] = "hello"]
             /\ UNCHANGED <<answers, waits, up>>
    <3>1. host'.cur = r
      BY <1>1, <2>9 DEF Hosts
    <3>2. ASSUME NEW q \in Req PROVE Line(q)'
      <4>1. In(q, up)' <=> In(q, up)
        BY <2>9 DEF In
      <4>2. q # None
        BY ServiceAssumption
      <4>. HIDE DEF In
      <4> QED BY <1>1, <2>3, <2>4, <2>5, <2>6, <2>9, <3>1, <4>1, <4>2 DEF Inv, Line
    <3>3. \A c \in Conns : conn[c] \notin {"unused", "released"} =>
                             conn'[c] \notin {"unused", "released"}
      BY <1>1, <2>9
    <3> QED BY <1>1, <2>4, <2>9, <3>2, <3>3 DEF Once
  <2> QED BY <2>2, <2>7, <2>8, <2>9
<1>7. CASE Connected
  <2>. DEFINE r == host.cur
  <2>1. /\ waits' = waits \cup {r} /\ up' = Append(up, r) /\ host'.cur = None /\ r \in Req
        /\ UNCHANGED <<ext, answers, pipe, conn>>
    BY <1>1, <1>7 DEF Connected, Sends, daemonVars, Inv, Types, Hosts
  <2>2. answers[r] = 0 /\ r \notin waits /\ ~In(r, up) /\ task[r].at = "none" /\ ext[r] = "read"
    BY <1>1, <2>1 DEF Inv, Line
  <2>. HIDE DEF r
  <2>3. Once(up)' /\ \A x : In(x, up)' <=> In(x, up) \/ x = r
    BY <1>1, <2>1, <2>2, JoinsLast DEF Once, In
  <2>4. ASSUME NEW q \in Req PROVE Line(q)'
    <3>1. In(q, pipe)' <=> In(q, pipe)
      BY <2>1 DEF In
    <3>2. q # None
      BY ServiceAssumption
    <3>. HIDE DEF In
    <3> QED BY <1>1, <2>1, <2>2, <2>3, <3>1, <3>2 DEF Inv, Line
  <2> QED BY <1>1, <2>1, <2>3, <2>4 DEF Once
<1>8. CASE ConnectFails
  <2>1. /\ Answer({host.cur}) /\ host'.cur = None /\ host.cur \in Req
        /\ UNCHANGED <<ext, pipe, waits, up, conn>>
    BY <1>1, <1>8 DEF ConnectFails, daemonVars, Inv, Types, Hosts
  <2>2. \A q \in Req : answers'[q] = IF q = host.cur THEN answers[q] + 1 ELSE answers[q]
    BY <1>3, <2>1
  <2>3. ASSUME NEW q \in Req PROVE Line(q)'
    <3>1. (In(q, pipe)' <=> In(q, pipe)) /\ (In(q, up)' <=> In(q, up)) /\ q # None
      BY <2>1, ServiceAssumption DEF In
    <3>. HIDE DEF In
    <3> QED BY <1>1, <2>1, <2>2, <3>1 DEF Inv, Line
  <2> QED BY <1>4, <2>1, <2>3
<1>9. CASE FromDaemon
  <2>. DEFINE r == Head(down).req
  <2>1. /\ Answer(waits \cap {r}) /\ waits' = waits \ {r}
        /\ UNCHANGED <<ext, pipe, host, up, conn>>
    BY <1>9 DEF FromDaemon, daemonVars
  <2>. HIDE DEF r
  <2>2. \A q \in Req : answers'[q] = IF q \in waits \cap {r} THEN answers[q] + 1 ELSE answers[q]
    BY <1>3, <2>1
  <2>3. ASSUME NEW q \in Req PROVE Line(q)'
    <3>1. (In(q, pipe)' <=> In(q, pipe)) /\ (In(q, up)' <=> In(q, up))
      BY <2>1 DEF In
    <3>. HIDE DEF In
    <3> QED BY <1>1, <2>1, <2>2, <3>1 DEF Inv, Line
  <2> QED BY <1>4, <2>1, <2>3
<1>10. CASE DaemonGone
  <2>1. /\ Answer(waits) /\ waits' = {} /\ up' = << >> /\ UNCHANGED <<ext, pipe, host, conn>>
    BY <1>10 DEF DaemonGone, GoneAnswers, daemonVars
  <2>2. \A q \in Req : answers'[q] = IF q \in waits THEN answers[q] + 1 ELSE answers[q]
    BY <1>3, <2>1
  <2>3. Once(up)' /\ \A x : ~In(x, up)'
    BY <2>1 DEF Once, In
  <2>4. ASSUME NEW q \in Req PROVE Line(q)'
    <3>1. In(q, pipe)' <=> In(q, pipe)
      BY <2>1 DEF In
    <3>. HIDE DEF In
    <3> QED BY <1>1, <2>1, <2>2, <2>3, <3>1 DEF Inv, Line
  <2> QED BY <1>1, <2>1, <2>3, <2>4 DEF Once
<1>11. CASE SecondPasses \/ PortCloses
  <2>1. /\ host'.cur \in {host.cur, None} /\ UNCHANGED <<ext, answers, pipe, waits, up, conn>>
    BY <1>1, <1>11 DEF SecondPasses, PortCloses, daemonVars, Hosts
  <2>2. ASSUME NEW q \in Req PROVE Line(q)'
    <3>1. (In(q, pipe)' <=> In(q, pipe)) /\ (In(q, up)' <=> In(q, up)) /\ q # None
      BY <2>1, ServiceAssumption DEF In
    <3>. HIDE DEF In
    <3> QED BY <1>1, <2>1, <3>1 DEF Inv, Line
  <2> QED BY <1>4, <2>1, <2>2
<1> QED BY <1>5, <1>6, <1>7, <1>8, <1>9, <1>10, <1>11


LEMMA InvInit == Init => Inv
<1>. SUFFICES ASSUME Init PROVE Inv
  OBVIOUS
<1>1. Types
  BY TypeInit
<1>2. ASSUME NEW r \in Req PROVE Line(r) /\ Held(r)
  BY ServiceAssumption DEF Init, Line, Held, In, Active, NoTask
<1> QED BY <1>1, <1>2 DEF Init, Inv, Once

HostNext ==
  \/ \E r \in Req : ExtensionAsks(r)
  \/ FromExtension \/ Connected \/ ConnectFails \/ FromDaemon \/ DaemonGone
  \/ SecondPasses \/ PortCloses

LEMMA NextParts == Next => HostNext \/ DaemonNext
BY DEF Next, HostNext, DaemonNext, HostSteps

LEMMA InvNext == Inv /\ [Next]_vars => Inv'
<1>. SUFFICES ASSUME Inv, [Next]_vars PROVE Inv'
  OBVIOUS
<1>1. CASE UNCHANGED vars
  <2>1. UNCHANGED <<ext, answers, pipe, host, sock, waits, up, conn, on, loaded, open, task,
                    bucket, cancels, refusals, history>>
    BY <1>1 DEF vars, hostVars, daemonVars, checkVars
  <2>2. Types'
    BY <2>1 DEF Inv, Types, TypeOK
  <2>3. ASSUME NEW r \in Req PROVE Line(r)' /\ Held(r)'
    BY <2>1 DEF Inv, Line, Held, In, Active
  <2> QED BY <2>1, <2>2, <2>3 DEF Inv, Once
<1>2. CASE HostNext
  BY <1>2, HostHolds DEF HostNext
<1>3. CASE DaemonNext
  <2>1. ASSUME NEW c \in Conns, ConnSteps(c) PROVE Inv'
    BY <2>1, ConnHolds, ReadsHolds DEF ConnSteps
  <2>2. ASSUME NEW r \in Req, CheckSteps(r) PROVE Inv'
    BY <2>2, CheckHolds, ResumesHolds DEF CheckSteps
  <2> QED BY <1>3, <2>1, <2>2, DialogHolds, WindowHolds DEF DaemonNext
<1> QED BY <1>1, <1>2, <1>3, NextParts

(* In every reachable state the pidfd a check is yet to hand to polkit is   *)
(* open (Conn.release_pidfd).                                               *)
THEOREM ServicePidfdLives == Spec => []PidfdLives
<1>1. Inv => PidfdLives
  BY DEF Inv, Held, Active, PidfdLives
<1> QED BY <1>1, InvInit, InvNext, PTL DEF Spec

-----------------------------------------------------------------------------
(* The refinement                                                          *)

Asked == {r \in Req : ext[r] # "new"}

(* What waits to be answered was asked and has no answer. *)
LEMMA HostPromise ==
  ASSUME Inv, HostNext
  PROVE  Promise!Next \/ UNCHANGED Promise!vars
<1>1. UNCHANGED history /\ ext \in [Req -> {"new", "pipe", "read"}] /\ answers \in [Req -> Nat]
      /\ pipe \in Seq(Req) /\ Once(pipe)
      /\ host \in Hosts
  BY DEF HostNext, ExtensionAsks, FromExtension, Connected, ConnectFails, FromDaemon, DaemonGone,
         SecondPasses, PortCloses, Inv, Types, TypeOK, Hosts
<1>2. ASSUME NEW S, S \subseteq Asked, \A r \in S : answers[r] = 0, Answer(S), Asked' = Asked
      PROVE  Promise!Next
  <2>1. S \in SUBSET Req
    BY <1>2 DEF Asked
  <2>2. answers' = [r \in Req |-> IF r \in S THEN 1 ELSE answers[r]]
    BY <1>2, <2>1 DEF Answer
  <2>3. Promise!Answer(S)
    BY <1>1, <1>2, <2>2 DEF Promise!Answer, Asked
  <2> QED BY <2>1, <2>3 DEF Promise!Next
<1>3. ASSUME UNCHANGED <<Asked, answers>> PROVE UNCHANGED Promise!vars
  BY <1>1, <1>3 DEF Promise!vars, Asked
<1>4. ASSUME NEW r \in Req, ExtensionAsks(r) PROVE Promise!Next
  <2>1. ext[r] = "new" /\ ext' = [ext EXCEPT ![r] = "pipe"] /\ answers' = answers
    BY <1>4 DEF ExtensionAsks
  <2>2. r \notin Asked /\ Asked' = Asked \cup {r}
    BY <1>1, <2>1 DEF Asked
  <2>3. Promise!Ask(r)
    BY <1>1, <2>1, <2>2 DEF Promise!Ask, Asked
  <2> QED BY <2>3 DEF Promise!Next
<1>5. CASE FromExtension
  <2>. DEFINE r == Head(pipe)
  <2>1. r \in Req /\ ext[r] = "pipe" /\ answers[r] = 0
    <3>1. r \in Req /\ In(r, pipe)
      BY <1>1, <1>5, HeadGone DEF FromExtension
    <3> QED BY <3>1 DEF Inv, Line
  <2>2. /\ ext' = [ext EXCEPT ![r] = "read"]
        /\ Answer({r}) \/ UNCHANGED answers
    BY <1>5 DEF FromExtension, HostAnswers, Sends, Connects
  <2>. HIDE DEF r
  <2>3. Asked' = Asked /\ {r} \subseteq Asked
    BY <1>1, <2>1, <2>2 DEF Asked
  <2> QED BY <1>2, <1>3, <2>1, <2>2, <2>3
<1>6. CASE ConnectFails
  <2>1. /\ Answer({host.cur}) /\ host.cur \in Req /\ UNCHANGED ext
    BY <1>1, <1>6 DEF ConnectFails, Inv, Types, Hosts
  <2>2. ext[host.cur] = "read" /\ answers[host.cur] = 0 /\ Asked' = Asked
    BY <1>1, <2>1 DEF Inv, Line, Asked
  <2>3. {host.cur} \subseteq Asked
    BY <2>1, <2>2 DEF Asked
  <2> QED BY <1>2, <2>1, <2>2, <2>3
<1>7. \A r \in waits : r \in Asked /\ answers[r] = 0
  BY <1>1 DEF Inv, Types, TypeOK, Line, Asked
<1>8. CASE FromDaemon
  <2>1. Answer(waits \cap {Head(down).req}) /\ Asked' = Asked
    BY <1>8 DEF FromDaemon, Asked
  <2> QED BY <1>2, <1>7, <2>1
<1>9. CASE DaemonGone
  <2>1. Answer(waits) /\ Asked' = Asked
    BY <1>9 DEF DaemonGone, GoneAnswers, Asked
  <2> QED BY <1>2, <1>7, <2>1
<1>10. CASE Connected \/ SecondPasses \/ PortCloses
  <2>1. UNCHANGED <<Asked, answers>>
    BY <1>10 DEF Connected, Sends, SecondPasses, PortCloses, Asked
  <2> QED BY <1>3, <2>1
<1> QED BY <1>4, <1>5, <1>6, <1>8, <1>9, <1>10 DEF HostNext

(* A cancel that counts finds its request unfilled, a fill its approval,    *)
(* and no cancel before it.                                                 *)
LEMMA DaemonPromise ==
  ASSUME Inv, DaemonNext
  PROVE  Promise!Next \/ UNCHANGED Promise!vars
<1>1. UNCHANGED <<Asked, answers>>
  <2>1. ASSUME NEW c \in Conns, ConnSteps(c) PROVE UNCHANGED hostVars
    BY <2>1 DEF ConnSteps, HelloLoads, HelloAccepted, HelloRefused, Detach, Reads
  <2>2. ASSUME NEW r \in Req, CheckSteps(r) \/ \E m \in Message : Delivers(r, m)
        PROVE  UNCHANGED hostVars
    BY <2>2 DEF CheckSteps, CheckStarts, CheckCalls, CancelCall, Resumes, Delivers
  <2>3. ASSUME \/ WindowLoads \/ Loaded \/ Unlock \/ Lock \/ TurnsOff \/ TurnsOn
               \/ PolkitdDies \/ BusCloses \/ MinutePasses \/ Restart
        PROVE  UNCHANGED hostVars
    BY <2>3 DEF WindowLoads, Loaded, Unlock, Lock, TurnsOff, TurnsOn, PolkitdDies, BusCloses,
                MinutePasses, Restart
  <2>4. UNCHANGED hostVars
    BY <2>1, <2>2, <2>3 DEF DaemonNext
  <2> QED BY <2>4 DEF Asked, hostVars
<1>2. history \in Histories /\ task \in [Req -> Tasks] /\ ext \in [Req -> {"new", "pipe", "read"}]
  BY DEF Inv, Types, TypeOK, Tasks
<1>3. \A r \in Req : Active(r) => r \in Asked /\ r \notin history.filled
  BY <1>2 DEF Inv, Line, Held, Active, Asked
<1>4. ASSUME /\ history'.approved = history.approved /\ history'.off = history.off
             /\ history'.filled = history.filled
      PROVE  UNCHANGED Promise!vars
  BY <1>1, <1>4 DEF Promise!vars, Asked
<1>5. ASSUME NEW S \in SUBSET Req, \A r \in S : Active(r), \A r, q \in S : r = q, CallOff(S)
      PROVE  Promise!Next \/ UNCHANGED Promise!vars
  <2>1. /\ history'.off = history.off \cup S /\ history'.approved = history.approved
        /\ history'.filled = history.filled
    BY <1>2, <1>5 DEF CallOff, Histories
  <2>2. CASE S = {}
    BY <1>4, <2>1, <2>2
  <2>3. CASE S # {}
    <3>1. PICK r \in Req : S = {r}
      BY <1>5, <2>3
    <3>2. Promise!CallOff(r)
      BY <1>1, <1>3, <1>5, <2>1, <3>1 DEF Promise!CallOff, Asked
    <3> QED BY <3>2 DEF Promise!Next
  <2> QED BY <2>2, <2>3
<1>6. \A r \in PendingOf(Req) : r \in Req /\ Active(r) /\ r = bucket
  BY ServiceAssumption DEF PendingOf, Inv, Types, TypeOK, Active
<1>7. ASSUME NEW c \in Conns, Detach(c) PROVE Promise!Next \/ UNCHANGED Promise!vars
  <2>. DEFINE S == PendingOf(Running(c))
  <2>1. CallOff(S) /\ S \subseteq PendingOf(Req)
    BY <1>7 DEF Detach, PendingOf, Running
  <2>. HIDE DEF S
  <2> QED BY <1>5, <1>6, <2>1
<1>8. CASE Lock
  <2>1. CallOff(PendingOf(Req)) /\ PendingOf(Req) \in SUBSET Req
    BY <1>8 DEF Lock, PendingOf
  <2> QED BY <1>5, <1>6, <2>1
<1>9. CASE (\E r \in Req, m \in Message : Delivers(r, m)) \/ PolkitdDies \/ BusCloses
  <2>1. /\ history'.filled = history.filled /\ history'.off = history.off
        /\ \E r \in Req : /\ history'.approved \in {history.approved, history.approved \cup {r}}
                          /\ Active(r)
    BY <1>9, DialogTypes DEF Inv
  <2>2. PICK r \in Req : /\ history'.approved \in {history.approved, history.approved \cup {r}}
                         /\ Active(r)
    BY <2>1
  <2>3. CASE history'.approved = history.approved
    BY <1>4, <2>1, <2>3
  <2>4. CASE history'.approved = history.approved \cup {r} /\ r \notin history.approved
    <3>1. Promise!Approve(r)
      BY <1>1, <1>3, <2>1, <2>2, <2>4 DEF Promise!Approve, Asked
    <3> QED BY <3>1 DEF Promise!Next
  <2> QED BY <2>2, <2>3, <2>4
<1>10. ASSUME NEW r \in Req, Resumes(r) PROVE Promise!Next \/ UNCHANGED Promise!vars
  <2>1. CASE history' = history
    BY <1>4, <2>1
  <2>2. CASE Outcome(r) = "yes" /\ history' = [history EXCEPT !.filled = @ \cup {r}]
    <3>1. task[r].said = "yes" /\ ~task[r].off /\ Active(r)
      BY <1>10, <2>2 DEF Outcome, Resumes, Active
    <3>2. r \in history.approved /\ r \notin history.off \cup history.filled
      BY <3>1 DEF Inv, Held
    <3>3. /\ history'.filled = history.filled \cup {r} /\ history'.off = history.off
          /\ history'.approved = history.approved
      BY <1>2, <2>2 DEF Histories
    <3>4. Promise!Fill(r)
      BY <1>1, <3>2, <3>3 DEF Promise!Fill, Asked
    <3> QED BY <3>4 DEF Promise!Next
  <2> QED BY <1>10, <2>1, <2>2 DEF Resumes
<1>11. ASSUME UNCHANGED history PROVE UNCHANGED Promise!vars
  BY <1>4, <1>11
<1>12. ASSUME NEW c \in Conns, HelloRefused(c) PROVE UNCHANGED Promise!vars
  <2>1. history' \in {history, [history EXCEPT !.wrong = @ \/ on.disk]}
    BY <1>12 DEF HelloRefused
  <2> QED BY <1>2, <1>4, <2>1 DEF Histories
<1>13. ASSUME NEW c \in Conns, HelloLoads(c) \/ HelloAccepted(c) \/ Reads(c) PROVE UNCHANGED history
  BY <1>13 DEF HelloLoads, HelloAccepted, Reads
<1>14. ASSUME NEW r \in Req, CheckStarts(r) \/ CheckCalls(r) \/ CancelCall(r) PROVE UNCHANGED history
  BY <1>14 DEF CheckStarts, CheckCalls, CancelCall
<1>15. ASSUME WindowLoads \/ Loaded \/ Unlock \/ TurnsOff \/ TurnsOn \/ MinutePasses \/ Restart
       PROVE  UNCHANGED history
  BY <1>15 DEF WindowLoads, Loaded, Unlock, TurnsOff, TurnsOn, MinutePasses, Restart
<1> QED
  BY <1>7, <1>8, <1>9, <1>10, <1>11, <1>12, <1>13, <1>14, <1>15 DEF DaemonNext, ConnSteps, CheckSteps

(* Host, daemon and polkit together implement Fills: every request gets at  *)
(* most one answer, and every fill follows its approval and no cancel.      *)
THEOREM ServiceKeepsPromise == Spec => KeepsPromise
<1>1. Init => Promise!Init
  BY DEF Init, Promise!Init
<1>2. Inv /\ [Next]_vars => [Promise!Next]_Promise!vars
  <2>1. CASE UNCHANGED vars
    BY <2>1 DEF vars, hostVars, Promise!vars
  <2> QED BY <2>1, NextParts, HostPromise, DaemonPromise
<1> QED BY <1>1, <1>2, InvInit, InvNext, PTL DEF Spec, KeepsPromise, Promise!Spec

-----------------------------------------------------------------------------
(* What Fills promises, in plain terms, and so of Service *)

Kept == Promise!TypeOK /\ Promise!AnsweredOnce /\ Promise!FillsApproved

LEMMA KeptNext == Kept /\ [Promise!Next]_Promise!vars => Kept'
<1> SUFFICES ASSUME Kept, [Promise!Next]_Promise!vars PROVE Kept'
  OBVIOUS
<1> USE DEF Kept, Promise!TypeOK, Promise!AnsweredOnce, Promise!FillsApproved
<1>1. ASSUME NEW r \in Req, Promise!Ask(r) PROVE Kept'
  BY <1>1 DEF Promise!Ask
<1>2. ASSUME NEW r \in Req, Promise!Approve(r) PROVE Kept'
  BY <1>2 DEF Promise!Approve
<1>3. ASSUME NEW r \in Req, Promise!CallOff(r) PROVE Kept'
  BY <1>3 DEF Promise!CallOff
<1>4. ASSUME NEW r \in Req, Promise!Fill(r) PROVE Kept'
  BY <1>4 DEF Promise!Fill
<1>5. ASSUME NEW S \in SUBSET Req, Promise!Answer(S) PROVE Kept'
  BY <1>5 DEF Promise!Answer
<1>6. CASE UNCHANGED Promise!vars
  BY <1>6 DEF Promise!vars
<1> QED
  BY <1>1, <1>2, <1>3, <1>4, <1>5, <1>6 DEF Promise!Next

LEMMA KeptAlways == Spec => []Kept
<1>1. Promise!Init => Kept
  BY DEF Kept, Promise!Init, Promise!TypeOK, Promise!AnsweredOnce, Promise!FillsApproved
<1> QED BY <1>1, KeptNext, ServiceKeepsPromise, PTL DEF KeepsPromise, Promise!Spec

(* The extension counts at most one answer to a request, and none to one it *)
(* did not make, whatever is lost, refused or restarted (Host.pending).     *)
THEOREM ServiceOneAnswer == Spec => []Promise!AnsweredOnce
<1>1. Kept => Promise!AnsweredOnce
  BY DEF Kept
<1> QED BY <1>1, KeptAlways, PTL

(* An account leaves the daemon only for a request that was made and that a *)
(* person approved (Registry.authorize, Router).                            *)
THEOREM ServiceOnlyApproved == Spec => []Promise!FillsApproved
<1>1. Kept => Promise!FillsApproved
  BY DEF Kept
<1> QED BY <1>1, KeptAlways, PTL

(* A request that a lock or a hang-up called off is not filled any more,    *)
(* also when its approval crosses the cancel (Registry.cancel_prompts       *)
(* against authorize).                                                      *)
THEOREM ServiceCalledOffStaysEmpty == Spec => Promise!NeverAfterCallOff
<1>1. [Promise!Next]_Promise!vars
        => [(history.filled)' \ history.filled \subseteq history.approved \ history.off]_Promise!vars
  <2> SUFFICES ASSUME Promise!Next
               PROVE  (history.filled)' \ history.filled \subseteq history.approved \ history.off
    OBVIOUS
  <2>1. ASSUME NEW r \in Req, Promise!Ask(r) \/ Promise!Approve(r) \/ Promise!CallOff(r) \/ Promise!Fill(r)
        PROVE  (history.filled)' \ history.filled \subseteq history.approved \ history.off
    BY <2>1 DEF Promise!Ask, Promise!Approve, Promise!CallOff, Promise!Fill
  <2>2. ASSUME NEW S \in SUBSET Req, Promise!Answer(S)
        PROVE  (history.filled)' \ history.filled \subseteq history.approved \ history.off
    BY <2>2 DEF Promise!Answer
  <2> QED BY <2>1, <2>2 DEF Promise!Next
<1> QED
  BY <1>1, ServiceKeepsPromise, PTL DEF KeepsPromise, Promise!Spec, Promise!NeverAfterCallOff

=============================================================================
