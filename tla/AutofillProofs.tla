---------------------------- MODULE AutofillProofs ----------------------------
(***************************************************************************)
(* The theorems on Autofill: for any connections, entries, records, pages  *)
(* and bounds, accounts are named only where a person approved it since    *)
(* the last lock (NamesNeedApproval), and a password goes out only for a   *)
(* page and an entry approved since then, on a handle of the unlock and on *)
(* a record that matches the page (FillIsApproved).                        *)
(*                                                                         *)
(* Both speak of the answer alone and are not inductive.  What carries the *)
(* second is Sound, below; what carries the first is Earned: whatever a    *)
(* connection holds in the current epoch - autofill_epoch, autofill_names, *)
(* a request whose dialog is behind it - has an approval of this epoch     *)
(* behind it, and nothing it holds is of a later epoch, so that a lock,    *)
(* which takes all approvals, takes all that they earned.                  *)
(***************************************************************************)
EXTENDS Autofill, FiniteSetTheorems, TLAPS

Hosts == {ParseOrigin(o) : o \in Pages} \cup {Gone}
Records == (UNION {Versions[i] : i \in Ids}) \cup {Gone}
Ops == {"none", "query", "names", "unlock", "fill"}
Places == {"none", "list", "resolve", "match", "dialog", "unlock", "rematch", "open"}
Requests == [op : Ops, host : Hosts, at : Places, id : Ids \cup {Gone}, key : Nat,
             epoch : Nat, seen : Records, cut : BOOLEAN]

Types ==
  /\ epoch \in Nat \ {0}
  /\ filled \in [Conns -> Nat]
  /\ names \in [Conns -> [epoch : Nat, hosts : SUBSET Hosts]]
  /\ metas \in [Ids -> Records]
  /\ drawn \in Seq(Nat)
  /\ req \in [Conns -> Requests]

By(c, op) == \E a \in approved : a.conn = c /\ a.op = op
For(c, h) == \E a \in approved : a.conn = c /\ a.host = h

Earned(c) ==
  /\ filled[c] <= epoch /\ names[c].epoch <= epoch /\ req[c].epoch <= epoch
  /\ filled[c] = epoch => By(c, "fill")
  /\ names[c].epoch = epoch => \A h \in names[c].hosts : For(c, h)
  /\ req[c].at = "unlock" /\ req[c].epoch = epoch => For(c, req[c].host)
  /\ req[c].at \in {"rematch", "open"} /\ ~req[c].cut => By(c, "fill")

IInv == Types /\ (\A c \in Conns : Earned(c)) /\ NamesNeedApproval

-----------------------------------------------------------------------------

LEMMA NoReqType == NoReq \in Requests /\ NoReq.epoch = 0 /\ NoReq.at = "none"
<1>1. Gone \in Hosts /\ Gone \in Records
  BY DEF Hosts, Records
<1> QED BY <1>1 DEF NoReq, Requests, Ops, Places

(* A request that moves on keeps the rest of itself. *)
LEMMA Moved ==
  ASSUME NEW r \in Requests, NEW at \in Places
  PROVE  LET q == [r EXCEPT !.at = at] IN
         /\ q \in Requests /\ q.epoch = r.epoch /\ q.at = at /\ q.cut = r.cut
         /\ q.host = r.host /\ q.op = r.op
BY DEF Requests

LEMMA InitHolds == Init => IInv
<1>. SUFFICES ASSUME Init PROVE IInv
  OBVIOUS
<1>1. Types
  <2>1. metas \in [Ids -> Records]
    BY DEF Init, Records
  <2>2. drawn \in Seq(Nat)
    BY DEF Init
  <2> QED BY <2>1, <2>2, NoReqType DEF Init, Types, NoNames
<1>2. ASSUME NEW c \in Conns PROVE Earned(c)
  BY NoReqType DEF Init, Earned, NoNames
<1>3. NamesNeedApproval
  BY DEF Init, NamesNeedApproval, NoOut
<1> QED BY <1>1, <1>2, <1>3 DEF IInv

(* An answer that is no list asks for nothing. *)
LEMMA QuietAnswer ==
  ASSUME out' = NoOut PROVE NamesNeedApproval'
BY DEF NamesNeedApproval, NoOut

(* A lock: whatever was earned is of an epoch that is over. *)
LEMMA LockHolds ==
  ASSUME Types, \A c \in Conns : Earned(c), LockStep, UNCHANGED metas,
         \A c \in Conns : /\ filled'[c] \in {0, filled[c]}
                          /\ names'[c] \in {NoNames, names[c]},
         filled' \in [Conns -> Nat],
         names' \in [Conns -> [epoch : Nat, hosts : SUBSET Hosts]]
  PROVE  Types' /\ \A c \in Conns : Earned(c)'
<1>1. ASSUME NEW c \in Conns
      PROVE  /\ req'[c] \in Requests /\ req'[c].epoch <= epoch
             /\ req'[c].at \in {"rematch", "open"} => req'[c].cut
  <2>1. req'[c] = Interrupted(req[c]) /\ req[c] \in Requests /\ req[c].epoch <= epoch
    BY DEF LockStep, Types, Earned
  <2>2. CASE req[c].at = "dialog"
    BY <2>1, <2>2, NoReqType DEF Interrupted, Types
  <2>3. CASE req[c].at = "none"
    BY <2>1, <2>3 DEF Interrupted
  <2>4. CASE req[c].at \notin {"dialog", "none"}
    BY <2>1, <2>4 DEF Interrupted, Requests
  <2> QED BY <2>2, <2>3, <2>4
<1>2. Types'
  BY <1>1 DEF Types, LockStep
<1>3. ASSUME NEW c \in Conns PROVE Earned(c)'
  <2>1. epoch \in Nat /\ epoch' = epoch + 1
    BY DEF Types, LockStep
  <2>2. filled'[c] <= epoch /\ filled'[c] \in Nat
    BY <2>1 DEF Earned
  <2>3. names'[c].epoch <= epoch /\ names'[c].epoch \in Nat
    BY <2>1 DEF Earned, NoNames
  <2>4. req'[c].epoch \in Nat
    BY <1>1 DEF Requests
  <2> QED BY <1>1, <2>1, <2>2, <2>3, <2>4 DEF Earned
<1> QED BY <1>2, <1>3

(* What one connection's request is, and the answer it leaves, is all a    *)
(* step of that request changes.                                           *)
LEMMA OneStep ==
  ASSUME IInv, NEW c \in Conns, NEW r \in Requests,
         req' = [req EXCEPT ![c] = r], epoch' = epoch, approved \subseteq approved',
         filled' = filled, names' = names, metas' = metas, drawn' = drawn,
         r.epoch <= epoch,
         r.at # "unlock",
         r.at \in {"rematch", "open"} /\ ~r.cut => \E a \in approved' : a.conn = c /\ a.op = "fill",
         NamesNeedApproval'
  PROVE  IInv'
<1>1. Types'
  BY DEF IInv, Types
<1>2. ASSUME NEW d \in Conns PROVE Earned(d)'
  <2>1. req'[d] = IF d = c THEN r ELSE req[d]
    BY DEF IInv, Types
  <2> QED BY <2>1 DEF IInv, Earned, By, For
<1> QED BY <1>1, <1>2 DEF IInv

(* A request as it starts. *)
LEMMA NewRequest ==
  ASSUME NEW o \in Pages, NEW op \in Ops
  PROVE  /\ Request(op, ParseOrigin(o)) \in Requests
         /\ Request(op, ParseOrigin(o)).epoch = 0
<1>1. ParseOrigin(o) \in Hosts
  BY DEF Hosts
<1> QED BY <1>1, NoReqType DEF Request, Requests

LEMMA StartHolds ==
  ASSUME IInv, NEW c \in Conns, NEW o \in Pages,
         Query(c, o) \/ Names(c, o) \/ (\E k \in DOMAIN drawn, i \in Ids : Fill(c, o, k, i))
  PROVE  IInv'
<1>1. PICK r \in Requests : /\ req' = [req EXCEPT ![c] = r] /\ r.epoch = 0
                            /\ r.at \notin {"unlock", "rematch", "open"}
  <2>. DEFINE R(op) == Request(op, ParseOrigin(o))
              Fine(r) == r \in Requests /\ r.epoch = 0 /\ r.at \notin {"unlock", "rematch", "open"}
  <2>1. ASSUME NEW op \in Ops PROVE R(op) \in Requests /\ R(op).epoch = 0
    BY NewRequest
  <2>2. ASSUME NEW op \in Ops, NEW at \in {"list", "dialog"}
        PROVE  Fine([R(op) EXCEPT !.at = at])
    <3>1. at \in Places
      BY DEF Places
    <3> HIDE DEF R
    <3> QED BY <2>1, <3>1, Moved
  <2>3. Fine(NoReq)
    BY NoReqType
  <2>4. CASE Query(c, o)
    <3>1. Fine([R("query") EXCEPT !.at = "list"])
      BY <2>2 DEF Ops
    <3>2. req' = [req EXCEPT ![c] = [R("query") EXCEPT !.at = "list"]]
      BY <2>4 DEF Query
    <3> HIDE DEF R
    <3> QED BY <3>1, <3>2
  <2>5. CASE Names(c, o)
    <3>1. /\ Fine([R("query") EXCEPT !.at = "list"])
          /\ Fine([R("names") EXCEPT !.at = "dialog"]) /\ Fine([R("unlock") EXCEPT !.at = "dialog"])
      BY <2>2 DEF Ops
    <3>2. \/ req' = [req EXCEPT ![c] = [R("query") EXCEPT !.at = "list"]]
          \/ req' = [req EXCEPT ![c] = [R("names") EXCEPT !.at = "dialog"]]
          \/ req' = [req EXCEPT ![c] = [R("unlock") EXCEPT !.at = "dialog"]]
          \/ req' = [req EXCEPT ![c] = NoReq]
      BY <2>5 DEF Names, Asks
    <3> HIDE DEF R
    <3> QED BY <2>3, <3>1, <3>2
  <2>6. ASSUME NEW k \in DOMAIN drawn, NEW i \in Ids, Fill(c, o, k, i)
        PROVE  \E r \in Requests : /\ req' = [req EXCEPT ![c] = r] /\ r.epoch = 0
                                   /\ r.at \notin {"unlock", "rematch", "open"}
    <3>. DEFINE q == [R("fill") EXCEPT !.at = "resolve", !.id = i, !.key = IF k = key THEN k ELSE 0]
    <3>1. (IF k = key THEN k ELSE 0) \in Nat
      BY DEF IInv, Types
    <3>2. R("fill") \in Requests /\ R("fill").epoch = 0
      BY <2>1 DEF Ops
    <3>3. req' = [req EXCEPT ![c] = q]
      BY <2>6 DEF Fill
    <3> HIDE DEF R
    <3>4. Fine(q)
      BY <3>1, <3>2 DEF Requests, Places
    <3> QED BY <3>3, <3>4
  <2> QED BY <2>4, <2>5, <2>6
<1>2. Starts(c, o)
  BY DEF Query, Names, Fill
<1>3. UNCHANGED <<epoch, approved, filled, names, metas, drawn>> /\ NamesNeedApproval'
  BY <1>2, QuietAnswer DEF Starts, sessionVars
<1>4. 0 <= epoch
  BY DEF IInv, Types
<1> QED BY <1>1, <1>3, <1>4, OneStep

LEMMA ListsHolds ==
  ASSUME IInv, NEW c \in Conns, Lists(c)
  PROVE  IInv'
<1>1. UNCHANGED <<epoch, approved, filled, names, metas, drawn>>
      /\ req' = [req EXCEPT ![c] = NoReq]
  BY DEF Lists, Ends, others, sessionVars
<1>2. NamesNeedApproval'
  <2>1. CASE out' = NoOut
    BY <2>1, QuietAnswer
  <2>2. CASE Answers(c)
    <3>1. out'.conn = c /\ out'.host = req[c].host
          /\ out'.named = (Approved(c) \/ NamesApproved(c, req[c].host))
      BY <2>2 DEF Answers
    <3>2. Approved(c) => By(c, "fill")
      BY DEF IInv, Earned, Approved
    <3>3. NamesApproved(c, req[c].host) => For(c, req[c].host)
      BY DEF IInv, Earned, NamesApproved
    <3> QED BY <1>1, <3>1, <3>2, <3>3 DEF NamesNeedApproval, By, For
  <2> QED BY <2>1, <2>2 DEF Lists
<1>3. 0 <= epoch
  BY DEF IInv, Types
<1> QED BY <1>1, <1>2, <1>3, NoReqType, OneStep

LEMMA FillHolds ==
  ASSUME IInv, NEW c \in Conns,
         Resolves(c) \/ MatchesFirst(c) \/ Refused(c) \/ FillGiven(c) \/ Rematches(c)
  PROVE  IInv'
<1>1. /\ req[c] \in Requests /\ req[c].epoch <= epoch /\ epoch \in Nat
      /\ metas[req[c].id] \in Records \/ req[c].id \notin Ids
  BY DEF IInv, Types, Earned
<1>2. UNCHANGED <<epoch, filled, names, metas, drawn>> /\ NamesNeedApproval'
  BY QuietAnswer
  DEF Resolves, MatchesFirst, Refused, FillGiven, Rematches, others, sessionVars
<1>3. CASE Ends(c) /\ approved \subseteq approved'
  <2>1. req' = [req EXCEPT ![c] = NoReq] /\ 0 <= epoch
    BY <1>1, <1>3 DEF Ends
  <2> QED BY <1>2, <1>3, <2>1, NoReqType, OneStep
<1>4. CASE Resolves(c) /\ ~Ends(c)
  <2>. DEFINE r == [req[c] EXCEPT !.at = "match"]
  <2>1. r \in Requests /\ r.epoch = req[c].epoch /\ r.at = "match"
    BY <1>1, Moved DEF Places
  <2>2. req' = [req EXCEPT ![c] = r] /\ approved' = approved
    BY <1>4 DEF Resolves, Goes, IInv, Types
  <2> QED BY <1>1, <1>2, <2>1, <2>2, OneStep
<1>5. CASE MatchesFirst(c) /\ ~Ends(c)
  <2>. DEFINE r == [req[c] EXCEPT !.at = "dialog"]
  <2>1. r \in Requests /\ r.epoch = req[c].epoch /\ r.at = "dialog"
    BY <1>1, Moved DEF Places
  <2>2. req' = [req EXCEPT ![c] = r] /\ approved' = approved
    BY <1>5 DEF MatchesFirst, Asks, Ends
  <2> QED BY <1>1, <1>2, <2>1, <2>2, OneStep
<1>6. CASE FillGiven(c) /\ ~Ends(c)
  <2>. DEFINE r == [req[c] EXCEPT !.at = "rematch"]
  <2>1. r \in Requests /\ r.epoch = req[c].epoch /\ r.at = "rematch"
    BY <1>1, Moved DEF Places
  <2>2. req' = [req EXCEPT ![c] = r] /\ approved \subseteq approved'
    BY <1>6 DEF FillGiven, Approves, Goes, IInv, Types
  <2>. DEFINE a0 == [conn |-> c, op |-> "fill", host |-> req[c].host, id |-> req[c].id]
  <2>3. a0 \in approved' /\ a0.conn = c /\ a0.op = "fill"
    BY <1>6 DEF FillGiven, Approves
  <2> QED BY <1>1, <1>2, <2>1, <2>2, <2>3, OneStep
<1>7. CASE Rematches(c) /\ ~Ends(c)
  <2>1. req[c].at = "rematch" /\ MatchingMeta(c)
    BY <1>7 DEF Rematches
  <2>2. metas[req[c].id] \in Records /\ ~req[c].cut
    BY <1>1, <2>1 DEF MatchingMeta, Matches, Live
  <2>. DEFINE r == [req[c] EXCEPT !.at = "open", !.seen = metas[req[c].id]]
  <2>3. r \in Requests /\ r.epoch = req[c].epoch /\ r.at = "open" /\ r.cut = req[c].cut
    BY <1>1, <2>2 DEF Requests, Places
  <2>4. req' = [req EXCEPT ![c] = r] /\ approved' = approved
    BY <1>7, <2>1 DEF Rematches, IInv, Types
  <2>5. By(c, "fill")
    BY <2>1, <2>2 DEF IInv, Earned
  <2> QED BY <1>1, <1>2, <2>3, <2>4, <2>5, OneStep DEF By
<1>8. approved \subseteq approved'
  BY DEF Resolves, MatchesFirst, Refused, FillGiven, Rematches, Approves
<1> QED BY <1>3, <1>4, <1>5, <1>6, <1>7, <1>8 DEF Refused

(* The three steps that give a connection names, or its own unlock. *)
LEMMA GivenHolds ==
  ASSUME IInv, NEW c \in Conns, NamesGiven(c) \/ UnlockGiven(c) \/ Unlocks(c)
  PROVE  IInv'
<1>. DEFINE h == req[c].host
<1>1. /\ req[c] \in Requests /\ req[c].epoch <= epoch /\ epoch \in Nat \ {0} /\ h \in Hosts
      /\ epoch' = epoch /\ filled' = filled /\ metas' = metas /\ approved \subseteq approved'
      /\ NamesNeedApproval'
  BY QuietAnswer
  DEF NamesGiven, UnlockGiven, Unlocks, Approves, OpenAutofill, others, sessionVars, IInv,
      Types, Earned, Requests
<1>2. drawn' \in Seq(Nat)
  <2>1. drawn \in Seq(Nat) /\ Append(drawn, epoch) \in Seq(Nat)
    BY <1>1 DEF IInv, Types
  <2>2. drawn' = drawn \/ drawn' = Append(drawn, epoch)
    BY DEF NamesGiven, UnlockGiven, Unlocks, OpenAutofill, DrawKey, others, sessionVars
  <2> QED BY <2>1, <2>2
<1>. DEFINE Approvals(g) == \E a \in approved' : a.conn = c /\ a.host = g
            Moves(r) == /\ r \in Requests /\ r.epoch <= epoch /\ r.at \notin {"rematch", "open"}
                        /\ r.at = "unlock" => Approvals(r.host)
            Holds(n) == /\ n \in [epoch : Nat, hosts : SUBSET Hosts] /\ n.epoch <= epoch
                        /\ n = names[c] \/ \A g \in n.hosts :
                             (g \in names[c].hosts /\ names[c].epoch = epoch) \/ Approvals(g)
<1>3. \E r, n : /\ req' = [req EXCEPT ![c] = r] /\ names' = [names EXCEPT ![c] = n]
                /\ Moves(r) /\ Holds(n)
  <2>. DEFINE q == [req[c] EXCEPT !.op = "query", !.at = "list"]
              u == [req[c] EXCEPT !.at = "unlock", !.epoch = epoch]
              one == [epoch |-> epoch, hosts |-> {h}]
              more == [epoch |-> epoch, hosts |->
                         {h} \cup IF names[c].epoch = epoch THEN names[c].hosts ELSE {}]
              a0 == [conn |-> c, op |-> req[c].op, host |-> h, id |-> req[c].id]
  <2>1. names[c] \in [epoch : Nat, hosts : SUBSET Hosts] /\ names[c].epoch <= epoch
        /\ names = [names EXCEPT ![c] = names[c]]
    BY DEF IInv, Types, Earned
  <2>2. Holds(names[c])
    BY <2>1
  <2>3. Moves(NoReq)
    BY <1>1, NoReqType
  <2>4. Moves(q)
    BY <1>1 DEF Requests, Ops, Places
  <2>5. Approvals(h) => Moves(u) /\ Holds(one) /\ Holds(more)
    <3>1. u \in Requests /\ u.epoch = epoch /\ u.at = "unlock" /\ u.host = h
      BY <1>1 DEF Requests, Places
    <3>2. Approvals(h) => Moves(u)
      BY <1>1, <3>1
    <3>3. one \in [epoch : Nat, hosts : SUBSET Hosts] /\ one.epoch = epoch /\ one.hosts = {h}
      BY <1>1
    <3>4. Approvals(h) => Holds(one)
      BY <1>1, <3>3
    <3>5. /\ more \in [epoch : Nat, hosts : SUBSET Hosts] /\ more.epoch = epoch
          /\ \A g \in more.hosts : g = h \/ (g \in names[c].hosts /\ names[c].epoch = epoch)
      BY <1>1, <2>1
    <3>6. Approvals(h) => Holds(more)
      BY <1>1, <3>5
    <3> QED BY <3>2, <3>4, <3>6
  <2>6. a0 \in approved' => Approvals(h)
    OBVIOUS
  <2>. HIDE DEF Moves, Holds, Approvals
  <2>7. CASE NamesGiven(c)
    <3>1. Approvals(h)
      BY <2>6, <2>7 DEF NamesGiven, Approves
    <3>2. \/ req' = [req EXCEPT ![c] = NoReq] /\ names' = names
          \/ req' = [req EXCEPT ![c] = q] /\ names' = [names EXCEPT ![c] = more]
      BY <2>7 DEF NamesGiven, Named, Ends, IInv, Types
    <3>. HIDE DEF q, more
    <3> QED BY <2>1, <2>2, <2>3, <2>4, <2>5, <3>1, <3>2
  <2>8. CASE UnlockGiven(c)
    <3>1. Approvals(h)
      BY <2>6, <2>8 DEF UnlockGiven, Approves
    <3>2. \/ req' = [req EXCEPT ![c] = NoReq] /\ names' = names
          \/ req' = [req EXCEPT ![c] = q] /\ names' = [names EXCEPT ![c] = one]
          \/ req' = [req EXCEPT ![c] = u] /\ names' = names
      BY <2>8 DEF UnlockGiven, Named, Ends, IInv, Types
    <3>. HIDE DEF q, u, one
    <3> QED BY <2>1, <2>2, <2>3, <2>4, <2>5, <3>1, <3>2
  <2>9. CASE Unlocks(c)
    <3>1. \/ req' = [req EXCEPT ![c] = NoReq] /\ names' = names
          \/ /\ req' = [req EXCEPT ![c] = q] /\ names' = [names EXCEPT ![c] = one]
             /\ req[c].at = "unlock" /\ req[c].epoch = epoch
      BY <2>9 DEF Unlocks, Named, Ends, IInv, Types
    <3>2. req[c].at = "unlock" /\ req[c].epoch = epoch => Approvals(h)
      BY <1>1 DEF IInv, Earned, For, Approvals
    <3>. HIDE DEF q, one
    <3> QED BY <2>1, <2>2, <2>3, <2>4, <2>5, <3>1, <3>2
  <2> QED BY <2>7, <2>8, <2>9
<1>4. PICK r, n : /\ req' = [req EXCEPT ![c] = r] /\ names' = [names EXCEPT ![c] = n]
                  /\ Moves(r) /\ Holds(n)
  BY <1>3
<1>5. Types'
  BY <1>1, <1>2, <1>4 DEF IInv, Types
<1>6. ASSUME NEW d \in Conns PROVE Earned(d)'
  <2>1. req'[d] = (IF d = c THEN r ELSE req[d]) /\ names'[d] = (IF d = c THEN n ELSE names[d])
    BY <1>4 DEF IInv, Types
  <2>2. CASE d # c
    BY <1>1, <2>1, <2>2 DEF IInv, Earned, By, For
  <2>3. CASE d = c
    BY <1>1, <1>4, <2>1, <2>3 DEF IInv, Earned, By, For
  <2> QED BY <2>2, <2>3
<1> QED BY <1>1, <1>5, <1>6 DEF IInv

LEMMA OpensHolds ==
  ASSUME IInv, NEW c \in Conns, Opens(c)
  PROVE  IInv'
<1>1. UNCHANGED <<epoch, approved, names, metas, drawn>> /\ req' = [req EXCEPT ![c] = NoReq]
  BY DEF Opens, Ends, others, sessionVars
<1>2. NamesNeedApproval'
  BY QuietAnswer DEF Opens, NamesNeedApproval
<1>3. CASE filled' = filled
  <2>1. 0 <= epoch
    BY DEF IInv, Types
  <2> QED BY <1>1, <1>2, <1>3, <2>1, NoReqType, OneStep
<1>4. CASE filled' = [filled EXCEPT ![c] = epoch] /\ ~req[c].cut
  <2>1. By(c, "fill")
    BY <1>4 DEF Opens, IInv, Earned
  <2>2. Types'
    BY <1>1, <1>4, NoReqType DEF IInv, Types
  <2>3. ASSUME NEW d \in Conns PROVE Earned(d)'
    <3>1. /\ req'[d] = (IF d = c THEN NoReq ELSE req[d])
          /\ filled'[d] = (IF d = c THEN epoch ELSE filled[d])
          /\ epoch \in Nat
      BY <1>1, <1>4 DEF IInv, Types
    <3> QED BY <1>1, <2>1, <3>1, NoReqType DEF IInv, Earned, By, For
  <2> QED BY <1>2, <2>2, <2>3 DEF IInv
<1> QED BY <1>3, <1>4 DEF Opens

LEMMA NextHolds == IInv /\ [Next]_vars => IInv'
<1>. SUFFICES ASSUME IInv, [Next]_vars PROVE IInv'
  OBVIOUS
<1>. USE DEF IInv
<1>1. CASE UNCHANGED vars
  BY <1>1 DEF vars, sessionVars, Types, Earned, By, For, NamesNeedApproval
<1>2. CASE OpenTier1
  <2>1. Types'
    BY <1>2 DEF OpenTier1, DrawKey, Types
  <2>2. \A c \in Conns : Earned(c)'
    BY <1>2 DEF OpenTier1, DrawKey, Types, Earned, By, For
  <2> QED BY <1>2, <2>1, <2>2, QuietAnswer DEF OpenTier1
<1>3. CASE Lock
  <2>1. Types' /\ \A c \in Conns : Earned(c)'
    BY <1>3, LockHolds DEF Lock, Types
  <2> QED BY <1>3, <2>1, QuietAnswer DEF Lock
<1>4. CASE AutofillTimeout
  <2>1. CASE window
    <3>1. Types' /\ \A c \in Conns : Earned(c)'
      BY <1>4, <2>1 DEF AutofillTimeout, CloseAutofill, Types, Earned, By, For
    <3> QED BY <1>4, <3>1, QuietAnswer DEF AutofillTimeout
  <2>2. CASE ~window
    <3>1. Types' /\ \A c \in Conns : Earned(c)'
      BY <1>4, <2>2, LockHolds DEF AutofillTimeout, CloseAutofill, Types
    <3> QED BY <1>4, <3>1, QuietAnswer DEF AutofillTimeout
  <2> QED BY <2>1, <2>2
<1>5. ASSUME NEW i \in Ids, RecordChanges(i) PROVE IInv'
  <2>1. Types'
    BY <1>5 DEF RecordChanges, sessionVars, Types, Records
  <2>2. \A c \in Conns : Earned(c)'
    BY <1>5 DEF RecordChanges, sessionVars, Earned, By, For
  <2> QED BY <1>5, <2>1, <2>2, QuietAnswer DEF RecordChanges
<1>6. ASSUME NEW c \in Conns, HangsUp(c) PROVE IInv'
  <2>1. /\ filled' \in [Conns -> Nat]
        /\ names' \in [Conns -> [epoch : Nat, hosts : SUBSET Hosts]]
        /\ \A d \in Conns : filled'[d] \in {0, filled[d]} /\ names'[d] \in {NoNames, names[d]}
    BY <1>6 DEF HangsUp, Types, NoNames
  <2>2. CASE lease = c /\ ~window
    <3>1. Types' /\ \A d \in Conns : Earned(d)'
      BY <1>6, <2>1, <2>2, LockHolds DEF HangsUp, CloseAutofill
    <3> QED BY <1>6, <3>1, QuietAnswer DEF HangsUp
  <2>3. CASE ~(lease = c /\ ~window)
    <3>1. UNCHANGED <<epoch, drawn, metas, req, approved>>
      BY <1>6, <2>3 DEF HangsUp, CloseAutofill, sessionVars
    <3>2. Types'
      BY <2>1, <3>1 DEF Types
    <3>3. ASSUME NEW d \in Conns PROVE Earned(d)'
      <4>1. names'[d] = NoNames => names'[d].hosts = {} /\ names'[d].epoch = 0
        BY DEF NoNames
      <4>2. epoch \in Nat /\ (filled'[d] = 0 => filled'[d] <= epoch)
        BY DEF Types
      <4>3. filled'[d] = filled[d] \/ d = c
        BY <1>6 DEF HangsUp, Types
      <4>4. epoch # 0
        BY DEF Types
      <4> QED BY <2>1, <3>1, <4>1, <4>2, <4>3, <4>4 DEF Earned, By, For
    <3> QED BY <1>6, <3>2, <3>3, QuietAnswer DEF HangsUp
  <2> QED BY <2>2, <2>3
<1>7. ASSUME NEW c \in Conns, NEW o \in Pages,
             Query(c, o) \/ Names(c, o) \/ (\E k \in DOMAIN drawn, i \in Ids : Fill(c, o, k, i))
      PROVE  IInv'
  BY <1>7, StartHolds
<1>8. ASSUME NEW c \in Conns, Lists(c) PROVE IInv'
  BY <1>8, ListsHolds
<1>9. ASSUME NEW c \in Conns,
             Resolves(c) \/ MatchesFirst(c) \/ Refused(c) \/ FillGiven(c) \/ Rematches(c)
      PROVE  IInv'
  BY <1>9, FillHolds
<1>10. ASSUME NEW c \in Conns, NamesGiven(c) \/ UnlockGiven(c) \/ Unlocks(c) PROVE IInv'
  BY <1>10, GivenHolds
<1>11. ASSUME NEW c \in Conns, Opens(c) PROVE IInv'
  BY <1>11, OpensHolds
<1> QED
  BY <1>1, <1>2, <1>3, <1>4, <1>5, <1>6, <1>7, <1>8, <1>9, <1>10, <1>11 DEF Next

(* In every reachable state an answer that names accounts has its approval *)
(* (handle_autofill_query, handle_autofill_names).                         *)
THEOREM AutofillNamesNeedApproval == Spec => []NamesNeedApproval
<1>1. IInv => NamesNeedApproval
  BY DEF IInv
<1> QED BY <1>1, InitHolds, NextHolds, PTL DEF Spec


-----------------------------------------------------------------------------
(***************************************************************************)
(* FillIsApproved.  A fill waits five times between its request and its    *)
(* answer, and what the answer rests on must survive each wait: the handle *)
(* is of the current unlock, the approval names this page and this entry,  *)
(* and the record read after the approval matches the page.  Sound says    *)
(* which of these a request holds at which place.  A lock spoils all three *)
(* at once, and it marks every request it finds.                           *)
(***************************************************************************)

KeyHolds(k) == k # 0 => k \in DOMAIN drawn /\ drawn[k] = epoch

ApprovedFill(c, h, i) ==
  \E a \in approved : a.conn = c /\ a.op = "fill" /\ a.host = h /\ a.id = i

Sound(c, r) ==
  /\ r.at = "none" => r.key = 0
  /\ r.at # "none" => r.host # Gone
  /\ r.at \in {"resolve", "match", "rematch", "open"} => r.op = "fill"
  /\ r.at \in {"match", "rematch", "open"} \/ (r.at = "dialog" /\ r.op = "fill") => r.key # 0
  /\ ~r.cut => KeyHolds(r.key)
  /\ r.at \in {"rematch", "open"} /\ ~r.cut => ApprovedFill(c, r.host, r.id)
  /\ r.at = "open" /\ ~r.cut => r.seen # Gone /\ MatchRank(r.host, r.seen) # Gone

(* What a fill that went out has behind it, the owner of the host aside.   *)
FillMatches ==
  out.kind = "password" =>
    /\ ApprovedFill(out.conn, out.host, out.id)
    /\ drawn[out.key] = out.epoch
    /\ out.host \in Hosts \ {Gone} /\ out.seen \in Records \ {Gone}
    /\ Fillable(out.seen) /\ MatchRank(out.host, out.seen) # Gone

FillInv ==
  /\ Types /\ key \in Nat /\ KeyHolds(key)
  /\ \A c \in Conns : Sound(c, req[c])
  /\ FillMatches

-----------------------------------------------------------------------------

LEMMA NoReqSound == ASSUME NEW c PROVE Sound(c, NoReq) /\ Sound(c, NoReq)'
BY DEF Sound, NoReq, KeyHolds

LEMMA QuietFill == ASSUME out'.kind # "password" PROVE FillMatches'
BY DEF FillMatches

(* A key drawn in this epoch stays of this epoch. *)
LEMMA KeysKept ==
  ASSUME Types, epoch' = epoch, drawn' \in {drawn, Append(drawn, epoch)}
  PROVE  \A k \in Nat : KeyHolds(k) => KeyHolds(k)'
<1>1. ASSUME NEW s \in Seq(Nat), NEW e \in Nat, NEW k \in DOMAIN s
      PROVE  k \in DOMAIN Append(s, e) /\ Append(s, e)[k] = s[k]
  OBVIOUS
<1>2. drawn \in Seq(Nat) /\ epoch \in Nat
  BY DEF Types
<1>3. \A k \in DOMAIN drawn : k \in DOMAIN drawn' /\ drawn'[k] = drawn[k]
  BY <1>1, <1>2
<1> QED BY <1>3 DEF KeyHolds

(* While the epoch lasts, what a request holds is not taken from it. *)
LEMMA SoundKept ==
  ASSUME Types, epoch' = epoch, drawn' \in {drawn, Append(drawn, epoch)},
         approved \subseteq approved', NEW c, NEW r \in Requests, Sound(c, r)
  PROVE  Sound(c, r)'
<1>1. KeyHolds(r.key) => KeyHolds(r.key)'
  BY KeysKept DEF Requests
<1>2. ApprovedFill(c, r.host, r.id) => ApprovedFill(c, r.host, r.id)'
  BY DEF ApprovedFill
<1>. HIDE DEF KeyHolds, ApprovedFill
<1> QED BY <1>1, <1>2 DEF Sound

(* A lock marks every request whose store call it finds under way. *)
LEMMA FillLock ==
  ASSUME FillInv, LockStep, Types', out' = NoOut
  PROVE  FillInv'
<1>1. ASSUME NEW c \in Conns PROVE Sound(c, req[c])'
  <2>1. req'[c] = Interrupted(req[c]) /\ req[c] \in Requests /\ Sound(c, req[c])
    BY DEF LockStep, FillInv, Types
  <2>2. CASE req[c].at = "dialog"
    BY <2>1, <2>2, NoReqSound DEF Interrupted, Sound, NoReq, KeyHolds
  <2>3. CASE req[c].at = "none"
    BY <2>1, <2>3 DEF Interrupted, Sound, KeyHolds
  <2>4. CASE req[c].at \notin {"dialog", "none"}
    <3>1. req'[c] = [req[c] EXCEPT !.cut = TRUE]
      BY <2>1, <2>4 DEF Interrupted
    <3> QED BY <2>1, <2>4, <3>1 DEF Sound, Requests
  <2> QED BY <2>2, <2>3, <2>4
<1>2. key' = 0
  BY DEF LockStep
<1>3. FillMatches'
  BY QuietFill DEF NoOut
<1> QED BY <1>1, <1>2, <1>3 DEF FillInv, KeyHolds

(* A step of one request. *)
LEMMA FillStep ==
  ASSUME FillInv, Types', NEW c \in Conns, NEW r \in Requests,
         req' = [req EXCEPT ![c] = r], epoch' = epoch, approved \subseteq approved',
         key' = key, drawn' = drawn, Sound(c, r)', FillMatches'
  PROVE  FillInv'
<1>1. ASSUME NEW d \in Conns PROVE Sound(d, req[d])'
  <2>1. req'[d] = IF d = c THEN r ELSE req[d]
    BY DEF FillInv, Types
  <2>2. req[d] \in Requests /\ Sound(d, req[d])
    BY DEF FillInv, Types
  <2>3. d = c /\ Sound(d, r)' => Sound(d, req[d])'
    BY <2>1 DEF Sound, ApprovedFill, KeyHolds
  <2>4. CASE d = c
    BY <2>3, <2>4
  <2>5. CASE d # c
    <3>1. req'[d] = req[d]
      BY <2>1, <2>5
    <3> QED BY <2>2, <3>1 DEF Sound, ApprovedFill, KeyHolds
  <2> QED BY <2>4, <2>5
<1>2. KeyHolds(key)'
  BY DEF FillInv, KeyHolds
<1> QED BY <1>1, <1>2 DEF FillInv

LEMMA FillInit == Init => FillInv
<1>. SUFFICES ASSUME Init PROVE FillInv
  OBVIOUS
<1>1. Types
  BY InitHolds DEF IInv
<1>2. \A c \in Conns : Sound(c, req[c])
  BY NoReqSound DEF Init
<1>3. FillMatches /\ KeyHolds(key) /\ key \in Nat
  BY DEF Init, FillMatches, NoOut, KeyHolds
<1> QED BY <1>1, <1>2, <1>3 DEF FillInv


(* The requests as they start. *)
LEMMA FillStarts ==
  ASSUME FillInv, Types', NEW c \in Conns, NEW o \in Pages,
         Query(c, o) \/ Names(c, o) \/ (\E k \in DOMAIN drawn, i \in Ids : Fill(c, o, k, i))
  PROVE  FillInv'
<1>. DEFINE h == ParseOrigin(o)
            Safe(r) == r.at \notin {"rematch", "open", "none"} /\ r.host = h /\ ~r.cut
<1>1. h # Gone /\ UNCHANGED <<epoch, key, drawn, approved>> /\ FillMatches'
  <2>1. Starts(c, o)
    BY DEF Query, Names, Fill
  <2>2. out'.kind # "password"
    BY <2>1 DEF Starts, NoOut
  <2>3. h # Gone /\ UNCHANGED <<epoch, key, drawn, approved>>
    BY <2>1 DEF Starts, sessionVars
  <2> QED BY <2>2, <2>3, QuietFill
<1>2. \/ req' = [req EXCEPT ![c] = [Request("query", h) EXCEPT !.at = "list"]]
      \/ req' = [req EXCEPT ![c] = [Request("names", h) EXCEPT !.at = "dialog"]]
      \/ req' = [req EXCEPT ![c] = [Request("unlock", h) EXCEPT !.at = "dialog"]]
      \/ req' = [req EXCEPT ![c] = NoReq]
      \/ \E k \in Nat, i \in Ids :
           /\ req' = [req EXCEPT ![c] = [Request("fill", h) EXCEPT
                                           !.at = "resolve", !.id = i, !.key = k]]
           /\ k \in {0, key}
  <2>1. CASE Query(c, o)
    BY <2>1 DEF Query
  <2>2. CASE Names(c, o)
    BY <2>2 DEF Names, Asks
  <2>3. ASSUME NEW k \in DOMAIN drawn, NEW i \in Ids, Fill(c, o, k, i)
        PROVE  req' = [req EXCEPT ![c] = [Request("fill", h) EXCEPT
                         !.at = "resolve", !.id = i, !.key = IF k = key THEN k ELSE 0]]
    BY <2>3 DEF Fill
  <2>4. 0 \in Nat /\ key \in Nat
    BY DEF FillInv
  <2> QED BY <2>1, <2>2, <2>3, <2>4
<1>3. \E r \in Requests : req' = [req EXCEPT ![c] = r] /\ Sound(c, r)'
  <2>1. ASSUME NEW op \in {"query", "names", "unlock"}, NEW at \in {"list", "dialog"}
        PROVE  /\ [Request(op, h) EXCEPT !.at = at] \in Requests
               /\ Sound(c, [Request(op, h) EXCEPT !.at = at])'
    <3>1. Request(op, h) \in Requests
      BY NewRequest DEF Ops
    <3>2. [Request(op, h) EXCEPT !.at = at] \in Requests
      BY <3>1, Moved DEF Places
    <3>3. [Request(op, h) EXCEPT !.at = at] = [NoReq EXCEPT !.op = op, !.host = h, !.at = at]
      BY DEF Request, NoReq
    <3> QED BY <1>1, <3>2, <3>3 DEF Sound, KeyHolds, NoReq
  <2>2. ASSUME NEW k \in Nat, NEW i \in Ids, k \in {0, key}
        PROVE  LET r == [Request("fill", h) EXCEPT !.at = "resolve", !.id = i, !.key = k] IN
               r \in Requests /\ Sound(c, r)'
    <3>. DEFINE r == [Request("fill", h) EXCEPT !.at = "resolve", !.id = i, !.key = k]
    <3>1. r = [NoReq EXCEPT !.op = "fill", !.host = h, !.at = "resolve", !.id = i, !.key = k]
      BY DEF Request, NoReq
    <3>2. Request("fill", h) \in Requests
      BY NewRequest DEF Ops
    <3>3. r \in Requests
      BY <3>2 DEF Requests, Places
    <3>4. KeyHolds(k)'
      BY <1>1, <2>2 DEF FillInv, KeyHolds
    <3>5. Sound(c, r)'
      BY <1>1, <3>1, <3>4 DEF Sound, NoReq
    <3> QED BY <3>3, <3>5
  <2> QED BY <1>2, <2>1, <2>2, NoReqType, NoReqSound
<1> QED BY <1>1, <1>3, FillStep

(* The places a fill goes through. *)
LEMMA FillMoves ==
  ASSUME FillInv, Types', NEW c \in Conns,
         Resolves(c) \/ MatchesFirst(c) \/ Refused(c) \/ FillGiven(c) \/ Rematches(c)
  PROVE  FillInv'
<1>1. /\ req[c] \in Requests /\ Sound(c, req[c]) /\ req \in [Conns -> Requests]
  BY DEF FillInv, Types
<1>2. /\ UNCHANGED <<epoch, key, drawn, metas>> /\ FillMatches' /\ approved \subseteq approved'
  BY QuietFill
  DEF Resolves, MatchesFirst, Refused, FillGiven, Rematches, Approves, others, sessionVars, NoOut
<1>3. CASE req' = [req EXCEPT ![c] = NoReq]
  BY <1>2, <1>3, NoReqType, NoReqSound, FillStep
<1>4. ASSUME NEW at \in {"match", "dialog"}, req[c].at \in {"resolve", "match"},
             req[c].key # 0, ~req[c].cut, req' = [req EXCEPT ![c] = [req[c] EXCEPT !.at = at]]
      PROVE  FillInv'
  <2>1. PICK r \in Requests : r = [req[c] EXCEPT !.at = at]
    BY <1>1, Moved DEF Places
  <2>2. /\ r.at = at /\ r.op = "fill" /\ r.host # Gone /\ r.key # 0 /\ ~r.cut
        /\ r.key \in DOMAIN drawn' /\ drawn'[r.key] = epoch'
    BY <1>1, <1>2, <1>4, <2>1 DEF Sound, KeyHolds, Requests
  <2>3. Sound(c, r)'
    BY <2>2 DEF Sound, KeyHolds
  <2> QED BY <1>2, <1>4, <2>1, <2>3, FillStep
<1>5. CASE Resolves(c) /\ req' # [req EXCEPT ![c] = NoReq]
  BY <1>4, <1>5 DEF Resolves, Ends, Goes
<1>6. CASE MatchesFirst(c) /\ req' # [req EXCEPT ![c] = NoReq]
  <2>1. /\ req[c].at = "match" /\ ~req[c].cut
        /\ req' = [req EXCEPT ![c] = [req[c] EXCEPT !.at = "dialog"]]
    BY <1>1, <1>6 DEF MatchesFirst, MatchingMeta, Ends, Asks
  <2> QED BY <1>1, <1>4, <2>1 DEF Sound
<1>7. CASE FillGiven(c) /\ req' # [req EXCEPT ![c] = NoReq]
  <2>1. /\ req[c].at = "dialog" /\ req[c].op = "fill"
        /\ req' = [req EXCEPT ![c] = [req[c] EXCEPT !.at = "rematch"]]
        /\ [conn |-> c, op |-> "fill", host |-> req[c].host, id |-> req[c].id] \in approved'
    BY <1>7 DEF FillGiven, Approves, Ends, Goes
  <2>2. ApprovedFill(c, req[c].host, req[c].id)'
    <3>. DEFINE a0 == [conn |-> c, op |-> "fill", host |-> req[c].host, id |-> req[c].id]
    <3>1. \E a \in approved' : a.conn = c /\ a.op = "fill" /\ a.host = req[c].host /\ a.id = req[c].id
      BY <2>1
    <3>2. req'[c].host = req[c].host /\ req'[c].id = req[c].id
      BY <1>1, <2>1 DEF Requests
    <3> QED BY <3>1, <3>2 DEF ApprovedFill
  <2>. DEFINE r == [req[c] EXCEPT !.at = "rematch"]
  <2>3. /\ r.at = "rematch" /\ r.op = "fill" /\ r.host = req[c].host /\ r.id = req[c].id
        /\ r.key = req[c].key /\ r.cut = req[c].cut
    BY <1>1, <2>1 DEF Requests
  <2>4. \E a \in approved' : a.conn = c /\ a.op = "fill" /\ a.host = r.host /\ a.id = r.id
    BY <2>1, <2>3
  <2>5. /\ r.host # Gone /\ r.key # 0
        /\ ~r.cut => (r.key \in DOMAIN drawn' /\ drawn'[r.key] = epoch')
    BY <1>1, <1>2, <2>1, <2>3 DEF Sound, KeyHolds
  <2>6. r \in Requests
    BY <1>1, Moved DEF Places
  <2>7. \A q \in Requests : q = r => Sound(c, q)'
    BY <2>3, <2>4, <2>5 DEF Sound, KeyHolds, ApprovedFill
  <2>8. \E q \in Requests : req' = [req EXCEPT ![c] = q] /\ Sound(c, q)'
    BY <2>1, <2>6, <2>7
  <2> QED BY <1>2, <2>8, FillStep
<1>8. CASE Rematches(c) /\ req' # [req EXCEPT ![c] = NoReq]
  <2>. DEFINE r == [req[c] EXCEPT !.at = "open", !.seen = metas[req[c].id]]
  <2>1. /\ req[c].at = "rematch" /\ MatchingMeta(c) /\ req' = [req EXCEPT ![c] = r]
    BY <1>1, <1>8 DEF Rematches, Ends
  <2>2. /\ req[c].id \in Ids /\ ~req[c].cut /\ metas[req[c].id] \in Records
        /\ metas[req[c].id] # Gone /\ MatchRank(req[c].host, metas[req[c].id]) # Gone
    BY <2>1 DEF MatchingMeta, Matches, Live, FillInv, Types
  <2>3. /\ r \in Requests /\ r.at = "open" /\ r.op = req[c].op /\ r.host = req[c].host
        /\ r.id = req[c].id /\ r.key = req[c].key /\ r.cut = req[c].cut
        /\ r.seen = metas[req[c].id]
    BY <1>1, <2>2 DEF Requests, Places
  <2>4. /\ r.host # Gone /\ r.key # 0 /\ r.op = "fill"
        /\ r.key \in DOMAIN drawn' /\ drawn'[r.key] = epoch'
        /\ \E a \in approved' : a.conn = c /\ a.op = "fill" /\ a.host = r.host /\ a.id = r.id
    BY <1>1, <1>2, <2>1, <2>2, <2>3 DEF Sound, KeyHolds, ApprovedFill
  <2>5. \A q \in Requests : q = r => Sound(c, q)'
    BY <2>2, <2>3, <2>4 DEF Sound, KeyHolds, ApprovedFill
  <2>6. \E q \in Requests : req' = [req EXCEPT ![c] = q] /\ Sound(c, q)'
    BY <2>1, <2>3, <2>5
  <2> QED BY <1>2, <2>6, FillStep
<1> QED BY <1>3, <1>5, <1>6, <1>7, <1>8 DEF Refused, Ends


(* The approvals of names and of the browser's unlock touch no fill. *)
LEMMA FillGivens ==
  ASSUME FillInv, Types', NEW c \in Conns, NamesGiven(c) \/ UnlockGiven(c) \/ Unlocks(c)
  PROVE  FillInv'
<1>1. /\ req[c] \in Requests /\ Sound(c, req[c]) /\ req \in [Conns -> Requests]
      /\ epoch \in Nat /\ drawn \in Seq(Nat) /\ key \in Nat /\ KeyHolds(key)
  BY DEF FillInv, Types
<1>2. /\ epoch' = epoch /\ approved \subseteq approved' /\ FillMatches'
  BY QuietFill
  DEF NamesGiven, UnlockGiven, Unlocks, Approves, OpenAutofill, others, sessionVars, NoOut
<1>3. \/ key' = key /\ drawn' = drawn
      \/ key' = Len(drawn) + 1 /\ drawn' = Append(drawn, epoch)
  BY DEF NamesGiven, UnlockGiven, Unlocks, OpenAutofill, DrawKey, others, sessionVars
<1>4. key' \in Nat /\ KeyHolds(key)'
  <2>1. CASE key' = key /\ drawn' = drawn
    BY <1>1, <1>2, <2>1 DEF KeyHolds
  <2>2. CASE key' = Len(drawn) + 1 /\ drawn' = Append(drawn, epoch)
    <3>1. Len(drawn) + 1 \in DOMAIN Append(drawn, epoch)
          /\ Append(drawn, epoch)[Len(drawn) + 1] = epoch
      BY <1>1
    <3> QED BY <1>1, <1>2, <2>2, <3>1 DEF KeyHolds
  <2> QED BY <1>3, <2>1, <2>2
<1>5. drawn' \in {drawn, Append(drawn, epoch)}
  BY <1>3
<1>6. \E r \in Requests : req' = [req EXCEPT ![c] = r] /\ Sound(c, r)
  <2>1. \/ req' = [req EXCEPT ![c] = NoReq]
        \/ req' = [req EXCEPT ![c] = [req[c] EXCEPT !.op = "query", !.at = "list"]]
        \/ req' = [req EXCEPT ![c] = [req[c] EXCEPT !.at = "unlock", !.epoch = epoch]]
    BY <1>1 DEF NamesGiven, UnlockGiven, Unlocks, Ends
  <2>2. req[c].at # "none"
    BY DEF NamesGiven, UnlockGiven, Unlocks, Approves
  <2>3. PICK q \in Requests : q = [req[c] EXCEPT !.op = "query", !.at = "list"]
    BY <1>1 DEF Requests, Ops, Places
  <2>4. Sound(c, q)
    BY <1>1, <2>2, <2>3 DEF Sound, Requests
  <2>5. PICK u \in Requests : u = [req[c] EXCEPT !.at = "unlock", !.epoch = epoch]
    BY <1>1 DEF Requests, Places
  <2>6. Sound(c, u)
    BY <1>1, <2>2, <2>5 DEF Sound, Requests
  <2> QED BY <2>1, <2>3, <2>4, <2>5, <2>6, NoReqType, NoReqSound
<1>7. PICK r \in Requests : req' = [req EXCEPT ![c] = r] /\ Sound(c, r)
  BY <1>6
<1>8. ASSUME NEW d \in Conns PROVE Sound(d, req[d])'
  <2>. DEFINE q == IF d = c THEN r ELSE req[d]
  <2>1. req'[d] = q /\ q \in Requests /\ Sound(d, q)
    BY <1>1, <1>7 DEF FillInv
  <2>2. \A p \in Requests : Sound(d, p) => Sound(d, p)'
    BY <1>2, <1>5, SoundKept DEF FillInv
  <2>3. PICK p \in Requests : p = q
    BY <2>1
  <2>4. Sound(d, p)'
    BY <2>1, <2>2, <2>3
  <2> QED BY <2>1, <2>3, <2>4 DEF Sound, ApprovedFill, KeyHolds
<1> QED BY <1>2, <1>4, <1>8 DEF FillInv

LEMMA FillOpens ==
  ASSUME FillInv, Types', NEW c \in Conns, Opens(c)
  PROVE  FillInv'
<1>1. /\ req[c].at = "open" /\ req[c] \in Requests /\ Sound(c, req[c])
      /\ UNCHANGED <<epoch, key, drawn, approved>> /\ req' = [req EXCEPT ![c] = NoReq]
  BY DEF Opens, Ends, others, sessionVars, FillInv, Types
<1>2. FillMatches'
  <2>1. CASE out' = NoOut
    BY <2>1, QuietFill DEF NoOut
  <2>2. CASE /\ ~req[c].cut
             /\ out' = [kind |-> "password", conn |-> c, host |-> req[c].host, epoch |-> epoch,
                        id |-> req[c].id, key |-> req[c].key, seen |-> req[c].seen]
    <3>1. /\ ApprovedFill(c, req[c].host, req[c].id) /\ req[c].key # 0 /\ KeyHolds(req[c].key)
          /\ req[c].seen \in Records \ {Gone} /\ req[c].host \in Hosts \ {Gone}
          /\ MatchRank(req[c].host, req[c].seen) # Gone
      BY <1>1, <2>2 DEF Sound, Requests
    <3>2. Fillable(req[c].seen)
      BY <3>1 DEF MatchRank
    <3>3. /\ out'.conn = c /\ out'.host = req[c].host /\ out'.id = req[c].id
          /\ out'.key = req[c].key /\ out'.epoch = epoch /\ out'.seen = req[c].seen
      BY <2>2
    <3>4. ApprovedFill(out.conn, out.host, out.id)'
      BY <1>1, <3>1, <3>3 DEF ApprovedFill
    <3>5. drawn'[out'.key] = out'.epoch
      BY <1>1, <3>1, <3>3 DEF KeyHolds
    <3>6. Fillable(out'.seen) /\ MatchRank(out'.host, out'.seen) # Gone
      BY <3>1, <3>2, <3>3
    <3> HIDE DEF ApprovedFill
    <3> QED BY <3>1, <3>3, <3>4, <3>5, <3>6 DEF FillMatches
  <2> QED BY <2>1, <2>2 DEF Opens
<1> QED BY <1>1, <1>2, NoReqType, NoReqSound, FillStep

LEMMA FillNext ==
  ASSUME FillInv, Types', [Next]_vars
  PROVE  FillInv'
<1>1. CASE UNCHANGED vars
  BY <1>1 DEF vars, sessionVars, FillInv, KeyHolds, Sound, ApprovedFill, FillMatches
<1>2. ASSUME UNCHANGED <<epoch, key, drawn, req, approved>>, out' = NoOut PROVE FillInv'
  <2>1. FillMatches'
    BY <1>2, QuietFill DEF NoOut
  <2> QED BY <1>2, <2>1 DEF FillInv, KeyHolds, Sound, ApprovedFill
<1>3. CASE OpenTier1
  <2>1. /\ key' = Len(drawn) + 1 /\ drawn' = Append(drawn, epoch) /\ drawn \in Seq(Nat)
        /\ epoch \in Nat /\ UNCHANGED <<epoch, req, approved>> /\ out' = NoOut
    BY <1>3 DEF OpenTier1, DrawKey, FillInv, Types
  <2>2. key' \in Nat /\ KeyHolds(key)'
    <3>1. Len(drawn) + 1 \in DOMAIN Append(drawn, epoch)
          /\ Append(drawn, epoch)[Len(drawn) + 1] = epoch
      BY <2>1
    <3> QED BY <2>1, <3>1 DEF KeyHolds
  <2>3. ASSUME NEW c \in Conns PROVE Sound(c, req[c])'
    <3>1. PICK r \in Requests : r = req[c]
      BY DEF FillInv, Types
    <3>2. Sound(c, r)'
      BY <2>1, <3>1, SoundKept DEF FillInv
    <3> QED BY <2>1, <3>1, <3>2 DEF Sound, ApprovedFill, KeyHolds
  <2>4. FillMatches'
    BY <2>1, QuietFill DEF NoOut
  <2> QED BY <2>2, <2>3, <2>4 DEF FillInv
<1>4. CASE Lock
  BY <1>4, FillLock DEF Lock
<1>5. CASE AutofillTimeout
  BY <1>2, <1>5, FillLock DEF AutofillTimeout, CloseAutofill
<1>6. ASSUME NEW i \in Ids, RecordChanges(i) PROVE FillInv'
  BY <1>2, <1>6 DEF RecordChanges, sessionVars
<1>7. ASSUME NEW c \in Conns, HangsUp(c) PROVE FillInv'
  BY <1>2, <1>7, FillLock DEF HangsUp, CloseAutofill, sessionVars
<1>8. ASSUME NEW c \in Conns, NEW o \in Pages,
             Query(c, o) \/ Names(c, o) \/ (\E k \in DOMAIN drawn, i \in Ids : Fill(c, o, k, i))
      PROVE  FillInv'
  BY <1>8, FillStarts
<1>9. ASSUME NEW c \in Conns, Lists(c) PROVE FillInv'
  <2>1. UNCHANGED <<epoch, key, drawn, approved>> /\ req' = [req EXCEPT ![c] = NoReq]
    BY <1>9 DEF Lists, Ends, others, sessionVars
  <2>2. FillMatches'
    BY <1>9, QuietFill DEF Lists, Answers, NoOut
  <2> QED BY <2>1, <2>2, NoReqType, NoReqSound, FillStep
<1>10. ASSUME NEW c \in Conns,
              Resolves(c) \/ MatchesFirst(c) \/ Refused(c) \/ FillGiven(c) \/ Rematches(c)
       PROVE  FillInv'
  BY <1>10, FillMoves
<1>11. ASSUME NEW c \in Conns, NamesGiven(c) \/ UnlockGiven(c) \/ Unlocks(c) PROVE FillInv'
  BY <1>11, FillGivens
<1>12. ASSUME NEW c \in Conns, Opens(c) PROVE FillInv'
  BY <1>12, FillOpens
<1> QED
  BY <1>1, <1>3, <1>4, <1>5, <1>6, <1>7, <1>8, <1>9, <1>10, <1>11, <1>12 DEF Next


-----------------------------------------------------------------------------
(* Names and the suffixes they end in.                                     *)

EndsIn(a, s) ==
  /\ s \in Seq(STRING) /\ Len(s) <= Len(a)
  /\ \A i \in 1..Len(s) : s[i] = a[Len(a) - Len(s) + i]

(* SequencesExt takes a name's tails as subsequences, and compares names   *)
(* from the end by reversing both: either way a suffix is EndsIn.          *)
LEMMA SuffixesAre ==
  ASSUME NEW a \in Seq(STRING), NEW s
  PROVE  s \in Suffixes(a) <=> EndsIn(a, s)
<1>1. ASSUME NEW l \in 1..Len(a)
      PROVE  LET u == SubSeq(a, l, Len(a)) IN
             /\ u \in Seq(STRING) /\ Len(u) = Len(a) - l + 1
             /\ \A i \in 1..Len(u) : u[i] = a[l + i - 1]
  OBVIOUS
<1>2. ASSUME s \in Suffixes(a) PROVE EndsIn(a, s)
  <2>1. CASE s = <<>>
    <3>1. <<>> \in Seq(STRING) /\ Len(<<>>) = 0 /\ Len(a) \in Nat
      OBVIOUS
    <3> QED BY <2>1, <3>1 DEF EndsIn
  <2>2. ASSUME NEW l \in 1..Len(a), s = SubSeq(a, l, Len(a)) PROVE EndsIn(a, s)
    <3>1. /\ s \in Seq(STRING) /\ Len(s) = Len(a) - l + 1
          /\ \A i \in 1..Len(s) : s[i] = a[l + i - 1]
      BY <1>1, <2>2
    <3>2. \A i \in 1..Len(s) : Len(a) - Len(s) + i = l + i - 1
      BY <3>1
    <3> QED BY <3>1, <3>2 DEF EndsIn
  <2> QED BY <1>2, <2>1, <2>2 DEF Suffixes
<1>3. ASSUME EndsIn(a, s) PROVE s \in Suffixes(a)
  <2>1. CASE Len(s) = 0
    <3>1. s = <<>>
      BY <1>3, <2>1 DEF EndsIn
    <3> QED BY <3>1 DEF Suffixes
  <2>2. CASE Len(s) # 0
    <3>. DEFINE l == Len(a) - Len(s) + 1
                u == SubSeq(a, l, Len(a))
    <3>1. l \in 1..Len(a) /\ s \in Seq(STRING) /\ Len(s) = Len(a) - l + 1
      BY <1>3, <2>2 DEF EndsIn
    <3>2. /\ u \in Seq(STRING) /\ Len(u) = Len(s)
          /\ \A i \in 1..Len(u) : u[i] = a[l + i - 1]
      BY <1>1, <3>1
    <3>3. \A i \in 1..Len(s) : s[i] = u[i]
      BY <1>3, <3>1, <3>2 DEF EndsIn
    <3> HIDE DEF u
    <3>4. s = u
      BY <3>1, <3>2, <3>3
    <3> QED BY <3>1, <3>4 DEF u, Suffixes
  <2> QED BY <2>1, <2>2
<1> QED BY <1>2, <1>3

LEMMA SuffixIs ==
  ASSUME NEW a \in Seq(STRING), NEW b \in Seq(STRING), IsSuffix(b, a)
  PROVE  EndsIn(a, b)
<1>. DEFINE ra == Reverse(a)
            rb == Reverse(b)
<1>1. /\ ra \in Seq(STRING) /\ Len(ra) = Len(a)
      /\ \A i \in 1..Len(a) : ra[i] = a[Len(a) - i + 1]
  BY DEF Reverse
<1>2. /\ rb \in Seq(STRING) /\ Len(rb) = Len(b)
      /\ \A i \in 1..Len(b) : rb[i] = b[Len(b) - i + 1]
  BY DEF Reverse
<1>3. Len(rb) <= Len(ra) /\ SubSeq(rb, 1, Len(rb)) = SubSeq(ra, 1, Len(rb))
  BY DEF IsSuffix, IsPrefix
<1>. HIDE DEF ra, rb
<1>4. \A i \in 1..Len(b) : rb[i] = ra[i]
  <2>1. \A i \in 1..Len(b) : SubSeq(rb, 1, Len(rb))[i] = rb[i] /\ SubSeq(ra, 1, Len(rb))[i] = ra[i]
    BY <1>1, <1>2, <1>3
  <2> QED BY <1>3, <2>1
<1>5. ASSUME NEW i \in 1..Len(b) PROVE b[i] = a[Len(a) - Len(b) + i]
  <2>. DEFINE j == Len(b) - i + 1
  <2>1. j \in 1..Len(b) /\ j \in 1..Len(a) /\ Len(b) - j + 1 = i
        /\ Len(a) - j + 1 = Len(a) - Len(b) + i
    BY <1>1, <1>2, <1>3
  <2> HIDE DEF j
  <2> QED BY <1>1, <1>2, <1>4, <2>1
<1> QED BY <1>1, <1>2, <1>3, <1>5 DEF EndsIn

(* Of two suffixes of one name the shorter ends the longer. *)
LEMMA Nested ==
  ASSUME NEW a \in Seq(STRING), NEW s, NEW t, EndsIn(a, s)
  PROVE  /\ EndsIn(s, t) => EndsIn(a, t)
         /\ EndsIn(a, t) /\ Len(t) <= Len(s) => EndsIn(s, t)
         /\ EndsIn(a, t) /\ Len(t) = Len(s) => t = s
<1>1. s \in Seq(STRING) /\ Len(s) \in Nat /\ Len(a) \in Nat
  BY DEF EndsIn
<1>2. ASSUME EndsIn(s, t) PROVE EndsIn(a, t)
  <2>1. t \in Seq(STRING) /\ Len(t) \in Nat /\ Len(t) <= Len(s) /\ Len(s) <= Len(a)
    BY <1>2 DEF EndsIn
  <2>2. ASSUME NEW i \in 1..Len(t) PROVE t[i] = a[Len(a) - Len(t) + i]
    <3>1. Len(s) - Len(t) + i \in 1..Len(s)
      BY <1>1, <2>1
    <3>2. t[i] = s[Len(s) - Len(t) + i]
      BY <1>2 DEF EndsIn
    <3>3. s[Len(s) - Len(t) + i] = a[Len(a) - Len(s) + (Len(s) - Len(t) + i)]
      BY <3>1 DEF EndsIn
    <3>4. Len(a) - Len(s) + (Len(s) - Len(t) + i) = Len(a) - Len(t) + i
      BY <1>1, <2>1
    <3> QED BY <3>2, <3>3, <3>4
  <2> QED BY <1>1, <2>1, <2>2 DEF EndsIn
<1>3. ASSUME EndsIn(a, t), Len(t) <= Len(s) PROVE EndsIn(s, t)
  <2>1. t \in Seq(STRING) /\ Len(t) \in Nat /\ Len(s) <= Len(a)
    BY <1>3 DEF EndsIn
  <2>2. ASSUME NEW i \in 1..Len(t) PROVE t[i] = s[Len(s) - Len(t) + i]
    <3>1. Len(s) - Len(t) + i \in 1..Len(s)
      BY <1>1, <1>3, <2>1
    <3>2. t[i] = a[Len(a) - Len(t) + i]
      BY <1>3 DEF EndsIn
    <3>3. s[Len(s) - Len(t) + i] = a[Len(a) - Len(s) + (Len(s) - Len(t) + i)]
      BY <3>1 DEF EndsIn
    <3>4. Len(a) - Len(s) + (Len(s) - Len(t) + i) = Len(a) - Len(t) + i
      BY <1>1, <2>1
    <3> QED BY <3>2, <3>3, <3>4
  <2> QED BY <1>3, <2>1, <2>2 DEF EndsIn
<1>4. ASSUME EndsIn(a, t), Len(t) = Len(s) PROVE t = s
  BY <1>1, <1>4 DEF EndsIn
<1> QED BY <1>2, <1>3, <1>4

(* The name less its first label. *)
LEMMA TailEnds ==
  ASSUME NEW s \in Seq(STRING), Len(s) > 0
  PROVE  EndsIn(s, Tail(s)) /\ Len(Tail(s)) = Len(s) - 1 /\ EndsIn(s, s)
<1>1. Tail(s) \in Seq(STRING) /\ Len(Tail(s)) = Len(s) - 1
      /\ \A i \in 1..Len(Tail(s)) : Tail(s)[i] = s[i + 1]
  OBVIOUS
<1>2. \A i \in 1..Len(Tail(s)) : Len(s) - Len(Tail(s)) + i = i + 1
  BY <1>1
<1> QED BY <1>1, <1>2 DEF EndsIn


LEMMA LeastOf ==
  ASSUME NEW U \in SUBSET Nat, U # {}
  PROVE  \E n \in U : \A m \in U : n <= m
<1>. DEFINE T == {0..n : n \in U}
<1>1. T \subseteq FiniteSubsetsOf(Nat)
  <2>1. ASSUME NEW n \in U PROVE 0..n \in FiniteSubsetsOf(Nat)
    <3>1. IsFiniteSet(0..n) /\ 0..n \in SUBSET Nat
      BY FS_Interval
    <3> QED BY <3>1 DEF FiniteSubsetsOf
  <2> QED BY <2>1
<1>2. T # {}
  OBVIOUS
<1>3. \E X \in T : \A Y \in T : <<Y, X>> \notin StrictSubsetOrdering(Nat)
  <2> HIDE DEF T
  <2> QED BY <1>1, <1>2, FS_StrictSubsetOrderingWellFounded, WFMin
<1>4. PICK n \in U : \A Y \in T : <<Y, 0..n>> \notin StrictSubsetOrdering(Nat)
  BY <1>3
<1>5. ASSUME NEW m \in U, m < n PROVE FALSE
  <2>1. 0..m \subseteq 0..n /\ n \in 0..n /\ n \notin 0..m
    BY <1>5
  <2>2. <<0..m, 0..n>> \in StrictSubsetOrdering(Nat)
    BY <2>1 DEF StrictSubsetOrdering
  <2> QED BY <1>4, <2>2
<1>6. \A m \in U : n <= m
  BY <1>5
<1> QED BY <1>6

Own(h) == {s \in Suffixes(h) : Len(s) > 1 /\ IsPublicSuffix(Tail(s)) /\ ~IsPublicSuffix(s)}

(* A name that ends in another, which is no public suffix, has its owner:  *)
(* the longest public suffix of both is in the shorter one.                *)
LEMMA OwnerOf ==
  ASSUME NEW a, Plain(a), NEW b, EndsIn(a, b), ~IsPublicSuffix(b)
  PROVE  Owner(a) = Owner(b)
<1>1. a \in Seq(STRING) /\ b \in Seq(STRING)
  BY DEF Plain, EndsIn
<1>2. ASSUME NEW s \in Own(a) PROVE s \in Own(b)
  <2>1. EndsIn(a, s) /\ s \in Seq(STRING) /\ Len(s) > 1
    BY <1>1, SuffixesAre DEF Own, EndsIn
  <2>2. CASE Len(s) <= Len(b)
    <3>1. EndsIn(b, s)
      BY <1>1, <2>1, <2>2, Nested
    <3> QED BY <1>1, <3>1, SuffixesAre DEF Own
  <2>3. CASE Len(b) < Len(s)
    <3>1. EndsIn(s, Tail(s)) /\ Len(Tail(s)) = Len(s) - 1 /\ Tail(s) \in Seq(STRING)
      BY <2>1, TailEnds
    <3>2. EndsIn(a, Tail(s)) /\ Len(b) <= Len(Tail(s))
      BY <1>1, <2>1, <2>3, <3>1, Nested
    <3>3. EndsIn(Tail(s), b)
      BY <1>1, <3>2, Nested
    <3>4. Tail(s) \in Suffixes(a) /\ b \in Suffixes(Tail(s)) /\ IsPublicSuffix(Tail(s))
      BY <1>1, <3>1, <3>2, <3>3, SuffixesAre DEF Own
    <3> QED BY <3>4 DEF Plain
  <2>4. Len(s) \in Nat /\ Len(b) \in Nat
    BY <1>1, <2>1
  <2> QED BY <2>2, <2>3, <2>4
<1>3. ASSUME NEW s \in Own(b) PROVE s \in Own(a)
  <2>1. EndsIn(b, s)
    BY <1>1, SuffixesAre DEF Own
  <2>2. EndsIn(a, s)
    BY <1>1, <2>1, Nested
  <2> QED BY <1>1, <2>2, SuffixesAre DEF Own
<1>4. Own(b) # {}
  <2>. DEFINE U == {Len(s) : s \in {t \in Suffixes(b) : ~IsPublicSuffix(t)}}
  <2>1. b \in Suffixes(b)
    <3>1. EndsIn(b, b)
      BY <1>1 DEF EndsIn
    <3> QED BY <1>1, <3>1, SuffixesAre
  <2>2. U \in SUBSET Nat
    <3>1. \A s \in Suffixes(b) : Len(s) \in Nat
      BY <1>1, SuffixesAre DEF EndsIn
    <3> QED BY <3>1
  <2>3. PICK n \in U : \A m \in U : n <= m
    <3>1. U # {}
      BY <2>1
    <3> HIDE DEF U
    <3> QED BY <2>2, <3>1, LeastOf
  <2>4. PICK s \in Suffixes(b) : ~IsPublicSuffix(s) /\ Len(s) = n
    OBVIOUS
  <2>5. s \in Seq(STRING) /\ Len(s) > 1 /\ EndsIn(b, s)
    BY <1>1, <2>4, SuffixesAre DEF EndsIn, IsPublicSuffix
  <2>6. EndsIn(s, Tail(s)) /\ Len(Tail(s)) = Len(s) - 1
    BY <2>5, TailEnds
  <2>7. Tail(s) \in Suffixes(b)
    <3>1. EndsIn(b, Tail(s))
      BY <1>1, <2>5, <2>6, Nested
    <3> QED BY <1>1, <3>1, SuffixesAre
  <2>8. IsPublicSuffix(Tail(s))
    <3>1. SUFFICES ASSUME ~IsPublicSuffix(Tail(s)) PROVE FALSE
      OBVIOUS
    <3>2. Len(Tail(s)) \in U
      BY <2>7, <3>1
    <3>3. Len(s) <= Len(Tail(s)) /\ Len(s) \in Nat
      BY <2>3, <2>4, <2>5, <3>2
    <3>4. \A x, y : x \in Nat /\ y = x - 1 => ~(x <= y)
      BY SMT
    <3> QED BY <2>6, <3>3, <3>4
  <2> QED BY <2>4, <2>5, <2>8 DEF Own
<1>5. Own(a) = Own(b)
  BY <1>2, <1>3
<1>6. /\ Owner(a) = IF Own(a) = {} THEN a
                    ELSE CHOOSE s \in Own(a) : \A t \in Own(a) : Len(t) <= Len(s)
      /\ Owner(b) = IF Own(b) = {} THEN b
                    ELSE CHOOSE s \in Own(b) : \A t \in Own(b) : Len(t) <= Len(s)
  BY DEF Owner, Own
<1> QED BY <1>4, <1>5, <1>6

(* A record that matches a page holds a host of the page's owner. *)
LEMMA MatchOwner ==
  ASSUME PlainHosts, NEW h \in Hosts \ {Gone}, NEW m \in Records \ {Gone}, MatchRank(h, m) # Gone
  PROVE  \E s \in StoredHosts(m) : Owner(s) = Owner(CanonicalHost(h))
<1>. DEFINE page == CanonicalHost(h)
<1>1. Plain(page)
  BY DEF PlainHosts, Plain, Hosts
<1>2. \A s \in StoredHosts(m) : Plain(s)
  BY DEF PlainHosts, Plain, Records
<1>3. PICK s \in StoredHosts(m) : s = page \/ Related(page, s)
  BY DEF MatchRank
<1>. HIDE DEF page
<1>4. CASE s = page
  BY <1>4 DEF page
<1>5. CASE IsStrictSuffix(s, page) /\ ~IsPublicSuffix(s)
  <2>1. EndsIn(page, s)
    BY <1>1, <1>2, <1>5, SuffixIs DEF IsStrictSuffix, Plain
  <2> QED BY <1>1, <1>5, <2>1, OwnerOf DEF page
<1>6. CASE IsStrictSuffix(page, s) /\ ~IsPublicSuffix(page)
  <2>1. EndsIn(s, page)
    BY <1>1, <1>2, <1>6, SuffixIs DEF IsStrictSuffix, Plain
  <2> QED BY <1>2, <1>6, <2>1, OwnerOf DEF page
<1> QED BY <1>3, <1>4, <1>5, <1>6 DEF Related

(* In every reachable state a password that goes out has the dialog of its *)
(* page and entry behind it, a handle of its unlock, and a record that was *)
(* read after the approval and matches the page (handle_autofill_fill,     *)
(* _resolve, _matching_meta): whatever the hosts and the suffixes are.     *)
THEOREM AutofillFillMatches == Spec => []FillMatches
<1>1. Spec => []Types
  <2>1. IInv => Types
    BY DEF IInv
  <2> QED BY <2>1, InitHolds, NextHolds, PTL DEF Spec
<1>2. FillInv /\ Types' /\ [Next]_vars => FillInv'
  BY FillNext
<1>3. FillInv => FillMatches
  BY DEF FillInv
<1> QED BY <1>1, <1>2, <1>3, FillInit, PTL DEF Spec

(* Where no host ends in a suffix below a name that is none (PlainHosts),  *)
(* the record of a password that goes out holds a host of the page's owner *)
(* (_related).                                                             *)
THEOREM AutofillFillIsApproved ==
  ASSUME PlainHosts
  PROVE  Spec => []FillIsApproved
<1>1. FillMatches => FillIsApproved
  BY MatchOwner DEF FillMatches, FillIsApproved, ApprovedFill
<1> QED BY <1>1, AutofillFillMatches, PTL

=============================================================================
