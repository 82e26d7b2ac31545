------------------------------- MODULE Autofill -------------------------------
(***************************************************************************)
(* What a browser is told: the ops autofill-query, autofill-names and      *)
(* autofill-fill of daemon/autofill.py, with the rule by which a page's    *)
(* host matches an entry, the handles of an unlock, and the approvals a    *)
(* connection collects.                                                    *)
(*                                                                         *)
(* A host is the sequence of its labels; a stored value may end in empty   *)
(* labels (trailing dots).  Scheme, port, user and path of a value are cut *)
(* off by the code and not represented, apart from a page's scheme.        *)
(* Epochs and handle keys are numbers, drawn in order.                     *)
(*                                                                         *)
(* A call that waits for the store when a lock lands is refused, or its    *)
(* result is dropped by the check after it (StoreGate, StoreHandlers); it  *)
(* is marked `cut' here.  The dialog is external: one at a time, ended by  *)
(* a person or by a lock (Service).  Left out: the switch of the window    *)
(* and the limits on refusals (Service), and the order among equal ranks.  *)
(***************************************************************************)
EXTENDS Naturals, FiniteSets, Sequences, SequencesExt, FiniteSetsExt

CONSTANTS
  Conns,       \* the browser's connections
  Ids,         \* the entries
  Pages,       \* the origins pages have: [scheme, host]
  Numeric,     \* the labels made of digits
  Guard,       \* PUBLIC_SUFFIX_GUARD
  Versions,    \* per entry: the records a sync may give it
  Gone,        \* no record, no host, no rank
  MaxAccounts, \* accounts in one answer
  MaxEpoch,    \* bound: locks
  MaxSyncs,    \* bound: syncs that change a record
  MaxRequests  \* bound: requests

ASSUME AutofillAssumption ==
  /\ {MaxAccounts, MaxEpoch, MaxSyncs, MaxRequests} \subseteq Nat
  /\ Gone \notin Conns \cup Ids

VARIABLES
  window,    \* tier 1 is open
  lease,     \* Session.autofill_conn: the connection the browser's unlock serves
  epoch,     \* Session.epoch, from 1
  key,       \* Session.autofill_key: 0 for none, or the number of the key
  drawn,     \* per key drawn so far: the epoch it was drawn in
  metas,     \* the records
  syncs,     \* how many syncs changed one
  closed,    \* the connections that hung up
  filled,    \* per connection: autofill_epoch, 0 for none
  names,     \* per connection: autofill_names
  asked,     \* how many requests there were
  req,       \* per connection: its request under way
  approved,  \* the dialogs a person approved since the last lock
  out        \* what the last step answered, if more than a state or an error

vars == <<window, lease, epoch, key, drawn, metas, syncs, closed, filled, names, asked,
          req, approved, out>>
sessionVars == <<window, lease, epoch, key, drawn>>

(************************* Hosts and the match ******************************)

(* _canonical_host: two labels or more, none of them empty, the last one   *)
(* not a number; one leading www goes if two labels remain.                *)
CanonicalHost(h) ==
  IF Len(h) < 2 \/ "" \in Range(h) \/ Last(h) \in Numeric THEN Gone
  ELSE IF Head(h) = "www" /\ Len(h) > 2 THEN Tail(h) ELSE h

ParseOrigin(o) == IF o.scheme # "https" THEN Gone ELSE CanonicalHost(o.host)

(* _entry_host: a stored value may end in dots, which go first.            *)
EntryHost(v) == CanonicalHost(SubSeq(v, 1, Max({0} \cup {i \in DOMAIN v : v[i] # ""})))

IsPublicSuffix(h) == Len(h) < 2 \/ h \in Guard

RelatedBelowAny(a, b) == IsStrictSuffix(a, b) \/ IsStrictSuffix(b, a)

(* _related: one below the other at a dot, the shorter no public suffix.   *)
Related(a, b) ==
  \/ IsStrictSuffix(b, a) /\ ~IsPublicSuffix(b)
  \/ IsStrictSuffix(a, b) /\ ~IsPublicSuffix(a)

(* _is_internal, Recently Deleted, and a row that is a passkey alone.      *)
Fillable(m) == ~m.internal /\ ~m.recently_deleted /\ m.kind # "passkey"

StoredHosts(m) == {EntryHost(v) : v \in {m.domain} \cup m.sites} \ {Gone}

MatchRank(host, m) ==
  LET page == CanonicalHost(host) IN
  IF page = Gone \/ ~Fillable(m) THEN Gone
  ELSE IF page \in StoredHosts(m) THEN 0
  ELSE IF \E h \in StoredHosts(m) : Related(page, h) THEN 1
  ELSE Gone

Live == {i \in Ids : metas[i] # Gone}
Matches(host) == {i \in Live : MatchRank(host, metas[i]) # Gone}

(****************************** The session *********************************)

NoReq == [op |-> "none", host |-> Gone, at |-> "none", id |-> Gone, key |-> 0,
          epoch |-> 0, seen |-> Gone, cut |-> FALSE]
NoNames == [epoch |-> 0, hosts |-> {}]
NoOut == [kind |-> "none"]

Init ==
  /\ window = FALSE /\ lease = Gone /\ epoch = 1 /\ key = 0 /\ drawn = <<>>
  /\ metas \in [Ids -> UNION {Versions[i] : i \in Ids}]
  /\ \A i \in Ids : metas[i] \in Versions[i]
  /\ syncs = 0 /\ asked = 0 /\ closed = {}
  /\ filled = [c \in Conns |-> 0]
  /\ names = [c \in Conns |-> NoNames]
  /\ req = [c \in Conns |-> NoReq]
  /\ approved = {} /\ out = NoOut

(* _open_session: tier 1, or this connection's own unlock.                 *)
OpenFor(c) == window \/ (lease = c /\ c \notin closed)

NamesApprovedOnce(c, host) == host \in names[c].hosts
NamesApproved(c, host) == names[c].epoch = epoch /\ host \in names[c].hosts
Approved(c) == filled[c] = epoch

(* open_tier1 draws a new key; open_autofill only if there is none.        *)
DrawKey == key' = Len(drawn) + 1 /\ drawn' = Append(drawn, epoch)

(* The window's unlock went through (op_unlock).                           *)
OpenTier1 ==
  /\ ~window
  /\ window' = TRUE /\ DrawKey
  /\ UNCHANGED <<lease, epoch, metas, syncs, closed, filled, names, asked, req, approved>> /\ out' = NoOut

OpenAutofill(c) ==
  /\ lease' = c
  /\ IF key = 0 THEN DrawKey ELSE UNCHANGED <<key, drawn>>
  /\ UNCHANGED <<window, epoch>>

(* What lock() does to a request: its dialog is cancelled, its store call  *)
(* cut.                                                                    *)
Interrupted(r) == IF r.at = "dialog" THEN NoReq
                  ELSE IF r.at = "none" THEN r ELSE [r EXCEPT !.cut = TRUE]

LockStep ==
  /\ epoch < MaxEpoch
  /\ window' = FALSE /\ lease' = Gone /\ key' = 0 /\ epoch' = epoch + 1
  /\ req' = [c \in Conns |-> Interrupted(req[c])]
  /\ approved' = {} /\ UNCHANGED drawn

Lock == LockStep /\ UNCHANGED <<metas, syncs, closed, filled, names, asked>> /\ out' = NoOut

(* close_autofill: a lock, unless the window has tier 1 open.              *)
CloseAutofill ==
  IF window THEN lease' = Gone /\ UNCHANGED <<window, epoch, key, drawn, req, approved>>
            ELSE LockStep

(* The browser's unlock runs out (_autofill_timeout).                      *)
AutofillTimeout ==
  /\ lease # Gone /\ CloseAutofill
  /\ UNCHANGED <<metas, syncs, closed, filled, names, asked>> /\ out' = NoOut

(* A connection ends (detach), and what it was allowed with it; an approval *)
(* may still come for its dialog.                                          *)
HangsUp(c) ==
  /\ c \notin closed /\ closed' = closed \cup {c}
  /\ IF lease = c THEN CloseAutofill ELSE UNCHANGED <<sessionVars, req, approved>>
  /\ filled' = [filled EXCEPT ![c] = 0] /\ names' = [names EXCEPT ![c] = NoNames]
  /\ UNCHANGED <<metas, syncs, asked>> /\ out' = NoOut

(* A sync or an edit gives an entry another record, or takes it away.  The *)
(* domain is part of the id and stays.                                     *)
RecordChanges(i) ==
  /\ (window \/ lease # Gone) /\ syncs < MaxSyncs
  /\ \E m \in Versions[i] \cup {Gone} : m # metas[i] /\ metas' = [metas EXCEPT ![i] = m]
  /\ syncs' = syncs + 1
  /\ UNCHANGED <<sessionVars, closed, filled, names, asked, req, approved>> /\ out' = NoOut

(****************************** The requests ********************************)

others == <<sessionVars, metas, syncs, closed, asked>>
Ends(c) == req' = [req EXCEPT ![c] = NoReq]
Goes(c, at) == req' = [req EXCEPT ![c].at = at]
NoDialog == \A c \in Conns : req[c].at # "dialog"

(* authorize(): a second dialog of the browsers is refused.                *)
Asks(c, r) == req' = [req EXCEPT ![c] = IF NoDialog THEN [r EXCEPT !.at = "dialog"] ELSE NoReq]

Request(op, host) == [NoReq EXCEPT !.op = op, !.host = host]

Starts(c, o) ==
  /\ req[c].at = "none" /\ c \notin closed
  /\ ParseOrigin(o) # Gone
  /\ asked < MaxRequests /\ asked' = asked + 1
  /\ UNCHANGED <<sessionVars, metas, syncs, closed, filled, names, approved>> /\ out' = NoOut

(* handle_autofill_query up to its list_meta.                              *)
Query(c, o) ==
  /\ Starts(c, o) /\ OpenFor(c)
  /\ req' = [req EXCEPT ![c] = [Request("query", ParseOrigin(o)) EXCEPT !.at = "list"]]

(* handle_autofill_names: named already, it is a query; else the dialog,   *)
(* which also unlocks the store if it is closed (_unlock_for_names).       *)
Names(c, o) ==
  /\ Starts(c, o)
  /\ LET host == ParseOrigin(o) IN
     IF OpenFor(c)
     THEN IF Approved(c) \/ NamesApproved(c, host)
          THEN req' = [req EXCEPT ![c] = [Request("query", host) EXCEPT !.at = "list"]]
          ELSE Asks(c, Request("names", host))
     ELSE Asks(c, Request("unlock", host))

(* handle_autofill_fill up to the list_meta of _resolve, which reads the   *)
(* key before it waits.  The handle is any the daemon ever gave out.       *)
Fill(c, o, k, i) ==
  /\ Starts(c, o) /\ OpenFor(c) /\ key # 0
  /\ req' = [req EXCEPT ![c] = [Request("fill", ParseOrigin(o)) EXCEPT
       !.at = "resolve", !.id = i, !.key = IF k = key THEN k ELSE 0]]

(* The answer of a query: the best accounts, named if this was approved.   *)
Answers(c) ==
  LET host == req[c].host  all == Matches(host)
      rank(i) == MatchRank(host, metas[i]) IN
  \E S \in SUBSET all :
    /\ Cardinality(S) = Min({MaxAccounts, Cardinality(all)})
    /\ \A i \in S, j \in all \ S : rank(i) <= rank(j)
    /\ out' = [kind |-> "list", conn |-> c, host |-> host, epoch |-> epoch,
               named |-> Approved(c) \/ NamesApproved(c, host), ids |-> S]

(* list_meta came back; the session is asked once more.                    *)
Lists(c) ==
  /\ req[c].at = "list"
  /\ Ends(c)
  /\ IF ~req[c].cut /\ OpenFor(c) /\ key # 0 THEN Answers(c) ELSE out' = NoOut
  /\ UNCHANGED <<others, filled, names, approved>>

(* _resolve found the entry behind the handle, or not.                     *)
Resolves(c) ==
  /\ req[c].at = "resolve"
  /\ IF ~req[c].cut /\ req[c].key # 0 /\ req[c].id \in Live THEN Goes(c, "match") ELSE Ends(c)
  /\ UNCHANGED <<others, filled, names, approved>> /\ out' = NoOut

(* _matching_meta: the record as it is now matches the page.               *)
MatchingMeta(c) == ~req[c].cut /\ req[c].id \in Matches(req[c].host)

MatchesFirst(c) ==
  /\ req[c].at = "match"
  /\ IF MatchingMeta(c) THEN Asks(c, req[c]) ELSE Ends(c)
  /\ UNCHANGED <<others, filled, names, approved>> /\ out' = NoOut

(* Dismissed, denied, timed out, or no agent.                              *)
Refused(c) ==
  /\ req[c].at = "dialog" /\ Ends(c)
  /\ UNCHANGED <<others, filled, names, approved>> /\ out' = NoOut

Approves(c, op) ==
  /\ req[c].at = "dialog" /\ req[c].op = op
  /\ approved' = approved \cup {[conn |-> c, op |-> op, host |-> req[c].host,
                                 id |-> req[c].id]}

Named(c, hosts) == names' = [names EXCEPT ![c] = [epoch |-> epoch, hosts |-> hosts]]

(* The host joins those approved in this unlock.                           *)
NamesGiven(c) ==
  /\ Approves(c, "names")
  /\ IF c \notin closed /\ OpenFor(c)
     THEN /\ Named(c, {req[c].host} \cup IF names[c].epoch = epoch THEN names[c].hosts ELSE {})
          /\ req' = [req EXCEPT ![c].op = "query", ![c].at = "list"]
     ELSE Ends(c) /\ UNCHANGED names
  /\ UNCHANGED <<others, filled>> /\ out' = NoOut

(* _unlock_for_names: the window may have unlocked meanwhile.              *)
UnlockGiven(c) ==
  /\ Approves(c, "unlock")
  /\ CASE c \in closed -> Ends(c) /\ UNCHANGED names
       [] c \notin closed /\ window ->
            /\ Named(c, {req[c].host})
            /\ req' = [req EXCEPT ![c].op = "query", ![c].at = "list"]
       [] OTHER -> req' = [req EXCEPT ![c].at = "unlock", ![c].epoch = epoch] /\ UNCHANGED names
  /\ UNCHANGED <<others, filled>> /\ out' = NoOut

(* store.unlock came back, and no lock and no hang-up with it.  The keys a *)
(* lock, a hang-up or the window's unlock leave are StoreHandlers' matter. *)
Unlocks(c) ==
  /\ req[c].at = "unlock"
  /\ IF epoch = req[c].epoch /\ c \notin closed
     THEN /\ OpenAutofill(c) /\ Named(c, {req[c].host})
          /\ req' = [req EXCEPT ![c].op = "query", ![c].at = "list"]
     ELSE Ends(c) /\ UNCHANGED <<sessionVars, names>>
  /\ UNCHANGED <<metas, syncs, closed, asked, filled, approved>> /\ out' = NoOut

(* The fill's approval: the connection, the session and, in the next step, *)
(* the match are asked again.                                              *)
FillGiven(c) ==
  /\ Approves(c, "fill")
  /\ IF c \notin closed /\ OpenFor(c) THEN Goes(c, "rematch") ELSE Ends(c)
  /\ UNCHANGED <<others, filled, names>> /\ out' = NoOut

Rematches(c) ==
  /\ req[c].at = "rematch"
  /\ IF MatchingMeta(c)
     THEN req' = [req EXCEPT ![c].at = "open", ![c].seen = metas[req[c].id]]
     ELSE Ends(c)
  /\ UNCHANGED <<others, filled, names, approved>> /\ out' = NoOut

(* open_entry came back: the password, and this unlock names accounts.     *)
Opens(c) ==
  /\ req[c].at = "open" /\ Ends(c)
  /\ IF ~req[c].cut /\ req[c].id \in Live /\ OpenFor(c)
     THEN /\ out' = [kind |-> "password", conn |-> c, host |-> req[c].host, epoch |-> epoch,
                     id |-> req[c].id, key |-> req[c].key, seen |-> req[c].seen]
          /\ filled' = [filled EXCEPT ![c] = epoch]
     ELSE UNCHANGED filled /\ out' = NoOut
  /\ UNCHANGED <<others, names, approved>>

Next ==
  \/ OpenTier1 \/ Lock \/ AutofillTimeout
  \/ \E i \in Ids : RecordChanges(i)
  \/ \E c \in Conns :
       \/ HangsUp(c) \/ Lists(c) \/ Resolves(c) \/ MatchesFirst(c) \/ Refused(c)
       \/ NamesGiven(c) \/ UnlockGiven(c) \/ Unlocks(c) \/ FillGiven(c) \/ Rematches(c)
       \/ Opens(c)
       \/ \E o \in Pages :
            \/ Query(c, o) \/ Names(c, o)
            \/ \E k \in DOMAIN drawn, i \in Ids : Fill(c, o, k, i)

Spec == Init /\ [][Next]_vars

(******************************* Properties *********************************)

(* Reference: whose name a host is.  The owner of a name is the part one   *)
(* label longer than the longest public suffix it ends in.                 *)
Owner(h) ==
  LET own == {s \in Suffixes(h) : Len(s) > 1 /\ IsPublicSuffix(Tail(s)) /\ ~IsPublicSuffix(s)}
  IN IF own = {} THEN h ELSE CHOOSE s \in own : \A t \in own : Len(t) <= Len(s)

(* The premise under which hosts that match have one owner: no public      *)
(* suffix they end in lies below a name that is none.                      *)
Plain(h) ==
  /\ h \in Seq(STRING)
  /\ \A s \in Suffixes(h) : IsPublicSuffix(s) => \A t \in Suffixes(s) : IsPublicSuffix(t)

PlainHosts ==
  /\ \A o \in Pages : ParseOrigin(o) # Gone => Plain(CanonicalHost(ParseOrigin(o)))
  /\ \A i \in Ids : \A m \in Versions[i] : \A h \in StoredHosts(m) : Plain(h)

(* An answer names accounts only if a person approved, on this connection  *)
(* and since the last lock, a fill or the names of this very site          *)
(* (handle_autofill_query's docstring), whoever unlocked and in whatever   *)
(* order locks, hang-ups and dialogs came.                                 *)
NamesNeedApproval ==
  out.kind = "list" /\ out.named =>
    \E a \in approved :
      /\ a.conn = out.conn
      /\ a.op = "fill" \/ a.host = out.host

(* A password goes out for a page only with a dialog approved for that     *)
(* page and that entry since the last lock, on a handle of this unlock,    *)
(* and if the record, read after the approval, still holds a host of the   *)
(* page's owner (handle_autofill_fill).                                    *)
FillIsApproved ==
  out.kind = "password" =>
    /\ \E a \in approved : /\ a.conn = out.conn /\ a.op = "fill"
                           /\ a.host = out.host /\ a.id = out.id
    /\ drawn[out.key] = out.epoch
    /\ Fillable(out.seen)
    /\ \E h \in StoredHosts(out.seen) : Owner(h) = Owner(CanonicalHost(out.host))

=============================================================================
