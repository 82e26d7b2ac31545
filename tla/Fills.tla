--------------------------------- MODULE Fills ---------------------------------
(***************************************************************************)
(* What the daemon and the browser's host promise to the person and to the *)
(* page, with nothing of how: a request is answered at most once, and an   *)
(* account is filled in at most once for a request, after the person       *)
(* approved that request and unless it was called off (docs/protocol.md    *)
(* 6.1, docs/autofill-protocol.md 4).  Service is shown to implement it.   *)
(***************************************************************************)
EXTENDS Naturals

CONSTANT Req   \* the requests of the page

VARIABLES
  asked,      \* the page made them
  approved,   \* the person approved their dialogs
  off,        \* a lock or a hang-up called them off
  filled,     \* their account was given out
  answers     \* how many answers each got

vars == <<asked, approved, off, filled, answers>>

TypeOK ==
  /\ asked \subseteq Req /\ approved \subseteq Req /\ off \subseteq Req /\ filled \subseteq Req
  /\ answers \in [Req -> Nat]

Init ==
  /\ asked = {} /\ approved = {} /\ off = {} /\ filled = {}
  /\ answers = [r \in Req |-> 0]

Ask(r) ==
  /\ r \in Req \ asked
  /\ asked' = asked \cup {r}
  /\ UNCHANGED <<approved, off, filled, answers>>

Approve(r) ==
  /\ r \in asked \ approved
  /\ approved' = approved \cup {r}
  /\ UNCHANGED <<asked, off, filled, answers>>

CallOff(r) ==
  /\ r \in asked \ filled
  /\ off' = off \cup {r}
  /\ UNCHANGED <<asked, approved, filled, answers>>

Fill(r) ==
  /\ r \in approved \ (off \cup filled)
  /\ filled' = filled \cup {r}
  /\ UNCHANGED <<asked, approved, off, answers>>

\* A host that loses the daemon answers all that wait.
Answer(S) ==
  /\ S \subseteq asked /\ \A r \in S : answers[r] = 0
  /\ answers' = [r \in Req |-> IF r \in S THEN 1 ELSE answers[r]]
  /\ UNCHANGED <<asked, approved, off, filled>>

Next ==
  \/ \E r \in Req : Ask(r) \/ Approve(r) \/ CallOff(r) \/ Fill(r)
  \/ \E S \in SUBSET Req : Answer(S)

Spec == Init /\ [][Next]_vars

-----------------------------------------------------------------------------

\* No request gets two answers, and none that was not made gets one.
AnsweredOnce == \A r \in Req : answers[r] <= 1 /\ (answers[r] = 1 => r \in asked)

\* An account leaves the daemon only for a request the person approved.
FillsApproved == filled \subseteq approved /\ approved \subseteq asked

\* A step gives out an account only while its request is approved and nothing called it off,
\* whenever the approval arrives.
NeverAfterCallOff == [][filled' \ filled \subseteq approved \ off]_vars

=============================================================================
