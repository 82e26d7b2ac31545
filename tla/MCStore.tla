------------------------------- MODULE MCStore -------------------------------
(***************************************************************************)
(* Instances of StoreHandlers for TLC: which task may send what, on which  *)
(* connection; and, for MCStoreDrop.cfg, StoreHandlers with an unlock that *)
(* fails after it loaded the keys.                                         *)
(***************************************************************************)
EXTENDS StoreHandlers, TLC

\* Two windows, one after the other: each unlocks, the first one also reads; a sync.
WindowOwner == ("u" :> "w1") @@ ("v" :> "w2") @@ ("r" :> "w1") @@ ("s" :> NoConn)
WindowOps ==
  ("u" :> {"unlock"}) @@ ("v" :> {"unlock"}) @@ ("r" :> {"read"}) @@ ("s" :> {"sync"})

\* A window that unlocks and starts over, and two browsers, one with every autofill op.
BrowserOwner == ("u" :> "w1") @@ ("q" :> "b1") @@ ("p" :> "b2")
BrowserOps ==
  ("u" :> {"unlock", "reset"}) @@ ("q" :> {"names", "named", "query", "fill"})
    @@ ("p" :> {"names"})

\* Windows that unlock and replace the store one request after the other, while another
\* request reads or syncs.
ReplaceOwner == ("m" :> "w1") @@ ("u" :> "w1") @@ ("v" :> "w2") @@ ("s" :> NoConn)
ReplaceOps ==
  ("m" :> {"unlock", "reset", "migrate"}) @@ ("u" :> {"read"}) @@ ("v" :> {"unlock", "reset"})
    @@ ("s" :> {"sync"})

\* A window that starts an import over while a browser holds the store open.
RetryOwner == ("m" :> "w1") @@ ("q" :> "b1")
RetryOps == ("m" :> {"migrate"}) @@ ("q" :> {"names"})

Interchangeable == Permutations(Store)

-----------------------------------------------------------------------------

\* An unlink in UserStore._drop_prev() raises.  The handler is told of a failure and opens
\* nothing; nobody wipes the keys.
DropPrevRaises(t) ==
  /\ pc[t] = "in" /\ fn[t] = "unlock"
  /\ obj[t] \notin keys /\ disk = "store"
  /\ keys' = (keys \cup {obj[t]}) \ (wipe_req \cap {obj[t]})
  /\ WorkerDone(t, "failed")
  /\ UNCHANGED <<notWorker, disk, wipe_req, fn, obj>>

FaultNext == Next \/ \E t \in Task : DropPrevRaises(t)

FaultSpec == Init /\ [][FaultNext]_vars

=============================================================================
