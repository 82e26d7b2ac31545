------------------------------- MODULE MCPower -------------------------------
(* An instance of Power for TLC: one window, which unlocks and starts over, and the syncs. *)
EXTENDS Power, TLC

PowerOwner == ("u" :> "w1") @@ ("s" :> NoConn)
PowerOps   == ("u" :> {"unlock", "reset"}) @@ ("s" :> {"sync"})

=============================================================================
