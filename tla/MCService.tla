------------------------------ MODULE MCService ------------------------------
(* An instance of Service for TLC. *)
EXTENDS Service

CONSTANTS r1, r2

MCReq == {r1, r2}

=============================================================================
