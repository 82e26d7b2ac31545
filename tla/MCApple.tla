------------------------------- MODULE MCApple -------------------------------
(* An instance of AppleEdit for TLC. *)
EXTENDS AppleEdit

=============================================================================
