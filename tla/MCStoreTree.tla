----------------------------- MODULE MCStoreTree -----------------------------
(***************************************************************************)
(* Instances of StoreTree for TLC; and, for MCStoreTreeDrop.cfg and        *)
(* MCStoreTreeFsync.cfg, StoreTree on a disk that fails where the code     *)
(* does not expect it: an unlink in _drop_prev(), and the fsync of the     *)
(* parent directory after two trees were exchanged or renamed.  The call   *)
(* then ends in an error with whatever it had in memory.                   *)
(***************************************************************************)
EXTENDS StoreTree, TLC

CONSTANTS a1, a2

\* No step tells the names of trees moved aside apart.
Interchangeable == Permutations(Aside)

-----------------------------------------------------------------------------

\* A .prev cannot be unlinked.  op_unlock answers with an error and opens no tier 1, but the
\* keys were loaded, and the next unlock returns at once.
DropPrevRaises ==
  /\ pc = "drop" /\ todo # << >>
  /\ Return
  /\ UNCHANGED <<disk, chip, mem, used>>

\* reseal_if_tpm_available(): the new tree is in place, the old keys stay in memory.
ExchangeRaises ==
  /\ pc = "swapped"
  /\ Return
  /\ UNCHANGED <<disk, chip, mem, used>>

\* import_v1(): the new tree is in place, the old one stays aside, _doc and the settings are
\* those from before.
ImportRaises ==
  /\ pc = "imported"
  /\ Return
  /\ UNCHANGED <<disk, chip, mem, used>>

FaultNext == Next \/ DropPrevRaises \/ ExchangeRaises \/ ImportRaises

FaultSpec == Init /\ [][FaultNext]_vars

=============================================================================
