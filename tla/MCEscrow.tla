------------------------------ MODULE MCEscrow ------------------------------
(***************************************************************************)
(* Small instances of Escrow for TLC.                                      *)
(***************************************************************************)
EXTENDS Escrow, TLC

MCSymmetry == Permutations(Threads) \cup Permutations(Refs) \cup Permutations(Txns)
=============================================================================
