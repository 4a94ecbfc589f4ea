------------------------------ MODULE MCWallet ------------------------------
(***************************************************************************)
(* The owners that are not contracts are interchangeable.                  *)
(***************************************************************************)
EXTENDS MultiSigWallet, TLC

People == Permutations(Addresses \ Contracts)
=============================================================================
