----------------------------- MODULE MCScreening -----------------------------
(***************************************************************************)
(* Every user is new: an account of less than 7 days with under 5 trades.  *)
(***************************************************************************)
EXTENDS Screening

AllNew == [u \in Users |-> 25]
=============================================================================
