------------------------------ MODULE MCAdmin ------------------------------
(* The browsers, the handlers and the secrets may be exchanged. *)
EXTENDS AdminAccess, TLC

Interchangeable ==
    Permutations(Browsers) \cup Permutations(Workers) \cup Permutations(Secrets)
=============================================================================
