----------------------------- MODULE MCAccounts -----------------------------
(* Accounts with one user of each role; the requests are interchangeable. *)
EXTENDS Accounts, TLC

CallSymmetry == Permutations(Calls)
=============================================================================
