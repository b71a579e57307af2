------------------------------ MODULE MCBrands ------------------------------
(* Brands with interchangeable requests. *)
EXTENDS Brands, TLC

RequestSymmetry == Permutations(Requests)
=============================================================================
