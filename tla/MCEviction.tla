---------------------------- MODULE MCEviction ----------------------------
(* Small instances of Eviction for TLC.                                     *)
EXTENDS Eviction, TLC

CONSTANTS v1, v2, v3

\* Under the cap of two, v3 fits alone and v1 fits with v2.
Sizes == v1 :> 1 @@ v2 :> 1 @@ v3 :> 2
Symmetry == Permutations(Evictor)
=============================================================================
