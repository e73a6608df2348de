---------------------- MODULE MCFetchTrailerRefinement ----------------------
(* Small instances of FetchTrailerRefinement for TLC.                       *)
EXTENDS FetchTrailerRefinement, TLC

FreshPid == [b \in 0 .. MaxBoots |-> b + 1]
Reasons == {"extraction_failed"}
=============================================================================
