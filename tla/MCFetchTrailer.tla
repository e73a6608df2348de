--------------------------- MODULE MCFetchTrailer ---------------------------
(* Small instances of FetchTrailer for TLC.                                 *)
EXTENDS FetchTrailer, TLC

\* Every run of the service is process 1, as in a container.
SamePid == [b \in 0 .. MaxBoots |-> 1]

\* Every run of the service has a process id of its own.
FreshPid == [b \in 0 .. MaxBoots |-> b + 1]

Reasons == {"extraction_failed", "geo_blocked"}
Symmetry == Permutations(Client) \cup Permutations(Vid)
=============================================================================
