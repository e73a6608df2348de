---------------------------- MODULE MCPlayback ----------------------------
(* Small instances of Playback for TLC: a letterboxed take and another one of *)
(* other length, and requests for parts at and past the end.                  *)
EXTENDS Playback, TLC

CONSTANTS wide, full

Sizes == wide :> 1 @@ full :> 3
NoTags == [any |-> FALSE, tags |-> {}]
AnyTag == [any |-> TRUE, tags |-> {}]

Get(range, inm) == [method |-> "GET", range |-> range, inm |-> inm]
Requests == {Get(NoRange, NoTags), Get(JunkRange, AnyTag),
             Get(Bytes(1, Open), AnyTag), Get(Bytes(0, 2), NoTags),
             Get(Bytes(2, 1), NoTags),
             [method |-> "HEAD", range |-> NoRange, inm |-> AnyTag]}
Plain == {Get(NoRange, NoTags)}
Symmetry == Permutations(Viewer)
=============================================================================
