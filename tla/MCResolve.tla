------------------------------ MODULE MCResolve ------------------------------
(* Small instances of Resolve for TLC: a film with two TMDB trailers and a    *)
(* third that only KinoCheck has, and a title of which both have one teaser.  *)
EXTENDS Resolve, TLC

CONSTANTS film, fresh, a, b, c, d, old, new

Video(id, type, official) ==
    [site |-> "YouTube", key |-> id, type |-> type, official |-> official]

\* a is listed twice, the second time as the official trailer.
VideoLists ==
    film :> <<[Video(c, "Trailer", TRUE) EXCEPT !.site = "Vimeo"],
              Video(a, "Clip", FALSE), Video(b, "Trailer", FALSE),
              Video("", "Trailer", TRUE), Video(a, "Trailer", TRUE)>>
    @@ fresh :> <<Video(b, "Teaser", FALSE)>>
Kinos == film :> <<d>> @@ fresh :> <<b>>
NoKinos == film :> <<>> @@ fresh :> <<>>
Founds == film :> <<b, a>> @@ fresh :> <<a, a, b, c, d>>
NoFounds == film :> <<>> @@ fresh :> <<a, a, b, c, d>>

SealedTo(key) == [form |-> "sealed", to |-> key, tmdbKey |-> "good"]
OldLinks == {SealedTo(old)}
PlainLinks == {[form |-> "plain", tmdbKey |-> "good"],
               [form |-> "plain", tmdbKey |-> "bad"]}

\* The keys were rotated, with a slip of the pen; or lost, and there is a TMDB key.
Envs == {[configKey |-> new, configKeysPrev |-> <<"typo", old>>, tmdbKey |-> ""],
         [configKey |-> "typo", configKeysPrev |-> <<old>>, tmdbKey |-> "good"]}
BareEnv == {[configKey |-> "", configKeysPrev |-> <<>>, tmdbKey |-> ""]}

AllEnds == GetJsonEnd
DataOnly == {"data"}
Symmetry == Permutations(Request)
=============================================================================
