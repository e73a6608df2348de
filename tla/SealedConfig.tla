---------------------------- MODULE SealedConfig ----------------------------
(***************************************************************************)
(* The installs' links of den-reel (src/seal.rs, src/userconfig.rs): a     *)
(* link carries its TMDB key sealed to a key of the operator, or in plain. *)
(* The cryptography is a library's: a sealed segment opens with the key it *)
(* was sealed to and with no other.                                        *)
(***************************************************************************)
EXTENDS Functions

CONSTANTS
    SecretKey,  \* well-formed private keys; any other text is malformed
    NoConfig    \* what decode returns for a segment it does not accept

\* A segment that is base64 of one of the two forms.  An empty tmdbKey stands for
\* any that validate rejects: none, an empty or an oversized one.
Segment(TmdbKey) == [form : {"sealed"}, to : SecretKey, tmdbKey : TmdbKey]
                       \cup [form : {"plain"}, tmdbKey : TmdbKey]

\* Mutant of FromEnv: a malformed prior key takes the ring with it.
FromEnvStrict(current, prev) ==
    LET keys == {current} \cup Range(prev)
    IN  IF keys \subseteq SecretKey THEN keys ELSE {}

\* The ring of keys.  Without a current key, or with a malformed one, sealing is
\* off (AppState::new); malformed prior keys are skipped.
FromEnv(current, prev) ==
    IF current \in SecretKey THEN {current} \cup (Range(prev) \cap SecretKey)
    ELSE {}

\* Open tries every key of the ring, in an order that does not matter: no more
\* than one of them opens the segment.
Opens(ring, segment) == segment.to \in ring

Validate(tmdbKey) == IF tmdbKey = "" THEN NoConfig ELSE tmdbKey

\* The TMDB key of a segment.
Decode(ring, segment) ==
    IF segment.form = "sealed" /\ ~ Opens(ring, segment) THEN NoConfig
    ELSE Validate(segment.tmdbKey)
=============================================================================
