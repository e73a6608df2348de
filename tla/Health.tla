------------------------------- MODULE Health -------------------------------
(***************************************************************************)
(* The verdict of /health (health_body of src/main.rs) on the two counters *)
(* that the cold path (FetchTrailer) and discovery (Resolve) keep.         *)
(***************************************************************************)
EXTENDS Naturals

CONSTANT HealthFailThreshold  \* HEALTH_FAIL_THRESHOLD

ASSUME HealthAssumption == HealthFailThreshold \in Nat \ {0}

\* A missing key hides failing upstreams, and these a failing extractor.
HealthBody(tmdbAvailable, recentFailures, extractFails) ==
    IF ~ tmdbAvailable THEN "tmdb_key_missing"
    ELSE IF recentFailures >= HealthFailThreshold THEN "upstream_unavailable"
    ELSE IF extractFails >= HealthFailThreshold THEN "extractor_unavailable"
    ELSE "ok"
=============================================================================
