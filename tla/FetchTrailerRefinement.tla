----------------------- MODULE FetchTrailerRefinement -----------------------
(***************************************************************************)
(* fetch_trailer with its map, drivers and temp files implements           *)
(* SingleFlight.  A waiter counts as answered from the moment its shared   *)
(* download completes, whether or not it has been polled since.            *)
(***************************************************************************)
EXTENDS FetchTrailer

FlightOf(v) ==
    IF inFlight[v] = NoGen THEN [st |-> "none"]
    ELSE LET j == job[inFlight[v]] IN
         CASE j.phase = "evicting" -> [st |-> "stowed"]
           [] j.phase = "done" -> [st |-> "landed", outcome |-> j.result]
           [] OTHER -> [st |-> "aloft"]

AskOf(c) ==
    LET t == caller[c] IN
    CASE t.pc = "idle" -> [st |-> "idle"]
      [] t.pc \in {"stat", "missed"} -> [st |-> "asking", key |-> t.vid]
      [] t.pc = "answered" -> [st |-> "answered", outcome |-> t.reply]
      [] t.pc = "awaiting" ->
            IF job[t.gen].phase \in {"done", "cleared"}
            THEN [st |-> "answered", outcome |-> job[t.gen].result]
            ELSE [st |-> "aboard", key |-> t.vid]

flightBar == [v \in Vid |-> FlightOf(v)]
storedBar == {v \in Vid : files[v] # "absent"}
askBar == [c \in Caller |-> AskOf(c)]

SF == INSTANCE SingleFlight WITH Asker <- Caller, Key <- Vid,
          flight <- flightBar, stored <- storedBar, ask <- askBar

\* fetch_trailer behaves like SingleFlight, its fairness included: one flight
\* per id, one outcome for all who joined it, "ok" only after a publication.
ImplementsSingleFlight == SF!Spec
=============================================================================
