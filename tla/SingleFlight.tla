---------------------------- MODULE SingleFlight ----------------------------
(***************************************************************************)
(* What fetch_trailer promises the rest of the service: at most one flight *)
(* per key; a flight that lands gives its one outcome to everyone aboard;  *)
(* a flight may be abandoned by all its passengers and still lands; keys   *)
(* get stored by flights only, and no flight lands "ok" without having     *)
(* stored its key.  Stored keys may be dropped at any time.                *)
(***************************************************************************)
CONSTANTS Asker, Key, Outcome    \* "ok" is an outcome

VARIABLES
    flight,  \* per key: [st : {"none", "aloft", "stowed"}], or, landed and
             \* not swept yet, [st : {"landed"}, outcome : Outcome]
    stored,  \* the keys that can be had without a flight
    ask      \* per asker: [st : {"idle"}], what it wants
             \* ([st : {"asking", "aboard"}, key : Key]), or what it was told
             \* ([st : {"answered"}, outcome : Outcome])

svars == <<flight, stored, ask>>

NoFlight == [st |-> "none"]
NotAsking == [st |-> "idle"]
Told(o) == [st |-> "answered", outcome |-> o]

Init ==
    /\ flight = [k \in Key |-> NoFlight]
    /\ stored = {}
    /\ ask = [a \in Asker |-> NotAsking]

Ask(a, k) ==
    /\ ask[a].st \in {"idle", "answered"}
    /\ ask' = [ask EXCEPT ![a] = [st |-> "asking", key |-> k]]
    /\ UNCHANGED <<flight, stored>>

\* The key is stored: no flight is needed.
Hit(a) ==
    /\ ask[a].st = "asking"
    /\ ask[a].key \in stored
    /\ ask' = [ask EXCEPT ![a] = Told("ok")]
    /\ UNCHANGED <<flight, stored>>

\* Board the flight for the key, which takes off if there is none.
Board(a, k) ==
    /\ ask[a] = [st |-> "asking", key |-> k]
    /\ flight[k].st # "landed"
    /\ ask' = [ask EXCEPT ![a] = [st |-> "aboard", key |-> k]]
    /\ flight' = IF flight[k] = NoFlight
                 THEN [flight EXCEPT ![k] = [st |-> "aloft"]] ELSE flight
    /\ UNCHANGED stored

\* The flight has landed and has not been swept: its outcome is news enough.
Late(a) ==
    /\ ask[a].st = "asking"
    /\ flight[ask[a].key].st = "landed"
    /\ ask' = [ask EXCEPT ![a] = Told(flight[ask[a].key].outcome)]
    /\ UNCHANGED <<flight, stored>>

Abandon(a) ==
    /\ ask' = [ask EXCEPT ![a] = NotAsking]
    /\ UNCHANGED <<flight, stored>>

\* The flight stores its key.
Stow(k) ==
    /\ flight[k].st = "aloft"
    /\ flight' = [flight EXCEPT ![k] = [st |-> "stowed"]]
    /\ stored' = stored \cup {k}
    /\ UNCHANGED ask

\* Everyone aboard learns the same outcome at once.
Land(k, o) ==
    /\ flight[k].st = IF o = "ok" THEN "stowed" ELSE "aloft"
    /\ flight' = [flight EXCEPT ![k] = [st |-> "landed", outcome |-> o]]
    /\ ask' = [a \in Asker |->
                  IF ask[a] = [st |-> "aboard", key |-> k] THEN Told(o)
                                                           ELSE ask[a]]
    /\ UNCHANGED stored

Sweep(k) ==
    /\ flight[k].st = "landed"
    /\ flight' = [flight EXCEPT ![k] = NoFlight]
    /\ UNCHANGED <<stored, ask>>

Drop(k) ==
    /\ stored' = stored \ {k}
    /\ UNCHANGED <<flight, ask>>

\* Only the stored keys survive a restart.
Reset ==
    /\ flight' = [k \in Key |-> NoFlight]
    /\ ask' = [a \in Asker |-> NotAsking]
    /\ UNCHANGED stored

Fly(k) == Stow(k) \/ (\E o \in Outcome : Land(k, o)) \/ Sweep(k)

Next ==
    \/ \E a \in Asker, k \in Key : Ask(a, k) \/ Board(a, k)
    \/ \E a \in Asker : Hit(a) \/ Late(a) \/ Abandon(a)
    \/ \E k \in Key : Fly(k) \/ Drop(k)
    \/ Reset

SafeSpec == Init /\ [][Next]_svars

\* Flights land whether or not anybody is still aboard.
Spec == SafeSpec /\ \A k \in Key : WF_svars(Fly(k))
=============================================================================
