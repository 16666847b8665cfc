----------------------------- MODULE CardTravel -----------------------------
(***************************************************************************)
(* The credential anomaly agent (credential_anomaly_agent/main(1).py).     *)
(* Only granted events count.  The agent keeps where a card was last, and  *)
(* compares the time since with what the walk takes; and the readers that  *)
(* let the card in within a minute.  Whether the hour is unusual for the   *)
(* card (a median over its history) is left open.  Times are ages in ticks.*)
(***************************************************************************)
EXTENDS Integers, FiniteSets

CONSTANTS
    Badge, Reader,
    Floor,          \* Floor[r]
    SameFloor,      \* SAME_FLOOR_TRAVEL
    NextFloor,      \* FLOOR_TRAVEL_TIME of (1, 2) and (2, 3), and of unknown pairs
    TwoFloors,      \* FLOOR_TRAVEL_TIME of (1, 3)
    Sharing,        \* the 30 seconds of _detect_credential_sharing
    Session,        \* its 60 seconds, after which a reader is forgotten
    Nowhere,
    MaxGrants       \* bound: grants of one tick

TravelAssumption ==
    /\ {SameFloor, NextFloor, TwoFloors, Sharing, Session} \subseteq Nat
    /\ SameFloor <= NextFloor /\ NextFloor <= TwoFloors
    /\ TwoFloors <= 2 * NextFloor /\ TwoFloors <= Session
    /\ Nowhere \notin [reader : Reader, age : Nat]

VARIABLES
    lastPlace,      \* _last_seen[b]: reader and age
    active,         \* _active_readers[b], as [reader, age]
    warned,         \* the alerts of the latest event
    grants,         \* bound
    visits          \* history: the latest grant of a badge at each reader, with its
                    \* age and whether impossible travel was reported since

travelVars == <<lastPlace, active, warned, grants, visits>>

\* Seconds of the walk between two readers.
Walk(r, s) ==
    IF Floor[r] = Floor[s] THEN SameFloor
    ELSE IF {Floor[r], Floor[s]} = {1, 3} THEN TwoFloors ELSE NextFloor

ImpossibleTravel(b, r) ==
    /\ lastPlace[b] # Nowhere
    /\ lastPlace[b].reader # r
    /\ lastPlace[b].age < Walk(lastPlace[b].reader, r)

Readers(b, r) ==
    {[reader |-> r, age |-> 0]} \cup {a \in active[b] : a.reader # r /\ a.age <= Session}
Shared(b, r) == \E a \in Readers(b, r) : a.reader # r /\ a.age < Sharing

\* handle_event of a granted event; any other changes nothing.
Granted(b, r, unusual) ==
    LET moved == ImpossibleTravel(b, r) IN
    /\ grants < MaxGrants
    /\ grants' = grants + 1
    /\ active' = [active EXCEPT ![b] = Readers(b, r)]
    /\ warned' = {w \in {"impossible_travel_detected", "credential_sharing_suspected",
                         "off_schedule_access_pattern"} :
                    \/ w = "impossible_travel_detected" /\ moved
                    \/ w = "credential_sharing_suspected" /\ Shared(b, r)
                    \/ w = "off_schedule_access_pattern" /\ unusual}
    /\ lastPlace' = [lastPlace EXCEPT ![b] = [reader |-> r, age |-> 0]]
    /\ visits' = [visits EXCEPT ![b] =
                    {[reader |-> r, age |-> 0, reported |-> FALSE]} \cup
                    {[v EXCEPT !.reported = @ \/ moved] : v \in {x \in @ : x.reader # r}}]

TravelTick ==
    /\ lastPlace' = [b \in Badge |->
                       IF lastPlace[b] = Nowhere \/ lastPlace[b].age > TwoFloors
                       THEN lastPlace[b] ELSE [lastPlace[b] EXCEPT !.age = @ + 1]]
    /\ active' = [b \in Badge |-> {[a EXCEPT !.age = IF @ > Session THEN @ ELSE @ + 1] :
                                      a \in active[b]}]
    /\ visits' = [b \in Badge |-> {v \in {[x EXCEPT !.age = @ + 1] : x \in visits[b]} :
                                      v.age <= TwoFloors}]
    /\ warned' = {}
    /\ grants' = 0

TravelInit ==
    /\ lastPlace = [b \in Badge |-> Nowhere]
    /\ active = [b \in Badge |-> {}]
    /\ visits = [b \in Badge |-> {}]
    /\ warned = {} /\ grants = 0

TravelNext ==
    \/ \E b \in Badge, r \in Reader, unusual \in BOOLEAN : Granted(b, r, unusual)
    \/ TravelTick

TravelSpec == TravelInit /\ [][TravelNext]_travelVars

----------------------------------------------------------------------------
(* Properties. *)

TravelTypeOK ==
    \A b \in Badge :
        /\ lastPlace[b] \in {Nowhere} \cup [reader : Reader, age : 0..TwoFloors + 1]
        /\ active[b] \subseteq [reader : Reader, age : 0..Session + 1]
        /\ visits[b] \subseteq [reader : Reader, age : 0..TwoFloors, reported : BOOLEAN]

\* No card is in two places unreported: a card that was let in at two readers in
\* less time than the walk between them takes has led to impossible_travel_detected
\* since the first of the two, although the agent compares with the latest place
\* only and the card may have been anywhere between; and to the suspicion that it
\* is shared, if the two are less than 30 seconds apart (_detect_impossible_travel).
TravelIsReported ==
    [][ \A b \in Badge, r \in Reader :
          [reader |-> r, age |-> 0, reported |-> FALSE] \in visits'[b] \ visits[b] =>
              \A v \in visits[b] : v.reader # r =>
                  /\ v.age < Walk(v.reader, r) =>
                        v.reported \/ "impossible_travel_detected" \in warned'
                  /\ v.age < Sharing => "credential_sharing_suspected" \in warned'
      ]_travelVars

=============================================================================
