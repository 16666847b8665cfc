------------------------------- MODULE Triage -------------------------------
(***************************************************************************)
(* How the three local managers grade an alert they consume: handle_alert  *)
(* and _reclassify of the data, physical access and IoT managers, up to    *)
(* the incident they create (what becomes of it: ApprovalWindow).  Each    *)
(* manager remembers recent alerts in small deques, one per type and host  *)
(* (data), per type and per card (access) or per kind of sensor (IoT), and *)
(* raises an alert to CRITICAL when its partner came within a window.      *)
(* Times are ages in ticks; what no rule can count any more is dropped.    *)
(***************************************************************************)
EXTENDS Deques, FiniteSets, TLC

CONSTANTS
    Feeds,          \* sets of messages: what the sources send in one behaviour
    Short, Cred, Long,  \* windows of the data manager: 120 s, 300 s, 600 s
    Corr,           \* CORRELATION_WINDOW_SEC of the access manager: 120 s
    SameCard,       \* the 60 s that its docstring gives to two alerts of one card
    CardWin,        \* its 30 s for the alerts of one card
    FireCorr,       \* CORRELATION_WINDOW_SEC of the IoT manager: 30 s
    Depth,          \* Depth[m]: maxlen of manager m's deques: 20, 20, 10
    InfraIps,       \* INFRA_IPS
    TestMode,       \* TESTING_MODE of the data manager
    Nobody,         \* no incident, no event
    MaxBurst        \* bound: messages of one tick

VARIABLES
    feed,           \* the messages that may come, one of Feeds
    recent,         \* recent[k]: the deque of key k, of alerts as [sev, of, age],
                    \* "of" being the host, card or device of the alert
    lastEvent,      \* _last_event[card]: access and age of its latest scan
    incident,       \* the incident the latest message led to, and its response
    heard,          \* history: like recent, but holding one alert more
    burst

triageVars == <<feed, recent, lastEvent, incident, heard, burst>>

Rank == [LOW |-> 0, MEDIUM |-> 1, HIGH |-> 2, CRITICAL |-> 3]
Up == [LOW |-> "MEDIUM", MEDIUM |-> "HIGH", HIGH |-> "CRITICAL", CRITICAL |-> "CRITICAL"]

TriageAssumption ==
    /\ {Short, Cred, Long, Corr, SameCard, CardWin, FireCorr} \subseteq Nat
    /\ SameCard <= Corr
    /\ Depth \in [{"data", "pac", "iot"} -> Nat \ {0}]
    /\ \A messages \in Feeds : \A m \in messages :
          /\ m.to \in {"data", "pac", "iot"} /\ m.sev \in DOMAIN Rank
          /\ \A s \in DOMAIN Rank, r \in {"none", "block_attacker_ip", "isolate_host"} :
                Nobody # [sev |-> s, type |-> m.type, subject |-> m.subject, response |-> r]

----------------------------------------------------------------------------
(* What a message adds to which deques. *)

\* The deques of a message: its own, and its card's.
Keys(m) ==
    {k \in {<<"data", m.type, m.subject>>, <<"pac", m.type>>, <<"pac", "card", m.subject>>,
            <<"iot", m.type>>} : k[1] = m.to}

Of(d, k) == IF k \in DOMAIN d THEN d[k] ELSE <<>>
AlertOf(m) == [sev |-> m.sev, of |-> m.subject, age |-> 0]
Noted_Untrimmed(d, m, more) == [k \in Keys(m) |-> Append(Of(d, k), AlertOf(m))] @@ d
Noted(d, m, more) ==
    [k \in DOMAIN d \cup Keys(m) |->
        IF k \in Keys(m) THEN Push(Of(d, k), AlertOf(m), Depth[m.to] + more) ELSE d[k]]

\* recent(...), recent_type(...), recent_of_type(...) after the message was noted.
Came(d, k, sev, window) ==
    \E i \in DOMAIN Of(d, k) : d[k][i].age <= window /\ Rank[d[k][i].sev] >= Rank[sev]

----------------------------------------------------------------------------
(* The rules. *)

DataRule(m, d) ==
    LET came(t, window) == Came(d, <<"data", t, m.subject>>, "LOW", window)
    IN  \/ m.type = "data_exfiltration"
        \/ m.type = "ransomware_behavior" /\ came("credential_dump", Cred)
        \/ m.type = "credential_dump" /\ came("ransomware_behavior", Cred)
        \/ m.type = "port_scan" /\ (came("brute_force_ssh", Short) \/ came("brute_force_http", Short))
        \/ m.type \in {"brute_force_ssh", "brute_force_http"} /\ came("port_scan", Short)
        \/ m.type = "lateral_movement" /\ came("privilege_escalation", Long)
        \/ m.type = "privilege_escalation" /\ came("lateral_movement", Long)

CardAlerts(m, d) ==
    LET s == Of(d, <<"pac", "card", m.subject>>)
    IN  {i \in DOMAIN s : s[i].age <= CardWin /\ Rank[s[i].sev] >= Rank["MEDIUM"]}

PacRule_OneOrder(m, d) ==
    LET came(t, sev) == Came(d, <<"pac", t>>, sev, Corr)
    IN  \/ m.type = "unknown_card_attempt" /\ came("brute_force_badge_attempt", "HIGH")
        \/ m.type = "brute_force_badge_attempt" /\ came("unknown_card_attempt", "HIGH")
        \/ m.type = "impossible_travel_detected" /\ came("unauthorized_area_access", "MEDIUM")
        \/ Cardinality(CardAlerts(m, d)) >= 3
PacRule(m, d) ==
    LET came(t, sev) == Came(d, <<"pac", t>>, sev, Corr)
    IN  \/ m.type = "unknown_card_attempt" /\ came("brute_force_badge_attempt", "HIGH")
        \/ m.type = "brute_force_badge_attempt" /\ came("unknown_card_attempt", "HIGH")
        \/ m.type = "unauthorized_area_access" /\ came("impossible_travel_detected", "HIGH")
        \/ m.type = "impossible_travel_detected" /\ came("unauthorized_area_access", "MEDIUM")
        \/ Cardinality(CardAlerts(m, d)) >= 3

IotRule(m, d) ==
    LET came(t, sev) == Came(d, <<"iot", t>>, sev, FireCorr)
    IN  /\ Rank[m.sev] >= Rank["HIGH"]
        /\ \/ m.type = "temperature" /\ came("gas", "MEDIUM")
           \/ m.type = "gas" /\ came("temperature", "HIGH")
           \/ m.type = "motion" /\ came("gas", "HIGH")

\* _area_upgrade of the access manager: one level, in a restricted area.
Upgraded(m) == IF m.to = "pac" /\ m.restricted THEN Up[m.sev] ELSE m.sev

Severity(m, d) ==
    IF \/ m.to = "data" /\ DataRule(m, d)
       \/ m.to = "pac" /\ PacRule(m, d)
       \/ m.to = "iot" /\ IotRule(m, d)
    THEN "CRITICAL" ELSE Upgraded(m)

----------------------------------------------------------------------------
(* The response of the data manager to a CRITICAL incident. *)

NetworkAttack == {"port_scan", "brute_force_ssh", "brute_force_http", "lateral_movement",
                  "c2_beacon", "data_exfiltration", "unauthorized_vlan", "slow_port_scan",
                  "radius_brute_force", "behavioral_anomaly"}
Enforcement == {"isolation_violation", "immovable_violation"}
Response(m, sev) ==
    IF m.to # "data" \/ sev # "CRITICAL" \/ m.subject \in InfraIps \/ m.type \in Enforcement
    THEN "none"
    ELSE IF m.type \in NetworkAttack THEN "block_attacker_ip" ELSE "isolate_host"

Incident(m, sev) ==
    IF Rank[sev] >= Rank["HIGH"]
    THEN [sev |-> sev, type |-> m.type, subject |-> m.subject, response |-> Response(m, sev)]
    ELSE Nobody

----------------------------------------------------------------------------
(* The consumers. *)

Suppress(m) == m.to = "data" /\ TestMode /\ m.type \in Enforcement
\* A raw scan of pac.events, as against an alert of the access agent.
Spoofed(m) == m.to = "pac" /\ m.raw /\ ~m.knownDoor
Dropped(m) == m.to = "pac" /\ (m.snapshot \/ m.access = "pending")
\* The same scan once more: within 5 seconds, of which a tick holds several.
Repeated(m) ==
    /\ m.to = "pac" /\ m.raw
    /\ lastEvent[m.subject] # Nobody
    /\ lastEvent[m.subject].access = m.access /\ lastEvent[m.subject].age = 0

Consume == burst < MaxBurst /\ burst' = burst + 1

\* An event of a door that does not exist is an attack, and not kept as an alert.
ConsumeSpoofed(m) ==
    /\ Spoofed(m)
    /\ Consume
    /\ incident' = [sev |-> "CRITICAL", type |-> "spoofed_door_injection",
                    subject |-> m.subject, response |-> "none"]
    /\ UNCHANGED <<feed, recent, lastEvent, heard>>

\* A snapshot, the pending state of a verification, or the same scan once more.
ConsumeDropped(m) ==
    /\ ~Spoofed(m) /\ (Dropped(m) \/ Repeated(m))
    /\ Consume
    /\ incident' = Nobody
    /\ UNCHANGED <<feed, recent, lastEvent, heard>>

ConsumeAlert(m) ==
    /\ ~Spoofed(m) /\ ~Dropped(m)
    /\ Consume
    /\ recent' = Noted(recent, m, 0)
    /\ heard' = Noted(heard, m, 1)
    /\ lastEvent' = IF m.to = "pac" /\ m.raw
                    THEN [lastEvent EXCEPT ![m.subject] = [access |-> m.access, age |-> 0]]
                    ELSE lastEvent
    /\ UNCHANGED feed
    /\ incident' = IF Suppress(m) THEN Nobody ELSE Incident(m, Severity(m, recent'))

\* The largest window of a key.
LargestWindow(k) ==
    IF k[1] = "iot" THEN FireCorr
    ELSE IF k[1] = "pac" THEN IF Len(k) = 3 THEN CardWin ELSE Corr
    ELSE IF k[2] \in {"lateral_movement", "privilege_escalation"} THEN Long
    ELSE IF k[2] \in {"ransomware_behavior", "credential_dump"} THEN Cred ELSE Short
AgedAlerts(d) ==
    LET older(k) == Aging(d[k], LargestWindow(k))
    IN  [k \in {x \in DOMAIN d : older(x) # <<>>} |-> older(k)]

TriageTick ==
    /\ recent' = AgedAlerts(recent)
    /\ heard' = AgedAlerts(heard)
    /\ lastEvent' = [c \in DOMAIN lastEvent |->
                        IF lastEvent[c] = Nobody THEN Nobody ELSE [lastEvent[c] EXCEPT !.age = 1]]
    /\ incident' = Nobody
    /\ burst' = 0
    /\ UNCHANGED feed

TriageInit ==
    /\ feed \in Feeds
    /\ recent = <<>> /\ heard = <<>>
    /\ lastEvent = [c \in {m.subject : m \in feed} |-> Nobody]
    /\ incident = Nobody
    /\ burst = 0

TriageNext ==
    \/ \E m \in feed : ConsumeSpoofed(m) \/ ConsumeDropped(m) \/ ConsumeAlert(m)
    \/ TriageTick

TriageSpec == TriageInit /\ [][TriageNext]_triageVars

----------------------------------------------------------------------------
(* Properties. *)

TriageTypeOK ==
    /\ \A k \in DOMAIN recent :
          /\ Len(recent[k]) <= Depth[k[1]]
          /\ \A i \in DOMAIN recent[k] : /\ recent[k][i].sev \in DOMAIN Rank
                                         /\ recent[k][i].age \in 0..LargestWindow(k)
    /\ \A c \in DOMAIN lastEvent : lastEvent[c] = Nobody \/ lastEvent[c].age \in {0, 1}
    /\ incident = Nobody \/ Rank[incident.sev] >= Rank["HIGH"]

\* Two kinds of alert that mean more together, each at least so severe, and the
\* time between them; "same" when both must be of one card.  The rules as the
\* managers state them (data_local_manager/main.py:8-10, pac_local_manager/main.py:9
\* and :10, iot_local_manager/main.py:224 and :225), in either order; those of the
\* data manager are about one host (which line 10 leaves open).
Ordered(to, first, sev1, second, sev2, window, same) ==
    {[to |-> to, first |-> first, sev1 |-> sev1, second |-> second, sev2 |-> sev2,
      window |-> window, same |-> same]}
Pair(to, one, sev1, other, sev2, window, same) ==
    Ordered(to, one, sev1, other, sev2, window, same)
        \cup Ordered(to, other, sev2, one, sev1, window, same)
Pairs ==
    UNION {Pair("data", "ransomware_behavior", "LOW", "credential_dump", "LOW", Cred, FALSE),
           Pair("data", "port_scan", "LOW", "brute_force_ssh", "LOW", Short, FALSE),
           Pair("data", "port_scan", "LOW", "brute_force_http", "LOW", Short, FALSE),
           Pair("data", "lateral_movement", "LOW", "privilege_escalation", "LOW", Long, FALSE),
           Pair("pac", "unknown_card_attempt", "HIGH", "brute_force_badge_attempt", "HIGH",
                Corr, FALSE),
           Pair("pac", "unauthorized_area_access", "MEDIUM", "impossible_travel_detected", "HIGH",
                SameCard, TRUE),
           Pair("iot", "temperature", "HIGH", "gas", "MEDIUM", FireCorr, FALSE),
           Pair("iot", "motion", "HIGH", "gas", "HIGH", FireCorr, FALSE)}
KeyOf(to, type, subject) == IF to = "data" THEN <<to, type, subject>> ELSE <<to, type>>

\* Message m is the second alert of pair p, and d remembers the first.
Completes(p, m, d) ==
    LET s == Of(d, KeyOf(p.to, p.first, m.subject))
    IN  /\ m.to = p.to /\ m.type = p.second /\ Rank[m.sev] >= Rank[p.sev2]
        /\ \E i \in DOMAIN s : /\ s[i].age <= p.window /\ Rank[s[i].sev] >= Rank[p.sev1]
                               /\ p.same => s[i].of = m.subject

\* The orders in which the IoT manager does not look for the first alert: a gas
\* reading that is MEDIUM after a temperature, and any after a motion (its
\* _reclassify, lines 241-255).
Unlooked(p, m) ==
    p.to = "iot" /\ m.type = "gas" /\ (p.first = "motion" \/ Rank[m.sev] < Rank["HIGH"])

BecomesCritical == incident' # Nobody /\ incident'.sev = "CRITICAL"

\* A pair of related alerts becomes a CRITICAL incident: when the second of the
\* two is consumed within the window, for the same host or card where the rule
\* says so, and whatever else came between them as long as the deque of the first
\* one's kind still holds it; so does the third alert of a card in its 30 seconds
\* (_reclassify of the three managers).  In whichever order they came, except for
\* the two IoT orders that GradedAsDocumented shows to be missing.
PairIsCritical ==
    [][ \A m \in feed : ConsumeAlert(m) =>
          /\ \A p \in Pairs :
                /\ Completes(p, m, heard) /\ ~Unlooked(p, m)
                /\ Len(heard[KeyOf(p.to, p.first, m.subject)]) <= Depth[p.to]
                => BecomesCritical
          /\ m.to = "pac" /\ Cardinality(CardAlerts(m, heard')) >= 3
                /\ Len(heard'[<<"pac", "card", m.subject>>]) <= Depth["pac"]
                => BecomesCritical
      ]_triageVars

\* What the docstrings of the access and the IoT manager say of an alert: CRITICAL
\* when it is itself (after the upgrade of a restricted area), when it completes a
\* pair, or when it is the third of its card; and otherwise not.  Violated both
\* ways: pac_local_manager/main.py:10 says "unauthorized_area + impossible_travel
\* same card within 60s", and the code counts those of any card, for 120 s;
\* iot_local_manager/main.py:224 says "If temp HIGH + gas MEDIUM within 30s ->
\* upgrade both", and the code upgrades the later one only, when it is not the gas
\* reading.
GradedAsDocumented ==
    [][ \A m \in feed : m.to \in {"pac", "iot"} /\ ConsumeAlert(m) =>
          (BecomesCritical <=>
              \/ Upgraded(m) = "CRITICAL"
              \/ \E p \in Pairs : Completes(p, m, heard)
              \/ m.to = "pac" /\ Cardinality(CardAlerts(m, heard')) >= 3)
      ]_triageVars

=============================================================================
