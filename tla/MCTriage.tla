------------------------------ MODULE MCTriage ------------------------------
(***************************************************************************)
(* The pairs of alerts of each manager, with what may come between them.   *)
(***************************************************************************)
EXTENDS Triage

DataAlert(type, host, sev) == [to |-> "data", type |-> type, subject |-> host, sev |-> sev]
CardAlert(type, card, sev) ==
    [to |-> "pac", type |-> type, subject |-> card, sev |-> sev, raw |-> FALSE,
     knownDoor |-> TRUE, snapshot |-> FALSE, access |-> "none", restricted |-> FALSE]
Scan(access) ==
    [CardAlert("scan", "card1", "MEDIUM") EXCEPT !.raw = TRUE, !.access = access]
Sensed(type, sev) == [to |-> "iot", type |-> type, subject |-> "device", sev |-> sev]
MCFeeds ==
    {{DataAlert("port_scan", "h1", "MEDIUM"), DataAlert("brute_force_ssh", "h1", "HIGH"),
      DataAlert("brute_force_ssh", "h2", "HIGH")},
     {DataAlert("port_scan", "h1", "MEDIUM"), DataAlert("brute_force_http", "h1", "LOW"),
      DataAlert("isolation_violation", "h1", "HIGH")},
     {DataAlert("ransomware_behavior", "h1", "HIGH"), DataAlert("credential_dump", "h1", "HIGH"),
      DataAlert("data_exfiltration", "h2", "HIGH")},
     {DataAlert("lateral_movement", "h1", "HIGH"), DataAlert("privilege_escalation", "h1", "HIGH"),
      DataAlert("privilege_escalation", "h2", "HIGH")},
     {CardAlert("unknown_card_attempt", "card1", "HIGH"),
      CardAlert("brute_force_badge_attempt", "card2", "CRITICAL"),
      CardAlert("unauthorized_area_access", "card1", "MEDIUM")},
     {CardAlert("unauthorized_area_access", "card1", "MEDIUM"),
      [CardAlert("unauthorized_area_access", "card1", "HIGH") EXCEPT !.restricted = TRUE],
      CardAlert("impossible_travel_detected", "card1", "CRITICAL"),
      CardAlert("impossible_travel_detected", "card2", "CRITICAL")},
     {Scan("granted"), Scan("denied"), Scan("pending"),
      [Scan("granted") EXCEPT !.knownDoor = FALSE], [Scan("granted") EXCEPT !.snapshot = TRUE]},
     {Sensed("temperature", "HIGH"), Sensed("temperature", "LOW"), Sensed("gas", "MEDIUM"),
      Sensed("gas", "HIGH")},
     {Sensed("motion", "HIGH"), Sensed("gas", "LOW"), Sensed("gas", "HIGH")}}
MCDepth == [data |-> 3, pac |-> 3, iot |-> 2]

\* Two cards; a fire.
DocumentedFeeds ==
    {{CardAlert("impossible_travel_detected", "card2", "CRITICAL"),
      CardAlert("unauthorized_area_access", "card1", "MEDIUM")},
     {Sensed("temperature", "HIGH"), Sensed("gas", "MEDIUM")}}

=============================================================================
