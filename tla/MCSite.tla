------------------------------- MODULE MCSite -------------------------------
(***************************************************************************)
(* The detecting side on small instances of its components.                *)
(***************************************************************************)
EXTENDS Site, MCTriage

CONSTANTS
    student, other, server, infra, outside, dns,            \* addresses
    r1, r2, r3, r4                                          \* card readers

----------------------------------------------------------------------------
(* Risk: halving is exact in the code, and rounded down here. *)

Halved(s, n) == s \div (2^n)

----------------------------------------------------------------------------
(* Signatures: five kinds of traffic, thresholds of 2, windows of a tick. *)

MCNet == student :> "192.168.10" @@ other :> "192.168.20" @@ server :> "192.168.60"
         @@ infra :> "192.168.60" @@ dns :> "192.168.60" @@ outside :> "8.8.8" @@ NoHost :> ""
FlowOf(src, dst, port, status, size) ==
    [src |-> src, dst |-> dst, port |-> port, status |-> status, size |-> size, radius |-> FALSE]
MCTraffic ==
    {{FlowOf(student, server, 22, "failed", 1), FlowOf(student, server, 80, "unauthorized", 1),
      FlowOf(student, server, 21, "ok", 1)},
     {FlowOf(student, outside, 443, "ok", 1), FlowOf(student, outside, 443, "ok", 60 * 1024)},
     {FlowOf(student, other, 0, "ok", 1), FlowOf(student, server, 0, "ok", 1),
      FlowOf(other, server, 1883, "ok", 1)},
     {FlowOf(student, dns, 53, "ok", 1), FlowOf(student, outside, 53, "ok", 1)},
     {[FlowOf(student, NoHost, 0, "rejected", 1) EXCEPT !.radius = TRUE],
      FlowOf(infra, student, 80, "ok", 1), FlowOf(NoHost, student, 80, "ok", 1)}}
MCWindow == [r \in WindowRule |-> 1]
MCCap == [r \in WindowRule |-> IF r \in {"port_scan", "lateral_movement"} THEN 3 ELSE 2]
MCCooldown == [r \in Rule |-> IF r = "slow_port_scan" THEN 2 ELSE 1]
MCBase == [r \in Tuned |-> IF r = "data_exfiltration" THEN 50 * 1024 ELSE 2]
MCAdvice == {[slow_port_scan |-> 1], [port_scan |-> 3]}
\* Friday, before and after the night of a student ends (UTC + 3).
MCClock == {[hour |-> 2, day |-> 4], [hour |-> 3, day |-> 4]}

----------------------------------------------------------------------------
(* Watches: two sensors and the last two alerts; one agent, which HQ expects. *)

MCBoot == [dlm |-> 3, cm |-> 1]

----------------------------------------------------------------------------
(* Cards: swipes at two readers; denials of every kind; four readers on three *)
(* floors, whose walks take 1, 2 and 4 ticks.                                 *)

CardEvent(access, reason, reader) ==
    [card |-> "card1", access |-> access, reason |-> reason, reader |-> reader, late |-> FALSE]
MCEvents ==
    {{CardEvent("pending", "awaiting_face_verification", r1), CardEvent("granted", "face_verified", r1),
      [CardEvent("pending", "awaiting_face_verification", r2) EXCEPT !.late = TRUE]},
     {CardEvent("denied", "unknown_card", r1), CardEvent("denied", "insider_threat_detected", r1),
      CardEvent("tamper_alert", "unknown_card", r1)},
     {CardEvent("denied", "unauthorized_area", r1), CardEvent("denied", "after_hours", r2),
      CardEvent("granted", "face_verified", r1)}}
MCFloor == r1 :> 1 @@ r2 :> 2 @@ r3 :> 3 @@ r4 :> 1

=============================================================================
