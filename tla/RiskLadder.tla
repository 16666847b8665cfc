----------------------------- MODULE RiskLadder -----------------------------
(***************************************************************************)
(* The risk score of the data local manager (_decay_and_add_risk and       *)
(* _check_risk_thresholds).  Every alert of a host halves its score once   *)
(* for each half-life since its previous alert, adds the points of the     *)
(* alert's type, and compares the sum with three thresholds; a set of      *)
(* levels that have "fired" keeps a level from being raised at every       *)
(* alert.  HIGH and CRITICAL create a risk incident.  A score changes only *)
(* when an alert comes.  A tick is a half-life.                            *)
(***************************************************************************)
EXTENDS Integers, FiniteSets

CONSTANTS
    RiskHost,           \* the hosts that alerts name
    AlertType,          \* the types of the alerts that come
    Testing,            \* TESTING_MODE
    Decayed(_, _),      \* a score after so many half-lives
    MaxScore,           \* bound: no alert takes a score past it
    MaxLag              \* bound: half-lives that are counted

Warn     == 50          \* RISK_WARN
High     == 100         \* RISK_HIGH
Critical == 150         \* RISK_CRITICAL

\* A type that is not listed counts 10 points.
RiskPoints ==
    [ransomware_behavior |-> 100, credential_dump |-> 90, yara_match |-> 70,
     privilege_escalation |-> 60, suspicious_process |-> 50, persistence_mechanism |-> 40,
     file_integrity_violation |-> 55, login_outside_hours |-> 25, brute_force_local |-> 35,
     data_exfiltration |-> 100, lateral_movement |-> 80, c2_beacon |-> 70,
     unauthorized_vlan |-> 65, brute_force_ssh |-> 40, brute_force_http |-> 35,
     port_scan |-> 30, slow_port_scan |-> 25, radius_brute_force |-> 45,
     behavioral_anomaly |-> 35, isolation_violation |-> 80]
Points(t) == IF t \in DOMAIN RiskPoints THEN RiskPoints[t] ELSE 10

\* _ENFORCEMENT_DEPENDENT_ALERTS: consequences of an isolation.
Suppressed(t) == Testing /\ t \in {"isolation_violation", "immovable_violation"}

ASSUME RiskAssumption ==
    /\ MaxScore \in Nat /\ MaxLag \in Nat
    /\ Testing \in BOOLEAN
    /\ \A t \in AlertType : Points(t) \in Nat
    /\ \A s \in 0..MaxScore, n \in 0..MaxLag : Decayed(s, n) \in 0..s

Level == {"NORMAL", "WARNING", "HIGH", "CRITICAL"}

VARIABLES
    score,          \* _risk_scores[h]
    lag,            \* half-lives since _risk_last_update[h]
    level,          \* _risk_level[h], which /risk shows
    raised,         \* _risk_threshold_fired[h]
    incidents,      \* risk incidents of the host's episode, by level
    peak            \* history: the highest score an alert of the episode led to

riskVars == <<score, lag, level, raised, incidents, peak>>

NoIncidents == [HIGH |-> 0, CRITICAL |-> 0]

\* The score an alert of type t leads to.
NewScore(h, t) == Decayed(score[h], lag[h]) + Points(t)

\* _check_risk_thresholds: the level that is raised, the first of the three that
\* is reached and has not fired; "NORMAL" ends the episode, "none" changes nothing.
Rung(s, fired) ==
    IF s >= Critical /\ "CRITICAL" \notin fired THEN "CRITICAL"
    ELSE IF s >= High /\ "HIGH" \notin fired THEN "HIGH"
    ELSE IF s >= Warn /\ "WARNING" \notin fired THEN "WARNING"
    ELSE IF s < Warn THEN "NORMAL" ELSE "none"

\* What has fired once a rung was taken: a level forgets the ones below it.
FiredAfter_OnlyLatest(rung, fired) ==
    IF rung = "none" THEN fired ELSE {rung} \ {"NORMAL"}
FiredAfter(rung, fired) ==
    CASE rung = "CRITICAL" -> (fired \cup {"CRITICAL"}) \ {"HIGH", "WARNING"}
      [] rung = "HIGH"     -> (fired \cup {"HIGH"}) \ {"WARNING"}
      [] rung = "WARNING"  -> fired \cup {"WARNING"}
      [] rung = "NORMAL"   -> {}
      [] rung = "none"     -> fired

Alert(h, t) ==
    /\ ~Suppressed(t)
    /\ NewScore(h, t) <= MaxScore
    /\ LET s == NewScore(h, t)
           rung == Rung(s, raised[h])
       IN  /\ score' = [score EXCEPT ![h] = s]
           /\ lag' = [lag EXCEPT ![h] = 0]
           /\ raised' = [raised EXCEPT ![h] = FiredAfter(rung, @)]
           /\ level' = [level EXCEPT ![h] = IF rung = "none" THEN @ ELSE rung]
           /\ incidents' = [incidents EXCEPT ![h] =
                 IF rung = "NORMAL" THEN NoIncidents
                 ELSE [l \in {"HIGH", "CRITICAL"} |-> IF l = rung THEN @[l] + 1 ELSE @[l]]]
           /\ peak' = [peak EXCEPT ![h] = IF rung = "NORMAL" \/ s > @ THEN s ELSE @]

\* An alert that only follows from an isolation, while testing.
AlertSuppressed(h, t) == Suppressed(t) /\ UNCHANGED riskVars

HalfLife ==
    /\ lag' = [h \in RiskHost |-> IF lag[h] < MaxLag THEN lag[h] + 1 ELSE MaxLag]
    /\ UNCHANGED <<score, level, raised, incidents, peak>>

RiskInit ==
    /\ score = [h \in RiskHost |-> 0]
    /\ lag = [h \in RiskHost |-> 0]
    /\ level = [h \in RiskHost |-> "NORMAL"]
    /\ raised = [h \in RiskHost |-> {}]
    /\ incidents = [h \in RiskHost |-> NoIncidents]
    /\ peak = [h \in RiskHost |-> 0]

RiskNext ==
    \/ \E h \in RiskHost, t \in AlertType : Alert(h, t) \/ AlertSuppressed(h, t)
    \/ HalfLife

RiskSpec == RiskInit /\ [][RiskNext]_riskVars

----------------------------------------------------------------------------
(* Properties. *)

RiskTypeOK ==
    /\ score \in [RiskHost -> 0..MaxScore]
    /\ lag \in [RiskHost -> 0..MaxLag]
    /\ level \in [RiskHost -> Level]
    /\ raised \in [RiskHost -> SUBSET {"WARNING", "HIGH", "CRITICAL"}]
    /\ incidents \in [RiskHost -> [{"HIGH", "CRITICAL"} -> Nat]]
    /\ peak \in [RiskHost -> 0..MaxScore]

\* One CRITICAL incident per episode: an episode of a host begins with an alert
\* that finds its score below RISK_WARN.  Of all the alerts of an episode the
\* score has the host isolated once, when it first reaches RISK_CRITICAL, and
\* never before; at most two HIGH incidents come with it, one on the way up and
\* one because reaching CRITICAL forgets that HIGH has fired; and the level the
\* dashboard shows is never above the highest the episode reached
\* (main.py, _check_risk_thresholds).
OneCriticalPerEpisode ==
    \A h \in RiskHost :
        /\ incidents[h]["CRITICAL"] = IF peak[h] >= Critical THEN 1 ELSE 0
        /\ incidents[h]["HIGH"] <= IF peak[h] >= Critical THEN 2
                                   ELSE IF peak[h] >= High THEN 1 ELSE 0
        /\ level[h] = "CRITICAL" => peak[h] >= Critical
        /\ level[h] = "HIGH" => peak[h] >= High

=============================================================================
