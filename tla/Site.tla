-------------------------------- MODULE Site --------------------------------
(***************************************************************************)
(* The detecting side of the campus, from flows, scans and readings to the *)
(* incidents of the local managers: nine components that share no state.   *)
(* Each behaviour is one of one component, which its initial state picks.  *)
(***************************************************************************)
EXTENDS RiskLadder, Detectors, Baseline, FireAlarm, Watches, Triage, CardEvents, CardTravel

VARIABLE part           \* the component that runs

ASSUME SiteAssumption ==
    /\ DetectorAssumption /\ FireAssumption /\ TriageAssumption /\ CardAssumption
    /\ TravelAssumption

siteVars == <<part, riskVars, vars, baselineVars, triageVars, sensorVars, agentVars,
              fireVars, cardVars, travelVars>>

First(S) == CHOOSE x \in S : TRUE

SiteInit ==
    /\ part \in {"risk", "signatures", "baselines", "triage", "sensors", "agents", "fire", "cards",
                "travel"}
    /\ RiskInit /\ Init /\ BaselineInit /\ TriageInit /\ SensorInit /\ AgentInit
    /\ FireInit /\ CardInit /\ TravelInit
    /\ part # "signatures" => flows = First(Traffic) /\ clock = First(Clock)
    /\ part # "triage" => feed = First(Feeds)
    /\ part # "fire" => zone = First(Zone)
    /\ part # "cards" => events = First(Events)

SiteNext ==
    /\ UNCHANGED part
    /\ IF part = "risk" THEN RiskNext ELSE UNCHANGED riskVars
    /\ IF part = "signatures" THEN Next ELSE UNCHANGED vars
    /\ IF part = "baselines" THEN BaselineNext ELSE UNCHANGED baselineVars
    /\ IF part = "triage" THEN TriageNext ELSE UNCHANGED triageVars
    /\ IF part = "sensors" THEN SensorNext ELSE UNCHANGED sensorVars
    /\ IF part = "agents" THEN AgentNext ELSE UNCHANGED agentVars
    /\ IF part = "fire" THEN FireNext ELSE UNCHANGED fireVars
    /\ IF part = "cards" THEN CardNext ELSE UNCHANGED cardVars
    /\ IF part = "travel" THEN TravelNext ELSE UNCHANGED travelVars

SiteSpec == SiteInit /\ [][SiteNext]_siteVars

----------------------------------------------------------------------------
(* Properties: those of the nine modules. *)

\* Every component's state keeps its types and bounds: scores and levels, deques
\* within maxlen, snapshots, stamps, timers and alarms.
SiteTypeOK ==
    /\ RiskTypeOK /\ TypeOK /\ BaselineTypeOK /\ TriageTypeOK /\ SensorTypeOK
    /\ AgentTypeOK /\ FireTypeOK /\ CardTypeOK /\ TravelTypeOK

\* An attack that reaches its threshold is reported: by the rules over flows
\* (Detectors), by the checks of one card's events (CardEvents), and when a card is
\* in two places (CardTravel).
AttackIsAlerted == FlowAttackIsAlerted /\ CardAttackIsAlerted /\ TravelIsReported

=============================================================================
