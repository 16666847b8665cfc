----------------------------- MODULE Decisions ------------------------------
(***************************************************************************)
(* What waits for a person: the CRITICAL incidents of a local manager      *)
(* (ApprovalWindow) and the commands of HQ's playbooks (Orchestrator).     *)
(* Between the two lies the analytical agent (Correlator), which may send  *)
(* any correlation at any time; they share no state.  Each behaviour is    *)
(* one of one component, which its initial state picks.                    *)
(***************************************************************************)
EXTENDS ApprovalWindow, Orchestrator

VARIABLE place          \* the component that runs

decisionVars == <<place, vars, orchestratorVars>>

DecisionInit == place \in {"manager", "hq"} /\ Init /\ OrchestratorInit

DecisionNext ==
    /\ UNCHANGED place
    /\ IF place = "manager" THEN Next ELSE UNCHANGED vars
    /\ IF place = "hq" THEN OrchestratorNext ELSE UNCHANGED orchestratorVars

\* The fairness of the component that runs.
DecisionFairness ==
    /\ \A t \in Thread : WF_vars(place = "manager" /\ ThreadStep(t))
    /\ WF_orchestratorVars(place = "hq" /\ PlaybookConsumer)

DecisionSpec == DecisionInit /\ [][DecisionNext]_decisionVars /\ DecisionFairness

=============================================================================
