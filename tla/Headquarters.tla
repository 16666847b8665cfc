---------------------------- MODULE Headquarters ----------------------------
(***************************************************************************)
(* The two agents of HQ that read the incidents of the domains: one        *)
(* correlates them (Correlator), the other learns from them (Learning).    *)
(* Each has a consumer group, threads and memory of its own.  Each         *)
(* behaviour is one of one of them, which its initial state picks.         *)
(***************************************************************************)
EXTENDS Correlator, Learning

VARIABLE agent          \* the agent that runs

hqVars == <<agent, vars, learnVars>>

HQInit == agent \in {"analytical", "learning"} /\ Init /\ LearnInit

HQNext ==
    /\ UNCHANGED agent
    /\ IF agent = "analytical" THEN Next ELSE UNCHANGED vars
    /\ IF agent = "learning" THEN LearnNext ELSE UNCHANGED learnVars

\* The fairness of the agent that runs.
HQFairness == WF_vars(agent = "analytical" /\ Cleaner) /\ WF_vars(agent = "analytical" /\ Tick)

HQSpec == HQInit /\ [][HQNext]_hqVars /\ HQFairness

=============================================================================
