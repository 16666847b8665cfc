---------------------------- MODULE MCDecisions -----------------------------
EXTENDS Decisions, TLC

CONSTANTS i1, i2, r1, r2

\* Two playbooks and one; one that asks and one that does not; none.
Correlations == {[type |-> "physical_cyber_combo", severity |-> 3],
                 [type |-> "iot_cyber_bridge", severity |-> 2],
                 [type |-> "kill_chain_progression", severity |-> 3]}
=============================================================================
