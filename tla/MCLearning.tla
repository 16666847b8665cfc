----------------------------- MODULE MCLearning -----------------------------
EXTENDS Learning, TLC

CONSTANTS i1, i2, ndr_agent, edr_agent

ModelNames == <<ndr_agent, edr_agent>>
Alerts == i1 :> ndr_agent @@ i2 :> ndr_agent
=============================================================================
