--------------------------- MODULE MCHeadquarters ---------------------------
EXTENDS Headquarters, TLC

CONSTANTS i1, i2, ndr_agent, edr_agent

Alert(domain, type, actor) ==
    [domain |-> domain, severity |-> HIGH, type |-> type, actor |-> actor]

\* Two domains at a time, all three, and an actor that passes through three stages.
Alerts == {Alert("iot", "sensor_dropout", "unknown"),
           Alert("physical_access", "unknown_card", "card"),
           Alert("data_network", "lateral_movement", "host"),
           Alert("data_network", "credential_dump", "host"),
           Alert("data_network", "data_exfiltration", "host")}

\* Two models, of which the incidents concern one.
ModelNames == <<ndr_agent, edr_agent>>
AlertModel == i1 :> ndr_agent @@ i2 :> ndr_agent
=============================================================================
