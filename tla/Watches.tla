------------------------------ MODULE Watches ------------------------------
(***************************************************************************)
(* The two watches over silence: of the IoT local manager over its         *)
(* sensors, and of the data local manager and HQ's central manager over    *)
(* the agents.  They share no state; what is asked of both is the same.    *)
(***************************************************************************)
EXTENDS SensorWatch, AgentWatch

WatchSpec ==
    /\ SensorInit /\ [][SensorNext]_sensorVars
    /\ AgentInit /\ [][AgentNext]_agentVars

\* No false alarm: a sensor that is not silent is not shown as OFFLINE, the watchdog
\* of the sensors publishes at most one dropout between two readings (SensorWatch),
\* and HQ gives at most one incident agent_down between two heartbeats (AgentWatch).
NoFalseAlarm == LiveIsNotOffline /\ OneDropoutPerSilence /\ OneAlarmPerOutage

\* A sensor or an agent that falls silent is reported in time, and the agent shown
\* as offline (SensorWatch, AgentWatch).
SilenceIsReported == SensorSilenceIsReported /\ AgentSilenceIsReported

=============================================================================
