----------------------------- MODULE AgentWatch -----------------------------
(***************************************************************************)
(* Silent agents.  Every agent sends heartbeats to agents.heartbeats; the  *)
(* data local manager ("dlm") and HQ's central manager ("cm") consume them *)
(* each in a thread of its own, which may lag (the central manager waits   *)
(* up to a second for an answer about every incident it consumes), and     *)
(* each has a thread that looks every 30 seconds for an agent that has     *)
(* been silent for more than a minute and publishes an incident agent_down *)
(* about it.  The data manager watches every agent it has heard of and     *)
(* holds its next alarm about one back for five minutes; the central       *)
(* manager watches a fixed list and gives an alarm once until it has seen  *)
(* the agent healthy.  A tick is 30 seconds.                               *)
(***************************************************************************)
EXTENDS Integers, FiniteSets

CONSTANTS
    Agent,
    Expected,       \* EXPECTED_AGENTS of the central manager
    SilenceLimit,   \* 60 seconds
    AlarmCooldown,  \* 300 seconds, also the limit of "offline" in /agents
    Boot,           \* Boot[m]: the time before m's first round, 150 and 30 seconds
    Never,          \* no heartbeat, no alarm
    MaxRestarts     \* bound: restarts of the managers

Manager == {"dlm", "cm"}

ASSUME AgentAssumption ==
    /\ SilenceLimit \in Nat \ {0} /\ AlarmCooldown \in Nat /\ SilenceLimit < AlarmCooldown
    /\ Expected \subseteq Agent /\ Boot \in [Manager -> Nat] /\ MaxRestarts \in Nat
    /\ Never \notin Nat

VARIABLES
    onTheWay,       \* onTheWay[m]: agents with a heartbeat m has not consumed
    lastBeat,       \* _last_heartbeat, _heartbeats: the age of the latest; Never
    lastAlarm,      \* _hb_alert_times of the data manager: its age; Never
    alerted,        \* _alerted_agents of the central manager
    boot,           \* boot[m]: ticks before m's first round
    judging,        \* judging[m]: what m's thread has left of its round
    rounded,        \* managers whose thread has begun its round in this tick
    restarts,
    \* history
    everBeat,       \* agents that ever sent
    reportsOf       \* reportsOf[m][a]: alarms of m since it heard from a, up to 2

agentVars == <<onTheWay, lastBeat, lastAlarm, alerted, boot, judging, rounded, restarts,
               everBeat, reportsOf>>

----------------------------------------------------------------------------
(* Heartbeats, and incidents agent_down. *)

Report(m, a) == reportsOf' = [reportsOf EXCEPT ![m][a] = IF @ < 2 THEN @ + 1 ELSE 2]

Beat(a) ==
    /\ onTheWay' = [m \in Manager |-> onTheWay[m] \cup {a}]
    /\ everBeat' = everBeat \cup {a}
    /\ UNCHANGED <<lastBeat, lastAlarm, alerted, boot, judging, rounded, restarts, reportsOf>>

\* _handle_heartbeat of either manager.
Hear(m, a) ==
    /\ a \in onTheWay[m]
    /\ onTheWay' = [onTheWay EXCEPT ![m] = @ \ {a}]
    /\ lastBeat' = [lastBeat EXCEPT ![m][a] = 0]
    /\ reportsOf' = [reportsOf EXCEPT ![m][a] = 0]
    /\ UNCHANGED <<lastAlarm, alerted, boot, judging, rounded, restarts, everBeat>>

----------------------------------------------------------------------------
(* The data manager's round: a copy of the table, taken under the lock, is   *)
(* gone through agent by agent.                                              *)

Heard(m) == {a \in Agent : lastBeat[m][a] # Never}

DlmCopies ==
    /\ boot["dlm"] = 0 /\ "dlm" \notin rounded
    /\ rounded' = rounded \cup {"dlm"}
    /\ judging' = [judging EXCEPT !["dlm"] =
                      {[agent |-> a, age |-> lastBeat["dlm"][a]] : a \in Heard("dlm")}]
    /\ UNCHANGED <<onTheWay, lastBeat, lastAlarm, alerted, boot, restarts, everBeat, reportsOf>>

HeldBack(a) == lastAlarm[a] # Never /\ lastAlarm[a] < AlarmCooldown

DlmJudges(c) ==
    /\ c \in judging["dlm"]
    /\ judging' = [judging EXCEPT !["dlm"] = @ \ {c}]
    /\ IF c.age <= SilenceLimit \/ HeldBack(c.agent)
       THEN UNCHANGED <<lastAlarm, reportsOf>>
       ELSE /\ lastAlarm' = [lastAlarm EXCEPT ![c.agent] = 0]
            /\ Report("dlm", c.agent)
    /\ UNCHANGED <<onTheWay, lastBeat, alerted, boot, rounded, restarts, everBeat>>

----------------------------------------------------------------------------
(* The central manager's round, _check_agent_health.  An agent it never heard *)
(* from has been silent since 1970.                                           *)

CmStarts ==
    /\ boot["cm"] = 0 /\ "cm" \notin rounded
    /\ rounded' = rounded \cup {"cm"}
    /\ judging' = [judging EXCEPT !["cm"] = Expected]
    /\ UNCHANGED <<onTheWay, lastBeat, lastAlarm, alerted, boot, restarts, everBeat, reportsOf>>

IsDown(a) == lastBeat["cm"][a] = Never \/ lastBeat["cm"][a] > SilenceLimit

\* alerted after the round has looked at agent a.
Alerted_ForGood(a) == IF IsDown(a) THEN alerted \cup {a} ELSE alerted
Alerted(a) == IF IsDown(a) THEN alerted \cup {a} ELSE alerted \ {a}

CmJudges(a) ==
    /\ a \in judging["cm"]
    /\ judging' = [judging EXCEPT !["cm"] = @ \ {a}]
    /\ alerted' = Alerted(a)
    /\ IF IsDown(a) /\ a \notin alerted THEN Report("cm", a) ELSE UNCHANGED reportsOf
    /\ UNCHANGED <<onTheWay, lastBeat, lastAlarm, boot, rounded, restarts, everBeat>>

----------------------------------------------------------------------------
(* Restarts: both tables are in memory.  The data manager goes on after the  *)
(* heartbeats it had consumed; the central manager's group is a new one,     *)
(* which gets the old heartbeats again.                                      *)

Restart(m) ==
    /\ restarts < MaxRestarts
    /\ restarts' = restarts + 1
    /\ lastBeat' = [lastBeat EXCEPT ![m] = [a \in Agent |-> Never]]
    /\ reportsOf' = [reportsOf EXCEPT ![m] = [a \in Agent |-> 0]]
    /\ judging' = [judging EXCEPT ![m] = {}]
    /\ rounded' = rounded \ {m}
    /\ boot' = [boot EXCEPT ![m] = Boot[m]]
    /\ IF m = "dlm"
       THEN lastAlarm' = [a \in Agent |-> Never] /\ UNCHANGED <<alerted, onTheWay>>
       ELSE /\ alerted' = {} /\ onTheWay' = [onTheWay EXCEPT !["cm"] = everBeat]
            /\ UNCHANGED lastAlarm
    /\ UNCHANGED everBeat

Later(age) == IF age = Never \/ age = AlarmCooldown THEN age ELSE age + 1

\* Time passes when every round that is due is over.
AgentTick ==
    /\ \A m \in Manager : (boot[m] = 0 => m \in rounded) /\ judging[m] = {}
    /\ lastBeat' = [m \in Manager |-> [a \in Agent |-> Later(lastBeat[m][a])]]
    /\ lastAlarm' = [a \in Agent |-> Later(lastAlarm[a])]
    /\ boot' = [m \in Manager |-> IF boot[m] = 0 THEN 0 ELSE boot[m] - 1]
    /\ rounded' = {}
    /\ UNCHANGED <<onTheWay, alerted, judging, restarts, everBeat, reportsOf>>

AgentInit ==
    /\ everBeat = {} /\ alerted = {} /\ rounded = {}
    /\ onTheWay = [m \in Manager |-> {}]
    /\ lastBeat = [m \in Manager |-> [a \in Agent |-> Never]]
    /\ lastAlarm = [a \in Agent |-> Never]
    /\ boot = Boot /\ restarts = 0
    /\ judging = [m \in Manager |-> {}]
    /\ reportsOf = [m \in Manager |-> [a \in Agent |-> 0]]

Rounds == \/ DlmCopies \/ CmStarts
          \/ \E c \in judging["dlm"] : DlmJudges(c)
          \/ \E a \in judging["cm"] : CmJudges(a)

AgentNext ==
    \/ \E a \in Agent : Beat(a) \/ \E m \in Manager : Hear(m, a)
    \/ \E m \in Manager : Restart(m)
    \/ Rounds \/ AgentTick

----------------------------------------------------------------------------
(* Properties. *)

Ages == 0..AlarmCooldown \cup {Never}
AgentTypeOK ==
    /\ everBeat \subseteq Agent /\ alerted \subseteq Expected
    /\ onTheWay \in [Manager -> SUBSET Agent]
    /\ lastBeat \in [Manager -> [Agent -> Ages]]
    /\ lastAlarm \in [Agent -> Ages]
    /\ judging["dlm"] \subseteq [agent : Agent, age : Ages] /\ judging["cm"] \subseteq Expected
    /\ reportsOf \in [Manager -> [Agent -> 0..2]]

\* /agents of the data manager.
AgentStatus(a) ==
    IF lastBeat["dlm"][a] = Never THEN "unknown"
    ELSE IF lastBeat["dlm"][a] < SilenceLimit THEN "alive"
    ELSE IF lastBeat["dlm"][a] < AlarmCooldown THEN "silent" ELSE "offline"

\* An agent that falls silent is reported in time, and shown as offline: when
\* the rounds of a tick are over, the central manager has given an alarm about
\* every agent it expects and has not heard within its limit, since it last heard
\* from it, also when the agent had come back only since the round before; and
\* the data manager about every agent it ever heard of since its start and has not
\* heard for five minutes, also when an earlier alarm held the next one back
\* (_heartbeat_monitor_loop, _check_agent_health, /agents).
AgentSilenceIsReported ==
    [][ AgentTick =>
          /\ boot["cm"] = 0 => \A a \in Expected : IsDown(a) => reportsOf["cm"][a] > 0
          /\ boot["dlm"] = 0 => \A a \in Agent :
                AgentStatus(a) = "offline" => reportsOf["dlm"][a] > 0 ]_agentVars

\* One alarm per outage: between two heartbeats of an agent the central manager
\* gives one incident agent_down, however often it looks (_alerted_agents).
OneAlarmPerOutage == \A a \in Expected : reportsOf["cm"][a] <= 1

=============================================================================
