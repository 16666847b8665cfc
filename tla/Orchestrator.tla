---------------------------- MODULE Orchestrator ----------------------------
(***************************************************************************)
(* The orchestrator of HQ: playbooks and their commands.                   *)
(*                                                                         *)
(* Its consumer executes every playbook that a correlation triggers: the   *)
(* automatic steps go to soar.commands, a step that requires an approval   *)
(* waits in _pending_approvals for POST /approve/{cmd_id}.  POST /execute  *)
(* runs a playbook by hand.  HTTP calls run in threads of their own.  A    *)
(* new start is a new consumer group, with empty memory, that executes     *)
(* every correlation of the past again under new command ids.              *)
(*                                                                         *)
(* Of a playbook's commands only the one that requires an approval (none   *)
(* has two) is told apart.                                                 *)
(***************************************************************************)
EXTENDS Integers, Sequences, FiniteSets

CONSTANTS
    Loaded,         \* names of the playbooks in use
    Call,           \* HTTP calls, one thread each
    Nothing,        \* no command
    Correlation,    \* records [type, severity], as on hq.correlated
    MaxCorrelations,    \* bound: records on hq.correlated
    MaxLives,       \* bound: starts of the process
    MaxManual       \* bound: playbooks run by hand

\* PLAYBOOKS
Playbook == {"ransomware_response", "intrusion_response", "iot_compromise_response",
             "access_control_lockdown", "data_exfil_response", "agent_down_response"}

Triggers(p) ==
    CASE p = "ransomware_response" -> {"ransomware_behavior", "coordinated_attack"}
      [] p = "intrusion_response" -> {"coordinated_attack", "campus_wide_threat",
                                      "physical_cyber_combo", "insider_threat"}
      [] p = "iot_compromise_response" -> {"iot_cyber_bridge", "coordinated_attack"}
      [] p = "access_control_lockdown" -> {"physical_cyber_combo", "insider_threat",
                                           "campus_wide_threat"}
      [] p = "data_exfil_response" -> {"insider_threat", "coordinated_attack"}
      [] p = "agent_down_response" -> {"agent_down"}

\* The playbooks with a step that requires an approval.
Gated == Playbook \ {"access_control_lockdown", "agent_down_response"}

\* "HIGH" and "CRITICAL" in the order of severities.
MinSeverity(p) == IF p \in {"access_control_lockdown", "agent_down_response"} THEN 3 ELSE 2

ASSUME OrchestratorAssumption ==
    /\ Loaded \subseteq Playbook /\ IsFiniteSet(Call)
    /\ {MaxCorrelations, MaxLives, MaxManual} \subseteq Nat /\ MaxLives > 0
    /\ \A c \in Correlation : c.severity \in 0..3

VARIABLES
    correlated,      \* hq.correlated
    commands,       \* how often each command that requires an approval is on soar.commands
    opos,           \* correlations read in this life
    todo,           \* playbooks of the latest one not executed yet
                    \* (their order is of no consequence)
    executions,     \* _executions
    unapproved,     \* the keys of _pending_approvals
    calls,          \* calls[r]: the next operation of call r, its command, its answer
    awaiting,       \* _stats["approvals_pending"]
    life, manual    \* starts, and playbooks run by hand

orchestratorVars ==
    <<correlated, commands, opos, todo, executions, unapproved, calls, awaiting, life, manual>>

\* A command is named by its origin: uuid4, so never used twice.
Cmd == [life : 1..MaxLives, corr : 1..MaxCorrelations, playbook : Gated]
ManualCmd == [life : 1..MaxLives, corr : {0}, playbook : Gated]

CallState == [pc : {"idle", "popping", "publishing", "counting", "finished", "dead"},
              cmd : Cmd \cup {Nothing},
              answer : {"none", "approved", "not_found", "server_error"}]

\* The type invariant.
OrchestratorTypeOK ==
    /\ correlated \in Seq(Correlation)
    /\ Len(correlated) <= MaxCorrelations
    /\ commands \in [Cmd \cup ManualCmd -> Nat]
    /\ opos \in 0..Len(correlated)
    /\ todo \subseteq Loaded
    /\ executions \subseteq (1..MaxCorrelations) \X Playbook
    /\ unapproved \subseteq Cmd
    /\ calls \in [Call -> CallState]
    /\ awaiting \in Int
    /\ life \in 1..MaxLives /\ manual \in 0..MaxManual

OrchestratorInit ==
    /\ correlated = <<>>
    /\ commands = [c \in Cmd \cup ManualCmd |-> 0]
    /\ opos = 0 /\ todo = {} /\ executions = {} /\ unapproved = {}
    /\ calls = [r \in Call |-> [pc |-> "idle", cmd |-> Nothing, answer |-> "none"]]
    /\ awaiting = 0 /\ life = 1 /\ manual = 0

-----------------------------------------------------------------------------
(* The consumer.                                                           *)

\* _select_playbooks
Selected(c) == {p \in Loaded : c.type \in Triggers(p) /\ c.severity >= MinSeverity(p)}

\* _handle_correlation
HandleCorrelation ==
    /\ todo = {} /\ opos < Len(correlated)
    /\ opos' = opos + 1
    /\ todo' = Selected(correlated[opos + 1])
    /\ UNCHANGED <<correlated, commands, executions, unapproved, calls, awaiting, life, manual>>

ExecutePlaybook_AllPending(p) ==
    /\ p \in todo /\ todo' = todo \ {p}
    /\ unapproved' = unapproved \cup {[life |-> life, corr |-> opos, playbook |-> p]}
    /\ awaiting' = awaiting + 1
    /\ executions' = executions \cup {<<opos, p>>}
    /\ UNCHANGED <<correlated, commands, opos, calls, life, manual>>

\* _execute_playbook.  What it issues, keeps and records becomes visible at once here:
\* between these it only publishes automatic steps.
ExecutePlaybook(p) ==
    /\ p \in todo /\ todo' = todo \ {p}
    /\ IF p \in Gated
       THEN /\ unapproved' = unapproved \cup {[life |-> life, corr |-> opos, playbook |-> p]}
            /\ awaiting' = awaiting + 1
       ELSE UNCHANGED <<unapproved, awaiting>>
    /\ executions' = executions \cup {<<opos, p>>}
    /\ UNCHANGED <<correlated, commands, opos, calls, life, manual>>

-----------------------------------------------------------------------------
(* HTTP calls.                                                             *)

Answer(r, pc, answer) == calls' = [calls EXCEPT ![r] = [@ EXCEPT !.pc = pc, !.answer = answer]]

ApproveCmdCheck(r, c) ==
    /\ calls[r].pc = "idle"
    /\ c.life <= life /\ c.corr <= Len(correlated)
    /\ IF c \in unapproved
       THEN calls' = [calls EXCEPT ![r] = [@ EXCEPT !.pc = "popping", !.cmd = c]]
       ELSE Answer(r, "finished", "not_found")
    /\ UNCHANGED <<correlated, commands, opos, todo, executions, unapproved, awaiting, life, manual>>

\* pop(cmd_id, None), and the approval goes on.
ApproveCmdPop_Tolerant(r) ==
    /\ calls[r].pc = "popping"
    /\ unapproved' = unapproved \ {calls[r].cmd}
    /\ calls' = [calls EXCEPT ![r].pc = "publishing"]
    /\ UNCHANGED <<correlated, commands, opos, todo, executions, awaiting, life, manual>>

\* The second of two pops raises KeyError.
ApproveCmdPop(r) ==
    /\ calls[r].pc = "popping"
    /\ unapproved' = unapproved \ {calls[r].cmd}
    /\ IF calls[r].cmd \in unapproved
       THEN calls' = [calls EXCEPT ![r].pc = "publishing"]
       ELSE Answer(r, "finished", "server_error")
    /\ UNCHANGED <<correlated, commands, opos, todo, executions, awaiting, life, manual>>

ApproveCmdPublish(r) ==
    /\ calls[r].pc = "publishing"
    /\ commands' = [commands EXCEPT ![calls[r].cmd] = @ + 1]
    /\ Answer(r, "counting", "approved")
    /\ UNCHANGED <<correlated, opos, todo, executions, unapproved, awaiting, life, manual>>

ApproveCmdCount_Forgotten(r) ==
    /\ calls[r].pc = "counting"
    /\ calls' = [calls EXCEPT ![r].pc = "finished"]
    /\ UNCHANGED <<correlated, commands, opos, todo, executions, unapproved, awaiting, life, manual>>

ApproveCmdCount(r) ==
    /\ calls[r].pc = "counting"
    /\ awaiting' = awaiting - 1
    /\ calls' = [calls EXCEPT ![r].pc = "finished"]
    /\ UNCHANGED <<correlated, commands, opos, todo, executions, unapproved, life, manual>>

\* POST /execute publishes every step, also those that require an approval.
ManualExecute(p) ==
    /\ manual < MaxManual /\ manual' = manual + 1
    /\ p \in Loaded
    /\ commands' = IF p \in Gated
                   THEN [commands EXCEPT ![[life |-> life, corr |-> 0, playbook |-> p]] = @ + 1]
                   ELSE commands
    /\ UNCHANGED <<correlated, opos, todo, executions, unapproved, calls, awaiting, life>>

-----------------------------------------------------------------------------
(* OrchestratorRestart, and the environment.                                           *)

\* Calls under way die.
DeadCalls ==
    [r \in Call |-> IF calls[r].pc \in {"popping", "publishing", "counting"}
                    THEN [calls[r] EXCEPT !.pc = "dead"] ELSE calls[r]]

\* A fixed group would go on behind the record under way.
OrchestratorRestart_Resumes ==
    /\ life < MaxLives /\ life' = life + 1
    /\ todo' = {} /\ executions' = {} /\ unapproved' = {} /\ awaiting' = 0
    /\ calls' = DeadCalls
    /\ UNCHANGED <<correlated, commands, opos, manual>>

OrchestratorRestart ==
    /\ life < MaxLives /\ life' = life + 1
    /\ opos' = 0 /\ todo' = {} /\ executions' = {} /\ unapproved' = {} /\ awaiting' = 0
    /\ calls' = DeadCalls
    /\ UNCHANGED <<correlated, commands, manual>>

\* The analytical agent publishes a correlation: any one, at any time.
NewCorrelation(c) ==
    /\ Len(correlated) < MaxCorrelations
    /\ correlated' = Append(correlated, c)
    /\ UNCHANGED <<commands, opos, todo, executions, unapproved, calls, awaiting, life, manual>>

PlaybookConsumer == HandleCorrelation \/ \E p \in Playbook : ExecutePlaybook(p)
CallStep(r) == ApproveCmdPop(r) \/ ApproveCmdPublish(r) \/ ApproveCmdCount(r)

OrchestratorNext ==
    \/ \E c \in Correlation : NewCorrelation(c)
    \/ PlaybookConsumer
    \/ \E r \in Call : CallStep(r) \/ \E c \in Cmd : ApproveCmdCheck(r, c)
    \/ \E p \in Playbook : ManualExecute(p)
    \/ OrchestratorRestart

\* The consumer's thread goes on; nobody has to call.
OrchestratorSpec ==
    OrchestratorInit /\ [][OrchestratorNext]_orchestratorVars /\ WF_orchestratorVars(PlaybookConsumer)

-----------------------------------------------------------------------------
(* Properties.                                                             *)

\* A command of a correlation that requires an approval reaches soar.commands once
\* at most, and only after a call approved it: with two approvals at a time, and
\* with correlations executed again after a restart.  (A playbook run by hand asks
\* nobody: its commands are not in Cmd.)
GateHolds ==
    \A c \in Cmd :
        commands[c] > 0 => /\ commands[c] = 1
                           /\ \E r \in Call : calls[r].cmd = c /\ calls[r].answer = "approved"

\* /health counts the approvals that are pending, and those just taken.
AwaitingIsPending ==
    awaiting = Cardinality(unapproved)
                 + Cardinality({r \in Call : calls[r].pc \in {"publishing", "counting"}})

\* Every playbook that a correlation selects is executed in the life that lasts:
\* again and again nothing is left to execute, and what a restart cut off is not
\* lost.
Unexecuted ==
    {e \in (DOMAIN correlated) \X Loaded : e[2] \in Selected(correlated[e[1]])} \ executions

CorrelationIsAnswered == []<>(Unexecuted = {})
=============================================================================
