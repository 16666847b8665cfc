------------------------- MODULE OrchestratorProofs -------------------------
(***************************************************************************)
(* The approval gate of the orchestrator, proved for any playbooks in use, *)
(* any calls, and any number of correlations and restarts.                 *)
(*                                                                         *)
(* As in ApprovalWindow the argument is about a right to issue a command:  *)
(* it lies with the entry of _pending_approvals, then with the call that   *)
(* popped it, and is spent when the command is published.  New here is     *)
(* that rights are created: Fresh says that a command not yet created has  *)
(* none, across restarts, which execute everything again.                  *)
(***************************************************************************)
EXTENDS Orchestrator, FiniteSetTheorems, TLAPS

Popped(r, c) == calls[r].pc = "publishing" /\ calls[r].cmd = c

\* A command is waiting, taken by one call, or issued, and only one of these.
OneRight ==
    /\ \A c \in unapproved : commands[c] = 0 /\ \A r \in Call : ~Popped(r, c)
    /\ \A r \in Call, c \in Cmd : Popped(r, c) => commands[c] = 0
    /\ \A r, q \in Call, c \in Cmd : Popped(r, c) /\ Popped(q, c) => r = q

\* What an approving call holds.
Holding ==
    \A r \in Call :
        /\ calls[r].pc \in {"popping", "publishing"} => calls[r].cmd \in Cmd
        /\ calls[r].answer = "approved" => calls[r].pc \in {"counting", "finished", "dead"}

Known(c) == c \in unapproved \/ commands[c] > 0 \/ \E r \in Call : Popped(r, c)

\* Commands that the consumer has not come to are unknown.
Fresh ==
    \A c \in Cmd :
        Known(c) => /\ c.life <= life
                    /\ c.life = life => /\ c.corr <= opos
                                        /\ c.corr = opos => c.playbook \notin todo

IInv == OrchestratorTypeOK /\ (todo # {} => opos > 0) /\ OneRight /\ Holding /\ Fresh /\ GateHolds

\* The initial state.
LEMMA InitInv == OrchestratorInit => IInv
<1> SUFFICES ASSUME OrchestratorInit PROVE IInv
  OBVIOUS
<1>1. OrchestratorTypeOK
  BY OrchestratorAssumption DEF OrchestratorInit, OrchestratorTypeOK, CallState, Cmd, ManualCmd
<1>2. OneRight /\ Holding /\ Fresh /\ GateHolds /\ todo = {}
  BY DEF OrchestratorInit, OneRight, Holding, Fresh, GateHolds, Popped, Known
<1> QED
  BY <1>1, <1>2 DEF IInv

\* The first kind of step: it creates no right and moves none.
LEMMA QuietStep ==
  ASSUME IInv, OrchestratorTypeOK',
         todo' # {} => opos' > 0,
         \A c \in Cmd : commands'[c] = commands[c],
         \A c \in unapproved' : c \in unapproved,
         \A r \in Call : calls'[r].pc = "publishing" => calls'[r] = calls[r],
         \A r \in Call : calls[r].answer = "approved"
                            => calls'[r].cmd = calls[r].cmd /\ calls'[r].answer = "approved",
         Holding',
         \A c \in Cmd : Known(c)' => /\ c.life <= life'
                                     /\ c.life = life' => /\ c.corr <= opos'
                                                          /\ c.corr = opos' => c.playbook \notin todo'
  PROVE  IInv'
<1>0. \A r \in Call, c \in Cmd : Popped(r, c)' => Popped(r, c)
  BY DEF Popped
<1>1. OneRight'
  BY <1>0 DEF IInv, OneRight, OrchestratorTypeOK
<1>2. Fresh'
  BY DEF Fresh
<1>3. GateHolds'
  BY DEF IInv, GateHolds
<1> QED
  BY <1>1, <1>2, <1>3 DEF IInv

\* A correlation arrives, or the consumer takes the next one.
LEMMA ArrivalStep ==
  ASSUME IInv, NEW c \in Correlation, NewCorrelation(c) \/ HandleCorrelation
  PROVE  IInv'
<1>1. CASE NewCorrelation(c)
  <2>1. correlated' \in Seq(Correlation) /\ Len(correlated') = Len(correlated) + 1
    BY <1>1 DEF IInv, OrchestratorTypeOK, NewCorrelation
  <2>2. OrchestratorTypeOK'
    BY <1>1, <2>1, OrchestratorAssumption DEF IInv, OrchestratorTypeOK, NewCorrelation
  <2> QED
    BY <1>1, <2>2, QuietStep DEF IInv, OrchestratorTypeOK, NewCorrelation, Holding, Fresh, Known, Popped
<1>2. CASE HandleCorrelation
  <2>1. opos' = opos + 1 /\ opos' \in 0..Len(correlated) /\ opos' > 0
    BY <1>2 DEF IInv, OrchestratorTypeOK, HandleCorrelation
  <2>2. OrchestratorTypeOK'
    BY <1>2, <2>1 DEF IInv, OrchestratorTypeOK, HandleCorrelation, Selected
  <2>3. \A d \in Cmd : Known(d)' => Known(d)
    BY <1>2 DEF HandleCorrelation, Known, Popped
  <2>4. \A d \in Cmd : Known(d)' => d.life <= life' /\ (d.life = life' => d.corr < opos')
    BY <1>2, <2>1, <2>3 DEF IInv, OrchestratorTypeOK, Fresh, HandleCorrelation, Cmd
  <2>5. \A d \in Cmd : Known(d)' => /\ d.life <= life'
                                    /\ d.life = life' => /\ d.corr <= opos'
                                                         /\ d.corr = opos' => d.playbook \notin todo'
    BY <2>1, <2>4 DEF Cmd
  <2>6. Holding'
    BY <1>2 DEF IInv, Holding, HandleCorrelation
  <2>7. commands' = commands /\ unapproved' = unapproved /\ calls' = calls
    BY <1>2 DEF HandleCorrelation
  <2> QED
    BY <2>1, <2>2, <2>5, <2>6, <2>7, QuietStep DEF Known, Popped
<1> QED
  BY <1>1, <1>2

\* The consumer executes a playbook: the one step that creates a right.
LEMMA ExecuteStep ==
  ASSUME IInv, NEW p \in Playbook, ExecutePlaybook(p)
  PROVE  IInv'
<1> DEFINE new == [life |-> life, corr |-> opos, playbook |-> p]
<1> USE DEF IInv
<1>1. p \in todo /\ opos \in 1..MaxCorrelations
  <2>1. p \in todo /\ opos > 0
    BY DEF ExecutePlaybook
  <2> QED
    BY <2>1, OrchestratorAssumption DEF OrchestratorTypeOK
<1>2. unapproved' = unapproved \/ (unapproved' = unapproved \cup {new} /\ new \in Cmd)
  BY <1>1 DEF ExecutePlaybook, OrchestratorTypeOK, Cmd
<1>3. new \in Cmd => ~Known(new)
  BY <1>1 DEF Fresh
<1>4. OrchestratorTypeOK' /\ Holding' /\ (todo' # {} => opos' > 0)
  BY <1>1, <1>2 DEF ExecutePlaybook, OrchestratorTypeOK, Holding
<1>5. OneRight'
  BY <1>2, <1>3 DEF ExecutePlaybook, OrchestratorTypeOK, OneRight, Known, Popped, Cmd, ManualCmd
<1>6. Fresh'
  BY <1>1, <1>2 DEF ExecutePlaybook, OrchestratorTypeOK, Fresh, Known, Popped, Cmd
<1>7. GateHolds'
  BY DEF ExecutePlaybook, GateHolds
<1> QED
  BY <1>4, <1>5, <1>6, <1>7

\* The check of an approval.
LEMMA CheckStep ==
  ASSUME IInv, NEW r \in Call, NEW c \in Cmd, ApproveCmdCheck(r, c)
  PROVE  IInv'
<1>0. calls' \in [Call -> CallState]
  <2>1. calls[r] \in CallState
    BY DEF IInv, OrchestratorTypeOK
  <2>2. /\ [calls[r] EXCEPT !.pc = "popping", !.cmd = c] \in CallState
        /\ [calls[r] EXCEPT !.pc = "finished", !.answer = "not_found"] \in CallState
    BY <2>1 DEF CallState
  <2>3. \E s \in CallState : calls' = [calls EXCEPT ![r] = s]
    BY <2>2 DEF ApproveCmdCheck, Answer
  <2> QED
    BY <2>3 DEF IInv, OrchestratorTypeOK
<1>1. OrchestratorTypeOK' /\ (todo' # {} => opos' > 0)
  BY <1>0 DEF IInv, OrchestratorTypeOK, ApproveCmdCheck
<1>4. Holding'
  <2>1. ASSUME NEW q \in Call, q # r PROVE calls'[q] = calls[q]
    BY <2>1 DEF IInv, OrchestratorTypeOK, ApproveCmdCheck, Answer
  <2>2. calls[r].pc = "idle" /\ calls[r].answer # "approved"
    BY DEF IInv, Holding, ApproveCmdCheck
  <2>3. calls'[r].pc \in {"popping", "publishing"} => calls'[r].cmd \in Cmd
    BY DEF IInv, OrchestratorTypeOK, CallState, ApproveCmdCheck, Answer
  <2>4. calls'[r].answer # "approved"
    BY <2>2 DEF IInv, OrchestratorTypeOK, CallState, ApproveCmdCheck, Answer
  <2> QED
    BY <2>1, <2>3, <2>4 DEF IInv, Holding
<1>2. \A q \in Call : /\ calls'[q].pc = "publishing" => calls'[q] = calls[q]
                      /\ calls[q].answer = "approved"
                            => calls'[q].cmd = calls[q].cmd /\ calls'[q].answer = "approved"
  BY DEF IInv, OrchestratorTypeOK, CallState, Holding, ApproveCmdCheck, Answer
<1>3. \A d \in Cmd : Known(d)' => Known(d)
  BY <1>2 DEF Known, Popped, ApproveCmdCheck
<1> QED
  BY <1>1, <1>2, <1>3, <1>4, QuietStep DEF IInv, Fresh, ApproveCmdCheck

\* The right moves from the dictionary to the call, or the call fails.
LEMMA PopStep ==
  ASSUME IInv, NEW r \in Call, ApproveCmdPop(r)
  PROVE  IInv'
<1> USE DEF IInv
<1>1. calls[r].cmd \in Cmd
  BY DEF Holding, ApproveCmdPop
<1>0. \A q \in Call \ {r} : calls'[q] = calls[q]
  BY DEF OrchestratorTypeOK, ApproveCmdPop, Answer
<1>7. /\ calls' \in [Call -> CallState]
      /\ calls'[r].cmd = calls[r].cmd
      /\ calls'[r].pc = "publishing" => calls[r].cmd \in unapproved
      /\ calls'[r].pc # "popping"
      /\ calls'[r].answer \in {calls[r].answer, "server_error"}
  <2>1. calls[r] \in CallState
    BY DEF OrchestratorTypeOK
  <2>2. CASE calls[r].cmd \in unapproved
    <3>1. calls' = [calls EXCEPT ![r] = [calls[r] EXCEPT !.pc = "publishing"]]
      BY <2>2 DEF ApproveCmdPop
    <3>2. [calls[r] EXCEPT !.pc = "publishing"] \in CallState
      BY <2>1 DEF CallState
    <3> QED
      BY <2>1, <2>2, <3>1, <3>2 DEF OrchestratorTypeOK, CallState
  <2>3. CASE calls[r].cmd \notin unapproved
    <3>1. calls' = [calls EXCEPT ![r] = [calls[r] EXCEPT !.pc = "finished", !.answer = "server_error"]]
      BY <2>3 DEF ApproveCmdPop, Answer
    <3>2. [calls[r] EXCEPT !.pc = "finished", !.answer = "server_error"] \in CallState
      BY <2>1 DEF CallState
    <3> QED
      BY <2>1, <3>1, <3>2 DEF OrchestratorTypeOK, CallState
  <2> QED
    BY <2>2, <2>3
<1>8. calls[r].pc = "popping" /\ calls[r].answer # "approved"
  BY DEF Holding, ApproveCmdPop
<1>2. OrchestratorTypeOK' /\ Holding' /\ (todo' # {} => opos' > 0)
  <2>1. OrchestratorTypeOK' /\ (todo' # {} => opos' > 0)
    BY <1>7 DEF OrchestratorTypeOK, ApproveCmdPop
  <2>2. Holding'
    BY <1>0, <1>1, <1>7, <1>8 DEF Holding
  <2> QED
    BY <2>1, <2>2
<1>3. \A q \in Call, c \in Cmd : Popped(q, c)' => \/ Popped(q, c)
                                                  \/ q = r /\ c = calls[r].cmd /\ c \in unapproved
  <2> TAKE q \in Call, c \in Cmd
  <2>1. CASE q = r
    BY <2>1, <1>7 DEF Popped
  <2>2. CASE q # r
    BY <2>2, <1>0 DEF Popped
  <2> QED
    BY <2>1, <2>2
<1>4. OneRight'
  BY <1>1, <1>3 DEF OrchestratorTypeOK, OneRight, ApproveCmdPop
<1>5. Fresh'
  BY <1>3 DEF OrchestratorTypeOK, Fresh, Known, ApproveCmdPop
<1>6. GateHolds'
  BY <1>0, <1>8 DEF GateHolds, ApproveCmdPop
<1> QED
  BY <1>2, <1>4, <1>5, <1>6

\* The right is spent.
LEMMA PublishStep ==
  ASSUME IInv, NEW r \in Call, ApproveCmdPublish(r)
  PROVE  IInv'
<1> USE DEF IInv
<1> DEFINE d == calls[r].cmd
<1>1. d \in Cmd /\ Popped(r, d) /\ commands[d] = 0 /\ d \notin unapproved
  BY DEF Holding, ApproveCmdPublish, Popped, OneRight
<1>2. OrchestratorTypeOK' /\ Holding' /\ (todo' # {} => opos' > 0)
  <2>1. commands' \in [Cmd \cup ManualCmd -> Nat]
    BY <1>1 DEF OrchestratorTypeOK, ApproveCmdPublish
  <2>2. calls' \in [Call -> CallState]
    BY DEF OrchestratorTypeOK, CallState, ApproveCmdPublish, Answer
  <2>3. Holding'
    BY DEF OrchestratorTypeOK, CallState, Holding, ApproveCmdPublish, Answer
  <2> QED
    BY <2>1, <2>2, <2>3 DEF OrchestratorTypeOK, ApproveCmdPublish
<1>3. commands' = [commands EXCEPT ![d] = 1]
  BY <1>1 DEF OrchestratorTypeOK, ApproveCmdPublish
<1>4. \A q \in Call, c \in Cmd : Popped(q, c)' => Popped(q, c) /\ q # r /\ c # d
  BY <1>1 DEF OrchestratorTypeOK, Popped, OneRight, ApproveCmdPublish, Answer
<1>5. OneRight'
  BY <1>1, <1>3, <1>4 DEF OrchestratorTypeOK, OneRight, ApproveCmdPublish
<1>6. Fresh'
  BY <1>1, <1>3, <1>4 DEF OrchestratorTypeOK, Fresh, Known, ApproveCmdPublish
<1>7. calls'[r].cmd = d /\ calls'[r].answer = "approved"
  BY DEF OrchestratorTypeOK, ApproveCmdPublish, Answer
<1>8. \A q \in Call \ {r} : calls'[q] = calls[q]
  BY DEF OrchestratorTypeOK, ApproveCmdPublish, Answer
<1>9. GateHolds'
  BY <1>1, <1>3, <1>7, <1>8 DEF OrchestratorTypeOK, GateHolds, Holding
<1> QED
  BY <1>2, <1>5, <1>6, <1>9

\* The count, a playbook by hand and a restart are steps of the first kind.
LEMMA CountStep ==
  ASSUME IInv, NEW r \in Call, ApproveCmdCount(r)
  PROVE  IInv'
<1>0. calls' \in [Call -> CallState]
  BY DEF IInv, OrchestratorTypeOK, CallState, ApproveCmdCount
<1>1. OrchestratorTypeOK' /\ (todo' # {} => opos' > 0)
  BY <1>0 DEF IInv, OrchestratorTypeOK, ApproveCmdCount
<1>4. Holding'
  BY DEF IInv, OrchestratorTypeOK, CallState, Holding, ApproveCmdCount
<1>2. \A q \in Call : /\ calls'[q].pc = "publishing" => calls'[q] = calls[q]
                      /\ calls[q].answer = "approved"
                            => calls'[q].cmd = calls[q].cmd /\ calls'[q].answer = "approved"
  BY DEF IInv, OrchestratorTypeOK, ApproveCmdCount
<1>3. \A c \in Cmd : Known(c)' => Known(c)
  BY <1>2 DEF Known, Popped, ApproveCmdCount
<1> QED
  BY <1>1, <1>2, <1>3, <1>4, QuietStep DEF IInv, Fresh, ApproveCmdCount

LEMMA ManualStep ==
  ASSUME IInv, NEW p \in Playbook, ManualExecute(p)
  PROVE  IInv'
<1>1. \A c \in Cmd : commands'[c] = commands[c]
  BY DEF IInv, OrchestratorTypeOK, ManualExecute, Cmd, ManualCmd
<1>0. commands' \in [Cmd \cup ManualCmd -> Nat]
  BY DEF IInv, OrchestratorTypeOK, ManualExecute, ManualCmd
<1>2. OrchestratorTypeOK' /\ Holding' /\ (todo' # {} => opos' > 0)
  BY <1>0, OrchestratorAssumption DEF IInv, OrchestratorTypeOK, Holding, ManualExecute
<1>3. \A c \in Cmd : Known(c)' => Known(c)
  BY <1>1 DEF Known, Popped, ManualExecute
<1> QED
  BY <1>1, <1>2, <1>3, QuietStep DEF IInv, Fresh, ManualExecute

LEMMA RestartStep ==
  ASSUME IInv, OrchestratorRestart
  PROVE  IInv'
<1>1. \A q \in Call : /\ calls'[q].pc # "publishing" /\ calls'[q].pc # "popping"
                      /\ calls'[q].cmd = calls[q].cmd /\ calls'[q].answer = calls[q].answer
                      /\ calls'[q].pc \in {"dead", calls[q].pc}
  BY DEF IInv, OrchestratorTypeOK, OrchestratorRestart, DeadCalls
<1>0. calls' \in [Call -> CallState]
  BY DEF IInv, OrchestratorTypeOK, CallState, OrchestratorRestart, DeadCalls
<1>2. OrchestratorTypeOK'
  BY <1>0, OrchestratorAssumption DEF IInv, OrchestratorTypeOK, OrchestratorRestart
<1>3. Holding'
  BY <1>1 DEF IInv, Holding
<1>4. \A c \in Cmd : Known(c)' => c.life < life'
  BY <1>1 DEF IInv, OrchestratorTypeOK, Fresh, Known, Popped, OrchestratorRestart, Cmd
<1> QED
  BY <1>1, <1>2, <1>3, <1>4, QuietStep DEF IInv, OrchestratorTypeOK, OrchestratorRestart, Cmd

\* Every step preserves the invariant.
LEMMA Inductive == IInv /\ [OrchestratorNext]_orchestratorVars => IInv'
<1> SUFFICES ASSUME IInv, [OrchestratorNext]_orchestratorVars PROVE IInv'
  OBVIOUS
<1>1. CASE UNCHANGED orchestratorVars
  BY <1>1 DEF orchestratorVars, IInv, OrchestratorTypeOK, OneRight, Holding, Fresh, Known, Popped, GateHolds
<1>2. ASSUME NEW c \in Correlation, NewCorrelation(c) PROVE IInv'
  BY <1>2, ArrivalStep
<1>3. CASE HandleCorrelation
  <2> PICK c \in Correlation : TRUE
    BY <1>3 DEF HandleCorrelation, IInv, OrchestratorTypeOK
  <2> QED
    BY <1>3, ArrivalStep
<1>4. CASE \E p \in Playbook : ExecutePlaybook(p)
  BY <1>4, ExecuteStep
<1>5. ASSUME NEW r \in Call, CallStep(r) PROVE IInv'
  BY <1>5, PopStep, PublishStep, CountStep DEF CallStep
<1>6. ASSUME NEW r \in Call, NEW c \in Cmd, ApproveCmdCheck(r, c) PROVE IInv'
  BY <1>6, CheckStep
<1>7. CASE \E p \in Playbook : ManualExecute(p)
  BY <1>7, ManualStep
<1>8. CASE OrchestratorRestart
  BY <1>8, RestartStep
<1> QED
  BY <1>1, <1>2, <1>3, <1>4, <1>5, <1>6, <1>7, <1>8 DEF OrchestratorNext, PlaybookConsumer

\* The invariant holds in every behaviour.
LEMMA Invariance == OrchestratorSpec => []IInv
  BY InitInv, Inductive, PTL DEF OrchestratorSpec

\* The type invariant holds: orchestrator_agent/main.py keeps what it means to keep.
THEOREM TypeCorrect == OrchestratorSpec => []OrchestratorTypeOK
  BY Invariance, PTL DEF IInv

\* GateHolds: a command that requires an approval is published at most once, and
\* only when a call approved it (approve and _execute_playbook).
THEOREM GateIsKept == OrchestratorSpec => []GateHolds
  BY Invariance, PTL DEF IInv
-----------------------------------------------------------------------------
(* The count of pending approvals.                                         *)

\* Calls between pop and the counter.
Taken == {r \in Call : calls[r].pc \in {"publishing", "counting"}}

CountInv == IsFiniteSet(unapproved) /\ AwaitingIsPending

LEMMA CountMeans ==
    CountInv' <=> /\ IsFiniteSet(unapproved')
                  /\ awaiting' = Cardinality(unapproved') + Cardinality(Taken')
BY DEF CountInv, AwaitingIsPending, Taken

\* A step that leaves dictionary and counter alone, and takes or ends no approval.
LEMMA CountKept ==
  ASSUME CountInv, unapproved' = unapproved, awaiting' = awaiting,
         \A r \in Call : calls'[r].pc \in {"publishing", "counting"}
                            <=> calls[r].pc \in {"publishing", "counting"}
  PROVE  CountInv'
<1>1. Taken' = Taken
  BY DEF Taken
<1> QED
  BY <1>1 DEF CountInv, AwaitingIsPending, Taken

LEMMA CountInductive == IInv /\ CountInv /\ [OrchestratorNext]_orchestratorVars => CountInv'
<1> SUFFICES ASSUME IInv, CountInv, [OrchestratorNext]_orchestratorVars PROVE CountInv'
  OBVIOUS
<1>0. /\ IsFiniteSet(Taken) /\ IsFiniteSet(unapproved)
      /\ Cardinality(Taken) \in Nat /\ Cardinality(unapproved) \in Nat
      /\ awaiting = Cardinality(unapproved) + Cardinality(Taken)
  BY OrchestratorAssumption, FS_Subset, FS_CardinalityType DEF CountInv, AwaitingIsPending, Taken
<1>1. ASSUME NEW p \in Playbook, ExecutePlaybook(p) PROVE CountInv'
  <2> DEFINE new == [life |-> life, corr |-> opos, playbook |-> p]
  <2>1. CASE p \in Gated
    <3>1. new \in Cmd /\ new \notin unapproved
      <4>1. p \in todo /\ opos > 0
        BY <1>1 DEF ExecutePlaybook, IInv
      <4>2. opos \in 1..MaxCorrelations
        BY <4>1, OrchestratorAssumption DEF IInv, OrchestratorTypeOK
      <4>3. new \in Cmd
        BY <2>1, <4>2 DEF IInv, OrchestratorTypeOK, Cmd
      <4> QED
        BY <4>1, <4>3 DEF IInv, Fresh, Known
    <3>2. unapproved' = unapproved \cup {new} /\ awaiting' = awaiting + 1 /\ Taken' = Taken
      BY <1>1, <2>1 DEF ExecutePlaybook, Taken
    <3> HIDE DEF new
    <3>3. IsFiniteSet(unapproved') /\ Cardinality(unapproved') = Cardinality(unapproved) + 1
      BY <1>0, <3>1, <3>2, FS_AddElement
    <3> QED
      BY <1>0, <3>2, <3>3, CountMeans
  <2>2. CASE p \notin Gated
    BY <1>1, <2>2, CountKept DEF ExecutePlaybook
  <2> QED
    BY <2>1, <2>2
<1>2. ASSUME NEW r \in Call, ApproveCmdPop(r) PROVE CountInv'
  <2>1. calls[r].pc = "popping" /\ \A q \in Call \ {r} : calls'[q] = calls[q]
    BY <1>2 DEF ApproveCmdPop, Answer, IInv, OrchestratorTypeOK
  <2>2. CASE calls[r].cmd \in unapproved
    <3>1. calls'[r].pc = "publishing" /\ awaiting' = awaiting
      BY <1>2, <2>2 DEF ApproveCmdPop, IInv, OrchestratorTypeOK, CallState
    <3>2. Taken' = Taken \cup {r} /\ r \notin Taken
      BY <2>1, <3>1 DEF Taken
    <3>3. Cardinality(Taken') = Cardinality(Taken) + 1
      BY <1>0, <3>2, FS_AddElement
    <3>4. IsFiniteSet(unapproved') /\ Cardinality(unapproved') = Cardinality(unapproved) - 1
      BY <1>0, <1>2, <2>2, FS_RemoveElement DEF ApproveCmdPop
    <3> QED
      BY <1>0, <3>1, <3>3, <3>4, CountMeans
  <2>3. CASE calls[r].cmd \notin unapproved
    <3>1. calls'[r].pc = "finished" /\ awaiting' = awaiting /\ unapproved' = unapproved
      BY <1>2, <2>3 DEF ApproveCmdPop, Answer, IInv, OrchestratorTypeOK, CallState
    <3> QED
      BY <2>1, <3>1, CountKept
  <2> QED
    BY <2>2, <2>3
<1>3. ASSUME NEW r \in Call, ApproveCmdPublish(r) PROVE CountInv'
  <2>1. calls[r].pc = "publishing" /\ \A q \in Call \ {r} : calls'[q] = calls[q]
    BY <1>3 DEF ApproveCmdPublish, Answer, IInv, OrchestratorTypeOK
  <2>2. calls'[r].pc = "counting" /\ awaiting' = awaiting /\ unapproved' = unapproved
    BY <1>3 DEF ApproveCmdPublish, Answer, IInv, OrchestratorTypeOK, CallState
  <2> QED
    BY <2>1, <2>2, CountKept
<1>4. ASSUME NEW r \in Call, ApproveCmdCount(r) PROVE CountInv'
  <2>1. calls[r].pc = "counting" /\ \A q \in Call \ {r} : calls'[q] = calls[q]
    BY <1>4 DEF ApproveCmdCount, IInv, OrchestratorTypeOK
  <2>2. calls'[r].pc = "finished" /\ awaiting' = awaiting - 1 /\ unapproved' = unapproved
    BY <1>4 DEF ApproveCmdCount, IInv, OrchestratorTypeOK, CallState
  <2>3. Taken' = Taken \ {r} /\ r \in Taken
    BY <2>1, <2>2 DEF Taken
  <2>4. Cardinality(Taken') = Cardinality(Taken) - 1
    BY <1>0, <2>3, FS_RemoveElement
  <2> QED
    BY <1>0, <2>2, <2>4, CountMeans
<1>5. ASSUME NEW r \in Call, NEW c \in Cmd, ApproveCmdCheck(r, c) PROVE CountInv'
  <2>1. calls[r].pc = "idle" /\ \A q \in Call \ {r} : calls'[q] = calls[q]
    BY <1>5 DEF ApproveCmdCheck, Answer, IInv, OrchestratorTypeOK
  <2>2. calls'[r].pc \in {"popping", "finished"} /\ awaiting' = awaiting /\ unapproved' = unapproved
    BY <1>5 DEF ApproveCmdCheck, Answer, IInv, OrchestratorTypeOK, CallState
  <2> QED
    BY <2>1, <2>2, CountKept
<1>6. CASE OrchestratorRestart
  <2>1. \A r \in Call : calls'[r].pc \notin {"publishing", "counting"}
    <3>1. \A r \in Call : calls[r] \in CallState /\ calls'[r] = DeadCalls[r]
      BY <1>6 DEF OrchestratorRestart, DeadCalls, IInv, OrchestratorTypeOK
    <3>2. ASSUME NEW r \in Call PROVE DeadCalls[r].pc \notin {"publishing", "counting"}
      BY <3>1 DEF DeadCalls, CallState
    <3> QED
      BY <3>1, <3>2
  <2>3. Taken' = {} /\ unapproved' = {} /\ awaiting' = 0
    BY <1>6, <2>1 DEF OrchestratorRestart, Taken
  <2> QED
    BY <2>3, FS_EmptySet, CountMeans
<1>7. CASE UNCHANGED <<unapproved, awaiting, calls>>
  BY <1>7, CountKept
<1> QED
  BY <1>1, <1>2, <1>3, <1>4, <1>5, <1>6, <1>7
     DEF OrchestratorNext, PlaybookConsumer, CallStep, NewCorrelation, HandleCorrelation, ManualExecute, orchestratorVars

\* AwaitingIsPending: /health counts the approvals that are pending and those just
\* taken (_stats["approvals_pending"]), through any calls and restarts.
THEOREM HealthCountsPending == OrchestratorSpec => []AwaitingIsPending
<1>1. OrchestratorInit => CountInv
  <2> SUFFICES ASSUME OrchestratorInit PROVE CountInv
    OBVIOUS
  <2>1. {r \in Call : calls[r].pc \in {"publishing", "counting"}} = {} /\ unapproved = {} /\ awaiting = 0
    BY DEF OrchestratorInit
  <2> QED
    BY <2>1, FS_EmptySet DEF CountInv, AwaitingIsPending
<1> QED
  BY <1>1, Invariance, CountInductive, PTL DEF OrchestratorSpec, CountInv
=============================================================================
