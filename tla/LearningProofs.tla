--------------------------- MODULE LearningProofs ---------------------------
(***************************************************************************)
(* What concurrent retraining runs may do to the models, their metrics and *)
(* the recommendations, proved for any models, examples, scores and runs.  *)
(*                                                                         *)
(* A run goes through the models one after the other.  Progress says what  *)
(* it can have left behind at which point; Sole, that of the runs updating *)
(* a model the one that serves it is alone unless the overlap was noted.   *)
(* The dataset plays no part there: whatever a run reads of it is allowed. *)
(* The second half is about the dataset and its counters, and about how    *)
(* often a model can have been measured.                                   *)
(***************************************************************************)
EXTENDS Learning, FiniteSetTheorems, TLAPS

Working == {"snapshot", "fitting", "comparing", "accepting", "recommending"}

Measure == [f1 : Score \cup {NoScore}, count : Nat, of : 0..MaxRuns]
RunState == [pc : {"none", "checking", "done"} \cup Working,
             at : 1..(Len(Models) + 1), f1 : Score \cup {NoScore}, old : Measure]

\* The part of LearnTypeOK that the argument needs.
RunType ==
    /\ runs \in [Run -> RunState]
    /\ models \in [Model -> 0..MaxRuns]
    /\ metrics \in [Model -> Measure]
    /\ thresholds \in [Model -> 0..MaxRuns]

\* Run r is past model m.
Past(r, m) == \E k \in DOMAIN Models : k < runs[r].at /\ Models[k] = m

\* How far each run is, and what it can have left behind there.
Progress ==
    \A r \in Run :
        /\ runs[r].pc \in Working => runs[r].at <= Len(Models)
        /\ runs[r].pc \in {"none", "checking"} => runs[r].at = 1
        /\ runs[r].pc \in {"comparing", "accepting"} => runs[r].f1 \in Score
        /\ runs[r].pc = "accepting" => ~Drifts(runs[r].f1, runs[r].old)
        /\ \A m \in Model :
              /\ <<m, r>> \in rejected => Past(r, m)
              /\ metrics[m].of = r \/ thresholds[m] = r =>
                    Past(r, m) \/ (runs[r].pc = "recommending" /\ Current(r) = m)

\* A run that updates a model serves it, unless two did.
Sole == \A m \in Model \ overlapped, r \in Run : Updating(r, m) => models[m] = r

IInv == RunType /\ Progress /\ RejectedHasNoSay /\ Sole /\ ServedIsMeasured

\* The initial state.
LEMMA InitInv == LearnInit => IInv
<1> SUFFICES ASSUME LearnInit PROVE IInv
  OBVIOUS
<1>0. Len(Models) \in Nat \ {0} /\ MaxRuns \in Nat
  BY LearningAssumption
<1> USE DEF LearnInit, IdleRun
<1>1. RunType
  BY <1>0 DEF RunType, RunState, Measure
<1>2. Progress
  BY <1>0 DEF Progress, Working, Run
<1>3. RejectedHasNoSay /\ Sole /\ ServedIsMeasured
  BY DEF RejectedHasNoSay, Sole, Updating, ServedIsMeasured
<1> QED
  BY <1>1, <1>2, <1>3 DEF IInv

\* A step of the consumer or an operator starts a run at most.
LEMMA StartStep ==
  ASSUME IInv, UNCHANGED modelVars, StartRun \/ UNCHANGED runs
  PROVE  IInv'
<1> USE DEF IInv, modelVars
<1>1. CASE UNCHANGED runs
  BY <1>1 DEF RunType, Progress, Past, Current, RejectedHasNoSay, Sole, Updating, ServedIsMeasured
<1>2. CASE StartRun
  <2>1. PICK r \in Run : runs[r].pc = "none" /\ runs' = [runs EXCEPT ![r].pc = "checking"]
    <3>1. \A r \in Run : r >= r
      BY LearningAssumption DEF Run
    <3> QED
      BY <1>2, <3>1 DEF StartRun
  <2>2. /\ \A q \in Run : runs'[q].at = runs[q].at /\ runs'[q].f1 = runs[q].f1
                          /\ runs'[q].old = runs[q].old
        /\ \A q \in Run \ {r} : runs'[q].pc = runs[q].pc
        /\ runs'[r].pc = "checking"
    BY <2>1 DEF RunType, RunState
  <2>3. RunType'
    BY <2>1 DEF RunType, RunState
  <2>4. Progress'
    BY <2>1, <2>2 DEF Progress, Past, Current, Working
  <2>5. \A q \in Run, m \in Model : Updating(q, m)' <=> Updating(q, m)
    BY <2>1, <2>2 DEF Updating, Current
  <2>6. RejectedHasNoSay' /\ Sole' /\ ServedIsMeasured'
    BY <2>5 DEF RejectedHasNoSay, Sole, ServedIsMeasured
  <2> QED
    BY <2>3, <2>4, <2>6
<1> QED
  BY <1>1, <1>2

\* The model that a run at work is at.
LEMMA AtModel ==
  ASSUME IInv, NEW r \in Run, runs[r].pc \in Working
  PROVE  /\ runs[r].at \in DOMAIN Models /\ runs[r].at \in 1..Len(Models)
         /\ Current(r) \in Model
         /\ ~Past(r, Current(r))
<1>1. runs[r].at \in 1..Len(Models) /\ DOMAIN Models = 1..Len(Models)
  BY LearningAssumption DEF IInv, RunType, RunState, Progress
<1>2. Current(r) \in Model
  BY <1>1 DEF Current, Model
<1>3. ~Past(r, Current(r))
  <2>1. \A k \in DOMAIN Models : Models[k] = Models[runs[r].at] => k = runs[r].at
    BY <1>1, LearningAssumption
  <2>2. ~(runs[r].at < runs[r].at)
    BY <1>1
  <2> QED
    BY <2>1, <2>2 DEF Current, Past
<1> QED
  BY <1>1, <1>2, <1>3

\* On to the next model.
LEMMA AfterNextModel ==
  ASSUME IInv, NEW r \in Run, runs[r].pc \in Working, NextModel(r)
  PROVE  /\ runs' \in [Run -> RunState]
         /\ \A q \in Run \ {r} : runs'[q] = runs[q]
         /\ runs'[r].pc \in {"snapshot", "done"} /\ runs'[r].at = runs[r].at + 1
         /\ runs'[r].pc = "snapshot" => runs'[r].at <= Len(Models)
         /\ \A m \in Model : Past(r, m) \/ m = Current(r) => Past(r, m)'
<1>1. runs[r].at \in 1..Len(Models) /\ DOMAIN Models = 1..Len(Models) /\ Len(Models) \in Nat
  BY AtModel, LearningAssumption
<1> DEFINE pc == IF runs[r].at < Len(Models) THEN "snapshot" ELSE "done"
           next == [IdleRun EXCEPT !.pc = pc, !.at = runs[r].at + 1]
<1>2. IdleRun \in RunState
  <2>1. [f1 |-> NoScore, count |-> 0, of |-> 0] \in Measure
    BY LearningAssumption DEF Measure
  <2> QED
    BY <1>1, <2>1 DEF IdleRun, RunState
<1>3. runs' = [runs EXCEPT ![r] = next]
  BY DEF NextModel
<1>4. \A q \in Run \ {r} : runs'[q] = runs[q]
  BY DEF NextModel, IInv, RunType
<1>5. next \in RunState /\ next.pc = pc /\ next.at = runs[r].at + 1
  <2>1. pc \in {"none", "checking", "done"} \cup Working /\ runs[r].at + 1 \in 1..(Len(Models) + 1)
    BY <1>1 DEF Working
  <2> HIDE DEF pc
  <2> QED
    BY <1>2, <2>1 DEF RunState
<1> HIDE DEF next
<1>6. runs' \in [Run -> RunState] /\ runs'[r] = next
  BY <1>3, <1>5 DEF IInv, RunType
<1>7. \A m \in Model : Past(r, m) \/ m = Current(r) => Past(r, m)'
  BY <1>1, <1>5, <1>6 DEF Past, Current
<1> QED
  BY <1>1, <1>4, <1>5, <1>6, <1>7
-----------------------------------------------------------------------------
(* The steps of a run.                                                     *)

\* Steps away from the update: on to training, to the next model or to the end.
LEMMA MoveOn ==
  ASSUME IInv, NEW r \in Run, UNCHANGED modelVars,
         runs[r].pc \in {"checking", "snapshot", "fitting"},
         runs' \in [Run -> RunState],
         \A q \in Run \ {r} : runs'[q] = runs[q],
         runs'[r].pc \in {"snapshot", "fitting", "done"},
         runs'[r].pc # "done" => runs'[r].at <= Len(Models),
         \A m \in Model : Past(r, m) => Past(r, m)'
  PROVE  IInv'
<1> USE DEF IInv, modelVars
<1>1. RunType'
  BY DEF RunType
<1>2. Progress'
  BY DEF Progress, Past, Current, Working
<1>3. \A q \in Run, m \in Model : Updating(q, m)' <=> Updating(q, m)
  BY DEF Updating, Current
<1>4. RejectedHasNoSay' /\ Sole' /\ ServedIsMeasured'
  BY <1>3 DEF RejectedHasNoSay, Sole, ServedIsMeasured
<1> QED
  BY <1>1, <1>2, <1>4

LEMMA QuietStep ==
  ASSUME IInv, NEW r \in Run, Check(r) \/ TakeSnapshot(r) \/ Skip(r) \/ CvFails(r)
  PROVE  IInv'
<1>1. CASE Skip(r) \/ CvFails(r)
  <2>1. runs[r].pc \in {"snapshot", "fitting"} /\ NextModel(r) /\ UNCHANGED modelVars
    BY <1>1 DEF Skip, CvFails, At
  <2> QED
    BY <2>1, AfterNextModel, MoveOn DEF Working
<1>2. CASE Check(r) \/ TakeSnapshot(r)
  <2>1. /\ runs[r].pc \in {"checking", "snapshot"} /\ UNCHANGED modelVars
        /\ \E pc \in {"snapshot", "fitting", "done"} : runs' = [runs EXCEPT ![r].pc = pc]
    BY <1>2 DEF Check, TakeSnapshot, GoTo, At
  <2>2. PICK pc \in {"snapshot", "fitting", "done"} : runs' = [runs EXCEPT ![r].pc = pc]
    BY <2>1
  <2>3. /\ runs' \in [Run -> RunState] /\ runs'[r].pc = pc /\ runs'[r].at = runs[r].at
        /\ \A q \in Run \ {r} : runs'[q] = runs[q]
    BY <2>2 DEF IInv, RunType, RunState, Working
  <2>4. runs[r].at <= Len(Models)
    BY <2>1, LearningAssumption DEF IInv, Progress, Working
  <2> QED
    BY <2>1, <2>3, <2>4, MoveOn DEF Past
<1> QED
  BY <1>1, <1>2

\* A new model is served.
LEMMA ServeStep ==
  ASSUME IInv, NEW r \in Run, NEW f1 \in Score, Serve(r, f1)
  PROVE  IInv'
<1> USE DEF IInv, Serve, At
<1>1. /\ runs' \in [Run -> RunState] /\ \A q \in Run \ {r} : runs'[q] = runs[q]
      /\ runs'[r].pc = "comparing" /\ runs'[r].f1 = f1 /\ runs'[r].at = runs[r].at
  BY DEF RunType, RunState, Working
<1>2. Current(r) \in Model /\ runs[r].at <= Len(Models)
  BY AtModel, LearningAssumption DEF Working, Progress
<1>3. r \in 0..MaxRuns /\ models' \in [Model -> 0..MaxRuns] /\ models'[Current(r)] = r
      /\ \A m \in Model : m # Current(r) => models'[m] = models[m]
  <2>1. MaxRuns \in Nat
    BY LearningAssumption
  <2>2. r \in 0..MaxRuns
    BY <2>1 DEF Run
  <2>3. models \in [Model -> 0..MaxRuns] /\ models' = [models EXCEPT ![Current(r)] = r]
    BY DEF RunType
  <2> HIDE DEF IInv, Serve
  <2> QED
    BY <1>2, <2>2, <2>3
<1>4. RunType'
  BY <1>1, <1>3 DEF RunType
<1>5. Progress'
  BY <1>1, <1>2 DEF Progress, Past, Current, Working
<1>6. RejectedHasNoSay'
  BY DEF RejectedHasNoSay
<1>7. \A q \in Run, m \in Model :
        Updating(q, m)' <=> (IF q = r THEN m = Current(r) ELSE Updating(q, m))
  BY <1>1 DEF Updating, Current
<1>8. Sole'
  BY <1>3, <1>7 DEF Sole
<1>9. ServedIsMeasured'
  <2>1. \A q \in Run, m \in Model : Updating(q, m) => Updating(q, m)'
    BY <1>7 DEF Updating
  <2>2. \A m \in Model : m = Current(r) => Updating(r, m)'
    BY <1>7
  <2>3. overlapped \subseteq overlapped' /\ metrics' = metrics /\ rejected' = rejected
    OBVIOUS
  <2> QED
    BY <1>3, <2>1, <2>2, <2>3 DEF ServedIsMeasured
<1> QED
  BY <1>4, <1>5, <1>6, <1>8, <1>9

\* The drift check passes.
LEMMA CompareStep ==
  ASSUME IInv, NEW r \in Run, CompareF1(r)
  PROVE  IInv'
<1> USE DEF IInv, CompareF1, At, modelVars
<1>1. Current(r) \in Model /\ runs[r].at <= Len(Models) /\ metrics[Current(r)] \in Measure
  BY AtModel, LearningAssumption DEF Working, Progress, RunType
<1>2. /\ runs' \in [Run -> RunState] /\ \A q \in Run \ {r} : runs'[q] = runs[q]
      /\ runs'[r].pc = "accepting" /\ runs'[r].f1 = runs[r].f1 /\ runs'[r].at = runs[r].at
      /\ runs'[r].old = metrics[Current(r)]
  BY <1>1 DEF RunType, RunState, Working
<1>3. RunType'
  BY <1>2 DEF RunType
<1>4. ~Drifts(runs'[r].f1, runs'[r].old)
  BY <1>2
<1>5. Progress'
  <2>1. /\ \A q \in Run : runs'[q].at = runs[q].at /\ runs'[q].f1 = runs[q].f1
        /\ \A q \in Run : runs'[q].pc = runs[q].pc
                         \/ (q = r /\ runs[q].pc = "comparing" /\ runs'[q].pc = "accepting")
        /\ \A q \in Run : runs'[q].pc = "accepting" => ~Drifts(runs'[q].f1, runs'[q].old)
    BY <1>2, <1>4 DEF Progress
  <2>2. UNCHANGED <<metrics, thresholds, rejected>>
    OBVIOUS
  <2>3. Progress
    OBVIOUS
  <2> HIDE DEF IInv, CompareF1
  <2> QED
    BY <2>1, <2>2, <2>3 DEF Progress, Past, Current, Working
<1>6. \A q \in Run, m \in Model : Updating(q, m)' <=> Updating(q, m)
  BY <1>2 DEF Updating, Current
<1>7. RejectedHasNoSay' /\ Sole' /\ ServedIsMeasured'
  BY <1>6 DEF RejectedHasNoSay, Sole, ServedIsMeasured
<1> QED
  BY <1>3, <1>5, <1>7

\* The drift check rejects the model, which stays.
LEMMA RejectStep ==
  ASSUME IInv, NEW r \in Run, Reject(r)
  PROVE  IInv'
<1> USE DEF IInv, Reject, At, AfterReject
<1>1. Current(r) \in Model /\ ~Past(r, Current(r))
  BY AtModel DEF Working
<1>2. /\ runs' \in [Run -> RunState] /\ \A q \in Run \ {r} : runs'[q] = runs[q]
      /\ runs'[r].pc \in {"snapshot", "done"}
      /\ runs'[r].pc = "snapshot" => runs'[r].at <= Len(Models)
      /\ \A m \in Model : Past(r, m) \/ m = Current(r) => Past(r, m)'
  BY AfterNextModel DEF Working
<1>3. RunType'
  BY <1>2 DEF RunType
<1>4. Progress'
  BY <1>2 DEF Progress, Past, Current, Working
<1>5. metrics[Current(r)].of # r /\ thresholds[Current(r)] # r
  BY <1>1 DEF Progress
<1>6. RejectedHasNoSay'
  BY <1>5 DEF RejectedHasNoSay
<1>7. \A q \in Run, m \in Model : Updating(q, m)' <=> (q # r /\ Updating(q, m))
  BY <1>2 DEF Updating, Current
<1>8. Sole'
  BY <1>7 DEF Sole
<1>9. ServedIsMeasured'
  BY <1>7 DEF ServedIsMeasured, Sole, Updating
<1> QED
  BY <1>3, <1>4, <1>6, <1>8, <1>9

\* The metrics of the new model replace the old ones.
LEMMA AcceptStep ==
  ASSUME IInv, NEW r \in Run, Accept(r)
  PROVE  IInv'
<1> USE DEF IInv, Accept, At, GoTo
<1>1. Current(r) \in Model /\ runs[r].at <= Len(Models) /\ ~Past(r, Current(r))
  BY AtModel, LearningAssumption DEF Working, Progress
<1>2. /\ runs' \in [Run -> RunState] /\ \A q \in Run \ {r} : runs'[q] = runs[q]
      /\ runs'[r].pc = "recommending" /\ runs'[r].at = runs[r].at
  BY DEF RunType, RunState, Working
<1>3. r \in 0..MaxRuns /\ MaxRuns \in Nat
  BY LearningAssumption DEF Run
<1>4. NewMetric(r) \in Measure /\ NewMetric(r).of = r
  <2>1. runs[r].f1 \in Score \cup {NoScore} /\ runs[r].old.count \in Nat
    BY DEF RunType, RunState, Measure
  <2> QED
    BY <1>3, <2>1 DEF NewMetric, Measure
<1>5. /\ metrics' \in [Model -> Measure] /\ metrics'[Current(r)].of = r
      /\ \A m \in Model : m # Current(r) => metrics'[m] = metrics[m]
  BY <1>1, <1>4 DEF RunType
<1>6. RunType'
  BY <1>2, <1>5 DEF RunType
<1>7. \A m \in Model : <<m, r>> \in rejected => m # Current(r)
  BY <1>1 DEF Progress
<1>8. Progress'
  <2>1. \A m \in Model, q \in Run : metrics'[m].of = q =>
          metrics[m].of = q \/ (q = r /\ m = Current(r))
    BY <1>1, <1>5
  <2> QED
    BY <1>1, <1>2, <2>1 DEF Progress, Past, Current, Working
<1>9. RejectedHasNoSay'
  BY <1>5, <1>7 DEF RejectedHasNoSay, Progress, Past
<1>10. \A q \in Run, m \in Model : Updating(q, m)' <=> (q # r /\ Updating(q, m))
  BY <1>2 DEF Updating, Current
<1>11. Sole'
  BY <1>10 DEF Sole
<1>12. ServedIsMeasured'
  <2>1. Updating(r, Current(r)) /\ \A m \in Model : Updating(r, m) => m = Current(r)
    BY DEF Updating
  <2> QED
    BY <1>5, <1>10, <2>1 DEF ServedIsMeasured, Sole
<1> QED
  BY <1>6, <1>8, <1>9, <1>11, <1>12

\* Recommendations, and on to the next model.
LEMMA RecommendStep ==
  ASSUME IInv, NEW r \in Run, Recommend(r)
  PROVE  IInv'
<1> USE DEF IInv, Recommend, At
<1>1. Current(r) \in Model /\ ~Past(r, Current(r)) /\ r \in 0..MaxRuns
  BY AtModel, LearningAssumption DEF Working, Run
<1>2. /\ runs' \in [Run -> RunState] /\ \A q \in Run \ {r} : runs'[q] = runs[q]
      /\ runs'[r].pc \in {"snapshot", "done"}
      /\ runs'[r].pc = "snapshot" => runs'[r].at <= Len(Models)
      /\ \A m \in Model : Past(r, m) \/ m = Current(r) => Past(r, m)'
  BY AfterNextModel DEF Working
<1>3. /\ thresholds' \in [Model -> 0..MaxRuns]
      /\ \A m \in Model : thresholds'[m] = thresholds[m] \/ (m = Current(r) /\ thresholds'[m] = r)
  BY <1>1 DEF RunType
<1>4. RunType'
  BY <1>2, <1>3 DEF RunType
<1>5. Progress'
  BY <1>2, <1>3 DEF Progress, Past, Current, Working
<1>6. RejectedHasNoSay'
  BY <1>1, <1>3 DEF RejectedHasNoSay, Progress
<1>7. \A q \in Run, m \in Model : Updating(q, m)' <=> Updating(q, m)
  BY <1>2 DEF Updating, Current
<1>8. Sole' /\ ServedIsMeasured'
  BY <1>7 DEF Sole, ServedIsMeasured
<1> QED
  BY <1>4, <1>5, <1>6, <1>8

-----------------------------------------------------------------------------
(* Every step, and the theorems.                                           *)

LEMMA StepInv == IInv /\ [LearnNext]_learnVars => IInv'
<1> SUFFICES ASSUME IInv, [LearnNext]_learnVars PROVE IInv'
  OBVIOUS
<1>1. ASSUME NEW i \in LearnIncident, NEW l \in Label, Ingest(i, l) PROVE IInv'
  <2>1. UNCHANGED modelVars /\ (StartRun \/ UNCHANGED runs)
    BY <1>1 DEF Ingest
  <2> QED
    BY <2>1, StartStep
<1>2. ASSUME NEW i \in LearnIncident, Dismiss(i) PROVE IInv'
  BY <1>2, StartStep DEF Dismiss
<1>3. CASE Retrain
  BY <1>3, StartStep DEF Retrain
<1>4. CASE LearnTick
  BY <1>4, StartStep DEF LearnTick
<1>5. ASSUME NEW r \in Run, RunStep(r) PROVE IInv'
  <2>1. CASE Check(r) \/ TakeSnapshot(r) \/ Skip(r) \/ CvFails(r)
    BY <2>1, QuietStep
  <2>2. ASSUME NEW f1 \in Score, Serve(r, f1) PROVE IInv'
    BY <2>2, ServeStep
  <2>3. CASE CompareF1(r)
    BY <2>3, CompareStep
  <2>4. CASE Reject(r)
    BY <2>4, RejectStep
  <2>5. CASE Accept(r)
    BY <2>5, AcceptStep
  <2>6. CASE Recommend(r)
    BY <2>6, RecommendStep
  <2> QED
    BY <1>5, <2>1, <2>2, <2>3, <2>4, <2>5, <2>6 DEF RunStep
<1>6. CASE UNCHANGED learnVars
  BY <1>6, StartStep DEF learnVars
<1> QED
  BY <1>1, <1>2, <1>3, <1>4, <1>5, <1>6 DEF LearnNext

LEMMA LearningInvariance == LearnSpec => []IInv
BY InitInv, StepInv, PTL DEF LearnSpec

\* A run that the drift check rejected for a model has no say in its metrics and
\* thresholds (_run_retraining, _compute_threshold_recommendations).
THEOREM RejectedIsSilent == LearnSpec => []RejectedHasNoSay
<1>1. IInv => RejectedHasNoSay
  BY DEF IInv
<1> QED
  BY <1>1, LearningInvariance, PTL

\* /metrics describes the model that /predict uses, a rejected model and an
\* overlap of two runs aside.
THEOREM MetricsDescribeServed == LearnSpec => []ServedIsMeasured
<1>1. IInv => ServedIsMeasured
  BY DEF IInv
<1> QED
  BY <1>1, LearningInvariance, PTL

\* The F1 on record drifts down only when two runs overlapped.
THEOREM DriftNeedsOverlap == LearnSpec => ScoreFallsOnlyByOverlap
<1> DEFINE Step == \A m \in Model :
                     Drifts(metrics'[m].f1, metrics[m])
                         => \E r \in Run : At(r, "accepting") /\ runs[r].old # metrics[m]
<1>1. IInv /\ [LearnNext]_learnVars => [Step]_learnVars
  <2> SUFFICES ASSUME IInv, LearnNext, NEW m \in Model, Drifts(metrics'[m].f1, metrics[m])
               PROVE  \E r \in Run : At(r, "accepting") /\ runs[r].old # metrics[m]
    OBVIOUS
  <2>1. metrics \in [Model -> Measure]
    BY DEF IInv, RunType
  <2>2. metrics'[m] # metrics[m]
    <3>1. metrics[m].f1 \in Score \cup {NoScore} /\ Drift \in Nat /\ Score \subseteq Nat
      BY <2>1, LearningAssumption DEF Measure
    <3>2. SUFFICES ASSUME metrics'[m] = metrics[m] PROVE FALSE
      OBVIOUS
    <3>3. metrics[m].f1 # NoScore /\ metrics[m].f1 < metrics[m].f1 - Drift
      <4>1. metrics'[m].f1 = metrics[m].f1
        BY <3>2
      <4> QED
        BY <4>1 DEF Drifts
    <3>4. metrics[m].f1 \in Nat
      BY <3>1, <3>3
    <3>5. \A f, d \in Nat : ~(f < f - d)
      OBVIOUS
    <3> QED
      BY <3>1, <3>3, <3>4, <3>5
  <2>3. PICK r \in Run : Accept(r)
    BY <2>2 DEF LearnNext, Ingest, Dismiss, Retrain, LearnTick, RunStep, Check, TakeSnapshot, Skip, CvFails,
                Serve, CompareF1, Reject, Recommend, modelVars
  <2>4. m = Current(r) /\ metrics'[m].f1 = runs[r].f1
    BY <2>1, <2>2, <2>3 DEF Accept, NewMetric
  <2>5. At(r, "accepting") /\ ~Drifts(runs[r].f1, runs[r].old)
    BY <2>3 DEF Accept, At, IInv, Progress
  <2> QED
    BY <2>4, <2>5
<1> QED
  BY <1>1, LearningInvariance, PTL DEF LearnSpec, ScoreFallsOnlyByOverlap

-----------------------------------------------------------------------------
(* Counting labels.                                                        *)

Example == [incident : LearnIncident, label : Label]
Places(s, l) == {i \in DOMAIN s : s[i].label = l}

LEMMA PlacesFinite ==
  ASSUME NEW s \in Seq(Example), NEW l
  PROVE  IsFiniteSet(Places(s, l)) /\ Cardinality(Places(s, l)) \in Nat
<1>1. Places(s, l) \subseteq 1..Len(s) /\ Len(s) \in Nat
  BY DEF Places
<1>2. IsFiniteSet(1..Len(s))
  BY <1>1, FS_Interval
<1>3. IsFiniteSet(Places(s, l))
  BY <1>1, <1>2, FS_Subset
<1> QED
  BY <1>3, FS_CardinalityType

LEMMA CountIs == ASSUME NEW s, NEW l PROVE Labelled(s, l) = Cardinality(Places(s, l))
BY DEF Labelled, Places

\* One more example.
LEMMA CountAppend ==
  ASSUME NEW s \in Seq(Example), NEW e \in Example, NEW l
  PROVE  Labelled(Append(s, e), l) = Labelled(s, l) + (IF e.label = l THEN 1 ELSE 0)
<1>1. Places(Append(s, e), l) =
        IF e.label = l THEN Places(s, l) \cup {Len(s) + 1} ELSE Places(s, l)
  BY DEF Places
<1>2. Len(s) + 1 \notin Places(s, l)
  BY DEF Places
<1>3. IsFiniteSet(Places(s, l)) /\ Cardinality(Places(s, l)) \in Nat
  BY PlacesFinite
<1>4. Cardinality(Places(s, l) \cup {Len(s) + 1}) = Cardinality(Places(s, l)) + 1
  BY <1>2, <1>3, FS_AddElement
<1>5. /\ Labelled(s, l) = Cardinality(Places(s, l))
      /\ Labelled(Append(s, e), l) = Cardinality(Places(Append(s, e), l))
  BY CountIs
<1>6. CASE e.label = l
  BY <1>1, <1>4, <1>5, <1>6
<1>7. CASE e.label # l
  BY <1>1, <1>3, <1>5, <1>7
<1> QED
  BY <1>6, <1>7

\* The oldest example forgotten.
LEMMA CountTail ==
  ASSUME NEW s \in Seq(Example), s # <<>>, NEW l
  PROVE  Labelled(Tail(s), l) = Labelled(s, l) - (IF s[1].label = l THEN 1 ELSE 0)
<1> DEFINE A == Places(Tail(s), l)
           B == Places(s, l) \ {1}
           f == [i \in A |-> i + 1]
<1>1. /\ Len(s) \in Nat /\ Len(s) > 0 /\ Tail(s) \in Seq(Example)
      /\ Len(Tail(s)) = Len(s) - 1
      /\ \A i \in 1..(Len(s) - 1) : Tail(s)[i] = s[i + 1]
  OBVIOUS
<1>2. A = {i \in 1..(Len(s) - 1) : s[i + 1].label = l}
  BY <1>1 DEF Places
<1>3. B = {i \in 2..Len(s) : s[i].label = l}
  BY <1>1 DEF Places
<1>4. f \in Bijection(A, B)
  <2>1. f \in [A -> B]
    BY <1>1, <1>2, <1>3
  <2>2. \A i, j \in A : f[i] = f[j] => i = j
    BY <1>1, <1>2
  <2>3. \A k \in B : \E i \in A : f[i] = k
    <3> TAKE k \in B
    <3>1. k - 1 \in A /\ f[k - 1] = k
      BY <1>1, <1>2, <1>3
    <3> QED
      BY <3>1
  <2> HIDE DEF A, B, f
  <2> QED
    BY <2>1, <2>2, <2>3 DEF Bijection, Injection, Surjection, IsInjective
<1>5. IsFiniteSet(A) /\ IsFiniteSet(Places(s, l)) /\ Cardinality(Places(s, l)) \in Nat
  BY <1>1, PlacesFinite
<1>6. Cardinality(A) = Cardinality(B)
  <2> HIDE DEF A, B, f
  <2>1. ExistsBijection(A, B)
    BY <1>4 DEF ExistsBijection
  <2> QED
    BY <1>5, <2>1, FS_Bijection
<1>7. 1 \in Places(s, l) <=> s[1].label = l
  BY <1>1 DEF Places
<1>8. Labelled(Tail(s), l) = Cardinality(A) /\ Labelled(s, l) = Cardinality(Places(s, l))
  BY CountIs
<1>9. Cardinality(B) = Cardinality(Places(s, l)) - (IF s[1].label = l THEN 1 ELSE 0)
  <2>1. Cardinality(B) = IF 1 \in Places(s, l) THEN Cardinality(Places(s, l)) - 1
                                               ELSE Cardinality(Places(s, l))
    BY <1>5, FS_RemoveElement
  <2> HIDE DEF B
  <2> QED
    BY <1>5, <1>7, <2>1
<1> HIDE DEF A, B, f
<1> QED
  BY <1>6, <1>8, <1>9

\* One example relabelled.
LEMMA CountRelabel ==
  ASSUME NEW s \in Seq(Example), NEW j \in DOMAIN s, s[j].label = "true_positive",
         NEW t, t = [s EXCEPT ![j].label = "false_positive"]
  PROVE  /\ t \in Seq(Example) /\ Len(t) = Len(s)
         /\ Labelled(t, "true_positive") = Labelled(s, "true_positive") - 1
         /\ Labelled(t, "false_positive") = Labelled(s, "false_positive") + 1
         /\ Labelled(s, "true_positive") > 0
<1>1. s[j] \in Example /\ [s[j] EXCEPT !.label = "false_positive"] \in Example
  <2>1. s[j] \in Example
    OBVIOUS
  <2> QED
    BY <2>1 DEF Example, Label
<1>2. /\ t \in Seq(Example) /\ Len(t) = Len(s) /\ DOMAIN t = DOMAIN s
      /\ \A i \in DOMAIN s : i # j => t[i] = s[i]
      /\ t[j].label = "false_positive"
  BY <1>1 DEF Example
<1>3. /\ Places(t, "true_positive") = Places(s, "true_positive") \ {j}
      /\ Places(t, "false_positive") = Places(s, "false_positive") \cup {j}
      /\ j \in Places(s, "true_positive") /\ j \notin Places(s, "false_positive")
  BY <1>2 DEF Places
<1>4. /\ IsFiniteSet(Places(s, "true_positive")) /\ IsFiniteSet(Places(s, "false_positive"))
      /\ Cardinality(Places(s, "true_positive")) \in Nat
      /\ Cardinality(Places(s, "false_positive")) \in Nat
  BY PlacesFinite
<1>5. Cardinality(Places(s, "true_positive")) # 0
  BY <1>3, <1>4, FS_EmptySet
<1>6. Cardinality(Places(t, "true_positive")) = Cardinality(Places(s, "true_positive")) - 1
  BY <1>3, <1>4, FS_RemoveElement
<1>7. Cardinality(Places(t, "false_positive")) = Cardinality(Places(s, "false_positive")) + 1
  BY <1>3, <1>4, FS_AddElement
<1> QED
  BY <1>2, <1>4, <1>5, <1>6, <1>7, CountIs

-----------------------------------------------------------------------------
(* The counters of the consumer.                                           *)

\* What is counted is every delivery, once, under its latest label.
Ledger ==
    /\ dataset \in Seq(Example) /\ Len(dataset) <= MaxDataset
    /\ forgotten \in [Label -> Nat]
    /\ ingests \in 0..MaxIngests /\ dismissals \in 0..MaxDismissals
    /\ sinceAuto \in 0..Interval
    /\ CountsMatchLabels
    /\ confirmed \in Nat /\ falsePositive \in Nat
    /\ confirmed + falsePositive = ingests

LEMMA CountNat ==
  ASSUME NEW s \in Seq(Example), NEW l
  PROVE  Labelled(s, l) \in Nat
BY PlacesFinite, CountIs

LEMMA LedgerInit == LearnInit => Ledger
<1> SUFFICES ASSUME LearnInit PROVE Ledger
  OBVIOUS
<1>1. \A l : Labelled(<<>>, l) = 0
  <2> TAKE l
  <2>1. Places(<<>>, l) = {}
    BY DEF Places
  <2> QED
    BY <2>1, CountIs, FS_EmptySet
<1> QED
  BY <1>1, LearningAssumption DEF LearnInit, Ledger, CountsMatchLabels, Label

\* An incident is counted, and the oldest example leaves a trace in forgotten.
LEMMA IngestLedger ==
  ASSUME Ledger, NEW i \in LearnIncident, NEW l \in Label, Ingest(i, l)
  PROVE  Ledger'
<1> DEFINE e == [incident |-> i, label |-> l]
           s == Append(dataset, e)
<1>1. /\ e \in Example /\ s \in Seq(Example) /\ Len(s) = Len(dataset) + 1 /\ s # <<>>
      /\ Len(dataset) \in Nat /\ MaxDataset \in Nat /\ MaxIngests \in Nat /\ Interval \in Nat
  <2>1. dataset \in Seq(Example) /\ e \in Example
    BY DEF Ledger, Example
  <2>2. MaxDataset \in Nat /\ MaxIngests \in Nat /\ Interval \in Nat
    BY LearningAssumption
  <2> HIDE DEF e
  <2> QED
    BY <2>1, <2>2
<1>2. \A k \in Label : Labelled(s, k) = Labelled(dataset, k) + (IF l = k THEN 1 ELSE 0)
                       /\ Labelled(dataset, k) \in Nat
  BY <1>1, CountAppend, CountNat DEF Ledger
<1>3. s[1].label \in Label
  <2>1. s[1] \in Example
    BY <1>1
  <2> QED
    BY <2>1 DEF Example
<1>4. /\ dataset' \in Seq(Example) /\ Len(dataset') <= MaxDataset
      /\ forgotten' \in [Label -> Nat]
      /\ \A k \in Label : Labelled(dataset', k) + forgotten'[k] = Labelled(s, k) + forgotten[k]
  <2>1. CASE Len(s) > MaxDataset
    <3>1. dataset' = Tail(s) /\ forgotten' = [forgotten EXCEPT ![s[1].label] = @ + 1]
      BY <2>1 DEF Ingest, Trimmed
    <3>2. Tail(s) \in Seq(Example) /\ Len(Tail(s)) = Len(s) - 1
      BY <1>1
    <3>3. Len(Tail(s)) <= MaxDataset
      BY <1>1, <3>2 DEF Ledger
    <3>4. \A k \in Label : Labelled(Tail(s), k) = Labelled(s, k) - (IF s[1].label = k THEN 1 ELSE 0)
      <4> HIDE DEF s
      <4> QED
        BY <1>1, CountTail
    <3>5. forgotten' \in [Label -> Nat]
      BY <1>3, <3>1 DEF Ledger
    <3>6. \A k \in Label : /\ forgotten[k] \in Nat
                           /\ forgotten'[k] = forgotten[k] + (IF s[1].label = k THEN 1 ELSE 0)
      BY <1>3, <3>1 DEF Ledger
    <3>7. \A k \in Label : Labelled(s, k) \in Nat
      BY <1>1, CountNat
    <3> HIDE DEF s
    <3> QED
      BY <3>1, <3>2, <3>3, <3>4, <3>5, <3>6, <3>7
  <2>2. CASE ~(Len(s) > MaxDataset)
    <3>1. dataset' = s /\ forgotten' = forgotten
      BY <2>2 DEF Ingest, Trimmed
    <3>2. Len(s) <= MaxDataset
      BY <1>1, <2>2
    <3> HIDE DEF s
    <3> QED
      BY <1>1, <3>1, <3>2 DEF Ledger
  <2> QED
    BY <2>1, <2>2
<1>5. /\ confirmed' = confirmed + (IF l = "true_positive" THEN 1 ELSE 0)
      /\ falsePositive' = falsePositive + (IF l = "false_positive" THEN 1 ELSE 0)
      /\ ingests' = ingests + 1 /\ ingests < MaxIngests
  BY DEF Ingest
<1>6. CountsMatchLabels'
  <2>1. "true_positive" \in Label /\ "false_positive" \in Label
    BY DEF Label
  <2>2. \A k \in Label : /\ Labelled(dataset', k) \in Nat /\ forgotten'[k] \in Nat
                         /\ forgotten[k] \in Nat /\ Labelled(s, k) \in Nat
    BY <1>1, <1>4, CountNat DEF Ledger
  <2>3. \A k \in Label : Labelled(dataset', k) + forgotten'[k]
                            = Labelled(dataset, k) + forgotten[k] + (IF l = k THEN 1 ELSE 0)
    <3> TAKE k \in Label
    <3>1. Labelled(dataset', k) + forgotten'[k] = Labelled(s, k) + forgotten[k]
      BY <1>4
    <3>2. Labelled(s, k) = Labelled(dataset, k) + (IF l = k THEN 1 ELSE 0) /\ Labelled(dataset, k) \in Nat
      BY <1>2
    <3> HIDE DEF s
    <3> QED
      BY <2>2, <3>1, <3>2
  <2>4. /\ confirmed = Labelled(dataset, "true_positive") + forgotten["true_positive"]
        /\ falsePositive = Labelled(dataset, "false_positive") + forgotten["false_positive"]
    BY DEF Ledger, CountsMatchLabels
  <2>5. confirmed' = Labelled(dataset', "true_positive") + forgotten'["true_positive"]
    BY <1>5, <2>1, <2>3, <2>4
  <2>6. falsePositive' = Labelled(dataset', "false_positive") + forgotten'["false_positive"]
    BY <1>5, <2>1, <2>3, <2>4
  <2> QED
    BY <2>5, <2>6 DEF CountsMatchLabels, Labelled
<1>7. /\ confirmed' \in Nat /\ falsePositive' \in Nat
      /\ confirmed' + falsePositive' = ingests' /\ ingests' \in 0..MaxIngests
  BY <1>1, <1>5 DEF Ledger, Label
<1>8. sinceAuto' \in 0..Interval /\ dismissals' = dismissals
  BY <1>1 DEF Ingest, Ledger
<1> QED
  BY <1>4, <1>6, <1>7, <1>8 DEF Ledger

\* A dismissal moves one example from one counter to the other, or does nothing.
LEMMA DismissLedger ==
  ASSUME Ledger, NEW i \in LearnIncident, Dismiss(i)
  PROVE  Ledger'
<1>0. MaxDismissals \in Nat /\ dismissals' \in 0..MaxDismissals
      /\ UNCHANGED <<sinceAuto, ingests, forgotten>>
  <2>1. MaxDismissals \in Nat
    BY LearningAssumption
  <2>2. dismissals \in 0..MaxDismissals /\ dismissals < MaxDismissals /\ dismissals' = dismissals + 1
    BY DEF Dismiss, Ledger
  <2>3. UNCHANGED <<sinceAuto, ingests, forgotten>>
    BY DEF Dismiss
  <2> QED
    BY <2>1, <2>2, <2>3
<1>1. CASE UNCHANGED <<dataset, confirmed, falsePositive>>
  BY <1>0, <1>1 DEF Ledger, CountsMatchLabels, Labelled
<1>2. CASE \E j \in LatestOf(i) : Relabelled(j)
  <2>1. PICK j \in LatestOf(i) : dataset' = [dataset EXCEPT ![j].label = "false_positive"]
    BY <1>2 DEF Dismiss
  <2>2. j \in DOMAIN dataset /\ dataset[j].label = "true_positive"
    <3>1. PICK k \in LatestOf(i) : Relabelled(k)
      BY <1>2
    <3>2. j \in DOMAIN dataset /\ k \in DOMAIN dataset /\ j <= k /\ k <= j
      BY DEF LatestOf
    <3>3. DOMAIN dataset = 1..Len(dataset) /\ Len(dataset) \in Nat
      BY DEF Ledger
    <3>4. j = k
      BY <3>2, <3>3
    <3> QED
      BY <3>1, <3>2, <3>4 DEF Relabelled
  <2>3. /\ dataset' \in Seq(Example) /\ Len(dataset') = Len(dataset)
        /\ Labelled(dataset', "true_positive") = Labelled(dataset, "true_positive") - 1
        /\ Labelled(dataset', "false_positive") = Labelled(dataset, "false_positive") + 1
        /\ Labelled(dataset, "true_positive") > 0
    BY <2>1, <2>2, CountRelabel DEF Ledger
  <2>4. confirmed' = confirmed - 1 /\ falsePositive' = falsePositive + 1
    BY <1>2 DEF Dismiss
  <2>5. /\ Labelled(dataset, "true_positive") \in Nat /\ Labelled(dataset, "false_positive") \in Nat
        /\ forgotten["true_positive"] \in Nat /\ forgotten["false_positive"] \in Nat
    BY CountNat DEF Ledger, Label
  <2>6. /\ confirmed' = Labelled(dataset', "true_positive") + forgotten["true_positive"]
        /\ falsePositive' = Labelled(dataset', "false_positive") + forgotten["false_positive"]
    <3>1. /\ confirmed = Labelled(dataset, "true_positive") + forgotten["true_positive"]
          /\ falsePositive = Labelled(dataset, "false_positive") + forgotten["false_positive"]
      BY DEF Ledger, CountsMatchLabels
    <3>2. \A c, f \in Nat : (c + f) - 1 = (c - 1) + f /\ (c + f) + 1 = (c + 1) + f
      OBVIOUS
    <3>3. confirmed' = (Labelled(dataset, "true_positive") - 1) + forgotten["true_positive"]
      BY <2>4, <2>5, <3>1, <3>2
    <3>4. falsePositive' = (Labelled(dataset, "false_positive") + 1) + forgotten["false_positive"]
      BY <2>4, <2>5, <3>1, <3>2
    <3> QED
      BY <2>3, <3>3, <3>4
  <2>7. CountsMatchLabels'
    BY <1>0, <2>6 DEF CountsMatchLabels, Labelled
  <2>8. confirmed > 0
    <3>1. confirmed = Labelled(dataset, "true_positive") + forgotten["true_positive"]
      BY DEF Ledger, CountsMatchLabels
    <3> QED
      BY <2>3, <2>5, <3>1
  <2>9. confirmed' \in Nat /\ falsePositive' \in Nat /\ confirmed' + falsePositive' = ingests
    BY <2>4, <2>8 DEF Ledger
  <2> QED
    BY <1>0, <2>3, <2>7, <2>9 DEF Ledger
<1> QED
  BY <1>1, <1>2 DEF Dismiss

LEMMA LedgerStep == Ledger /\ [LearnNext]_learnVars => Ledger'
<1> SUFFICES ASSUME Ledger, [LearnNext]_learnVars PROVE Ledger'
  OBVIOUS
<1>1. ASSUME NEW i \in LearnIncident, NEW l \in Label, Ingest(i, l) PROVE Ledger'
  BY <1>1, IngestLedger
<1>2. ASSUME NEW i \in LearnIncident, Dismiss(i) PROVE Ledger'
  BY <1>2, DismissLedger
<1>3. CASE UNCHANGED <<dataVars, sinceAuto>>
  BY <1>3 DEF dataVars, Ledger, CountsMatchLabels, Labelled
<1>4. CASE LearnTick
  <2>1. sinceAuto' \in 0..Interval /\ UNCHANGED dataVars
    BY <1>4, LearningAssumption DEF LearnTick, Ledger
  <2> QED
    BY <2>1 DEF dataVars, Ledger, CountsMatchLabels, Labelled
<1>5. ASSUME NEW r \in Run, RunStep(r) PROVE UNCHANGED <<dataVars, sinceAuto>>
  BY <1>5 DEF RunStep, Check, TakeSnapshot, Skip, CvFails, Serve, CompareF1, Reject, Accept, Recommend
<1>6. CASE Retrain
  BY <1>3, <1>6 DEF Retrain
<1>7. CASE UNCHANGED learnVars
  BY <1>3, <1>7 DEF learnVars
<1> QED
  BY <1>1, <1>2, <1>3, <1>4, <1>5, <1>6, <1>7 DEF LearnNext
-----------------------------------------------------------------------------
(* How often a model can have been measured.                               *)

\* The runs that are done with model m, or have just replaced its metrics.
Accepted(m) == {q \in Run : Past(q, m) \/ (runs[q].pc = "recommending" /\ Current(q) = m)}

\* The count of a model's metrics, on record or read by a run, is at most the
\* number of those runs.
Measured ==
    /\ \A m \in Model : metrics[m].count <= Cardinality(Accepted(m))
    /\ \A r \in Run : runs[r].pc = "accepting"
                          => runs[r].old.count <= Cardinality(Accepted(Current(r)))
    /\ \A r \in Run : runs[r].old.count <= MaxRuns
    /\ rejected \subseteq Model \X Run /\ overlapped \subseteq Model

LEMMA RunsFinite ==
  ASSUME NEW S, S \subseteq Run
  PROVE  /\ IsFiniteSet(S) /\ Cardinality(S) \in Nat /\ Cardinality(S) <= MaxRuns
         /\ \A T \in SUBSET S : IsFiniteSet(T) /\ Cardinality(T) <= Cardinality(S)
<1>1. MaxRuns \in Nat
  BY LearningAssumption
<1>2. IsFiniteSet(Run) /\ Cardinality(Run) = MaxRuns
  <2>1. IsFiniteSet(1..MaxRuns) /\ Cardinality(1..MaxRuns) =
          IF 1 > MaxRuns THEN 0 ELSE MaxRuns - 1 + 1
    BY <1>1, FS_Interval
  <2> QED
    BY <1>1, <2>1 DEF Run
<1>3. IsFiniteSet(S) /\ Cardinality(S) <= Cardinality(Run)
  BY <1>2, FS_Subset
<1> QED
  BY <1>2, <1>3, FS_Subset, FS_CardinalityType

\* What a step does to a run: nothing, a change at the same model, or the next one.
LEMMA StepShape ==
  ASSUME IInv, [LearnNext]_learnVars, NEW q \in Run
  PROVE  \/ runs'[q] = runs[q]
         \/ /\ runs'[q].at = runs[q].at /\ runs[q].pc # "recommending"
            /\ runs'[q].pc # "accepting" /\ runs'[q].old = runs[q].old
         \/ CompareF1(q)
         \/ runs[q].pc \in Working /\ NextModel(q)
<1> USE DEF IInv, RunType, RunState
<1>1. CASE UNCHANGED runs
  BY <1>1
<1>2. CASE StartRun
  <2>1. PICK r \in Run : runs[r].pc = "none" /\ runs' = [runs EXCEPT ![r].pc = "checking"]
    <3>1. \A r \in Run : r >= r
      BY LearningAssumption DEF Run
    <3> QED
      BY <1>2, <3>1 DEF StartRun
  <2> QED
    BY <2>1
<1>3. ASSUME NEW r \in Run, RunStep(r)
      PROVE  \/ runs'[q] = runs[q]
             \/ /\ runs'[q].at = runs[q].at /\ runs[q].pc # "recommending"
                /\ runs'[q].pc # "accepting" /\ runs'[q].old = runs[q].old
             \/ CompareF1(q)
             \/ runs[q].pc \in Working /\ NextModel(q)
  <2>1. CASE Skip(r) \/ CvFails(r) \/ Reject(r) \/ Recommend(r)
    <3>1. runs[r].pc \in Working /\ NextModel(r)
      BY <2>1 DEF Skip, CvFails, Reject, AfterReject, Recommend, At, Working
    <3>2. q # r => runs'[q] = runs[q]
      BY <3>1 DEF NextModel
    <3> QED
      BY <3>1, <3>2
  <2>2. CASE CompareF1(r)
    <3>1. q # r => runs'[q] = runs[q]
      BY <2>2 DEF CompareF1
    <3> QED
      BY <2>2, <3>1
  <2>3. CASE Check(r) \/ TakeSnapshot(r)
    <3>1. /\ runs[r].pc # "recommending"
          /\ \E pc \in {"snapshot", "fitting", "done"} : runs' = [runs EXCEPT ![r].pc = pc]
      BY <2>3 DEF Check, TakeSnapshot, GoTo, At
    <3> QED
      BY <3>1
  <2>4. CASE Accept(r)
    <3>1. runs[r].pc # "recommending" /\ runs' = [runs EXCEPT ![r].pc = "recommending"]
      BY <2>4 DEF Accept, GoTo, At
    <3> QED
      BY <3>1
  <2>5. CASE \E f1 \in Score : Serve(r, f1)
    <3>1. PICK f1 \in Score : runs' = [runs EXCEPT ![r].pc = "comparing", ![r].f1 = f1]
      BY <2>5 DEF Serve
    <3>2. runs[r].pc # "recommending"
      BY <2>5 DEF Serve, At
    <3> QED
      BY <3>1, <3>2
  <2> QED
    BY <1>3, <2>1, <2>2, <2>3, <2>4, <2>5 DEF RunStep
<1>4. (\E i \in LearnIncident, l \in Label : Ingest(i, l)) => StartRun \/ UNCHANGED runs
  BY DEF Ingest
<1>5. (\E i \in LearnIncident : Dismiss(i)) \/ LearnTick \/ UNCHANGED learnVars => UNCHANGED runs
  BY DEF Dismiss, LearnTick, learnVars
<1>6. Retrain => StartRun
  BY DEF Retrain
<1> QED
  BY <1>1, <1>2, <1>3, <1>4, <1>5, <1>6 DEF LearnNext

LEMMA AcceptedGrows ==
  ASSUME IInv, [LearnNext]_learnVars, NEW m \in Model
  PROVE  Accepted(m) \subseteq Accepted(m)'
<1> SUFFICES ASSUME NEW q \in Accepted(m) PROVE q \in Accepted(m)'
  OBVIOUS
<1>1. q \in Run /\ (Past(q, m) \/ (runs[q].pc = "recommending" /\ Current(q) = m))
  BY DEF Accepted
<1>2. CASE runs'[q] = runs[q]
  BY <1>1, <1>2 DEF Accepted, Past, Current
<1>3. CASE runs'[q].at = runs[q].at /\ runs[q].pc # "recommending"
  BY <1>1, <1>3 DEF Accepted, Past
<1>4. CASE CompareF1(q)
  <2>1. runs'[q].at = runs[q].at /\ runs[q].pc # "recommending"
    BY <1>1, <1>4 DEF CompareF1, At, IInv, RunType, RunState
  <2> QED
    BY <1>3, <2>1
<1>5. CASE runs[q].pc \in Working /\ NextModel(q)
  <2>1. Past(q, m) \/ m = Current(q) => Past(q, m)'
    BY <1>1, <1>5, AfterNextModel
  <2> QED
    BY <1>1, <2>1 DEF Accepted
<1> QED
  BY <1>1, <1>2, <1>3, <1>4, <1>5, StepShape

LEMMA MeasuredInit == LearnInit => Measured
<1> SUFFICES ASSUME LearnInit PROVE Measured
  OBVIOUS
<1>1. \A m : Cardinality(Accepted(m)) \in Nat
  BY RunsFinite DEF Accepted
<1>2. \A m \in Model : metrics[m].count = 0
  BY DEF LearnInit, IdleRun
<1>3. \A r \in Run : runs[r].pc = "none" /\ runs[r].old.count = 0
  BY DEF LearnInit, IdleRun
<1>4. rejected = {} /\ overlapped = {} /\ MaxRuns \in Nat
  BY LearningAssumption DEF LearnInit
<1> QED
  BY <1>1, <1>2, <1>3, <1>4 DEF Measured

LEMMA MeasuredStep ==
  ASSUME IInv, Measured, [LearnNext]_learnVars
  PROVE  Measured'
<1>1. \A m \in Model : /\ Cardinality(Accepted(m)) \in Nat /\ Cardinality(Accepted(m)') \in Nat
                       /\ Cardinality(Accepted(m)) <= Cardinality(Accepted(m)')
                       /\ Cardinality(Accepted(m)) <= MaxRuns
  <2> TAKE m \in Model
  <2>1. Accepted(m) \subseteq Run /\ Accepted(m)' \subseteq Run
    BY DEF Accepted
  <2>2. Accepted(m) \subseteq Accepted(m)'
    BY AcceptedGrows
  <2> QED
    BY <2>1, <2>2, RunsFinite
<1>2. \A m \in Model : metrics[m].count \in Nat
  BY DEF IInv, RunType, Measure
<1>3. MaxRuns \in Nat
  BY LearningAssumption
<1>4. \A m \in Model : metrics[m].count <= Cardinality(Accepted(m)) /\ metrics[m].count <= MaxRuns
  BY <1>1, <1>2, <1>3 DEF Measured
<1>5. \A m \in Model : metrics'[m].count <= Cardinality(Accepted(m)')
  <2>1. CASE \E r \in Run : Accept(r)
    <3>1. PICK r \in Run : Accept(r)
      BY <2>1
    <3>2. /\ runs[r].pc = "accepting" /\ Current(r) \in Model /\ ~Past(r, Current(r))
      BY <3>1, AtModel DEF Accept, At, Working
    <3>0. PICK c \in Model : c = Current(r)
      BY <3>2
    <3>3. /\ metrics'[c].count = runs[r].old.count + 1
          /\ \A m \in Model \ {c} : metrics'[m] = metrics[m]
      <4>1. metrics' = [metrics EXCEPT ![c] = NewMetric(r)] /\ NewMetric(r).count = runs[r].old.count + 1
        BY <3>0, <3>1 DEF Accept, NewMetric
      <4>2. c \in Model /\ DOMAIN metrics = Model
        BY <3>0 DEF IInv, RunType
      <4> QED
        BY <4>1, <4>2
    <3>4. r \notin Accepted(c)
      BY <3>0, <3>2 DEF Accepted
    <3>5. r \in Accepted(c)'
      <4>1. runs'[r].pc = "recommending" /\ runs'[r].at = runs[r].at
        BY <3>1 DEF Accept, GoTo, IInv, RunType, RunState
      <4> QED
        BY <3>0, <4>1 DEF Accepted, Current
    <3>6. Accepted(c) \cup {r} \subseteq Accepted(c)' /\ Accepted(c)' \subseteq Run
      BY <3>5, AcceptedGrows DEF Accepted
    <3>7. /\ IsFiniteSet(Accepted(c))
          /\ Cardinality(Accepted(c) \cup {r}) <= Cardinality(Accepted(c)')
      <4>1. Accepted(c) \subseteq Run
        BY DEF Accepted
      <4> QED
        BY <3>6, <4>1, RunsFinite
    <3>8. Cardinality(Accepted(c) \cup {r}) = Cardinality(Accepted(c)) + 1
      BY <3>4, <3>7, FS_AddElement
    <3>9. runs[r].old.count <= Cardinality(Accepted(c)) /\ runs[r].old.count \in Nat
      BY <3>0, <3>2 DEF Measured, IInv, RunType, RunState, Measure
    <3>10. metrics'[c].count <= Cardinality(Accepted(c)')
      BY <1>1, <3>3, <3>7, <3>8, <3>9
    <3>11. \A m \in Model \ {c} : metrics'[m].count <= Cardinality(Accepted(m)')
      <4> TAKE m \in Model \ {c}
      <4>1. metrics'[m].count = metrics[m].count /\ metrics[m].count \in Nat
        BY <1>2, <3>3
      <4>2. /\ metrics[m].count <= Cardinality(Accepted(m))
            /\ Cardinality(Accepted(m)) <= Cardinality(Accepted(m)')
            /\ Cardinality(Accepted(m)) \in Nat /\ Cardinality(Accepted(m)') \in Nat
        BY <1>1, <1>4
      <4> QED
        BY <4>1, <4>2
    <3> QED
      BY <3>10, <3>11
  <2>2. CASE ~\E r \in Run : Accept(r)
    <3>1. metrics' = metrics
      BY <2>2 DEF LearnNext, Ingest, Dismiss, Retrain, LearnTick, RunStep, Check, TakeSnapshot, Skip, CvFails,
                  Serve, CompareF1, Reject, Recommend, modelVars, learnVars
    <3> QED
      BY <1>1, <1>2, <1>4, <3>1
  <2> QED
    BY <2>1, <2>2
<1>6. ASSUME NEW q \in Run
      PROVE  /\ runs'[q].old.count <= MaxRuns
             /\ runs'[q].pc = "accepting"
                    => runs'[q].old.count <= Cardinality(Accepted(Current(q))')
  <2>1. /\ runs[q].old.count <= MaxRuns /\ runs[q].old.count \in Nat
        /\ runs[q].pc = "accepting" =>
              runs[q].old.count <= Cardinality(Accepted(Current(q))) /\ Current(q) \in Model
    BY AtModel DEF Measured, IInv, RunType, RunState, Measure, Working
  <2>2. CASE runs'[q] = runs[q]
    <3>1. Current(q)' = Current(q)
      BY <2>2 DEF Current
    <3> QED
      BY <1>1, <2>1, <2>2, <3>1
  <2>3. CASE runs'[q].pc # "accepting" /\ runs'[q].old = runs[q].old
    BY <2>1, <2>3
  <2>4. CASE CompareF1(q)
    <3>1. /\ runs'[q].at = runs[q].at /\ runs'[q].old = metrics[Current(q)]
          /\ Current(q) \in Model
      BY <2>4, AtModel DEF CompareF1, At, IInv, RunType, RunState, Working
    <3>2. Current(q)' = Current(q)
      BY <3>1 DEF Current
    <3> QED
      BY <1>1, <1>2, <1>4, <3>1, <3>2
  <2>5. CASE NextModel(q)
    <3>1. runs'[q].old.count = 0 /\ runs'[q].pc # "accepting"
      BY <2>5 DEF NextModel, IdleRun, IInv, RunType
    <3> QED
      BY <1>3, <3>1
  <2> QED
    BY <2>2, <2>3, <2>4, <2>5, StepShape
<1>7. rejected' \subseteq Model \X Run /\ overlapped' \subseteq Model
  <2>1. ASSUME NEW r \in Run, Reject(r)
        PROVE  rejected' \subseteq Model \X Run /\ overlapped' \subseteq Model
    <3>1. Current(r) \in Model
      BY <2>1, AtModel DEF Reject, At, Working
    <3> QED
      BY <2>1, <3>1 DEF Reject, Measured
  <2>2. ASSUME NEW r \in Run, NEW f1 \in Score, Serve(r, f1)
        PROVE  rejected' \subseteq Model \X Run /\ overlapped' \subseteq Model
    <3>1. Current(r) \in Model
      BY <2>2, AtModel DEF Serve, At, Working
    <3> QED
      BY <2>2, <3>1 DEF Serve, Measured
  <2>3. \/ \E r \in Run : Reject(r)
        \/ \E r \in Run, f1 \in Score : Serve(r, f1)
        \/ UNCHANGED <<rejected, overlapped>>
    BY DEF LearnNext, Ingest, Dismiss, Retrain, LearnTick, RunStep, Check, TakeSnapshot, Skip, CvFails,
           CompareF1, Accept, Recommend, modelVars, learnVars
  <2> QED
    BY <2>1, <2>2, <2>3 DEF Measured
<1> QED
  BY <1>5, <1>6, <1>7 DEF Measured

LEMMA CountersInvariance == LearnSpec => [](Ledger /\ Measured)
BY LedgerInit, LedgerStep, MeasuredInit, MeasuredStep, LearningInvariance, PTL DEF LearnSpec

\* The learning agent's state keeps its shape: the dataset and its bound, the
\* counters of the consumer and of the metrics.
THEOREM LearningTypeCorrect == LearnSpec => []LearnTypeOK
<1>1. IInv /\ Ledger /\ Measured => LearnTypeOK
  <2> SUFFICES ASSUME IInv, Ledger, Measured PROVE LearnTypeOK
    OBVIOUS
  <2>1. MaxIngests \in Nat /\ MaxRuns \in Nat
    BY LearningAssumption
  <2>2. dataset \in Seq([incident : LearnIncident, label : Label]) /\ Len(dataset) <= MaxDataset
    BY DEF Ledger, Example
  <2>3. confirmed \in 0..MaxIngests /\ falsePositive \in 0..MaxIngests
    BY <2>1 DEF Ledger
  <2>4. forgotten \in [Label -> 0..MaxIngests]
    <3>1. /\ forgotten["true_positive"] \in Nat /\ forgotten["false_positive"] \in Nat
          /\ Labelled(dataset, "true_positive") \in Nat /\ Labelled(dataset, "false_positive") \in Nat
      BY CountNat DEF Ledger, Label
    <3>2. /\ confirmed = Labelled(dataset, "true_positive") + forgotten["true_positive"]
          /\ falsePositive = Labelled(dataset, "false_positive") + forgotten["false_positive"]
      BY DEF Ledger, CountsMatchLabels
    <3>3. /\ forgotten["true_positive"] \in 0..MaxIngests
          /\ forgotten["false_positive"] \in 0..MaxIngests
      BY <2>1, <2>3, <3>1, <3>2
    <3> QED
      BY <3>3 DEF Ledger, Label
  <2>5. ASSUME NEW x \in Measure, x.count <= MaxRuns PROVE x \in Metric
    BY <2>1, <2>5 DEF Measure, Metric
  <2>6. metrics \in [Model -> Metric]
    <3>1. \A m \in Model : metrics[m] \in Measure /\ metrics[m].count <= MaxRuns
      <4> TAKE m \in Model
      <4>1. metrics[m] \in Measure /\ metrics[m].count \in Nat
        BY DEF IInv, RunType, Measure
      <4>2. Cardinality(Accepted(m)) <= MaxRuns /\ Cardinality(Accepted(m)) \in Nat
        BY RunsFinite DEF Accepted
      <4>3. metrics[m].count <= Cardinality(Accepted(m))
        BY DEF Measured
      <4> QED
        BY <2>1, <4>1, <4>2, <4>3
    <3> QED
      BY <2>5, <3>1 DEF IInv, RunType
  <2>7. runs \in [Run -> [pc : {"none", "checking", "snapshot", "fitting", "comparing",
                                "accepting", "recommending", "done"},
                          at : 1..(Len(Models) + 1), f1 : Score \cup {NoScore}, old : Metric]]
    <3>1. \A r \in Run : runs[r].old \in Metric
      BY <2>5 DEF IInv, RunType, RunState, Measured
    <3> QED
      BY <3>1 DEF IInv, RunType, RunState, Working
  <2> QED
    BY <2>2, <2>3, <2>4, <2>6, <2>7 DEF LearnTypeOK, IInv, RunType, Ledger, Measured
<1> QED
  BY <1>1, LearningInvariance, CountersInvariance, PTL

\* The counters behind /metrics agree with the labels of the dataset and of what
\* was trimmed from it (_ingest_incident, _handle_dismiss).
THEOREM CountersAgree == LearnSpec => []CountsMatchLabels
<1>1. Ledger => CountsMatchLabels
  BY DEF Ledger
<1> QED
  BY <1>1, CountersInvariance, PTL
=============================================================================
