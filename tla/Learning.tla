------------------------------ MODULE Learning ------------------------------
(***************************************************************************)
(* The learning agent of HQ.                                               *)
(*                                                                         *)
(* Its consumer thread turns incidents into labelled examples and relabels *)
(* them when an operator dismisses an incident.  Every so many confirmed   *)
(* incidents it starts a thread that retrains the models of the detection  *)
(* agents; operators start such threads too (POST /retrain), and so does a *)
(* scheduler.  Nothing keeps two of these runs apart: they share the       *)
(* dataset, the served models, their metrics and the recommendations.      *)
(*                                                                         *)
(* Incidents and dismissals come on two topics, in no common order, and    *)
(* hq.incidents may deliver an incident twice.  Features are left out: of  *)
(* a training only its F1 score matters, on a small scale.                 *)
(***************************************************************************)
EXTENDS Naturals, Integers, Sequences, FiniteSets

CONSTANTS
    LearnIncident,  \* the incidents it may be told of
    Models,         \* the sequence of model names _run_retraining goes through
    ModelOf,        \* AGENT_MODEL_MAP, by the incident's alert type
    Score,          \* F1 scores
    NoScore,        \* "not_yet_computed"
    Drift,          \* the loss of F1 that rejects a new model
    MinExamples,    \* MIN_EXAMPLES
    MinClass,       \* examples that cross-validation needs of each class
    RecentExamples, \* how many examples the poisoning check looks at
    MaxDataset,     \* examples kept, 5000
    EveryN,         \* RETRAIN_EVERY_N
    Interval,       \* MIN_RETRAIN_INTERVAL, in ticks
    RecFps,         \* false positives that change a threshold
    MaxIngests,     \* bound: incidents delivered
    MaxDismissals,  \* bound: dismissals by operators
    MaxRuns         \* bound: retraining threads

Run   == 1..MaxRuns
Model == {Models[i] : i \in DOMAIN Models}

ASSUME LearningAssumption ==
    /\ Models \in Seq(Model) /\ Len(Models) > 0
    /\ \A i, j \in DOMAIN Models : Models[i] = Models[j] => i = j
    /\ ModelOf \in [LearnIncident -> Model]
    /\ Score \subseteq Nat /\ NoScore \notin Nat
    /\ {Drift, MinExamples, MinClass, RecentExamples, MaxDataset, EveryN, Interval, RecFps,
        MaxIngests, MaxDismissals, MaxRuns} \subseteq Nat
    /\ MinExamples > 0 /\ MinClass > 0 /\ RecentExamples > 0 /\ MaxDataset > 0 /\ EveryN > 0

VARIABLES
    dataset,        \* _dataset: examples [incident, label]
    confirmed,      \* _confirmed_count
    falsePositive,  \* _false_positive_count
    sinceAuto,      \* ticks since _last_retrain_time
    runs,           \* runs[r]: the retraining thread r
    models,         \* _models: the run that trained the served model, 0 for none
    metrics,        \* _agent_metrics
    thresholds,     \* the run behind the latest recommendation published, or 0
    \* bounds and history
    ingests, dismissals,
    forgotten,      \* labels of the examples trimmed from the dataset
    rejected,       \* <<model, run>>: a new model that the drift check rejected
    overlapped      \* models that two runs were updating at the same time

dataVars  == <<dataset, confirmed, falsePositive, ingests, dismissals, forgotten>>
modelVars == <<models, metrics, thresholds, rejected, overlapped>>
learnVars == <<dataVars, sinceAuto, runs, modelVars>>

Label  == {"true_positive", "false_positive"}
Metric == [f1 : Score \cup {NoScore}, count : 0..MaxRuns, of : 0..MaxRuns]
IdleRun == [pc |-> "none", at |-> 1, f1 |-> NoScore,
            old |-> [f1 |-> NoScore, count |-> 0, of |-> 0]]

Labelled(s, label) == Cardinality({i \in DOMAIN s : s[i].label = label})

\* The type invariant.
LearnTypeOK ==
    /\ dataset \in Seq([incident : LearnIncident, label : Label])
    /\ Len(dataset) <= MaxDataset
    /\ confirmed \in 0..MaxIngests /\ falsePositive \in 0..MaxIngests
    /\ sinceAuto \in 0..Interval
    /\ runs \in [Run -> [pc : {"none", "checking", "snapshot", "fitting", "comparing",
                               "accepting", "recommending", "done"},
                         at : 1..(Len(Models) + 1), f1 : Score \cup {NoScore}, old : Metric]]
    /\ models \in [Model -> 0..MaxRuns]
    /\ metrics \in [Model -> Metric]
    /\ thresholds \in [Model -> 0..MaxRuns]
    /\ ingests \in 0..MaxIngests /\ dismissals \in 0..MaxDismissals
    /\ forgotten \in [Label -> 0..MaxIngests]
    /\ rejected \subseteq Model \X Run /\ overlapped \subseteq Model

LearnInit ==
    /\ dataset = <<>> /\ confirmed = 0 /\ falsePositive = 0
    /\ sinceAuto = Interval
    /\ runs = [r \in Run |-> IdleRun]
    /\ models = [m \in Model |-> 0]
    /\ metrics = [m \in Model |-> IdleRun.old]
    /\ thresholds = [m \in Model |-> 0]
    /\ ingests = 0 /\ dismissals = 0
    /\ forgotten = [l \in Label |-> 0]
    /\ rejected = {} /\ overlapped = {}

-----------------------------------------------------------------------------
(* The consumer thread.                                                    *)

\* A new thread takes the next number.
StartRun ==
    \E r \in Run :
        /\ \A q \in Run : runs[q].pc = "none" <=> q >= r
        /\ runs' = [runs EXCEPT ![r].pc = "checking"]

NoRunLeft == \A r \in Run : runs[r].pc # "none"

\* Keeps the last MaxDataset examples.
Trimmed_Late(s) == IF Len(s) > MaxDataset + 1 THEN Tail(s) ELSE s
Trimmed(s) == IF Len(s) > MaxDataset THEN Tail(s) ELSE s

\* _ingest_incident; a run that would pass the bound is not started.  The label
\* comes from the incident's status and, for HIGH and CRITICAL ones, from a random
\* number.
Ingest(i, label) ==
    /\ ingests < MaxIngests
    /\ ingests' = ingests + 1
    /\ LET s == Append(dataset, [incident |-> i, label |-> label])
       IN  /\ dataset' = Trimmed(s)
           /\ forgotten' = IF Len(s) > MaxDataset
                           THEN [forgotten EXCEPT ![s[1].label] = @ + 1] ELSE forgotten
    /\ confirmed' = confirmed + (IF label = "true_positive" THEN 1 ELSE 0)
    /\ falsePositive' = falsePositive + (IF label = "false_positive" THEN 1 ELSE 0)
    /\ IF confirmed' > 0 /\ confirmed' % EveryN = 0 /\ sinceAuto >= Interval /\ ~NoRunLeft
       THEN sinceAuto' = 0 /\ StartRun
       ELSE UNCHANGED <<sinceAuto, runs>>
    /\ UNCHANGED <<dismissals, modelVars>>

\* _handle_dismiss: the latest example of the incident, if there is one.
LatestOf(i) ==
    LET at == {j \in DOMAIN dataset : dataset[j].incident = i}
    IN  {j \in at : \A k \in at : k <= j}

Relabelled_Always(j) == TRUE
Relabelled(j) == dataset[j].label = "true_positive"

Dismiss(i) ==
    /\ dismissals < MaxDismissals
    /\ dismissals' = dismissals + 1
    /\ IF \E j \in LatestOf(i) : Relabelled(j)
       THEN /\ \E j \in LatestOf(i) :
                  dataset' = [dataset EXCEPT ![j].label = "false_positive"]
            /\ confirmed' = confirmed - 1
            /\ falsePositive' = falsePositive + 1
       ELSE UNCHANGED <<dataset, confirmed, falsePositive>>
    /\ UNCHANGED <<sinceAuto, runs, modelVars, ingests, forgotten>>

\* POST /retrain, or the daily schedule.
Retrain ==
    /\ StartRun
    /\ UNCHANGED <<dataVars, sinceAuto, modelVars>>

LearnTick ==
    /\ sinceAuto < Interval
    /\ sinceAuto' = sinceAuto + 1
    /\ UNCHANGED <<dataVars, runs, modelVars>>

-----------------------------------------------------------------------------
(* _run_retraining, one thread per run.                                    *)

At(r, pc) == runs[r].pc = pc
Current(r) == Models[runs[r].at]
GoTo(r, pc) == runs' = [runs EXCEPT ![r].pc = pc]

\* On to the next model, or to the end.
AfterReject_FallsThrough(r) == GoTo(r, "accepting")

NextModel(r) ==
    runs' = [runs EXCEPT ![r] =
                [IdleRun EXCEPT !.pc = IF runs[r].at < Len(Models) THEN "snapshot" ELSE "done",
                                !.at = runs[r].at + 1]]

LastExamples ==
    IF Len(dataset) <= RecentExamples THEN dataset
    ELSE SubSeq(dataset, Len(dataset) - RecentExamples + 1, Len(dataset))

\* More than half of the recent examples are false positives.
Poisoned == 2 * Labelled(LastExamples, "false_positive") > Len(LastExamples)

Check(r) ==
    /\ At(r, "checking")
    /\ GoTo(r, IF Len(dataset) < MinExamples \/ Poisoned THEN "done" ELSE "snapshot")
    /\ UNCHANGED <<dataVars, sinceAuto, modelVars>>

Relevant(m) == SelectSeq(dataset, LAMBDA e : ModelOf[e.incident] = m)

Trainable(m) ==
    LET s == Relevant(m)
    IN  /\ Len(s) >= MinExamples
        /\ \A l \in Label : Labelled(s, l) >= MinClass

\* The examples and labels are read; training takes its time from here.
TakeSnapshot(r) ==
    /\ At(r, "snapshot")
    /\ Trainable(Current(r))
    /\ GoTo(r, "fitting")
    /\ UNCHANGED <<dataVars, sinceAuto, modelVars>>

\* Too few examples or one class only.
Skip(r) ==
    /\ At(r, "snapshot")
    /\ ~Trainable(Current(r))
    /\ NextModel(r)
    /\ UNCHANGED <<dataVars, sinceAuto, modelVars>>

\* Cross-validation of every candidate raised.
CvFails(r) ==
    /\ At(r, "fitting")
    /\ NextModel(r)
    /\ UNCHANGED <<dataVars, sinceAuto, modelVars>>

\* Between serving its model for m and deciding on its metrics.
Updating(q, m) == runs[q].pc \in {"comparing", "accepting"} /\ Current(q) = m

\* The new model is served from here on.
Serve(r, f1) ==
    /\ At(r, "fitting")
    /\ models' = [models EXCEPT ![Current(r)] = r]
    /\ overlapped' = IF \E q \in Run : Updating(q, Current(r))
                     THEN overlapped \cup {Current(r)} ELSE overlapped
    /\ runs' = [runs EXCEPT ![r].pc = "comparing", ![r].f1 = f1]
    /\ UNCHANGED <<dataVars, sinceAuto, metrics, thresholds, rejected>>

Drifts(f1, old) == old.f1 # NoScore /\ f1 < old.f1 - Drift

CompareF1_NoCheck(r) ==
    /\ At(r, "comparing")
    /\ runs' = [runs EXCEPT ![r].pc = "accepting", ![r].old = metrics[Current(r)]]
    /\ UNCHANGED <<dataVars, sinceAuto, modelVars>>

\* The drift check reads the metrics once.
CompareF1(r) ==
    /\ At(r, "comparing")
    /\ ~Drifts(runs[r].f1, metrics[Current(r)])
    /\ runs' = [runs EXCEPT ![r].pc = "accepting", ![r].old = metrics[Current(r)]]
    /\ UNCHANGED <<dataVars, sinceAuto, modelVars>>

AfterReject(r) == NextModel(r)

Reject(r) ==
    /\ At(r, "comparing")
    /\ Drifts(runs[r].f1, metrics[Current(r)])
    /\ rejected' = rejected \cup {<<Current(r), r>>}
    /\ AfterReject(r)
    /\ UNCHANGED <<dataVars, sinceAuto, models, metrics, thresholds, overlapped>>

NewMetric(r) == [f1 |-> runs[r].f1, count |-> runs[r].old.count + 1, of |-> r]

Accept_IfBetter(r) ==
    /\ At(r, "accepting")
    /\ metrics' = IF runs[r].old.f1 # NoScore /\ runs[r].f1 < runs[r].old.f1 THEN metrics
                  ELSE [metrics EXCEPT ![Current(r)] = NewMetric(r)]
    /\ GoTo(r, "recommending")
    /\ UNCHANGED <<dataVars, sinceAuto, models, thresholds, rejected, overlapped>>

Accept(r) ==
    /\ At(r, "accepting")
    /\ metrics' = [metrics EXCEPT ![Current(r)] = NewMetric(r)]
    /\ GoTo(r, "recommending")
    /\ UNCHANGED <<dataVars, sinceAuto, models, thresholds, rejected, overlapped>>

\* _compute_threshold_recommendations reads the labels again.
Recommends(m) == Labelled(Relevant(m), "false_positive") >= RecFps

Recommend(r) ==
    /\ At(r, "recommending")
    /\ thresholds' = IF Recommends(Current(r)) THEN [thresholds EXCEPT ![Current(r)] = r]
                     ELSE thresholds
    /\ NextModel(r)
    /\ UNCHANGED <<dataVars, sinceAuto, models, metrics, rejected, overlapped>>

RunStep(r) ==
    \/ Check(r) \/ TakeSnapshot(r) \/ Skip(r) \/ CvFails(r)
    \/ \E f1 \in Score : Serve(r, f1)
    \/ CompareF1(r) \/ Reject(r) \/ Accept(r) \/ Recommend(r)

LearnNext ==
    \/ \E i \in LearnIncident, l \in Label : Ingest(i, l)
    \/ \E i \in LearnIncident : Dismiss(i)
    \/ Retrain
    \/ LearnTick
    \/ \E r \in Run : RunStep(r)

LearnSpec == LearnInit /\ [][LearnNext]_learnVars

-----------------------------------------------------------------------------
(* Properties.                                                             *)

\* The two counters behind /metrics agree with the labels of the dataset and of
\* the examples trimmed from it, after every mix of repeated incidents, repeated
\* dismissals and dismissals of incidents that are not, or no longer, there.
CountsMatchLabels ==
    /\ confirmed = Labelled(dataset, "true_positive") + forgotten["true_positive"]
    /\ falsePositive = Labelled(dataset, "false_positive") + forgotten["false_positive"]

\* When no run is at work on a model, /metrics describes the model that /predict
\* uses, unless the drift check rejected that model (which is served all the
\* same) or two runs updated it at once.
ServedIsMeasured ==
    \A m \in Model :
        \/ \E r \in Run : Updating(r, m)
        \/ models[m] = metrics[m].of
        \/ <<m, models[m]>> \in rejected
        \/ m \in overlapped

\* The drift check: the F1 on record falls by more than Drift only when another
\* run replaced the metrics between this run's check and its assignment.
ScoreFallsOnlyByOverlap ==
    [][\A m \in Model :
          Drifts(metrics'[m].f1, metrics[m])
              => \E r \in Run : At(r, "accepting") /\ runs[r].old # metrics[m]]_learnVars

\* A run that the drift check rejected for a model changes neither the metrics
\* nor the thresholds of that model's agent, whatever other runs do.
RejectedHasNoSay ==
    \A m \in Model, r \in Run :
        <<m, r>> \in rejected => metrics[m].of # r /\ thresholds[m] # r

\* The log line of learning_agent/main.py:398 is "Rejecting new model": a
\* rejected model is not the one that /predict uses.
RejectedIsNotServed == \A m \in Model : <<m, models[m]>> \notin rejected
=============================================================================
