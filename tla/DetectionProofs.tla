-------------------------- MODULE DetectionProofs ---------------------------
(***************************************************************************)
(* Proofs about five detectors that share no state.                        *)
(*                                                                         *)
(* RiskLadder, for any hosts, types of alerts, decay and bounds that       *)
(* RiskAssumption allows.  OneCriticalPerEpisode counts incidents and      *)
(* speaks of the highest score of the episode; the code knows neither,     *)
(* only the set of levels that have fired.  EpisodeInv says what that set  *)
(* tells about the other two.                                              *)
(*                                                                         *)
(* CardTravel, for any cards, readers, floors and any walking times that   *)
(* TravelAssumption allows.  The agent compares a grant with the latest    *)
(* place of the card only.  That this finds every pair of grants that are  *)
(* too close is the triangle inequality of the walks, and VisitInv: a      *)
(* place the card left unreported is at least a walk older than its        *)
(* latest place.                                                           *)
(*                                                                         *)
(* FireAlarm, for any zones, any number of Timer objects and any hold      *)
(* time, cooldown and correlation window.  FireIsAnswered is not           *)
(* inductive: that the relay stays on rests on there being one timer that  *)
(* waits, the latest (TimerInv), which waits at least as long as the relay *)
(* is promised (HoldInv); that it goes off again, on who is to do that at  *)
(* the moment the consumer has a timer in hand a reset cancelled           *)
(* (ReleaseInv).                                                           *)
(*                                                                         *)
(* Baseline, for any devices, ports, length of a day and thresholds that   *)
(* BaselineAssumption allows.  That no drift outlives the interval of the  *)
(* check is DriftInv: a device has been diverged no longer than since the  *)
(* latest check, and an alert of a rollback is held back only until the    *)
(* next one.  That ports are learned slowly is EntryInv: what an entry of  *)
(* the quarantine counts lies among the days the port was learned from,    *)
(* back to the day the entry was made, which its age tells.                *)
(*                                                                         *)
(* The watches over silent sensors and silent agents, for any sensors and  *)
(* agents, limits, cooldowns and restarts.  The watchdog of the sensors    *)
(* works on a copy, in steps that readings come between; the invariants    *)
(* say what the copy, the device it is busy with and the flags may tell of *)
(* the stamps meanwhile.  In AgentWatch they say which ages an agent can   *)
(* have that a watcher still, or again, holds for silent.                  *)
(***************************************************************************)
EXTENDS RiskLadder, CardTravel, FireAlarm, Baseline, Watches,
        FiniteSetTheorems, SequenceTheorems, TLAPS

-----------------------------------------------------------------------------
(* The ladder of risk.                                                     *)

Episode(h) ==
    LET P == peak[h] fired == raised[h] n == incidents[h] IN
    /\ n["CRITICAL"] = IF P >= Critical THEN 1 ELSE 0
    /\ "CRITICAL" \in fired <=> P >= Critical
    /\ P < Critical => /\ "HIGH" \in fired <=> P >= High
                       /\ n["HIGH"] = IF P >= High THEN 1 ELSE 0
    /\ P >= Critical => n["HIGH"] <= IF "HIGH" \in fired THEN 2 ELSE 1
    /\ level[h] = "CRITICAL" => P >= Critical
    /\ level[h] = "HIGH" => P >= High
EpisodeInv == \A h \in RiskHost : Episode(h)

RungName == {"CRITICAL", "HIGH", "WARNING", "NORMAL", "none"}

\* The score an alert leads to is a number, and not negative.
LEMMA NewScoreIsNat ==
    ASSUME RiskTypeOK, NEW h \in RiskHost, NEW t \in AlertType
    PROVE  NewScore(h, t) \in Nat
<1>1. score[h] \in 0..MaxScore /\ lag[h] \in 0..MaxLag
  BY DEF RiskTypeOK
<1>2. Decayed(score[h], lag[h]) \in 0..score[h]
  BY <1>1, RiskAssumption DEF RiskAssumption
<1>3. Points(t) \in Nat
  BY RiskAssumption DEF RiskAssumption
<1> QED
  BY <1>1, <1>2, <1>3, RiskAssumption DEF NewScore, RiskAssumption

\* Which rung is taken says where the score lies and what had fired.
LEMMA RungMeans ==
    ASSUME NEW s \in Nat, NEW fired
    PROVE  /\ Rung(s, fired) \in RungName
           /\ Rung(s, fired) = "CRITICAL" => s >= Critical /\ "CRITICAL" \notin fired
           /\ Rung(s, fired) = "HIGH" =>
                 s >= High /\ "HIGH" \notin fired /\ (s < Critical \/ "CRITICAL" \in fired)
           /\ Rung(s, fired) = "WARNING" =>
                 /\ s >= Warn /\ (s < Critical \/ "CRITICAL" \in fired)
                 /\ (s < High \/ "HIGH" \in fired)
           /\ Rung(s, fired) = "NORMAL" => s < Warn
           /\ Rung(s, fired) = "none" =>
                 /\ s >= Warn /\ (s < Critical \/ "CRITICAL" \in fired)
                 /\ (s < High \/ "HIGH" \in fired)
BY DEF Rung, RungName, Critical, High, Warn

LEMMA RiskTypeInit == RiskInit => RiskTypeOK
BY RiskAssumption DEF RiskInit, RiskTypeOK, RiskAssumption, Level, NoIncidents

LEMMA RiskTypeNext == RiskTypeOK /\ [RiskNext]_riskVars => RiskTypeOK'
<1> SUFFICES ASSUME RiskTypeOK, [RiskNext]_riskVars
             PROVE  RiskTypeOK'
  OBVIOUS
<1>1. ASSUME NEW h \in RiskHost, NEW t \in AlertType, Alert(h, t)
      PROVE  RiskTypeOK'
  <2> DEFINE s == NewScore(h, t)
             rung == Rung(s, raised[h])
  <2>1. s \in 0..MaxScore
    BY <1>1, NewScoreIsNat, RiskAssumption DEF Alert, RiskAssumption
  <2>2. rung \in RungName
    BY <2>1, RungMeans
  <2>3. score' \in [RiskHost -> 0..MaxScore] /\ peak' \in [RiskHost -> 0..MaxScore]
    BY <1>1, <2>1 DEF Alert, RiskTypeOK
  <2>4. lag' \in [RiskHost -> 0..MaxLag]
    BY <1>1, RiskAssumption DEF Alert, RiskTypeOK, RiskAssumption
  <2>5. level' \in [RiskHost -> Level]
    BY <1>1, <2>2 DEF Alert, RiskTypeOK, Level, RungName
  <2>6. FiredAfter(rung, raised[h]) \in SUBSET {"WARNING", "HIGH", "CRITICAL"}
    BY <2>2 DEF FiredAfter, RungName, RiskTypeOK
  <2>7. raised' \in [RiskHost -> SUBSET {"WARNING", "HIGH", "CRITICAL"}]
    BY <1>1, <2>6 DEF Alert, RiskTypeOK
  <2>8. incidents' \in [RiskHost -> [{"HIGH", "CRITICAL"} -> Nat]]
    BY <1>1 DEF Alert, RiskTypeOK, NoIncidents
  <2> QED
    BY <2>3, <2>4, <2>5, <2>7, <2>8 DEF RiskTypeOK
<1>2. ASSUME NEW h \in RiskHost, NEW t \in AlertType, AlertSuppressed(h, t)
      PROVE  RiskTypeOK'
  BY <1>2 DEF AlertSuppressed, riskVars, RiskTypeOK
<1>3. CASE HalfLife
  BY <1>3, RiskAssumption DEF HalfLife, RiskTypeOK, RiskAssumption
<1>4. CASE UNCHANGED riskVars
  BY <1>4 DEF riskVars, RiskTypeOK
<1> QED
  BY <1>1, <1>2, <1>3, <1>4 DEF RiskNext

\* Scores, levels, fired sets and counters keep their types, whatever the decay.
THEOREM RiskTypeCorrect == RiskSpec => []RiskTypeOK
BY RiskTypeInit, RiskTypeNext, PTL DEF RiskSpec

----------------------------------------------------------------------------

LEMMA EpisodeInit == RiskInit => EpisodeInv
BY DEF RiskInit, EpisodeInv, Episode, NoIncidents, Critical, High

\* An alert leaves the episode of its own host as EpisodeInv says.
LEMMA EpisodeOfAlert ==
    ASSUME RiskTypeOK, EpisodeInv, NEW h \in RiskHost, NEW t \in AlertType, Alert(h, t)
    PROVE  Episode(h)'
<1> DEFINE s == NewScore(h, t)
           rung == Rung(s, raised[h])
<1>1. s \in Nat
  BY NewScoreIsNat
<1>2. /\ peak[h] \in Nat
      /\ incidents[h] \in [{"HIGH", "CRITICAL"} -> Nat]
      /\ raised[h] \subseteq {"WARNING", "HIGH", "CRITICAL"}
  BY RiskAssumption DEF RiskTypeOK, RiskAssumption
<1>3. Episode(h)
  BY DEF EpisodeInv
<1>4. /\ raised'[h] = FiredAfter(rung, raised[h])
      /\ level'[h] = IF rung = "none" THEN level[h] ELSE rung
      /\ peak'[h] = IF rung = "NORMAL" \/ s > peak[h] THEN s ELSE peak[h]
  BY DEF Alert, RiskTypeOK
<1>5. incidents'[h] = IF rung = "NORMAL" THEN NoIncidents
                      ELSE [l \in {"HIGH", "CRITICAL"} |->
                              IF l = rung THEN incidents[h][l] + 1 ELSE incidents[h][l]]
  BY DEF Alert, RiskTypeOK
<1> HIDE DEF s, rung
<1>6. CASE rung = "CRITICAL"
  <2>1. s >= Critical /\ "CRITICAL" \notin raised[h]
    BY <1>1, <1>6, RungMeans DEF rung
  <2>2. /\ incidents'[h]["CRITICAL"] = incidents[h]["CRITICAL"] + 1
        /\ incidents'[h]["HIGH"] = incidents[h]["HIGH"]
        /\ raised'[h] = (raised[h] \cup {"CRITICAL"}) \ {"HIGH", "WARNING"}
    BY <1>4, <1>5, <1>6 DEF FiredAfter
  <2> QED
    BY <1>1, <1>2, <1>3, <1>4, <1>6, <2>1, <2>2 DEF Episode, Critical, High
<1>7. CASE rung = "HIGH"
  <2>1. s >= High /\ "HIGH" \notin raised[h] /\ (s < Critical \/ "CRITICAL" \in raised[h])
    BY <1>1, <1>7, RungMeans DEF rung
  <2>2. /\ incidents'[h]["CRITICAL"] = incidents[h]["CRITICAL"]
        /\ incidents'[h]["HIGH"] = incidents[h]["HIGH"] + 1
        /\ raised'[h] = (raised[h] \cup {"HIGH"}) \ {"WARNING"}
    BY <1>4, <1>5, <1>7 DEF FiredAfter
  <2> QED
    BY <1>1, <1>2, <1>3, <1>4, <1>7, <2>1, <2>2 DEF Episode, Critical, High
<1>8. CASE rung \in {"WARNING", "none"}
  <2>1. /\ s < Critical \/ "CRITICAL" \in raised[h]
        /\ s < High \/ "HIGH" \in raised[h]
    BY <1>1, <1>8, RungMeans DEF rung
  <2>2. /\ incidents'[h]["CRITICAL"] = incidents[h]["CRITICAL"]
        /\ incidents'[h]["HIGH"] = incidents[h]["HIGH"]
        /\ raised'[h] \ {"WARNING"} = raised[h] \ {"WARNING"}
    BY <1>4, <1>5, <1>8 DEF FiredAfter
  <2>3. "CRITICAL" \in raised'[h] <=> "CRITICAL" \in raised[h]
    BY <2>2
  <2>4. "HIGH" \in raised'[h] <=> "HIGH" \in raised[h]
    BY <2>2
  <2> QED
    BY <1>1, <1>2, <1>3, <1>4, <1>8, <2>1, <2>2, <2>3, <2>4 DEF Episode, Critical, High
<1>9. CASE rung = "NORMAL"
  <2>1. s < Warn
    BY <1>1, <1>9, RungMeans DEF rung
  <2> QED
    BY <1>1, <1>4, <1>5, <1>9, <2>1
    DEF Episode, FiredAfter, NoIncidents, Critical, High, Warn
<1> QED
  BY <1>1, <1>6, <1>7, <1>8, <1>9, RungMeans DEF rung, RungName

LEMMA EpisodeNext ==
    RiskTypeOK /\ EpisodeInv /\ [RiskNext]_riskVars => EpisodeInv'
<1> SUFFICES ASSUME RiskTypeOK, EpisodeInv, [RiskNext]_riskVars, NEW h \in RiskHost
             PROVE  Episode(h)'
  BY DEF EpisodeInv
<1>1. ASSUME peak'[h] = peak[h], raised'[h] = raised[h], incidents'[h] = incidents[h],
             level'[h] = level[h]
      PROVE  Episode(h)'
  BY <1>1 DEF EpisodeInv, Episode
<1>2. ASSUME NEW g \in RiskHost, NEW t \in AlertType, Alert(g, t)
      PROVE  Episode(h)'
  <2>1. CASE g = h
    BY <1>2, <2>1, EpisodeOfAlert
  <2>2. CASE g # h
    BY <1>1, <1>2, <2>2 DEF Alert, RiskTypeOK
  <2> QED
    BY <2>1, <2>2
<1>3. ASSUME NEW g \in RiskHost, NEW t \in AlertType, AlertSuppressed(g, t)
      PROVE  Episode(h)'
  BY <1>1, <1>3 DEF AlertSuppressed, riskVars
<1>4. CASE HalfLife
  BY <1>1, <1>4 DEF HalfLife
<1>5. CASE UNCHANGED riskVars
  BY <1>1, <1>5 DEF riskVars
<1> QED
  BY <1>2, <1>3, <1>4, <1>5 DEF RiskNext

LEMMA EpisodeImplies == RiskTypeOK /\ EpisodeInv => OneCriticalPerEpisode
<1> SUFFICES ASSUME RiskTypeOK, EpisodeInv, NEW h \in RiskHost
             PROVE  /\ incidents[h]["CRITICAL"] = IF peak[h] >= Critical THEN 1 ELSE 0
                    /\ incidents[h]["HIGH"] <= IF peak[h] >= Critical THEN 2
                                               ELSE IF peak[h] >= High THEN 1 ELSE 0
                    /\ level[h] = "CRITICAL" => peak[h] >= Critical
                    /\ level[h] = "HIGH" => peak[h] >= High
  BY DEF OneCriticalPerEpisode
<1>1. Episode(h)
  BY DEF EpisodeInv
<1>2. peak[h] \in Nat /\ incidents[h]["HIGH"] \in Nat
  BY RiskAssumption DEF RiskTypeOK, RiskAssumption
<1> QED
  BY <1>1, <1>2 DEF Episode, Critical, High

\* One CRITICAL incident per episode (main.py, _check_risk_thresholds), for any
\* number of hosts, any mix of alert types and any decay that never raises a score.
THEOREM OneCritical == RiskSpec => []OneCriticalPerEpisode
<1>1. RiskTypeOK /\ EpisodeInv /\ [RiskNext]_riskVars => (RiskTypeOK /\ EpisodeInv)'
  BY RiskTypeNext, EpisodeNext
<1>2. RiskInit => RiskTypeOK /\ EpisodeInv
  BY RiskTypeInit, EpisodeInit
<1> QED
  BY <1>1, <1>2, EpisodeImplies, PTL DEF RiskSpec

-----------------------------------------------------------------------------
(* Cards in two places.                                                    *)

\* Visit v fits the latest place p and the active readers A of its card.
Fits(p, A, v) ==
    /\ p # Nowhere /\ p.age <= v.age
    /\ ~v.reported /\ v.reader # p.reader => p.age + Walk(v.reader, p.reader) <= v.age
    /\ [reader |-> v.reader, age |-> v.age] \in A
VisitOK(b, v) == Fits(lastPlace[b], active[b], v)
VisitInv == \A b \in Badge : \A v \in visits[b] : VisitOK(b, v)

Visit == [reader : Reader, age : 0..TwoFloors, reported : BOOLEAN]

TravelTypes ==
    /\ lastPlace \in [Badge -> {Nowhere} \cup [reader : Reader, age : Nat]]
    /\ active \in [Badge -> SUBSET [reader : Reader, age : Nat]]
    /\ visits \in [Badge -> SUBSET Visit]

TravelInv == TravelTypes /\ VisitInv

\* The walks are numbers, and no detour is shorter.
LEMMA WalkTriangle ==
    ASSUME TravelAssumption, NEW r, NEW s, NEW u
    PROVE  /\ Walk(r, s) \in Nat
           /\ Walk(r, u) <= Walk(r, s) + Walk(s, u)
<1>1. /\ {SameFloor, NextFloor, TwoFloors} \subseteq Nat
      /\ SameFloor <= NextFloor /\ NextFloor <= TwoFloors /\ TwoFloors <= 2 * NextFloor
  BY DEF TravelAssumption
<1> QED
  BY <1>1 DEF Walk

\* What a grant does to an older visit, and what a tick does to any.
LEMMA VisitUpdated ==
    ASSUME NEW v \in Visit, NEW moved \in BOOLEAN
    PROVE  LET w == [v EXCEPT !.reported = @ \/ moved]
           IN  /\ w \in Visit
               /\ w.reader = v.reader /\ w.age = v.age
               /\ w.reported = (v.reported \/ moved)
<1>1. (v.reported \/ moved) \in BOOLEAN
  OBVIOUS
<1> QED
  BY <1>1 DEF Visit

LEMMA TravelTypesInit == TravelInit => TravelTypes
BY DEF TravelInit, TravelTypes

LEMMA TravelTypesNext ==
    TravelAssumption /\ TravelTypes /\ [TravelNext]_travelVars => TravelTypes'
<1> SUFFICES ASSUME TravelAssumption, TravelTypes, [TravelNext]_travelVars
             PROVE  TravelTypes'
  OBVIOUS
<1>1. TwoFloors \in Nat /\ Session \in Nat
  BY DEF TravelAssumption
<1>2. ASSUME NEW b \in Badge, NEW r \in Reader, NEW unusual \in BOOLEAN, Granted(b, r, unusual)
      PROVE  TravelTypes'
  <2>1. lastPlace' \in [Badge -> {Nowhere} \cup [reader : Reader, age : Nat]]
    BY <1>2 DEF Granted, TravelTypes
  <2>2. Readers(b, r) \in SUBSET [reader : Reader, age : Nat]
    BY DEF Readers, TravelTypes
  <2>3. active' \in [Badge -> SUBSET [reader : Reader, age : Nat]]
    BY <1>2, <2>2 DEF Granted, TravelTypes
  <2> DEFINE moved == ImpossibleTravel(b, r)
  <2> DEFINE new == {[reader |-> r, age |-> 0, reported |-> FALSE]} \cup
                    {[v EXCEPT !.reported = @ \/ moved] :
                        v \in {x \in visits[b] : x.reader # r}}
  <2>4. new \in SUBSET Visit
    <3>1. moved \in BOOLEAN
      BY DEF ImpossibleTravel
    <3>2. visits[b] \subseteq Visit
      BY DEF TravelTypes
    <3> HIDE DEF moved
    <3>3. \A v \in visits[b] : [v EXCEPT !.reported = @ \/ moved] \in Visit
      BY <3>1, <3>2, VisitUpdated
    <3>4. [reader |-> r, age |-> 0, reported |-> FALSE] \in Visit
      BY <1>1 DEF Visit
    <3> QED
      BY <3>3, <3>4
  <2>5. visits' = [visits EXCEPT ![b] = new]
    BY <1>2 DEF Granted
  <2> QED
    BY <2>1, <2>3, <2>4, <2>5 DEF TravelTypes
<1>3. CASE TravelTick
  <2>1. lastPlace' \in [Badge -> {Nowhere} \cup [reader : Reader, age : Nat]]
    BY <1>3 DEF TravelTick, TravelTypes
  <2>2. active' \in [Badge -> SUBSET [reader : Reader, age : Nat]]
    BY <1>1, <1>3 DEF TravelTick, TravelTypes
  <2>3. visits' \in [Badge -> SUBSET Visit]
    BY <1>1, <1>3 DEF TravelTick, TravelTypes, Visit
  <2> QED
    BY <2>1, <2>2, <2>3 DEF TravelTypes
<1>4. CASE UNCHANGED travelVars
  BY <1>4 DEF travelVars, TravelTypes
<1> QED
  BY <1>2, <1>3, <1>4 DEF TravelNext

----------------------------------------------------------------------------

LEMMA VisitInit == TravelInit => VisitInv
BY DEF TravelInit, VisitInv

\* After a grant, every older visit of the card that is not reported is at least
\* the walk old: the step of the triangle inequality.
LEMMA GrantedApart ==
    ASSUME TravelAssumption, TravelInv, NEW b \in Badge, NEW r \in Reader, NEW unusual,
           Granted(b, r, unusual),
           NEW v \in visits[b], ~v.reported, v.reader # r, ~ImpossibleTravel(b, r)
    PROVE  Walk(v.reader, r) <= v.age
<1>1. /\ lastPlace[b] # Nowhere
      /\ lastPlace[b] \in [reader : Reader, age : Nat]
      /\ v \in Visit
      /\ VisitOK(b, v)
  BY DEF TravelInv, TravelTypes, VisitInv, VisitOK, Fits
<1> DEFINE p == lastPlace[b]
<1>2. p.age \in Nat /\ v.age \in Nat /\ p.age <= v.age
  BY <1>1 DEF Visit, TravelAssumption, VisitOK, Fits
<1>3. p.reader # r => Walk(p.reader, r) <= p.age
  BY <1>1, <1>2, WalkTriangle DEF ImpossibleTravel
<1>4. v.reader # p.reader => p.age + Walk(v.reader, p.reader) <= v.age
  BY <1>1 DEF VisitOK, Fits
<1>5. /\ Walk(v.reader, r) \in Nat /\ Walk(p.reader, r) \in Nat /\ Walk(v.reader, p.reader) \in Nat
      /\ Walk(v.reader, r) <= Walk(v.reader, p.reader) + Walk(p.reader, r)
  BY WalkTriangle
<1>6. CASE p.reader = r
  BY <1>2, <1>4, <1>5, <1>6
<1>7. CASE p.reader # r /\ v.reader = p.reader
  BY <1>2, <1>3, <1>5, <1>7
<1>8. CASE p.reader # r /\ v.reader # p.reader
  BY <1>2, <1>3, <1>4, <1>5, <1>8
<1> QED
  BY <1>6, <1>7, <1>8

\* A reader the card was at within the last TwoFloors ticks is still among the
\* active ones when the next grant comes.
LEMMA StillActive ==
    ASSUME TravelAssumption, TravelInv, NEW b \in Badge, NEW r \in Reader,
           NEW v \in visits[b], v.reader # r
    PROVE  [reader |-> v.reader, age |-> v.age] \in Readers(b, r)
<1>1. v \in Visit /\ [reader |-> v.reader, age |-> v.age] \in active[b]
  BY DEF TravelInv, TravelTypes, VisitInv, VisitOK, Fits
<1>2. v.age <= Session
  BY <1>1 DEF Visit, TravelAssumption
<1> QED
  BY <1>1, <1>2 DEF Readers

\* Every visit after a grant is the grant itself or an older one of another reader.
LEMMA VisitsAfter ==
    ASSUME TravelTypes, NEW b \in Badge, NEW r \in Reader, NEW unusual,
           Granted(b, r, unusual), NEW w \in visits'[b]
    PROVE  \/ w = [reader |-> r, age |-> 0, reported |-> FALSE]
           \/ \E v \in visits[b] :
                 /\ v.reader # r /\ w.reader = v.reader /\ w.age = v.age
                 /\ w.reported = (v.reported \/ ImpossibleTravel(b, r))
                 /\ ~ImpossibleTravel(b, r) => w = v
<1> DEFINE moved == ImpossibleTravel(b, r)
<1>1. moved \in BOOLEAN
  BY DEF ImpossibleTravel
<1>2. visits[b] \subseteq Visit
  BY DEF TravelTypes
<1>3. visits'[b] = {[reader |-> r, age |-> 0, reported |-> FALSE]} \cup
                   {[v EXCEPT !.reported = @ \/ moved] : v \in {x \in visits[b] : x.reader # r}}
  BY DEF Granted, TravelTypes
<1> HIDE DEF moved
<1>4. CASE w # [reader |-> r, age |-> 0, reported |-> FALSE]
  <2>1. PICK v \in visits[b] : v.reader # r /\ w = [v EXCEPT !.reported = @ \/ moved]
    BY <1>3, <1>4
  <2>2. /\ w.reader = v.reader /\ w.age = v.age /\ w.reported = (v.reported \/ moved)
        /\ w \in Visit /\ v \in Visit
    BY <1>1, <1>2, <2>1, VisitUpdated
  <2>3. ~moved => w = v
    BY <2>2 DEF Visit
  <2> QED
    BY <2>1, <2>2, <2>3 DEF moved
<1> QED
  BY <1>4

LEMMA VisitNext ==
    TravelAssumption /\ TravelInv /\ [TravelNext]_travelVars => VisitInv'
<1> SUFFICES ASSUME TravelAssumption, TravelInv, [TravelNext]_travelVars,
                    NEW b \in Badge, NEW w \in visits'[b]
             PROVE  VisitOK(b, w)'
  BY DEF VisitInv
<1>0. TravelTypes /\ TravelTypes'
  BY TravelTypesNext DEF TravelInv
<1>1. ASSUME NEW c \in Badge, NEW r \in Reader, NEW unusual \in BOOLEAN, Granted(c, r, unusual)
      PROVE  VisitOK(b, w)'
  <2>1. CASE c # b
    <3>1. /\ visits'[b] = visits[b] /\ lastPlace'[b] = lastPlace[b] /\ active'[b] = active[b]
      BY <1>0, <1>1, <2>1 DEF Granted, TravelTypes
    <3> QED
      BY <3>1 DEF TravelInv, VisitInv, VisitOK, Fits
  <2>2. CASE c = b
    <3>1. /\ lastPlace'[b] = [reader |-> r, age |-> 0]
          /\ active'[b] = Readers(b, r)
      BY <1>0, <1>1, <2>2 DEF Granted, TravelTypes
    <3>2. lastPlace'[b] # Nowhere
      BY <3>1 DEF TravelAssumption
    <3>3. CASE w = [reader |-> r, age |-> 0, reported |-> FALSE]
      BY <3>1, <3>2, <3>3 DEF VisitOK, Fits, Readers
    <3>4. ASSUME NEW v \in visits[b], v.reader # r, w.reader = v.reader, w.age = v.age,
                 w.reported = (v.reported \/ ImpossibleTravel(b, r))
          PROVE  VisitOK(b, w)'
      <4>1. v \in Visit /\ v.age \in Nat
        BY <1>0 DEF TravelTypes, Visit, TravelAssumption
      <4>2. ~w.reported => Walk(w.reader, r) <= w.age
        BY <1>1, <2>2, <3>4, GrantedApart
      <4>3. [reader |-> w.reader, age |-> w.age] \in Readers(b, r)
        BY <3>4, StillActive
      <4>4. Walk(w.reader, r) \in Nat
        BY WalkTriangle
      <4> QED
        BY <3>1, <3>2, <3>4, <4>1, <4>2, <4>3, <4>4 DEF VisitOK, Fits
    <3> QED
      BY <1>0, <1>1, <2>2, <3>3, <3>4, VisitsAfter
  <2> QED
    BY <2>1, <2>2
<1>2. CASE TravelTick
  <2>1. PICK v \in visits[b] : w = [v EXCEPT !.age = @ + 1] /\ w.age <= TwoFloors
    BY <1>2 DEF TravelTick
  <2>2. v \in Visit /\ VisitOK(b, v) /\ TwoFloors \in Nat /\ Session \in Nat /\ TwoFloors <= Session
    BY DEF TravelInv, TravelTypes, VisitInv, TravelAssumption
  <2>3. /\ w.reader = v.reader /\ w.age = v.age + 1 /\ w.reported = v.reported
        /\ v.age \in Nat
    BY <2>1, <2>2 DEF Visit
  <2>4. /\ lastPlace[b] # Nowhere
        /\ lastPlace[b] \in [reader : Reader, age : Nat]
        /\ lastPlace[b].age <= v.age
    BY <1>0, <2>2 DEF VisitOK, Fits, TravelTypes
  <2>5. lastPlace'[b] = [lastPlace[b] EXCEPT !.age = @ + 1]
    BY <1>2, <2>1, <2>2, <2>3, <2>4 DEF TravelTick
  <2>6. /\ lastPlace'[b].reader = lastPlace[b].reader
        /\ lastPlace'[b].age = lastPlace[b].age + 1
        /\ lastPlace'[b] # Nowhere
    BY <2>4, <2>5 DEF TravelAssumption
  <2>7. [reader |-> w.reader, age |-> w.age] \in active'[b]
    <3> DEFINE a == [reader |-> v.reader, age |-> v.age]
    <3>1. a \in active[b]
      BY <2>2 DEF VisitOK, Fits
    <3>2. [a EXCEPT !.age = IF @ > Session THEN @ ELSE @ + 1] =
          [reader |-> w.reader, age |-> w.age]
      BY <2>1, <2>2, <2>3
    <3> HIDE DEF a
    <3> QED
      BY <1>2, <3>1, <3>2 DEF TravelTick
  <2> QED
    BY <2>2, <2>3, <2>4, <2>6, <2>7, WalkTriangle DEF VisitOK, Fits
<1>3. CASE UNCHANGED travelVars
  BY <1>3 DEF travelVars, TravelInv, VisitInv, VisitOK, Fits
<1> QED
  BY <1>1, <1>2, <1>3 DEF TravelNext

----------------------------------------------------------------------------

LEMMA TravelInvInit == TravelInit => TravelInv
BY TravelTypesInit, VisitInit DEF TravelInv

LEMMA TravelInvNext ==
    TravelAssumption /\ TravelInv /\ [TravelNext]_travelVars => TravelInv'
BY TravelTypesNext, VisitNext DEF TravelInv

\* What TravelIsReported says of one grant and one older visit.
Answered(v, r) ==
    /\ v.age < Walk(v.reader, r) =>
          v.reported \/ "impossible_travel_detected" \in warned'
    /\ v.age < Sharing => "credential_sharing_suspected" \in warned'

LEMMA GrantAnswers ==
    ASSUME TravelAssumption, TravelInv, NEW b \in Badge, NEW r \in Reader, NEW unusual,
           Granted(b, r, unusual), NEW v \in visits[b], v.reader # r
    PROVE  Answered(v, r)
<1>1. v \in Visit /\ v.age \in Nat
  BY DEF TravelInv, TravelTypes, Visit, TravelAssumption
<1>2. Walk(v.reader, r) \in Nat
  BY WalkTriangle
<1>3. ImpossibleTravel(b, r) => "impossible_travel_detected" \in warned'
  BY DEF Granted
<1>4. ~v.reported /\ ~ImpossibleTravel(b, r) => Walk(v.reader, r) <= v.age
  BY GrantedApart
<1>5. v.age < Walk(v.reader, r) => v.reported \/ "impossible_travel_detected" \in warned'
  BY <1>1, <1>2, <1>3, <1>4
<1>6. v.age < Sharing => Shared(b, r)
  BY StillActive DEF Shared
<1>7. Shared(b, r) => "credential_sharing_suspected" \in warned'
  BY DEF Granted
<1> QED
  BY <1>5, <1>6, <1>7 DEF Answered

LEMMA StepAnswers ==
    ASSUME TravelAssumption, TravelInv, [TravelNext]_travelVars,
           NEW b \in Badge, NEW r \in Reader,
           [reader |-> r, age |-> 0, reported |-> FALSE] \in visits'[b] \ visits[b],
           NEW v \in visits[b], v.reader # r
    PROVE  Answered(v, r)
<1> DEFINE w == [reader |-> r, age |-> 0, reported |-> FALSE]
<1>0. TravelTypes
  BY DEF TravelInv
<1>1. ASSUME NEW c \in Badge, NEW q \in Reader, NEW unusual \in BOOLEAN, Granted(c, q, unusual)
      PROVE  Answered(v, r)
  <2>1. c = b
    BY <1>0, <1>1 DEF Granted, TravelTypes
  <2>2. q = r
    <3>1. CASE w = [reader |-> q, age |-> 0, reported |-> FALSE]
      BY <3>1
    <3>2. ASSUME NEW x \in visits[b], w.reported = (x.reported \/ ImpossibleTravel(b, q)),
                 ~ImpossibleTravel(b, q) => w = x
          PROVE  FALSE
      <4>1. w.reported = FALSE /\ w \notin visits[b]
        OBVIOUS
      <4>2. ~ImpossibleTravel(b, q)
        BY <3>2, <4>1 DEF ImpossibleTravel
      <4> QED
        BY <3>2, <4>1, <4>2
    <3>3. Granted(b, q, unusual) /\ w \in visits'[b]
      BY <1>1, <2>1
    <3> HIDE DEF w
    <3>4. \/ w = [reader |-> q, age |-> 0, reported |-> FALSE]
          \/ \E x \in visits[b] : /\ w.reported = (x.reported \/ ImpossibleTravel(b, q))
                                  /\ ~ImpossibleTravel(b, q) => w = x
      BY <1>0, <3>3, VisitsAfter
    <3> QED
      BY <3>1, <3>2, <3>4
  <2> QED
    BY <1>1, <2>1, <2>2, GrantAnswers
<1>2. CASE TravelTick
  <2>1. PICK x \in visits[b] : w = [x EXCEPT !.age = @ + 1]
    BY <1>2 DEF TravelTick
  <2>2. x \in Visit /\ TwoFloors \in Nat
    BY <1>0 DEF TravelTypes, TravelAssumption
  <2>3. w.age = x.age + 1 /\ x.age \in Nat
    BY <2>1, <2>2 DEF Visit
  <2> QED
    BY <2>3
<1>3. CASE UNCHANGED travelVars
  BY <1>3 DEF travelVars
<1> QED
  BY <1>1, <1>2, <1>3 DEF TravelNext

\* No card is in two places unreported (credential_anomaly_agent, handle_event):
\* comparing with the latest place is enough, for any readers and floors, however
\* many grants come between, since no detour is shorter than the walk.
THEOREM TravelReported == ASSUME TravelAssumption PROVE TravelSpec => TravelIsReported
<1> DEFINE Reports ==
        \A b \in Badge, r \in Reader :
          [reader |-> r, age |-> 0, reported |-> FALSE] \in visits'[b] \ visits[b] =>
              \A v \in visits[b] : v.reader # r => Answered(v, r)
<1>1. TravelInit => TravelInv
  BY TravelInvInit
<1>2. TravelInv /\ [TravelNext]_travelVars => TravelInv'
  BY TravelInvNext
<1>3. TravelInv /\ [TravelNext]_travelVars => Reports
  BY StepAnswers
<1>4. Reports <=> \A b \in Badge, r \in Reader :
          [reader |-> r, age |-> 0, reported |-> FALSE] \in visits'[b] \ visits[b] =>
              \A v \in visits[b] : v.reader # r =>
                  /\ v.age < Walk(v.reader, r) =>
                        v.reported \/ "impossible_travel_detected" \in warned'
                  /\ v.age < Sharing => "credential_sharing_suspected" \in warned'
  BY DEF Answered
<1> HIDE DEF Reports
<1> QED
  BY <1>1, <1>2, <1>3, <1>4, PTL DEF TravelSpec, TravelIsReported

\* Ages in the two tables of a card stay within what any rule compares them with.
LEMMA TravelTypeNext ==
    TravelAssumption /\ TravelTypes /\ TravelTypeOK /\ [TravelNext]_travelVars => TravelTypeOK'
<1> SUFFICES ASSUME TravelAssumption, TravelTypes, TravelTypeOK, [TravelNext]_travelVars
             PROVE  TravelTypeOK'
  OBVIOUS
<1> DEFINE Place == {Nowhere} \cup [reader : Reader, age : 0..TwoFloors + 1]
           Logins == [reader : Reader, age : 0..Session + 1]
<1>1. TwoFloors \in Nat /\ Session \in Nat /\ Nowhere \notin [reader : Reader, age : Nat]
  BY DEF TravelAssumption
<1>2. \A b \in Badge : lastPlace[b] \in Place /\ active[b] \subseteq Logins
  BY DEF TravelTypeOK
<1>3. \A b \in Badge : visits'[b] \subseteq Visit
  BY TravelTypesNext DEF TravelTypes
<1>4. ASSUME NEW c \in Badge, NEW r \in Reader, NEW unusual \in BOOLEAN, Granted(c, r, unusual)
      PROVE  \A b \in Badge : lastPlace'[b] \in Place /\ active'[b] \subseteq Logins
  <2>1. Readers(c, r) \subseteq Logins
    BY <1>1, <1>2 DEF Readers
  <2>2. [reader |-> r, age |-> 0] \in Place
    BY <1>1
  <2>3. \A b \in Badge : /\ lastPlace'[b] = IF b = c THEN [reader |-> r, age |-> 0] ELSE lastPlace[b]
                         /\ active'[b] = IF b = c THEN Readers(c, r) ELSE active[b]
    BY <1>4 DEF Granted, TravelTypes
  <2> QED
    BY <1>2, <2>1, <2>2, <2>3
<1>5. ASSUME TravelTick, NEW b \in Badge
      PROVE  lastPlace'[b] \in Place /\ active'[b] \subseteq Logins
  <2>1. lastPlace'[b] = IF lastPlace[b] = Nowhere \/ lastPlace[b].age > TwoFloors
                        THEN lastPlace[b] ELSE [lastPlace[b] EXCEPT !.age = @ + 1]
    BY <1>5 DEF TravelTick
  <2>2. active'[b] = {[a EXCEPT !.age = IF @ > Session THEN @ ELSE @ + 1] : a \in active[b]}
    BY <1>5 DEF TravelTick
  <2>3. lastPlace'[b] \in Place
    BY <1>1, <1>2, <2>1
  <2>4. ASSUME NEW a \in active[b]
        PROVE  [a EXCEPT !.age = IF @ > Session THEN @ ELSE @ + 1] \in Logins
    <3>1. a \in Logins
      BY <1>2
    <3> QED
      BY <1>1, <3>1
  <2>5. active'[b] \subseteq Logins
    BY <2>2, <2>4
  <2> QED
    BY <2>3, <2>5
<1>6. ASSUME UNCHANGED travelVars
      PROVE  \A b \in Badge : lastPlace'[b] \in Place /\ active'[b] \subseteq Logins
  BY <1>2, <1>6 DEF travelVars
<1>7. \A b \in Badge : lastPlace'[b] \in Place /\ active'[b] \subseteq Logins
  BY <1>4, <1>5, <1>6 DEF TravelNext
<1> QED
  BY <1>3, <1>7 DEF TravelTypeOK, Visit

\* Places, readers in use and visits keep their types, and ages stay within the
\* windows, though the agent never deletes an entry (__init__, handle_event).
THEOREM TravelTypeCorrect == ASSUME TravelAssumption PROVE TravelSpec => []TravelTypeOK
<1>1. TravelInit => TravelTypes /\ TravelTypeOK
  <2>1. TravelInit => TravelTypes
    BY TravelTypesInit
  <2>2. TravelInit => TravelTypeOK
    BY DEF TravelInit, TravelTypeOK
  <2> QED
    BY <2>1, <2>2
<1>2. TravelTypes /\ TravelTypeOK /\ [TravelNext]_travelVars => (TravelTypes /\ TravelTypeOK)'
  BY TravelTypesNext, TravelTypeNext
<1> QED
  BY <1>1, <1>2, PTL DEF TravelSpec

-----------------------------------------------------------------------------
(* The fire alarm.                                                         *)

ConsumerAt == {"on", "cancel", "new", "start"}

TimerInv ==
    /\ \A t \in Timer : timers[t].st \in {"created", "cancelled"} => t = latest /\ cpc = "start"
    /\ \A t \in Timer : timers[t].st = "waiting" => t = latest /\ cpc \notin {"new", "start"}
    /\ cpc = "start" => latest \in Timer /\ timers[latest].st \in {"created", "cancelled"}

HoldInv ==
    /\ cpc \in ConsumerAt /\ ~contested => engaged /\ ~Releasing
    /\ cpc \in ConsumerAt \ {"on"} /\ ~contested => line
    /\ cpc = "start" /\ ~contested => timers[latest].st = "created"
    /\ promised > 0 =>
          /\ line /\ engaged /\ ~Releasing
          /\ \/ cpc \in {"new", "start"}
             \/ \E t \in Timer : timers[t].st = "waiting" /\ timers[t].left >= promised

ReleaseInv ==
    line /\ ~stuck =>
        \/ \E t \in Timer : timers[t].st = "waiting"
        \/ cpc \in {"cancel", "new"}
        \/ cpc = "start" /\ timers[latest].st = "created"
        \/ Releasing

ReportInv ==
    \A z \in onFire : lastAlert[<<z, "fire">>] # Off \/ (cpc # "idle" /\ zone = z)

FireInv == FireTypeOK /\ TimerInv /\ HoldInv /\ ReleaseInv /\ ReportInv

----------------------------------------------------------------------------
(* Types. *)

\* A cooldown that starts or goes on is a number of ticks.
LEMMA CooledDownType ==
    ASSUME FireAssumption, FireTypeOK, NEW z \in Zone, NEW k \in Kind
    PROVE  /\ CooledDown(z, k) \in [Zone \X Kind -> 0..FireCooldown - 1 \cup {Off}]
           /\ CooledDown(z, k)[<<z, k>>] # Off
           /\ \A a \in Zone \X Kind : lastAlert[a] # Off => CooledDown(z, k)[a] # Off
BY DEF FireAssumption, FireTypeOK, CooledDown

\* Cancelling keeps the timers timers.
LEMMA CancelledType ==
    ASSUME FireAssumption, FireTypeOK
    PROVE  Cancelled \in [Timer -> [st : TimerState, left : 0..Hold]]
BY DEF FireAssumption, FireTypeOK, Cancelled, TimerState, Idle

LEMMA FireTypeNext == FireAssumption /\ FireTypeOK /\ [FireNext]_fireVars => FireTypeOK'
<1> SUFFICES ASSUME FireAssumption, FireTypeOK, [FireNext]_fireVars
             PROVE  FireTypeOK'
  OBVIOUS
<1> USE DEF FireTypeOK
<1>1. ASSUME NEW z \in Zone, NEW s \in {"temperature", "gas"}, NEW high \in BOOLEAN,
             Read(z, s, high)
      PROVE  FireTypeOK'
  <2>1. {temp, gas}' \subseteq [Zone -> 0..Correlation \cup {Off}]
    BY <1>1 DEF Read, FireAssumption
  <2>2. lastAlert' \in {lastAlert, CooledDown(z, "overheat"), CooledDown(z, "smoke")}
    BY <1>1 DEF Read
  <2>3. lastAlert' \in [Zone \X Kind -> 0..FireCooldown - 1 \cup {Off}]
    <3>1. {"overheat", "smoke"} \subseteq Kind
      BY DEF Kind
    <3>2. lastAlert \in [Zone \X Kind -> 0..FireCooldown - 1 \cup {Off}]
      OBVIOUS
    <3>3. \A k \in Kind : CooledDown(z, k) \in [Zone \X Kind -> 0..FireCooldown - 1 \cup {Off}]
      BY <1>1, CooledDownType
    <3> QED
      BY <2>2, <3>1, <3>2, <3>3
  <2> QED
    BY <1>1, <2>1, <2>3 DEF Read, relayVars
<1>2. CASE Engage
  BY <1>2 DEF Engage, Releasing
<1>3. CASE SwitchOn
  BY <1>3 DEF SwitchOn
<1>4. CASE CancelOld
  BY <1>4, CancelledType DEF CancelOld
<1>5. CASE NewTimer
  BY <1>5 DEF NewTimer, Unused, TimerState
<1>6. CASE StartTimer
  <2> DEFINE next == IF timers[latest].st = "created" THEN [st |-> "waiting", left |-> Hold]
                     ELSE Idle
  <2>1. next \in [st : TimerState, left : 0..Hold]
    BY DEF TimerState, Idle, FireAssumption
  <2>2. timers' = [timers EXCEPT ![latest] = next]
    BY <1>6 DEF StartTimer
  <2>3. timers' \in [Timer -> [st : TimerState, left : 0..Hold]]
    BY <2>1, <2>2
  <2> QED
    BY <1>6, <2>3 DEF StartTimer, FireAssumption
<1>7. CASE ReportFire
  BY <1>7, CooledDownType DEF ReportFire, relayVars, Kind
<1>8. ASSUME NEW t \in Timer, Expire(t)
      PROVE  FireTypeOK'
  BY <1>8 DEF Expire, TimerState
<1>9. ASSUME NEW t \in Timer, TimerReleases(t)
      PROVE  FireTypeOK'
  <2>1. timers' \in [Timer -> [st : TimerState, left : 0..Hold]]
    BY <1>9 DEF TimerReleases, TimerState, Idle, FireAssumption
  <2> QED
    BY <1>9, <2>1 DEF TimerReleases, SwitchOff
<1>10. CASE ResetCancels
  BY <1>10, CancelledType DEF ResetCancels, FireAssumption
<1>11. CASE ResetReleases
  BY <1>11 DEF ResetReleases, SwitchOff
<1>12. CASE FireTick
  BY <1>12 DEF FireTick, Aged, FireAssumption, Kind
<1>13. CASE UNCHANGED fireVars
  BY <1>13 DEF fireVars
<1> QED
  BY <1>1, <1>2, <1>3, <1>4, <1>5, <1>6, <1>7, <1>8, <1>9, <1>10, <1>11, <1>12, <1>13
  DEF FireNext, Consumer

----------------------------------------------------------------------------
(* One timer at a time. *)

\* What Timer.cancel does to each timer.
LEMMA CancelledMeans ==
    ASSUME FireAssumption, FireTypeOK, NEW t \in Timer
    PROVE  /\ t # latest => Cancelled[t] = timers[t]
           /\ timers[t].st = "waiting" => (t = latest => Cancelled[t] = Idle)
           /\ timers[t].st = "created" => (t = latest => Cancelled[t].st = "cancelled")
           /\ timers[t].st \notin {"waiting", "created"} => Cancelled[t] = timers[t]
<1>1. timers[t] \in [st : TimerState, left : 0..Hold]
  BY DEF FireTypeOK
<1>2. CASE t = latest
  <2>1. Cancelled[t] = IF timers[t].st = "waiting" THEN Idle
                       ELSE IF timers[t].st = "created"
                            THEN [timers[t] EXCEPT !.st = "cancelled"] ELSE timers[t]
    BY <1>2 DEF Cancelled, FireTypeOK, FireAssumption
  <2> QED
    BY <1>1, <1>2, <2>1
<1>3. CASE t # latest
  BY <1>3 DEF Cancelled, FireTypeOK
<1> QED
  BY <1>2, <1>3

\* What starting the new timer does to each timer.
LEMMA StartMeans ==
    ASSUME FireTypeOK, TimerInv, StartTimer, NEW t \in Timer
    PROVE  /\ t # latest => timers'[t] = timers[t]
           /\ t = latest /\ timers[t].st = "created" =>
                 timers'[t] = [st |-> "waiting", left |-> Hold]
           /\ t = latest /\ timers[t].st = "cancelled" => timers'[t] = Idle
BY DEF StartTimer, FireTypeOK, TimerInv

\* What making a new timer does to each timer.
LEMMA NewMeans ==
    ASSUME FireTypeOK, NewTimer
    PROVE  /\ cpc = "new" /\ cpc' = "start"
           /\ latest' \in Timer /\ timers[latest'] = Idle
           /\ timers'[latest'].st = "created"
           /\ \A t \in Timer : t # latest' => timers'[t] = timers[t]
<1>1. latest' \in Unused
  BY DEF NewTimer
<1>2. latest' \in Timer /\ timers[latest'] = Idle
  BY <1>1 DEF Unused
<1>3. timers' = [timers EXCEPT ![latest'] = [timers[latest'] EXCEPT !.st = "created"]]
  BY DEF NewTimer
<1>4. [timers[latest'] EXCEPT !.st = "created"].st = "created"
  BY <1>2 DEF Idle
<1>5. cpc = "new" /\ cpc' = "start"
  BY DEF NewTimer
<1> QED
  BY <1>2, <1>3, <1>4, <1>5 DEF FireTypeOK

\* What expiring does to each timer.
LEMMA ExpireMeans ==
    ASSUME FireTypeOK, NEW e \in Timer, Expire(e), NEW t \in Timer
    PROVE  /\ timers[e].st = "waiting" /\ timers[e].left = 0
           /\ t # e => timers'[t] = timers[t]
           /\ t = e => timers'[t].st = "mark"
<1>1. timers' = [timers EXCEPT ![e] = [timers[e] EXCEPT !.st = "mark"]]
  BY DEF Expire
<1>2. timers[e].st = "waiting" /\ timers[e].left = 0
  BY DEF Expire
<1>3. [timers[e] EXCEPT !.st = "mark"].st = "mark"
  BY <1>2 DEF Expire, FireTypeOK
<1> QED
  BY <1>1, <1>2, <1>3 DEF FireTypeOK

\* What a releasing timer does to each timer.
LEMMA ReleaseMeans ==
    ASSUME FireTypeOK, NEW r \in Timer, TimerReleases(r), NEW t \in Timer
    PROVE  /\ timers[r].st \in {"mark", "off"}
           /\ t # r => timers'[t] = timers[t]
           /\ t = r => timers'[t].st \in {"off", "none"}
<1>1. timers[r] \in [st : TimerState, left : 0..Hold]
  BY DEF FireTypeOK
<1>2. [timers[r] EXCEPT !.st = "off"].st = "off"
  BY <1>1
<1>3. \/ timers' = [timers EXCEPT ![r] = [timers[r] EXCEPT !.st = "off"]]
      \/ timers' = [timers EXCEPT ![r] = Idle]
  BY DEF TimerReleases
<1>4. timers[r].st \in {"mark", "off"}
  BY DEF TimerReleases
<1> QED
  BY <1>2, <1>3, <1>4 DEF FireTypeOK, Idle

\* What a tick does to each timer.
LEMMA TickMeans ==
    ASSUME FireTypeOK, FireTick, NEW t \in Timer
    PROVE  /\ timers'[t].st = timers[t].st
           /\ timers[t].st = "waiting" => /\ timers[t].left > 0
                                          /\ timers'[t].left = timers[t].left - 1
<1>1. timers[t] \in [st : TimerState, left : 0..Hold]
  BY DEF FireTypeOK
<1>2. timers'[t] = IF timers[t].st = "waiting"
                   THEN [timers[t] EXCEPT !.left = timers[t].left - 1] ELSE timers[t]
  BY DEF FireTick
<1> QED
  BY <1>1, <1>2 DEF FireTick

\* Only the latest timer waits, and the old one is out of the way when the new one
\* is made.
LEMMA TimerNext ==
    FireAssumption /\ FireTypeOK /\ TimerInv /\ [FireNext]_fireVars => TimerInv'
<1> SUFFICES ASSUME FireAssumption, FireTypeOK, TimerInv, [FireNext]_fireVars
             PROVE  TimerInv'
  OBVIOUS
<1>1. ASSUME UNCHANGED <<timers, latest>>, cpc \notin {"new", "start"},
             cpc' \notin {"new", "start"}
      PROVE  TimerInv'
  BY <1>1 DEF TimerInv
<1>2. ASSUME NEW z \in Zone, NEW s \in {"temperature", "gas"}, NEW high \in BOOLEAN,
             Read(z, s, high)
      PROVE  TimerInv'
  BY <1>1, <1>2 DEF Read, relayVars
<1>3. CASE Engage \/ SwitchOn \/ ReportFire
  BY <1>1, <1>3 DEF Engage, SwitchOn, ReportFire, relayVars
<1>4. CASE CancelOld
  BY <1>4, CancelledMeans DEF CancelOld, TimerInv, Idle
<1>5. CASE NewTimer
  BY <1>5, NewMeans DEF TimerInv
<1>6. CASE StartTimer
  BY <1>6, StartMeans DEF StartTimer, TimerInv, Idle
<1>7. ASSUME NEW e \in Timer, Expire(e)
      PROVE  TimerInv'
  <2>1. UNCHANGED <<latest, cpc>>
    BY <1>7 DEF Expire
  <2> QED
    BY <1>7, <2>1, ExpireMeans DEF TimerInv
<1>8. ASSUME NEW r \in Timer, TimerReleases(r)
      PROVE  TimerInv'
  <2>1. UNCHANGED <<latest, cpc>>
    BY <1>8 DEF TimerReleases
  <2> QED
    BY <1>8, <2>1, ReleaseMeans DEF TimerInv
<1>9. CASE ResetCancels
  BY <1>9, CancelledMeans DEF ResetCancels, TimerInv, Idle
<1>10. CASE ResetReleases
  BY <1>10 DEF ResetReleases, TimerInv
<1>11. CASE FireTick
  BY <1>11, TickMeans DEF FireTick, TimerInv
<1>12. CASE UNCHANGED fireVars
  BY <1>12 DEF fireVars, TimerInv
<1> QED
  BY <1>2, <1>3, <1>4, <1>5, <1>6, <1>7, <1>8, <1>9, <1>10, <1>11, <1>12
  DEF FireNext, Consumer

----------------------------------------------------------------------------
(* The hold time, the release, the report. *)

\* A confirmation that no release contested holds the relay for the promised time.
LEMMA HoldNext ==
    FireAssumption /\ FireTypeOK /\ TimerInv /\ HoldInv /\ [FireNext]_fireVars => HoldInv'
<1> SUFFICES ASSUME FireAssumption, FireTypeOK, TimerInv, HoldInv, [FireNext]_fireVars
             PROVE  HoldInv'
  OBVIOUS
<1>0. promised \in Nat /\ Hold \in Nat
  BY DEF FireTypeOK, FireAssumption
<1>1. ASSUME UNCHANGED relayVars, cpc \notin ConsumerAt, cpc' \notin ConsumerAt
      PROVE  HoldInv'
  BY <1>1 DEF HoldInv, relayVars, Releasing, ConsumerAt
<1>2. ASSUME NEW z \in Zone, NEW s \in {"temperature", "gas"}, NEW high \in BOOLEAN,
             Read(z, s, high)
      PROVE  HoldInv'
  BY <1>1, <1>2 DEF Read, ConsumerAt
<1>3. CASE ReportFire
  BY <1>1, <1>3 DEF ReportFire, ConsumerAt
<1>4. CASE Engage
  BY <1>4 DEF Engage, HoldInv, Releasing, ConsumerAt
<1>5. CASE SwitchOn
  BY <1>5 DEF SwitchOn, HoldInv, Releasing, ConsumerAt
<1>6. CASE CancelOld
  <2>1. Releasing' <=> Releasing
    BY <1>6, CancelledMeans DEF CancelOld, Releasing, Idle, FireTypeOK, TimerState
  <2> QED
    BY <1>6, <2>1 DEF CancelOld, HoldInv, ConsumerAt
<1>7. CASE NewTimer
  <2>1. Releasing' <=> Releasing
    <3>1. rpc' = rpc
      BY <1>7 DEF NewTimer
    <3> QED
      BY <1>7, <3>1, NewMeans DEF Releasing, Idle
  <2>2. UNCHANGED <<engaged, line, contested, promised>>
    BY <1>7 DEF NewTimer
  <2> QED
    BY <1>7, <2>1, <2>2, NewMeans DEF HoldInv, ConsumerAt
<1>8. CASE StartTimer
  <2>1. Releasing' <=> Releasing
    BY <1>8, StartMeans DEF StartTimer, Releasing, Idle, TimerInv
  <2>2. /\ cpc = "start" /\ cpc' = "report"
        /\ UNCHANGED <<engaged, line, contested>>
        /\ promised' = IF contested THEN 0 ELSE Hold
    BY <1>8 DEF StartTimer
  <2>3. ~contested => /\ timers'[latest].st = "waiting"
                      /\ timers'[latest].left = Hold
                      /\ latest \in Timer
    BY <1>8, <2>2, StartMeans DEF HoldInv, TimerInv
  <2>4. ~contested => line /\ engaged /\ ~Releasing
    BY <2>2 DEF HoldInv, ConsumerAt
  <2>5. promised' > 0 => ~contested /\ promised' = Hold
    BY <2>2
  <2> QED
    BY <1>0, <2>1, <2>2, <2>3, <2>4, <2>5 DEF HoldInv, ConsumerAt
<1>9. ASSUME NEW e \in Timer, Expire(e)
      PROVE  HoldInv'
  <2>1. /\ timers[e].st = "waiting" /\ timers[e].left = 0
        /\ cpc' = cpc /\ promised' = promised
    BY <1>9 DEF Expire
  <2>2. promised = 0
    BY <1>0, <2>1 DEF HoldInv, TimerInv
  <2>3. cpc # "idle" => contested'
    BY <1>9 DEF Expire
  <2> QED
    BY <1>0, <2>1, <2>2, <2>3 DEF HoldInv, ConsumerAt
<1>10. ASSUME NEW r \in Timer, TimerReleases(r)
       PROVE  HoldInv'
  <2>1. Releasing
    BY <1>10, ReleaseMeans DEF Releasing
  <2>2. cpc' = cpc /\ promised' = promised /\ contested' = contested
    BY <1>10 DEF TimerReleases
  <2>3. promised = 0 /\ (cpc \in ConsumerAt => contested)
    BY <1>0, <2>1 DEF HoldInv
  <2> QED
    BY <1>0, <2>2, <2>3 DEF HoldInv, ConsumerAt
<1>11. CASE ResetCancels
  BY <1>11 DEF ResetCancels, HoldInv
<1>12. CASE ResetReleases
  <2>1. Releasing
    BY <1>12 DEF ResetReleases, Releasing
  <2>2. cpc' = cpc /\ promised' = promised /\ contested' = contested
    BY <1>12 DEF ResetReleases
  <2>3. promised = 0 /\ (cpc \in ConsumerAt => contested)
    BY <1>0, <2>1 DEF HoldInv
  <2> QED
    BY <1>0, <2>2, <2>3 DEF HoldInv, ConsumerAt
<1>13. CASE FireTick
  <2>1. /\ cpc = "idle" /\ ~Releasing
        /\ UNCHANGED <<cpc, engaged, line, contested, rpc>>
        /\ promised' = IF promised > 0 THEN promised - 1 ELSE 0
    BY <1>13 DEF FireTick
  <2>2. ~Releasing'
    BY <1>13, <2>1, TickMeans DEF Releasing
  <2>3. ASSUME promised > 0
        PROVE  \E t \in Timer : timers'[t].st = "waiting" /\ timers'[t].left >= promised'
    <3>1. PICK t \in Timer : timers[t].st = "waiting" /\ timers[t].left >= promised
      BY <2>1, <2>3 DEF HoldInv
    <3>2. timers[t].left \in Nat
      BY DEF FireTypeOK, FireAssumption
    <3> QED
      BY <1>0, <1>13, <2>1, <2>3, <3>1, <3>2, TickMeans
  <2> QED
    BY <1>0, <2>1, <2>2, <2>3 DEF HoldInv, ConsumerAt
<1>14. CASE UNCHANGED fireVars
  BY <1>14 DEF fireVars, HoldInv, Releasing
<1> QED
  BY <1>2, <1>3, <1>4, <1>5, <1>6, <1>7, <1>8, <1>9, <1>10, <1>11, <1>12, <1>13, <1>14
  DEF FireNext, Consumer

\* While the line is on, somebody is left who will switch it off.
LEMMA ReleaseNext ==
    FireAssumption /\ FireTypeOK /\ TimerInv /\ ReleaseInv /\ [FireNext]_fireVars => ReleaseInv'
<1> SUFFICES ASSUME FireAssumption, FireTypeOK, TimerInv, ReleaseInv, [FireNext]_fireVars
             PROVE  ReleaseInv'
  OBVIOUS
<1>1. ASSUME UNCHANGED <<line, stuck, timers, rpc, latest>>, cpc \notin {"cancel", "new", "start"}
      PROVE  ReleaseInv'
  BY <1>1 DEF ReleaseInv, Releasing
<1>2. ASSUME NEW z \in Zone, NEW s \in {"temperature", "gas"}, NEW high \in BOOLEAN,
             Read(z, s, high)
      PROVE  ReleaseInv'
  BY <1>1, <1>2 DEF Read, relayVars
<1>3. CASE Engage \/ ReportFire
  BY <1>1, <1>3 DEF Engage, ReportFire, relayVars
<1>4. CASE SwitchOn
  BY <1>4 DEF SwitchOn, ReleaseInv
<1>5. CASE CancelOld
  BY <1>5 DEF CancelOld, ReleaseInv
<1>6. CASE NewTimer
  BY <1>6, NewMeans DEF ReleaseInv
<1>7. CASE StartTimer
  <2>1. Releasing => Releasing'
    BY <1>7, StartMeans DEF StartTimer, Releasing, TimerInv
  <2>2. cpc = "start" /\ UNCHANGED <<line, stuck>>
    BY <1>7 DEF StartTimer
  <2>3. timers[latest].st = "created" => \E t \in Timer : timers'[t].st = "waiting"
    BY <1>7, <2>2, StartMeans DEF TimerInv
  <2>4. ~ \E t \in Timer : timers[t].st = "waiting"
    BY <2>2 DEF TimerInv
  <2> QED
    BY <2>1, <2>2, <2>3, <2>4 DEF ReleaseInv
<1>8. ASSUME NEW e \in Timer, Expire(e)
      PROVE  ReleaseInv'
  BY <1>8, ExpireMeans DEF ReleaseInv, Releasing
<1>9. ASSUME NEW r \in Timer, TimerReleases(r)
      PROVE  ReleaseInv'
  <2>1. CASE timers'[r].st = "off"
    BY <2>1 DEF ReleaseInv, Releasing
  <2>2. CASE timers'[r].st # "off"
    <3>1. ~line' \/ stuck'
      <4>1. timers[r].st = "mark" => timers'[r].st = "off"
        BY <1>9 DEF TimerReleases, FireTypeOK
      <4> QED
        BY <1>9, <2>2, <4>1 DEF TimerReleases, SwitchOff
    <3> QED
      BY <3>1 DEF ReleaseInv
  <2> QED
    BY <2>1, <2>2
<1>10. CASE ResetCancels
  BY <1>10 DEF ResetCancels, ReleaseInv, Releasing
<1>11. CASE ResetReleases
  BY <1>11 DEF ResetReleases, SwitchOff, ReleaseInv, Releasing
<1>12. CASE FireTick
  <2>1. cpc = "idle" /\ ~Releasing /\ UNCHANGED <<line, stuck, cpc>>
    BY <1>12 DEF FireTick
  <2> QED
    BY <1>12, <2>1, TickMeans DEF ReleaseInv
<1>13. CASE UNCHANGED fireVars
  BY <1>13 DEF fireVars, ReleaseInv, Releasing
<1> QED
  BY <1>2, <1>3, <1>4, <1>5, <1>6, <1>7, <1>8, <1>9, <1>10, <1>11, <1>12, <1>13
  DEF FireNext, Consumer

\* A zone on fire stays reported until the tick ends.
LEMMA ReportNext ==
    FireAssumption /\ FireTypeOK /\ ReportInv /\ [FireNext]_fireVars => ReportInv'
<1> SUFFICES ASSUME FireAssumption, FireTypeOK, ReportInv, [FireNext]_fireVars
             PROVE  ReportInv'
  OBVIOUS
<1>1. ASSUME UNCHANGED <<onFire, lastAlert, zone>>, cpc # "idle" => cpc' # "idle"
      PROVE  ReportInv'
  BY <1>1 DEF ReportInv
<1>2. ASSUME NEW z \in Zone, NEW s \in {"temperature", "gas"}, NEW high \in BOOLEAN,
             Read(z, s, high)
      PROVE  ReportInv'
  <2>1. cpc = "idle" /\ lastAlert' \in {lastAlert, CooledDown(z, "overheat"), CooledDown(z, "smoke")}
    BY <1>2 DEF Read
  <2>2. \A a \in Zone \X Kind : lastAlert[a] # Off => lastAlert'[a] # Off
    BY <2>1, CooledDownType DEF Kind
  <2>3. onFire \subseteq Zone
    BY DEF FireTypeOK
  <2>4. \A y \in onFire : lastAlert'[<<y, "fire">>] # Off
    BY <2>1, <2>2, <2>3 DEF ReportInv, Kind
  <2>5. \/ onFire' = onFire
        \/ onFire' = onFire \cup {z} /\ zone' = z /\ cpc' = "engage"
    BY <1>2 DEF Read
  <2> QED
    BY <2>4, <2>5 DEF ReportInv
<1>3. CASE ReportFire
  <2>1. lastAlert' = CooledDown(zone, "fire") /\ UNCHANGED <<onFire, zone>>
    BY <1>3 DEF ReportFire
  <2>2. /\ lastAlert'[<<zone, "fire">>] # Off
        /\ \A a \in Zone \X Kind : lastAlert[a] # Off => lastAlert'[a] # Off
    BY <2>1, CooledDownType DEF Kind, FireTypeOK
  <2>3. onFire \subseteq Zone
    BY DEF FireTypeOK
  <2> QED
    BY <2>1, <2>2, <2>3 DEF ReportInv, Kind
<1>4. CASE Engage \/ SwitchOn \/ CancelOld \/ NewTimer \/ StartTimer
  BY <1>1, <1>4 DEF Engage, SwitchOn, CancelOld, NewTimer, StartTimer
<1>5. ASSUME NEW t \in Timer, Expire(t) \/ TimerReleases(t)
      PROVE  ReportInv'
  BY <1>1, <1>5 DEF Expire, TimerReleases
<1>6. CASE ResetCancels \/ ResetReleases
  BY <1>1, <1>6 DEF ResetCancels, ResetReleases
<1>7. CASE FireTick
  BY <1>7 DEF FireTick, ReportInv
<1>8. CASE UNCHANGED fireVars
  BY <1>1, <1>8 DEF fireVars
<1> QED
  BY <1>2, <1>3, <1>4, <1>5, <1>6, <1>7, <1>8 DEF FireNext, Consumer

----------------------------------------------------------------------------

LEMMA FireInvInit == FireAssumption /\ FireInit => FireInv
<1> SUFFICES ASSUME FireAssumption, FireInit
             PROVE  FireInv
  OBVIOUS
<1>1. FireTypeOK
  <2>1. Idle \in [st : TimerState, left : 0..Hold]
    BY DEF Idle, TimerState, FireAssumption
  <2>2. timers \in [Timer -> [st : TimerState, left : 0..Hold]]
    BY <2>1 DEF FireInit
  <2>3. lastAlert \in [Zone \X Kind -> 0..FireCooldown - 1 \cup {Off}]
    BY DEF FireInit
  <2>4. {temp, gas} \subseteq [Zone -> 0..Correlation \cup {Off}]
    BY DEF FireInit
  <2>5. promised \in 0..Hold
    BY DEF FireInit, FireAssumption
  <2> QED
    BY <2>2, <2>3, <2>4, <2>5 DEF FireInit, FireTypeOK
<1>2. TimerInv
  BY DEF FireInit, TimerInv, Idle
<1>3. HoldInv /\ ReleaseInv /\ ReportInv
  BY DEF FireInit, HoldInv, ReleaseInv, ReportInv, ConsumerAt
<1> QED
  BY <1>1, <1>2, <1>3 DEF FireInv

LEMMA FireInvNext == FireAssumption /\ FireInv /\ [FireNext]_fireVars => FireInv'
BY FireTypeNext, TimerNext, HoldNext, ReleaseNext, ReportNext DEF FireInv

LEMMA FireInvImplies == FireInv => FireIsAnswered
BY DEF FireInv, HoldInv, ReleaseInv, ReportInv, FireIsAnswered

\* A fire has the relay on for the promised time and has been reported, and somebody
\* is always left to switch the relay off again (fire_system_agent/main.py,
\* _engage_relay), in every interleaving of the consumer, any number of timers and
\* the reset, and whichever GPIO calls fail.
THEOREM FireAnswered == ASSUME FireAssumption PROVE FireSpec => []FireIsAnswered
<1>1. FireInit => FireInv
  BY FireInvInit
<1>2. FireInv /\ [FireNext]_fireVars => FireInv'
  BY FireInvNext
<1> QED
  BY <1>1, <1>2, FireInvImplies, PTL DEF FireSpec

\* The relay, its timers, the readings kept and the alerts remembered keep their
\* types whatever thread runs next (FireRelay, FireSystemAgent).
THEOREM FireTypeCorrect == ASSUME FireAssumption PROVE FireSpec => []FireTypeOK
<1>1. FireInit => FireInv
  BY FireInvInit
<1>2. FireInv /\ [FireNext]_fireVars => FireInv'
  BY FireInvNext
<1>3. FireInv => FireTypeOK
  BY DEF FireInv
<1> QED
  BY <1>1, <1>2, <1>3, PTL DEF FireSpec

-----------------------------------------------------------------------------
(* Baselines: types.                                                       *)

Learned == [ports : SUBSET (Allowed \cup Port), far : BOOLEAN, frozen : BOOLEAN]
Snapshot == [ports : SUBSET (Allowed \cup Port), far : BOOLEAN, age : 0..Day]
Waited == [port : Port, days : 1..WindowDays + 1, today : BOOLEAN, age : 0..WindowDays * Day + 1]

BaselineTypes ==
    /\ adaptive \in [Device -> {None} \cup Learned]
    /\ snapshot \in [Device -> {None} \cup Snapshot]
    /\ drifted \in [Device -> Nat \cup {None}]
    /\ diverged \in [Device -> 0..CheckEvery]
    /\ checkAge \in 0..CheckEvery
    /\ hours \in 0..Day - 1
    /\ todo \subseteq Tracked
    /\ rolling \in todo \cup {None}

LEMMA BaselineNumbers ==
  /\ MinDays \in Nat /\ WindowDays \in Nat /\ Day \in Nat /\ CheckEvery \in Nat
  /\ DriftCooldown \in Nat /\ WindowDays * Day \in Nat
  /\ Day > 0 /\ MinDays > 0 /\ CheckEvery > 0 /\ DriftCooldown <= CheckEvery
BY BaselineAssumption

LEMMA NoneIsNothing ==
  /\ None \notin Learned /\ None \notin Device /\ None \notin Nat /\ NoPort \notin Port
BY BaselineAssumption DEF Learned

\* The entry of a port after a flow to it is this port's.
LEMMA CountedIs == \A d \in Device, p \in Port : \A e \in Counted(d, p) : e.port = p
<1> SUFFICES ASSUME NEW d \in Device, NEW p \in Port, NEW e \in Counted(d, p)
             PROVE  e.port = p
  OBVIOUS
<1> DEFINE old == {x \in quarantine[d] : x.port = p}
           first == [port |-> p, days |-> 1, today |-> TRUE, age |-> 0]
           again(x) == [x EXCEPT !.days = IF x.today THEN @ ELSE @ + 1, !.today = TRUE]
<1>1. CASE old = {}
  BY <1>1 DEF Counted
<1>2. CASE old # {}
  <2>1. PICK x \in old : e = again(x)
    BY <1>2 DEF Counted
  <2> QED
    BY <2>1
<1> QED
  BY <1>1, <1>2

\* What learning from a flow to port p, or from one without a port, leaves of d.
LEMMA LearnIs ==
  ASSUME NEW d \in Device, NEW p \in Port \cup {NoPort}, NEW b \in Learned, Learn(d, p, b),
         BaselineTypes
  PROVE  \E next \in Learned, frequent \in BOOLEAN :
            /\ next.frozen = b.frozen
            /\ next.ports = b.ports \cup (IF p = NoPort THEN {} ELSE Graduated(d, p, frequent))
            /\ adaptive' = [adaptive EXCEPT ![d] = next]
            /\ snapshot' \in [Device -> {None} \cup Snapshot]
            /\ diverged' = [diverged EXCEPT ![d] = IF Diverges(next) THEN @ ELSE 0]
            /\ IF p = NoPort
               THEN UNCHANGED <<quarantine, learnedOn>>
               ELSE /\ quarantine' = [quarantine EXCEPT ![d] = Waiting(d, p, frequent)]
                    /\ learnedOn' = [learnedOn EXCEPT ![d][p] = @ \cup {0}]
<1> DEFINE learnt(frequent) == IF p = NoPort THEN {} ELSE Graduated(d, p, frequent)
           next(far, frequent) == [b EXCEPT !.far = far, !.ports = @ \cup learnt(frequent)]
<1>1. PICK far \in BOOLEAN, frequent \in BOOLEAN :
         /\ adaptive' = [adaptive EXCEPT ![d] = next(far, frequent)]
         /\ snapshot' = [snapshot EXCEPT ![d] = Saved(d, next(far, frequent))]
         /\ diverged' = [diverged EXCEPT ![d] = IF Diverges(next(far, frequent)) THEN @ ELSE 0]
         /\ IF p = NoPort
            THEN UNCHANGED <<quarantine, learnedOn>>
            ELSE /\ quarantine' = [quarantine EXCEPT ![d] = Waiting(d, p, frequent)]
                 /\ learnedOn' = [learnedOn EXCEPT ![d][p] = @ \cup {0}]
  BY DEF Learn
<1>2. learnt(frequent) \subseteq Port
  <2>1. p # NoPort => p \in Port
    OBVIOUS
  <2>2. p # NoPort => \A e \in Counted(d, p) : e.port = p
    BY <2>1, CountedIs
  <2> QED
    BY <2>1, <2>2 DEF Graduated
<1> DEFINE n == next(far, frequent)
<1>3. n \in Learned /\ n.frozen = b.frozen /\ n.ports = b.ports \cup learnt(frequent)
  <2> HIDE DEF learnt
  <2> QED
    BY <1>2 DEF Learned
<1> HIDE DEF n
<1>4. Saved(d, n) \in {None} \cup Snapshot
  BY <1>3, BaselineNumbers DEF Saved, BaselineTypes, Snapshot, Learned
<1>5. snapshot' \in [Device -> {None} \cup Snapshot]
  BY <1>1, <1>4 DEF BaselineTypes, n
<1> QED
  BY <1>1, <1>3, <1>5 DEF n

LEMMA FlowLearns ==
  ASSUME NEW d \in Device, BaselineTypes
  PROVE  (IF d \in Tracked THEN adaptive[d] ELSE Untaught) \in Learned
BY DEF BaselineTypes, Tracked, Untaught, Learned

LEMMA BaselineTypesInit == BaselineInit => BaselineTypes
<1> SUFFICES ASSUME BaselineInit PROVE BaselineTypes
  OBVIOUS
<1>1. 0 \in 0..CheckEvery /\ 0 \in 0..Day - 1
  BY BaselineNumbers
<1> QED
  BY <1>1 DEF BaselineInit, BaselineTypes

LEMMA BaselineTypesStep == BaselineTypes /\ [BaselineNext]_baselineVars => BaselineTypes'
<1> SUFFICES ASSUME BaselineTypes, [BaselineNext]_baselineVars PROVE BaselineTypes'
  OBVIOUS
<1>1. ASSUME NEW d \in Device, NEW p \in Port \cup {NoPort}, BaselineFlow(d, p)
      PROVE  BaselineTypes'
  <2> DEFINE b == IF d \in Tracked THEN adaptive[d] ELSE Untaught
  <2>1. b \in Learned
    BY FlowLearns
  <2>2. /\ adaptive' \in [Device -> {None} \cup Learned]
        /\ snapshot' \in [Device -> {None} \cup Snapshot]
        /\ diverged' \in [Device -> 0..CheckEvery]
        /\ Tracked' = Tracked \cup {d}
    <3>1. CASE b.frozen
      <4>1. UNCHANGED <<adaptive, snapshot, diverged>>
        BY <1>1, <3>1 DEF BaselineFlow
      <4>2. d \in Tracked
        BY <3>1 DEF Untaught
      <4> QED
        BY <4>1, <4>2 DEF BaselineTypes, Tracked
    <3>2. CASE ~b.frozen
      <4>1. Learn(d, p, b)
        BY <1>1, <3>2 DEF BaselineFlow
      <4> HIDE DEF b
      <4>2. PICK next \in Learned :
               /\ adaptive' = [adaptive EXCEPT ![d] = next]
               /\ snapshot' \in [Device -> {None} \cup Snapshot]
               /\ diverged' = [diverged EXCEPT ![d] = IF Diverges(next) THEN @ ELSE 0]
        BY <2>1, <4>1, LearnIs
      <4>3. next # None
        BY NoneIsNothing
      <4>4. diverged' \in [Device -> 0..CheckEvery]
        BY <4>2, BaselineNumbers DEF BaselineTypes
      <4> QED
        BY <4>2, <4>3, <4>4 DEF BaselineTypes, Tracked
    <3> QED
      BY <3>1, <3>2
  <2>3. /\ todo = {} /\ UNCHANGED <<drifted, rolling, hours>>
        /\ (checkAge' = 0 /\ todo' = Tracked \cup {d}) \/ UNCHANGED <<checkAge, todo>>
    BY <1>1 DEF BaselineFlow
  <2> QED
    BY <2>2, <2>3, BaselineNumbers DEF BaselineTypes
<1>2. ASSUME NEW d \in Device, Compare(d) PROVE BaselineTypes'
  <2>1. d \in todo /\ adaptive[d] \in Learned /\ rolling = None
    BY <1>2 DEF Compare, BaselineTypes, Tracked
  <2>2. /\ UNCHANGED <<snapshot, drifted, checkAge, hours>>
        /\ \/ /\ adaptive' = [adaptive EXCEPT ![d].frozen = TRUE]
              /\ diverged' = [diverged EXCEPT ![d] = 0] /\ rolling' = d /\ todo' = todo
           \/ todo' = todo \ {d} /\ UNCHANGED <<adaptive, diverged, rolling>>
    BY <1>2 DEF Compare
  <2>3. CASE /\ adaptive' = [adaptive EXCEPT ![d].frozen = TRUE]
             /\ diverged' = [diverged EXCEPT ![d] = 0] /\ rolling' = d /\ todo' = todo
    <3> DEFINE new == [adaptive[d] EXCEPT !.frozen = TRUE]
    <3>1. new \in Learned /\ new # None
      <4>1. new \in Learned
        BY <2>1 DEF Learned
      <4> QED
        BY <4>1, NoneIsNothing
    <3>2. adaptive' = [adaptive EXCEPT ![d] = new]
      BY <2>3
    <3> HIDE DEF new
    <3>3. adaptive' \in [Device -> {None} \cup Learned] /\ Tracked' = Tracked
      BY <2>1, <3>1, <3>2 DEF BaselineTypes, Tracked
    <3> QED
      BY <2>1, <2>2, <2>3, <3>3, BaselineNumbers DEF BaselineTypes
  <2>4. CASE todo' = todo \ {d} /\ UNCHANGED <<adaptive, diverged, rolling>>
    BY <2>1, <2>2, <2>4 DEF BaselineTypes, Tracked
  <2> QED
    BY <2>2, <2>3, <2>4
<1>3. ASSUME NEW d \in Device, RollBack(d) PROVE BaselineTypes'
  <2>1. d \in todo /\ adaptive[d] \in Learned
    BY <1>3, NoneIsNothing DEF RollBack, BaselineTypes, Tracked
  <2>2. /\ UNCHANGED <<snapshot, diverged, checkAge, hours>>
        /\ todo' = todo \ {d} /\ rolling' = None
        /\ drifted' = drifted \/ drifted' = [drifted EXCEPT ![d] = 0]
        /\ adaptive' = IF snapshot[d] = None THEN adaptive
                       ELSE [adaptive EXCEPT ![d].ports = snapshot[d].ports,
                                             ![d].far = snapshot[d].far]
    BY <1>3 DEF RollBack
  <2>3. adaptive' \in [Device -> {None} \cup Learned] /\ Tracked' = Tracked
    <3>1. CASE snapshot[d] = None
      BY <2>2, <3>1 DEF BaselineTypes, Tracked
    <3>2. CASE snapshot[d] # None
      <4> DEFINE new == [adaptive[d] EXCEPT !.ports = snapshot[d].ports, !.far = snapshot[d].far]
      <4>1. snapshot[d] \in Snapshot
        BY <3>2 DEF BaselineTypes
      <4>2. new \in Learned
        BY <2>1, <4>1 DEF Learned, Snapshot
      <4>3. new # None
        BY <4>2, NoneIsNothing
      <4>4. adaptive' = [adaptive EXCEPT ![d] = new]
        BY <2>2, <3>2 DEF BaselineTypes
      <4> HIDE DEF new
      <4> QED
        BY <2>1, <4>2, <4>3, <4>4 DEF BaselineTypes, Tracked
    <3> QED
      BY <3>1, <3>2
  <2>4. drifted' \in [Device -> Nat \cup {None}]
    BY <2>2 DEF BaselineTypes
  <2> QED
    BY <2>2, <2>3, <2>4 DEF BaselineTypes
<1>4. ASSUME NEW d \in Device, Unfreeze(d) PROVE BaselineTypes'
  <2> DEFINE new == [adaptive[d] EXCEPT !.frozen = FALSE]
  <2>1. new \in Learned
    BY <1>4 DEF Unfreeze, BaselineTypes, Tracked, Learned
  <2>2. new # None
    BY <2>1, NoneIsNothing
  <2>3. /\ adaptive' = [adaptive EXCEPT ![d] = new] /\ diverged' = [diverged EXCEPT ![d] = 0]
        /\ UNCHANGED <<snapshot, drifted, checkAge, todo, rolling, hours>> /\ d \in Tracked
    BY <1>4 DEF Unfreeze
  <2> HIDE DEF new
  <2>4. adaptive' \in [Device -> {None} \cup Learned] /\ Tracked' = Tracked
    BY <2>1, <2>2, <2>3 DEF BaselineTypes, Tracked
  <2>5. diverged' \in [Device -> 0..CheckEvery]
    BY <2>3, BaselineNumbers DEF BaselineTypes
  <2> QED
    BY <2>3, <2>4, <2>5 DEF BaselineTypes
<1>5. CASE BaselineTick
  <2>1. UNCHANGED <<adaptive, todo, rolling>>
    BY <1>5 DEF BaselineTick
  <2>2. hours' \in 0..Day - 1
    <3>1. \A n \in Nat : (n + 1) % Day \in 0..Day - 1
      <4>1. Day \in Nat /\ Day > 0
        BY BaselineNumbers
      <4> QED
        BY <4>1
    <3>2. hours \in Nat
      BY BaselineNumbers DEF BaselineTypes
    <3> QED
      BY <1>5, <3>1, <3>2 DEF BaselineTick
  <2>3. checkAge' \in 0..CheckEvery /\ diverged' \in [Device -> 0..CheckEvery]
    <3>1. \A n \in 0..CheckEvery : Ticked(n, CheckEvery) \in 0..CheckEvery
      BY BaselineNumbers DEF Ticked
    <3>2. 0 \in 0..CheckEvery
      BY BaselineNumbers
    <3>3. checkAge' \in 0..CheckEvery
      BY <1>5, <3>1 DEF BaselineTick, BaselineTypes
    <3>4. \A d \in Device :
            (IF d \in Tracked /\ Diverges(adaptive[d]) /\ ~adaptive[d].frozen
             THEN Ticked(diverged[d], CheckEvery) ELSE 0) \in 0..CheckEvery
      BY <3>1, <3>2 DEF BaselineTypes
    <3> QED
      BY <1>5, <3>3, <3>4 DEF BaselineTick
  <2>4. drifted' \in [Device -> Nat \cup {None}]
    <3>1. \A d \in Device : (IF drifted[d] = None \/ drifted[d] + 1 >= DriftCooldown
                             THEN None ELSE drifted[d] + 1) \in Nat \cup {None}
      BY DEF BaselineTypes
    <3> QED
      BY <1>5, <3>1 DEF BaselineTick
  <2>5. snapshot' \in [Device -> {None} \cup Snapshot]
    <3>1. \A d \in Device : (IF snapshot[d] = None THEN None
                             ELSE [snapshot[d] EXCEPT !.age = Ticked(@, Day)]) \in {None} \cup Snapshot
      BY BaselineNumbers DEF BaselineTypes, Snapshot, Ticked
    <3> QED
      BY <1>5, <3>1 DEF BaselineTick
  <2> QED
    BY <2>1, <2>2, <2>3, <2>4, <2>5 DEF BaselineTypes, Tracked
<1>6. CASE UNCHANGED baselineVars
  BY <1>6 DEF baselineVars, BaselineTypes, Tracked
<1> QED
  BY <1>1, <1>2, <1>3, <1>4, <1>5, <1>6 DEF BaselineNext, Work

-----------------------------------------------------------------------------
(* Baselines: drift.                                                       *)

\* The agent has known of a divergence no longer than since its latest check, and
\* holds an alert about drift back only between the checks.
DriftInv ==
    /\ \A d \in Device :
          /\ diverged[d] > 0 => d \in Tracked /\ Diverges(adaptive[d]) /\ ~adaptive[d].frozen
          /\ d \notin todo => diverged[d] <= checkAge
          /\ drifted[d] # None /\ drifted[d] < DriftCooldown => drifted[d] = checkAge /\ d \notin todo
    /\ todo # {} => checkAge = 0
    /\ rolling # None => diverged[rolling] = 0

\* What DriftIsCaught says of a step.
Caught ==
    /\ Work /\ todo' = {} =>
          \A d \in Tracked' :
              ~adaptive'[d].frozen /\ Diverges(adaptive'[d]) => diverged'[d] < CheckEvery
    /\ rolling # None /\ rolling' = None => published' = {"baseline_drift"}

LEMMA DriftInit == BaselineInit => DriftInv
<1> SUFFICES ASSUME BaselineInit PROVE DriftInv
  OBVIOUS
<1> QED
  BY BaselineNumbers DEF BaselineInit, DriftInv

LEMMA DriftStep ==
  BaselineTypes /\ BaselineTypes' /\ DriftInv /\ [BaselineNext]_baselineVars
      => DriftInv' /\ [Caught]_baselineVars
<1> SUFFICES ASSUME BaselineTypes, BaselineTypes', DriftInv, [BaselineNext]_baselineVars
             PROVE  DriftInv' /\ [Caught]_baselineVars
  OBVIOUS
<1> USE BaselineNumbers, NoneIsNothing
<1> HIDE DEF Diverges
<1>1. ASSUME NEW d \in Device, NEW p \in Port \cup {NoPort}, BaselineFlow(d, p)
      PROVE  DriftInv' /\ Caught
  <2> DEFINE b == IF d \in Tracked THEN adaptive[d] ELSE Untaught
  <2>1. b \in Learned
    BY FlowLearns
  <2>2. /\ todo = {} /\ UNCHANGED <<drifted, rolling, hours>> /\ rolling = None
        /\ IF CheckDue THEN checkAge' = 0 /\ todo' = Tracked \cup {d}
           ELSE UNCHANGED <<checkAge, todo>>
    BY <1>1 DEF BaselineFlow, BaselineTypes
  <2>3. /\ \A e \in Device \ {d} : adaptive'[e] = adaptive[e] /\ diverged'[e] = diverged[e]
        /\ diverged'[d] \in {0, diverged[d]}
        /\ diverged'[d] > 0 => d \in Tracked' /\ Diverges(adaptive'[d]) /\ ~adaptive'[d].frozen
    <3>1. CASE b.frozen
      <4>1. UNCHANGED <<adaptive, diverged>>
        BY <1>1, <3>1 DEF BaselineFlow
      <4> QED
        BY <4>1 DEF DriftInv, BaselineTypes, Tracked
    <3>2. CASE ~b.frozen
      <4>1. Learn(d, p, b)
        BY <1>1, <3>2 DEF BaselineFlow
      <4> HIDE DEF b
      <4>2. PICK next \in Learned :
               /\ next.frozen = b.frozen /\ adaptive' = [adaptive EXCEPT ![d] = next]
               /\ diverged' = [diverged EXCEPT ![d] = IF Diverges(next) THEN @ ELSE 0]
        BY <2>1, <4>1, LearnIs
      <4>3. adaptive'[d] = next /\ next # None
        BY <4>2 DEF BaselineTypes
      <4>4. \A e \in Device \ {d} : adaptive'[e] = adaptive[e] /\ diverged'[e] = diverged[e]
        BY <4>2 DEF BaselineTypes
      <4>5. diverged'[d] = IF Diverges(next) THEN diverged[d] ELSE 0
        BY <4>2 DEF BaselineTypes
      <4> QED
        BY <3>2, <4>2, <4>3, <4>4, <4>5 DEF Tracked
    <3> QED
      BY <3>1, <3>2
  <2>4. \A e \in Device : diverged'[e] > 0 =>
                             e \in Tracked' /\ Diverges(adaptive'[e]) /\ ~adaptive'[e].frozen
    BY <2>3 DEF DriftInv, Tracked
  <2>5. \A e \in Device : diverged[e] \in Nat /\ diverged[e] <= checkAge /\ diverged'[e] <= diverged[e]
    BY <2>2, <2>3 DEF DriftInv, BaselineTypes
  <2>6. CASE CheckDue
    <3>1. checkAge' = 0 /\ todo' = Tracked \cup {d} /\ checkAge = CheckEvery
      BY <2>2, <2>6 DEF CheckDue, BaselineTypes
    <3>2. \A e \in Device \ todo' : diverged'[e] <= 0
      <4> SUFFICES ASSUME NEW e \in Device \ todo' PROVE diverged'[e] <= 0
        OBVIOUS
      <4>1. e # d /\ e \notin Tracked
        BY <3>1
      <4> QED
        BY <2>3, <2>5, <4>1 DEF DriftInv
    <3>3. \A e \in Device : drifted[e] # None => ~(drifted[e] < DriftCooldown)
      BY <3>1 DEF DriftInv, BaselineTypes
    <3> QED
      BY <2>2, <2>4, <3>1, <3>2, <3>3 DEF DriftInv, Caught
  <2>7. CASE ~CheckDue
    <3>1. UNCHANGED <<checkAge, todo>> /\ checkAge < CheckEvery
      BY <2>2, <2>7 DEF CheckDue, BaselineTypes
    <3>2. \A e \in Device : diverged'[e] <= checkAge /\ diverged'[e] < CheckEvery
      BY <2>3, <2>5, <3>1 DEF BaselineTypes
    <3>3. \A e \in Tracked' : e \in Device
      BY DEF Tracked
    <3> QED
      BY <2>2, <2>4, <3>1, <3>2, <3>3 DEF DriftInv, Caught
  <2> QED
    BY <2>6, <2>7
<1>2. ASSUME NEW d \in Device, Compare(d) PROVE DriftInv' /\ Caught
  <2>1. /\ rolling = None /\ d \in todo /\ checkAge = 0
        /\ UNCHANGED <<snapshot, drifted, checkAge, hours>>
    BY <1>2 DEF Compare, DriftInv
  <2>2. CASE Diverges(adaptive[d])
    <3>1. /\ adaptive' = [adaptive EXCEPT ![d].frozen = TRUE]
          /\ diverged' = [diverged EXCEPT ![d] = 0] /\ rolling' = d /\ todo' = todo
      BY <1>2, <2>2 DEF Compare
    <3>2. /\ \A e \in Device \ {d} : adaptive'[e] = adaptive[e] /\ diverged'[e] = diverged[e]
          /\ diverged'[d] = 0
      BY <3>1 DEF BaselineTypes
    <3> QED
      BY <2>1, <3>1, <3>2 DEF DriftInv, Caught, Tracked
  <2>3. CASE ~Diverges(adaptive[d])
    <3>1. todo' = todo \ {d} /\ UNCHANGED <<adaptive, diverged, rolling>>
      BY <1>2, <2>3 DEF Compare
    <3>2. diverged[d] = 0
      BY <2>3 DEF DriftInv, BaselineTypes
    <3>3. DriftInv'
      BY <2>1, <3>1, <3>2 DEF DriftInv, Tracked
    <3>4. todo' = {} => \A e \in Device : diverged'[e] <= 0
      BY <2>1, <3>1, <3>2 DEF DriftInv
    <3> QED
      BY <2>1, <3>1, <3>3, <3>4 DEF Caught, Tracked, BaselineTypes
  <2> QED
    BY <2>2, <2>3
<1>3. ASSUME NEW d \in Device, RollBack(d) PROVE DriftInv' /\ Caught
  <2>1. /\ rolling = d /\ d \in todo /\ checkAge = 0 /\ diverged[d] = 0
        /\ UNCHANGED <<snapshot, diverged, checkAge, hours>>
        /\ todo' = todo \ {d} /\ rolling' = None
    BY <1>3 DEF RollBack, DriftInv, BaselineTypes
  <2>2. ~(drifted[d] # None /\ drifted[d] < DriftCooldown)
    BY <2>1 DEF DriftInv
  <2>3. published' = {"baseline_drift"} /\ drifted' = [drifted EXCEPT ![d] = 0]
    BY <1>3, <2>2 DEF RollBack
  <2>4. \A e \in Device \ {d} : adaptive'[e] = adaptive[e] /\ drifted'[e] = drifted[e]
    BY <1>3, <2>3 DEF RollBack, BaselineTypes
  <2>5. drifted'[d] = 0
    BY <2>3 DEF BaselineTypes
  <2>6. DriftInv'
    BY <2>1, <2>4, <2>5 DEF DriftInv, Tracked
  <2>7. todo' = {} => \A e \in Device : diverged'[e] <= 0
    BY <2>1 DEF DriftInv
  <2> QED
    BY <2>1, <2>3, <2>6, <2>7 DEF Caught, Tracked, BaselineTypes
<1>4. ASSUME Work PROVE DriftInv' /\ Caught
  BY <1>1, <1>2, <1>3, <1>4 DEF Work
<1>5. ASSUME NEW d \in Device, Unfreeze(d) PROVE DriftInv' /\ Caught
  <2>1. /\ UNCHANGED <<drifted, checkAge, todo, rolling>>
        /\ \A e \in Device \ {d} : adaptive'[e] = adaptive[e] /\ diverged'[e] = diverged[e]
        /\ diverged'[d] = 0
    BY <1>5 DEF Unfreeze, BaselineTypes
  <2>2. DriftInv'
    BY <2>1 DEF DriftInv, Tracked, BaselineTypes
  <2> QED
    BY <1>4, <2>1, <2>2 DEF Caught
<1>6. CASE BaselineTick
  <2>1. /\ todo = {} /\ rolling = None /\ UNCHANGED <<adaptive, todo, rolling>>
        /\ checkAge' = Ticked(checkAge, CheckEvery)
        /\ \A d \in Device :
             /\ diverged'[d] = IF d \in Tracked /\ Diverges(adaptive[d]) /\ ~adaptive[d].frozen
                               THEN Ticked(diverged[d], CheckEvery) ELSE 0
             /\ drifted'[d] = IF drifted[d] = None \/ drifted[d] + 1 >= DriftCooldown
                              THEN None ELSE drifted[d] + 1
    BY <1>6 DEF BaselineTick, BaselineTypes
  <2>2. ASSUME NEW d \in Device
        PROVE  /\ diverged'[d] > 0 => d \in Tracked' /\ Diverges(adaptive'[d]) /\ ~adaptive'[d].frozen
               /\ diverged'[d] <= checkAge'
               /\ drifted'[d] # None /\ drifted'[d] < DriftCooldown => drifted'[d] = checkAge'
    <3>1. diverged[d] \in 0..CheckEvery /\ diverged[d] <= checkAge /\ checkAge \in 0..CheckEvery
      BY <2>1 DEF DriftInv, BaselineTypes
    <3>2. diverged'[d] <= checkAge'
      BY <2>1, <3>1 DEF Ticked
    <3>3. ASSUME drifted'[d] # None PROVE drifted'[d] = checkAge'
      <4>1. drifted[d] \in Nat /\ drifted[d] + 1 < DriftCooldown /\ drifted'[d] = drifted[d] + 1
        BY <2>1, <3>3 DEF BaselineTypes
      <4>2. drifted[d] = checkAge
        BY <4>1 DEF DriftInv
      <4> QED
        BY <2>1, <4>1, <4>2 DEF Ticked
    <3> QED
      BY <2>1, <3>2, <3>3 DEF Tracked
  <2>3. DriftInv'
    BY <2>1, <2>2 DEF DriftInv
  <2> QED
    BY <1>4, <2>1, <2>3 DEF Caught
<1>7. CASE UNCHANGED baselineVars
  BY <1>7 DEF baselineVars, DriftInv, Tracked
<1> QED
  BY <1>4, <1>5, <1>6, <1>7 DEF BaselineNext, Work

\* The canary check catches drift (_run_canary_check and unfreeze_device of
\* ndr_main.py): once the agent is done with a flow, no baseline that is not frozen
\* has been off its canary for as long as CANARY_CHECK_INTERVAL, whatever was
\* copied back and whenever an analyst took a freeze off, and every rollback is
\* reported: the cooldown of its alert is over by then.
THEOREM DriftCaught == BaselineSpec => DriftIsCaught
<1>1. BaselineInit => BaselineTypes /\ DriftInv
  BY BaselineTypesInit, DriftInit
<1>2. BaselineTypes /\ DriftInv /\ [BaselineNext]_baselineVars
         => (BaselineTypes /\ DriftInv)' /\ [Caught]_baselineVars
  BY BaselineTypesStep, DriftStep
<1>3. DriftIsCaught <=> [][Caught]_baselineVars
  BY DEF DriftIsCaught, Caught
<1> QED
  BY <1>1, <1>2, <1>3, PTL DEF BaselineSpec

-----------------------------------------------------------------------------
(* Baselines: quarantine.                                                  *)

QuarantineTypes ==
    /\ quarantine \in [Device -> SUBSET Waited]
    /\ learnedOn \in [Device -> [Port -> SUBSET (0..WindowDays)]]

\* The days that entry e counts are among the days D on which its port was learned
\* from, back to the day the entry was made, f days ago; its age tells that day.
Honest(e, D, now) ==
    \E f \in 0..WindowDays :
        /\ e.days <= Cardinality(D \cap (0..f))
        /\ f > 0 => e.age >= now + (f - 1) * Day + 1

\* An entry that has not expired counts no day twice and none that is not there,
\* and has counted today if the port was learned from today.
EntryInv(e, D, now) == (0 \in D => e.today) /\ (Expired(e) \/ Honest(e, D, now))

QuarantineInv ==
    \A d \in Device :
        /\ \A e \in quarantine[d] : EntryInv(e, learnedOn[d][e.port], hours)
        /\ \A e, f \in quarantine[d] : e.port = f.port => e = f

LEMMA DaysAreFinite ==
  ASSUME NEW D \in SUBSET (0..WindowDays), NEW f \in 0..WindowDays
  PROVE  /\ IsFiniteSet(D) /\ IsFiniteSet(D \cap (0..f))
         /\ Cardinality(D) \in Nat /\ Cardinality(D \cap (0..f)) \in Nat
         /\ Cardinality(D \cap (0..f)) <= Cardinality(D)
         /\ Cardinality(D \cap (0..f)) <= WindowDays + 1
<1>1. WindowDays \in Nat
  BY BaselineNumbers
<1>2. IsFiniteSet(0..WindowDays) /\ Cardinality(0..WindowDays) = WindowDays + 1
  BY <1>1, FS_Interval
<1>3. IsFiniteSet(D) /\ Cardinality(D) <= WindowDays + 1
  BY <1>2, FS_Subset
<1>4. IsFiniteSet(D \cap (0..f)) /\ Cardinality(D \cap (0..f)) <= Cardinality(D)
  BY <1>3, FS_Subset
<1>5. Cardinality(D) \in Nat /\ Cardinality(D \cap (0..f)) \in Nat
  BY <1>3, <1>4, FS_CardinalityType
<1> QED
  BY <1>1, <1>3, <1>4, <1>5

\* A flow of today is one more day to count, unless it was counted already.
LEMMA TodayCounts ==
  ASSUME NEW D \in SUBSET (0..WindowDays), NEW f \in 0..WindowDays
  PROVE  Cardinality((D \cup {0}) \cap (0..f)) =
            Cardinality(D \cap (0..f)) + (IF 0 \in D THEN 0 ELSE 1)
<1>1. f \in Nat
  BY BaselineNumbers
<1>2. (D \cup {0}) \cap (0..f) = (D \cap (0..f)) \cup {0} /\ (0 \in D \cap (0..f) <=> 0 \in D)
  BY <1>1
<1>3. /\ IsFiniteSet(D \cap (0..f)) /\ Cardinality(D \cap (0..f)) \in Nat
  BY DaysAreFinite
<1> QED
  BY <1>2, <1>3, FS_AddElement

\* At midnight every day is one day longer ago.
LEMMA DaysPass ==
  ASSUME NEW D \in SUBSET (0..WindowDays), NEW f \in 0..WindowDays, f < WindowDays
  PROVE  Cardinality(D \cap (0..f)) <=
            Cardinality(({n + 1 : n \in D} \cap (0..WindowDays)) \cap (0..f + 1))
<1> DEFINE S == D \cap (0..f)
           T == ({n + 1 : n \in D} \cap (0..WindowDays)) \cap (0..f + 1)
           shift == [n \in S |-> n + 1]
<1>1. WindowDays \in Nat /\ f \in Nat
  BY BaselineNumbers
<1>2. \A n \in S : n \in Nat /\ n + 1 \in T
  BY <1>1
<1>3. shift \in Injection(S, T)
  <2>1. shift \in [S -> T]
    BY <1>2
  <2>2. \A a, b \in S : shift[a] = shift[b] => a = b
    BY <1>2
  <2> HIDE DEF shift
  <2> QED
    BY <2>1, <2>2 DEF Injection, IsInjective
<1>4. IsFiniteSet(T)
  <2>1. {n + 1 : n \in D} \cap (0..WindowDays) \in SUBSET (0..WindowDays)
    OBVIOUS
  <2>2. f + 1 \in 0..WindowDays
    BY <1>1
  <2> QED
    BY <2>1, <2>2, DaysAreFinite
<1> QED
  BY <1>3, <1>4, FS_Injection

\* The entry of a port after a flow to it.
LEMMA CountedFrom ==
  ASSUME QuarantineTypes, NEW d \in Device, NEW p \in Port, NEW e \in Counted(d, p)
  PROVE  /\ e \in [port : Port, days : 1..WindowDays + 2, today : BOOLEAN,
                   age : 0..WindowDays * Day + 1]
         /\ e.port = p /\ e.today
         /\ \/ e.days = 1 /\ e.age = 0
            \/ \E x \in quarantine[d] :
                  x.port = p /\ e.age = x.age /\ e.days = IF x.today THEN x.days ELSE x.days + 1
<1> DEFINE old == {x \in quarantine[d] : x.port = p}
           first == [port |-> p, days |-> 1, today |-> TRUE, age |-> 0]
           again(x) == [x EXCEPT !.days = IF x.today THEN @ ELSE @ + 1, !.today = TRUE]
<1>1. CASE old = {}
  <2>1. e = first
    BY <1>1 DEF Counted
  <2>2. WindowDays \in Nat /\ WindowDays * Day \in Nat
    BY BaselineNumbers
  <2> QED
    BY <2>1, <2>2
<1>2. CASE old # {}
  <2>1. PICK x \in old : e = again(x)
    BY <1>2 DEF Counted
  <2>2. x \in Waited /\ x.port = p /\ WindowDays \in Nat
    BY BaselineNumbers DEF QuarantineTypes
  <2>3. e = [port |-> x.port, days |-> IF x.today THEN x.days ELSE x.days + 1,
             today |-> TRUE, age |-> x.age]
    BY <2>1, <2>2 DEF Waited
  <2> QED
    BY <2>2, <2>3 DEF Waited
<1> QED
  BY <1>1, <1>2

\* ... and what the invariant says of it.
LEMMA CountedIsHonest ==
  ASSUME QuarantineTypes, QuarantineInv, hours \in Nat,
         NEW d \in Device, NEW p \in Port, NEW e \in Counted(d, p), ~Expired(e)
  PROVE  /\ e \in Waited /\ Honest(e, learnedOn[d][p] \cup {0}, hours)
         /\ e.days <= Cardinality(learnedOn[d][p] \cup {0})
<1> DEFINE D == learnedOn[d][p]
           E == D \cup {0}
<1>1. D \in SUBSET (0..WindowDays) /\ WindowDays \in Nat
  BY BaselineNumbers DEF QuarantineTypes
<1>2. E \in SUBSET (0..WindowDays) /\ 0 \in 0..WindowDays
  BY <1>1
<1>3. /\ e \in [port : Port, days : 1..WindowDays + 2, today : BOOLEAN,
                age : 0..WindowDays * Day + 1]
      /\ e.port = p /\ e.today
  BY CountedFrom
<1> HIDE DEF D, E
<1>4. Honest(e, E, hours)
  <2>1. CASE e.days = 1 /\ e.age = 0
    <3>1. Cardinality(E \cap (0..0)) = Cardinality(D \cap (0..0)) + (IF 0 \in D THEN 0 ELSE 1)
      BY <1>1, <1>2, TodayCounts DEF E
    <3>2. 0 \in D => Cardinality(D \cap (0..0)) = 1
      <4>1. 0 \in D => D \cap (0..0) = {0}
        OBVIOUS
      <4> QED
        BY <4>1, FS_Singleton
    <3>3. Cardinality(D \cap (0..0)) \in Nat
      BY <1>1, <1>2, DaysAreFinite
    <3>4. e.days <= Cardinality(E \cap (0..0))
      BY <2>1, <3>1, <3>2, <3>3
    <3>5. 0 > 0 => e.age >= hours + (0 - 1) * Day + 1
      OBVIOUS
    <3> QED
      BY <1>2, <3>4, <3>5 DEF Honest
  <2>2. ASSUME NEW x \in quarantine[d], x.port = p, e.age = x.age,
               e.days = IF x.today THEN x.days ELSE x.days + 1
        PROVE  Honest(e, E, hours)
    <3>1. x \in Waited /\ (0 \in D => x.today) /\ Honest(x, D, hours)
      BY <2>2 DEF QuarantineTypes, QuarantineInv, EntryInv, D, Expired
    <3>2. PICK f \in 0..WindowDays :
             /\ x.days <= Cardinality(D \cap (0..f))
             /\ f > 0 => x.age >= hours + (f - 1) * Day + 1
      BY <3>1 DEF Honest
    <3>3. Cardinality(E \cap (0..f)) = Cardinality(D \cap (0..f)) + (IF 0 \in D THEN 0 ELSE 1)
      BY <1>1, TodayCounts DEF E
    <3>4. Cardinality(D \cap (0..f)) \in Nat /\ x.days \in Nat
      <4>1. x.days \in Nat
        BY <1>1, <3>1 DEF Waited
      <4> QED
        BY <1>1, <4>1, DaysAreFinite
    <3>5. e.days <= Cardinality(E \cap (0..f))
      BY <2>2, <3>1, <3>2, <3>3, <3>4
    <3> QED
      BY <2>2, <3>2, <3>5 DEF Honest
  <2> QED
    BY <2>1, <2>2, CountedFrom
<1>5. PICK f \in 0..WindowDays : e.days <= Cardinality(E \cap (0..f))
  BY <1>4 DEF Honest
<1>6. /\ Cardinality(E \cap (0..f)) \in Nat /\ Cardinality(E) \in Nat
      /\ Cardinality(E \cap (0..f)) <= Cardinality(E)
      /\ Cardinality(E \cap (0..f)) <= WindowDays + 1
  BY <1>2, DaysAreFinite
<1>7. e.days \in 1..WindowDays + 2
  BY <1>3
<1>8. e.days \in 1..WindowDays + 1 /\ e.days <= Cardinality(E)
  BY <1>1, <1>5, <1>6, <1>7
<1> QED
  BY <1>3, <1>4, <1>8 DEF Waited, D, E

\* An entry one tick later, and the days of a port one midnight later.
TickOlder(e, newDay) == [e EXCEPT !.age = Ticked(@, WindowDays * Day + 1), !.today = e.today /\ ~newDay]
DayOlder(D) == {n + 1 : n \in D} \cap (0..WindowDays)

LEMMA EntryAges ==
  ASSUME NEW e \in Waited, NEW D \in SUBSET (0..WindowDays), NEW now \in 0..Day - 1,
         EntryInv(e, D, now), NEW newDay \in BOOLEAN, newDay <=> now + 1 = Day
  PROVE  /\ TickOlder(e, newDay) \in Waited /\ TickOlder(e, newDay).port = e.port
         /\ EntryInv(TickOlder(e, newDay), IF newDay THEN DayOlder(D) ELSE D,
                     IF newDay THEN 0 ELSE now + 1)
<1> DEFINE later == TickOlder(e, newDay)
           E == IF newDay THEN DayOlder(D) ELSE D
           limit == WindowDays * Day + 1
           next == IF newDay THEN 0 ELSE now + 1
<1> SUFFICES later \in Waited /\ later.port = e.port /\ EntryInv(later, E, next)
  OBVIOUS
<1>1. /\ WindowDays \in Nat /\ Day \in Nat /\ now \in Nat /\ limit \in Nat
      /\ limit = WindowDays * Day + 1
  BY BaselineNumbers
<1>2. /\ e.port \in Port /\ e.days \in 1..WindowDays + 1 /\ e.today \in BOOLEAN
      /\ e.age \in 0..limit
      /\ later.port = e.port /\ later.days = e.days /\ later.today = (e.today /\ ~newDay)
      /\ later.age = Ticked(e.age, limit)
      /\ later = [port |-> later.port, days |-> later.days, today |-> later.today,
                  age |-> later.age]
  <2> HIDE DEF limit
  <2>1. e \in [port : Port, days : 1..WindowDays + 1, today : BOOLEAN, age : 0..limit]
    BY DEF Waited, limit
  <2>2. later = [e EXCEPT !.age = Ticked(@, limit), !.today = e.today /\ ~newDay]
    BY DEF limit, TickOlder
  <2> HIDE DEF later
  <2> QED
    BY <2>1, <2>2
<1> HIDE DEF limit, later
<1>3. /\ Ticked(e.age, limit) \in 0..limit
      /\ Ticked(e.age, limit) >= e.age
      /\ e.age < limit => Ticked(e.age, limit) = e.age + 1
  BY <1>1, <1>2 DEF Ticked
<1>4. later \in Waited /\ later.port = e.port /\ later.days = e.days
  <2>1. later.age \in 0..limit /\ later.today \in BOOLEAN
    BY <1>2, <1>3
  <2>2. later \in [port : Port, days : 1..WindowDays + 1, today : BOOLEAN, age : 0..limit]
    BY <1>2, <2>1
  <2> QED
    BY <1>2, <2>2 DEF Waited, limit
<1>5. 0 \in E => later.today
  <2>1. CASE newDay
    <3>1. 0 \notin E
      BY <2>1, <1>1 DEF DayOlder
    <3> QED
      BY <3>1
  <2>2. CASE ~newDay
    BY <1>2, <2>2 DEF EntryInv
  <2> QED
    BY <2>1, <2>2
<1>6. CASE Expired(e)
  <2>1. e.age > WindowDays * Day
    BY <1>6 DEF Expired
  <2>2. WindowDays * Day \in Nat /\ e.age \in Nat
    BY <1>1, <1>2, BaselineNumbers
  <2>3. later.age \in Nat /\ later.age >= e.age
    BY <1>1, <1>2, <1>3
  <2>4. later.age > WindowDays * Day
    BY <2>1, <2>2, <2>3
  <2>5. Expired(later)
    BY <2>4 DEF Expired
  <2> QED
    BY <1>4, <1>5, <2>5 DEF EntryInv
<1>7. CASE ~Expired(e)
  <2>1. PICK f \in 0..WindowDays :
           /\ e.days <= Cardinality(D \cap (0..f))
           /\ f > 0 => e.age >= now + (f - 1) * Day + 1
    BY <1>7 DEF EntryInv, Honest
  <2>2. later.age = e.age + 1 /\ e.age \in Nat /\ f \in Nat
    BY <1>1, <1>2, <1>3, <1>7 DEF Expired
  <2>3. CASE ~newDay
    <3>1. (f - 1) * Day \in Int
      BY <1>1, <2>2
    <3>2. f > 0 => later.age >= next + (f - 1) * Day + 1
      BY <1>1, <2>1, <2>2, <2>3, <3>1
    <3>3. Honest(later, E, next)
      BY <1>4, <2>1, <2>3, <3>2 DEF Honest
    <3> QED
      BY <1>4, <1>5, <3>3 DEF EntryInv
  <2>4. CASE newDay
    <3> DEFINE before == (f - 1) * Day
    <3>1. before \in Int /\ f * Day = before + Day /\ f * Day \in Nat /\ before = (f - 1) * Day
      BY <1>1, <2>2
    <3> HIDE DEF before
    <3>2. later.age >= f * Day + 1
      <4>1. CASE f = 0
        BY <1>1, <2>2, <4>1
      <4>2. CASE f > 0
        <5>1. e.age >= now + before + 1 /\ now + 1 = Day
          BY <2>1, <2>4, <3>1, <4>2
        <5> QED
          BY <1>1, <2>2, <3>1, <5>1
      <4> QED
        BY <2>2, <4>1, <4>2
    <3>3. CASE f = WindowDays
      <4>1. Expired(later)
        BY <1>1, <2>2, <3>1, <3>2, <3>3 DEF Expired
      <4> QED
        BY <1>4, <1>5, <4>1 DEF EntryInv
    <3>4. CASE f # WindowDays
      <4>1. f < WindowDays /\ f + 1 \in 0..WindowDays
        BY <1>1, <2>2, <3>4
      <4>2. Cardinality(D \cap (0..f)) <= Cardinality(E \cap (0..f + 1))
        BY <2>4, <4>1, DaysPass DEF DayOlder
      <4>3. /\ Cardinality(D \cap (0..f)) \in Nat /\ Cardinality(E \cap (0..f + 1)) \in Nat
        <5>1. E \in SUBSET (0..WindowDays)
          BY DEF DayOlder
        <5> HIDE DEF E
        <5> QED
          BY <4>1, <5>1, DaysAreFinite
      <4>4. later.days <= Cardinality(E \cap (0..f + 1))
        BY <1>2, <1>4, <2>1, <4>2, <4>3
      <4>5. f + 1 - 1 = f /\ next = 0
        BY <2>2, <2>4
      <4>6. f + 1 > 0 => later.age >= next + (f + 1 - 1) * Day + 1
        BY <1>1, <2>2, <3>1, <3>2, <4>5
      <4>7. Honest(later, E, next)
        <5> DEFINE g == f + 1
        <5>1. /\ g \in 0..WindowDays /\ later.days <= Cardinality(E \cap (0..g))
              /\ g > 0 => later.age >= next + (g - 1) * Day + 1
          BY <4>1, <4>4, <4>6
        <5> HIDE DEF E, next, g
        <5> QED
          BY <5>1 DEF Honest
      <4> QED
        BY <1>4, <1>5, <4>7 DEF EntryInv
    <3> QED
      BY <3>3, <3>4
  <2> QED
    BY <2>3, <2>4
<1> QED
  BY <1>6, <1>7

\* What LearnedSlowly says of a step.
Slow ==
    \A d \in Device :
        d \in Tracked /\ rolling # d =>
            \A p \in adaptive'[d].ports \ adaptive[d].ports :
                Cardinality(learnedOn'[d][p]) >= MinDays

LEMMA QuarantineInit == BaselineInit => QuarantineTypes /\ QuarantineInv
BY DEF BaselineInit, QuarantineTypes, QuarantineInv

\* A flow to port p that is learned from.
LEMMA FlowCounts ==
  ASSUME BaselineTypes, QuarantineTypes, QuarantineInv,
         NEW d \in Device, NEW p \in Port, NEW frequent \in BOOLEAN,
         quarantine' = [quarantine EXCEPT ![d] = Waiting(d, p, frequent)],
         learnedOn' = [learnedOn EXCEPT ![d][p] = @ \cup {0}], hours' = hours
  PROVE  /\ QuarantineTypes' /\ QuarantineInv'
         /\ \A q \in Graduated(d, p, frequent) :
               q = p /\ Cardinality(learnedOn'[d][p]) >= MinDays
<1>1. /\ learnedOn' \in [Device -> [Port -> SUBSET (0..WindowDays)]]
      /\ learnedOn'[d][p] = learnedOn[d][p] \cup {0}
      /\ \A q \in Port \ {p} : learnedOn'[d][q] = learnedOn[d][q]
      /\ \A c \in Device \ {d} : learnedOn'[c] = learnedOn[c] /\ quarantine'[c] = quarantine[c]
  <2> DEFINE new == [learnedOn[d] EXCEPT ![p] = @ \cup {0}]
  <2>1. 0 \in 0..WindowDays
    BY BaselineNumbers
  <2>2. /\ new \in [Port -> SUBSET (0..WindowDays)] /\ new[p] = learnedOn[d][p] \cup {0}
        /\ \A q \in Port \ {p} : new[q] = learnedOn[d][q]
    BY <2>1 DEF QuarantineTypes
  <2>3. learnedOn' = [learnedOn EXCEPT ![d] = new]
    OBVIOUS
  <2> HIDE DEF new
  <2> QED
    BY <2>2, <2>3 DEF QuarantineTypes
<1>2. hours \in Nat
  BY BaselineNumbers DEF BaselineTypes
<1>3. \A e \in Counted(d, p) : ~Expired(e) =>
         /\ e \in Waited /\ e.port = p
         /\ EntryInv(e, learnedOn'[d][p], hours) /\ e.days <= Cardinality(learnedOn'[d][p])
  <2> SUFFICES ASSUME NEW e \in Counted(d, p), ~Expired(e)
               PROVE  /\ e \in Waited /\ e.port = p
                      /\ EntryInv(e, learnedOn[d][p] \cup {0}, hours)
                      /\ e.days <= Cardinality(learnedOn[d][p] \cup {0})
    BY <1>1
  <2>1. e.port = p /\ e.today
    BY CountedFrom
  <2>2. /\ e \in Waited /\ Honest(e, learnedOn[d][p] \cup {0}, hours)
        /\ e.days <= Cardinality(learnedOn[d][p] \cup {0})
    BY <1>2, CountedIsHonest
  <2> QED
    BY <2>1, <2>2 DEF EntryInv
<1>4. \A e \in Waiting(d, p, frequent) :
         \/ e \in quarantine[d] /\ e.port # p
         \/ e \in Counted(d, p) /\ ~Expired(e)
  BY DEF Waiting
<1>5. quarantine'[d] = Waiting(d, p, frequent) /\ quarantine' \in [Device -> SUBSET Waited]
  <2>1. Waiting(d, p, frequent) \subseteq Waited
    BY <1>3, <1>4 DEF QuarantineTypes
  <2> QED
    BY <2>1 DEF QuarantineTypes
<1>6. \A e \in quarantine'[d] : EntryInv(e, learnedOn'[d][e.port], hours)
  <2> SUFFICES ASSUME NEW e \in quarantine'[d]
               PROVE  EntryInv(e, learnedOn'[d][e.port], hours)
    OBVIOUS
  <2>1. CASE e \in quarantine[d] /\ e.port # p
    <3>1. e.port \in Port \ {p}
      BY <2>1 DEF QuarantineTypes, Waited
    <3> QED
      BY <1>1, <2>1, <3>1 DEF QuarantineInv
  <2>2. CASE e \in Counted(d, p) /\ ~Expired(e)
    BY <1>3, <2>2
  <2> QED
    BY <1>4, <1>5, <2>1, <2>2
<1>7. \A e, f \in quarantine'[d] : e.port = f.port => e = f
  <2>1. \A e, f \in Counted(d, p) : e = f
    <3> DEFINE old == {x \in quarantine[d] : x.port = p}
    <3>1. \A x, y \in old : x = y
      BY DEF QuarantineInv
    <3>2. CASE old = {}
      BY <3>2 DEF Counted
    <3>3. CASE old # {}
      <4>1. PICK x \in old : old = {x}
        BY <3>1, <3>3
      <4> QED
        BY <3>3, <4>1 DEF Counted
    <3> QED
      BY <3>2, <3>3
  <2>2. \A e, f \in quarantine[d] : e.port = f.port => e = f
    BY DEF QuarantineInv
  <2>3. \A e \in Counted(d, p) : e.port = p
    BY CountedIs
  <2> QED
    BY <1>4, <1>5, <2>1, <2>2, <2>3
<1>8. QuarantineInv'
  <2>1. \A c \in Device \ {d} :
           /\ \A e \in quarantine'[c] : EntryInv(e, learnedOn'[c][e.port], hours)
           /\ \A e, f \in quarantine'[c] : e.port = f.port => e = f
    BY <1>1 DEF QuarantineInv
  <2> QED
    BY <1>6, <1>7, <2>1 DEF QuarantineInv, EntryInv, Honest, Expired
<1>9. ASSUME NEW q \in Graduated(d, p, frequent)
      PROVE  q = p /\ Cardinality(learnedOn'[d][p]) >= MinDays
  <2>1. PICK e \in Counted(d, p) : q = e.port /\ Graduates(e, frequent)
    BY <1>9 DEF Graduated
  <2>2. ~Expired(e) /\ e.days >= MinDays
    BY <2>1 DEF Graduates
  <2>3. e \in Waited /\ e.port = p /\ e.days <= Cardinality(learnedOn'[d][p])
    BY <1>3, <2>2
  <2>4. Cardinality(learnedOn'[d][p]) \in Nat
    <3>1. learnedOn'[d][p] \in SUBSET (0..WindowDays) /\ 0 \in 0..WindowDays
      BY <1>1, BaselineNumbers
    <3> QED
      BY <3>1, DaysAreFinite
  <2>5. e.days \in Nat /\ MinDays \in Nat
    <3>1. MinDays \in Nat /\ WindowDays \in Nat
      BY BaselineNumbers
    <3> QED
      BY <2>3, <3>1 DEF Waited
  <2> QED
    BY <2>1, <2>2, <2>3, <2>4, <2>5
<1> QED
  BY <1>1, <1>5, <1>8, <1>9 DEF QuarantineTypes

LEMMA QuarantineStep ==
  BaselineTypes /\ QuarantineTypes /\ QuarantineInv /\ [BaselineNext]_baselineVars
      => (QuarantineTypes /\ QuarantineInv)' /\ [Slow]_<<adaptive, learnedOn, rolling>>
<1> SUFFICES ASSUME BaselineTypes, QuarantineTypes, QuarantineInv, [BaselineNext]_baselineVars
             PROVE  (QuarantineTypes /\ QuarantineInv)' /\ [Slow]_<<adaptive, learnedOn, rolling>>
  OBVIOUS
<1>1. ASSUME UNCHANGED <<quarantine, learnedOn, hours>> PROVE (QuarantineTypes /\ QuarantineInv)'
  BY <1>1 DEF QuarantineTypes, QuarantineInv, EntryInv, Honest, Expired
<1>2. ASSUME NEW d \in Device, NEW p \in Port \cup {NoPort}, BaselineFlow(d, p)
      PROVE  (QuarantineTypes /\ QuarantineInv)' /\ Slow
  <2> DEFINE b == IF d \in Tracked THEN adaptive[d] ELSE Untaught
  <2>1. b \in Learned /\ (d \in Tracked => b = adaptive[d]) /\ hours' = hours
    BY <1>2, FlowLearns DEF BaselineFlow
  <2>2. CASE b.frozen
    <3>1. UNCHANGED <<adaptive, quarantine, learnedOn, hours>>
      BY <1>2, <2>2 DEF BaselineFlow
    <3> QED
      BY <1>1, <3>1 DEF Slow
  <2>3. CASE ~b.frozen
    <3>1. Learn(d, p, b)
      BY <1>2, <2>3 DEF BaselineFlow
    <3> HIDE DEF b
    <3>2. PICK next \in Learned, frequent \in BOOLEAN :
             /\ next.ports = b.ports \cup (IF p = NoPort THEN {} ELSE Graduated(d, p, frequent))
             /\ adaptive' = [adaptive EXCEPT ![d] = next]
             /\ IF p = NoPort
                THEN UNCHANGED <<quarantine, learnedOn>>
                ELSE /\ quarantine' = [quarantine EXCEPT ![d] = Waiting(d, p, frequent)]
                     /\ learnedOn' = [learnedOn EXCEPT ![d][p] = @ \cup {0}]
      BY <2>1, <3>1, LearnIs
    <3>3. adaptive'[d] = next /\ \A c \in Device \ {d} : adaptive'[c] = adaptive[c]
      BY <3>2 DEF BaselineTypes
    <3>4. CASE p = NoPort
      <4>1. next.ports = b.ports /\ UNCHANGED <<quarantine, learnedOn>>
        BY <3>2, <3>4
      <4> QED
        BY <1>1, <2>1, <3>3, <4>1 DEF Slow
    <3>5. CASE p # NoPort
      <4>1. /\ (QuarantineTypes /\ QuarantineInv)'
            /\ \A q \in Graduated(d, p, frequent) :
                  q = p /\ Cardinality(learnedOn'[d][p]) >= MinDays
        <5>1. p \in Port
          BY <3>5
        <5>2. /\ quarantine' = [quarantine EXCEPT ![d] = Waiting(d, p, frequent)]
              /\ learnedOn' = [learnedOn EXCEPT ![d][p] = @ \cup {0}]
          BY <3>2, <3>5
        <5> QED
          BY <2>1, <5>1, <5>2, FlowCounts
      <4>2. next.ports = b.ports \cup Graduated(d, p, frequent)
        BY <3>2, <3>5
      <4> QED
        BY <2>1, <3>3, <4>1, <4>2 DEF Slow
    <3> QED
      BY <3>4, <3>5
  <2> QED
    BY <2>2, <2>3
<1>3. ASSUME NEW d \in Device, Compare(d) \/ Unfreeze(d)
      PROVE  (QuarantineTypes /\ QuarantineInv)' /\ Slow
  <2>1. UNCHANGED <<quarantine, learnedOn, hours>>
    BY <1>3 DEF Compare, Unfreeze
  <2>2. d \in Tracked /\ \A c \in Device : adaptive'[c] = adaptive[c] \/ c = d
    BY <1>3 DEF Compare, Unfreeze, BaselineTypes
  <2>3. adaptive'[d].ports = adaptive[d].ports
    <3>1. adaptive[d] \in Learned
      BY <2>2 DEF BaselineTypes, Tracked
    <3>2. \/ UNCHANGED adaptive
          \/ \E frozen \in BOOLEAN : adaptive' = [adaptive EXCEPT ![d].frozen = frozen]
      BY <1>3 DEF Compare, Unfreeze
    <3> QED
      BY <3>1, <3>2 DEF BaselineTypes, Learned
  <2>4. \A c \in Device : adaptive'[c].ports = adaptive[c].ports
    BY <2>2, <2>3
  <2> QED
    BY <1>1, <2>1, <2>4 DEF Slow
<1>4. ASSUME NEW d \in Device, RollBack(d) PROVE (QuarantineTypes /\ QuarantineInv)' /\ Slow
  <2>1. UNCHANGED <<quarantine, learnedOn, hours>> /\ rolling = d
    BY <1>4 DEF RollBack
  <2>2. \A c \in Device \ {d} : adaptive'[c] = adaptive[c]
    BY <1>4 DEF RollBack, BaselineTypes
  <2> QED
    BY <1>1, <2>1, <2>2 DEF Slow
<1>5. CASE BaselineTick
  <2> DEFINE D(d, p) == IF Midnight THEN DayOlder(learnedOn[d][p]) ELSE learnedOn[d][p]
             aged(e) == TickOlder(e, Midnight)
  <2>1. UNCHANGED adaptive /\ hours' = (hours + 1) % Day
    BY <1>5 DEF BaselineTick
  <2>2. hours \in 0..Day - 1 /\ hours' = IF Midnight THEN 0 ELSE hours + 1
    <3>1. hours \in 0..Day - 1 /\ Day \in Nat
      BY BaselineNumbers DEF BaselineTypes
    <3>2. CASE Midnight
      BY <2>1, <3>1, <3>2 DEF Midnight
    <3>3. CASE ~Midnight
      <4>1. hours + 1 \in 0..Day - 1
        BY <3>1, <3>3 DEF Midnight
      <4> QED
        BY <2>1, <3>1, <3>3, <4>1
    <3> QED
      BY <3>2, <3>3
  <2>3. \A d \in Device : \A p \in Port :
           /\ learnedOn[d][p] \in SUBSET (0..WindowDays)
           /\ learnedOn'[d][p] = D(d, p) /\ D(d, p) \in SUBSET (0..WindowDays)
    BY <1>5 DEF BaselineTick, QuarantineTypes, DayOlder
  <2>4. learnedOn' \in [Device -> [Port -> SUBSET (0..WindowDays)]]
    BY <1>5 DEF BaselineTick, QuarantineTypes
  <2>5. \A d \in Device : quarantine'[d] = {aged(e) : e \in quarantine[d]}
    BY <1>5 DEF BaselineTick, TickOlder
  <2>6. \A d \in Device : \A e \in quarantine[d] :
           /\ aged(e) \in Waited /\ aged(e).port = e.port
           /\ EntryInv(aged(e), D(d, e.port), hours')
    <3> SUFFICES ASSUME NEW d \in Device, NEW e \in quarantine[d]
                 PROVE  /\ aged(e) \in Waited /\ aged(e).port = e.port
                        /\ EntryInv(aged(e), D(d, e.port), hours')
      OBVIOUS
    <3>1. e \in Waited /\ e.port \in Port
      BY DEF QuarantineTypes, Waited
    <3>2. EntryInv(e, learnedOn[d][e.port], hours)
      BY DEF QuarantineInv
    <3>3. learnedOn[d][e.port] \in SUBSET (0..WindowDays)
      BY <2>3, <3>1
    <3>4. PICK newDay \in BOOLEAN : newDay <=> Midnight
      OBVIOUS
    <3>5. newDay <=> hours + 1 = Day
      BY <3>4 DEF Midnight
    <3>6. TickOlder(e, newDay) = aged(e)
      BY <3>4 DEF TickOlder
    <3>7. /\ TickOlder(e, newDay) \in Waited /\ TickOlder(e, newDay).port = e.port
          /\ EntryInv(TickOlder(e, newDay), IF newDay THEN DayOlder(learnedOn[d][e.port])
                                       ELSE learnedOn[d][e.port],
                      IF newDay THEN 0 ELSE hours + 1)
      BY <2>2, <3>1, <3>2, <3>3, <3>5, EntryAges
    <3> QED
      BY <2>2, <3>4, <3>6, <3>7
  <2> HIDE DEF aged
  <2>7. quarantine' \in [Device -> SUBSET Waited]
    <3>1. quarantine' = [d \in Device |-> {aged(e) : e \in quarantine[d]}]
      BY <1>5 DEF BaselineTick, aged, TickOlder
    <3> QED
      BY <2>6, <3>1
  <2>8. QuarantineInv'
    <3> SUFFICES ASSUME NEW d \in Device
                 PROVE  /\ \A e \in quarantine'[d] : EntryInv(e, learnedOn'[d][e.port], hours')
                        /\ \A e, f \in quarantine'[d] : e.port = f.port => e = f
      BY DEF QuarantineInv, EntryInv, Honest, Expired
    <3>1. ASSUME NEW e \in quarantine'[d] PROVE EntryInv(e, learnedOn'[d][e.port], hours')
      <4>1. PICK x \in quarantine[d] : e = aged(x)
        BY <2>5
      <4>2. e.port = x.port /\ x.port \in Port /\ EntryInv(e, D(d, x.port), hours')
        BY <2>6, <4>1 DEF QuarantineTypes, Waited
      <4>3. learnedOn'[d][x.port] = D(d, x.port)
        BY <2>3, <4>2
      <4> QED
        BY <4>2, <4>3
    <3>2. ASSUME NEW e \in quarantine'[d], NEW f \in quarantine'[d], e.port = f.port
          PROVE  e = f
      <4>1. PICK x \in quarantine[d], y \in quarantine[d] : e = aged(x) /\ f = aged(y)
        BY <2>5
      <4>2. x.port = y.port
        BY <2>6, <3>2, <4>1
      <4> QED
        BY <4>1, <4>2 DEF QuarantineInv
    <3> QED
      BY <3>1, <3>2
  <2> QED
    BY <2>1, <2>4, <2>7, <2>8 DEF QuarantineTypes, Slow
<1>6. CASE UNCHANGED baselineVars
  BY <1>1, <1>6 DEF baselineVars
<1> QED
  BY <1>2, <1>3, <1>4, <1>5, <1>6 DEF BaselineNext, Work

\* What a device does becomes normal only slowly (_quarantine_port and
\* _update_adaptive of ndr_main.py): a port enters a baseline, the copying back of a
\* snapshot aside, only when flows to it were learned from on QUARANTINE_MIN_DAYS
\* different days of the quarantine window, whatever an entry that expired had
\* counted and however long the baseline was frozen in between.
THEOREM PortsLearnedSlowly == BaselineSpec => LearnedSlowly
<1>1. BaselineInit => BaselineTypes /\ QuarantineTypes /\ QuarantineInv
  BY BaselineTypesInit, QuarantineInit
<1>2. BaselineTypes /\ QuarantineTypes /\ QuarantineInv /\ [BaselineNext]_baselineVars
         => (BaselineTypes /\ QuarantineTypes /\ QuarantineInv)'
            /\ [Slow]_<<adaptive, learnedOn, rolling>>
  BY BaselineTypesStep, QuarantineStep
<1>3. LearnedSlowly <=> [][Slow]_<<adaptive, learnedOn, rolling>>
  BY DEF LearnedSlowly, Slow
<1> QED
  BY <1>1, <1>2, <1>3, PTL DEF BaselineSpec

\* Every variable of the baselines has its type, a port waits in quarantine at most
\* once and counts at most as many days as the window has, and the check under way
\* looks at devices that have a baseline (_quarantine_port, _run_canary_check).
THEOREM BaselineTypeCorrect == BaselineSpec => []BaselineTypeOK
<1>1. BaselineInit => BaselineTypes /\ QuarantineTypes /\ QuarantineInv
  BY BaselineTypesInit, QuarantineInit
<1>2. BaselineTypes /\ QuarantineTypes /\ QuarantineInv /\ [BaselineNext]_baselineVars
         => (BaselineTypes /\ QuarantineTypes /\ QuarantineInv)'
  BY BaselineTypesStep, QuarantineStep
<1>3. BaselineTypes /\ QuarantineTypes /\ QuarantineInv => BaselineTypeOK
  <2> SUFFICES ASSUME BaselineTypes, QuarantineTypes, QuarantineInv PROVE BaselineTypeOK
    OBVIOUS
  <2>1. Waited \subseteq [port : Port, days : 1..MinDays + WindowDays, today : BOOLEAN,
                          age : 0..WindowDays * Day + 1]
    <3>1. 1..WindowDays + 1 \subseteq 1..MinDays + WindowDays
      BY BaselineNumbers
    <3> QED
      BY <3>1 DEF Waited
  <2>2. \A d \in Device : quarantine[d] \in SUBSET [port : Port, days : 1..MinDays + WindowDays,
                                                    today : BOOLEAN,
                                                    age : 0..WindowDays * Day + 1]
    BY <2>1 DEF QuarantineTypes
  <2>3. \A d \in Device : \A e, f \in quarantine[d] : e.port = f.port => e = f
    BY DEF QuarantineInv
  <2>4. \A d \in Device : /\ adaptive[d] \in {None} \cup Learned
                          /\ snapshot[d] \in {None} \cup Snapshot
                          /\ diverged[d] \in 0..CheckEvery
    BY DEF BaselineTypes
  <2>5. todo \subseteq Tracked /\ rolling \in todo \cup {None}
    BY DEF BaselineTypes
  <2> QED
    BY <2>2, <2>3, <2>4, <2>5 DEF BaselineTypeOK, Learned, Snapshot
<1> QED
  BY <1>1, <1>2, <1>3, PTL DEF BaselineSpec

-----------------------------------------------------------------------------
(* Sensors: types.                                                         *)

SensorAlert == [device : Sensor, dropout : BOOLEAN]
SeenAge == 0..Silence + 1 \cup {Nil}
Busy == [op : {"fire", "publish", "forget"}, device : Sensor]

SensorTypes ==
    /\ lastSeen \in [Sensor -> SeenAge]
    /\ dropoutFired \subseteq Sensor /\ heardOf \subseteq Sensor /\ overtaken \subseteq Sensor
    /\ crossed \subseteq Sensor
    /\ kept \in Seq(SensorAlert) /\ Len(kept) <= AlertsKept
    /\ consuming \in Sensor \cup {Nil}
    /\ watching = Asleep \/ watching \in Busy
    /\ copy \subseteq [device : Sensor, age : 0..Silence + 1]
    /\ dropouts \in [Sensor -> 0..MaxDropouts]
    /\ alarms \in [Sensor -> Nat] /\ looked \in BOOLEAN

\* What Store keeps: the new entry at the end, and before it the old ones in their
\* order, perhaps without the first.
LEMMA StoreIs ==
  ASSUME kept \in Seq(SensorAlert), Len(kept) <= AlertsKept, NEW e \in SensorAlert
  PROVE  /\ Store(e) \in Seq(SensorAlert) /\ Len(Store(e)) <= AlertsKept
         /\ Len(Store(e)) >= 1
         /\ \E s \in {0, 1} :
               /\ Len(Store(e)) = Len(kept) + 1 - s
               /\ \A i \in 1..Len(Store(e)) - 1 : Store(e)[i] = kept[i + s]
               /\ Store(e)[Len(Store(e))] = e
<1> DEFINE all == Append(kept, e)
           first == IF Len(all) > AlertsKept THEN 2 ELSE 1
           t == SubSeq(all, first, Len(all))
           s == first - 1
           n == Len(kept)
<1>1. Store(e) = t
  BY DEF Store
<1>2. /\ all \in Seq(SensorAlert) /\ Len(all) = n + 1 /\ n \in Nat
      /\ \A i \in 1..n : all[i] = kept[i]
      /\ all[n + 1] = e
  OBVIOUS
<1>3. AlertsKept \in Nat /\ AlertsKept >= 1 /\ n <= AlertsKept
  BY SensorAssumption
<1>4. first \in {1, 2} /\ (first = 2 => n >= 1) /\ n + 1 - s <= AlertsKept /\ first = s + 1
  BY <1>2, <1>3
<1> HIDE DEF all, first, s, n
<1>5. t = SubSeq(all, s + 1, n + 1) /\ s \in {0, 1} /\ s + 1 \in 1..n + 1
  BY <1>2, <1>4 DEF t, s
<1>6. /\ t \in Seq(SensorAlert) /\ Len(t) = n + 1 - s /\ Len(t) \in Nat \ {0}
      /\ \A i \in 1..Len(t) : t[i] = all[i + s]
  <2> DEFINE lo == s + 1
             hi == n + 1
  <2>1. lo \in Int /\ hi \in Int /\ lo <= hi /\ \A i \in lo..hi : all[i] \in SensorAlert
    BY <1>2, <1>5
  <2> HIDE DEF lo, hi
  <2>2. /\ SubSeq(all, lo, hi) \in Seq(SensorAlert) /\ Len(SubSeq(all, lo, hi)) = hi - lo + 1
        /\ \A i \in 1..hi - lo + 1 : SubSeq(all, lo, hi)[i] = all[lo + i - 1]
    BY <2>1, SubSeqProperties
  <2>3. t = SubSeq(all, lo, hi)
    BY <1>5 DEF lo, hi
  <2> HIDE DEF t
  <2>4. t \in Seq(SensorAlert) /\ Len(t) = hi - lo + 1 /\ \A i \in 1..hi - lo + 1 : t[i] = all[lo + i - 1]
    BY <2>2, <2>3
  <2> QED
    BY <1>2, <1>5, <2>4 DEF lo, hi
<1> HIDE DEF t
<1>7. t[Len(t)] = e
  BY <1>2, <1>5, <1>6
<1>8. \A i \in 1..Len(t) - 1 : t[i] = kept[i + s]
  <2> TAKE i \in 1..Len(t) - 1
  <2>1. i \in 1..Len(t) /\ i + s \in 1..n
    BY <1>2, <1>5, <1>6
  <2> QED
    BY <1>2, <1>6, <2>1
<1>9. Len(t) <= AlertsKept /\ Len(t) >= 1
  BY <1>4, <1>6
<1>10. \E r \in {0, 1} : Len(t) = n + 1 - r /\ \A i \in 1..Len(t) - 1 : t[i] = kept[i + r]
  BY <1>5, <1>6, <1>8
<1>11. n = Len(kept)
  BY DEF n
<1> HIDE DEF n
<1> QED
  BY <1>1, <1>6, <1>7, <1>9, <1>10, <1>11

LEMMA SensorTypesInit == SensorInit => SensorTypes
<1> SUFFICES ASSUME SensorInit PROVE SensorTypes
  OBVIOUS
<1>1. 0 \in 0..MaxDropouts /\ AlertsKept >= 0 /\ Nil \in SeenAge
  BY SensorAssumption DEF SeenAge
<1>2. /\ lastSeen \in [Sensor -> SeenAge] /\ dropouts \in [Sensor -> 0..MaxDropouts]
      /\ alarms \in [Sensor -> Nat]
  BY <1>1 DEF SensorInit
<1>3. kept \in Seq(SensorAlert) /\ Len(kept) <= AlertsKept
  BY <1>1 DEF SensorInit
<1> QED
  BY <1>2, <1>3 DEF SensorInit, SensorTypes

LEMMA SensorTypesStep == SensorTypes /\ [SensorNext]_sensorVars => SensorTypes'
<1> SUFFICES ASSUME SensorTypes, [SensorNext]_sensorVars PROVE SensorTypes'
  OBVIOUS
<1> USE SensorAssumption
<1>1. ASSUME NEW d \in Sensor, Stamp(d) PROVE SensorTypes'
  BY <1>1 DEF Stamp, SensorTypes, SeenAge
<1>2. ASSUME NEW d \in Sensor, StoreDropout(d) PROVE SensorTypes'
  <2>1. kept' = Store([device |-> d, dropout |-> TRUE])
    BY <1>2 DEF StoreDropout
  <2>2. [device |-> d, dropout |-> TRUE] \in SensorAlert
    BY DEF SensorAlert
  <2>3. kept' \in Seq(SensorAlert) /\ Len(kept') <= AlertsKept
    BY <2>1, <2>2, StoreIs DEF SensorTypes
  <2>4. dropouts' \in [Sensor -> 0..MaxDropouts] /\ crossed' \subseteq Sensor
    BY <1>2 DEF StoreDropout, SensorTypes
  <2> QED
    BY <1>2, <2>3, <2>4 DEF StoreDropout, SensorTypes
<1>3. CASE Rearm
  <2>1. kept' = Store([device |-> consuming, dropout |-> FALSE])
    BY <1>3 DEF Rearm
  <2>2. [device |-> consuming, dropout |-> FALSE] \in SensorAlert
    BY <1>3 DEF SensorAlert, Rearm, SensorTypes
  <2>3. kept' \in Seq(SensorAlert) /\ Len(kept') <= AlertsKept
    BY <2>1, <2>2, StoreIs DEF SensorTypes
  <2> QED
    BY <1>3, <2>3 DEF Rearm, SensorTypes
<1>4. CASE CopyStamps
  <2>1. copy' \subseteq [device : Sensor, age : 0..Silence + 1]
    BY <1>4 DEF CopyStamps, SensorTypes, SeenAge, Known
  <2> QED
    BY <1>4, <2>1 DEF CopyStamps, SensorTypes
<1>5. ASSUME NEW c \in copy, Look(c) PROVE SensorTypes'
  <2>1. watching' = Asleep \/ watching' \in Busy
    BY <1>5 DEF Look, SensorTypes, Busy
  <2> QED
    BY <1>5, <2>1 DEF Look, SensorTypes
<1>6. CASE Fire
  <2>1. watching \in Busy /\ watching' \in Busy /\ watching.device \in Sensor
    <3>1. watching \in Busy /\ watching' = [watching EXCEPT !.op = "publish"]
      BY <1>6 DEF Fire, SensorTypes, Asleep
    <3> QED
      BY <3>1 DEF Busy
  <2> QED
    BY <1>6, <2>1 DEF Fire, SensorTypes
<1>7. CASE Publish
  <2>1. watching \in Busy /\ watching' \in Busy /\ watching.device \in Sensor
    <3>1. watching \in Busy /\ watching' = [watching EXCEPT !.op = "forget"]
      BY <1>7 DEF Publish, SensorTypes, Asleep
    <3> QED
      BY <3>1 DEF Busy
  <2>2. dropouts' \in [Sensor -> 0..MaxDropouts]
    BY <1>7, <2>1 DEF Publish, SensorTypes
  <2>4. alarms' \in [Sensor -> Nat]
    BY <1>7, <2>1 DEF Publish, SensorTypes
  <2> QED
    BY <1>7, <2>1, <2>2, <2>4 DEF Publish, SensorTypes
<1>8. CASE Forget
  <2>1. watching.device \in Sensor
    BY <1>8 DEF Forget, SensorTypes, Busy, Asleep
  <2> QED
    BY <1>8, <2>1 DEF Forget, SensorTypes, SeenAge
<1>9. CASE SensorTick
  <2>1. lastSeen' \in [Sensor -> SeenAge]
    BY <1>9 DEF SensorTick, SensorTypes, SeenAge, Known
  <2> QED
    BY <1>9, <2>1 DEF SensorTick, SensorTypes
<1>10. CASE UNCHANGED sensorVars
  BY <1>10 DEF sensorVars, SensorTypes
<1> QED
  BY <1>1, <1>2, <1>3, <1>4, <1>5, <1>6, <1>7, <1>8, <1>9, <1>10 DEF SensorNext, Watch

-----------------------------------------------------------------------------
(* Sensors: one dropout for each silence.                                  *)

\* What the watchdog holds of a device: one entry of its copy, or its work.
CopyOnce ==
    \A c \in copy :
        c.device # watching.device /\ \A b \in copy : b.device = c.device => b = c

\* After a dropout the watchdog comes to the device again only when it has a new
\* stamp.
PublishedOnce ==
    \A d \in Sensor :
        /\ alarms[d] \in {0, 1}
        /\ alarms[d] = 1 =>
              /\ watching.device = d => watching.op = "forget"
              /\ d \in Known => watching.device = d
              /\ \A c \in copy : c.device # d

\* A device whose reading is being consumed has a stamp of this tick, or none.
JustStamped == consuming # Nil => lastSeen[consuming] \in {0, Nil}

\* A device that may not fire is one whose stamp is gone or about to go, or one
\* that its reading is about to arm.
Disarmed == \A d \in dropoutFired : d \notin Known \/ consuming = d \/ watching.device = d

\* During a round every silent device is before the watchdog.
Ahead ==
    looked => \A d \in Known : lastSeen[d] > Silence =>
                 \/ watching.device = d
                 \/ \E c \in copy : c.device = d /\ c.age > Silence

\* A stamp that is about to go was reported, or is of this tick.
GoingIsReported ==
    watching.op = "forget" => alarms[watching.device] > 0 \/ lastSeen[watching.device] = 0

\* A stamp that is gone was reported, or went while it was fresh.
GoneIsReported == \A d \in heardOf : d \in Known \/ alarms[d] > 0 \/ d \in overtaken

RoundInv ==
    /\ CopyOnce /\ PublishedOnce /\ JustStamped /\ Disarmed /\ Ahead
    /\ GoingIsReported /\ GoneIsReported

LEMMA RoundInit == SensorInit => RoundInv
<1> SUFFICES ASSUME SensorInit PROVE RoundInv
  OBVIOUS
<1> QED
  BY SensorAssumption DEF SensorInit, RoundInv, CopyOnce, PublishedOnce, JustStamped, Disarmed,
     Ahead, GoingIsReported, GoneIsReported, Asleep, Known

LEMMA RoundStep == SensorTypes /\ RoundInv /\ [SensorNext]_sensorVars => RoundInv'
<1> SUFFICES ASSUME SensorTypes, RoundInv, [SensorNext]_sensorVars PROVE RoundInv'
  OBVIOUS
<1> USE SensorAssumption
<1>1. ASSUME NEW d \in Sensor, Stamp(d) PROVE RoundInv'
  <2> USE DEF Stamp
  <2>1. CopyOnce' /\ PublishedOnce'
    BY <1>1 DEF RoundInv, CopyOnce, PublishedOnce, SensorTypes, Known
  <2>2. JustStamped' /\ Disarmed'
    BY <1>1 DEF RoundInv, JustStamped, Disarmed, SensorTypes, Known
  <2>3. Ahead'
    BY <1>1 DEF RoundInv, Ahead, SensorTypes, Known
  <2>4. GoingIsReported' /\ GoneIsReported'
    BY <1>1 DEF RoundInv, GoingIsReported, GoneIsReported, SensorTypes, Known, Busy, Asleep
  <2> QED
    BY <2>1, <2>2, <2>3, <2>4 DEF RoundInv
<1>2. ASSUME NEW d \in Sensor, StoreDropout(d) PROVE RoundInv'
  BY <1>2 DEF StoreDropout, RoundInv, CopyOnce, PublishedOnce, JustStamped, Disarmed, Ahead,
     GoingIsReported, GoneIsReported, Known
<1>3. CASE Rearm
  <2>1. Disarmed' /\ JustStamped'
    BY <1>3 DEF Rearm, RoundInv, Disarmed, JustStamped, Known
  <2> QED
    BY <1>3, <2>1 DEF Rearm, RoundInv, CopyOnce, PublishedOnce, Ahead, GoingIsReported,
       GoneIsReported, Known
<1>4. CASE CopyStamps
  <2>1. copy' = {[device |-> d, age |-> lastSeen[d]] : d \in Known}
        /\ watching = Asleep /\ looked' = TRUE
        /\ UNCHANGED <<lastSeen, dropoutFired, consuming, watching, heardOf, alarms, overtaken>>
    BY <1>4 DEF CopyStamps
  <2>2. \A c \in copy' : c.device \in Known /\ c = [device |-> c.device, age |-> lastSeen[c.device]]
    BY <2>1
  <2>3. CopyOnce'
    BY <2>1, <2>2 DEF CopyOnce, Asleep, Known
  <2>4. PublishedOnce'
    BY <2>1, <2>2 DEF RoundInv, PublishedOnce, Asleep, Known
  <2>5. Ahead'
    <3> SUFFICES ASSUME NEW d \in Known, lastSeen[d] > Silence
                 PROVE  \E c \in copy' : c.device = d /\ c.age > Silence
      BY <2>1 DEF Ahead, Known
    <3> DEFINE c == [device |-> d, age |-> lastSeen[d]]
    <3>1. c \in copy'
      BY <2>1
    <3> QED
      BY <3>1
  <2> QED
    BY <2>1, <2>3, <2>4, <2>5 DEF RoundInv, JustStamped, Disarmed, GoingIsReported,
       GoneIsReported, Known
<1>5. ASSUME NEW c \in copy, Look(c) PROVE RoundInv'
  <2>1. /\ watching = Asleep /\ copy' = copy \ {c}
        /\ watching' = IF Silent(c) THEN [op |-> "fire", device |-> c.device] ELSE Asleep
        /\ UNCHANGED <<lastSeen, dropoutFired, consuming, looked, heardOf, alarms, overtaken>>
    BY <1>5 DEF Look
  <2>2. c.device \in Sensor /\ c.age \in 0..Silence + 1
    BY DEF SensorTypes
  <2>3. CopyOnce'
    BY <2>1, <2>2 DEF RoundInv, CopyOnce, SensorTypes, Asleep
  <2>4. PublishedOnce'
    BY <2>1, <2>2 DEF RoundInv, PublishedOnce, Asleep, Known
  <2>5. JustStamped' /\ Disarmed'
    BY <2>1, <2>2 DEF RoundInv, JustStamped, Disarmed, SensorTypes, Asleep, Known
  <2>6. Ahead'
    <3> SUFFICES ASSUME looked, NEW d \in Known, lastSeen[d] > Silence
                 PROVE  \/ watching'.device = d
                        \/ \E b \in copy' : b.device = d /\ b.age > Silence
      BY <2>1 DEF Ahead, Known
    <3>1. PICK b \in copy : b.device = d /\ b.age > Silence
      BY <2>1 DEF RoundInv, Ahead, Asleep, Known
    <3>2. CASE b # c
      BY <2>1, <3>1, <3>2
    <3>3. CASE b = c
      <4>1. consuming # d
        BY DEF RoundInv, JustStamped, Known
      <4>2. d \notin dropoutFired
        BY <2>1, <4>1 DEF RoundInv, Disarmed, Asleep, Known
      <4> QED
        BY <2>1, <3>1, <3>3, <4>2 DEF Silent
    <3> QED
      BY <3>2, <3>3
  <2>7. GoingIsReported' /\ GoneIsReported'
    BY <2>1 DEF RoundInv, GoingIsReported, GoneIsReported, Asleep, Known
  <2> QED
    BY <2>3, <2>4, <2>5, <2>6, <2>7 DEF RoundInv
<1>6. CASE Fire
  <2>1. /\ watching \in Busy /\ watching.op = "fire"
        /\ watching'.op = "publish" /\ watching'.device = watching.device
        /\ dropoutFired' = dropoutFired \cup {watching.device}
        /\ UNCHANGED <<lastSeen, consuming, copy, looked, heardOf, alarms, overtaken>>
    BY <1>6 DEF Fire, SensorTypes, Asleep, Busy
  <2>2. CopyOnce' /\ PublishedOnce' /\ JustStamped'
    BY <2>1 DEF RoundInv, CopyOnce, PublishedOnce, JustStamped, Known
  <2>3. Disarmed' /\ Ahead' /\ GoingIsReported' /\ GoneIsReported'
    BY <2>1 DEF RoundInv, Disarmed, Ahead, GoingIsReported, GoneIsReported, Known
  <2> QED
    BY <2>2, <2>3 DEF RoundInv
<1>7. CASE Publish
  <2>1. /\ watching \in Busy /\ watching.op = "publish" /\ watching.device \in Sensor
        /\ watching'.op = "forget" /\ watching'.device = watching.device
        /\ alarms' = [alarms EXCEPT ![watching.device] = @ + 1]
        /\ UNCHANGED <<lastSeen, dropoutFired, consuming, copy, looked, heardOf, overtaken>>
    BY <1>7 DEF Publish, SensorTypes, Asleep, Busy
  <2>2. alarms[watching.device] = 0 /\ alarms \in [Sensor -> Nat]
    BY <2>1 DEF RoundInv, PublishedOnce, SensorTypes
  <2>3. CopyOnce' /\ JustStamped' /\ Disarmed' /\ Ahead'
    BY <2>1 DEF RoundInv, CopyOnce, JustStamped, Disarmed, Ahead, Known
  <2>4. PublishedOnce'
    BY <2>1, <2>2 DEF RoundInv, PublishedOnce, CopyOnce, Known
  <2>5. GoingIsReported' /\ GoneIsReported'
    BY <2>1, <2>2 DEF RoundInv, GoingIsReported, GoneIsReported, SensorTypes, Known
  <2> QED
    BY <2>3, <2>4, <2>5 DEF RoundInv
<1>8. CASE Forget
  <2>1. /\ watching \in Busy /\ watching.op = "forget" /\ watching.device \in Sensor
        /\ watching' = Asleep /\ lastSeen' = [lastSeen EXCEPT ![watching.device] = Nil]
        /\ overtaken' = IF Fresh(watching.device)
                        THEN overtaken \cup {watching.device} ELSE overtaken
        /\ UNCHANGED <<dropoutFired, consuming, copy, looked, heardOf, alarms>>
    BY <1>8 DEF Forget, SensorTypes, Asleep, Busy
  <2>2. Known' = Known \ {watching.device} /\ Nil \notin Sensor
    BY <2>1 DEF Known, SensorTypes
  <2>3. CopyOnce' /\ PublishedOnce'
    BY <2>1, <2>2 DEF RoundInv, CopyOnce, PublishedOnce, SensorTypes, Asleep
  <2>4. JustStamped' /\ Disarmed'
    BY <2>1, <2>2 DEF RoundInv, JustStamped, Disarmed, SensorTypes, Asleep
  <2>5. Ahead'
    BY <2>1, <2>2 DEF RoundInv, Ahead, SensorTypes, Asleep, Known
  <2>6. GoneIsReported'
    BY <2>1, <2>2 DEF RoundInv, GoingIsReported, GoneIsReported, SensorTypes, Fresh, Known
  <2>7. GoingIsReported'
    BY <2>1 DEF GoingIsReported, Asleep
  <2> QED
    BY <2>3, <2>4, <2>5, <2>6, <2>7 DEF RoundInv
<1>9. CASE SensorTick
  <2>1. /\ copy = {} /\ watching = Asleep /\ consuming = Nil /\ looked' = FALSE
        /\ UNCHANGED <<dropoutFired, consuming, watching, copy, heardOf, alarms, overtaken>>
    BY <1>9 DEF SensorTick
  <2>2. Known' = Known
    BY <1>9 DEF SensorTick, SensorTypes, SeenAge, Known
  <2> QED
    BY <2>1, <2>2 DEF RoundInv, CopyOnce, PublishedOnce, JustStamped, Disarmed, Ahead,
       GoingIsReported, GoneIsReported, Asleep
<1>10. CASE UNCHANGED sensorVars
  BY <1>10 DEF sensorVars, RoundInv, CopyOnce, PublishedOnce, JustStamped, Disarmed, Ahead,
     GoingIsReported, GoneIsReported, Known
<1> QED
  BY <1>1, <1>2, <1>3, <1>4, <1>5, <1>6, <1>7, <1>8, <1>9, <1>10 DEF SensorNext, Watch

-----------------------------------------------------------------------------
(* Sensors: what /sensors shows.                                           *)

\* Every dropout of d that is kept has a reading of d after it.
ReadAfter(d) ==
    \A i \in Entries(d, TRUE) : \E j \in Entries(d, FALSE) : i < j

\* A sensor that is not silent sent after its last dropout, the exceptions of
\* LiveIsNotOffline aside.
InOrder ==
    \A d \in Sensor : Fresh(d) /\ consuming # d /\ d \notin crossed => ReadAfter(d)

LEMMA StoreKeepsOrder ==
  ASSUME SensorTypes, NEW e \in SensorAlert, kept' = Store(e), NEW d \in Sensor,
         e.device # d, ReadAfter(d)
  PROVE  ReadAfter(d)'
<1>1. PICK s \in {0, 1} :
         /\ Len(kept') = Len(kept) + 1 - s
         /\ \A i \in 1..Len(kept') - 1 : kept'[i] = kept[i + s]
         /\ kept'[Len(kept')] = e
  BY StoreIs DEF SensorTypes
<1>2. kept' \in Seq(SensorAlert) /\ Len(kept') \in Nat /\ kept \in Seq(SensorAlert) /\ Len(kept) \in Nat
  BY StoreIs DEF SensorTypes
<1> DEFINE old == kept
           new == kept'
           out == [device |-> d, dropout |-> TRUE]
           in == [device |-> d, dropout |-> FALSE]
<1>3. \A i \in 1..Len(old) : old[i] = out => \E k \in 1..Len(old) : old[k] = in /\ i < k
  <2>1. DOMAIN old = 1..Len(old)
    BY <1>2
  <2>2. Entries(d, TRUE) = {i \in DOMAIN old : old[i] = out}
        /\ Entries(d, FALSE) = {i \in DOMAIN old : old[i] = in}
    BY DEF Entries
  <2> HIDE DEF old, out, in
  <2> QED
    BY <2>1, <2>2 DEF ReadAfter
<1>4. out # e
  BY DEF SensorAlert
<1> HIDE DEF old, new, out, in
<1>5. \A i \in 1..Len(new) : new[i] = out => \E j \in 1..Len(new) : new[j] = in /\ i < j
  <2> SUFFICES ASSUME NEW i \in 1..Len(new), new[i] = out
               PROVE  \E j \in 1..Len(new) : new[j] = in /\ i < j
    OBVIOUS
  <2>1. i \in 1..Len(new) - 1
    BY <1>1, <1>2, <1>4 DEF new
  <2>2. i + s \in 1..Len(old) /\ old[i + s] = out
    BY <1>1, <1>2, <2>1 DEF new, old
  <2>3. PICK k \in 1..Len(old) : old[k] = in /\ i + s < k
    BY <1>3, <2>2
  <2>4. k - s \in 1..Len(new) - 1 /\ (k - s) + s = k /\ i < k - s /\ k - s \in 1..Len(new)
    BY <1>1, <1>2, <2>3 DEF new, old
  <2>5. new[k - s] = old[(k - s) + s]
    BY <1>1, <2>4 DEF new, old
  <2> QED
    BY <2>3, <2>4, <2>5
<1>6. DOMAIN new = 1..Len(new)
  BY <1>2 DEF new
<1>7. Entries(d, TRUE)' = {i \in DOMAIN new : new[i] = out}
      /\ Entries(d, FALSE)' = {i \in DOMAIN new : new[i] = in}
  BY DEF Entries, new, out, in
<1> QED
  BY <1>5, <1>6, <1>7 DEF ReadAfter

LEMMA StoreReading ==
  ASSUME SensorTypes, NEW d \in Sensor, kept' = Store([device |-> d, dropout |-> FALSE])
  PROVE  ReadAfter(d)'
<1> DEFINE in == [device |-> d, dropout |-> FALSE]
           out == [device |-> d, dropout |-> TRUE]
           new == kept'
           L == Len(new)
<1>1. in \in SensorAlert
  BY DEF SensorAlert
<1>2. new \in Seq(SensorAlert) /\ L >= 1 /\ new[L] = in
  BY <1>1, StoreIs DEF SensorTypes
<1>3. L \in Nat /\ L \in 1..L /\ DOMAIN new = 1..L
  BY <1>2
<1>4. out # in
  OBVIOUS
<1>5. Entries(d, TRUE)' = {i \in DOMAIN new : new[i] = out}
      /\ Entries(d, FALSE)' = {i \in DOMAIN new : new[i] = in}
  BY DEF Entries
<1> HIDE DEF in, out, new, L
<1>6. \A i \in 1..L : new[i] = out => i < L
  BY <1>2, <1>3, <1>4
<1> QED
  BY <1>2, <1>3, <1>5, <1>6 DEF ReadAfter

LEMMA OrderStep ==
  SensorTypes /\ InOrder /\ [SensorNext]_sensorVars => InOrder'
<1> SUFFICES ASSUME SensorTypes, InOrder, [SensorNext]_sensorVars, NEW d \in Sensor,
                    Fresh(d)', consuming' # d, d \notin crossed'
             PROVE  ReadAfter(d)'
  BY DEF InOrder
<1> USE SensorAssumption
<1>1. ASSUME NEW c \in Sensor, Stamp(c) PROVE ReadAfter(d)'
  <2>1. c # d /\ kept' = kept /\ Fresh(d) /\ consuming # d /\ d \notin crossed
    BY <1>1 DEF Stamp, Fresh, Known, SensorTypes
  <2> QED
    BY <2>1 DEF InOrder, ReadAfter, Entries
<1>2. ASSUME NEW c \in Sensor, StoreDropout(c) PROVE ReadAfter(d)'
  <2>1. Fresh(d) /\ consuming # d /\ d \notin crossed /\ c # d
    BY <1>2 DEF StoreDropout, Fresh, Known
  <2>2. [device |-> c, dropout |-> TRUE] \in SensorAlert
    BY DEF SensorAlert
  <2>3. kept' = Store([device |-> c, dropout |-> TRUE])
    BY <1>2 DEF StoreDropout
  <2> QED
    BY <2>1, <2>2, <2>3, StoreKeepsOrder DEF InOrder
<1>3. CASE Rearm
  <2>1. /\ consuming \in Sensor /\ kept' = Store([device |-> consuming, dropout |-> FALSE])
        /\ crossed' = crossed \ {consuming} /\ lastSeen' = lastSeen
    BY <1>3 DEF Rearm, SensorTypes
  <2>2. CASE consuming = d
    BY <2>1, <2>2, StoreReading
  <2>3. CASE consuming # d
    <3>1. Fresh(d) /\ d \notin crossed
      BY <2>1, <2>3 DEF Fresh, Known
    <3>2. [device |-> consuming, dropout |-> FALSE] \in SensorAlert
      BY <2>1 DEF SensorAlert
    <3> QED
      BY <2>1, <2>3, <3>1, <3>2, StoreKeepsOrder DEF InOrder
  <2> QED
    BY <2>2, <2>3
<1>4. CASE CopyStamps \/ (\E c \in copy : Look(c)) \/ Fire \/ Publish \/ UNCHANGED sensorVars
  <2>1. UNCHANGED <<lastSeen, kept, consuming, crossed>>
    BY <1>4 DEF CopyStamps, Look, Fire, Publish, sensorVars
  <2> QED
    BY <2>1 DEF InOrder, ReadAfter, Entries, Fresh, Known
<1>5. CASE Forget
  <2>1. Fresh(d) /\ UNCHANGED <<kept, consuming, crossed>>
    BY <1>5 DEF Forget, Fresh, Known, SensorTypes
  <2> QED
    BY <2>1 DEF InOrder, ReadAfter, Entries
<1>6. CASE SensorTick
  <2>1. Fresh(d) /\ UNCHANGED <<kept, consuming, crossed>>
    BY <1>6 DEF SensorTick, Fresh, Known, SensorTypes, SeenAge
  <2> QED
    BY <2>1 DEF InOrder, ReadAfter, Entries
<1> QED
  BY <1>1, <1>2, <1>3, <1>4, <1>5, <1>6 DEF SensorNext, Watch

-----------------------------------------------------------------------------
(* Agents: types.                                                          *)

Copied == [agent : Agent, age : 0..AlarmCooldown]

AgentTypes ==
    /\ everBeat \subseteq Agent /\ alerted \subseteq Expected
    /\ onTheWay \in [Manager -> SUBSET Agent]
    /\ lastBeat \in [Manager -> [Agent -> Ages]]
    /\ lastAlarm \in [Agent -> Ages]
    /\ boot \in [Manager -> Nat]
    /\ judging \in [Manager -> SUBSET (Expected \cup Copied)]
    /\ judging["dlm"] \subseteq Copied /\ judging["cm"] \subseteq Expected
    /\ rounded \subseteq Manager
    /\ reportsOf \in [Manager -> [Agent -> 0..2]]

LEMMA Managers == "dlm" \in Manager /\ "cm" \in Manager /\ \A m \in Manager : m = "dlm" \/ m = "cm"
BY DEF Manager

LEMMA LaterIs ==
  ASSUME NEW age \in Ages
  PROVE  /\ Later(age) \in Ages /\ (Later(age) = Never <=> age = Never)
         /\ age # Never => /\ age \in 0..AlarmCooldown /\ Later(age) >= age
                           /\ age < AlarmCooldown => Later(age) = age + 1
BY AgentAssumption DEF Ages, Later

LEMMA ReportIs ==
  ASSUME AgentTypes, NEW m \in Manager, NEW a \in Agent, Report(m, a)
  PROVE  /\ reportsOf' \in [Manager -> [Agent -> 0..2]]
         /\ reportsOf'[m][a] = IF reportsOf[m][a] < 2 THEN reportsOf[m][a] + 1 ELSE 2
         /\ \A n \in Manager, b \in Agent :
               n # m \/ b # a => reportsOf'[n][b] = reportsOf[n][b]
<1> DEFINE r == reportsOf[m][a]
           s == IF r < 2 THEN r + 1 ELSE 2
<1>1. r \in 0..2 /\ s \in 0..2
  BY DEF AgentTypes
<1>2. reportsOf' = [reportsOf EXCEPT ![m][a] = s]
  BY DEF Report
<1> HIDE DEF s
<1>3. /\ reportsOf' \in [Manager -> [Agent -> 0..2]] /\ reportsOf'[m][a] = s
      /\ \A n \in Manager, b \in Agent : n # m \/ b # a => reportsOf'[n][b] = reportsOf[n][b]
  BY <1>1, <1>2 DEF AgentTypes
<1> QED
  BY <1>3 DEF s

LEMMA AgentTypesInit == AgentInit => AgentTypes
<1> SUFFICES ASSUME AgentInit PROVE AgentTypes
  OBVIOUS
<1>1. 0 \in 0..2 /\ Never \in Ages
  BY DEF Ages
<1>2. /\ lastBeat \in [Manager -> [Agent -> Ages]] /\ lastAlarm \in [Agent -> Ages]
      /\ reportsOf \in [Manager -> [Agent -> 0..2]]
  BY <1>1 DEF AgentInit
<1>3. /\ judging \in [Manager -> SUBSET (Expected \cup Copied)]
      /\ judging["dlm"] = {} /\ judging["cm"] = {}
  BY Managers DEF AgentInit
<1> QED
  BY <1>2, <1>3, AgentAssumption DEF AgentInit, AgentTypes

LEMMA AgentTypesStep == AgentTypes /\ [AgentNext]_agentVars => AgentTypes'
<1> SUFFICES ASSUME AgentTypes, [AgentNext]_agentVars PROVE AgentTypes'
  OBVIOUS
<1> USE AgentAssumption, Managers
<1>1. ASSUME NEW a \in Agent, Beat(a) PROVE AgentTypes'
  BY <1>1 DEF Beat, AgentTypes
<1>2. ASSUME NEW a \in Agent, NEW m \in Manager, Hear(m, a) PROVE AgentTypes'
  <2>1. /\ lastBeat' \in [Manager -> [Agent -> Ages]]
        /\ reportsOf' \in [Manager -> [Agent -> 0..2]]
        /\ onTheWay' \in [Manager -> SUBSET Agent]
    BY <1>2 DEF Hear, AgentTypes, Ages
  <2> QED
    BY <1>2, <2>1 DEF Hear, AgentTypes
<1>3. ASSUME NEW m \in Manager, Restart(m) PROVE AgentTypes'
  <2>1. /\ lastBeat' \in [Manager -> [Agent -> Ages]]
        /\ reportsOf' \in [Manager -> [Agent -> 0..2]]
    BY <1>3 DEF Restart, AgentTypes, Ages
  <2>2. /\ judging' \in [Manager -> SUBSET (Expected \cup Copied)]
        /\ judging'["dlm"] \subseteq Copied /\ judging'["cm"] \subseteq Expected
    BY <1>3 DEF Restart, AgentTypes
  <2>3. boot' \in [Manager -> Nat] /\ rounded' \subseteq Manager /\ everBeat' = everBeat
    BY <1>3 DEF Restart, AgentTypes
  <2>4. alerted' \subseteq Expected /\ onTheWay' \in [Manager -> SUBSET Agent]
        /\ lastAlarm' \in [Agent -> Ages]
    BY <1>3 DEF Restart, AgentTypes, Ages
  <2> QED
    BY <2>1, <2>2, <2>3, <2>4 DEF AgentTypes
<1>4. CASE DlmCopies
  <2> DEFINE S == {[agent |-> a, age |-> lastBeat["dlm"][a]] : a \in Heard("dlm")}
  <2>1. S \subseteq Copied
    BY DEF AgentTypes, Ages, Heard, Copied
  <2>2. judging' = [judging EXCEPT !["dlm"] = S]
    BY <1>4 DEF DlmCopies
  <2> HIDE DEF S
  <2>3. /\ judging' \in [Manager -> SUBSET (Expected \cup Copied)]
        /\ judging'["dlm"] \subseteq Copied /\ judging'["cm"] \subseteq Expected
    BY <2>1, <2>2 DEF AgentTypes
  <2> QED
    BY <1>4, <2>3 DEF DlmCopies, AgentTypes
<1>5. ASSUME NEW c \in judging["dlm"], DlmJudges(c) PROVE AgentTypes'
  <2>1. c \in Copied /\ c.agent \in Agent
    BY DEF AgentTypes, Copied
  <2>2. /\ judging' \in [Manager -> SUBSET (Expected \cup Copied)]
        /\ judging'["dlm"] \subseteq Copied /\ judging'["cm"] \subseteq Expected
    BY <1>5 DEF DlmJudges, AgentTypes
  <2>3. \/ UNCHANGED <<lastAlarm, reportsOf>>
        \/ lastAlarm' = [lastAlarm EXCEPT ![c.agent] = 0] /\ Report("dlm", c.agent)
    BY <1>5 DEF DlmJudges
  <2>4. lastAlarm' \in [Agent -> Ages] /\ reportsOf' \in [Manager -> [Agent -> 0..2]]
    <3>1. CASE UNCHANGED <<lastAlarm, reportsOf>>
      BY <3>1 DEF AgentTypes
    <3>2. CASE lastAlarm' = [lastAlarm EXCEPT ![c.agent] = 0] /\ Report("dlm", c.agent)
      <4>1. 0 \in Ages
        BY DEF Ages
      <4>2. lastAlarm' \in [Agent -> Ages]
        BY <2>1, <3>2, <4>1 DEF AgentTypes
      <4> QED
        BY <2>1, <3>2, <4>2, ReportIs
    <3> QED
      BY <2>3, <3>1, <3>2
  <2> QED
    BY <1>5, <2>2, <2>4 DEF DlmJudges, AgentTypes
<1>6. CASE CmStarts
  BY <1>6 DEF CmStarts, AgentTypes
<1>7. ASSUME NEW a \in judging["cm"], CmJudges(a) PROVE AgentTypes'
  <2>1. a \in Expected /\ a \in Agent
    BY DEF AgentTypes
  <2>2. /\ judging' \in [Manager -> SUBSET (Expected \cup Copied)]
        /\ judging'["dlm"] \subseteq Copied /\ judging'["cm"] \subseteq Expected
    BY <1>7 DEF CmJudges, AgentTypes
  <2>3. alerted' \subseteq Expected
    BY <1>7, <2>1 DEF CmJudges, Alerted, AgentTypes
  <2>4. Report("cm", a) \/ UNCHANGED reportsOf
    BY <1>7 DEF CmJudges
  <2>5. reportsOf' \in [Manager -> [Agent -> 0..2]]
    BY <2>1, <2>4, ReportIs DEF AgentTypes
  <2> QED
    BY <1>7, <2>2, <2>3, <2>5 DEF CmJudges, AgentTypes
<1>8. CASE AgentTick
  <2>1. lastBeat' \in [Manager -> [Agent -> Ages]] /\ lastAlarm' \in [Agent -> Ages]
    BY <1>8, LaterIs DEF AgentTick, AgentTypes
  <2>2. boot' \in [Manager -> Nat]
    <3>1. \A m \in Manager : (IF boot[m] = 0 THEN 0 ELSE boot[m] - 1) \in Nat
      BY DEF AgentTypes
    <3> QED
      BY <1>8, <3>1 DEF AgentTick
  <2> QED
    BY <1>8, <2>1, <2>2 DEF AgentTick, AgentTypes
<1>9. CASE UNCHANGED agentVars
  BY <1>9 DEF agentVars, AgentTypes
<1> QED
  BY <1>1, <1>2, <1>3, <1>4, <1>5, <1>6, <1>7, <1>8, <1>9 DEF AgentNext, Rounds

-----------------------------------------------------------------------------
(* Agents: the central manager.                                            *)

\* One alarm, and after it the agent is known to be down until it sends.
AlarmedOnce ==
    \A a \in Expected :
        /\ reportsOf["cm"][a] \in {0, 1}
        /\ reportsOf["cm"][a] = 1 => a \in alerted /\ IsDown(a)

\* An agent that is back is forgiven in the next round, before it can be silent again.
ForgivenSoon ==
    \A a \in alerted :
        /\ boot["cm"] = 0
        /\ reportsOf["cm"][a] = 0 =>
              \/ lastBeat["cm"][a] = 0
              \/ lastBeat["cm"][a] = 1 /\ ("cm" \notin rounded \/ a \in judging["cm"])

RoundsAfterBoot == judging["cm"] # {} => boot["cm"] = 0

\* What the round has left behind is healthy or reported.
CmSeen ==
    "cm" \in rounded =>
        \A a \in Expected : a \in judging["cm"] \/ (IsDown(a) => reportsOf["cm"][a] > 0)

CmInv == AlarmedOnce /\ ForgivenSoon /\ RoundsAfterBoot /\ CmSeen

LEMMA CmInit == AgentInit => CmInv
<1> SUFFICES ASSUME AgentInit PROVE CmInv
  OBVIOUS
<1> QED
  BY AgentAssumption, Managers
     DEF AgentInit, CmInv, AlarmedOnce, ForgivenSoon, RoundsAfterBoot, CmSeen

\* What an agent's age tells.
LEMMA DownIs ==
  ASSUME AgentTypes, NEW a \in Agent
  PROVE  /\ lastBeat["cm"][a] \in Ages
         /\ lastBeat["cm"][a] \in {0, 1} => ~IsDown(a)
         /\ ~IsDown(a) => lastBeat["cm"][a] \in 0..SilenceLimit
BY AgentAssumption, Managers DEF AgentTypes, IsDown, Ages

LEMMA CmStep == AgentTypes /\ CmInv /\ [AgentNext]_agentVars => CmInv'
<1> SUFFICES ASSUME AgentTypes, CmInv, [AgentNext]_agentVars PROVE CmInv'
  OBVIOUS
<1> USE AgentAssumption, Managers
<1>1. CASE \/ \E a \in Agent : Beat(a) \/ Hear("dlm", a)
           \/ DlmCopies \/ Restart("dlm") \/ UNCHANGED agentVars
           \/ \E c \in judging["dlm"] : DlmJudges(c)
  <2>1. /\ lastBeat'["cm"] = lastBeat["cm"] /\ reportsOf'["cm"] = reportsOf["cm"]
        /\ judging'["cm"] = judging["cm"] /\ boot'["cm"] = boot["cm"]
        /\ alerted' = alerted /\ ("cm" \in rounded' <=> "cm" \in rounded)
    <3>1. CASE \E a \in Agent : Beat(a) \/ Hear("dlm", a)
      BY <3>1 DEF Beat, Hear, AgentTypes
    <3>2. CASE DlmCopies \/ Restart("dlm") \/ UNCHANGED agentVars
      BY <3>2 DEF DlmCopies, Restart, agentVars, AgentTypes
    <3>3. ASSUME NEW c \in judging["dlm"], DlmJudges(c)
          PROVE  /\ UNCHANGED <<lastBeat, boot, alerted, rounded>>
                 /\ judging'["cm"] = judging["cm"] /\ reportsOf'["cm"] = reportsOf["cm"]
      BY <3>3 DEF DlmJudges, Report, AgentTypes
    <3> QED
      BY <1>1, <3>1, <3>2, <3>3
  <2> QED
    BY <2>1 DEF CmInv, AlarmedOnce, ForgivenSoon, RoundsAfterBoot, CmSeen, IsDown
<1>2. ASSUME NEW a \in Agent, Hear("cm", a) PROVE CmInv'
  <2>1. /\ UNCHANGED <<alerted, boot, judging, rounded>>
        /\ lastBeat'["cm"][a] = 0 /\ reportsOf'["cm"][a] = 0
        /\ \A b \in Agent \ {a} : /\ lastBeat'["cm"][b] = lastBeat["cm"][b]
                                  /\ reportsOf'["cm"][b] = reportsOf["cm"][b]
    BY <1>2 DEF Hear, AgentTypes
  <2>2. alerted \subseteq Agent /\ Expected \subseteq Agent /\ ~IsDown(a)'
    BY <2>1 DEF AgentTypes, IsDown
  <2>3. \A b \in Agent \ {a} : IsDown(b)' <=> IsDown(b)
    BY <2>1 DEF IsDown
  <2>4. AlarmedOnce'
    BY <2>1, <2>2, <2>3 DEF CmInv, AlarmedOnce
  <2>5. ForgivenSoon' /\ RoundsAfterBoot'
    BY <2>1, <2>2 DEF CmInv, ForgivenSoon, RoundsAfterBoot
  <2>6. CmSeen'
    BY <2>1, <2>2, <2>3 DEF CmInv, CmSeen
  <2> QED
    BY <2>4, <2>5, <2>6 DEF CmInv
<1>3. CASE Restart("cm")
  <2>1. /\ alerted' = {} /\ judging'["cm"] = {} /\ "cm" \notin rounded'
        /\ \A a \in Agent : reportsOf'["cm"][a] = 0
    BY <1>3 DEF Restart, AgentTypes
  <2> QED
    BY <2>1 DEF CmInv, AlarmedOnce, ForgivenSoon, RoundsAfterBoot, CmSeen
<1>4. CASE CmStarts
  <2>1. /\ UNCHANGED <<lastBeat, alerted, boot, reportsOf>>
        /\ judging'["cm"] = Expected /\ boot["cm"] = 0
    BY <1>4 DEF CmStarts, AgentTypes
  <2>2. alerted \subseteq Expected
    BY DEF AgentTypes
  <2> QED
    BY <2>1, <2>2 DEF CmInv, AlarmedOnce, ForgivenSoon, RoundsAfterBoot, CmSeen, IsDown
<1>5. ASSUME NEW a \in judging["cm"], CmJudges(a) PROVE CmInv'
  <2>1. /\ UNCHANGED <<lastBeat, boot, rounded>> /\ judging'["cm"] = judging["cm"] \ {a}
        /\ alerted' = IF IsDown(a) THEN alerted \cup {a} ELSE alerted \ {a}
        /\ IF IsDown(a) /\ a \notin alerted THEN Report("cm", a) ELSE UNCHANGED reportsOf
        /\ boot["cm"] = 0 /\ a \in Expected /\ a \in Agent
    BY <1>5 DEF CmJudges, Alerted, AgentTypes, CmInv, RoundsAfterBoot
  <2>2. \A b : IsDown(b)' <=> IsDown(b)
    BY <2>1 DEF IsDown
  <2>3. /\ \A b \in Agent \ {a} : reportsOf'["cm"][b] = reportsOf["cm"][b]
        /\ reportsOf'["cm"][a] = IF IsDown(a) THEN 1 ELSE 0
    <3>1. reportsOf["cm"][a] \in {0, 1} /\ (reportsOf["cm"][a] = 1 => a \in alerted /\ IsDown(a))
      BY <2>1 DEF CmInv, AlarmedOnce
    <3>2. a \in alerted /\ IsDown(a) => reportsOf["cm"][a] # 0
      BY <2>1, DownIs DEF CmInv, ForgivenSoon
    <3>3. CASE IsDown(a) /\ a \notin alerted
      BY <2>1, <3>1, <3>3, ReportIs
    <3>4. CASE ~(IsDown(a) /\ a \notin alerted)
      BY <2>1, <3>1, <3>2, <3>4
    <3> QED
      BY <3>3, <3>4
  <2>4. Expected \subseteq Agent /\ alerted \subseteq Agent
    BY DEF AgentTypes
  <2>5. AlarmedOnce'
    BY <2>1, <2>2, <2>3, <2>4 DEF CmInv, AlarmedOnce
  <2>6. ForgivenSoon' /\ RoundsAfterBoot'
    BY <2>1, <2>3, <2>4 DEF CmInv, ForgivenSoon, RoundsAfterBoot
  <2>7. CmSeen'
    BY <2>1, <2>2, <2>3, <2>4 DEF CmInv, CmSeen
  <2> QED
    BY <2>5, <2>6, <2>7 DEF CmInv
<1>6. CASE AgentTick
  <2>1. /\ UNCHANGED <<alerted, judging, reportsOf>> /\ rounded' = {}
        /\ judging["cm"] = {} /\ (boot["cm"] = 0 => "cm" \in rounded)
        /\ boot'["cm"] = IF boot["cm"] = 0 THEN 0 ELSE boot["cm"] - 1
        /\ \A a \in Agent : lastBeat'["cm"][a] = Later(lastBeat["cm"][a])
    BY <1>6 DEF AgentTick
  <2>2. Expected \subseteq Agent /\ alerted \subseteq Agent
    BY DEF AgentTypes
  <2>3. \A a \in Agent : IsDown(a) => IsDown(a)'
    BY <2>1, LaterIs, DownIs DEF IsDown
  <2>4. AlarmedOnce'
    BY <2>1, <2>2, <2>3 DEF CmInv, AlarmedOnce
  <2>5. ForgivenSoon'
    <3> SUFFICES ASSUME NEW a \in alerted
                 PROVE  /\ boot'["cm"] = 0
                        /\ reportsOf["cm"][a] = 0 => lastBeat'["cm"][a] = 1
      BY <2>1 DEF ForgivenSoon
    <3>1. /\ boot["cm"] = 0 /\ "cm" \in rounded
          /\ reportsOf["cm"][a] = 0 => lastBeat["cm"][a] = 0
      BY <2>1 DEF CmInv, ForgivenSoon
    <3>2. Later(0) = 1
      BY DEF Later
    <3> QED
      BY <2>1, <2>2, <3>1, <3>2
  <2>6. RoundsAfterBoot' /\ CmSeen'
    BY <2>1 DEF RoundsAfterBoot, CmSeen
  <2> QED
    BY <2>4, <2>5, <2>6 DEF CmInv
<1> QED
  BY <1>1, <1>2, <1>3, <1>4, <1>5, <1>6 DEF AgentNext, Rounds

-----------------------------------------------------------------------------
(* Agents: the data manager.                                               *)

\* An alarm that is older than the last heartbeat ages with it.
AlarmIsOlder ==
    \A a \in Agent :
        (reportsOf["dlm"][a] = 0 /\ lastAlarm[a] # Never /\ lastBeat["dlm"][a] # Never)
            => lastAlarm[a] >= lastBeat["dlm"][a]

\* What the round has left behind is not offline, or reported.
DlmSeen ==
    "dlm" \in rounded =>
        \A a \in Agent : lastBeat["dlm"][a] = AlarmCooldown =>
            \/ [agent |-> a, age |-> AlarmCooldown] \in judging["dlm"]
            \/ reportsOf["dlm"][a] > 0

DlmInv == AlarmIsOlder /\ DlmSeen

LEMMA DlmInit == AgentInit => DlmInv
BY AgentAssumption, Managers DEF AgentInit, DlmInv, AlarmIsOlder, DlmSeen

LEMMA DlmStep == AgentTypes /\ DlmInv /\ [AgentNext]_agentVars => DlmInv'
<1> SUFFICES ASSUME AgentTypes, DlmInv, [AgentNext]_agentVars PROVE DlmInv'
  OBVIOUS
<1> USE AgentAssumption, Managers
<1>1. CASE \/ \E a \in Agent : Beat(a) \/ Hear("cm", a)
           \/ CmStarts \/ Restart("cm") \/ UNCHANGED agentVars
           \/ \E a \in judging["cm"] : CmJudges(a)
  <2>1. /\ lastBeat'["dlm"] = lastBeat["dlm"] /\ reportsOf'["dlm"] = reportsOf["dlm"]
        /\ judging'["dlm"] = judging["dlm"]
        /\ lastAlarm' = lastAlarm /\ ("dlm" \in rounded' <=> "dlm" \in rounded)
    <3>1. CASE \E a \in Agent : Beat(a) \/ Hear("cm", a)
      BY <3>1 DEF Beat, Hear, AgentTypes
    <3>2. CASE CmStarts \/ Restart("cm") \/ UNCHANGED agentVars
      BY <3>2 DEF CmStarts, Restart, agentVars, AgentTypes
    <3>3. ASSUME NEW a \in judging["cm"], CmJudges(a)
          PROVE  /\ UNCHANGED <<lastBeat, lastAlarm, rounded>>
                 /\ judging'["dlm"] = judging["dlm"] /\ reportsOf'["dlm"] = reportsOf["dlm"]
      BY <3>3 DEF CmJudges, Report, AgentTypes
    <3> QED
      BY <1>1, <3>1, <3>2, <3>3
  <2> QED
    BY <2>1 DEF DlmInv, AlarmIsOlder, DlmSeen
<1>2. ASSUME NEW a \in Agent, Hear("dlm", a) PROVE DlmInv'
  <2>1. /\ UNCHANGED <<lastAlarm, judging, rounded>>
        /\ lastBeat'["dlm"][a] = 0 /\ reportsOf'["dlm"][a] = 0
        /\ \A b \in Agent \ {a} : /\ lastBeat'["dlm"][b] = lastBeat["dlm"][b]
                                  /\ reportsOf'["dlm"][b] = reportsOf["dlm"][b]
    BY <1>2 DEF Hear, AgentTypes
  <2>2. lastAlarm[a] # Never => lastAlarm[a] >= 0
    BY DEF AgentTypes, Ages
  <2>3. AlarmIsOlder'
    BY <2>1, <2>2 DEF DlmInv, AlarmIsOlder
  <2>4. DlmSeen'
    BY <2>1 DEF DlmInv, DlmSeen
  <2> QED
    BY <2>3, <2>4 DEF DlmInv
<1>3. CASE Restart("dlm")
  <2>1. "dlm" \notin rounded' /\ \A a \in Agent : lastBeat'["dlm"][a] = Never
    BY <1>3 DEF Restart, AgentTypes
  <2> QED
    BY <2>1 DEF DlmInv, AlarmIsOlder, DlmSeen
<1>4. CASE DlmCopies
  <2>1. /\ UNCHANGED <<lastBeat, lastAlarm, reportsOf>>
        /\ judging'["dlm"] = {[agent |-> a, age |-> lastBeat["dlm"][a]] : a \in Heard("dlm")}
    BY <1>4 DEF DlmCopies, AgentTypes
  <2>2. \A a \in Agent : lastBeat["dlm"][a] = AlarmCooldown =>
           [agent |-> a, age |-> AlarmCooldown] \in judging'["dlm"]
    BY <2>1 DEF Heard
  <2> QED
    BY <2>1, <2>2 DEF DlmInv, AlarmIsOlder, DlmSeen
<1>5. ASSUME NEW c \in judging["dlm"], DlmJudges(c) PROVE DlmInv'
  <2>1. /\ UNCHANGED <<lastBeat, rounded>> /\ judging'["dlm"] = judging["dlm"] \ {c}
        /\ IF c.age <= SilenceLimit \/ HeldBack(c.agent)
           THEN UNCHANGED <<lastAlarm, reportsOf>>
           ELSE lastAlarm' = [lastAlarm EXCEPT ![c.agent] = 0] /\ Report("dlm", c.agent)
    BY <1>5 DEF DlmJudges, AgentTypes
  <2>2. c.agent \in Agent /\ c.age \in 0..AlarmCooldown
    BY DEF AgentTypes, Copied
  <2>3. CASE c.age <= SilenceLimit \/ HeldBack(c.agent)
    <3>1. UNCHANGED <<lastAlarm, reportsOf>>
      BY <2>1, <2>3
    <3>2. AlarmIsOlder'
      BY <2>1, <3>1 DEF DlmInv, AlarmIsOlder
    <3>3. ASSUME NEW a \in Agent, c = [agent |-> a, age |-> AlarmCooldown],
                 lastBeat["dlm"][a] = AlarmCooldown
          PROVE  reportsOf["dlm"][a] > 0
      <4>1. HeldBack(a) /\ c.agent = a
        BY <2>3, <3>3
      <4>2. lastAlarm[a] \in 0..AlarmCooldown /\ lastAlarm[a] < AlarmCooldown
        BY <4>1 DEF HeldBack, AgentTypes, Ages
      <4>3. reportsOf["dlm"][a] # 0
        BY <3>3, <4>1, <4>2 DEF DlmInv, AlarmIsOlder, HeldBack
      <4> QED
        BY <4>3 DEF AgentTypes
    <3>4. DlmSeen'
      BY <2>1, <3>1, <3>3 DEF DlmInv, DlmSeen
    <3> QED
      BY <3>2, <3>4 DEF DlmInv
  <2>4. CASE ~(c.age <= SilenceLimit \/ HeldBack(c.agent))
    <3>1. lastAlarm' = [lastAlarm EXCEPT ![c.agent] = 0] /\ Report("dlm", c.agent)
      BY <2>1, <2>4
    <3>2. /\ reportsOf'["dlm"][c.agent] > 0
          /\ \A b \in Agent \ {c.agent} : reportsOf'["dlm"][b] = reportsOf["dlm"][b]
      <4>1. reportsOf["dlm"][c.agent] \in 0..2
        BY <2>2 DEF AgentTypes
      <4> QED
        BY <2>2, <3>1, <4>1, ReportIs
    <3>3. \A b \in Agent \ {c.agent} : lastAlarm'[b] = lastAlarm[b]
      BY <3>1 DEF AgentTypes
    <3>4. AlarmIsOlder'
      BY <2>1, <3>2, <3>3 DEF DlmInv, AlarmIsOlder
    <3>5. \A b \in Agent \ {c.agent} : c # [agent |-> b, age |-> AlarmCooldown]
      OBVIOUS
    <3>6. DlmSeen'
      BY <2>1, <3>2, <3>5 DEF DlmInv, DlmSeen
    <3> QED
      BY <3>4, <3>6 DEF DlmInv
  <2> QED
    BY <2>3, <2>4
<1>6. CASE AgentTick
  <2>1. /\ UNCHANGED reportsOf /\ rounded' = {}
        /\ \A a \in Agent : /\ lastBeat'["dlm"][a] = Later(lastBeat["dlm"][a])
                            /\ lastAlarm'[a] = Later(lastAlarm[a])
    BY <1>6 DEF AgentTick
  <2>2. AlarmIsOlder'
    <3> SUFFICES ASSUME NEW a \in Agent, reportsOf["dlm"][a] = 0,
                        lastAlarm'[a] # Never, lastBeat'["dlm"][a] # Never
                 PROVE  lastAlarm'[a] >= lastBeat'["dlm"][a]
      BY <2>1 DEF AlarmIsOlder
    <3> DEFINE x == lastAlarm[a]
               y == lastBeat["dlm"][a]
    <3>1. x \in Ages /\ y \in Ages
      BY DEF AgentTypes
    <3>2. lastAlarm'[a] = Later(x) /\ lastBeat'["dlm"][a] = Later(y)
      BY <2>1
    <3>3. x # Never /\ y # Never => x >= y
      BY DEF DlmInv, AlarmIsOlder
    <3> HIDE DEF x, y
    <3>4. Later(x) # Never /\ Later(y) # Never
      BY <3>2
    <3>5. x \in 0..AlarmCooldown /\ y \in 0..AlarmCooldown /\ x >= y
      BY <3>1, <3>3, <3>4, LaterIs
    <3>6. Later(x) >= Later(y)
      BY <3>5 DEF Later
    <3> QED
      BY <3>2, <3>6
  <2> QED
    BY <2>1, <2>2 DEF DlmInv, DlmSeen
<1> QED
  BY <1>1, <1>2, <1>3, <1>4, <1>5, <1>6 DEF AgentNext, Rounds

-----------------------------------------------------------------------------
(* The theorems.                                                           *)

SensorInv == SensorTypes /\ RoundInv /\ InOrder
AgentInv == AgentTypes /\ CmInv /\ DlmInv

LEMMA SensorsInvariance == SensorInit /\ [][SensorNext]_sensorVars => []SensorInv
<1>1. SensorInit => SensorInv
  <2>1. SensorInit => InOrder
    BY DEF SensorInit, InOrder, Fresh, Known
  <2> QED
    BY <2>1, SensorTypesInit, RoundInit DEF SensorInv
<1>2. SensorInv /\ [SensorNext]_sensorVars => SensorInv'
  BY SensorTypesStep, RoundStep, OrderStep DEF SensorInv
<1> QED
  BY <1>1, <1>2, PTL

LEMMA AgentsInvariance == AgentInit /\ [][AgentNext]_agentVars => []AgentInv
<1>1. AgentInit => AgentInv
  BY AgentTypesInit, CmInit, DlmInit DEF AgentInv
<1>2. AgentInv /\ [AgentNext]_agentVars => AgentInv'
  BY AgentTypesStep, CmStep, DlmStep DEF AgentInv
<1> QED
  BY <1>1, <1>2, PTL

\* The state of both watches keeps its types and bounds.
THEOREM WatchTypeCorrect == WatchSpec => [](SensorTypeOK /\ AgentTypeOK)
<1>1. SensorInv => SensorTypeOK
  BY DEF SensorInv, SensorTypes, SensorTypeOK, SensorAlert, SeenAge, Busy
<1>2. AgentInv => AgentTypeOK
  <2>1. Copied \subseteq [agent : Agent, age : Ages]
    BY DEF Copied, Ages
  <2> QED
    BY <2>1 DEF AgentInv, AgentTypes, AgentTypeOK
<1> QED
  BY <1>1, <1>2, SensorsInvariance, AgentsInvariance, PTL DEF WatchSpec

\* A sensor that sends is not shown OFFLINE, a silence has one dropout, and an
\* outage one incident (handle_alert, _heartbeat_watchdog, _check_agent_health).
THEOREM AlarmsAreTrue == WatchSpec => []NoFalseAlarm
<1>1. SensorInv => OneDropoutPerSilence
  BY DEF SensorInv, RoundInv, PublishedOnce, OneDropoutPerSilence
<1>2. SensorInv => LiveIsNotOffline
  <2> SUFFICES ASSUME SensorInv, NEW d \in Sensor, Offline(d), Fresh(d),
                      consuming # d, d \notin crossed
               PROVE  FALSE
    BY DEF LiveIsNotOffline
  <2> QED
    BY DEF SensorInv, InOrder, ReadAfter, Offline
<1>3. AgentInv => OneAlarmPerOutage
  BY DEF AgentInv, CmInv, AlarmedOnce, OneAlarmPerOutage
<1> QED
  BY <1>1, <1>2, <1>3, SensorsInvariance, AgentsInvariance, PTL DEF WatchSpec, NoFalseAlarm

\* Whenever time passes, every silence of a sensor or an agent was reported, and the
\* agent is shown as offline (_heartbeat_watchdog, _heartbeat_monitor_loop,
\* _check_agent_health).
THEOREM SilencesAreReported == WatchSpec => SilenceIsReported
<1> DEFINE SensorStep == SensorTick => \A d \in heardOf :
                            Fresh(d) \/ alarms[d] > 0 \/ d \in overtaken
           AgentStep == AgentTick =>
              /\ boot["cm"] = 0 => \A a \in Expected : IsDown(a) => reportsOf["cm"][a] > 0
              /\ boot["dlm"] = 0 => \A a \in Agent :
                    AgentStatus(a) = "offline" => reportsOf["dlm"][a] > 0
<1>1. SensorInv /\ [SensorNext]_sensorVars => [SensorStep]_sensorVars
  <2> SUFFICES ASSUME SensorInv, SensorTick, NEW d \in heardOf, ~Fresh(d),
                      ~(alarms[d] > 0), d \notin overtaken
               PROVE  FALSE
    OBVIOUS
  <2>1. d \in Known /\ d \in Sensor
    BY DEF SensorInv, SensorTypes, RoundInv, GoneIsReported
  <2>2. lastSeen[d] \in 0..Silence + 1 /\ lastSeen[d] > Silence
    BY <2>1, SensorAssumption DEF SensorInv, SensorTypes, SeenAge, Known, Fresh
  <2>3. looked /\ copy = {} /\ watching = Asleep
    BY DEF SensorTick
  <2>4. watching.device = d
    BY <2>1, <2>2, <2>3 DEF SensorInv, RoundInv, Ahead
  <2> QED
    BY <2>1, <2>3, <2>4, SensorAssumption DEF Asleep
<1>2. AgentInv /\ [AgentNext]_agentVars => [AgentStep]_agentVars
  <2> SUFFICES ASSUME AgentInv, AgentTick PROVE AgentStep
    OBVIOUS
  <2> USE Managers
  <2>1. ASSUME boot["cm"] = 0, NEW a \in Expected, IsDown(a)
        PROVE  reportsOf["cm"][a] > 0
    <3>1. "cm" \in rounded /\ judging["cm"] = {}
      BY <2>1 DEF AgentTick
    <3> QED
      BY <2>1, <3>1 DEF AgentInv, CmInv, CmSeen
  <2>2. ASSUME boot["dlm"] = 0, NEW a \in Agent, AgentStatus(a) = "offline"
        PROVE  reportsOf["dlm"][a] > 0
    <3>1. "dlm" \in rounded /\ judging["dlm"] = {}
      BY <2>2 DEF AgentTick
    <3>2. lastBeat["dlm"][a] \in Ages
      BY DEF AgentInv, AgentTypes
    <3>3. lastBeat["dlm"][a] = AlarmCooldown
      BY <2>2, <3>2, AgentAssumption DEF AgentStatus, Ages
    <3> QED
      BY <3>1, <3>3 DEF AgentInv, DlmInv, DlmSeen
  <2> QED
    BY <2>1, <2>2
<1> QED
  BY <1>1, <1>2, SensorsInvariance, AgentsInvariance, PTL
     DEF WatchSpec, SilenceIsReported, SensorSilenceIsReported, AgentSilenceIsReported

=============================================================================
