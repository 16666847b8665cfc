------------------------------ MODULE Baseline ------------------------------
(***************************************************************************)
(* What the NDR agent learns of a device (ndr_main.py, the "three walls"). *)
(* The consumer thread updates the adaptive baseline with every flow and   *)
(* keeps new ports in quarantine until they were seen on enough days; at   *)
(* the first flow of an hour it compares every baseline with its canary,   *)
(* freezes the ones that diverged, copies the newest snapshot back and     *)
(* alerts.  An analyst takes a freeze off over HTTP, in another thread, at *)
(* any moment, also between the freeze and the copy.                       *)
(*                                                                         *)
(* The two moving averages are kept as whether one is farther from the     *)
(* canary's than CANARY_DIVERGE_PCT allows, which an observation may       *)
(* change either way.  Whether a port makes up QUARANTINE_MIN_PCT of the   *)
(* flows, what the volume, rate and hour of a flow score, and whether the  *)
(* cooldown of an anomaly (5 or 10 minutes) is over are left open.         *)
(***************************************************************************)
EXTENDS Integers, FiniteSets

CONSTANTS
    Device, Port,
    NoPort,         \* a flow without dst_port
    Allowed,        \* the role's allowed ports
    MinDays,        \* QUARANTINE_MIN_DAYS
    WindowDays,     \* QUARANTINE_WINDOW_DAYS
    Day,            \* ticks of a day
    CheckEvery,     \* CANARY_CHECK_INTERVAL
    DriftCooldown,  \* the cooldown of baseline_drift
    MaxForbidden,   \* forbidden ports a baseline may hold: 3
    None

ASSUME BaselineAssumption ==
    /\ {MinDays, WindowDays, Day, CheckEvery, DriftCooldown, MaxForbidden} \subseteq Nat
    /\ Day > 0 /\ MinDays > 0 /\ CheckEvery > 0 /\ DriftCooldown <= CheckEvery
    /\ NoPort \notin Port /\ None \notin Device /\ None \notin Nat
    /\ None \notin [ports : SUBSET (Allowed \cup Port), far : BOOLEAN, frozen : BOOLEAN]

VARIABLES
    adaptive,       \* _adaptive[d], None before its first flow
    quarantine,     \* _quarantine[d]: the entries of the ports that wait
    snapshot,       \* the newest of _snapshots[d], with its age; None
    drifted,        \* ticks since the latest baseline_drift alert of d; None
    published,      \* the alerts published by the latest step
    checkAge,       \* ticks since _last_canary_check
    todo,           \* the devices the check under way has still to look at
    rolling,        \* the device it has frozen and not yet rolled back; None
    hours,          \* ticks since midnight
    \* history
    learnedOn,      \* days ago on which a port was offered for learning
    diverged        \* ticks for which d has been diverged and not frozen

baselineVars == <<adaptive, quarantine, snapshot, drifted, published, checkAge, todo, rolling,
                  hours, learnedOn, diverged>>

Untaught == [ports |-> Allowed, far |-> FALSE, frozen |-> FALSE]
Tracked == {d \in Device : adaptive[d] # None}

\* The issues of _run_canary_check.
Diverges(b) ==
    \/ b.far
    \/ Cardinality(b.ports \ Allowed) > MaxForbidden

----------------------------------------------------------------------------
(* One flow: learn, score, and see whether a check is due. *)

\* _quarantine_port: the port's entry after this flow, and what becomes of it.
\* An entry that is too old goes, with what this flow added.
Counted_Flows(d, p) ==
    LET old == {e \in quarantine[d] : e.port = p}
    IN  IF old = {}
        THEN {[port |-> p, days |-> 1, today |-> TRUE, age |-> 0]}
        ELSE {[e EXCEPT !.days = @ + 1] : e \in old}
Counted(d, p) ==
    LET old == {e \in quarantine[d] : e.port = p}
    IN  IF old = {}
        THEN {[port |-> p, days |-> 1, today |-> TRUE, age |-> 0]}
        ELSE {[e EXCEPT !.days = IF e.today THEN @ ELSE @ + 1, !.today = TRUE] : e \in old}
Expired(e) == e.age > WindowDays * Day
Graduates(e, frequent) == ~Expired(e) /\ e.days >= MinDays /\ frequent
Graduated(d, p, frequent) == {e.port : e \in {x \in Counted(d, p) : Graduates(x, frequent)}}
Waiting(d, p, frequent) ==
    {e \in quarantine[d] : e.port # p} \cup
    {e \in Counted(d, p) : ~Expired(e) /\ ~Graduates(e, frequent)}

\* _maybe_save_snapshot: once a day, whatever the baseline looks like.
Saved(d, b) ==
    IF snapshot[d] = None \/ snapshot[d].age >= Day
    THEN [ports |-> b.ports, far |-> b.far, age |-> 0]
    ELSE snapshot[d]

\* _update_adaptive: nothing is learned of a frozen device.
Learn(d, p, b) ==
    \E far, frequent \in BOOLEAN :
        LET learnt == IF p = NoPort THEN {} ELSE Graduated(d, p, frequent)
            next == [b EXCEPT !.far = far, !.ports = @ \cup learnt]
        IN  /\ adaptive' = [adaptive EXCEPT ![d] = next]
            /\ snapshot' = [snapshot EXCEPT ![d] = Saved(d, next)]
            /\ diverged' = [diverged EXCEPT ![d] = IF Diverges(next) THEN @ ELSE 0]
            /\ IF p = NoPort
               THEN UNCHANGED <<quarantine, learnedOn>>
               ELSE /\ quarantine' = [quarantine EXCEPT ![d] = Waiting(d, p, frequent)]
                    /\ learnedOn' = [learnedOn EXCEPT ![d][p] = @ \cup {0}]

\* _check_behavioral_anomaly, against the baseline that has just learned: 40 points
\* for an unknown port, and what the other dimensions add, which is left open.
Anomaly(b, p, rest) ==
    LET score == rest + (IF p # NoPort /\ p \notin b.ports THEN 40 ELSE 0)
    IN  IF score >= 80 THEN {"anomaly_high"} ELSE IF score >= 50 THEN {"anomaly_medium"} ELSE {}

CheckDue_Late == checkAge > CheckEvery
CheckDue == checkAge >= CheckEvery

BaselineFlow(d, p) ==
    LET b == IF d \in Tracked THEN adaptive[d] ELSE Untaught
    IN  /\ todo = {}
        /\ IF b.frozen
           THEN UNCHANGED <<adaptive, quarantine, snapshot, learnedOn, diverged>>
           ELSE Learn(d, p, b)
        /\ published' \in {{}} \cup {Anomaly(adaptive'[d], p, rest) : rest \in {0, 25, 55, 80}}
        /\ IF CheckDue
           THEN checkAge' = 0 /\ todo' = Tracked \cup {d}
           ELSE UNCHANGED <<checkAge, todo>>
        /\ UNCHANGED <<drifted, rolling, hours>>

\* The loop of _run_canary_check: a device that diverged is frozen ...
Compare(d) ==
    /\ rolling = None /\ d \in todo
    /\ IF Diverges(adaptive[d])
       THEN /\ adaptive' = [adaptive EXCEPT ![d].frozen = TRUE]
            /\ diverged' = [diverged EXCEPT ![d] = 0]
            /\ rolling' = d
            /\ UNCHANGED todo
       ELSE /\ todo' = todo \ {d}
            /\ UNCHANGED <<adaptive, diverged, rolling>>
    /\ published' = {}
    /\ UNCHANGED <<quarantine, snapshot, drifted, checkAge, hours, learnedOn>>

\* ... and then given its newest snapshot, and reported.
RollBack(d) ==
    /\ rolling = d
    /\ adaptive' = IF snapshot[d] = None THEN adaptive
                   ELSE [adaptive EXCEPT ![d].ports = snapshot[d].ports,
                                         ![d].far = snapshot[d].far]
    /\ IF drifted[d] # None /\ drifted[d] < DriftCooldown
       THEN published' = {} /\ UNCHANGED drifted
       ELSE published' = {"baseline_drift"} /\ drifted' = [drifted EXCEPT ![d] = 0]
    /\ todo' = todo \ {d}
    /\ rolling' = None
    /\ UNCHANGED <<quarantine, snapshot, checkAge, hours, learnedOn, diverged>>

\* POST /baseline/{ip}/unfreeze.
Unfreeze(d) ==
    /\ d \in Tracked
    /\ adaptive' = [adaptive EXCEPT ![d].frozen = FALSE]
    /\ diverged' = [diverged EXCEPT ![d] = 0]
    /\ published' = {}
    /\ UNCHANGED <<quarantine, snapshot, drifted, checkAge, todo, rolling, hours, learnedOn>>

----------------------------------------------------------------------------

Ticked(n, limit) == IF n < limit THEN n + 1 ELSE limit
Midnight == hours + 1 = Day

BaselineTick ==
    /\ todo = {}
    /\ hours' = (hours + 1) % Day
    /\ checkAge' = Ticked(checkAge, CheckEvery)
    /\ drifted' = [d \in Device |-> IF drifted[d] = None \/ drifted[d] + 1 >= DriftCooldown
                                    THEN None ELSE drifted[d] + 1]
    /\ snapshot' = [d \in Device |-> IF snapshot[d] = None THEN None
                                     ELSE [snapshot[d] EXCEPT !.age = Ticked(@, Day)]]
    /\ quarantine' = [d \in Device |->
                        {[e EXCEPT !.age = Ticked(@, WindowDays * Day + 1),
                                   !.today = e.today /\ ~Midnight] : e \in quarantine[d]}]
    /\ learnedOn' = IF Midnight
                    THEN [d \in Device |-> [p \in Port |->
                            {n + 1 : n \in learnedOn[d][p]} \cap (0..WindowDays)]]
                    ELSE learnedOn
    /\ diverged' = [d \in Device |->
                      IF d \in Tracked /\ Diverges(adaptive[d]) /\ ~adaptive[d].frozen
                      THEN Ticked(diverged[d], CheckEvery) ELSE 0]
    /\ published' = {}
    /\ UNCHANGED <<adaptive, todo, rolling>>

BaselineInit ==
    /\ adaptive = [d \in Device |-> None]
    /\ quarantine = [d \in Device |-> {}]
    /\ snapshot = [d \in Device |-> None]
    /\ drifted = [d \in Device |-> None]
    /\ published = {}
    /\ checkAge = 0 /\ hours = 0
    /\ todo = {} /\ rolling = None
    /\ learnedOn = [d \in Device |-> [p \in Port |-> {}]]
    /\ diverged = [d \in Device |-> 0]

Work == \/ \E d \in Device, p \in Port \cup {NoPort} : BaselineFlow(d, p)
        \/ \E d \in Device : Compare(d) \/ RollBack(d)

BaselineNext == Work \/ (\E d \in Device : Unfreeze(d)) \/ BaselineTick

BaselineSpec == BaselineInit /\ [][BaselineNext]_baselineVars

----------------------------------------------------------------------------
(* Properties. *)

BaselineTypeOK ==
    /\ \A d \in Device :
        /\ adaptive[d] \in {None} \cup [ports : SUBSET (Allowed \cup Port), far : BOOLEAN,
                                        frozen : BOOLEAN]
        /\ quarantine[d] \in SUBSET [port : Port, days : 1..MinDays + WindowDays,
                                     today : BOOLEAN, age : 0..WindowDays * Day + 1]
        /\ \A e, f \in quarantine[d] : e.port = f.port => e = f
        /\ snapshot[d] \in {None} \cup [ports : SUBSET (Allowed \cup Port), far : BOOLEAN,
                                        age : 0..Day]
        /\ diverged[d] \in 0..CheckEvery
    /\ todo \subseteq Tracked
    /\ rolling \in todo \cup {None}

\* A behaviour becomes normal only slowly: a port outside what a device was
\* known for enters its baseline, the copying back of a snapshot aside, only if
\* flows to it were learned from on QUARANTINE_MIN_DAYS different days within
\* the quarantine window; days on which the baseline was frozen do not count,
\* and the days of an entry that expired do not either (_quarantine_port).
LearnedSlowly ==
    [][ \A d \in Device :
          d \in Tracked /\ rolling # d =>
              \A p \in adaptive'[d].ports \ adaptive[d].ports :
                  Cardinality(learnedOn'[d][p]) >= MinDays
      ]_<<adaptive, learnedOn, rolling>>

\* Drift is caught: when the agent is done with a flow of any device, no
\* baseline has been diverged from its canary for as long as the interval of
\* the canary check without being frozen, whatever snapshots were copied back
\* and whenever an analyst took a freeze off; and a rollback is reported.
DriftIsCaught ==
    [][ /\ Work /\ todo' = {} =>
              \A d \in Tracked' :
                  ~adaptive'[d].frozen /\ Diverges(adaptive'[d]) => diverged'[d] < CheckEvery
        /\ rolling # None /\ rolling' = None => published' = {"baseline_drift"}
      ]_baselineVars

=============================================================================
