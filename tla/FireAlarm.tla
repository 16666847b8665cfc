----------------------------- MODULE FireAlarm -----------------------------
(***************************************************************************)
(* The fire system agent (fire_system_agent/main.py).  A zone is on fire   *)
(* when its latest temperature and its latest gas reading are both high    *)
(* and recent.  Every confirmation switches the one relay on and restarts  *)
(* a threading.Timer that switches it off; alerts have a cooldown per zone *)
(* and kind.  Three kinds of threads reach the relay: the consumer, the    *)
(* timers, and POST /relay/reset (stop() takes the same steps).  Nothing   *)
(* locks, so one action is one access to the relay or to a timer.          *)
(***************************************************************************)
EXTENDS Integers, FiniteSets

CONSTANTS
    Zone,
    Correlation,    \* FIRE_CORRELATION_SEC
    Hold,           \* FIRE_RELAY_HOLD_SEC
    FireCooldown,   \* FIRE_ALERT_COOLDOWN_SEC
    Timer,          \* names of the Timer objects in use
    Off,            \* no reading, no alert, no timer
    MaxReadings,    \* bound: readings of one tick
    MaxResets,      \* bound: resets by an operator, one at a time
    MaxFaults       \* bound: GPIO calls that raise

FireAssumption ==
    /\ {Correlation, Hold} \subseteq Nat
    /\ FireCooldown \in Nat \ {0}
    /\ Off \notin Nat /\ Off \notin Timer

VARIABLES
    temp, gas,      \* age of the latest reading of a zone if it is high, else Off
    lastAlert,      \* _last_alert_ts: age of an alert not yet cooled down, else Off
    engaged,        \* _relay.engaged
    line,           \* the relay's line is on
    latest,         \* _relay_release_timer
    timers,         \* each Timer: where it is, and the ticks it still waits
    cpc, zone,      \* where the consumer is, and the zone it confirmed a fire in
    rpc,            \* where the reset is
    readings, resets, faults,
    \* history
    promised,       \* ticks for which the latest confirmation still holds the relay
    contested,      \* a release ran while the latest confirmation engaged
    stuck,          \* the latest release could not switch the line off
    onFire          \* zones confirmed in this tick

fireVars == <<temp, gas, lastAlert, engaged, line, latest, timers, cpc, zone, rpc, readings,
              resets, faults, promised, contested, stuck, onFire>>
relayVars == <<engaged, line, latest, timers, rpc, resets, faults, promised, contested, stuck>>

Kind == {"fire", "overheat", "smoke"}
Idle == [st |-> "none", left |-> 0]
Releasing == rpc # "idle" \/ \E t \in Timer : timers[t].st \in {"mark", "off"}

----------------------------------------------------------------------------
(* The consumer. *)

\* _cooled_down: the table of alerts once kind k was raised for z.
CooledDown(z, k) ==
    IF lastAlert[<<z, k>>] = Off THEN [lastAlert EXCEPT ![<<z, k>>] = 0] ELSE lastAlert

\* handle_message and _evaluate, up to the confirmation of a fire.
Read(z, sensor, high) ==
    LET age == IF high THEN 0 ELSE Off IN
    /\ cpc = "idle" /\ readings < MaxReadings
    /\ readings' = readings + 1
    /\ temp' = IF sensor = "temperature" THEN [temp EXCEPT ![z] = age] ELSE temp
    /\ gas' = IF sensor = "gas" THEN [gas EXCEPT ![z] = age] ELSE gas
    /\ IF temp'[z] # Off /\ gas'[z] # Off
       THEN /\ cpc' = "engage" /\ zone' = z
            /\ onFire' = onFire \cup {z}
            /\ UNCHANGED lastAlert
       ELSE /\ lastAlert' = IF temp'[z] # Off THEN CooledDown(z, "overheat")
                            ELSE IF gas'[z] # Off THEN CooledDown(z, "smoke") ELSE lastAlert
            /\ UNCHANGED <<cpc, zone, onFire>>
    /\ UNCHANGED relayVars

\* FireRelay.engage: the flag, and then the line.
Engage ==
    /\ cpc = "engage" /\ cpc' = "on"
    /\ engaged' = TRUE
    /\ contested' = Releasing
    /\ UNCHANGED <<temp, gas, lastAlert, line, latest, timers, zone, rpc, readings, resets,
                   faults, promised, stuck, onFire>>

SwitchOn ==
    /\ cpc = "on" /\ cpc' = "cancel"
    /\ \/ line' = TRUE /\ stuck' = FALSE /\ UNCHANGED <<faults, contested>>
       \/ /\ faults < MaxFaults /\ faults' = faults + 1
          /\ contested' = TRUE
          /\ UNCHANGED <<line, stuck>>
    /\ UNCHANGED <<temp, gas, lastAlert, engaged, latest, timers, zone, rpc, readings, resets,
                   promised, onFire>>

\* Timer.cancel: one that waits ends, one not yet started will; one that has begun
\* its release goes on.
Cancelled_Not == timers
Cancelled ==
    IF latest = Off THEN timers
    ELSE [timers EXCEPT ![latest] =
            IF @.st = "waiting" THEN Idle
            ELSE IF @.st = "created" THEN [@ EXCEPT !.st = "cancelled"] ELSE @]

CancelOld ==
    /\ cpc = "cancel" /\ cpc' = "new"
    /\ timers' = Cancelled
    /\ UNCHANGED <<temp, gas, lastAlert, engaged, line, latest, zone, rpc, readings, resets,
                   faults, promised, contested, stuck, onFire>>

\* A Timer object that is done may be named again.
Unused == {t \in Timer \ {latest} : timers[t] = Idle}
NewTimer ==
    /\ cpc = "new" /\ cpc' = "start"
    /\ Unused # {}
    /\ latest' = CHOOSE t \in Unused : TRUE
    /\ timers' = [timers EXCEPT ![latest'].st = "created"]
    /\ UNCHANGED <<temp, gas, lastAlert, engaged, line, zone, rpc, readings, resets, faults,
                   promised, contested, stuck, onFire>>

StartTimer ==
    /\ cpc = "start" /\ cpc' = "report"
    /\ timers' = [timers EXCEPT ![latest] =
                    IF @.st = "created" THEN [st |-> "waiting", left |-> Hold] ELSE Idle]
    /\ promised' = IF contested THEN 0 ELSE Hold
    /\ UNCHANGED <<temp, gas, lastAlert, engaged, line, latest, zone, rpc, readings, resets,
                   faults, contested, stuck, onFire>>

ReportFire ==
    /\ cpc = "report" /\ cpc' = "idle"
    /\ lastAlert' = CooledDown(zone, "fire")
    /\ UNCHANGED <<temp, gas, zone, readings, onFire>> /\ UNCHANGED relayVars

----------------------------------------------------------------------------
(* The timer threads and the reset: FireRelay.release clears the flag, and    *)
(* then the line.                                                             *)

Expire(t) ==
    /\ timers[t] = [st |-> "waiting", left |-> 0]
    /\ timers' = [timers EXCEPT ![t].st = "mark"]
    /\ contested' = (contested \/ cpc # "idle")
    /\ UNCHANGED <<temp, gas, lastAlert, engaged, line, latest, cpc, zone, rpc, readings, resets,
                   faults, promised, stuck, onFire>>

SwitchOff ==
    \/ line' = FALSE /\ stuck' = FALSE /\ UNCHANGED faults
    \/ faults < MaxFaults /\ faults' = faults + 1 /\ stuck' = TRUE /\ UNCHANGED line

TimerReleases(t) ==
    /\ \/ /\ timers[t].st = "mark"
          /\ timers' = [timers EXCEPT ![t].st = "off"]
          /\ engaged' = FALSE
          /\ UNCHANGED <<line, stuck, faults>>
       \/ /\ timers[t].st = "off"
          /\ timers' = [timers EXCEPT ![t] = Idle]
          /\ SwitchOff
          /\ UNCHANGED engaged
    /\ UNCHANGED <<temp, gas, lastAlert, latest, cpc, zone, rpc, readings, resets, promised,
                   contested, onFire>>

ResetCancels ==
    /\ rpc = "idle" /\ rpc' = "mark"
    /\ resets < MaxResets /\ resets' = resets + 1
    /\ timers' = Cancelled
    /\ promised' = 0
    /\ contested' = TRUE
    /\ UNCHANGED <<temp, gas, lastAlert, engaged, line, latest, cpc, zone, readings, faults,
                   stuck, onFire>>

ResetReleases ==
    /\ \/ /\ rpc = "mark" /\ rpc' = "off"
          /\ engaged' = FALSE
          /\ UNCHANGED <<line, stuck, faults>>
       \/ /\ rpc = "off" /\ rpc' = "idle"
          /\ SwitchOff
          /\ UNCHANGED engaged
    /\ UNCHANGED <<temp, gas, lastAlert, latest, timers, cpc, zone, readings, resets, promised,
                   contested, onFire>>

----------------------------------------------------------------------------

Aged(age, limit) == IF age = Off \/ age >= limit THEN Off ELSE age + 1

\* Time passes when every step that is due has been taken: they take milliseconds.
FireTick ==
    /\ cpc = "idle" /\ ~Releasing
    /\ \A t \in Timer : timers[t].st = "waiting" => timers[t].left > 0
    /\ temp' = [z \in Zone |-> Aged(temp[z], Correlation)]
    /\ gas' = [z \in Zone |-> Aged(gas[z], Correlation)]
    /\ lastAlert' = [k \in Zone \X Kind |-> Aged(lastAlert[k], FireCooldown - 1)]
    /\ timers' = [t \in Timer |-> IF timers[t].st = "waiting"
                                  THEN [timers[t] EXCEPT !.left = @ - 1] ELSE timers[t]]
    /\ promised' = IF promised > 0 THEN promised - 1 ELSE 0
    /\ readings' = 0
    /\ onFire' = {}
    /\ UNCHANGED <<engaged, line, latest, cpc, zone, rpc, resets, faults, contested, stuck>>

FireInit ==
    /\ temp = [z \in Zone |-> Off] /\ gas = [z \in Zone |-> Off]
    /\ lastAlert = [k \in Zone \X Kind |-> Off]
    /\ engaged = FALSE /\ line = FALSE
    /\ latest = Off /\ timers = [t \in Timer |-> Idle]
    /\ cpc = "idle" /\ zone \in Zone /\ rpc = "idle"
    /\ readings = 0 /\ resets = 0 /\ faults = 0
    /\ promised = 0 /\ contested = FALSE /\ stuck = FALSE /\ onFire = {}

Consumer ==
    \/ \E z \in Zone, s \in {"temperature", "gas"}, high \in BOOLEAN : Read(z, s, high)
    \/ Engage \/ SwitchOn \/ CancelOld \/ NewTimer \/ StartTimer \/ ReportFire

FireNext ==
    \/ Consumer
    \/ \E t \in Timer : Expire(t) \/ TimerReleases(t)
    \/ ResetCancels \/ ResetReleases
    \/ FireTick

FireSpec == FireInit /\ [][FireNext]_fireVars

----------------------------------------------------------------------------
(* Properties. *)

TimerState == {"none", "created", "cancelled", "waiting", "mark", "off"}
FireTypeOK ==
    /\ {temp, gas} \subseteq [Zone -> 0..Correlation \cup {Off}]
    /\ lastAlert \in [Zone \X Kind -> 0..FireCooldown - 1 \cup {Off}]
    /\ {engaged, line, contested, stuck} \subseteq BOOLEAN
    /\ latest \in Timer \cup {Off}
    /\ timers \in [Timer -> [st : TimerState, left : 0..Hold]]
    /\ cpc \in {"idle", "engage", "on", "cancel", "new", "start", "report"}
    /\ zone \in Zone /\ rpc \in {"idle", "mark", "off"}
    /\ promised \in 0..Hold /\ onFire \subseteq Zone

\* A fire is answered, and not for ever: (1) after a confirmation the relay is on
\* for the whole hold time, counted from the latest confirmation, unless an
\* operator resets it, the GPIO fails, or a release had begun before the
\* confirmation was through with its timer; (2) whenever the line is on, a timer,
\* a release under way or the consumer on its way to a new timer will see to it
\* that it is switched off, unless the GPIO refused to; (3) a zone that was
\* confirmed has been reported within the cooldown, whatever warnings or fires of
\* other zones came before (_engage_relay, _cooled_down).
FireIsAnswered ==
    /\ promised > 0 => line /\ engaged
    /\ line /\ ~stuck =>
          \/ \E t \in Timer : timers[t].st = "waiting"
          \/ cpc \in {"cancel", "new", "start"}
          \/ Releasing
    /\ cpc = "idle" => \A z \in onFire : lastAlert[<<z, "fire">>] # Off

=============================================================================
