---------------------------- MODULE SensorWatch ----------------------------
(***************************************************************************)
(* Silent sensors in the IoT local manager.  The consumer thread stamps    *)
(* _last_seen with every reading; the watchdog thread looks at a copy of   *)
(* it every five seconds, publishes a sensor_dropout for a device that has *)
(* been silent too long and forgets its stamp.  The dropout comes back on  *)
(* iot.alerts and is stored like any alert.  Nothing locks _last_seen or   *)
(* _dropout_fired, so each access is a step of its own.  /sensors and      *)
(* /incidents show the devices of the last 200 alerts.  A tick is longer   *)
(* than the watchdog's sleep.                                              *)
(***************************************************************************)
EXTENDS Integers, Sequences, FiniteSets

CONSTANTS
    Sensor,
    Silence,        \* HEARTBEAT_TIMEOUT_SEC
    AlertsKept,     \* maxlen of _alerts: 200
    MaxDropouts,    \* bound: dropouts of a device on their way
    Nil             \* no device, no stamp

ASSUME SensorAssumption ==
    /\ Silence \in Nat /\ AlertsKept \in Nat \ {0} /\ MaxDropouts \in Nat
    /\ Nil \notin Sensor /\ Nil \notin Nat

VARIABLES
    lastSeen,       \* _last_seen[d]: the age of its stamp, Nil when absent
    dropoutFired,   \* _dropout_fired
    kept,           \* _alerts, oldest first
    consuming,      \* the device whose reading the consumer has just stamped; Nil
    watching,       \* the watchdog: its next operation on the device it looks at
    copy,           \* what it has left to look at of its copy of _last_seen
    looked,         \* whether it has been round in this tick
    dropouts,       \* dropouts of a device published and not yet consumed
    \* history
    heardOf,        \* devices that have sent
    alarms,         \* dropouts published since the device's last reading
    overtaken,      \* devices whose fresh stamp the watchdog deleted
    crossed         \* devices whose dropout was consumed after a later reading

sensorVars == <<lastSeen, dropoutFired, kept, consuming, watching, copy, looked, dropouts,
                heardOf, alarms, overtaken, crossed>>

Known == {d \in Sensor : lastSeen[d] # Nil}
Fresh(d) == d \in Known /\ lastSeen[d] <= Silence
Asleep == [op |-> "sleep", device |-> Nil]
Store(entry) ==
    LET all == Append(kept, entry)
    IN  SubSeq(all, IF Len(all) > AlertsKept THEN 2 ELSE 1, Len(all))

----------------------------------------------------------------------------
(* The consumer. *)

\* handle_alert of a reading: the stamp is written ...
Stamp(d) ==
    /\ consuming = Nil
    /\ heardOf' = heardOf \cup {d}
    /\ lastSeen' = [lastSeen EXCEPT ![d] = 0]
    /\ consuming' = d
    /\ alarms' = [alarms EXCEPT ![d] = 0]
    /\ overtaken' = overtaken \ {d}
    /\ UNCHANGED <<dropoutFired, kept, watching, copy, looked, dropouts, crossed>>

\* ... and the device is armed again, and the reading stored.
Rearm ==
    /\ consuming # Nil
    /\ dropoutFired' = dropoutFired \ {consuming}
    /\ kept' = Store([device |-> consuming, dropout |-> FALSE])
    /\ consuming' = Nil
    /\ crossed' = crossed \ {consuming}
    /\ UNCHANGED <<lastSeen, watching, copy, looked, dropouts, heardOf, alarms, overtaken>>

StoreDropout_SignOfLife(d) ==
    /\ consuming = Nil /\ dropouts[d] > 0
    /\ dropouts' = [dropouts EXCEPT ![d] = @ - 1]
    /\ kept' = Store([device |-> d, dropout |-> TRUE])
    /\ lastSeen' = [lastSeen EXCEPT ![d] = 0]
    /\ dropoutFired' = dropoutFired \ {d}
    /\ UNCHANGED <<consuming, watching, copy, looked, heardOf, alarms, overtaken, crossed>>
\* handle_alert of a dropout: stored, and no sign of life.
StoreDropout(d) ==
    /\ consuming = Nil /\ dropouts[d] > 0
    /\ dropouts' = [dropouts EXCEPT ![d] = @ - 1]
    /\ kept' = Store([device |-> d, dropout |-> TRUE])
    /\ crossed' = IF Fresh(d) THEN crossed \cup {d} ELSE crossed
    /\ UNCHANGED <<lastSeen, dropoutFired, consuming, watching, copy, looked, heardOf, alarms,
                   overtaken>>

----------------------------------------------------------------------------
(* The watchdog. *)

CopyStamps ==
    /\ watching = Asleep /\ copy = {} /\ ~looked
    /\ copy' = {[device |-> d, age |-> lastSeen[d]] : d \in Known}
    /\ looked' = TRUE
    /\ UNCHANGED <<lastSeen, dropoutFired, kept, consuming, watching, dropouts, heardOf, alarms,
                   overtaken, crossed>>

Silent(c) == c.age > Silence /\ c.device \notin dropoutFired

Look(c) ==
    /\ watching = Asleep /\ c \in copy
    /\ copy' = copy \ {c}
    /\ watching' = IF Silent(c) THEN [op |-> "fire", device |-> c.device] ELSE Asleep
    /\ UNCHANGED <<lastSeen, dropoutFired, kept, consuming, looked, dropouts, heardOf, alarms,
                   overtaken, crossed>>

Fire ==
    /\ watching.op = "fire"
    /\ dropoutFired' = dropoutFired \cup {watching.device}
    /\ watching' = [watching EXCEPT !.op = "publish"]
    /\ UNCHANGED <<lastSeen, kept, consuming, copy, looked, dropouts, heardOf, alarms, overtaken, crossed>>

Publish ==
    /\ watching.op = "publish"
    /\ dropouts[watching.device] < MaxDropouts
    /\ dropouts' = [dropouts EXCEPT ![watching.device] = @ + 1]
    /\ alarms' = [alarms EXCEPT ![watching.device] = @ + 1]
    /\ watching' = [watching EXCEPT !.op = "forget"]
    /\ UNCHANGED <<lastSeen, dropoutFired, kept, consuming, copy, looked, heardOf, overtaken, crossed>>

\* del self._last_seen[device_id]: also a stamp written since the copy was made.
Forget ==
    /\ watching.op = "forget"
    /\ lastSeen' = [lastSeen EXCEPT ![watching.device] = Nil]
    /\ overtaken' = IF Fresh(watching.device)
                    THEN overtaken \cup {watching.device} ELSE overtaken
    /\ watching' = Asleep
    /\ UNCHANGED <<dropoutFired, kept, consuming, copy, looked, dropouts, heardOf, alarms, crossed>>

Watch == CopyStamps \/ (\E c \in copy : Look(c)) \/ Fire \/ Publish \/ Forget

----------------------------------------------------------------------------

\* Time passes when the watchdog has been round and no thread is in the middle.
SensorTick ==
    /\ looked /\ copy = {} /\ watching = Asleep /\ consuming = Nil
    /\ lastSeen' = [d \in Sensor |-> IF d \in Known /\ lastSeen[d] <= Silence
                                     THEN lastSeen[d] + 1 ELSE lastSeen[d]]
    /\ looked' = FALSE
    /\ UNCHANGED <<dropoutFired, kept, consuming, watching, copy, dropouts, heardOf, alarms,
                   overtaken, crossed>>

SensorInit ==
    /\ lastSeen = [d \in Sensor |-> Nil]
    /\ dropoutFired = {} /\ kept = <<>>
    /\ consuming = Nil /\ watching = Asleep /\ copy = {} /\ looked = FALSE
    /\ dropouts = [d \in Sensor |-> 0]
    /\ heardOf = {}
    /\ alarms = [d \in Sensor |-> 0]
    /\ overtaken = {} /\ crossed = {}

SensorNext ==
    \/ \E d \in Sensor : Stamp(d) \/ StoreDropout(d)
    \/ Rearm \/ Watch \/ SensorTick

----------------------------------------------------------------------------
(* Properties. *)

SensorTypeOK ==
    /\ lastSeen \in [Sensor -> 0..Silence + 1 \cup {Nil}]
    /\ dropoutFired \subseteq Sensor /\ heardOf \subseteq Sensor /\ overtaken \subseteq Sensor
    /\ crossed \subseteq Sensor
    /\ kept \in Seq([device : Sensor, dropout : BOOLEAN]) /\ Len(kept) <= AlertsKept
    /\ consuming \in Sensor \cup {Nil}
    /\ watching = Asleep \/ watching \in [op : {"fire", "publish", "forget"}, device : Sensor]
    /\ copy \subseteq [device : Sensor, age : 0..Silence + 1]
    /\ dropouts \in [Sensor -> 0..MaxDropouts]

\* get_sensors and get_incidents: OFFLINE when there is a dropout of the device
\* and no reading among the alerts that are kept.
Entries(d, dropout) == {i \in DOMAIN kept : kept[i] = [device |-> d, dropout |-> dropout]}
Offline(d) == Entries(d, TRUE) # {} /\ Entries(d, FALSE) = {}

\* A sensor that falls silent is reported in time: when the watchdog has been
\* round, every sensor that ever sent was stamped within the limit or has had its
\* dropout published since its last reading, unless that reading came between
\* the watchdog's copy of the stamps and its deletion, which loses the sensor until
\* it sends again (_heartbeat_watchdog).
SensorSilenceIsReported ==
    [][ SensorTick => \A d \in heardOf :
            Fresh(d) \/ alarms[d] > 0 \/ d \in overtaken ]_sensorVars

\* One dropout per silence: between two readings of a sensor at most one dropout
\* is published, although the watchdog comes round many times and consumes its
\* own alerts, and although a reading may arm it again in the middle of its work
\* (_dropout_fired, the deletion from _last_seen, handle_alert).
OneDropoutPerSilence == \A d \in Sensor : alarms[d] <= 1

\* A sensor that sends is not shown OFFLINE: /devices and /sensors contradict
\* each other only while its reading is between its stamp and its place among the
\* alerts, or when the dropout of its last silence was consumed after a reading
\* that came later (handle_alert, get_sensors, get_incidents).
LiveIsNotOffline ==
    \A d \in Sensor : Offline(d) /\ Fresh(d) => consuming = d \/ d \in crossed

=============================================================================
