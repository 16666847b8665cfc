# A verification project for MASS

MASS is a set of Python agents that watch a campus network, its IoT sensors and
its doors, exchange messages over Kafka, and react: a host is cut off at the
core switch, a door is locked, a card is blocked. This directory holds TLA+
models of the parts where several threads or programs share state, the TLC
configurations that check them, and TLAPS proofs about every one of them.

Everything here is translated from the Python source. Paths below are relative
to `src/`; `PROJECT.json` maps each definition to the lines it stands for.

- `tlc -workers 2 -config decisions.cfg MCDecisions` runs one check.
- `tlapm ApprovalWindowProofs.tla` checks the proofs.

## 1. Inventory

| component | state it keeps | operations | hard because of |
|---|---|---|---|
| data local manager `Local_manager/managers/data_local_manager/main.py` | `_pending`, `_incidents`, `_isolated_hosts`, risk scores and levels, heartbeats | consume alerts, approve, dismiss, escalate, isolate, deisolate, obey soar commands, watch heartbeats | five kinds of threads over unlocked dictionaries; restart with replay |
| PAC and IoT local managers (`pac_local_manager`, `iot_local_manager`) | the same `_pending`; deques of recent alerts; `_last_seen` of devices | the same window; grading; dropout watchdog | the same; pairs of alerts in any order; a watchdog that deletes what a handler writes |
| SOAR executor `Local_manager/soar_executor.py` | `_isolated`, `_restore_cooldown`, both in memory; the switch | isolate_host, restore_host | SSH that breaks half-way, restarts, redelivery, DHCP |
| door process `pi/pac/door_process(1).py` | lock flag, blocked cards (memory and file), three files in /tmp | swipe, lock_door, block_card, unblock_card, restart | files shared with another program, a wait of 12 s, death between two writes |
| camera agent `pi/pac/camera_agent_headless.py` | the access session | adopt an announcement, grant, deny, expire | reads and writes the door's files at its own pace |
| PAC EDA, credential anomaly agents | swipes, denials, readers and the latest place per card | detectors; relay of a denial | reports that empty the tables they are counted from, early returns |
| learning agent `HQ (central manager)/learning_agent/main.py` | dataset, counters, models, metrics, recommendations | ingest, dismiss, retrain, drift check | retraining threads that overlap; two topics without a common order |
| HQ analytical agent | incident windows, `_dedup`, kill-chain tracker | correlate, resolve, clean up | a cleanup thread iterating what the consumer inserts |
| HQ orchestrator | executions, pending approvals | execute playbook, approve, replay | replay after a restart, check-then-pop |
| HQ central manager | incidents, correlations, heartbeats, alerted agents | monitor, command, dismiss | lists that only grow behind a threat level |
| TI, forensic agents, heartbeats, dashboard proxy | tables, bundles | enrich, bundle, poll | I/O |
| NDR agent `agents/data_network/ndr_agent/ndr_main.py` | deques per source, one table of cooldowns, baselines, snapshots, `_isolated_ips` | detect, learn, freeze, roll back, watch isolations, obey threshold commands | deques with a maxlen under windows, a day that tumbles, baselines that must not be poisoned |
| fire system agent `pi/iot/agents/iot/fire_system_agent/main.py` | latest readings per zone, cooldowns, the relay and its timer | read, confirm, engage, release, reset | the consumer, timers and a reset on one relay without a lock |
| EDR agent, collectors, IoT gateway, sensors | thresholds | read and publish | I/O |

How they interact. Agents publish on `data.alerts`, `iot.alerts`, `pac.events`
and `pac.alerts`; the local managers turn alerts into incidents on
`hq.incidents`, and a manager also publishes isolations on `soar.commands`. HQ
correlates incidents (`hq.correlated`), runs playbooks (`soar.commands`) and
learns. The SOAR executor, the door process, the NDR agent, the learning agent
and the managers themselves listen to `soar.commands`. Operators act over HTTP.
Three facts about messages matter everywhere: `publish` returns `False` when the
producer refuses a record and no caller looks; an exception in a handler is
logged and the record counts as consumed; consumers commit offsets periodically, so
a restart may see a record again (HQ's agents use a new group at each start and
see all of them).

What makes each component correct:

- *Approval window*: HQ gets an incident at most once, never after a successful
  dismissal, and always after a successful approval; each window closes; HQ never
  sees a half-decided record without a race to blame.
- *Isolation*: the executor's record, the switch and the dashboard agree; what is
  released is let in; a released machine is not cut off again within the cooldown
  (which fails); a machine is recorded under one address; what is reported as
  isolated is cut off (which fails).
- *Door*: it opens only for a card whose owner was recognised for this very swipe;
  blocks survive restarts; a locked door stays shut; every swipe ends; a denial
  names the card that was swiped.
- *Learning*: counters agree with labels; `/metrics` describes the model that
  `/predict` uses; a rejected model has no influence.
- *Correlation*: two domains under attack at once are reported together, whatever
  the cooldowns; a resolved chain stays resolved; no chain stays active for ever.
- *Orchestration*: a step that needs approval is issued at most once and only when
  approved; the displayed count is right; every selected playbook is executed.
- *Risk and grading*: one isolation per episode of a host's score; two alerts that
  mean more together are CRITICAL in whichever order they are consumed, and no others
  (which fails of the access and the IoT manager).
- *Detection*: what reaches a threshold is reported, whatever the deques, cooldowns
  and starting points of windows; a card in two places is noticed.
- *Baselines*: behaviour becomes normal slowly; drift is frozen in time.
- *Watching*: silence is reported in time and once; a sensor that sends is not called
  silent (of an agent no document promises it).
- *Fire*: the relay holds as promised, and goes off again.

## 2. Modules

| module | models | checked by |
|---|---|---|
| `IncidentFate` | abstract: an incident gets one fate and keeps it | refined by `ApprovalWindow` |
| `ApprovalWindow` | the window of a local manager: consumer, timeout threads, operators' calls, crash, refused records | `MCDecisions`, `decisions.cfg` |
| `ApprovalWindowProofs` | theorems about it | tlapm |
| `DoorAccess`, `DoorAccessProofs` | door process, camera agent and the relay, composed over their files and topics; theorems | `MCDoorAccess`, `door*.cfg`; tlapm |
| `Isolation`, `IsolationProofs` | manager, `soar.commands`, executor and switch, composed; theorems | `MCIsolation`, `isolation*.cfg`; tlapm |
| `Learning`, `LearningProofs` | the learning agent with overlapping retraining threads; theorems | `MCHeadquarters`, `headquarters.cfg`; `MCLearning`, `learning_reject.cfg`; tlapm |
| `Correlator`, `CorrelatorProofs` | the analytical agent: rules, cooldowns, tracker, cleanup thread, restart; theorems | `MCHeadquarters`; tlapm |
| `Orchestrator` | playbooks, approvals, execution by hand, restart | `MCDecisions` |
| `OrchestratorProofs` | theorems about it | tlapm |
| `Decisions` | `ApprovalWindow` and `Orchestrator`: what waits for a person | `MCDecisions`, `decisions.cfg` |
| `Headquarters` | `Correlator` and `Learning`: the two agents that read the incidents | `MCHeadquarters`, `headquarters.cfg` |
| `RiskLadder` | the risk score of a host and its thresholds | `MCSite`, `site.cfg` |
| `SensorWatch` | the IoT dropout watchdog against the consumer | `MCSite` |
| `AgentWatch` | heartbeats and the two managers that watch them | `MCSite` |
| `Watches` | what is asked of the two watches | `MCSite` |
| `Deques` | a bounded deque whose entries age | used by the next three |
| `Triage` | how the three local managers grade an alert | `MCSite`; `MCTriage`, `triage_rules.cfg` |
| `Detectors` | the signature rules of the NDR agent | `MCSite` |
| `CardEvents` | the PAC EDA agent | `MCSite` |
| `Baseline` | what the NDR agent learns of a device | `MCSite` |
| `FireAlarm` | the fire relay | `MCSite` |
| `CardTravel` | the credential anomaly agent | `MCSite` |
| `Site` | the nine modules above as one specification, the detecting side | `MCSite`, `site.cfg` |
| `DetectionProofs` | theorems about `RiskLadder`, `CardTravel`, `FireAlarm`, `Baseline` and `Watches` | tlapm |
| `SiteProofs` | theorems about `Triage`, `CardEvents`, `Detectors` and `Site` | tlapm |

`Decisions`, `Headquarters` and `Site` put components that share no variable into one
specification: a behaviour is one of a single component, which the initial state picks.
Their interleavings would multiply states and show nothing, since what passes between
the components of one such module (through Kafka, and other components) each of them already
takes from an environment that may send anything at any time.

Each module ends with its properties. Operators whose name has an underscore
(`PopOnTimeout_Captured`, ...) are plausible slips of the programmer; no action
uses them. They serve to see that a property fails when the code is wrong, and
`PROJECT.json` says which breaks which.

### ApprovalWindow

`_pending` is the set `pending`; the record an entry holds has one field that
matters, `status[i]`. `pc[t]` is the next dictionary operation of thread *t*; a
timeout thread is named by its incident. One action is one dictionary operation:
the language lets a thread switch happen between any two. CPython switches at
fewer points, so this includes everything the images can do. `RaiseCritical` and
`StartTimer` are `_handle_escalation`; `Wake` and `PopOnTimeout` are
`_approval_timeout`; `ApproveCheck`/`ApprovePop` and
`DismissCheck`/`DismissLookup`/`DismissMark`/`DismissDelete` are the two HTTP
handlers; `Stamp` and `Publish` are `_escalate`, run by whichever thread removed
the record. `Crash` empties memory. `Restart` replays the topic, and what is
raised again has a new uuid, so it is a new element of `Incident`.

`MislabelledOnlyByRace` names what does go wrong: `dismiss` writes the status
before it deletes the key, so an approval or a timeout that wins the deletion may
publish a record marked `dismissed`. The operator then reads a 500, never
`dismissed: true`.

Not modelled: the `_stats` counters (`+=` from several threads), the copy of the
incident in `_incidents` (which stays at `pending_approval` whatever happens), and
the isolation command that precedes the window, which belongs to `Isolation`.

### DoorAccess

The main thread (`dpc`), the soar listener (`lpc`) and the camera (`cpc`) take
one step per access to a shared file or variable. A file written with
`open(..., "w")` is truncated in one step and filled in a later one. Files and
topics survive a crash of the door process (the compose file mounts `/tmp` and
restarts the container), memory does not. Times are ages in ticks, one tick being
about six seconds; the order of the limits in the code is kept:
`VerifyTimeout < RfidTimeout`, `GrantLife = Debounce`. `Tick` does not pass over a
step that is due, because the door polls ten times a second.

Not modelled: LDAP and its cache (`Owner` is a constant), uid 0 in the lists of
blocked cards, the buzzer, the camera's own `granted` events, redelivery of the
command under way when the process dies.

### Isolation

`log[k]` is the sequence of commands under key *k* of `soar.commands`, with one
position for the executor and one for the manager's soar consumer; keys are not
ordered among each other. The manager's dictionary `hosts` is written by the
alert thread (which publishes first and records afterwards), by HTTP calls (the
other way round) and by the soar consumer. The executor takes a command,
answers at once where `isolate_host` or `restore_host` returns early, and
otherwise sends the MAC entry, the access-list entry and `write memory` one after
the other; the session may break or the process die before each of them.

The switch is external. A deny entry always has number 5: if that number is taken,
the model lets the switch keep the old entry or take the new one. The cut of the
MAC's text (`MacCisco`) is modelled because a property depends on it.

A restart of the executor forgets its records and cooldowns. librdkafka commits
offsets periodically, so any suffix of what it had taken may come again, of every key
(`ResumesAt`); a key without a committed offset goes on at its end (`latest`).

`overtaken` and `strays` are history variables. They say which hosts are excused
from a property, and by which event, so that the exception is exact. `protected` is the
cooldown of a release as a clock on the wall tells it: unlike the executor's table
`cooldown` it survives restarts and it knows the machine even when the ARP lookup did
not, as far as the address can have been of one machine only (`Machine`). `unremembered`
names the machines whose release the table has not. So `OnlyUnknownIsReblocked`
compares the executor with the clock and not with itself, and says in which ways alone
a released machine is denied again; `NoReblockAfterRestore`, the comment at
`soar_executor.py:33`, has no such exceptions and is violated.

Not modelled: refused records, the counter `isolated_hosts`, `_isolated_ips` of
the NDR agent, a reboot of the switch. Infrastructure addresses are filtered by
the manager only; the executor obeys any command, and so does the model.

### Learning

An example is its incident and its label. A run goes through the models one by
one: `TakeSnapshot` reads the examples, `Serve` assigns `_models[name]`, `CompareF1`
reads the old metrics, `Accept` writes the new ones, `Recommend` reads labels
again. Nothing keeps two runs apart, so these steps interleave. `Score` is a small
scale for F1. A metric records the run it came from, which stands for its other
fields. The label of a new example is nondeterministic: the code derives it from
the incident's status and, for some severities, a random number.

Not modelled: features, the rejection of untrusted sources (no state changes but
a counter), `soar_outcome` (written to the last example and read by nobody).

### Correlator

`HandleIncident` is `handle_incident` with all that it calls. Nothing it touches is
touched by another thread but `_kill_chain_tracker`, where the sweep notices each
insertion as a whole, so it is one action. `byDomain` keeps incidents with
their ages, `stages` the age of the latest sighting of an actor in a stage (a rule asks
only whether one is recent), `dedup` the age of each cooldown key, `chains` the
tracker. Chain *n* belongs to correlation *n*, which is on `hq.correlated` if the producer
took it (`sent`): `publish` may return `False` (`common/kafka_client.py:97-99`), which
`_publish_correlation` ignores (line 375) after the cooldown has begun. `AttackIsReported`
asks for a record that was sent, and excuses a refused one for the same domains and as long
as its cooldown. The sweep is one action
per entry, and two for an entry that it marks: test and assignment. Python raises
`RuntimeError` when a dictionary grew during the iteration and `_cleanup_loop`
catches nothing: pc `dead`, which `ChainsEnd` excuses and the run reaches. `ChainsEnd`
says that again and again no active chain is overdue. Of a chain alone this is the same as
that it is not active for ever, because finitely many chains exist within the bounds.

`Restart` empties the memory and reads the topics from their first record, since the
group id carries the start time. What was resolved is then published again as a
new, active chain; `ResolvedStays` is about one life.

Not modelled: an exception in `publish` other than the one it catches (a full
producer queue raises `BufferError`, which ends the handler), the capture buffer, the
logging level, the displayed throughput, the copy of an enriched incident on `ti.enriched` (it would count as one more incident).

### Orchestrator

`HandleCorrelation` and `ExecutePlaybook` are the consumer, one playbook at a time;
`ApproveCmdCheck`, `ApproveCmdPop`, `ApproveCmdPublish`, `ApproveCmdCount` the steps of an HTTP
call; `ManualExecute` is `/execute`, which publishes gated steps as well. A command
is named by its life, correlation and playbook, which stands for its uuid: after a
restart the same correlation leads to another command. `NewCorrelation` appends any
correlation at any time, more than `Correlator` ever publishes, so what holds here
holds for the two together.

`AwaitingIsPending` takes lines 257-258 (the entry and the count) and the `+=` and `-=`
of `_stats` as one step each. The language does not promise that; the image
(`docker/Dockerfile.agent`, `python:3.12`) does, where a thread switch happens at calls and
backward jumps only, of which these lines have none between the read and the write.
`CorrelationIsAnswered` says that again and again no playbook is left half executed; a
restart repeats all of them under new ids, which the property needs (nothing else resumes what
a restart broke off) and does not forbid.

Not modelled: the automatic steps (published in the same call and never looked at
again), `_handle_response` (it only logs), refused records.

### RiskLadder

`Alert` is `_decay_and_add_risk` with `_check_risk_thresholds`: `NewScore` halves the
score once per half-life since the previous alert (`lag`) and adds the points of the
type; `Rung` is the chain of `if`/`elif`; `FiredAfter` is what the rung does to
`_risk_threshold_fired`. `AlertSuppressed` is the early return of the test mode.
The score is only ever touched by an alert, so `HalfLife` just lets time pass, and
the level on the dashboard may be older than the score `/risk` computes for it. The
decay is an operator (`Decayed`, any that does not raise a score). `incidents` and
`peak` are history, reset when an alert finds the score below `RISK_WARN`.

### Triage

One consumer for the three managers, told apart by `m.to`, since `handle_alert` and
`_reclassify` have the same shape: note the alert in the deques, look for a partner
within a window, upgrade, create an incident for HIGH and above. `recent` maps a
deque's key to its alerts; keys are per type and host (data), per type and per card
(access), per kind of sensor for all zones (IoT). `heard` is the same with one place
more, so that a property can tell a deque that was full from one that was not.
`ConsumeSpoofed`, `ConsumeDropped` and `Suppress` are the early returns of the access
manager's raw scans and of the data manager's test mode. Alerts are dated by their
receipt, as in the code: a replay brings past alerts together.

`Pairs` are the rules as the managers' docstrings state them
(`data_local_manager/main.py:8-10`, `pac_local_manager/main.py:9-10`,
`iot_local_manager/main.py:224-225`), none of which gives an order; line 10 of the data
manager leaves open that both alerts are of one host, and the code and `Pairs` ask for it.
The code differs in two places, which is why there are two properties.
`PairIsCritical` holds: it asks for CRITICAL when a pair is complete and leaves out the
orders in which the IoT manager does not look (`Unlooked`: gas that is MEDIUM after a
temperature, gas after a motion). `GradedAsDocumented` leaves out nothing, asks also that
nothing else be CRITICAL, and is violated. A `sensor_dropout`
of a temperature sensor is noted as a temperature (`iot_local_manager/main.py:205`).

### SensorWatch and AgentWatch

In `SensorWatch` each access of the consumer (`Stamp`, `Rearm`, `StoreDropout`) and of the
watchdog (`CopyStamps`, `Look`, `Fire`, `Publish`, `Forget`) to a shared table is a step.
`overtaken` names the sensors whose fresh stamp the watchdog deleted: these are lost
until they send again, and the properties say exactly that. `crossed` names
those whose dropout was consumed after a later reading.

`AgentWatch` has the data manager's loop (copy of the table, then one agent after the
other, with a cooldown) and the central manager's (a fixed list, one alarm until the
agent is seen healthy), heartbeats that wait in each manager's consumer, and restarts
of both: the central manager reads all heartbeats again, the data manager only new
ones. A round and the consumption of a heartbeat interleave.

Not modelled: the wait on `/predict` as such (a heartbeat may stay `onTheWay` for any
time), the tamper watch over the subnets.

### Detectors

`handle_flow` is a sequence of `_check_*`; all window rules share one shape, so
`Enters` says which flows a rule keeps, `Key` under which source, `Count` what it
counts (entries or distinct ports, networks), and `HandleFlow` runs them all, each
through the one table of cooldowns (`Dedup`), where no two have a key in common, so that
their order makes no difference. `Role`,
`Baselines` and `Violations` are the fixed baselines, with their ports, sizes, hours
and pairs of networks. `SlowScan` is the set of ports that is emptied when 24 hours from
its first port are over. The thread of `soar.commands` records isolations and changes
thresholds between two flows, never in the middle, since it only assigns globals.

Two things of the code that the model shows: an isolation is recorded for ever, so a
host that was released goes on raising `isolation_violation`; and of the pairs of
isolated networks the one with `192.168.99` never matches, because no address of that
network is internal.

### Baseline

`Learn` is `_update_adaptive` with `_quarantine_port` and `_maybe_save_snapshot`;
`Compare` and `RollBack` are the two halves of an iteration of `_run_canary_check`,
between which the HTTP thread's `Unfreeze` may run. The moving averages are a Boolean
(`far`: farther from the canary than allowed), and what the other dimensions add to an
anomaly's score is a choice. `quarantine` keeps how many days a port was seen and how
old the entry is. `learnedOn` and `diverged` are history.

A snapshot is taken daily whatever the baseline looks like, so the newest may itself
be diverged; `DriftIsCaught` holds all the same because the next check looks again.

### FireAlarm

One action per access to the relay or to a timer: `Engage`, `SwitchOn`, `CancelOld`,
`NewTimer`, `StartTimer`, `ReportFire` of the consumer, `Expire` and `TimerReleases` of each
`threading.Timer`, `ResetCancels` and `ResetReleases` of the HTTP handler (`stop()` takes
the same steps). A GPIO call may raise: the flag then says the opposite of the line.
`contested` marks a confirmation during which a release was under way. In that case
the relay may be off during a fire, although a comment says "Engage the relay
immediately on every confirmation (refresh the hold)" (line 226): the timer that
fires while the consumer engages cannot be cancelled any more. `FireIsAnswered`
excuses exactly those confirmations.

A zone has one slot per kind of reading (line 180): a second, cool sensor of the zone
overwrites a hot one. Not modelled: units, parsing, restarts.

### CardEvents and CardTravel

`CardEvents` is `handle_event` of the PAC EDA agent with its early returns; `swipes`,
`denied` and `readers` are its three tables, and the denials of the last seconds are
counted once more in `refused`, which no report empties. The composition with the door and the
camera is in `DoorAccess`, which has the early return for a wrong face.

`CardTravel` is the credential anomaly agent: `lastPlace` and `active` are its tables, `visits` the history
the property needs. Whether an hour is unusual is left open.

## 3. Runs

| run | shows | bounds |
|---|---|---|
| `decisions` | at a manager: six invariants, `WindowCloses`, and that `IncidentFate` is implemented; at HQ: the approval gate, the count, no correlation lost | 2 incidents, 2 calls, 1 crash, 1 refused record; 3 kinds of correlation, 2 of them, 2 calls, 1 restart, 1 playbook by hand |
| `headquarters` | reporting under cooldowns, the tracker and its two writers; counters, served models, drift check | 5 kinds of incident, 3 of them in any order, windows of 1 and 2 ticks, cooldowns of 1 and 2, deque of 2, 4 correlations, 1 resolve, 1 restart or refused record; 2 incidents, 2 models, 3 deliveries, 2 dismissals, 2 runs |
| `door` | the door opens for a recognised owner only; blocks outlive restarts | 2 owned cards, 1 crash, 1 operator command |
| `door_progress` | every swipe ends and leaves the door shut | 1 owned and 1 unknown card, 1 crash, 1 command |
| `door_lock` | **violated**: a lock during the wait for the camera does not keep the door shut | as `door_progress` |
| `door_uid` | **violated**: a denial may name no card, or an earlier one | as `door_progress` |
| `isolation` | bookkeeping of executor and manager | 2 addresses and a name, 2 MACs, 3 commands, 1 fault |
| `isolation_cutoff` | **violated**: a host logged as isolated is not cut off, without any fault | the same, no fault |
| `isolation_cooldown` | **violated**: a released machine is denied again within the cooldown, without any fault | as `isolation`, no fault |
| `learning_reject` | **violated**: a rejected model is served | as `headquarters`, 4 deliveries |
| `site` | the detecting side: nine modules, the properties below | one component per behaviour, see below |
| `triage_rules` | **violated**: the access and the IoT manager do not grade as their docstrings say | two cards with one alert each; one temperature and one gas reading |

Why the bounds are enough. *decisions*: a race about one incident has at most the
timeout thread and two calls that get past the check (a third adds no new
outcome: the first removal decides); the second incident shows that decisions do
not mix; two approvals of HQ's commands race for one command or take two, and the restart
cuts off a playbook; the proofs lift all bounds but the liveness. *door*: two cards of two
people are needed for a grant of one to meet the swipe of the other; one crash
falls into each step including the two writes. *isolation*: three commands allow
isolate–release–isolate for one host or two hosts with one MAC; a single fault
falls into each step of a session. *headquarters*: three incidents make every
rule fire (rules 2 and 6 need three), fill a deque of two, and let a third domain
join within a cooldown; the restart comes before, in or after a sweep, and `MaxFaults`
bounds restarts and refused records together, since a restart empties the very tables
that a refusal has left behind. Two retraining runs are the smallest overlap, a dataset
of two is trimmed by the third delivery, and three scores allow one step within the
drift limit and one beyond.

*site*. The nine modules of the detecting side share no variable, and a behaviour of
`Site` is one of a single component, chosen by `part`: the interleavings of
components that touch nothing in common would only multiply states. Its properties
are named for what the operator gets:

| property | says, per module |
|---|---|
| `AttackIsAlerted` | flows, card events and places that reach a threshold are reported (`Detectors`, `CardEvents`, `CardTravel`) |
| `PairIsCritical` | pairs of alerts become CRITICAL, in either order where the code looks for both (`Triage`) |
| `OneCriticalPerEpisode` | a score isolates a host once per episode (`RiskLadder`) |
| `LearnedSlowly`, `DriftIsCaught` | ports are learned over days, drift is frozen (`Baseline`) |
| `SilenceIsReported`, `NoFalseAlarm` | silence is reported in time and once (`SensorWatch`, `AgentWatch`), and not of a sensor that sends (`SensorWatch`) |
| `FireIsAnswered` | the relay holds and is released, zones are reported (`FireAlarm`) |
| `SiteTypeOK` | types and lengths of all |

Bounds of *site*. Risk: 4 types whose points reach each threshold in one to four
alerts, scores to 200, gaps to 2 half-lives. Flows: 5 kinds of traffic, each with the
flows that reach one group of rules and disturb it; thresholds of 2, deques of 2 and
3, so that a deque overflows; a threshold that a command raises; a clock on either
side of a role's hours. Baselines: a port that needs two days of two ticks within two days, a check
every two ticks. Triage: 9 sets of messages, one per pair with what may come between,
deques of 2 and 3, two messages per tick. Sensors: two, and a view of two alerts,
so that one evicts the other. Agents: one, since agents share nothing but the
round, one restart; an alarm's cooldown longer than two rounds, as in the code. Fire: two
zones on one relay, three timer objects (one waits, one releases, one is made), a
hold of two ticks, one reset, one GPIO fault. Cards: 3 sets of events, a threshold
of three within three ticks. Travel: four readers on floors 1, 2, 3 and 1 with walks of 1,
2 and 4 ticks, so that every detour is possible.

`CHECK_DEADLOCK FALSE` everywhere: bounds run out, and then the environment is
quiet, as the real system is when nobody acts.

What the violated runs say:

- `door_lock` (`door_process(1).py:441`): `_door_locked` is tested before the wait
  only; `_unlock()` follows a grant without another test.
- `door_uid` (`camera_agent_headless.py:496`): `session_uid = session_uid` for a new
  person; after a restart of the door the stale uid of an earlier card is used, so
  that an innocent card is blocked.
- `isolation_cutoff` (`soar_executor.py:155`, `:164`): the text `hhhh.hhhh.hhhh` is cut
  as twelve digits and the switch refuses the line; the deny entry of a second
  host of a list collides with that of the first; success is reported.
- `isolation_cooldown` (`soar_executor.py:137`): the cooldown is asked by the MAC that the
  ARP table gives at that moment. A host is isolated and released; it is isolated
  again, the lookup fails, and the deny entry is sent although the comment at line 33 says
  not to for some minutes. The same happens after a restart, which forgets the cooldowns,
  and in the `isolation` run, where both are named exceptions.
- `learning_reject` (`learning_agent/main.py:387`): the model is stored before the
  drift check.
- `triage_rules`, two disagreements. `iot_local_manager/main.py:224`: "If temp HIGH + gas
  MEDIUM within 30s" both become CRITICAL; in the trace of the run a HIGH temperature is followed
  by a MEDIUM gas reading, and nothing is raised, since line 247 looks back only from HIGH
  (nor is there a rule for gas after motion, line 225, and the earlier alert is never
  upgraded). `pac_local_manager/main.py:10`: "same card within 60s"; lines 279-284 count an
  alert of any card, for 120 s, so that two people become one CRITICAL incident. With the
  first of the two sets of `DocumentedFeeds` alone the run shows that.

## 4. Fairness

Safety runs use `Spec` without fairness. In `site`, "in time" is a bounded response
and therefore safety: time passes only when the rounds that are due have been made, as
threads that sleep for 5 or 30 seconds and then work for milliseconds do. Three runs
need fairness, in four places:

- `decisions`, at a manager: weak fairness of each thread's steps. The interpreter schedules
  every runnable thread, and `time.sleep` returns. Alerts, operators, crashes and
  restarts are not fair. A crash empties `_pending`, so windows close even then.
- `door_progress`: strong fairness of the door's steps and of time, weak of the file
  write and of the camera's look at a face. The door's loop polls every 0.1 s,
  so a grant that comes and goes is eventually seen, and the wait has a
  deadline anyway; docker restarts the container. Neither swipes nor grants are
  assumed to come.
- `headquarters`: weak fairness of the sweeping thread and of time. The thread only
  sleeps and sweeps; an exception ends it, and then nothing is promised. The
  consumer needs no fairness.
- `decisions`, at HQ: weak fairness of the consumer's thread. Nobody has to approve.

## 5. Proofs

`ApprovalWindowProofs` proves, for any sets of incidents and calls and any number
of crashes and refused records (assuming only `ApprovalAssumption`: names of
incidents, calls and the consumer differ, bounds are numbers):

| theorem | property |
|---|---|
| `TypeCorrect` | `TypeOK` |
| `AtMostOnce` | `AtMostOnceToHQ` |
| `DismissalHolds` | `DismissedStaysLocal` |
| `ApprovalReachesHQ` | `ApprovedReachesHQ` |
| `EveryWindowHasTimer` | `WindowHasTimer` |
| `OnlyRaceMislabels` | `MislabelledOnlyByRace` |
| `PromiseKept` | `KeepsPromise`: `Spec` implements `IncidentFate` |

None of these is inductive alone. The argument is about a *right* to decide an
incident: being a key of `_pending`, being carried by a thread between removal and
publication, having been published, having been dismissed. `OneRight` says that
at most one of them exists per incident and, if it is a thread, only one.
`pop` and `del` move the right, since of two threads only one finds the key. To carry this through
each action the invariant `IInv` also has `Threads` (which thread can be at which
operation, holding what), `Calls` (what an answer says about a call's progress)
and `Unborn` (an incident that was not raised is nowhere). `WindowHasTimer` is preserved
because a timeout thread only leaves `sleeping` with the key gone or on its way to
pop it. `MislabelledOnlyByRace` has its own strengthening `Labels`: a record that
carries a wrong label has a dismissal past its mark that can only lose.

`PromiseKept` uses the mapping `Fate`. Each action changes the fate of at most one
incident (`Raise`, `Decide`, `Lose({i})`), except `Crash`, which loses all waiting ones; the lemmas `RaiseStep`,
`DecideStep`, `LoseStep` treat those cases and `SameFate` the stutters.

`OrchestratorProofs` proves, for any playbooks in use, calls, correlations and number of
restarts (assuming only `OrchestratorAssumption`, where calls are finitely many at a time):

| theorem | property |
|---|---|
| `TypeCorrect` | `OrchestratorTypeOK` |
| `GateIsKept` | `GateHolds` |
| `HealthCountsPending` | `AwaitingIsPending` |

The argument is again about a right, here to issue a command: it lies with the entry of
`_pending_approvals`, moves to the call whose `pop` finds it, and is spent by the
publication (`OneRight`). Rights are created all the time, and again after each
restart, so the invariant also needs `Fresh`: a command of a later life, of a later
correlation, or of a playbook still to do, is unknown. `Holding` ties a call's answer
to its progress. Most steps create no right and move none; `QuietStep` treats them at
once, `ExecuteStep`, `PopStep` and `PublishStep` the others. `HealthCountsPending` counts:
each step moves at most one command between the entries, the calls that have taken one
but not yet counted it down (`Taken`), and neither.

`IsolationProofs` proves, for any hosts, leases, access lists, commands, restarts and
broken sessions (`IsolationAssumption`: the placeholders are no values, a name has no
ARP entry):

| theorem | property |
|---|---|
| `IsolationTypeCorrect` | `TypeOK` |
| `OneRecordPerMac` | `MacRecordedOnce` |
| `NoDenyIsForgotten` | `OnlyFaultsLeaveStrays` |
| `ReleaseLetsIn` | `RestoredIsLetIn` |
| `CooldownHolds` | `OnlyUnknownIsReblocked` |
| `DashboardCatchesUp` | `BookkeepingSettles` |

The executor checks a command, talks to the switch for several steps and records the
outcome. `Underway` says that what it checked still holds when it records, because it
alone writes the records and time only shortens cooldowns; `Wall` says that what is left of a
cooldown on the wall is in the executor's table too, unless the machine is in
`unremembered`, so that whoever passed the test and has a MAC is past the cooldown; `Denied` says who answers for
each deny entry: a record, the conversation under way, or a fault that `strays` noted.
The dashboard's dictionary needs no executor: `Agreed` says that it fits the last command for a
host as soon as no call is between its write and its publication and the consumer has
read on. The alert thread, which publishes first, need not have recorded: the
consumer writes the same when it reads what the thread published. `Keyed` says under
which key a command travels, so that no other key's commands interfere.

`LearningProofs` proves, for any models, examples, scores and number of overlapping runs
(`LearningAssumption`; the list of models at `learning_agent/main.py:347` names each
once):

| theorem | property |
|---|---|
| `LearningTypeCorrect` | `LearnTypeOK` |
| `CountersAgree` | `CountsMatchLabels` |
| `RejectedIsSilent` | `RejectedHasNoSay` |
| `MetricsDescribeServed` | `ServedIsMeasured` |
| `DriftNeedsOverlap` | `ScoreFallsOnlyByOverlap` |

`Progress` says what a run can have left behind at each point: metrics and thresholds of
models it is past, and a rejection only of these. `Sole` says that of the runs
updating a model one alone serves it, unless the overlap was noted. `RunType` has the
types these two need; what a run reads of the dataset plays no part. The counters are
another matter: `Ledger` counts the examples of each label by the places they have in the
dataset. `CountAppend`, `CountTail` and `CountRelabel` say what an arrival, a trimming and a
dismissal do to that number, by moving places one by one, without induction over the list.

`DoorAccessProofs` proves, for any cards, owners, timeouts, crashes and commands
(`DoorAssumption`: the placeholders are nobody, timeouts are positive):

| theorem | property |
|---|---|
| `DoorTypeCorrect` | `TypeOK` |
| `OnlyTheOwnerOpens` | `OpensForVerifiedOwner` |
| `BlockSurvives` | `BlockOutlivesRestart` |

`Sound` follows a recognised face from the camera over the grant file to the local
variable of `handle_card`; what makes it inductive is that the file is emptied before the
wait begins, and that faces recognised before the announcement do not count. `Kept` says
where a blocked card is: in memory and in the file, or in the list that is about to be written,
and only a crash between truncating and writing takes it from there (`torn`).

`CorrelatorProofs` proves, for any incidents, finitely many actors, any windows, cooldowns
and restarts (`CorrelatorAssumption`: the fast window is within the slow one, a
cooldown is at least a tick and no longer than the slow window, actors are no domains; the
code's numbers are windows of 5 and 30 minutes, cooldowns of 5 and 10):

| theorem | property |
|---|---|
| `CorrelatorTypeCorrect` | `TypeOK` |
| `ResolvedIsKept` | `ResolvedStays` |
| `AttackReported` | `AttackIsReported` |

A rule that found something keeps silent about it for a while. `Backed` says what is
behind the silence: a chain of the same domains that is no older than it. `Answered`
says of each pair of severe incidents that a chain answers for it: either the
chain came with the pair or later, or one of the incidents came during the silence. Both age
together, so time passes without harm; a new incident is paired with all that are in
the deques, and a deque that overflows only loses pairs.

`DetectionProofs` proves about five components of the site run, each for itself, for any
hosts, types of alerts and decay (`RiskAssumption`); zones, timers, resets, faults and
durations (`FireAssumption`: durations are numbers, a cooldown is at least a tick); cards,
readers, floors and walks (`TravelAssumption`); devices, ports, lengths of a day and of the
window, and thresholds (`BaselineAssumption`: they are positive, the cooldown of
`baseline_drift` is no longer than the interval of the check, as in the code, where both
are an hour):

| theorem | property |
|---|---|
| `RiskTypeCorrect` | `RiskTypeOK` |
| `OneCritical` | `OneCriticalPerEpisode` |
| `FireTypeCorrect` | `FireTypeOK` |
| `FireAnswered` | `FireIsAnswered` |
| `TravelTypeCorrect` | `TravelTypeOK` |
| `TravelReported` | `TravelIsReported` |
| `DriftCaught` | `DriftIsCaught` |
| `PortsLearnedSlowly` | `LearnedSlowly` |
| `BaselineTypeCorrect` | `BaselineTypeOK` |

`OneCriticalPerEpisode` counts incidents and speaks of the highest score of an episode; the code
knows neither. `Episode(h)` says what the set of fired levels tells about both: CRITICAL
has fired exactly if the peak reached it, and below that HIGH has fired exactly if the
peak reached that. The second HIGH is the one case where the two part.

`FireIsAnswered`: `TimerInv` says that only the latest timer waits, and none while the consumer is
between cancelling and starting; `HoldInv` that this timer waits at least as long as the
relay is promised, and that an uncontested consumer meets no release; `ReleaseInv`
who is left to switch the line off, also when a reset cancelled the timer in the
consumer's hand; `ReportInv` that a confirmed zone is reported or about to be.

`TravelIsReported`: `TravelAssumption` is what the constants of the code satisfy (5, 30 and
60 seconds). The agent remembers only the latest place. `VisitInv` says
that a place left unreported is older than the latest by at least the walk between
them; a grant that is not called impossible adds a walk, and `WalkTriangle` says that no
detour is shorter, which needs twice the walk to the next floor to be at least the walk over two.

`DriftIsCaught`: `DriftInv` says that a device has been diverged no longer than since the latest
check, unless the check under way has still to look at it, and that an alert is held
back only while it is younger than the latest check, so never at the next one. A tick
cannot pass the interval without a flow, and the flow begins the check.

`LearnedSlowly`: the code keeps per port a number of days and the time of the first flow; the
property speaks of the days themselves. `EntryInv` ties them together: an entry that has not
expired counts no more days than there are since the day it was made (`Honest`), and its age
tells that day, which is therefore within the window; and an entry of a port learned from
today has counted today. `DaysPass` is the one step of arithmetic: at midnight each day is one
day longer ago, and none leaves the window while the entry lives.

About the watches it proves, for any sensors, agents, limits, alerts kept, lost heartbeats and
restarts (`SensorAssumption`, `AgentAssumption`: the placeholders are no stamps, an
alarm's cooldown is longer than the central manager's limit, as 300 seconds is than 60):

| theorem | property |
|---|---|
| `WatchTypeCorrect` | `SensorTypeOK`, `AgentTypeOK` |
| `AlarmsAreTrue` | `NoFalseAlarm` |
| `SilencesAreReported` | `SilenceIsReported` |

The watchdog of the sensors works on a copy of the stamps, in steps a reading may come
between. `CopyOnce` and `PublishedOnce` say that a device is in the copy, in the
watchdog's hand or in neither, and that after a dropout it gets there only with a new stamp;
`JustStamped` and `Disarmed` tie the flag `_dropout_fired` to a stamp that is gone, about
to go, or being written; `Ahead`, `GoingIsReported` and `GoneIsReported` say that what
is silent is still before the watchdog, reported, or one of the sensors whose fresh
stamp it deleted. `InOrder` says in which order alerts and stamps of a device get into the
view. For the agents, `AlarmedOnce` and `ForgivenSoon` say when the central manager may
have forgotten an alarm, and `AlarmIsOlder` why the data manager's cooldown never holds back
the first alarm of a silence: an alarm given before the latest heartbeat is older than
it, and the agent counts as offline only after as long as the cooldown.

`SiteProofs` proves about the three detectors that remember in deques, for any messages,
windows and lengths of the deques (`TriageAssumption`); events of cards, windows, and
thresholds no larger than the deque (`CardAssumption`: the code's are 5 of 20); traffic,
networks, windows, cooldowns, thresholds and commands that change them
(`DetectorAssumption`: thresholds are numbers, and `SlowThreshold` is the largest the slow
scan is ever given); and then about the detecting side as a whole:

| theorem | property |
|---|---|
| `TriageTypeCorrect` | `TriageTypeOK` |
| `PairsAreCritical` | `PairIsCritical` |
| `CardTypeCorrect` | `CardTypeOK` |
| `CardAttackReported` | `CardAttackIsAlerted` |
| `DetectorTypeCorrect` | `TypeOK` of `Detectors` |
| `FlowAttackReported` | `FlowAttackIsAlerted` |
| `SiteIsItsComponents` | `SiteSpec` implies the specification of each component |
| `SiteTypeCorrect` | `SiteTypeOK` |
| `AttacksAreAlerted` | `AttackIsAlerted` |

A deque that is full forgets, so these properties speak of a history that holds one entry
more than the deque, and ask for an answer only while that place is free. `Trails(d, h, ...)`
is the invariant behind all of them: the history is in the order of its entries' ages, the
deque equals it while it fits, and is its newest part otherwise. `TrailsPush` and
`TrailsAging` carry it through an append and a tick, for the deques of any module; they rest on
`LastOfIs` and `AgingIs`, which say what `Deques` computes, entry by entry.

`PairIsCritical`: with `RememberInv`, which is `Trails` for each key, an alert the history has is
one the rule sees (`HeldIsHeard`); the lemmas `DataPair`, `PacPair` and `IotPair` match the
pairs with the rules of the three managers; a pair of one card within 60 s is one of any card
within the longer window that the code asks for (`CameWider`).

`CardAttackIsAlerted`: the tables and the history are emptied by different events. `Unreported`
says that a denial the history has and the deque has not is no younger than the
latest report, so that a threshold of denials is either in the deque or was reported
within the window.

`FlowAttackIsAlerted`: `WindowInv` is `Trails` for each rule and source. That an alert is there
although `_dedup` may have held it back is `MatchAlerts`: what held it back is itself an alert
of that rule and key within the cooldown. The slow scan counts in a set that starts over
when its first port is a day old. `SetInv` says that every port of the last day is in the
set or older than it, and `ScanInv` that when those in the set, or those before it, are as
many as the threshold, an alert was raised no longer than the cooldown before the latest of
them. Of twice the threshold less
one, one of the two parts has as many as the threshold (`ManyPortsAlerted`).

`SiteIsItsComponents` lets a theorem about one of the nine speak of the whole: each step
of `SiteNext` is a step of one component and stutters in the others.

Only model-checked: `WindowCloses`, `SwipeEnds`, `ChainsEnd` and `CorrelationIsAnswered`, since
liveness is out of this prover's reach. Every other property that a passing run
checks is a theorem; the six properties of the violated runs are false.

## 6. Done and left

Done: the windows and the isolation of the local managers, the door with its camera,
learning, correlation and orchestration at HQ, and the detecting side (`site`).

Left, in this order:

1. An abstract specification of the approval gate (a command is proposed, approved,
   issued) that `Orchestrator` implements.
2. `Detectors` composed with `Triage` and `RiskLadder`: what one attack costs a host
   when its alerts pass all three.

Hazards that no property covers, beside those `PROJECT.json` lists: the NDR agent
never forgets an isolation (`ndr_main.py:401`); a dismissal consumed before its
incident finds no example (`learning_agent/main.py:215`); incidents are dated by their receipt, so a
restart of the analytical agent makes the past look simultaneous
(`analytical_agent/main.py:172`), and its deque of 200 may lose a HIGH incident behind
LOW ones (`:95`). No document of the repository says what should happen there.

### Not modelled

- TI and forensic agents, EDR, collectors, IoT gateway, sensors, dashboards, proxies and
  configuration: they read and pass on without state that a later message depends on.
- The older door program `rfid_door.py` and the copies of agents (`main.py` beside
  `main(1).py`), which the compose files do not start.
- `_auto_soar` of the access manager (`pac_local_manager/main.py:337`): nothing calls it, although
  its docstring says it is called after an incident was created.
- Values: moving averages, medians, classifiers, the texts of payloads, reports and logs.
