----------------------------- MODULE Correlator -----------------------------
(***************************************************************************)
(* The analytical agent of HQ.  Its consumer thread remembers the          *)
(* incidents of the three domains by the time it received them, and after  *)
(* each one looks for patterns, publishes what it finds on hq.correlated   *)
(* and enters it in _kill_chain_tracker.  A second thread sweeps the       *)
(* tracker for chains that have been quiet for long; the analysts resolve  *)
(* chains through a command on soar.commands.                              *)
(*                                                                         *)
(* Each start of the agent is a new consumer group: it begins with empty   *)
(* memory and reads its topics from the earliest record.                   *)
(*                                                                         *)
(* External: the domain managers, whose incidents come in any order, and   *)
(* the central manager's POST /resolve_killchain.                          *)
(*                                                                         *)
(* Times are ages in ticks, counted up to one more than SLOW_WIN.          *)
(***************************************************************************)
EXTENDS Naturals, Sequences, FiniteSets, SequencesExt

CONSTANTS
    Actor,
    Incident,           \* records [domain, severity, type, actor]
    Fast, Slow,         \* FAST_WIN, SLOW_WIN
    Short, Long,        \* the two cooldowns, 300 and 600 seconds
    MaxRecent,          \* incidents kept of one domain, 200
    MaxCorrelations,    \* bound: correlations made
    MaxIncidents,       \* bound: records on hq.incidents
    MaxResolves,        \* bound: commands that resolve a chain
    MaxFaults           \* bound: restarts of the agent, and correlations that the
                        \* producer refuses, together

Domain == {"iot", "physical_access", "data_network"}

\* The order of severities.
LOW == 0
MEDIUM == 1
HIGH == 2
CRITICAL == 3

ASSUME CorrelatorAssumption ==
    /\ \A i \in Incident : i.actor \in Actor /\ i.severity \in LOW..CRITICAL
    /\ IsFiniteSet(Actor) /\ Actor \cap Domain = {}
    /\ {Fast, Slow, Short, Long, MaxRecent, MaxCorrelations, MaxIncidents, MaxResolves,
        MaxFaults} \subseteq Nat
    /\ Fast <= Slow /\ 0 < Short /\ Short <= Long /\ Long <= Slow /\ MaxRecent > 0

VARIABLES
    incidents,  \* the topic hq.incidents
    correlated, \* the correlations made, in every life of the agent: hq.correlated
                \* has those that the producer took, which are "sent"
    resolves,   \* the chains that analysts resolved
    \* the consumer
    apos,       \* incidents read in this life
    unread,     \* commands in resolves that it has not read in this life
    byDomain,   \* _by_domain
    stages,     \* _actor_stages: the stages of an actor, and how long ago each
                \* was seen last
    dedup,      \* _dedup
    chains,     \* _kill_chain_tracker
    \* the thread kc-cleanup
    sweep,
    restarts

memory == <<apos, unread, byDomain, stages, dedup>>
vars == <<incidents, correlated, resolves, memory, chains, sweep, restarts>>

Old == Slow + 1
Types == {"coordinated_attack", "campus_wide_threat", "insider_threat",
          "iot_cyber_bridge", "physical_cyber_combo", "kill_chain_progression"}
Key == [type : Types, who : SUBSET (Domain \cup Actor)]
Chain == 1..MaxCorrelations
Resting == [pc |-> "resting", left |-> {}, size |-> 0, at |-> 0, saw |-> "active"]

\* KILL_CHAIN_MAP
StageOf(type) ==
    CASE type \in {"port_scan", "slow_port_scan", "dns_tunneling"} -> "Reconnaissance"
      [] type \in {"brute_force_ssh", "brute_force_http", "unknown_card", "unauthorized_card",
                   "after_hours"} -> "Initial Access"
      [] type \in {"suspicious_process", "credential_dump", "yara_match"} -> "Execution"
      [] type = "persistence_mechanism" -> "Persistence"
      [] type = "privilege_escalation" -> "Privilege Escalation"
      [] type \in {"lateral_movement", "unauthorized_vlan"} -> "Lateral Movement"
      [] type = "c2_beacon" -> "Collection"
      [] type = "data_exfiltration" -> "Exfiltration"
      [] type = "ransomware_behavior" -> "Impact"
      [] type \in {"sensor_dropout", "temperature_behavioral_anomaly",
                   "gas_behavioral_anomaly"} -> "Discovery"
      [] OTHER -> "Unknown"

\* Of the stages of the map, those that the incidents of the model reach.
Stage == {StageOf(i.type) : i \in Incident} \ {"Unknown"}

\* The type invariant.
TypeOK ==
    /\ incidents \in Seq(Incident)
    /\ correlated \in Seq([type : Types, severity : {HIGH, CRITICAL},
                            who : SUBSET (Domain \cup Actor), sent : BOOLEAN])
    /\ Len(correlated) <= MaxCorrelations
    /\ resolves \subseteq Chain /\ unread \subseteq resolves
    /\ apos \in 0..Len(incidents)
    /\ \A d \in Domain :
          /\ byDomain[d] \in Seq([of : Incident, age : 0..Old])
          /\ Len(byDomain[d]) <= MaxRecent
    /\ stages \in [Actor -> [Stage -> 0..Old]]
    /\ DOMAIN dedup \subseteq Key /\ \A k \in DOMAIN dedup : dedup[k] \in 0..Long
    /\ DOMAIN chains \subseteq 1..Len(correlated)
    /\ \A n \in DOMAIN chains :
          chains[n] \in [status : {"active", "stale", "resolved"}, age : 0..Old]
    /\ sweep \in [pc : {"resting", "due", "sweeping", "marking", "dead"}, left : SUBSET Chain,
                  size : 0..MaxCorrelations, at : 0..MaxCorrelations,
                  saw : {"active", "stale", "resolved"}]
    /\ restarts \in 0..MaxFaults

Init ==
    /\ incidents = <<>> /\ correlated = <<>> /\ resolves = {} /\ unread = {}
    /\ apos = 0
    /\ byDomain = [d \in Domain |-> <<>>]
    /\ stages = [a \in Actor |-> [s \in Stage |-> Old]]
    /\ dedup = <<>> /\ chains = <<>>
    /\ sweep = Resting /\ restarts = 0

-----------------------------------------------------------------------------
(* The rules.  Each is the set of correlations it finds, none or one (rule *)
(* 6: one per actor), in the memory m and st after incident i; "who" is    *)
(* what its key of _dedup names.                                           *)

Found(type, who) == {[type |-> type, who |-> who]}

\* _recent: the places in m[d] of the incidents of domain d.
Recent(m, d, window, severity) ==
    {j \in DOMAIN m[d] : m[d][j].age <= window /\ m[d][j].of.severity >= severity}

RecentOf(m, d, window, severity, types) ==
    {j \in Recent(m, d, window, severity) : m[d][j].of.type \in types}

Coordinated_OneKey(i, m) ==
    LET active == {d \in Domain : Recent(m, d, Fast, HIGH) # {}}
    IN  IF Cardinality(active) >= 2 /\ i.domain \in active
        THEN Found("coordinated_attack", {}) ELSE {}

Coordinated(i, m) ==
    LET active == {d \in Domain : Recent(m, d, Fast, HIGH) # {}}
    IN  IF Cardinality(active) >= 2 /\ i.domain \in active
        THEN Found("coordinated_attack", active) ELSE {}

CampusWide(m) ==
    IF \A d \in Domain : Recent(m, d, Slow, MEDIUM) # {}
    THEN Found("campus_wide_threat", {}) ELSE {}

\* The key names the card of the oldest access incident only.
Insider(m) ==
    LET pac == RecentOf(m, "physical_access", Slow, MEDIUM,
                        {"unknown_card", "unauthorized_card", "after_hours", "badge_clone"})
        first == CHOOSE j \in pac : \A k \in pac : j <= k
    IN  IF pac # {} /\ RecentOf(m, "data_network", Slow, HIGH, {"data_exfiltration"}) # {}
        THEN Found("insider_threat", {m["physical_access"][first].of.actor}) ELSE {}

IotBridge(m) ==
    IF /\ RecentOf(m, "iot", Fast, HIGH, {"temperature_behavioral_anomaly",
                                          "gas_behavioral_anomaly", "sensor_dropout"}) # {}
       /\ RecentOf(m, "data_network", Fast, HIGH, {"lateral_movement", "unauthorized_vlan"}) # {}
    THEN Found("iot_cyber_bridge", {}) ELSE {}

Combo(m) ==
    IF /\ RecentOf(m, "physical_access", Fast, HIGH, {"unknown_card"}) # {}
       /\ RecentOf(m, "data_network", Fast, HIGH, {"credential_dump", "suspicious_process"}) # {}
    THEN Found("physical_cyber_combo", {}) ELSE {}

Progression(st) ==
    UNION {Found("kill_chain_progression", {a}) :
              a \in {b \in Actor : Cardinality({s \in Stage : st[b][s] <= Slow}) >= 3}}

\* _fire
Cooldown(type) ==
    IF type \in {"coordinated_attack", "iot_cyber_bridge", "physical_cyber_combo"}
    THEN Short ELSE Long

MayFire(k) == k \in DOMAIN dedup => dedup[k] >= Cooldown(k.type)

Severity(type) == IF type = "iot_cyber_bridge" THEN HIGH ELSE CRITICAL

-----------------------------------------------------------------------------
(* The consumer.                                                           *)

Remember_Untrimmed(i) ==
    IF i.domain \notin Domain THEN byDomain
    ELSE [byDomain EXCEPT ![i.domain] = Append(@, [of |-> i, age |-> 0])]

\* A deque with a maximal length drops its oldest element.
Remember(i) ==
    IF i.domain \notin Domain THEN byDomain
    ELSE [byDomain EXCEPT ![i.domain] =
             IF Len(@) < MaxRecent THEN Append(@, [of |-> i, age |-> 0])
             ELSE Append(Tail(@), [of |-> i, age |-> 0])]

SeeStage(i) ==
    IF StageOf(i.type) = "Unknown" \/ i.actor = "unknown" THEN stages
    ELSE [stages EXCEPT ![i.actor][StageOf(i.type)] = 0]

\* publish() may return False.
Refused == {n \in DOMAIN correlated : ~correlated[n].sent}

\* handle_incident, with _correlate and _publish_correlation (what one incident
\* correlates is published in an order of no consequence).  The cooldown starts
\* and the chain is entered whatever became of the record.
HandleIncident ==
    /\ apos < Len(incidents)
    /\ apos' = apos + 1
    /\ LET i == incidents[apos + 1]
           m == Remember(i)
           st == SeeStage(i)
           hits == {k \in Coordinated(i, m) \cup CampusWide(m) \cup Insider(m) \cup IotBridge(m)
                          \cup Combo(m) \cup Progression(st) : MayFire(k)}
           new == SetToSeq(hits)
           old == Len(correlated)
       IN  \E taken \in SUBSET hits :
           /\ old + Len(new) <= MaxCorrelations
           /\ restarts + Cardinality(Refused) + Cardinality(hits \ taken) <= MaxFaults
           /\ byDomain' = m /\ stages' = st
           /\ dedup' = [k \in DOMAIN dedup \cup hits |-> IF k \in hits THEN 0 ELSE dedup[k]]
           /\ correlated' = correlated \o
                 [n \in DOMAIN new |-> [type |-> new[n].type, severity |-> Severity(new[n].type),
                                        who |-> new[n].who, sent |-> new[n] \in taken]]
           /\ chains' = [n \in DOMAIN chains \cup (old + 1)..(old + Len(new)) |->
                            IF n > old THEN [status |-> "active", age |-> 0] ELSE chains[n]]
    /\ UNCHANGED <<incidents, resolves, unread, sweep, restarts>>

\* resolve_killchain; a chain of an earlier life is unknown.
HandleResolve(n) ==
    /\ n \in unread
    /\ unread' = unread \ {n}
    /\ chains' = IF n \in DOMAIN chains THEN [chains EXCEPT ![n].status = "resolved"] ELSE chains
    /\ UNCHANGED <<incidents, correlated, resolves, apos, byDomain, stages, dedup, sweep, restarts>>

-----------------------------------------------------------------------------
(* _cleanup_loop and _cleanup_kill_chains.                                 *)

IsOld_Never(n) == chains[n].age > Old
IsOld(n) == chains[n].age > Slow

SweepStart ==
    /\ sweep.pc = "due"
    /\ sweep' = [Resting EXCEPT !.pc = "sweeping", !.left = DOMAIN chains,
                                !.size = Cardinality(DOMAIN chains)]
    /\ UNCHANGED <<incidents, correlated, resolves, memory, chains, restarts>>

\* Going on with the iteration raises RuntimeError when the dictionary has
\* grown, and nothing catches it.
SweepGrown ==
    /\ sweep.pc = "sweeping"
    /\ Cardinality(DOMAIN chains) # sweep.size
    /\ sweep' = [Resting EXCEPT !.pc = "dead"]
    /\ UNCHANGED <<incidents, correlated, resolves, memory, chains, restarts>>

SweepEntry_AnyStatus ==
    /\ sweep.pc = "sweeping"
    /\ Cardinality(DOMAIN chains) = sweep.size
    /\ IF sweep.left = {} THEN sweep' = Resting
       ELSE LET n == CHOOSE k \in sweep.left : \A l \in sweep.left : k <= l
            IN  sweep' = [sweep EXCEPT !.left = @ \ {n}, !.at = n, !.saw = chains[n].status,
                                       !.pc = IF IsOld(n) THEN "marking" ELSE "sweeping"]
    /\ UNCHANGED <<incidents, correlated, resolves, memory, chains, restarts>>

SweepEntry ==
    /\ sweep.pc = "sweeping"
    /\ Cardinality(DOMAIN chains) = sweep.size
    /\ IF sweep.left = {} THEN sweep' = Resting
       ELSE LET n == CHOOSE k \in sweep.left : \A l \in sweep.left : k <= l
            IN  sweep' = [sweep EXCEPT !.left = @ \ {n}, !.at = n, !.saw = chains[n].status,
                                       !.pc = IF chains[n].status = "active" /\ IsOld(n)
                                              THEN "marking" ELSE "sweeping"]
    /\ UNCHANGED <<incidents, correlated, resolves, memory, chains, restarts>>

\* The assignment follows the test without a lock.
SweepMark ==
    /\ sweep.pc = "marking"
    /\ chains' = [chains EXCEPT ![sweep.at].status = "stale"]
    /\ sweep' = [sweep EXCEPT !.pc = "sweeping"]
    /\ UNCHANGED <<incidents, correlated, resolves, memory, restarts>>

-----------------------------------------------------------------------------
(* Restart and time.                                                       *)

Restart ==
    /\ restarts + Cardinality(Refused) < MaxFaults /\ restarts' = restarts + 1
    /\ apos' = 0 /\ unread' = resolves
    /\ byDomain' = [d \in Domain |-> <<>>]
    /\ stages' = [a \in Actor |-> [s \in Stage |-> Old]]
    /\ dedup' = <<>> /\ chains' = <<>>
    /\ sweep' = Resting
    /\ UNCHANGED <<incidents, correlated, resolves>>

Older(age) == IF age < Old THEN age + 1 ELSE Old

\* A sweep takes much less than a tick, and so does the sleep before it.
Tick ==
    /\ sweep.pc \in {"resting", "due", "dead"}
    /\ sweep' = IF sweep.pc = "dead" THEN sweep ELSE [Resting EXCEPT !.pc = "due"]
    /\ byDomain' = [d \in Domain |-> [j \in DOMAIN byDomain[d] |->
                       [byDomain[d][j] EXCEPT !.age = Older(@)]]]
    /\ stages' = [a \in Actor |-> [s \in Stage |-> Older(stages[a][s])]]
    /\ dedup' = [k \in DOMAIN dedup |-> IF dedup[k] < Long THEN dedup[k] + 1 ELSE Long]
    /\ chains' = [n \in DOMAIN chains |-> [chains[n] EXCEPT !.age = Older(@)]]
    /\ UNCHANGED <<incidents, correlated, resolves, apos, unread, restarts>>

-----------------------------------------------------------------------------
(* The environment.                                                        *)

\* Bound: no incident comes twice (an enriched one really comes on ti.enriched too).
NewIncident(i) ==
    /\ Len(incidents) < MaxIncidents /\ i \notin ToSet(incidents)
    /\ incidents' = Append(incidents, i)
    /\ UNCHANGED <<correlated, resolves, memory, chains, sweep, restarts>>

\* POST /resolve_killchain/{correlation_id} publishes a command.
ResolveChain(n) ==
    /\ Cardinality(resolves) < MaxResolves
    /\ n \in 1..Len(correlated) \ resolves
    /\ resolves' = resolves \cup {n} /\ unread' = unread \cup {n}
    /\ UNCHANGED <<incidents, correlated, apos, byDomain, stages, dedup, chains, sweep, restarts>>

Consumer == HandleIncident \/ \E n \in Chain : HandleResolve(n)
Cleaner == SweepStart \/ SweepGrown \/ SweepEntry \/ SweepMark

Next ==
    \/ \E i \in Incident : NewIncident(i)
    \/ \E n \in Chain : ResolveChain(n)
    \/ Consumer
    \/ Cleaner
    \/ Restart
    \/ Tick

\* The thread that sweeps goes on until it dies, and so does time.
Fairness == WF_vars(Cleaner) /\ WF_vars(Tick)

Spec == Init /\ [][Next]_vars /\ Fairness

-----------------------------------------------------------------------------
(* Properties.                                                             *)

\* Rule 1 under its cooldown: when two HIGH incidents of different domains are at
\* most FAST_WIN old, a coordinated attack naming both domains was published when
\* the later one came, or less than the cooldown before, whatever domains came and
\* went in between.  Incidents that the deque dropped are not counted.  One thing
\* only silences the rule: a record of these very domains that the producer
\* refused, whose cooldown had begun (_publish_correlation ignores the False), and
\* no longer than that cooldown.
Names(n, domains) ==
    correlated[n].type = "coordinated_attack" /\ domains \subseteq correlated[n].who

AttackIsReported ==
    \A c, d \in Domain :
        c # d =>
        \A j \in Recent(byDomain, c, Fast, HIGH), k \in Recent(byDomain, d, Fast, HIGH) :
            LET InTime(n) == \/ chains[n].age < byDomain[c][j].age + Short
                             \/ chains[n].age < byDomain[d][k].age + Short
                silenced == \E n \in DOMAIN chains \cap Refused : Names(n, {c, d}) /\ InTime(n)
            IN  ~silenced =>
                    \E n \in DOMAIN chains \ Refused : Names(n, {c, d}) /\ InTime(n)

\* A chain the analysts resolved stays resolved, except when the sweep had read
\* "active" before and writes "stale" after: the one lost update.
ResolvedStays ==
    [][\A n \in DOMAIN chains \cap DOMAIN chains' :
          (chains[n].status = "resolved" /\ chains'[n].status # "resolved")
              => sweep.pc = "marking" /\ sweep.at = n /\ sweep.saw = "active"]_vars

\* No chain stays active for ever: again and again no chain is active that has
\* been quiet for longer than the 1800 seconds of _cleanup_kill_chains, unless an
\* incident correlated in the middle of a sweep has ended the thread that sweeps.
Overdue == {n \in DOMAIN chains : chains[n].status = "active" /\ chains[n].age > Slow}

ChainsEnd == []<>(Overdue = {} \/ sweep.pc = "dead")
=============================================================================
