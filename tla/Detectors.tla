----------------------------- MODULE Detectors -----------------------------
(***************************************************************************)
(* The signature detections of the NDR agent (ndr_main.py): handle_flow    *)
(* runs every _check_* over the flow records of the data network.  A       *)
(* window rule keeps, per source (or connection), a deque of maxlen        *)
(* entries, counts the entries or distinct values younger than a window,   *)
(* and calls _dedup, which lets one alert per key through in a cooldown.   *)
(* The slow-scan rule keeps a set that is emptied when its 24 hours end.   *)
(* Times are ages in ticks; an entry older than its window can no longer   *)
(* be counted and is dropped by Tick.  The thread of soar.commands records *)
(* isolations and changes thresholds between two flows.                    *)
(***************************************************************************)
EXTENDS Deques, FiniteSets, TLC

CONSTANTS
    Host,           \* source addresses
    NoHost,         \* a record without src_ip or dst_ip
    Infra,          \* the machines handle_flow skips
    PiHole,         \* LEGIT_DNS_SERVERS
    Net,            \* Net[a]: the /24 of an address, as in INTERNAL_NETWORKS
    Traffic,        \* sets of flow records: what the network sends in one behaviour
    Window,         \* Window[r] of a window rule (*_WINDOW, cutoff)
    Cap,            \* Cap[r]: maxlen of its deque
    Cooldown,       \* Cooldown[r]: cooldown of its _dedup
    Base,           \* Base[r]: the threshold the agent starts with
    Advice,         \* recommendations of update_thresholds
    Grace,          \* ISOLATION_GRACE
    SlowWindow,     \* SLOW_SCAN_WINDOW
    Clock,          \* the hours (UTC) and weekdays the run may be in
    MaxPerTick,     \* bound: flows of one tick
    MaxCommands     \* bound: commands

Rule == {"isolation_violation", "port_scan", "brute_force_ssh", "brute_force_http",
         "data_exfiltration", "lateral_movement", "c2_beacon", "unauthorized_vlan",
         "after_hours_activity", "dns_tunneling", "slow_port_scan",
         "immovable_violation", "radius_brute_force"}
WindowRule == {"port_scan", "brute_force_ssh", "brute_force_http", "lateral_movement",
               "c2_beacon", "after_hours_activity", "dns_tunneling", "radius_brute_force"}
\* The rules with a threshold.
Tuned == Rule \ {"isolation_violation", "unauthorized_vlan", "immovable_violation"}
\* Rules that count distinct ports or networks instead of entries.
Distinct == {"port_scan", "lateral_movement"}

VARIABLES
    flows,          \* the flow records that may come, one of Traffic
    deque,          \* deque[<<r, k>>]: the deque of rule r for key k
    daily,          \* _daily_scans
    isolated,       \* _isolated_ips: the age of each host's isolation
    thr,            \* the thresholds, which update_thresholds changes
    fired,          \* _last_alert: rule, key and age of the latest alert
    alerts,         \* the rules whose alerts the latest flow published
    clock,          \* the hour of the day and the weekday, UTC
    \* history and bounds
    seen,           \* like deque, but holding one entry more
    ports,          \* the distinct ports of each source within SlowWindow
    sent, commands

vars == <<flows, deque, daily, isolated, thr, fired, alerts, clock, seen, ports, sent, commands>>

----------------------------------------------------------------------------
(* Networks and the policy of each role. *)

InternalNets == {"192.168.10", "192.168.12", "192.168.15", "192.168.20", "192.168.31",
                 "192.168.40", "192.168.60", "192.168.70", "10.0.10", "10.0.11", "10.0.12",
                 "10.0.15", "10.0.20", "10.0.30", "10.0.50", "10.0.60", "10.0.70"}
Internal(a) == a # NoHost /\ Net[a] \in InternalNets

\* The pair with 192.168.99 names a network that is not internal.
IsolatedVlanPairs ==
    {<<"192.168.10", "192.168.20">>, <<"192.168.10", "192.168.31">>,
     <<"192.168.15", "192.168.20">>, <<"192.168.15", "192.168.31">>,
     <<"192.168.20", "192.168.60">>, <<"192.168.99", "192.168.60">>,
     <<"192.168.20", "192.168.15">>, <<"192.168.31", "192.168.60">>,
     <<"10.0.20", "10.0.60">>, <<"10.0.70", "10.0.60">>,
     <<"10.0.20", "10.0.15">>, <<"10.0.30", "10.0.60">>}

\* Sizes in KB; the week begins on Monday, day 0.
Role(allowed, first, last, lastDay, internal, size) ==
    [ports |-> allowed, hours |-> first..last, days |-> 0..lastDay, internal |-> internal,
     size |-> size]
MB(n) == n * 1024
Unlimited == MB(1000000)
Baselines ==
    LET students == Role({9092, 53, 443, 80, 22, 8004, 8005, 8080, 3000, 5000, 8000, 8888,
                          3306, 5432}, 8, 23, 6, FALSE, MB(200))
        staff    == Role({9092, 53, 443, 80, 22, 389, 636, 25, 587, 993}, 7, 21, 5, FALSE, MB(100))
        iot      == Role({1883}, 0, 23, 6, TRUE, 2)
        access   == Role({9092, 389}, 0, 23, 6, TRUE, 50)
        servers  == Role(1..65535, 0, 23, 6, FALSE, Unlimited)
        visitor  == Role({80, 443, 53}, 9, 17, 4, FALSE, MB(50))
    IN  ("192.168.10" :> students) @@ ("10.0.10" :> students) @@
        ("192.168.15" :> staff) @@ ("10.0.15" :> staff) @@
        ("192.168.12" :> Role({9092, 53, 443, 80, 22, 8006, 8007, 8008}, 8, 21, 5, FALSE, MB(50))) @@
        ("192.168.20" :> iot) @@ ("10.0.20" :> iot) @@
        ("192.168.31" :> access) @@ ("10.0.30" :> access) @@
        ("192.168.40" :> Role({9092, 53, 443, 80, 22, 8010, 8011, 8012}, 0, 23, 6, FALSE, MB(100))) @@
        ("192.168.60" :> servers) @@ ("10.0.60" :> servers) @@
        ("192.168.70" :> visitor) @@ ("10.0.70" :> visitor)
Default == Role({80, 443, 53}, 8, 17, 4, FALSE, MB(10))
GetRole(a) == IF Net[a] \in DOMAIN Baselines THEN Baselines[Net[a]] ELSE Default

\* The broken rules of the role, in the order they are looked at.
When(broken, v) == IF broken THEN <<v>> ELSE <<>>
Violations(f) ==
    LET role == GetRole(f.src)
    IN  When(f.port # 0 /\ f.port \notin role.ports, "forbidden_port")
        \o When(clock.hour \notin role.hours, "outside_hours")
        \o When(clock.day \notin role.days, "outside_days")
        \o When(role.internal /\ f.dst # NoHost /\ ~Internal(f.dst), "external_destination")
        \o When(f.size > role.size, "flow_size_exceeded")

----------------------------------------------------------------------------
(* The window rules: what enters a deque, under which key, and what counts. *)

LocalHour == (clock.hour + 3) % 24
Enters(r, f) ==
    CASE r = "port_scan"            -> f.src # NoHost /\ f.port # 0
      [] r = "brute_force_ssh"      -> f.src # NoHost /\ f.port = 22 /\ f.status \in {"failed", "refused"}
      [] r = "brute_force_http"     -> /\ f.src # NoHost /\ f.port \in {80, 443, 8080, 8443}
                                       /\ f.status = "unauthorized"
      [] r = "lateral_movement"     -> Internal(f.src) /\ Internal(f.dst)
      [] r = "c2_beacon"            -> /\ f.dst # NoHost /\ Internal(f.src)
                                       /\ ~Internal(f.dst) /\ f.size <= 10
      [] r = "after_hours_activity" -> /\ f.src # NoHost /\ LocalHour < 6
                                       /\ Net[f.src] \in {"192.168.10", "192.168.15"}
      [] r = "dns_tunneling"        -> f.port = 53
      [] r = "radius_brute_force"   -> f.src # NoHost /\ f.radius /\ f.status \in {"failed", "rejected"}

\* The text of a violation names what broke the rule.
Named(v, f) ==
    CASE v = "forbidden_port" -> <<v, f.port>>
      [] v = "outside_hours" -> <<v, clock.hour>>
      [] v = "outside_days" -> <<v, clock.day>>
      [] v = "external_destination" -> <<v, f.dst>>
      [] v = "flow_size_exceeded" -> <<v, f.size>>

Key(r, f) ==
    IF r \in {"c2_beacon", "data_exfiltration", "unauthorized_vlan"} THEN <<f.src, f.dst>>
    ELSE IF r = "immovable_violation" THEN <<f.src, Named(Violations(f)[1], f)>>
    ELSE <<f.src>>

Item(r, f) ==
    CASE r = "port_scan"        -> f.port
      [] r = "lateral_movement" -> Net[f.dst]
      [] OTHER                  -> "flow"
Entry(r, f) == [item |-> Item(r, f), age |-> 0]

In(d, x) == IF x \in DOMAIN d THEN d[x] ELSE <<>>
Count(r, s) == IF r \in Distinct THEN Cardinality({s[i].item : i \in DOMAIN s}) ELSE Len(s)
\* The last n entries of a window rule's deque in d, after the flow.
Pushed(d, r, f, n) == Push(In(d, <<r, Key(r, f)>>), Entry(r, f), n)

\* _daily_scans of the flow's source, after the flow.
SlowScan(f) ==
    LET known == {d \in daily : d.src = f.src}
        old == CHOOSE d \in known : TRUE
    IN  IF known = {} \/ old.age > SlowWindow
        THEN [src |-> f.src, ports |-> {f.port}, age |-> 0]
        ELSE [old EXCEPT !.ports = @ \cup {f.port}]
SlowScanned(f) == f.src # NoHost /\ f.port # 0

\* What each rule asks of the flow before it calls _dedup.
Matches(r, f) ==
    \/ r = "isolation_violation" /\ \E i \in isolated : i.src = f.src /\ i.age > Grace
    \/ /\ r = "data_exfiltration"
       /\ f.dst # NoHost /\ f.size >= thr["data_exfiltration"]
       /\ Internal(f.src) /\ ~Internal(f.dst)
    \/ /\ r = "unauthorized_vlan"
       /\ Internal(f.src) /\ Internal(f.dst) /\ Net[f.src] # Net[f.dst]
       /\ \/ <<Net[f.src], Net[f.dst]>> \in IsolatedVlanPairs
          \/ <<Net[f.dst], Net[f.src]>> \in IsolatedVlanPairs
    \/ /\ r = "slow_port_scan"
       /\ SlowScanned(f) /\ Cardinality(SlowScan(f).ports) >= thr["slow_port_scan"]
    \/ r = "immovable_violation" /\ f.src # NoHost /\ Violations(f) # <<>>
    \/ /\ r \in WindowRule
       /\ Enters(r, f)
       /\ \/ Count(r, Pushed(deque, r, f, Cap[r])) >= thr[r]
          \/ r = "dns_tunneling" /\ f.dst # PiHole

\* _dedup: no alert of this key within the cooldown.
Dedup_OneKey(r, k) == ~\E x \in fired : x.key = k /\ x.age < Cooldown[r]
Dedup(r, k) == ~\E x \in fired : x.rule = r /\ x.key = k /\ x.age < Cooldown[r]
Raised(r, f) == Matches(r, f) /\ Dedup(r, Key(r, f))

SkipInfra(f) ==
    /\ f.src \in Infra
    /\ sent < MaxPerTick
    /\ sent' = sent + 1
    /\ alerts' = {}
    /\ UNCHANGED <<flows, deque, daily, isolated, thr, fired, clock, seen, ports, commands>>

\* The deques the flow enters, and what _dedup remembers of the alerts of some rules.
Slots(f) == {<<r, Key(r, f)>> : r \in {x \in WindowRule : Enters(x, f)}}
Entered(d, f, more) ==
    [s \in DOMAIN d \cup Slots(f) |->
        IF Enters(s[1], f) /\ s[2] = Key(s[1], f)
        THEN Pushed(d, s[1], f, Cap[s[1]] + more) ELSE d[s]]
Stamps(rules, f) == {[rule |-> r, key |-> Key(r, f), age |-> 0] : r \in rules}

HandleFlow(f) ==
    /\ f.src \notin Infra
    /\ sent < MaxPerTick
    /\ sent' = sent + 1
    /\ alerts' = {r \in Rule : Raised(r, f)}
    /\ fired' = Stamps(alerts', f) \cup
                {x \in fired : x.rule \in alerts' => x.key # Key(x.rule, f)}
    /\ deque' = Entered(deque, f, 0)
    /\ seen' = Entered(seen, f, 1)
    /\ IF SlowScanned(f)
       THEN /\ daily' = {SlowScan(f)} \cup {d \in daily : d.src # f.src}
            /\ ports' = {[src |-> f.src, port |-> f.port, age |-> 0]} \cup
                        {p \in ports : p.src # f.src \/ p.port # f.port}
       ELSE UNCHANGED <<daily, ports>>
    /\ UNCHANGED <<flows, isolated, thr, clock, commands>>

----------------------------------------------------------------------------
(* soar.commands and the clock. *)

\* handle_command, block_src_ip, block_attacker_ip or isolate_host: the host is
\* recorded as isolated from now on; no command takes it off the record.
RecordIsolation(h) ==
    /\ commands < MaxCommands
    /\ commands' = commands + 1
    /\ isolated' = {[src |-> h, age |-> 0]} \cup {i \in isolated : i.src # h}
    /\ UNCHANGED <<flows, deque, daily, thr, fired, alerts, clock, seen, ports, sent>>

\* handle_command, update_thresholds: the keys that are there.
ApplyThresholdUpdates(recs) ==
    /\ commands < MaxCommands
    /\ commands' = commands + 1
    /\ thr' = [r \in DOMAIN thr |-> IF r \in DOMAIN recs THEN recs[r] ELSE thr[r]]
    /\ UNCHANGED <<flows, deque, daily, isolated, fired, alerts, clock, seen, ports, sent>>

\* A tick: ages grow up to the largest limit they are compared with.
Upto(n, limit) == IF n < limit THEN n + 1 ELSE limit
Older(S) == {Grown(x) : x \in S}
InWindow(d) ==
    LET aged(s) == Aging(d[s], Window[s[1]])
    IN  [s \in {x \in DOMAIN d : aged(x) # <<>>} |-> aged(s)]
\* How long an alert is remembered: _dedup asks for its cooldown, the history of
\* slow scans for a window more.
Horizon(x) == Cooldown[x.rule] + (IF x.rule = "slow_port_scan" THEN SlowWindow ELSE 0)

NextHour ==
    [hour |-> (clock.hour + 1) % 24,
     day |-> IF clock.hour = 23 THEN (clock.day + 1) % 7 ELSE clock.day]

Tick ==
    /\ deque' = InWindow(deque)
    /\ seen' = InWindow(seen)
    /\ daily' = {[d EXCEPT !.age = Upto(@, SlowWindow + 1)] : d \in daily}
    /\ isolated' = {[i EXCEPT !.age = Upto(@, Grace + 1)] : i \in isolated}
    /\ fired' = {x \in Older(fired) : x.age <= Horizon(x)}
    /\ ports' = {p \in Older(ports) : p.age <= SlowWindow}
    /\ clock' \in {clock, NextHour} \cap Clock
    /\ alerts' = {}
    /\ sent' = 0
    /\ UNCHANGED <<flows, thr, commands>>

Init ==
    /\ flows \in Traffic
    /\ deque = <<>> /\ seen = <<>>
    /\ daily = {} /\ isolated = {} /\ fired = {} /\ ports = {}
    /\ thr = Base
    /\ alerts = {}
    /\ clock \in Clock
    /\ sent = 0 /\ commands = 0

Next ==
    \/ \E f \in flows : SkipInfra(f) \/ HandleFlow(f)
    \/ \E h \in Host : RecordIsolation(h)
    \/ \E recs \in Advice : ApplyThresholdUpdates(recs)
    \/ Tick

Spec == Init /\ [][Next]_vars

----------------------------------------------------------------------------
(* Properties. *)

TypeOK ==
    /\ \A s \in DOMAIN deque :
          /\ s[1] \in WindowRule
          /\ Len(deque[s]) <= Cap[s[1]]
          /\ \A i \in DOMAIN deque[s] : deque[s][i].age \in 0..Window[s[1]]
    /\ DOMAIN seen = DOMAIN deque
    /\ daily \in SUBSET [src : Host, ports : SUBSET Nat, age : 0..SlowWindow + 1]
    /\ isolated \in SUBSET [src : Host, age : 0..Grace + 1]
    /\ thr \in [Tuned -> Nat]
    /\ \A x \in fired : x.rule \in Rule /\ x.age \in 0..Horizon(x)
    /\ alerts \subseteq Rule
    /\ clock \in Clock

\* The most ports the slow-scan rule may ask for, whatever was recommended.
SlowThreshold ==
    LET set == {Base} \cup Advice
        named == {r \in set : "slow_port_scan" \in DOMAIN r}
        t == {r["slow_port_scan"] : r \in named}
    IN  CHOOSE n \in t : \A m \in t : m <= n

DetectorAssumption ==
    /\ Window \in [WindowRule -> Nat] /\ Cap \in [WindowRule -> Nat \ {0}]
    /\ Cooldown \in [Rule -> Nat \ {0}]
    /\ {Grace, SlowWindow} \subseteq Nat
    /\ Base \in [Tuned -> Nat]
    /\ \A recs \in Advice : DOMAIN recs \subseteq Tuned /\ \A r \in DOMAIN recs : recs[r] \in Nat
    /\ SlowThreshold \in Nat \ {0}
    /\ \A recs \in {Base} \cup Advice :
          "slow_port_scan" \in DOMAIN recs => recs["slow_port_scan"] <= SlowThreshold
    /\ \A f \in UNION Traffic : f.src \in Host \cup Infra \cup {NoHost} /\ f.port \in Nat

AlertedWithin(r, k, limit) == \E x \in fired : x.rule = r /\ x.key = k /\ x.age < limit

\* An attack that reaches its threshold is reported: the flow that brings the
\* entries of a source (or distinct ports or networks) inside a window to the
\* threshold leaves an alert of that rule and that source published within the
\* cooldown, unless more entries than the deque holds came in the window; and a
\* source that tried twice the slow-scan threshold of ports, less one, in any 24
\* hours has been reported since, although the code counts from fixed starting
\* points and forgets the count when they move.  The deques, the one table of
\* cooldowns for all rules and sources, and commands that change a threshold
\* between two flows (ndr_main.py, _check_*, _dedup) have to work together.
FlowAttackIsAlerted ==
    [][ /\ sent' > sent => \A s \in DOMAIN seen' :
              /\ s \in DOMAIN seen => seen'[s] # seen[s]
              /\ Count(s[1], seen'[s]) >= thr[s[1]]
              /\ Len(seen'[s]) <= Cap[s[1]]
              => AlertedWithin(s[1], s[2], Cooldown[s[1]])'
        /\ \A d \in daily' :
              Cardinality({p \in ports' : p.src = d.src}) >= 2 * SlowThreshold - 1
              => AlertedWithin("slow_port_scan", <<d.src>>,
                               SlowWindow + Cooldown["slow_port_scan"])'
      ]_<<deque, daily, fired, seen, ports, sent>>

=============================================================================
