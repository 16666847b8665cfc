------------------------------ MODULE Isolation ------------------------------
(***************************************************************************)
(* How a host is cut off the campus and let back.                          *)
(*                                                                         *)
(*   - the data local manager keeps _isolated_hosts for its dashboard: the *)
(*     thread of its alerts, the operators' HTTP calls and the thread of   *)
(*     its soar consumer all write it, and the first two publish commands; *)
(*   - soar.commands carries them, ordered per key: the target for the     *)
(*     manager's commands, a fresh command id for those of HQ;             *)
(*   - soar_executor.py obeys one command after the other over SSH and     *)
(*     remembers in _isolated, in memory, what it did to the switch;       *)
(*   - the switch holds one deny entry per access list, always at number   *)
(*     5, and a table of blackholed MACs.                                  *)
(***************************************************************************)
EXTENDS Naturals, Sequences, FiniteSets

CONSTANTS
    Host,           \* targets of commands: IP addresses, and names as "campus"
    Name,           \* the targets that are no addresses
    Infra,          \* INFRA_IPS
    Mac,
    NoMac,          \* the switch's ARP table does not know the host
    Arp,            \* Arp[h]: MACs that DHCP may have given the address to
    Acl, AclOf,     \* _get_acl_for_ip
    HqKey,          \* the key of HQ's commands
    Thread,         \* HTTP calls served at a time
    None,
    Cooldown,       \* RESTORE_COOLDOWN_MINUTES, in ticks
    MaxCommands,    \* bound: commands published
    MaxFaults,      \* bound: restarts and broken SSH sessions together
    Asked, Alerted  \* bounds: the targets that operators and alerts name

ASSUME IsolationAssumption ==
    /\ Name \subseteq Host /\ Infra \subseteq Host
    /\ HqKey \notin Host /\ NoMac \notin Mac
    /\ None \notin Host \cup Mac \cup {NoMac}
    /\ None \notin [mac : Mac \cup {NoMac}, static : BOOLEAN]
    /\ Arp \in [Host -> SUBSET Mac] /\ AclOf \in [Host -> Acl]
    /\ \A n \in Name : Arp[n] = {}
    /\ {Cooldown, MaxCommands, MaxFaults} \subseteq Nat
    /\ Asked \cup Alerted \subseteq Host

VARIABLES
    testing,        \* TESTING_MODE of the executor
    \* Kafka: the commands under each key, and how many of them each consumer took
    log, epos, dpos,
    \* the data local manager
    hosts,          \* _isolated_hosts
    recording,      \* the host the alert thread published but has not recorded
    calls,          \* calls[t]: the command an HTTP call has yet to publish
    \* the executor
    epc, job, isolated, cooldown,
    answer,         \* its last response, until it takes the next command
    \* the switch
    acl,            \* acl[a]: the host that entry 5 of list a denies
    blackholed,
    \* bounds and history
    published, faults,
    overtaken,      \* hosts recorded as isolated after their release was published
    strays,         \* hosts denied by an isolation that a fault interrupted, or
                    \* when the executor died
    protected,      \* protected[m]: what is left, by the clock on the wall, of the
                    \* cooldown of machine m's last release
    unremembered    \* machines whose release the executor forgot in a restart, or
                    \* never noted since it did not know their MAC

kafkaVars == <<log, epos, dpos>>
dlmVars   == <<hosts, recording, calls>>
exeVars   == <<epc, job, isolated, cooldown, answer>>
switchVars == <<acl, blackholed>>
boundVars == <<published, faults>>
wallVars == <<protected, unremembered>>
vars == <<testing, kafkaVars, dlmVars, exeVars, switchVars, boundVars,
          overtaken, strays, wallVars>>

notDlm == <<testing, epos, exeVars, switchVars, faults, strays, wallVars>>
notExe == <<testing, log, dpos, dlmVars, published, overtaken>>

Key     == Host \cup {HqKey}
Command == [kind : {"isolate", "restore"}, host : Host]
ASSUME NoneIsNoCommand == None \notin Command

Entry   == [mac : Mac \cup {NoMac}, static : BOOLEAN]
NoJob   == [kind |-> None, host |-> None, mac |-> NoMac, static |-> FALSE]
Job     == [kind : {"isolate", "restore"}, host : Host,
            mac : Mac \cup {NoMac}, static : BOOLEAN]

\* The type invariant.
TypeOK ==
    /\ testing \in BOOLEAN
    /\ log \in [Key -> Seq(Command)]
    /\ epos \in [Key -> Nat] /\ dpos \in [Key -> Nat]
    /\ \A k \in Key : epos[k] <= Len(log[k]) /\ dpos[k] <= Len(log[k])
    /\ hosts \subseteq Host
    /\ recording \in Host \cup {None}
    /\ calls \in [Thread -> Command \cup {None}]
    /\ epc \in {"idle", "mac", "acl", "save"}
    /\ job \in Job \cup {NoJob} /\ (job = NoJob <=> epc = "idle")
    /\ isolated \in [Host -> Entry \cup {None}]
    /\ cooldown \in [Mac -> 0..Cooldown]
    /\ answer \in [kind : {"isolate", "restore"}, host : Host, ok : BOOLEAN] \cup {None}
    /\ acl \in [Acl -> Host \cup {None}] /\ blackholed \subseteq Mac
    /\ published \in 0..MaxCommands
    /\ faults \in 0..MaxFaults
    /\ overtaken \subseteq Host /\ strays \subseteq Host
    /\ protected \in [Mac -> 0..Cooldown] /\ unremembered \subseteq Mac

Init ==
    /\ testing \in BOOLEAN
    /\ log = [k \in Key |-> <<>>]
    /\ epos = [k \in Key |-> 0] /\ dpos = epos
    /\ hosts = {} /\ recording = None /\ calls = [t \in Thread |-> None]
    /\ epc = "idle" /\ job = NoJob
    /\ isolated = [h \in Host |-> None]
    /\ cooldown = [m \in Mac |-> 0] /\ answer = None
    /\ acl = [a \in Acl |-> None] /\ blackholed = {}
    /\ published = 0 /\ faults = 0
    /\ overtaken = {} /\ strays = {}
    /\ protected = cooldown /\ unremembered = {}

-----------------------------------------------------------------------------
(* The data local manager and HQ.                                          *)

Isolate(h) == [kind |-> "isolate", host |-> h]
Restore(h) == [kind |-> "restore", host |-> h]

Publish(k, c) ==
    /\ published < MaxCommands
    /\ published' = published + 1
    /\ log' = [log EXCEPT ![k] = Append(@, c)]

\* A CRITICAL alert: the command is published first and recorded afterwards.  The
\* target is made from the host's or the agent's id and need not be an address.
AutoIsolate(h) ==
    /\ recording = None
    /\ h \notin Infra
    /\ Publish(h, Isolate(h))
    /\ recording' = h
    /\ UNCHANGED <<notDlm, dpos, hosts, calls, overtaken>>

AutoRecord ==
    /\ recording # None
    /\ hosts' = hosts \cup {recording}
    /\ overtaken' = IF log[recording][Len(log[recording])] = Restore(recording)
                    THEN overtaken \cup {recording} ELSE overtaken
    /\ recording' = None
    /\ UNCHANGED <<notDlm, log, dpos, calls, published>>

\* POST /isolate and /deisolate write the dictionary and then publish.
WriteHosts(c) == IF c.kind = "isolate" THEN hosts \cup {c.host} ELSE hosts \ {c.host}

OperatorWrites(t, c) ==
    /\ calls[t] = None
    /\ published + Cardinality({u \in Thread : calls[u] # None}) < MaxCommands
    /\ hosts' = WriteHosts(c)
    /\ calls' = [calls EXCEPT ![t] = c]
    /\ UNCHANGED <<notDlm, log, dpos, recording, published, overtaken>>

OperatorPublishes(t) ==
    /\ calls[t] # None
    /\ Publish(calls[t].host, calls[t])
    /\ calls' = [calls EXCEPT ![t] = None]
    /\ UNCHANGED <<notDlm, dpos, hosts, recording, overtaken>>

\* A step of a playbook: its correlations carry no address, so that the target
\* is the default "campus".
HqIsolates(n) ==
    /\ Publish(HqKey, Isolate(n))
    /\ UNCHANGED <<notDlm, dpos, dlmVars, overtaken>>

\* handle_soar_command, for the manager's own commands too.
Obeys_IsolateOnly(c) == c.kind = "isolate" /\ c.host \notin Infra
Obeys(c) == c.kind = "restore" \/ c.host \notin Infra

HandleSoar(k) ==
    /\ dpos[k] < Len(log[k])
    /\ dpos' = [dpos EXCEPT ![k] = @ + 1]
    /\ LET c == log[k][dpos[k] + 1]
       IN  /\ hosts' = IF Obeys(c) THEN WriteHosts(c) ELSE hosts
           /\ overtaken' = overtaken \ {c.host}
    /\ UNCHANGED <<notDlm, log, recording, calls, published>>

\* The manager restarts with an empty dictionary, behind everything published.
DlmCrash ==
    /\ faults < MaxFaults
    /\ faults' = faults + 1
    /\ hosts' = {} /\ recording' = None /\ calls' = [t \in Thread |-> None]
    /\ dpos' = [k \in Key |-> Len(log[k])]
    /\ overtaken' = Host
    /\ UNCHANGED <<testing, log, epos, exeVars, switchVars, published, strays, wallVars>>

-----------------------------------------------------------------------------
(* The executor.                                                           *)

Answer(c, ok) == [kind |-> c.kind, host |-> c.host, ok |-> ok]

NextCommand(k) == {log[k][i] : i \in {epos[k] + 1} \cap DOMAIN log[k]}

\* The executor takes the command c of key k.
Take(k, c) ==
    /\ epc = "idle"
    /\ epos[k] < Len(log[k]) /\ c = log[k][epos[k] + 1]
    /\ epos' = [epos EXCEPT ![k] = @ + 1]

\* It answers "executed" at once and touches nothing.
TakeAndAnswer(k, c) ==
    /\ Take(k, c)
    /\ answer' = Answer(c, TRUE)
    /\ UNCHANGED <<notExe, epc, job, isolated, cooldown, switchVars, faults, strays, wallVars>>

SkipTesting(k, c) ==
    /\ testing /\ c.kind = "isolate"
    /\ TakeAndAnswer(k, c)

\* isolate_host: the host, or its MAC under another address, is already
\* isolated, or the MAC was restored a short time ago.
MacIsolated_NotAsked(m) == FALSE
MacIsolated(m) == \E h \in Host : isolated[h] # None /\ isolated[h].mac = m
CoolingDown_OffByOne(m) == cooldown[m] > 1
CoolingDown(m) == cooldown[m] > 0

SkipIsolate(k, c) ==
    /\ c.kind = "isolate" /\ ~testing
    /\ \/ isolated[c.host] # None
       \/ \E m \in Arp[c.host] : MacIsolated(m) \/ CoolingDown(m)
    /\ TakeAndAnswer(k, c)

\* restore_host: "Host not isolated".
SkipRestore(k, c) ==
    /\ c.kind = "restore" /\ isolated[c.host] = None
    /\ TakeAndAnswer(k, c)

MayIsolate(h, m) ==
    /\ isolated[h] = None
    /\ m \in Mac => ~MacIsolated(m) /\ ~CoolingDown(m)

\* Either lookup may fail; without a VLAN there is no blackhole.
StartIsolate(k, c, m, static) ==
    /\ c.kind = "isolate" /\ ~testing
    /\ Take(k, c)
    /\ MayIsolate(c.host, m)
    /\ static => m # NoMac
    /\ job' = [kind |-> "isolate", host |-> c.host, mac |-> m, static |-> static]
    /\ epc' = IF static THEN "mac" ELSE "acl"
    /\ answer' = None
    /\ UNCHANGED <<notExe, isolated, cooldown, switchVars, faults, strays, wallVars>>

StartRestore(k, c) ==
    /\ c.kind = "restore" /\ isolated[c.host] # None
    /\ Take(k, c)
    /\ LET e == isolated[c.host]
       IN  /\ job' = [kind |-> "restore", host |-> c.host, mac |-> e.mac, static |-> e.static]
           /\ epc' = IF e.static THEN "mac" ELSE "acl"
    /\ answer' = None
    /\ UNCHANGED <<notExe, isolated, cooldown, switchVars, faults, strays, wallVars>>

\* A MAC as "show arp" prints it, hhhh.hhhh.hhhh: 0 is a dot, i is the digit i.
\* isolate_host cuts this text as if it were twelve digits.  The switch wants
\* three groups of digits.
ArpText == <<1, 2, 3, 4, 0, 5, 6, 7, 8, 0, 9, 10, 11, 12>>
MacCisco(mac) == SubSeq(mac, 1, 4) \o <<0>> \o SubSeq(mac, 5, 8) \o <<0>> \o SubSeq(mac, 9, 12)
SwitchAccepts(text) == Cardinality({i \in DOMAIN text : text[i] = 0}) = 2

SendMac ==
    /\ epc = "mac"
    /\ blackholed' = IF ~SwitchAccepts(MacCisco(ArpText)) THEN blackholed
                     ELSE IF job.kind = "isolate" THEN blackholed \cup {job.mac}
                     ELSE blackholed \ {job.mac}
    /\ epc' = "acl"
    /\ UNCHANGED <<notExe, epos, job, isolated, cooldown, answer, acl, faults, strays,
                   wallVars>>

\* "5 deny ip host <target> any" or "no 5".  The switch refuses a name.  What it
\* does when number 5 is taken is its own business: it keeps the old entry, or
\* the new one replaces it.
NewEntries_NoRemoval(j) == IF j.kind = "restore" THEN {acl[AclOf[j.host]]} ELSE {j.host}
NewEntries(j) ==
    LET old == acl[AclOf[j.host]]
    IN  IF j.kind = "restore" THEN {None}
        ELSE IF j.host \in Name THEN {old}
        ELSE IF old = None THEN {j.host}
        ELSE {old, j.host}

SendAcl ==
    /\ epc = "acl"
    /\ \E e \in NewEntries(job) : acl' = [acl EXCEPT ![AclOf[job.host]] = e]
    /\ epc' = "save"
    /\ UNCHANGED <<notExe, epos, job, isolated, cooldown, answer, blackholed, faults,
                   strays, wallVars>>

\* "write memory" succeeded: the executor records what it did and answers.
Recorded_Swapped(j) ==
    IF j.kind = "isolate" THEN [isolated EXCEPT ![j.host] = [mac |-> j.host, static |-> j.static]]
    ELSE [isolated EXCEPT ![j.host] = None]

Recorded(j) ==
    IF j.kind = "isolate" THEN [isolated EXCEPT ![j.host] = [mac |-> j.mac, static |-> j.static]]
    ELSE [isolated EXCEPT ![j.host] = None]

\* The machine that a job blocks or releases, as far as it is certain.
Machine(j) == IF j.mac # NoMac THEN {j.mac}
              ELSE {m \in Mac : Arp[j.host] = {m}}

Finish ==
    /\ epc = "save"
    /\ isolated' = Recorded(job)
    /\ cooldown' = IF job.mac = NoMac THEN cooldown
                   ELSE [cooldown EXCEPT ![job.mac] = IF job.kind = "isolate" THEN 0 ELSE Cooldown]
    /\ answer' = Answer(job, TRUE)
    /\ epc' = "idle" /\ job' = NoJob
    /\ IF job.kind = "isolate" THEN UNCHANGED wallVars
       ELSE /\ protected' = [m \in Mac |-> IF m \in Machine(job) THEN Cooldown ELSE protected[m]]
            /\ unremembered' = IF job.mac = NoMac THEN unremembered \cup Machine(job)
                               ELSE unremembered \ Machine(job)
    /\ UNCHANGED <<notExe, epos, switchVars, faults, strays>>

\* The SSH session breaks: "failed", whatever was already sent.
AfterFailure_Forgotten ==
    IF job.kind = "restore" THEN [isolated EXCEPT ![job.host] = None] ELSE isolated

AfterFailure == isolated

SshFails ==
    /\ epc # "idle"
    /\ faults < MaxFaults
    /\ faults' = faults + 1
    /\ isolated' = AfterFailure
    /\ answer' = Answer(job, FALSE)
    /\ strays' = IF epc = "save" /\ job.kind = "isolate"
                 THEN strays \cup {job.host} ELSE strays
    /\ epc' = "idle" /\ job' = NoJob
    /\ UNCHANGED <<notExe, epos, cooldown, switchVars, wallVars>>

\* A restart forgets _isolated and the cooldowns.  Offsets are committed now and
\* then, so that any of the last commands of any key may come again, in their
\* order; of a key without a committed offset the consumer starts at the end.
ResumesAt(p) == \A k \in Key : p[k] <= epos[k] \/ p[k] = Len(log[k])

ExeCrash ==
    /\ faults < MaxFaults
    /\ faults' = faults + 1
    /\ epc' = "idle" /\ job' = NoJob /\ answer' = None
    /\ isolated' = [h \in Host |-> None] /\ cooldown' = [m \in Mac |-> 0]
    /\ \E p \in [Key -> 0..MaxCommands] : ResumesAt(p) /\ epos' = p
    /\ strays' = strays \cup ({acl[a] : a \in Acl} \ {None})
    /\ unremembered' = unremembered \cup {m \in Mac : protected[m] > 0}
    /\ UNCHANGED <<testing, log, dpos, dlmVars, switchVars, published, overtaken,
                   protected>>

\* Time passes, for the executor's table and on the wall.
Left(clock) == [m \in Mac |-> IF clock[m] > 0 THEN clock[m] - 1 ELSE 0]

Tick ==
    /\ \E m \in Mac : cooldown[m] > 0 \/ protected[m] > 0
    /\ cooldown' = Left(cooldown)
    /\ protected' = Left(protected)
    /\ unremembered' = {m \in unremembered : protected'[m] > 0}
    /\ UNCHANGED <<testing, kafkaVars, dlmVars, epc, job, isolated, answer, switchVars,
                   boundVars, overtaken, strays>>

Next ==
    \/ \E h \in Alerted : AutoIsolate(h)
    \/ AutoRecord
    \/ \E t \in Thread, h \in Asked :
          OperatorWrites(t, Isolate(h)) \/ OperatorWrites(t, Restore(h))
    \/ \E t \in Thread : OperatorPublishes(t)
    \/ \E n \in Name : HqIsolates(n)
    \/ \E k \in Key : HandleSoar(k)
    \/ DlmCrash
    \/ \E k \in Key : \E c \in NextCommand(k) :
          \/ SkipTesting(k, c)
          \/ SkipIsolate(k, c)
          \/ SkipRestore(k, c)
          \/ \E m \in Arp[c.host] \cup {NoMac}, static \in BOOLEAN :
                StartIsolate(k, c, m, static)
          \/ StartRestore(k, c)
    \/ SendMac \/ SendAcl \/ Finish \/ SshFails \/ ExeCrash
    \/ Tick

Spec == Init /\ [][Next]_vars

-----------------------------------------------------------------------------
(* Properties.                                                             *)

\* A machine is isolated under one of its addresses only (the "already
\* isolated under" test of isolate_host), whatever addresses DHCP gives it:
\* else the release of one address would open the switch for a machine that
\* the other record still claims to hold.
MacRecordedOnce ==
    \A g, h \in Host :
        (g # h /\ isolated[g] # None /\ isolated[h] # None /\ isolated[g].mac # NoMac)
            => isolated[g].mac # isolated[h].mac

\* An address that the switch denies is one the executor knows to be isolated
\* and can restore, unless a broken SSH session or a restart of the executor
\* came between: two hosts on the same number 5, and any order of commands,
\* never leave a deny nobody remembers.
OnlyFaultsLeaveStrays ==
    \A h \in Host :
        (acl[AclOf[h]] = h /\ job.host # h) => (isolated[h] # None \/ h \in strays)

\* When restore_host answers "executed" for a host, also on its early return
\* for a host it does not know, the switch does not deny that host, with the
\* same exceptions.
RestoredIsLetIn ==
    (answer # None /\ answer.kind = "restore" /\ answer.ok)
        => (acl[AclOf[answer.host]] # answer.host \/ answer.host \in strays)

\* RESTORE_COOLDOWN_MINUTES, by the clock on the wall: when the executor sends the
\* switch a deny for a machine that it released less than the cooldown ago, then
\* its ARP lookup has failed, or a restart has made it forget the release, or it
\* never knew whom it released.  Whatever addresses DHCP gave the machine, and
\* whatever commands came again, there is no other way.
Reblocks(m) == epc = "acl" /\ epc' = "save" /\ job.kind = "isolate" /\ m \in Machine(job)

OnlyUnknownIsReblocked ==
    [][\A m \in Mac : (Reblocks(m) /\ protected[m] > 0)
                          => (job.mac = NoMac \/ m \in unremembered)]_vars

\* soar_executor.py:33: "Don't re-block same MAC for X minutes after restore".
NoReblockAfterRestore ==
    [][\A m \in Mac : Reblocks(m) => protected[m] = 0]_vars

\* Once no call is under way and the soar consumer has read every command, the
\* dashboard's dictionary agrees with the last command for each host: dictionary
\* writes by three kinds of threads may be late, early or repeated.  The one
\* exception is an automatic isolation recorded after the release of the same
\* host was published, since _handle_escalation publishes before it records.
Settled(h) == /\ recording # h
              /\ \A t \in Thread : calls[t] = None \/ calls[t].host # h
              /\ dpos[h] = Len(log[h])

BookkeepingSettles ==
    \A h \in Host \ (Infra \cup Name) :
        (Settled(h) /\ Len(log[h]) > 0 /\ h \notin overtaken)
            => (h \in hosts <=> log[h][Len(log[h])] = Isolate(h))

\* soar_executor.py:179 logs "MAC Blackholed ... + ACL deny added" for every host
\* it records, and the README calls that a two-layer isolation.  So one of the
\* two at least should hold a recorded host, whose MAC and VLAN were found, off
\* the network.
RecordedIsCutOff ==
    \A h \in Host \ Name :
        (isolated[h] # None /\ isolated[h].static /\ epc = "idle" /\ faults = 0)
            => (acl[AclOf[h]] = h \/ isolated[h].mac \in blackholed)
=============================================================================
