--------------------------- MODULE IsolationProofs ---------------------------
(***************************************************************************)
(* What the executor and the campus switch agree on, proved for any hosts, *)
(* leases, access lists, commands, restarts and broken sessions.           *)
(*                                                                         *)
(* The executor checks a command before a long conversation with the       *)
(* switch and records it afterwards.  Underway says that what it checked   *)
(* still holds when it records; Denied says who answers for the entry of   *)
(* every access list: a record, the conversation under way, or a fault.    *)
(* Agreed is about the dashboard's dictionary: one key per host orders the *)
(* commands, so that the consumer's last write undoes what came before it. *)
(***************************************************************************)
EXTENDS Isolation, TLAPS

\* The command under way was checked against the records, which stay as they were.
Underway ==
    epc # "idle" =>
        /\ answer = None
        /\ job.kind = "isolate" => MayIsolate(job.host, job.mac)
        /\ job.kind = "restore" => /\ isolated[job.host] # None
                                   /\ isolated[job.host].mac = job.mac
        /\ (epc = "save" /\ job.kind = "restore") => acl[AclOf[job.host]] # job.host

\* Somebody knows of every host that the switch denies.
Denied ==
    \A h \in Host :
        acl[AclOf[h]] = h =>
            \/ isolated[h] # None
            \/ h \in strays
            \/ epc = "save" /\ job.kind = "isolate" /\ job.host = h

\* TypeOK in four parts: the topic, the managers, the executor with its switch,
\* the clock on the wall.
LogType ==
    /\ log \in [Key -> Seq(Command)]
    /\ epos \in [Key -> Nat] /\ dpos \in [Key -> Nat]
    /\ \A k \in Key : epos[k] <= Len(log[k]) /\ dpos[k] <= Len(log[k])

DlmType ==
    /\ hosts \subseteq Host /\ overtaken \subseteq Host
    /\ recording \in Host \cup {None}
    /\ calls \in [Thread -> Command \cup {None}]
    /\ published \in 0..MaxCommands

ExeType ==
    /\ testing \in BOOLEAN
    /\ epc \in {"idle", "mac", "acl", "save"}
    /\ job \in Job \cup {NoJob} /\ (job = NoJob <=> epc = "idle")
    /\ isolated \in [Host -> Entry \cup {None}]
    /\ cooldown \in [Mac -> 0..Cooldown]
    /\ answer \in [kind : {"isolate", "restore"}, host : Host, ok : BOOLEAN] \cup {None}
    /\ acl \in [Acl -> Host \cup {None}] /\ blackholed \subseteq Mac
    /\ faults \in 0..MaxFaults
    /\ strays \subseteq Host

WallType ==
    /\ protected \in [Mac -> 0..Cooldown]
    /\ unremembered \subseteq Mac

\* A blackhole, done or to be done, has a MAC.
StaticHasMac ==
    /\ \A h \in Host : isolated[h] # None /\ isolated[h].static => isolated[h].mac \in Mac
    /\ epc # "idle" /\ job.static => job.mac \in Mac
    /\ epc = "mac" => job.static

ExeInv == ExeType /\ Underway /\ Denied /\ StaticHasMac /\ MacRecordedOnce /\ RestoredIsLetIn

IInv == LogType /\ DlmType /\ ExeInv

\* The initial state.
LEMMA InitInv == Init => IInv
<1> SUFFICES ASSUME Init PROVE IInv
  OBVIOUS
<1> USE IsolationAssumption DEF Init
<1>1. LogType /\ DlmType
  BY DEF LogType, DlmType
<1>2. ExeType
  BY DEF ExeType, NoJob
<1>3. Underway /\ Denied /\ StaticHasMac /\ MacRecordedOnce /\ RestoredIsLetIn
  BY DEF Underway, Denied, StaticHasMac, MacRecordedOnce, RestoredIsLetIn
<1> QED
  BY <1>1, <1>2, <1>3 DEF IInv, ExeInv

\* Publication appends a command to one key's.
LEMMA PublishType ==
  ASSUME LogType, DlmType, NEW k \in Key, NEW c \in Command, Publish(k, c),
         epos' = epos, dpos' = dpos
  PROVE  LogType' /\ published' \in 0..MaxCommands
<1>1. /\ log' \in [Key -> Seq(Command)]
      /\ \A q \in Key : Len(log[q]) \in Nat /\ Len(log'[q]) \in Nat /\ Len(log'[q]) >= Len(log[q])
  BY DEF LogType, Publish
<1>2. published' \in 0..MaxCommands
  BY IsolationAssumption DEF DlmType, Publish
<1> QED
  BY <1>1, <1>2 DEF LogType

\* The steps of the manager and of HQ do not touch executor and switch.
ManagerStep ==
    \/ \E h \in Alerted : AutoIsolate(h)
    \/ AutoRecord
    \/ \E t \in Thread, h \in Asked :
          OperatorWrites(t, Isolate(h)) \/ OperatorWrites(t, Restore(h))
    \/ \E t \in Thread : OperatorPublishes(t)
    \/ \E n \in Name : HqIsolates(n)
    \/ \E k \in Key : HandleSoar(k)

LEMMA ManagerStepInv ==
  ASSUME IInv, ManagerStep
  PROVE  IInv'
<1> USE IsolationAssumption
<1>0. LogType /\ DlmType /\ ExeInv
  BY DEF IInv
<1> SUFFICES LogType' /\ DlmType' /\ UNCHANGED notDlm
  <2> USE DEF notDlm, exeVars, switchVars
  <2>1. UNCHANGED notDlm => ExeType'
    BY <1>0 DEF ExeInv, ExeType
  <2>2. UNCHANGED notDlm => Underway' /\ StaticHasMac'
    BY <1>0 DEF ExeInv, Underway, StaticHasMac, MayIsolate, MacIsolated, CoolingDown
  <2>3. UNCHANGED notDlm => Denied' /\ MacRecordedOnce' /\ RestoredIsLetIn'
    BY <1>0 DEF ExeInv, Denied, MacRecordedOnce, RestoredIsLetIn
  <2> QED
    BY <2>1, <2>2, <2>3 DEF IInv, ExeInv
<1>1. ASSUME NEW h \in Alerted, AutoIsolate(h) PROVE LogType' /\ DlmType' /\ UNCHANGED notDlm
  <2>1. h \in Host /\ h \in Key /\ Isolate(h) \in Command
    BY DEF Key, Command, Isolate
  <2>2. UNCHANGED notDlm /\ epos' = epos /\ dpos' = dpos /\ Publish(h, Isolate(h))
    BY <1>1 DEF AutoIsolate, notDlm
  <2> QED
    BY <1>0, <1>1, <2>1, <2>2, PublishType DEF AutoIsolate, DlmType
<1>2. CASE AutoRecord
  BY <1>0, <1>2 DEF AutoRecord, LogType, DlmType, notDlm
<1>3. ASSUME NEW t \in Thread, NEW h \in Asked, NEW c \in {Isolate(h), Restore(h)},
             OperatorWrites(t, c)
      PROVE  LogType' /\ DlmType' /\ UNCHANGED notDlm
  <2>1. c \in Command /\ c.host \in Host
    BY DEF Command, Isolate, Restore
  <2> QED
    BY <1>0, <1>3, <2>1 DEF OperatorWrites, WriteHosts, LogType, DlmType, notDlm
<1>4. ASSUME NEW t \in Thread, OperatorPublishes(t)
      PROVE  LogType' /\ DlmType' /\ UNCHANGED notDlm
  <2>1. calls[t] \in Command /\ calls[t].host \in Key
    BY <1>0, <1>4 DEF OperatorPublishes, DlmType, Command, Key
  <2>2. UNCHANGED notDlm /\ epos' = epos /\ dpos' = dpos /\ Publish(calls[t].host, calls[t])
    BY <1>4 DEF OperatorPublishes, notDlm
  <2> QED
    BY <1>0, <1>4, <2>1, <2>2, PublishType DEF OperatorPublishes, DlmType
<1>5. ASSUME NEW n \in Name, HqIsolates(n) PROVE LogType' /\ DlmType' /\ UNCHANGED notDlm
  <2>1. HqKey \in Key /\ Isolate(n) \in Command
    BY DEF Key, Command, Isolate
  <2>2. UNCHANGED notDlm /\ epos' = epos /\ dpos' = dpos /\ Publish(HqKey, Isolate(n))
    BY <1>5 DEF HqIsolates, notDlm
  <2> QED
    BY <1>0, <1>5, <2>1, <2>2, PublishType DEF HqIsolates, DlmType, dlmVars
<1>6. ASSUME NEW k \in Key, HandleSoar(k) PROVE LogType' /\ DlmType' /\ UNCHANGED notDlm
  <2>1. log[k][dpos[k] + 1] \in Command
    BY <1>0, <1>6 DEF HandleSoar, LogType
  <2>2. hosts' \subseteq Host /\ overtaken' \subseteq Host
    BY <1>0, <1>6, <2>1 DEF HandleSoar, WriteHosts, DlmType, Command
  <2>3. LogType'
    BY <1>0, <1>6 DEF HandleSoar, LogType, notDlm
  <2> QED
    BY <1>0, <1>6, <2>2, <2>3 DEF HandleSoar, DlmType, notDlm
<1> QED
  BY <1>1, <1>2, <1>3, <1>4, <1>5, <1>6 DEF ManagerStep

-----------------------------------------------------------------------------
(* The executor.                                                           *)

\* The command under way.
LEMMA JobType ==
  ASSUME ExeType, epc # "idle"
  PROVE  /\ job \in Job
         /\ job.kind \in {"isolate", "restore"} /\ job.host \in Host
         /\ job.mac \in Mac \cup {NoMac} /\ job.static \in BOOLEAN
BY DEF ExeType, Job

\* What the executor takes is a command.
LEMMA NextCommandType ==
  ASSUME LogType, NEW k \in Key
  PROVE  NextCommand(k) \subseteq Command
<1>1. log[k] \in Seq(Command)
  BY DEF LogType
<1> QED
  BY <1>1 DEF NextCommand

\* A command is taken.
LEMMA TakeType ==
  ASSUME LogType, NEW k \in Key, NEW c \in Command, Take(k, c), log' = log, dpos' = dpos
  PROVE  LogType'
BY DEF LogType, Take

\* An early return: nothing is done to the switch.
LEMMA AnswerStep ==
  ASSUME IInv, NEW k \in Key, NEW c \in Command, TakeAndAnswer(k, c),
         c.kind = "restore" => isolated[c.host] = None
  PROVE  IInv'
<1> USE DEF IInv, ExeInv, TakeAndAnswer, notExe, dlmVars, switchVars
<1>1. LogType' /\ DlmType'
  BY TakeType DEF DlmType
<1>2. ExeType'
  BY DEF ExeType, Answer, Command
<1>3. epc = "idle" /\ epc' = "idle" /\ job' = job
  BY DEF Take
<1>4. Underway' /\ Denied' /\ StaticHasMac' /\ MacRecordedOnce'
  BY <1>3 DEF Underway, Denied, StaticHasMac, MacRecordedOnce
<1>5. RestoredIsLetIn'
  BY <1>3 DEF RestoredIsLetIn, Denied, Answer, Command
<1> QED
  BY <1>1, <1>2, <1>4, <1>5

\* The conversation about an isolation begins.
LEMMA StartIsolateStep ==
  ASSUME IInv, NEW k \in Key, NEW c \in Command, NEW m \in Arp[c.host] \cup {NoMac},
         NEW static \in BOOLEAN, StartIsolate(k, c, m, static)
  PROVE  IInv'
<1> USE IsolationAssumption DEF IInv, ExeInv, StartIsolate, notExe, dlmVars, switchVars
<1>1. LogType' /\ DlmType'
  BY TakeType DEF DlmType
<1>2. epc = "idle" /\ epc' \in {"mac", "acl"} /\ (epc' = "mac" => static)
  BY DEF Take
<1>3. c.host \in Host /\ m \in Mac \cup {NoMac} /\ (static => m \in Mac)
  BY DEF Command
<1>4. /\ job' \in Job /\ job' # NoJob
      /\ job'.kind = "isolate" /\ job'.host = c.host /\ job'.mac = m /\ job'.static = static
  BY <1>3 DEF Job, NoJob
<1>5. ExeType'
  BY <1>2, <1>4 DEF ExeType
<1>6. Underway'
  BY <1>4 DEF Underway, MayIsolate, MacIsolated, CoolingDown
<1>7. Denied' /\ MacRecordedOnce' /\ RestoredIsLetIn'
  BY <1>2 DEF Denied, MacRecordedOnce, RestoredIsLetIn
<1>8. StaticHasMac'
  BY <1>2, <1>3, <1>4 DEF StaticHasMac
<1> QED
  BY <1>1, <1>5, <1>6, <1>7, <1>8

\* The conversation about a release begins.
LEMMA StartRestoreStep ==
  ASSUME IInv, NEW k \in Key, NEW c \in Command, StartRestore(k, c)
  PROVE  IInv'
<1> USE IsolationAssumption DEF IInv, ExeInv, StartRestore, notExe, dlmVars, switchVars
<1>1. LogType' /\ DlmType'
  BY TakeType DEF DlmType
<1>2. c.host \in Host /\ isolated[c.host] \in Entry
  BY DEF Command, ExeType
<1>3. epc = "idle" /\ epc' \in {"mac", "acl"} /\ (epc' = "mac" => isolated[c.host].static)
  BY <1>2 DEF Take, Entry
<1>4. /\ job' \in Job /\ job' # NoJob
      /\ job'.kind = "restore" /\ job'.host = c.host
      /\ job'.mac = isolated[c.host].mac /\ job'.static = isolated[c.host].static
  BY <1>2 DEF Job, NoJob, Entry
<1>5. ExeType'
  BY <1>3, <1>4 DEF ExeType
<1>6. Underway'
  BY <1>3, <1>4 DEF Underway
<1>7. Denied' /\ MacRecordedOnce' /\ RestoredIsLetIn'
  BY <1>3 DEF Denied, MacRecordedOnce, RestoredIsLetIn
<1>8. StaticHasMac'
  BY <1>2, <1>3, <1>4 DEF StaticHasMac
<1> QED
  BY <1>1, <1>5, <1>6, <1>7, <1>8

\* The switch gets the blackhole and then the entry of the access list.
LEMMA SendStep ==
  ASSUME IInv, SendMac \/ SendAcl
  PROVE  IInv'
<1> USE IsolationAssumption DEF IInv, ExeInv, notExe, dlmVars
<1>1. LogType' /\ DlmType'
  BY DEF SendMac, SendAcl, LogType, DlmType
<1>2. epc # "idle" /\ job' = job /\ answer = None /\ answer' = None /\ strays' = strays
  BY DEF SendMac, SendAcl, Underway
<1>3. CASE SendMac
  <2>1. blackholed' \subseteq Mac
    BY <1>2, <1>3 DEF SendMac, StaticHasMac, ExeType
  <2>2. ExeType'
    BY <1>2, <1>3, <2>1 DEF SendMac, ExeType
  <2>3. Underway' /\ Denied' /\ StaticHasMac' /\ MacRecordedOnce' /\ RestoredIsLetIn'
    BY <1>2, <1>3 DEF SendMac, Underway, Denied, StaticHasMac, MacRecordedOnce, RestoredIsLetIn,
                      MayIsolate, MacIsolated, CoolingDown
  <2> QED
    BY <1>1, <2>2, <2>3
<1>4. CASE SendAcl
  <2>1. job.host \in Host /\ AclOf[job.host] \in Acl /\ job.kind \in {"isolate", "restore"}
    BY <1>2, JobType
  <2>2. PICK e \in NewEntries(job) : acl' = [acl EXCEPT ![AclOf[job.host]] = e]
    BY <1>4 DEF SendAcl
  <2>3. /\ e \in {None, acl[AclOf[job.host]], job.host}
        /\ job.kind = "restore" => e = None
    BY <2>1, <2>2 DEF NewEntries
  <2>4. ExeType'
    BY <1>2, <1>4, <2>1, <2>2, <2>3 DEF SendAcl, ExeType
  <2>5. Underway'
    BY <1>2, <1>4, <2>1, <2>2, <2>3 DEF SendAcl, ExeType, Underway, MayIsolate, MacIsolated, CoolingDown
  <2>6. \A h \in Host : acl'[AclOf[h]] = h => acl[AclOf[h]] = h \/ (h = job.host /\ job.kind = "isolate")
    BY <2>1, <2>2, <2>3 DEF ExeType
  <2>7. Denied'
    BY <1>2, <1>4, <2>6 DEF SendAcl, Denied
  <2>8. StaticHasMac' /\ MacRecordedOnce' /\ RestoredIsLetIn'
    BY <1>2, <1>4 DEF SendAcl, StaticHasMac, MacRecordedOnce, RestoredIsLetIn
  <2> QED
    BY <1>1, <2>4, <2>5, <2>7, <2>8
<1> QED
  BY <1>3, <1>4

\* The answer to the command under way.
LEMMA DoneType ==
  ASSUME answer' = Answer(job, TRUE), job.kind \in {"isolate", "restore"}, job.host \in Host
  PROVE  /\ answer' \in [kind : {"isolate", "restore"}, host : Host, ok : BOOLEAN]
         /\ answer'.kind = job.kind /\ answer'.host = job.host
BY DEF Answer

\* The command is done, recorded and answered.
LEMMA FinishStep ==
  ASSUME IInv, Finish
  PROVE  IInv'
<1> USE IsolationAssumption DEF IInv, ExeInv, Finish, notExe, dlmVars, switchVars
<1> DEFINE done == [mac |-> job.mac, static |-> job.static]
<1>1. LogType' /\ DlmType'
  BY DEF LogType, DlmType
<1>2. /\ job.kind \in {"isolate", "restore"} /\ job.host \in Host
      /\ job.mac \in Mac \cup {NoMac} /\ job.static \in BOOLEAN
  BY JobType
<1>3. done \in Entry /\ done # None /\ done.mac = job.mac /\ done.static = job.static
  BY <1>2 DEF Entry
<1>4. /\ isolated' = [isolated EXCEPT ![job.host] = IF job.kind = "isolate" THEN done ELSE None]
      /\ epc' = "idle" /\ job' = NoJob /\ answer' = Answer(job, TRUE)
      /\ acl' = acl /\ strays' = strays
  BY <1>2 DEF Recorded
<1> HIDE DEF done
<1>5. cooldown' \in [Mac -> 0..Cooldown]
  BY <1>2 DEF ExeType
<1>6. ExeType'
  <2>1. isolated' \in [Host -> Entry \cup {None}]
    BY <1>2, <1>3, <1>4 DEF ExeType
  <2>2. answer' \in [kind : {"isolate", "restore"}, host : Host, ok : BOOLEAN]
    BY <1>2, <1>4, DoneType
  <2> QED
    BY <1>4, <1>5, <2>1, <2>2 DEF ExeType
<1>7. Denied' /\ RestoredIsLetIn'
  <2>1. \A h \in Host \ {job.host} : isolated'[h] = isolated[h]
    BY <1>2, <1>4 DEF ExeType
  <2>2. job.kind = "isolate" => isolated'[job.host] # None
    BY <1>2, <1>3, <1>4 DEF ExeType
  <2>3. job.kind = "restore" => acl[AclOf[job.host]] # job.host
    BY DEF Underway
  <2>4. Denied'
    BY <1>2, <1>4, <2>1, <2>2, <2>3 DEF Denied
  <2>5. answer'.kind = job.kind /\ answer'.host = job.host
    BY <1>2, <1>4, DoneType
  <2>6. RestoredIsLetIn'
    BY <1>2, <1>4, <2>3, <2>5 DEF RestoredIsLetIn
  <2> QED
    BY <2>4, <2>6
<1>8. StaticHasMac'
  BY <1>2, <1>3, <1>4 DEF ExeType, StaticHasMac
<1>9. MacRecordedOnce'
  BY <1>2, <1>3, <1>4 DEF ExeType, MacRecordedOnce, Underway, MayIsolate, MacIsolated
<1> QED
  BY <1>1, <1>4, <1>6, <1>7, <1>8, <1>9 DEF Underway

\* A broken session, a restart of either process, and time.
LEMMA FaultStep ==
  ASSUME IInv, SshFails \/ ExeCrash \/ DlmCrash \/ Tick
  PROVE  IInv'
<1> USE IsolationAssumption DEF IInv, ExeInv
<1>1. CASE SshFails
  <2> USE DEF SshFails, notExe, dlmVars, switchVars
  <2>1. LogType' /\ DlmType'
    BY <1>1 DEF LogType, DlmType
  <2>2. job.kind \in {"isolate", "restore"} /\ job.host \in Host
    BY <1>1, JobType
  <2>3. ExeType'
    BY <1>1, <2>2 DEF ExeType, AfterFailure, Answer
  <2>4. Denied' /\ RestoredIsLetIn'
    BY <1>1, <2>2 DEF Denied, RestoredIsLetIn, AfterFailure, Answer, ExeType
  <2>5. StaticHasMac' /\ MacRecordedOnce'
    BY <1>1, <2>2 DEF StaticHasMac, MacRecordedOnce, AfterFailure, Answer, ExeType
  <2>6. Underway'
    BY <1>1, <2>2 DEF Underway, AfterFailure, Answer, ExeType
  <2> QED
    BY <2>1, <2>3, <2>4, <2>5, <2>6
<1>2. CASE ExeCrash
  <2> USE DEF ExeCrash, dlmVars, switchVars
  <2>1. LogType' /\ DlmType'
    <3>1. PICK p \in [Key -> 0..MaxCommands] : ResumesAt(p) /\ epos' = p
      BY <1>2
    <3>2. /\ epos' \in [Key -> Nat]
          /\ \A k \in Key : epos'[k] <= epos[k] \/ epos'[k] = Len(log[k])
      BY <3>1 DEF ResumesAt
    <3>3. \A k \in Key : epos[k] \in Nat /\ epos[k] <= Len(log[k]) /\ Len(log[k]) \in Nat
      BY DEF LogType
    <3>4. \A k \in Key : epos'[k] <= Len(log[k])
      BY <3>2, <3>3
    <3>5. LogType'
      BY <1>2, <3>2, <3>4 DEF LogType
    <3>6. DlmType'
      BY <1>2 DEF DlmType
    <3> QED
      BY <3>5, <3>6
  <2>2. ExeType'
    BY <1>2 DEF ExeType
  <2>3. Denied' /\ RestoredIsLetIn' /\ StaticHasMac' /\ MacRecordedOnce' /\ Underway'
    BY <1>2 DEF Denied, RestoredIsLetIn, StaticHasMac, MacRecordedOnce, Underway
  <2> QED
    BY <2>1, <2>2, <2>3
<1>3. CASE DlmCrash
  <2> USE DEF DlmCrash, exeVars, switchVars
  <2>1. LogType' /\ DlmType'
    BY <1>3 DEF LogType, DlmType
  <2>2. ExeType'
    BY <1>3 DEF ExeType
  <2>3. Denied' /\ RestoredIsLetIn' /\ StaticHasMac' /\ MacRecordedOnce' /\ Underway'
    BY <1>3 DEF Denied, RestoredIsLetIn, StaticHasMac, MacRecordedOnce, Underway,
                MayIsolate, MacIsolated, CoolingDown
  <2> QED
    BY <2>1, <2>2, <2>3
<1>4. CASE Tick
  <2> USE DEF Tick, kafkaVars, dlmVars, switchVars, boundVars
  <2>1. LogType' /\ DlmType'
    BY <1>4 DEF LogType, DlmType
  <2>2. /\ cooldown' \in [Mac -> 0..Cooldown]
        /\ \A m \in Mac : cooldown'[m] > 0 => cooldown[m] > 0
    BY <1>4 DEF ExeType, Left
  <2>3. ExeType'
    BY <1>4, <2>2 DEF ExeType
  <2>4. Denied' /\ RestoredIsLetIn' /\ StaticHasMac' /\ MacRecordedOnce'
    BY <1>4 DEF Denied, RestoredIsLetIn, StaticHasMac, MacRecordedOnce
  <2>5. Underway'
    BY <1>4, <2>2 DEF Underway, MayIsolate, MacIsolated, CoolingDown
  <2> QED
    BY <2>1, <2>3, <2>4, <2>5
<1> QED
  BY <1>1, <1>2, <1>3, <1>4
-----------------------------------------------------------------------------
(* Every step, and the theorems.                                           *)

LEMMA StepInv == IInv /\ [Next]_vars => IInv'
<1> SUFFICES ASSUME IInv, [Next]_vars PROVE IInv'
  OBVIOUS
<1>1. CASE ManagerStep
  BY <1>1, ManagerStepInv
<1>2. ASSUME NEW k \in Key, NEW c \in Command,
             SkipTesting(k, c) \/ SkipIsolate(k, c) \/ SkipRestore(k, c)
      PROVE  IInv'
  <2>1. TakeAndAnswer(k, c) /\ (c.kind = "restore" => isolated[c.host] = None)
    BY <1>2 DEF SkipTesting, SkipIsolate, SkipRestore
  <2> QED
    BY <2>1, AnswerStep
<1>3. ASSUME NEW k \in Key, NEW c \in Command, NEW m \in Arp[c.host] \cup {NoMac},
             NEW static \in BOOLEAN, StartIsolate(k, c, m, static)
      PROVE  IInv'
  BY <1>3, StartIsolateStep
<1>4. ASSUME NEW k \in Key, NEW c \in Command, StartRestore(k, c) PROVE IInv'
  BY <1>4, StartRestoreStep
<1>5. CASE SendMac \/ SendAcl
  BY <1>5, SendStep
<1>6. CASE Finish
  BY <1>6, FinishStep
<1>7. CASE SshFails \/ ExeCrash \/ DlmCrash \/ Tick
  BY <1>7, FaultStep
<1>8. CASE UNCHANGED vars
  BY <1>8 DEF vars, kafkaVars, dlmVars, exeVars, switchVars, boundVars, IInv, LogType, DlmType,
              ExeInv, ExeType, Underway, Denied, StaticHasMac, MacRecordedOnce, RestoredIsLetIn,
              MayIsolate, MacIsolated, CoolingDown
<1>9. \A k \in Key : NextCommand(k) \subseteq Command
  BY NextCommandType DEF IInv
<1> QED
  BY <1>1, <1>2, <1>3, <1>4, <1>5, <1>6, <1>7, <1>8, <1>9 DEF Next, ManagerStep

LEMMA Invariance == Spec => []IInv
BY InitInv, StepInv, PTL DEF Spec

\* A machine is recorded as isolated under one address only (isolate_host).
THEOREM OneRecordPerMac == Spec => []MacRecordedOnce
<1>1. IInv => MacRecordedOnce
  BY DEF IInv, ExeInv
<1> QED
  BY <1>1, Invariance, PTL

\* Without a fault, the executor knows of every host that the switch denies.
THEOREM NoDenyIsForgotten == Spec => []OnlyFaultsLeaveStrays
<1>1. IInv => OnlyFaultsLeaveStrays
  BY DEF IInv, ExeInv, Denied, OnlyFaultsLeaveStrays
<1> QED
  BY <1>1, Invariance, PTL

\* A release that restore_host reports as executed lets the host in.
THEOREM ReleaseLetsIn == Spec => []RestoredIsLetIn
<1>1. IInv => RestoredIsLetIn
  BY DEF IInv, ExeInv
<1> QED
  BY <1>1, Invariance, PTL

-----------------------------------------------------------------------------
(* The cooldown, by the executor's table and on the wall.                  *)

\* What is left of a cooldown on the wall is in the table too, unless the machine
\* is one that the executor does not remember.
Wall ==
    /\ WallType
    /\ \A m \in Mac \ unremembered : protected[m] <= cooldown[m]

LEMMA WallInit == Init => Wall
BY IsolationAssumption DEF Init, Wall, WallType

\* A command done: a release that has a MAC enters the table and the wall's clock
\* together; an isolation clears a clock that had run out.
LEMMA WallFinish ==
  ASSUME IInv, Wall, Finish
  PROVE  Wall'
<1> USE IsolationAssumption
<1>1. job.kind \in {"isolate", "restore"} /\ job.host \in Host /\ job.mac \in Mac \cup {NoMac}
  BY JobType DEF Finish, IInv, ExeInv
<1>2. /\ cooldown \in [Mac -> 0..Cooldown] /\ protected \in [Mac -> 0..Cooldown]
      /\ unremembered \subseteq Mac /\ Cooldown \in Nat
  BY DEF IInv, ExeInv, ExeType, Wall, WallType
<1>3. Machine(job) \subseteq Mac /\ (job.mac # NoMac => Machine(job) = {job.mac})
  BY <1>1 DEF Machine
<1>4. CASE job.kind = "isolate"
  <2>1. protected' = protected /\ unremembered' = unremembered
    BY <1>4 DEF Finish, wallVars
  <2>2. job.mac \in Mac => cooldown[job.mac] = 0
    BY <1>2, <1>4 DEF Finish, IInv, ExeInv, Underway, MayIsolate, CoolingDown
  <2>3. \A m \in Mac : cooldown'[m] = cooldown[m]
    BY <1>1, <1>2, <1>4, <2>2 DEF Finish
  <2> QED
    BY <2>1, <2>3 DEF Wall, WallType
<1>5. CASE job.kind = "restore"
  <2>1. /\ protected' = [m \in Mac |-> IF m \in Machine(job) THEN Cooldown ELSE protected[m]]
        /\ unremembered' = IF job.mac = NoMac THEN unremembered \cup Machine(job)
                           ELSE unremembered \ Machine(job)
        /\ cooldown' = IF job.mac = NoMac THEN cooldown
                       ELSE [cooldown EXCEPT ![job.mac] = Cooldown]
    BY <1>5 DEF Finish
  <2>2. WallType'
    BY <1>2, <1>3, <2>1 DEF WallType
  <2>3. ASSUME NEW m \in Mac \ unremembered' PROVE protected'[m] <= cooldown'[m]
    <3>1. CASE m \in Machine(job)
      <4>1. job.mac # NoMac /\ m = job.mac
        BY <1>3, <2>1, <2>3, <3>1
      <4> QED
        BY <1>2, <2>1, <3>1, <4>1
    <3>2. CASE m \notin Machine(job)
      <4>1. m \notin unremembered /\ protected'[m] = protected[m] /\ cooldown'[m] = cooldown[m]
        BY <1>1, <1>2, <1>3, <2>1, <2>3, <3>2
      <4> QED
        BY <4>1 DEF Wall
    <3> QED
      BY <3>1, <3>2
  <2> QED
    BY <2>2, <2>3 DEF Wall
<1> QED
  BY <1>1, <1>4, <1>5

LEMMA WallStep ==
  ASSUME IInv, Wall, [Next]_vars
  PROVE  Wall'
<1> USE IsolationAssumption
<1>0. /\ cooldown \in [Mac -> 0..Cooldown] /\ protected \in [Mac -> 0..Cooldown]
      /\ unremembered \subseteq Mac /\ Cooldown \in Nat
  BY DEF IInv, ExeInv, ExeType, Wall, WallType
<1>1. CASE Finish
  BY <1>1, WallFinish
<1>2. CASE ExeCrash
  <2>1. /\ protected' = protected /\ cooldown' = [m \in Mac |-> 0]
        /\ unremembered' = unremembered \cup {m \in Mac : protected[m] > 0}
    BY <1>2 DEF ExeCrash
  <2> QED
    BY <1>0, <2>1 DEF Wall, WallType
<1>3. CASE Tick
  <2>1. /\ protected' = Left(protected) /\ cooldown' = Left(cooldown)
        /\ unremembered' = {m \in unremembered : protected'[m] > 0}
    BY <1>3 DEF Tick
  <2>2. /\ protected' \in [Mac -> 0..Cooldown]
        /\ \A m \in Mac : /\ protected'[m] \in Nat /\ cooldown'[m] \in Nat
                          /\ protected[m] <= cooldown[m] => protected'[m] <= cooldown'[m]
    BY <1>0, <2>1 DEF Left
  <2>3. \A m \in Mac \ unremembered' : m \notin unremembered \/ protected'[m] = 0
    BY <2>1, <2>2
  <2>4. ASSUME NEW m \in Mac, m \notin unremembered' PROVE protected'[m] <= cooldown'[m]
    <3>1. CASE m \notin unremembered
      BY <2>2, <3>1 DEF Wall
    <3>2. CASE protected'[m] = 0
      BY <2>2, <3>2
    <3> QED
      BY <2>3, <2>4, <3>1, <3>2
  <2>5. unremembered' \subseteq Mac
    BY <1>0, <2>1
  <2> QED
    BY <2>2, <2>4, <2>5 DEF Wall, WallType
<1>4. CASE ~Finish /\ ~ExeCrash /\ ~Tick
  <2>1. UNCHANGED <<cooldown, wallVars>>
    BY <1>4 DEF Next, AutoIsolate, AutoRecord, OperatorWrites, OperatorPublishes, HqIsolates,
                HandleSoar, DlmCrash, SkipTesting, SkipIsolate, SkipRestore, TakeAndAnswer,
                StartIsolate, StartRestore, SendMac, SendAcl, SshFails, notDlm, exeVars, vars
  <2> QED
    BY <2>1 DEF Wall, WallType, wallVars
<1> QED
  BY <1>1, <1>2, <1>3, <1>4

LEMMA WallInvariance == Spec => []Wall
BY WallInit, WallStep, Invariance, PTL DEF Spec

\* Variables keep their types, for any hosts, leases and access lists.
THEOREM IsolationTypeCorrect == Spec => []TypeOK
<1>1. IInv /\ Wall => TypeOK
  BY DEF IInv, ExeInv, Wall, TypeOK, LogType, DlmType, ExeType, WallType
<1> QED
  BY <1>1, Invariance, WallInvariance, PTL

\* soar_executor.py:33 on the wall's clock, for any leases, orders, restarts and
\* redeliveries: a machine is denied again during the cooldown of its release
\* only when the ARP lookup failed or when the executor does not remember the
\* release.
THEOREM CooldownHolds == Spec => OnlyUnknownIsReblocked
<1> DEFINE Step == \A m \in Mac : (Reblocks(m) /\ protected[m] > 0)
                                    => (job.mac = NoMac \/ m \in unremembered)
<1>1. IInv /\ Wall => Step
  <2> SUFFICES ASSUME IInv, Wall, NEW m \in Mac, Reblocks(m), protected[m] > 0,
                      job.mac # NoMac, m \notin unremembered
               PROVE  FALSE
    OBVIOUS
  <2>1. job.kind = "isolate" /\ epc # "idle" /\ m = job.mac
    BY DEF Reblocks, Machine
  <2>2. MayIsolate(job.host, m)
    BY <2>1 DEF IInv, ExeInv, Underway
  <2>3. cooldown[m] \in 0..Cooldown /\ protected[m] \in 0..Cooldown
    BY DEF IInv, ExeInv, ExeType, Wall, WallType
  <2>4. cooldown[m] = 0
    BY <2>2, <2>3, IsolationAssumption DEF MayIsolate, CoolingDown
  <2> QED
    BY <2>3, <2>4, IsolationAssumption DEF Wall
<1> QED
  BY <1>1, Invariance, WallInvariance, PTL DEF OnlyUnknownIsReblocked
-----------------------------------------------------------------------------
(* The dictionary of the dashboard.                                        *)

\* Commands travel under the key of their target, those of HQ under one key.
Keyed ==
    /\ \A h \in Host : \A i \in 1..Len(log[h]) : log[h][i].host = h
    /\ \A i \in 1..Len(log[HqKey]) : log[HqKey][i].host \in Name

\* No call for h is between its write and its publication, and the consumer has
\* read every command for h.
CaughtUp(h) == /\ \A t \in Thread : calls[t] = None \/ calls[t].host # h
               /\ dpos[h] = Len(log[h])

\* The alert thread need not have recorded: until it does, its publication
\* speaks for it.
Agreed ==
    \A h \in Host \ (Infra \cup Name) :
        (CaughtUp(h) /\ Len(log[h]) > 0 /\ h \notin overtaken)
            => (h \in hosts <=> log[h][Len(log[h])] = Isolate(h))

Books == Keyed /\ Agreed

\* A command for h is one of two.
LEMMA TwoCommands ==
  ASSUME NEW c \in Command
  PROVE  /\ c = Isolate(c.host) \/ c = Restore(c.host)
         /\ c = Isolate(c.host) <=> c.kind = "isolate"
         /\ \A h : Isolate(h) # Restore(h)
BY DEF Command, Isolate, Restore

\* The last command for h.
LEMMA LastCommand ==
  ASSUME LogType, Keyed, NEW h \in Host, Len(log[h]) > 0
  PROVE  /\ log[h][Len(log[h])] \in Command
         /\ log[h][Len(log[h])].host = h
<1>1. log[h] \in Seq(Command) /\ Len(log[h]) \in 1..Len(log[h])
  BY DEF LogType, Key
<1>2. log[h][Len(log[h])] \in Command
  BY <1>1
<1> QED
  BY <1>1, <1>2 DEF Keyed

LEMMA BooksInit == Init => Books
BY IsolationAssumption DEF Init, Books, Keyed, Agreed, Key

\* A publication leaves the consumer something to read.
LEMMA PublishBooks ==
  ASSUME LogType, Books, NEW k \in Key, NEW c \in Command, Publish(k, c), dpos' = dpos,
         k = c.host \/ (k = HqKey /\ c.host \in Name),
         hosts' = hosts, overtaken' = overtaken,
         \A h \in Host : k # h /\ CaughtUp(h)' => CaughtUp(h)
  PROVE  Books'
<1> USE IsolationAssumption
<1>1. /\ log' = [log EXCEPT ![k] = Append(@, c)] /\ log[k] \in Seq(Command)
      /\ \A q \in Key \ {k} : log'[q] = log[q]
      /\ log'[k] = Append(log[k], c)
  BY DEF Publish, LogType
<1>2. /\ Len(log'[k]) = Len(log[k]) + 1 /\ Len(log[k]) \in Nat
      /\ \A i \in 1..Len(log[k]) : log'[k][i] = log[k][i]
      /\ log'[k][Len(log[k]) + 1] = c
  BY <1>1
<1>3. \A i \in 1..Len(log'[k]) : i \in 1..Len(log[k]) \/ i = Len(log[k]) + 1
  BY <1>2
<1>4. Host \subseteq Key /\ HqKey \in Key /\ HqKey \notin Host /\ c.host \in Host
  BY DEF Key, Command
<1>5. Keyed'
  <2>1. ASSUME NEW h \in Host, NEW i \in 1..Len(log'[h]) PROVE log'[h][i].host = h
    <3>1. CASE h = k
      BY <1>2, <1>3, <1>4, <2>1, <3>1 DEF Books, Keyed
    <3>2. CASE h # k
      BY <1>1, <1>4, <2>1, <3>2 DEF Books, Keyed
    <3> QED
      BY <3>1, <3>2
  <2>2. ASSUME NEW i \in 1..Len(log'[HqKey]) PROVE log'[HqKey][i].host \in Name
    <3>1. CASE HqKey = k
      BY <1>2, <1>3, <1>4, <2>2, <3>1 DEF Books, Keyed
    <3>2. CASE HqKey # k
      BY <1>1, <1>4, <2>2, <3>2 DEF Books, Keyed
    <3> QED
      BY <3>1, <3>2
  <2> QED
    BY <2>1, <2>2 DEF Keyed
<1>6. Agreed'
  <2>1. ~CaughtUp(k)'
    <3>1. dpos[k] <= Len(log[k]) /\ dpos[k] \in Nat
      BY DEF LogType
    <3> QED
      BY <1>2, <3>1 DEF CaughtUp
  <2>2. \A h \in Host \ {k} : log'[h] = log[h]
    BY <1>1, <1>4
  <2> QED
    BY <2>1, <2>2 DEF Books, Agreed
<1> QED
  BY <1>5, <1>6 DEF Books

\* Steps of other processes.
LEMMA QuietBooks ==
  ASSUME Books, UNCHANGED <<log, dpos, hosts, calls, overtaken>>
  PROVE  Books'
BY DEF Books, Keyed, Agreed, CaughtUp

LEMMA BooksStep ==
  ASSUME IInv, Books, [Next]_vars
  PROVE  Books'
<1> USE IsolationAssumption
<1>0. LogType /\ DlmType
  BY DEF IInv
<1>1. ASSUME NEW h \in Alerted, AutoIsolate(h) PROVE Books'
  <2>1. h \in Key /\ Isolate(h) \in Command /\ Isolate(h).host = h
    BY DEF Key, Command, Isolate
  <2>2. \A g \in Host : h # g /\ CaughtUp(g)' => CaughtUp(g)
    <3>1. \A g \in Host \ {h} : log'[g] = log[g]
      BY <1>0, <1>1, <2>1 DEF AutoIsolate, Publish, LogType, Key
    <3> QED
      BY <1>1, <3>1 DEF AutoIsolate, CaughtUp
  <2> QED
    BY <1>0, <1>1, <2>1, <2>2, PublishBooks DEF AutoIsolate
<1>2. CASE AutoRecord
  <2> DEFINE last == log[recording][Len(log[recording])]
  <2>1. /\ recording \in Host /\ hosts' = hosts \cup {recording}
        /\ UNCHANGED <<log, dpos, calls>>
        /\ overtaken' = IF last = Restore(recording) THEN overtaken \cup {recording} ELSE overtaken
    BY <1>0, <1>2 DEF AutoRecord, DlmType
  <2>2. \A h \in Host : CaughtUp(h)' <=> CaughtUp(h)
    BY <2>1 DEF CaughtUp
  <2>3. ASSUME Len(log[recording]) > 0, recording \notin overtaken'
        PROVE  last = Isolate(recording)
    <3>1. last \in Command /\ last.host = recording
      BY <1>0, <2>1, <2>3, LastCommand DEF Books
    <3> QED
      BY <2>1, <2>3, <3>1, TwoCommands
  <2>4. Agreed'
    <3> SUFFICES ASSUME NEW h \in Host \ (Infra \cup Name),
                        CaughtUp(h)', Len(log'[h]) > 0, h \notin overtaken'
                 PROVE  h \in hosts' <=> log'[h][Len(log'[h])] = Isolate(h)
      BY DEF Agreed
    <3>1. CASE h = recording
      BY <2>1, <2>3, <3>1
    <3>2. CASE h # recording
      BY <2>1, <2>2, <3>2 DEF Books, Agreed
    <3> QED
      BY <3>1, <3>2
  <2> QED
    BY <2>1, <2>4 DEF Books, Keyed
<1>3. ASSUME NEW t \in Thread, NEW h \in Asked, NEW c \in {Isolate(h), Restore(h)},
             OperatorWrites(t, c)
      PROVE  Books'
  <2>1. c.host = h /\ h \in Host /\ c # None
    <3>1. h \in Host
      OBVIOUS
    <3>2. c \in Command /\ c.host = h
      BY <3>1 DEF Command, Isolate, Restore
    <3> QED
      BY <3>1, <3>2, NoneIsNoCommand
  <2>2. /\ UNCHANGED <<log, dpos, overtaken>>
        /\ calls[t] = None /\ calls' = [calls EXCEPT ![t] = c]
        /\ \A g \in Host \ {h} : g \in hosts' <=> g \in hosts
    BY <1>3, <2>1 DEF OperatorWrites, WriteHosts
  <2>3. calls'[t] = c /\ \A u \in Thread \ {t} : calls'[u] = calls[u]
    BY <1>0, <2>2 DEF DlmType
  <2>4. ~CaughtUp(h)' /\ \A g \in Host \ {h} : CaughtUp(g)' => CaughtUp(g)
    BY <2>1, <2>2, <2>3 DEF CaughtUp
  <2> QED
    BY <2>2, <2>4 DEF Books, Agreed, Keyed
<1>4. ASSUME NEW t \in Thread, OperatorPublishes(t) PROVE Books'
  <2>1. calls[t] \in Command /\ calls[t].host \in Host /\ calls[t].host \in Key
    BY <1>0, <1>4 DEF OperatorPublishes, DlmType, Command, Key
  <2>2. \A g \in Host : calls[t].host # g /\ CaughtUp(g)' => CaughtUp(g)
    <3>1. \A g \in Host \ {calls[t].host} : log'[g] = log[g]
      BY <1>0, <1>4, <2>1 DEF OperatorPublishes, Publish, LogType, Key
    <3>2. dpos' = dpos /\ \A u \in Thread \ {t} : calls'[u] = calls[u]
      BY <1>0, <1>4 DEF OperatorPublishes, DlmType
    <3> QED
      BY <3>1, <3>2 DEF CaughtUp
  <2> QED
    BY <1>0, <1>4, <2>1, <2>2, PublishBooks DEF OperatorPublishes
<1>5. ASSUME NEW n \in Name, HqIsolates(n) PROVE Books'
  <2>1. HqKey \in Key /\ Isolate(n) \in Command /\ Isolate(n).host = n
    BY DEF Key, Command, Isolate
  <2>2. \A g \in Host : HqKey # g /\ CaughtUp(g)' => CaughtUp(g)
    <3>1. \A g \in Host : log'[g] = log[g]
      BY <1>0, <1>5, <2>1 DEF HqIsolates, Publish, LogType, Key
    <3> QED
      BY <1>5, <3>1 DEF HqIsolates, CaughtUp, dlmVars
  <2> QED
    BY <1>0, <1>5, <2>1, <2>2, PublishBooks DEF HqIsolates, dlmVars
<1>6. ASSUME NEW k \in Key, HandleSoar(k) PROVE Books'
  <2> DEFINE c == log[k][dpos[k] + 1]
  <2>1. /\ UNCHANGED <<log, calls>> /\ dpos' = [dpos EXCEPT ![k] = @ + 1]
        /\ hosts' = IF Obeys(c) THEN WriteHosts(c) ELSE hosts
        /\ overtaken' = overtaken \ {c.host}
        /\ dpos[k] < Len(log[k])
    BY <1>6 DEF HandleSoar
  <2>2. log[k] \in Seq(Command) /\ dpos[k] + 1 \in 1..Len(log[k]) /\ c \in Command
    BY <1>0, <2>1 DEF LogType
  <2>3. IF k = HqKey THEN c.host \in Name ELSE k \in Host /\ c.host = k
    BY <2>2 DEF Books, Keyed, Key
  <2>4. /\ dpos'[k] = dpos[k] + 1
        /\ \A h \in Host \ {k} : dpos'[h] = dpos[h]
    BY <1>0, <2>1 DEF LogType, Key
  <2> HIDE DEF c
  <2>5. Agreed'
    <3> SUFFICES ASSUME NEW h \in Host \ (Infra \cup Name),
                        CaughtUp(h)', Len(log'[h]) > 0, h \notin overtaken'
                 PROVE  h \in hosts' <=> log'[h][Len(log'[h])] = Isolate(h)
      BY DEF Agreed
    <3>1. CASE h = k
      <4>1. c.host = h /\ Obeys(c)
        BY <2>3, <3>1 DEF Obeys
      <4>2. h \in hosts' <=> c.kind = "isolate"
        BY <2>1, <2>2, <4>1 DEF WriteHosts, Command
      <4>3. c = log[h][Len(log[h])]
        BY <2>1, <2>4, <3>1 DEF CaughtUp, c
      <4> QED
        BY <2>1, <2>2, <4>1, <4>2, <4>3, TwoCommands
    <3>2. CASE h # k
      <4>1. c.host # h
        BY <2>3, <3>2
      <4>2. (h \in hosts' <=> h \in hosts) /\ (h \in overtaken' <=> h \in overtaken)
        BY <2>1, <4>1 DEF WriteHosts
      <4>3. CaughtUp(h)
        BY <2>1, <2>4, <3>2 DEF CaughtUp
      <4> QED
        BY <2>1, <4>2, <4>3 DEF Books, Agreed
    <3> QED
      BY <3>1, <3>2
  <2> QED
    BY <2>1, <2>5 DEF Books, Keyed
<1>7. CASE DlmCrash
  BY <1>7 DEF DlmCrash, Books, Keyed, Agreed
<1>8. ASSUME NEW k \in Key, NEW c \in Command,
             \/ SkipTesting(k, c) \/ SkipIsolate(k, c) \/ SkipRestore(k, c)
             \/ \E m \in Arp[c.host] \cup {NoMac}, static \in BOOLEAN :
                   StartIsolate(k, c, m, static)
             \/ StartRestore(k, c)
      PROVE  Books'
  <2>1. UNCHANGED notExe
    BY <1>8 DEF SkipTesting, SkipIsolate, SkipRestore, TakeAndAnswer, StartIsolate, StartRestore
  <2> QED
    BY <2>1, QuietBooks DEF notExe, dlmVars
<1>9. CASE SendMac \/ SendAcl \/ Finish \/ SshFails \/ ExeCrash \/ Tick \/ UNCHANGED vars
  <2>1. UNCHANGED <<log, dpos, dlmVars, overtaken>>
    BY <1>9 DEF SendMac, SendAcl, Finish, SshFails, ExeCrash, Tick, notExe, kafkaVars, vars
  <2> QED
    BY <2>1, QuietBooks DEF dlmVars
<1>10. \A k \in Key : NextCommand(k) \subseteq Command
  BY <1>0, NextCommandType
<1> QED
  BY <1>1, <1>2, <1>3, <1>4, <1>5, <1>6, <1>7, <1>8, <1>9, <1>10 DEF Next

\* Once the soar consumer has caught up, the dashboard's dictionary agrees with
\* the last command published for a host, an automatic isolation recorded after
\* the host's release aside (_handle_escalation, handle_soar_command).
THEOREM DashboardCatchesUp == Spec => []BookkeepingSettles
<1>1. Books => BookkeepingSettles
  BY DEF Books, Agreed, CaughtUp, BookkeepingSettles, Settled
<1>2. Spec => []Books
  BY BooksInit, BooksStep, Invariance, PTL DEF Spec
<1> QED
  BY <1>1, <1>2, PTL
=============================================================================
