-------------------------- MODULE DoorAccessProofs --------------------------
(***************************************************************************)
(* The two promises of the door, proved for any cards, owners, timeouts,   *)
(* crashes and commands.                                                   *)
(*                                                                         *)
(* Sound follows a recognised face from the camera to the lock: the grant  *)
(* file, then the local variable of handle_card.  Kept follows a blocked   *)
(* card through the rewriting of its file: it is in memory and in the      *)
(* file, or in the list about to be written.                               *)
(***************************************************************************)
EXTENDS DoorAccess, TLAPS

\* The variables in four parts.
DoorType ==
    /\ dpc \in DoorPCs /\ card \in Uid /\ granted \in BOOLEAN
    /\ timer \in 0..(VerifyTimeout + UnlockTime)
    /\ last \in [uid : Uid, age : 0..Debounce]
    /\ open \in BOOLEAN

SoarType ==
    /\ doorLocked \in BOOLEAN /\ blockedMem \subseteq Card
    /\ lpc \in {"idle", "writing"} /\ buffer \subseteq Card
    /\ blockedFile \in [readable : BOOLEAN, cards : SUBSET Card]
    /\ ordered \subseteq Card

CamType ==
    /\ rfidFile \in [person : Person \cup {NoPerson}, card : Uid,
                     age : 0..RfidTimeout, adopted : BOOLEAN]
    /\ grantFile \in [person : Person \cup {NoPerson}, age : 0..GrantLife]
    /\ cpc \in {"reading", "looking"} /\ insider \in 0..(ConfirmInsider - 1)
    /\ session \in [person : Person \cup {NoPerson}, age : 0..RfidTimeout, uid : Uid]
    /\ looking \in 0..1
    /\ denials \subseteq Uid
    /\ verified \subseteq Person

BoundType == crashes \in 0..MaxCrashes /\ commands \in 0..MaxCommands /\ torn \in BOOLEAN

\* Who may be behind a grant.
Sound ==
    /\ dpc = "checking" => card \in Card
    /\ dpc \in {"announcing", "clearing", "waiting", "decided", "undoing", "acting"}
          => card \in Card /\ Owner[card] \in Person
    /\ dpc = "waiting" /\ grantFile.person # NoPerson => grantFile.person \in verified
    /\ dpc \in {"decided", "undoing", "acting"} /\ granted => Owner[card] \in verified
    /\ cpc = "looking" => session.person \in Person

\* Where a blocked card is.
Kept ==
    /\ ~Up => lpc = "idle"
    /\ ~torn =>
        /\ Up => ordered \subseteq blockedMem
        /\ dpc = "booting" \/ lpc = "writing" => ordered \subseteq buffer
        /\ dpc # "booting" /\ lpc = "idle" => blockedFile.readable /\ ordered \subseteq blockedFile.cards

IInv == DoorType /\ SoarType /\ CamType /\ BoundType /\ Sound /\ Kept

\* Empty files and sessions, and ages.
LEMMA NoneType ==
  /\ NoSwipe \in [person : Person \cup {NoPerson}, card : Uid, age : 0..RfidTimeout, adopted : BOOLEAN]
  /\ NoGrant \in [person : Person \cup {NoPerson}, age : 0..GrantLife] /\ NoGrant.person = NoPerson
  /\ NoSession \in [person : Person \cup {NoPerson}, age : 0..RfidTimeout, uid : Uid]
BY DoorAssumption DEF NoSwipe, NoGrant, NoSession, Uid

LEMMA ZeroType ==
  /\ 0 \in 0..(VerifyTimeout + UnlockTime) /\ 0 \in 0..Debounce
  /\ 0 \in 0..MaxCrashes /\ 0 \in 0..MaxCommands
  /\ NoCard \in Uid
BY DoorAssumption DEF Uid

LEMMA OlderType ==
  ASSUME NEW limit \in Nat, NEW age \in 0..limit
  PROVE  Older(age, limit) \in 0..limit
BY DEF Older

\* The initial state.
LEMMA InitInv == Init => IInv
<1> SUFFICES ASSUME Init PROVE IInv
  OBVIOUS
<1> USE DoorAssumption DEF Init, Uid
<1>1. DoorType /\ SoarType /\ BoundType
  <2>1. /\ last \in [uid : Uid, age : 0..Debounce]
        /\ blockedFile \in [readable : BOOLEAN, cards : SUBSET Card]
    BY ZeroType
  <2>2. DoorType
    BY <2>1, ZeroType, Zenon DEF DoorType, DoorPCs
  <2>3. SoarType
    BY <2>1, Zenon DEF SoarType
  <2>4. BoundType
    BY ZeroType, Zenon DEF BoundType
  <2> QED
    BY <2>2, <2>3, <2>4
<1>2. CamType
  <2>1. 0 \in 0..(ConfirmInsider - 1) /\ 0 \in 0..1
    OBVIOUS
  <2> QED
    BY <2>1, NoneType DEF CamType
<1>3. Sound /\ Kept
  BY DEF Sound, Kept, Up
<1> QED
  BY <1>1, <1>2, <1>3 DEF IInv

-----------------------------------------------------------------------------
(* The main thread of the door.                                            *)

\* What it leaves alone.
LEMMA NotDoorKept ==
  ASSUME IInv, UNCHANGED notDoor, Up, Up'
  PROVE  SoarType' /\ BoundType' /\ Kept'
BY DEF IInv, notDoor, sharedVars, soarVars, camVars, boundVars, SoarType, BoundType, Kept, Up

LEMMA DoorThreadStep ==
  ASSUME IInv,
         \/ \E c \in Card : Swipe(c)
         \/ CheckBlocked \/ Announce \/ StartWait \/ EndWait
         \/ ClearSwipe \/ ClearGrant \/ Act \/ Relock
  PROVE  IInv'
<1> USE DoorAssumption DEF IInv
<1>1. ASSUME NEW c \in Card, Swipe(c) PROVE IInv'
  <2>1. SoarType' /\ BoundType' /\ Kept'
    BY <1>1, NotDoorKept DEF Swipe, Up
  <2>2. DoorType' /\ CamType' /\ Sound'
    BY <1>1 DEF Swipe, DoorType, CamType, Sound, DoorPCs, Uid, notDoor, camVars
  <2> QED
    BY <2>1, <2>2
<1>2. CASE CheckBlocked
  <2>1. SoarType' /\ BoundType' /\ Kept'
    BY <1>2, NotDoorKept DEF CheckBlocked, Return, Up
  <2>2. CamType'
    BY <1>2, NoneType DEF CheckBlocked, CamType, notDoor, camVars
  <2>3. CASE Return
    <3>1. last' = last /\ open' = open
      BY <1>2 DEF CheckBlocked
    <3>2. DoorType'
      BY <2>3, <3>1, ZeroType, Zenon DEF Return, DoorType, DoorPCs
    <3>3. Sound'
      BY <1>2, <2>3 DEF CheckBlocked, Return, Sound, notDoor, camVars
    <3> QED
      BY <2>1, <2>2, <3>2, <3>3
  <2>4. CASE ~Return
    <3>1. /\ dpc = "checking" /\ dpc' = "announcing" /\ Owner[card] # NoPerson
          /\ UNCHANGED <<card, granted, timer, last, open>>
      BY <1>2, <2>4 DEF CheckBlocked
    <3>2. card \in Card /\ Owner[card] \in Person /\ UNCHANGED <<cpc, session>>
      BY <1>2, <3>1 DEF CheckBlocked, Sound, notDoor, camVars
    <3> QED
      BY <2>1, <2>2, <3>1, <3>2 DEF DoorType, Sound, DoorPCs
  <2> QED
    BY <2>3, <2>4
<1>3. CASE Announce
  <2>1. SoarType' /\ BoundType' /\ Kept'
    BY <1>3, NotDoorKept DEF Announce, Up
  <2>2. DoorType' /\ Sound'
    BY <1>3 DEF Announce, DoorType, Sound, DoorPCs, notDoor, camVars
  <2>3. rfidFile' \in [person : Person \cup {NoPerson}, card : Uid, age : 0..RfidTimeout, adopted : BOOLEAN]
    BY <1>3 DEF Announce, Sound, Uid
  <2>4. CamType'
    BY <1>3, <2>3 DEF Announce, CamType, notDoor, camVars
  <2> QED
    BY <2>1, <2>2, <2>4
<1>4. CASE StartWait
  <2>1. SoarType' /\ BoundType' /\ Kept'
    BY <1>4, NotDoorKept DEF StartWait, Up
  <2>2. DoorType' /\ Sound' /\ CamType'
    BY <1>4, NoneType DEF StartWait, DoorType, Sound, DoorPCs, CamType, notDoor, camVars
  <2> QED
    BY <2>1, <2>2
<1>5. CASE EndWait
  <2>1. SoarType' /\ BoundType' /\ Kept'
    BY <1>5, NotDoorKept DEF EndWait, Up
  <2>2. Accepts \in BOOLEAN
    BY DEF Accepts
  <2>3. DoorType' /\ CamType'
    BY <1>5, <2>2 DEF EndWait, DoorType, DoorPCs, CamType, notDoor, camVars
  <2>4. Accepts => Owner[card] \in verified
    BY <1>5 DEF EndWait, Accepts, Sound
  <2>5. Sound'
    BY <1>5, <2>4 DEF EndWait, Sound, notDoor, camVars
  <2> QED
    BY <2>1, <2>3, <2>5
<1>6. CASE ClearSwipe \/ ClearGrant
  <2>1. SoarType' /\ BoundType' /\ Kept'
    BY <1>6, NotDoorKept DEF ClearSwipe, ClearGrant, Up
  <2>2. DoorType' /\ CamType' /\ Sound'
    BY <1>6, NoneType DEF ClearSwipe, ClearGrant, DoorType, Sound, DoorPCs, CamType, notDoor, camVars
  <2> QED
    BY <2>1, <2>2
<1>7. CASE Act \/ Relock
  <2>1. SoarType' /\ BoundType' /\ Kept'
    BY <1>7, NotDoorKept DEF Act, Relock, Return, Up
  <2>2. last' \in [uid : Uid, age : 0..Debounce]
    BY <1>7 DEF Act, Relock, DoorType
  <2>3. DoorType'
    <3>1. CASE Act /\ granted
      BY <2>2, <3>1 DEF Act, DoorType, DoorPCs
    <3>2. CASE Return /\ open' \in {FALSE, open}
      BY <2>2, <3>2, ZeroType DEF Return, DoorType, DoorPCs
    <3> QED
      BY <1>7, <3>1, <3>2 DEF Act, Relock
  <2>4. Sound' /\ CamType'
    BY <1>7 DEF Act, Relock, Return, Sound, CamType, notDoor, camVars
  <2> QED
    BY <2>1, <2>3, <2>4
<1> QED
  BY <1>1, <1>2, <1>3, <1>4, <1>5, <1>6, <1>7

-----------------------------------------------------------------------------
(* soar_listener.                                                          *)

LEMMA ListenerStep ==
  ASSUME IInv,
         \/ \E c \in Card : StartUnblock(c)
         \/ \E u \in Uid : StartBlock(u)
         \/ LockDoor \/ EndWrite
  PROVE  IInv'
<1> USE DoorAssumption DEF IInv, notSoar, doorVars, camVars
<1>1. ASSUME NEW c \in Card, StartUnblock(c) PROVE IInv'
  <2>1. DoorType' /\ CamType' /\ BoundType'
    BY <1>1 DEF StartUnblock, Command, DoorType, CamType, BoundType
  <2>2. SoarType'
    BY <1>1 DEF StartUnblock, Truncate, SoarType
  <2>3. Sound' /\ Kept'
    BY <1>1 DEF StartUnblock, Sound, Kept, Up
  <2> QED
    BY <2>1, <2>2, <2>3
<1>2. ASSUME NEW u \in Uid, StartBlock(u) PROVE IInv'
  <2>1. DoorType' /\ CamType' /\ BoundType'
    BY <1>2 DEF StartBlock, Command, DoorType, CamType, BoundType
  <2>2. SoarType'
    BY <1>2 DEF StartBlock, Truncate, SoarType, BlockedOnDisk
  <2>3. Sound' /\ Kept'
    BY <1>2 DEF StartBlock, Sound, Kept, Up, BlockedOnDisk
  <2> QED
    BY <2>1, <2>2, <2>3
<1>3. CASE LockDoor
  <2> USE DEF soarVars
  <2>1. DoorType' /\ CamType' /\ BoundType'
    <3>1. commands' \in 0..MaxCommands
      BY <1>3 DEF LockDoor, Command, BoundType
    <3>2. DoorType' /\ CamType'
      BY <1>3 DEF LockDoor, DoorType, CamType
    <3> QED
      BY <1>3, <3>1, <3>2 DEF LockDoor, BoundType
  <2>2. SoarType'
    BY <1>3 DEF LockDoor, SoarType
  <2>3. Sound' /\ Kept'
    BY <1>3 DEF LockDoor, Sound, Kept, Up
  <2> QED
    BY <2>1, <2>2, <2>3
<1>4. CASE EndWrite
  <2> USE DEF sharedVars, boundVars
  <2>1. DoorType' /\ CamType' /\ BoundType'
    BY <1>4 DEF EndWrite, DoorType, CamType, BoundType
  <2>2. SoarType'
    BY <1>4 DEF EndWrite, Fill, SoarType
  <2>3. Sound' /\ Kept'
    BY <1>4 DEF EndWrite, Fill, Sound, Kept, Up
  <2> QED
    BY <2>1, <2>2, <2>3
<1> QED
  BY <1>1, <1>2, <1>3, <1>4
-----------------------------------------------------------------------------
(* The camera agent.                                                       *)

\* What it leaves alone.
LEMMA NotCamKept ==
  ASSUME IInv, UNCHANGED notCam
  PROVE  DoorType' /\ SoarType' /\ BoundType' /\ Kept'
<1> USE DEF IInv, notCam, doorVars, sharedVars, soarVars, boundVars
<1>1. DoorType'
  BY DEF DoorType
<1>2. SoarType' /\ BoundType' /\ Kept'
  BY DEF SoarType, BoundType, Kept, Up
<1> QED
  BY <1>1, <1>2

SessionType == [person : Person \cup {NoPerson}, age : 0..RfidTimeout, uid : Uid]

LEMMA AdoptedType ==
  ASSUME CamType
  PROVE  Adopted \in SessionType
<1> USE DEF CamType, SessionType
<1>1. [session EXCEPT !.person = rfidFile.person, !.age = rfidFile.age] \in SessionType
  OBVIOUS
<1>2. [session EXCEPT !.age = rfidFile.age, !.uid = rfidFile.card] \in SessionType
  OBVIOUS
<1> QED
  BY <1>1, <1>2 DEF Adopted

LEMMA CameraStep ==
  ASSUME IInv, CamRead \/ CameraLook
  PROVE  IInv'
<1> USE DoorAssumption DEF IInv
<1>1. DoorType' /\ SoarType' /\ BoundType' /\ Kept'
  BY NotCamKept DEF CamRead, CameraLook, SeeNothing, SeeOwner, SeeOther, SeeUnknown
<1>2. CASE CamRead
  <2>1. session' \in SessionType /\ session' \in {NoSession, Adopted}
    BY <1>2, AdoptedType, NoneType DEF CamRead, SessionType
  <2>2. cpc' = "looking" => session'.person # NoPerson
    BY <1>2 DEF CamRead
  <2>3. /\ rfidFile' \in [person : Person \cup {NoPerson}, card : Uid,
                          age : 0..RfidTimeout, adopted : BOOLEAN]
        /\ insider' \in 0..(ConfirmInsider - 1) /\ looking' \in 0..1
    <3>1. [rfidFile EXCEPT !.adopted = TRUE]
             \in [person : Person \cup {NoPerson}, card : Uid, age : 0..RfidTimeout, adopted : BOOLEAN]
      BY DEF CamType
    <3>2. 0 \in 0..(ConfirmInsider - 1) /\ 0 \in 0..1
      OBVIOUS
    <3> QED
      BY <1>2, <3>1, <3>2, Zenon DEF CamRead, CamType
  <2>4. cpc' \in {"reading", "looking"} /\ UNCHANGED <<grantFile, denials, verified>>
    BY <1>2 DEF CamRead
  <2>5. CamType'
    BY <2>1, <2>3, <2>4 DEF CamType, SessionType
  <2>6. Sound'
    BY <1>2, <2>1, <2>2, <2>4 DEF CamRead, notCam, doorVars, Sound, SessionType
  <2> QED
    BY <1>1, <2>5, <2>6
<1>3. CASE Deny /\ insider' \in 0..(ConfirmInsider - 1) /\ cpc' = "reading"
           /\ UNCHANGED <<notCam, looking, rfidFile, verified>>
  <2>1. denials' \subseteq Uid
    BY <1>3 DEF Deny, CamType
  <2>2. CamType'
    BY <1>3, <2>1, NoneType DEF Deny, CamType
  <2>3. Sound'
    BY <1>3, NoneType DEF Deny, Sound, notCam, doorVars
  <2> QED
    BY <1>1, <2>2, <2>3
<1>4. CASE SeeOwner
  <2>1. session.person \in Person
    BY <1>4 DEF SeeOwner, Sound
  <2>2. /\ grantFile' \in [person : Person \cup {NoPerson}, age : 0..GrantLife]
        /\ grantFile'.person = session.person
    BY <1>4, <2>1 DEF SeeOwner
  <2>3. session' \in SessionType
    <3>1. 0 \in 0..RfidTimeout
      OBVIOUS
    <3>2. [session EXCEPT !.person = NoPerson, !.age = 0] \in SessionType
      BY <3>1 DEF CamType, SessionType
    <3> QED
      BY <1>4, <3>2 DEF SeeOwner
  <2>4. CamType'
    BY <1>4, <2>1, <2>2, <2>3 DEF SeeOwner, CamType, SessionType
  <2>5. Sound'
    BY <1>4, <2>2 DEF SeeOwner, Sound, notCam, doorVars
  <2> QED
    BY <1>1, <2>4, <2>5
<1>5. CASE cpc' = "reading" /\ insider' \in 0..(ConfirmInsider - 1)
           /\ UNCHANGED <<notCam, session, looking, rfidFile, grantFile, denials, verified>>
  BY <1>1, <1>5 DEF CamType, Sound, notCam, doorVars
<1>6. CameraLook => SeeOwner \/ SeeNothing \/ SeeOther \/ SeeUnknown
  BY DEF CameraLook
<1>7. CASE SeeNothing
  BY <1>5, <1>7 DEF SeeNothing, CamType
<1>8. CASE SeeUnknown
  BY <1>3, <1>8 DEF SeeUnknown, CamType
<1>9. CASE SeeOther
  <2>1. CASE insider + 1 >= ConfirmInsider
    BY <1>3, <1>9, <2>1 DEF SeeOther, CamType
  <2>2. CASE ~(insider + 1 >= ConfirmInsider)
    BY <1>5, <1>9, <2>2 DEF SeeOther, CamType
  <2> QED
    BY <2>1, <2>2
<1> QED
  BY <1>2, <1>4, <1>6, <1>7, <1>8, <1>9

-----------------------------------------------------------------------------
(* Time, death and restart.                                                *)

LEMMA TickStep ==
  ASSUME IInv, Tick
  PROVE  IInv'
<1> USE DoorAssumption DEF IInv, Tick
<1>1. /\ timer' \in 0..(VerifyTimeout + UnlockTime)
      /\ last' \in [uid : Uid, age : 0..Debounce]
  <2>1. Older(last.age, Debounce) \in 0..Debounce
    BY OlderType DEF DoorType
  <2>2. last' \in [uid : Uid, age : 0..Debounce]
    BY <2>1 DEF DoorType
  <2>3. timer' \in 0..(VerifyTimeout + UnlockTime)
    BY DEF DoorType
  <2> QED
    BY <2>2, <2>3
<1>2. DoorType'
  BY <1>1 DEF DoorType
<1>3. SoarType' /\ BoundType' /\ Kept'
  BY DEF sharedVars, soarVars, boundVars, SoarType, BoundType, Kept, Up
<1>4. /\ rfidFile' \in [person : Person \cup {NoPerson}, card : Uid,
                        age : 0..RfidTimeout, adopted : BOOLEAN]
      /\ session' \in [person : Person \cup {NoPerson}, age : 0..RfidTimeout, uid : Uid]
      /\ session'.person = session.person
  <2>1. Older(rfidFile.age, RfidTimeout) \in 0..RfidTimeout
    BY OlderType DEF CamType
  <2>2. Older(session.age, RfidTimeout) \in 0..RfidTimeout
    BY OlderType DEF CamType
  <2> QED
    BY <2>1, <2>2 DEF CamType
<1>5. /\ grantFile' \in [person : Person \cup {NoPerson}, age : 0..GrantLife]
      /\ grantFile'.person = grantFile.person
  <2>1. Older(grantFile.age, GrantLife) \in 0..GrantLife
    BY OlderType DEF CamType
  <2> QED
    BY <2>1 DEF CamType
<1>6. CamType'
  BY <1>4, <1>5 DEF CamType
<1>7. Sound'
  BY <1>4, <1>5 DEF Sound
<1> QED
  BY <1>2, <1>3, <1>6, <1>7

LEMMA CrashStep ==
  ASSUME IInv, Crash \/ Boot \/ EndBoot
  PROVE  IInv'
<1> USE DoorAssumption DEF IInv, camVars, sharedVars, boundVars
<1>1. CASE Crash
  <2> USE DEF Crash
  <2>1. last' \in [uid : Uid, age : 0..Debounce] /\ timer' \in 0..(VerifyTimeout + UnlockTime)
    BY <1>1, ZeroType
  <2>2. DoorType'
    BY <1>1, <2>1, ZeroType DEF DoorType, DoorPCs
  <2>3. crashes' \in 0..MaxCrashes
    BY <1>1 DEF BoundType
  <2>4. BoundType' /\ SoarType' /\ CamType'
    BY <1>1, <2>3 DEF BoundType, SoarType, CamType
  <2>5. Sound'
    BY <1>1 DEF Sound
  <2>6. Kept'
    BY <1>1 DEF Kept, Up, SoarType
  <2> QED
    BY <2>2, <2>4, <2>5, <2>6
<1>2. CASE Boot
  <2> USE DEF Boot, Truncate
  <2>1. DoorType' /\ BoundType'
    BY <1>2 DEF DoorType, DoorPCs, BoundType
  <2>2. SoarType'
    BY <1>2 DEF SoarType, BlockedOnDisk
  <2>3. CamType'
    BY <1>2, NoneType DEF CamType
  <2>4. Sound'
    BY <1>2 DEF Sound
  <2>5. Kept'
    BY <1>2 DEF Kept, Up, BlockedOnDisk
  <2> QED
    BY <2>1, <2>2, <2>3, <2>4, <2>5
<1>3. CASE EndBoot
  <2> USE DEF EndBoot, Fill
  <2>1. DoorType' /\ BoundType' /\ CamType'
    BY <1>3 DEF DoorType, DoorPCs, BoundType, CamType
  <2>2. SoarType'
    BY <1>3 DEF SoarType
  <2>3. Sound'
    BY <1>3 DEF Sound
  <2>4. Kept'
    BY <1>3 DEF Kept, Up
  <2> QED
    BY <2>1, <2>2, <2>3, <2>4
<1> QED
  BY <1>1, <1>2, <1>3

-----------------------------------------------------------------------------
(* Every step, and the theorems.                                           *)

LEMMA StepInv == IInv /\ [Next]_vars => IInv'
<1> SUFFICES ASSUME IInv, [Next]_vars PROVE IInv'
  OBVIOUS
<1>1. CASE UNCHANGED vars
  <2> USE <1>1 DEF vars, IInv, doorVars, sharedVars, soarVars, camVars, boundVars
  <2>1. DoorType' /\ SoarType' /\ BoundType'
    BY DEF DoorType, SoarType, BoundType
  <2>2. CamType'
    BY DEF CamType
  <2>3. Sound' /\ Kept'
    BY DEF Sound, Kept, Up
  <2> QED
    BY <2>1, <2>2, <2>3
<1> QED
  BY <1>1, DoorThreadStep, ListenerStep, CameraStep, TickStep, CrashStep DEF Next, DoorStep

LEMMA DoorInvariance == Spec => []IInv
BY InitInv, StepInv, PTL DEF Spec

\* Variables keep their types, for any cards, owners, timeouts and crashes.
THEOREM DoorTypeCorrect == Spec => []TypeOK
<1>1. IInv => TypeOK
  BY DEF IInv, DoorType, SoarType, CamType, BoundType, TypeOK
<1> QED
  BY <1>1, DoorInvariance, PTL

\* The door opens only after the camera recognised the owner of the very card in
\* this swipe (handle_card, read_face_grant, clear_face_grant).
THEOREM OnlyTheOwnerOpens == Spec => OpensForVerifiedOwner
<1>1. IInv /\ [Next]_vars => [~open /\ open' => Owner[card] \in verified]_vars
  <2> SUFFICES ASSUME IInv, Next, ~open, open' PROVE Owner[card] \in verified
    OBVIOUS
  <2>1. CASE Act
    BY <2>1 DEF Act, IInv, Sound
  <2>2. CASE ~Act
    <3>1. open' = open \/ open' = FALSE
      BY <2>2 DEF Next, DoorStep, CameraLook, Swipe, CheckBlocked, Announce, StartWait, EndWait,
                  ClearSwipe, ClearGrant, Relock, Boot, EndBoot, LockDoor, StartBlock,
                  StartUnblock, EndWrite, CamRead, SeeNothing, SeeOwner, SeeOther, SeeUnknown,
                  Tick, Crash, notSoar, notCam
    <3> QED
      BY <3>1
  <2> QED
    BY <2>1, <2>2
<1> QED
  BY <1>1, DoorInvariance, PTL DEF Spec, OpensForVerifiedOwner

\* A block outlives restarts, unless a crash tears the file (block_card,
\* unblock_card, main).
THEOREM BlockSurvives == Spec => BlockOutlivesRestart
<1>1. IInv /\ [Next]_vars =>
        [dpc = "checking" /\ dpc' = "announcing" => card \notin ordered \/ torn]_vars
  <2> SUFFICES ASSUME IInv, Next, dpc = "checking", dpc' = "announcing", ~torn
               PROVE  card \notin ordered
    OBVIOUS
  <2>1. CASE CheckBlocked
    <3>1. card \notin blockedMem
      BY <2>1 DEF CheckBlocked, Return
    <3> QED
      BY <3>1 DEF IInv, Kept, Up
  <2>2. CASE ~CheckBlocked
    <3>1. dpc' = dpc \/ dpc' # "announcing" \/ dpc # "checking"
      BY <2>2 DEF Next, DoorStep, CameraLook, Swipe, Announce, StartWait, EndWait,
                  ClearSwipe, ClearGrant, Act, Relock, Return, Boot, EndBoot, LockDoor, StartBlock,
                  StartUnblock, EndWrite, CamRead, SeeNothing, SeeOwner, SeeOther, SeeUnknown,
                  Tick, Crash, notSoar, notCam, doorVars
    <3> QED
      BY <3>1
  <2> QED
    BY <2>1, <2>2
<1> QED
  BY <1>1, DoorInvariance, PTL DEF Spec, BlockOutlivesRestart
=============================================================================
