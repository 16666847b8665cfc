----------------------------- MODULE DoorAccess -----------------------------
(***************************************************************************)
(* A door of the physical access tier.  Three programs share a few files   *)
(* in /tmp of one Raspberry Pi and a few Kafka topics:                     *)
(*                                                                         *)
(*   - door_process.py: the main thread runs handle_card for each swipe    *)
(*     and waits for the camera's grant; the thread soar_listener locks    *)
(*     the door and blocks cards; memory is lost when the process dies;    *)
(*   - camera_agent_headless.py: reads the announced swipe, recognises the *)
(*     face and writes the grant;                                          *)
(*   - pac_eda_agent: relays a denial for a wrong face as block_card.      *)
(*                                                                         *)
(* Every access to a file or to a variable two threads share is a step of  *)
(* its own.  Times are ages in ticks, counted up to the largest limit the  *)
(* code compares them with.  LDAP and the fallback table appear as Owner,  *)
(* which does not change.                                                  *)
(***************************************************************************)
EXTENDS Naturals, FiniteSets

CONSTANTS
    Card, Person,
    NoCard,             \* card uid 0 of the camera's session
    NoPerson,           \* None
    Owner,              \* Owner[c]: whose card c is; NoPerson for unknown ones
    VerifyTimeout,      \* FACE_VERIFY_TIMEOUT of the door
    RfidTimeout,        \* RFID_TIMEOUT of the camera
    MismatchWindow,     \* the "rem < 3" of the camera
    GrantLife,          \* the 30 seconds of read_face_grant
    Debounce,           \* DEBOUNCE_SEC
    UnlockTime,         \* UNLOCK_SEC
    ConfirmInsider,     \* CONFIRM_INSIDER
    MaxCrashes,         \* bound: how often the door process dies
    MaxCommands         \* bound: operators' commands on soar.commands

ASSUME DoorAssumption ==
    /\ Owner \in [Card -> Person \cup {NoPerson}]
    /\ NoCard \notin Card /\ NoPerson \notin Person
    /\ {VerifyTimeout, RfidTimeout, MismatchWindow, GrantLife, Debounce,
        UnlockTime, ConfirmInsider, MaxCrashes, MaxCommands} \subseteq Nat
    /\ VerifyTimeout > 0 /\ UnlockTime > 0 /\ ConfirmInsider > 0

VARIABLES
    \* door_process, main thread
    dpc,            \* the next operation of handle_card
    card,           \* the card it handles
    granted,        \* its local "granted"
    timer,          \* ticks since its wait or the opening began
    last,           \* last_uid, and how long ago last_uid_time is
    \* door_process, shared with soar_listener
    doorLocked, blockedMem,
    \* soar_listener
    lpc,            \* "idle", or "writing" the file of blocked cards
    buffer,         \* the list of cards about to be written
    \* the door and the files
    open, rfidFile, grantFile, blockedFile,
    \* camera agent
    cpc, session, insider, looking,
    \* Kafka
    denials,        \* card uids of insider_threat_detected events, on their way
                    \* to the door as block_card commands
    \* bounds and history
    crashes, commands,
    verified,       \* owners the camera granted since the latest announcement
    ordered,        \* cards whose block was carried out and not lifted
    torn            \* a crash interrupted a write of the file of blocked cards

doorVars   == <<dpc, card, granted, timer, last>>
sharedVars == <<doorLocked, blockedMem>>
soarVars   == <<lpc, buffer>>
camVars    == <<cpc, session, insider, looking>>
boundVars  == <<crashes, commands>>
vars == <<doorVars, sharedVars, soarVars, open, rfidFile, grantFile,
          blockedFile, camVars, denials, boundVars, verified, ordered, torn>>

\* What the steps of handle_card, of soar_listener and of the camera agent never
\* touch.
notDoor == <<sharedVars, soarVars, blockedFile, camVars, denials, boundVars,
             ordered, torn>>
notSoar == <<doorVars, rfidFile, grantFile, camVars, crashes, verified, torn>>
notCam  == <<doorVars, sharedVars, soarVars, open, blockedFile, boundVars,
             ordered, torn>>

Uid == Card \cup {NoCard}

\* An age is counted up to the limit it is compared with.
Older(age, limit) == IF age < limit THEN age + 1 ELSE age

NoSwipe == [person |-> NoPerson, card |-> NoCard, age |-> 0, adopted |-> TRUE]
NoGrant == [person |-> NoPerson, age |-> GrantLife]
NoSession == [person |-> NoPerson, age |-> 0, uid |-> NoCard]

DoorPCs == {"idle", "checking", "announcing", "clearing", "waiting",
            "decided", "undoing", "acting", "open", "down", "booting"}

\* The type invariant.
TypeOK ==
    /\ dpc \in DoorPCs /\ card \in Uid /\ granted \in BOOLEAN
    /\ timer \in 0..(VerifyTimeout + UnlockTime)
    /\ last \in [uid : Uid, age : 0..Debounce]
    /\ doorLocked \in BOOLEAN /\ blockedMem \subseteq Card
    /\ lpc \in {"idle", "writing"} /\ buffer \subseteq Card
    /\ open \in BOOLEAN
    /\ rfidFile \in [person : Person \cup {NoPerson}, card : Uid,
                     age : 0..RfidTimeout, adopted : BOOLEAN]
    /\ grantFile \in [person : Person \cup {NoPerson}, age : 0..GrantLife]
    /\ blockedFile \in [readable : BOOLEAN, cards : SUBSET Card]
    /\ cpc \in {"reading", "looking"} /\ insider \in 0..(ConfirmInsider - 1)
    /\ session \in [person : Person \cup {NoPerson}, age : 0..RfidTimeout, uid : Uid]
    /\ looking \in 0..1
    /\ denials \subseteq Uid
    /\ crashes \in 0..MaxCrashes /\ commands \in 0..MaxCommands
    /\ verified \subseteq Person /\ ordered \subseteq Card /\ torn \in BOOLEAN

Init ==
    /\ dpc = "idle" /\ card = NoCard /\ granted = FALSE /\ timer = 0
    /\ last = [uid |-> NoCard, age |-> 0]
    /\ doorLocked = FALSE /\ blockedMem = {}
    /\ lpc = "idle" /\ buffer = {}
    /\ open = FALSE
    /\ rfidFile = NoSwipe /\ grantFile = NoGrant
    /\ blockedFile = [readable |-> TRUE, cards |-> {}]
    /\ cpc = "reading" /\ session = NoSession /\ insider = 0 /\ looking = 0
    /\ denials = {}
    /\ crashes = 0 /\ commands = 0
    /\ verified = {} /\ ordered = {} /\ torn = FALSE

Up == dpc \notin {"down", "booting"}

\* handle_card returns: its locals are gone.
Return == dpc' = "idle" /\ card' = NoCard /\ granted' = FALSE /\ timer' = 0

\* json.load of the file of blocked cards; an unreadable one counts as empty.
BlockedOnDisk == IF blockedFile.readable THEN blockedFile.cards ELSE {}

\* open(..., "w") truncates the file; json.dump fills it in a later step.
Truncate == blockedFile' = [readable |-> FALSE, cards |-> {}]
Fill     == blockedFile' = [readable |-> TRUE, cards |-> buffer]

\* A command of an operator: nothing in the code bounds them.
Command == commands < MaxCommands /\ commands' = commands + 1

\* pub_pac_event(session_uid, "denied", ...), write_face_grant(..., False),
\* which reads like no grant, and the end of the session.
Deny ==
    /\ denials' = denials \cup {session.uid}
    /\ grantFile' = NoGrant
    /\ session' = NoSession

\* A plausible bug: read_face_grant looks at "granted" and the time only.
Accepts_Anyone == grantFile.person # NoPerson /\ grantFile.age < GrantLife

\* read_face_grant(name of the card's owner)
Accepts == grantFile.person = Owner[card] /\ grantFile.age < GrantLife

-----------------------------------------------------------------------------
(* Plausible bugs, which no action below uses.                             *)

\* block_card writes the new card instead of adding it to the list.
StartBlock_Overwrites(u) ==
    /\ Up /\ lpc = "idle"
    /\ \/ u \in denials /\ denials' = denials \ {u} /\ UNCHANGED commands
       \/ u \in Card /\ Command /\ UNCHANGED denials
    /\ blockedMem' = blockedMem \cup ({u} \cap Card)
    /\ buffer' = {u} \cap Card
    /\ Truncate
    /\ lpc' = "writing"
    /\ ordered' = ordered \cup ({u} \cap Card)
    /\ UNCHANGED <<notSoar, doorLocked, open>>

\* handle_card waits for a grant without a deadline.
EndWait_NoTimeout ==
    /\ dpc = "waiting"
    /\ Accepts
    /\ granted' = TRUE /\ timer' = 0
    /\ dpc' = "decided"
    /\ UNCHANGED <<notDoor, card, last, open, rfidFile, grantFile, verified>>

\* The count of wrong faces is not reset by a denial.
SeeOther_NoReset ==
    /\ cpc = "looking" /\ cpc' = "reading"
    /\ insider' = insider + 1
    /\ IF insider + 1 >= ConfirmInsider
       THEN Deny
       ELSE UNCHANGED <<denials, grantFile, session>>
    /\ UNCHANGED <<notCam, looking, rfidFile, verified>>

-----------------------------------------------------------------------------
(* handle_card, in the main thread of the door process                     *)

\* The main loop reads a card, drops it if it is the latest one again, and
\* handle_card looks at the lock.
Swipe(c) ==
    /\ dpc = "idle"
    /\ last.uid = c => last.age >= Debounce
    /\ last' = [uid |-> c, age |-> 0]
    /\ IF doorLocked
       THEN UNCHANGED <<dpc, card>>
       ELSE dpc' = "checking" /\ card' = c
    /\ UNCHANGED <<notDoor, granted, timer, open, rfidFile, grantFile, verified>>

\* A blocked card is denied, an unknown one clears the announcement.
CheckBlocked ==
    /\ dpc = "checking"
    /\ IF card \in blockedMem \cup BlockedOnDisk
       THEN Return /\ UNCHANGED rfidFile
       ELSE IF Owner[card] = NoPerson
       THEN Return /\ rfidFile' = NoSwipe
       ELSE dpc' = "announcing" /\ UNCHANGED <<card, granted, timer, rfidFile>>
    /\ UNCHANGED <<notDoor, last, open, grantFile, verified>>

\* write_rfid_state tells the camera whose face to expect ...
Announce ==
    /\ dpc = "announcing"
    /\ rfidFile' = [person |-> Owner[card], card |-> card, age |-> 0, adopted |-> FALSE]
    /\ verified' = {}
    /\ dpc' = "clearing"
    /\ UNCHANGED <<notDoor, card, granted, timer, last, open, grantFile>>

\* ... and clear_face_grant forgets grants of earlier swipes.
StartWait ==
    /\ dpc = "clearing"
    /\ grantFile' = NoGrant
    /\ dpc' = "waiting"
    /\ UNCHANGED <<notDoor, card, granted, timer, last, open, rfidFile, verified>>

\* The loop ends with a grant for the owner of the card, or without one.
EndWait ==
    /\ dpc = "waiting"
    /\ Accepts \/ timer >= VerifyTimeout
    /\ granted' = Accepts /\ timer' = 0
    /\ dpc' = "decided"
    /\ UNCHANGED <<notDoor, card, last, open, rfidFile, grantFile, verified>>

ClearSwipe ==
    /\ dpc = "decided"
    /\ rfidFile' = NoSwipe
    /\ dpc' = "undoing"
    /\ UNCHANGED <<notDoor, card, granted, timer, last, open, grantFile, verified>>

ClearGrant ==
    /\ dpc = "undoing"
    /\ grantFile' = NoGrant
    /\ dpc' = "acting"
    /\ UNCHANGED <<notDoor, card, granted, timer, last, open, rfidFile, verified>>

\* _unlock, or the denial, which is the end of the swipe.
Act ==
    /\ dpc = "acting"
    /\ IF granted
       THEN open' = TRUE /\ dpc' = "open" /\ UNCHANGED <<card, granted, timer, last>>
       ELSE Return /\ last' = [last EXCEPT !.age = 0] /\ UNCHANGED open
    /\ UNCHANGED <<notDoor, rfidFile, grantFile, verified>>

\* time.sleep(UNLOCK_SEC) and _lock
Relock ==
    /\ dpc = "open" /\ timer >= UnlockTime
    /\ open' = FALSE
    /\ Return /\ last' = [last EXCEPT !.age = 0]
    /\ UNCHANGED <<notDoor, rfidFile, grantFile, verified>>

-----------------------------------------------------------------------------
(* soar_listener                                                           *)

LockDoor ==
    /\ Up /\ lpc = "idle" /\ Command
    /\ doorLocked' = TRUE
    /\ open' = FALSE
    /\ UNCHANGED <<notSoar, blockedMem, soarVars, blockedFile, denials, ordered>>

\* block_card: memory first, then the file is read, truncated ...  Uid 0 is on
\* no card and is left out of the lists.
StartBlock(u) ==
    /\ Up /\ lpc = "idle"
    /\ \/ u \in denials /\ denials' = denials \ {u} /\ UNCHANGED commands
       \/ u \in Card /\ Command /\ UNCHANGED denials
    /\ blockedMem' = blockedMem \cup ({u} \cap Card)
    /\ buffer' = BlockedOnDisk \cup ({u} \cap Card)
    /\ Truncate
    /\ lpc' = "writing"
    /\ ordered' = ordered \cup ({u} \cap Card)
    /\ UNCHANGED <<notSoar, doorLocked, open>>

\* unblock_card.  It would give up on a file it cannot read, but the listener
\* finds the file whole: main() rewrote it before it started the thread.
StartUnblock(u) ==
    /\ Up /\ lpc = "idle" /\ Command
    /\ blockedMem' = blockedMem \ {u}
    /\ ordered' = ordered \ {u}
    /\ buffer' = blockedFile.cards \ {u}
    /\ Truncate
    /\ lpc' = "writing"
    /\ UNCHANGED <<notSoar, doorLocked, open, denials>>

\* ... and written.
EndWrite ==
    /\ Up /\ lpc = "writing"
    /\ Fill
    /\ lpc' = "idle" /\ buffer' = {}
    /\ UNCHANGED <<doorVars, sharedVars, open, rfidFile, grantFile, camVars, denials,
                   boundVars, verified, ordered, torn>>

-----------------------------------------------------------------------------
(* The camera agent                                                        *)

\* get_rfid_state returns an announcement that is not too old.
Announced == rfidFile.person # NoPerson /\ rfidFile.age < RfidTimeout

\* The session after the announcement was read.  A new person's card uid is
\* not taken over (session_uid = session_uid), only that of a second swipe.
Adopted ==
    IF Announced /\ rfidFile.person # session.person
    THEN [session EXCEPT !.person = rfidFile.person, !.age = rfidFile.age]
    ELSE IF Announced /\ ~rfidFile.adopted
    THEN [session EXCEPT !.age = rfidFile.age, !.uid = rfidFile.card]
    ELSE session

\* The first half of an iteration: read the announcement, drop an expired
\* session, and if one is left look at the face.
CamRead ==
    /\ cpc = "reading"
    /\ Announced \/ session.person # NoPerson
    /\ rfidFile' = IF Announced THEN [rfidFile EXCEPT !.adopted = TRUE] ELSE rfidFile
    /\ LET s == Adopted
           active == s.person # NoPerson /\ s.age < RfidTimeout
       IN /\ session' = IF s.person # NoPerson /\ ~active THEN NoSession ELSE s
          /\ cpc' = IF active THEN "looking" ELSE "reading"
    /\ insider' = IF Announced /\ rfidFile.person # session.person THEN 0 ELSE insider
    /\ looking' = 0
    /\ UNCHANGED <<notCam, grantFile, denials, verified>>

\* No face, a tailgater in the picture, or a face that is not matched yet.
SeeNothing ==
    /\ cpc = "looking" /\ cpc' = "reading"
    /\ UNCHANGED <<notCam, session, insider, looking, rfidFile, grantFile, denials, verified>>

\* The face of the expected person: grant.  session_uid survives.
SeeOwner ==
    /\ cpc = "looking" /\ cpc' = "reading"
    /\ grantFile' = [person |-> session.person, age |-> 0]
    /\ verified' = verified \cup {session.person}
    /\ session' = [session EXCEPT !.person = NoPerson, !.age = 0]
    /\ insider' = 0
    /\ UNCHANGED <<notCam, looking, rfidFile, denials>>

\* The face of someone else: CONFIRM_INSIDER of them make a denial.
SeeOther ==
    /\ cpc = "looking" /\ cpc' = "reading"
    /\ IF insider + 1 >= ConfirmInsider
       THEN Deny /\ insider' = 0
       ELSE insider' = insider + 1 /\ UNCHANGED <<denials, grantFile, session>>
    /\ UNCHANGED <<notCam, looking, rfidFile, verified>>

\* A face nobody knows, when the session is about to expire: face_mismatch.
SeeUnknown ==
    /\ cpc = "looking" /\ cpc' = "reading"
    /\ session.age + MismatchWindow > RfidTimeout
    /\ Deny
    /\ UNCHANGED <<notCam, insider, looking, rfidFile, verified>>

-----------------------------------------------------------------------------
(* Time, death and restart                                                 *)

\* The door polls its files ten times a second and a look at a face takes less
\* than a tick, so no tick passes over a step that is due.
Tick ==
    /\ dpc \in {"idle", "down", "waiting", "open"}
    /\ dpc = "waiting" => ~Accepts /\ timer < VerifyTimeout
    /\ dpc = "open" => timer < UnlockTime
    /\ cpc = "looking" => looking = 0
    /\ timer' = IF dpc \in {"waiting", "open"} THEN timer + 1 ELSE timer
    /\ last' = [last EXCEPT !.age = Older(@, Debounce)]
    /\ rfidFile' = IF rfidFile.person = NoPerson THEN rfidFile
                   ELSE [rfidFile EXCEPT !.age = Older(@, RfidTimeout)]
    /\ grantFile' = [grantFile EXCEPT !.age = Older(@, GrantLife)]
    /\ session' = IF session.person = NoPerson THEN session
                  ELSE [session EXCEPT !.age = Older(@, RfidTimeout)]
    /\ looking' = IF cpc = "looking" THEN 1 ELSE looking
    /\ UNCHANGED <<dpc, card, granted, sharedVars, soarVars, open, blockedFile, cpc,
                   insider, denials, boundVars, verified, ordered, torn>>

\* The process is killed: its memory is gone, files and topics stay.  An open
\* door stays open.
Crash ==
    /\ dpc # "down" /\ crashes < MaxCrashes
    /\ crashes' = crashes + 1
    /\ torn' = (torn \/ lpc = "writing" \/ dpc = "booting")
    /\ dpc' = "down" /\ card' = NoCard /\ granted' = FALSE /\ timer' = 0
    /\ last' = [uid |-> NoCard, age |-> 0]
    /\ doorLocked' = FALSE /\ blockedMem' = {}
    /\ lpc' = "idle" /\ buffer' = {}
    /\ UNCHANGED <<open, rfidFile, grantFile, blockedFile, camVars, denials,
                   commands, verified, ordered>>

\* main() locks the door, recreates the files of the camera, and reads and
\* rewrites the file of blocked cards ...
Boot ==
    /\ dpc = "down"
    /\ open' = FALSE
    /\ rfidFile' = NoSwipe /\ grantFile' = NoGrant
    /\ buffer' = BlockedOnDisk
    /\ Truncate
    /\ dpc' = "booting"
    /\ UNCHANGED <<card, granted, timer, last, sharedVars, lpc, camVars, denials,
                   boundVars, verified, ordered, torn>>

\* ... and only then starts the listener and the loop.
EndBoot ==
    /\ dpc = "booting"
    /\ Fill
    /\ blockedMem' = buffer /\ buffer' = {}
    /\ dpc' = "idle"
    /\ UNCHANGED <<card, granted, timer, last, doorLocked, lpc, open, rfidFile,
                   grantFile, camVars, denials, boundVars, verified, ordered, torn>>

DoorStep == \/ CheckBlocked \/ Announce \/ StartWait \/ EndWait \/ ClearSwipe
            \/ ClearGrant \/ Act \/ Relock \/ Boot \/ EndBoot

CameraLook == SeeNothing \/ SeeOwner \/ SeeOther \/ SeeUnknown

Next ==
    \/ \E c \in Card : Swipe(c) \/ StartUnblock(c)
    \/ \E u \in Uid : StartBlock(u)
    \/ DoorStep \/ LockDoor \/ EndWrite \/ CamRead \/ CameraLook \/ Tick \/ Crash

\* Threads that can run do, docker restarts the container (restart:
\* unless-stopped), and time goes on whatever the threads do.  The door polls
\* the grant often enough to see one that keeps coming back.  No card is ever
\* swiped for sure.
Fairness ==
    /\ SF_vars(DoorStep) /\ SF_vars(Tick)
    /\ WF_vars(EndWrite) /\ WF_vars(CameraLook)

Spec == Init /\ [][Next]_vars

FairSpec == Spec /\ Fairness

-----------------------------------------------------------------------------
(* Properties                                                              *)

\* The door opens only for a card whose owner the camera recognised after this
\* very swipe was announced: no grant of an earlier swipe, for another person
\* or from before a restart opens it.
OpensForVerifiedOwner ==
    [][~open /\ open' => Owner[card] \in verified]_vars

\* A card whose block was carried out is not let through to the camera, not
\* even after restarts, unless a crash tore the file while it was written.
BlockOutlivesRestart ==
    [][dpc = "checking" /\ dpc' = "announcing" => card \notin ordered \/ torn]_vars

\* Every swipe comes to an end, and the door is shut when it does.
SwipeEnds == dpc # "idle" ~> dpc = "idle" /\ ~open

\* What the listener reports of lock_door: "Door LOCKED permanently".
LockIsPermanent ==
    [][doorLocked => ~(~open /\ open')]_vars

\* What the camera promises of a wrong face: "block the card".
DenialNamesTheCard ==
    [][\A u \in denials' \ denials : u \in Card /\ Owner[u] = session.person]_vars
=============================================================================
