----------------------------- MODULE CardEvents -----------------------------
(***************************************************************************)
(* The event-driven agent of physical access (pac_eda_agent/main(1).py).   *)
(* handle_event keeps three small tables per card: the latest swipes, the  *)
(* latest denials, and when each reader saw the card last.  Tampering and  *)
(* a face that is not the owner's end the handler early; the other checks  *)
(* run one after the other, and their alerts are published together.       *)
(* Times are ages in ticks.                                                *)
(***************************************************************************)
EXTENDS Deques, FiniteSets

CONSTANTS
    Events,         \* sets of events: what doors and cameras send in one behaviour
    TailWindow,     \* TAILGATE_WINDOW_SEC
    BruteWindow,    \* BRUTE_FORCE_WINDOW
    Threshold,      \* BRUTE_FORCE_THRESHOLD
    CloneGap,       \* the 3 seconds of _detect_badge_clone
    Kept,           \* maxlen of the deques
    NotYet,
    MaxEvents       \* bound: events of one tick

VARIABLES
    events,         \* the events that may come, one of Events
    swipes,         \* swipes[c]: _card_events, ages of the swipes that await a face
    denied,         \* denied[c]: _denied_events
    readers,        \* readers[c]: _reader_map, as [reader, age]
    issued,         \* the alerts of the latest event
    command,        \* the card the latest event had blocked, or NotYet
    came,           \* bound
    \* history
    refused,        \* refused[c]: ages of all denials within the window
    reported        \* reported[c]: age of the latest brute_force_badge_attempt

cardVars == <<events, swipes, denied, readers, issued, command, came, refused, reported>>

CardAssumption ==
    /\ {TailWindow, BruteWindow, CloneGap} \subseteq Nat
    /\ Threshold \in Nat \ {0} /\ Kept \in Nat \ {0} /\ Threshold <= Kept
    /\ NotYet \notin 0..BruteWindow

Card == {e.card : e \in UNION Events}
Within(s, window) == Cardinality({i \in DOMAIN s : s[i].age <= window})

\* What the handler appends before it checks anything.
Now == [age |-> 0]
Stamped(s) == Push(s, Now, Kept)
Swipes(e) == IF e.access = "pending" THEN Stamped(swipes[e.card]) ELSE swipes[e.card]
Denials(e) == IF e.access = "denied" THEN Stamped(denied[e.card]) ELSE denied[e.card]

\* _detect_tailgating: the swipe before the latest one is recent.
Tailgating(e) == Len(Swipes(e)) > 1 /\ Swipes(e)[Len(Swipes(e)) - 1].age <= TailWindow

BruteForce(e) == Within(Denials(e), BruteWindow) >= Threshold

Clone(e) == \E r \in readers[e.card] : r.reader # e.reader /\ r.age <= CloneGap

\* The alerts of the reason: the first that fits.
Reasoned(e) ==
    IF e.reason = "unknown_card" THEN {"unknown_card_attempt"}
    ELSE IF e.reason = "unauthorized_area" THEN {"unauthorized_area_access"}
    ELSE IF e.reason = "after_hours" \/ e.late THEN {"after_hours_access_attempt"} ELSE {}

Alerts(e) ==
    Reasoned(e)
    \cup (IF Tailgating(e) THEN {"tailgating_detected"} ELSE {})
    \cup (IF BruteForce(e) THEN {"brute_force_badge_attempt"} ELSE {})
    \cup (IF Clone(e) THEN {"badge_clone_suspected"} ELSE {})

----------------------------------------------------------------------------
(* The handler. *)

Receive == came < MaxEvents /\ came' = came + 1

\* What the tables hold of an event that is not about tampering.
Note(e) ==
    /\ swipes' = [swipes EXCEPT ![e.card] = Swipes(e)]
    /\ readers' = [readers EXCEPT ![e.card] =
                     {[reader |-> e.reader, age |-> 0]} \cup {r \in @ : r.reader # e.reader}]
    /\ refused' = IF e.access = "denied"
                  THEN [refused EXCEPT ![e.card] = Push(@, Now, Threshold)] ELSE refused
    /\ UNCHANGED events

HandleTamper(e) ==
    /\ e.access = "tamper_alert"
    /\ Receive
    /\ issued' = {"physical_tamper_detected"} /\ command' = NotYet
    /\ UNCHANGED <<events, swipes, denied, readers, refused, reported>>

\* The owner's card with another face: the card is blocked, and nothing else asked.
HandleInsider(e) ==
    /\ e.access # "tamper_alert" /\ e.reason = "insider_threat_detected"
    /\ Receive
    /\ Note(e)
    /\ denied' = [denied EXCEPT ![e.card] = Denials(e)]
    /\ issued' = {"insider_threat_card_blocked"} /\ command' = e.card
    /\ UNCHANGED reported

\* A burst of denials is forgotten once it was reported.
HandleEvent(e) ==
    /\ e.access # "tamper_alert" /\ e.reason # "insider_threat_detected"
    /\ Receive
    /\ Note(e)
    /\ denied' = [denied EXCEPT ![e.card] = IF BruteForce(e) THEN <<>> ELSE Denials(e)]
    /\ issued' = Alerts(e) /\ command' = NotYet
    /\ reported' = IF BruteForce(e) THEN [reported EXCEPT ![e.card] = 0] ELSE reported

\* What no check can count any more is dropped.
CardTick ==
    /\ swipes' = [c \in Card |-> Aging(swipes[c], TailWindow)]
    /\ denied' = [c \in Card |-> Aging(denied[c], BruteWindow)]
    /\ refused' = [c \in Card |-> Aging(refused[c], BruteWindow)]
    /\ readers' = [c \in Card |-> {r \in {[x EXCEPT !.age = @ + 1] : x \in readers[c]} :
                                      r.age <= CloneGap}]
    /\ reported' = [c \in Card |-> IF reported[c] = NotYet \/ reported[c] = BruteWindow
                                   THEN NotYet ELSE reported[c] + 1]
    /\ issued' = {} /\ command' = NotYet
    /\ came' = 0
    /\ UNCHANGED events

CardInit ==
    /\ events \in Events
    /\ swipes = [c \in Card |-> <<>>] /\ denied = [c \in Card |-> <<>>]
    /\ refused = [c \in Card |-> <<>>]
    /\ readers = [c \in Card |-> {}]
    /\ issued = {} /\ command = NotYet /\ came = 0
    /\ reported = [c \in Card |-> NotYet]

CardNext ==
    \/ \E e \in events : HandleTamper(e) \/ HandleInsider(e) \/ HandleEvent(e)
    \/ CardTick

CardSpec == CardInit /\ [][CardNext]_cardVars

----------------------------------------------------------------------------
(* Properties. *)

CardTypeOK ==
    /\ \A c \in Card :
        /\ swipes[c] \in Seq([age : 0..TailWindow]) /\ Len(swipes[c]) <= Kept
        /\ denied[c] \in Seq([age : 0..BruteWindow]) /\ Len(denied[c]) <= Kept
        /\ readers[c] \subseteq [reader : {e.reader : e \in UNION Events}, age : 0..CloneGap]
        /\ reported[c] \in 0..BruteWindow \cup {NotYet}
    /\ command \in Card \cup {NotYet}

\* Attacks with a card are reported, and one swipe alone is not called one: an event
\* that finds so many denials of its card within the window as the threshold asks for
\* leaves the card reported within the window, or blocked, although every report
\* empties the count and a wrong face ends the handler before it is looked at; the
\* second of two swipes within TAILGATE_WINDOW_SEC is called tailgating, and
\* nothing is when there was one, however many events its verification leads to
\* (handle_event, _detect_tailgating, _detect_brute_force).
CardAttackIsAlerted ==
    [][ \A e \in events : HandleEvent(e) \/ HandleInsider(e) =>
          /\ Len(refused'[e.card]) >= Threshold =>
                reported'[e.card] # NotYet \/ command' = e.card
          /\ e.reason # "insider_threat_detected" =>
                /\ "tailgating_detected" \in issued' => Len(swipes'[e.card]) > 1
                /\ e.access = "pending" /\ Len(swipes'[e.card]) > 1 =>
                      "tailgating_detected" \in issued'
      ]_cardVars

=============================================================================
