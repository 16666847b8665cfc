--------------------------- MODULE ApprovalWindow ---------------------------
(***************************************************************************)
(* The approval window of a local manager (DataLocalManager; the PAC and   *)
(* IoT managers have the same one).  A CRITICAL incident is put in the     *)
(* dictionary _pending and a daemon thread sleeps for APPROVAL_WIN before  *)
(* escalating it, while operators approve or dismiss it over HTTP.  Every  *)
(* HTTP call runs in a thread of FastAPI's pool, and no lock is taken.     *)
(*                                                                         *)
(* One action is one operation on the shared dictionaries: the language    *)
(* lets another thread run between any two of them.  (CPython 3.12 with a  *)
(* GIL, the interpreter of the images, switches at fewer points, so all    *)
(* its behaviours are among these.)                                        *)
(***************************************************************************)
EXTENDS Naturals, FiniteSets

CONSTANTS
    Incident,       \* incident identifiers; uuid4, so never used twice
    Request,        \* the HTTP calls operators make, one thread each
    Consumer,       \* the thread that polls data.alerts
    NoInc,          \* "no incident"
    TestingMode,    \* TESTING_MODE of the manager
    MaxCrashes,     \* bound: how often the process dies
    MaxLost         \* bound: how often the producer refuses a record

ASSUME ApprovalAssumption ==
    /\ Incident \cap Request = {}
    /\ Consumer \notin Incident \cup Request
    /\ NoInc \notin Incident
    /\ TestingMode \in BOOLEAN
    /\ MaxCrashes \in Nat
    /\ MaxLost \in Nat

\* The timeout thread of an incident is named by the incident.
Thread == {Consumer} \cup Incident \cup Request

VARIABLES
    up,         \* the manager's process is running
    severity,   \* severity[i], "none" before the incident exists
    status,     \* status[i]: field "status" of the record that _pending holds
                \* or a thread is escalating
    pending,    \* the keys of _pending
    pc,         \* pc[t]: the next operation of thread t
    held,       \* held[t]: the incident thread t works on
    answer,     \* answer[r]: what HTTP call r is about to return, or returned
    sent,       \* sent[i]: how many records of i are on topic hq.incidents
    sentAs,     \* sentAs[i]: field "status" of the latest of them
    crashes,    \* crashes so far
    lost        \* refused records so far

vars == <<up, severity, status, pending, pc, held, answer, sent, sentAs,
          crashes, lost>>

PCs == {"idle", "arming", "sleeping", "expired", "approving", "dismissing",
        "marking", "marked", "popped", "stamped", "replying", "finished",
        "dead"}

Statuses == {"none", "pending_approval", "auto_escalated", "operator",
             "auto_escalated_after_timeout", "manually_approved",
             "dismissed", "escalated_to_hq"}

Answers == {"none", "approved", "dismissed", "escalated",
            "not_found", "server_error"}

\* The type invariant.
TypeOK ==
    /\ up \in BOOLEAN
    /\ severity \in [Incident -> {"none", "HIGH", "CRITICAL"}]
    /\ status \in [Incident -> Statuses]
    /\ pending \in SUBSET Incident
    /\ pc \in [Thread -> PCs]
    /\ held \in [Thread -> Incident \cup {NoInc}]
    /\ answer \in [Request -> Answers]
    /\ sent \in [Incident -> Nat]
    /\ sentAs \in [Incident -> Statuses]
    /\ crashes \in 0..MaxCrashes
    /\ lost \in 0..MaxLost

Init ==
    /\ up = TRUE
    /\ severity = [i \in Incident |-> "none"]
    /\ status = [i \in Incident |-> "none"]
    /\ pending = {}
    /\ pc = [t \in Thread |-> "idle"]
    /\ held = [t \in Thread |-> NoInc]
    /\ answer = [r \in Request |-> "none"]
    /\ sent = [i \in Incident |-> 0]
    /\ sentAs = [i \in Incident |-> "none"]
    /\ crashes = 0
    /\ lost = 0

Fresh(i) == severity[i] = "none"

\* Thread t goes on at operation p, working on incident i.
Goto(t, p, i) ==
    /\ pc' = [pc EXCEPT ![t] = p]
    /\ held' = [held EXCEPT ![t] = i]

\* HTTP call r ends with answer a.
Finish(r, a) ==
    /\ pc' = [pc EXCEPT ![r] = "finished"]
    /\ answer' = [answer EXCEPT ![r] = a]
    /\ UNCHANGED held

-----------------------------------------------------------------------------
(* Plausible bugs.  No action below uses these: each is one of the actions *)
(* as a slip of the programmer would have it, and shows that a property    *)
(* notices.                                                                *)

\* handle_alert without its severity filter.
RaiseHigh_NoFilter(i) ==
    /\ up /\ pc[Consumer] = "idle" /\ Fresh(i)
    /\ severity' = [severity EXCEPT ![i] = "MEDIUM"]
    /\ status' = [status EXCEPT ![i] = "auto_escalated"]
    /\ Goto(Consumer, "popped", i)
    /\ UNCHANGED <<up, pending, answer, sent, sentAs, crashes, lost>>

\* The record is queued and the timeout thread forgotten.
StartTimer_Forgotten ==
    /\ pc[Consumer] = "arming"
    /\ Goto(Consumer, "idle", NoInc)
    /\ UNCHANGED <<up, severity, status, pending, answer, sent, sentAs,
                   crashes, lost>>

\* The check after the sleep, negated.
Wake_Negated(i) ==
    /\ pc[i] = "sleeping"
    /\ pc' = [pc EXCEPT ![i] = IF i \in pending THEN "finished" ELSE "expired"]
    /\ UNCHANGED <<up, severity, status, pending, held, answer, sent, sentAs,
                   crashes, lost>>

\* The thread escalates a record it captured when it started.
PopOnTimeout_Captured(i) ==
    /\ pc[i] = "expired"
    /\ pending' = pending \ {i}
    /\ pc' = [pc EXCEPT ![i] = "popped"]
    /\ UNCHANGED <<up, severity, status, held, answer, sent, sentAs, crashes,
                   lost>>

\* pop(iid, None), and the answer does not depend on what it returned.
ApprovePop_Tolerant(r) ==
    /\ pc[r] = "approving"
    /\ pending' = pending \ {held[r]}
    /\ pc' = [pc EXCEPT ![r] = IF held[r] \in pending THEN "popped" ELSE "replying"]
    /\ answer' = [answer EXCEPT ![r] = "approved"]
    /\ UNCHANGED <<up, severity, status, held, sent, sentAs, crashes, lost>>

\* pop(iid, None) instead of del.
DismissDelete_Tolerant(r) ==
    /\ pc[r] = "marked"
    /\ pending' = pending \ {held[r]}
    /\ pc' = [pc EXCEPT ![r] = "replying"]
    /\ answer' = [answer EXCEPT ![r] = "dismissed"]
    /\ UNCHANGED <<up, severity, status, held, sent, sentAs, crashes, lost>>

\* The status is written and the key left in _pending.
DismissDelete_Forgotten(r) ==
    /\ pc[r] = "marked"
    /\ pc' = [pc EXCEPT ![r] = "replying"]
    /\ answer' = [answer EXCEPT ![r] = "dismissed"]
    /\ UNCHANGED <<up, severity, status, pending, held, sent, sentAs, crashes,
                   lost>>

\* _escalate without inc["status"] = "escalated_to_hq".
Stamp_Forgotten(t) ==
    /\ pc[t] = "popped"
    /\ pc' = [pc EXCEPT ![t] = "stamped"]
    /\ UNCHANGED <<up, severity, status, pending, held, answer, sent, sentAs,
                   crashes, lost>>

-----------------------------------------------------------------------------
(* The consumer thread: handle_alert, _create_incident, _handle_escalation *)

\* A HIGH incident is escalated by the consumer itself, without a window.
RaiseHigh(i) ==
    /\ up /\ pc[Consumer] = "idle" /\ Fresh(i)
    /\ severity' = [severity EXCEPT ![i] = "HIGH"]
    /\ status' = [status EXCEPT ![i] = "auto_escalated"]
    /\ Goto(Consumer, "popped", i)
    /\ UNCHANGED <<up, pending, answer, sent, sentAs, crashes, lost>>

\* A CRITICAL incident: a copy of the record goes into _pending ...
RaiseCritical(i) ==
    /\ up /\ pc[Consumer] = "idle" /\ Fresh(i)
    /\ severity' = [severity EXCEPT ![i] = "CRITICAL"]
    /\ status' = [status EXCEPT ![i] = "pending_approval"]
    /\ pending' = pending \cup {i}
    /\ Goto(Consumer, "arming", i)
    /\ UNCHANGED <<up, answer, sent, sentAs, crashes, lost>>

\* ... and then its timeout thread is started.
StartTimer ==
    /\ pc[Consumer] = "arming"
    /\ pc' = [pc EXCEPT ![Consumer] = "idle", ![held[Consumer]] = "sleeping"]
    /\ held' = [held EXCEPT ![Consumer] = NoInc, ![held[Consumer]] = held[Consumer]]
    /\ UNCHANGED <<up, severity, status, pending, answer, sent, sentAs, crashes, lost>>

\* An incident about isolation_violation or immovable_violation:
\* _handle_escalation returns at once, so it is neither pending nor escalated.
\* In testing mode handle_alert drops the alert before it becomes an incident.
RaiseEnforcement(i) ==
    /\ up /\ pc[Consumer] = "idle" /\ Fresh(i)
    /\ ~TestingMode
    /\ \E s \in {"HIGH", "CRITICAL"} : severity' = [severity EXCEPT ![i] = s]
    /\ UNCHANGED <<up, status, pending, pc, held, answer, sent, sentAs, crashes, lost>>

-----------------------------------------------------------------------------
(* The timeout thread of incident i: _approval_timeout                     *)

\* time.sleep is over; the thread goes on only if the incident is pending.
Wake(i) ==
    /\ pc[i] = "sleeping"
    /\ pc' = [pc EXCEPT ![i] = IF i \in pending THEN "expired" ELSE "finished"]
    /\ UNCHANGED <<up, severity, status, pending, held, answer, sent, sentAs,
                   crashes, lost>>

\* _pending.pop(iid) raises KeyError, and ends the thread, if another thread
\* removed the key since the check.
PopOnTimeout(i) ==
    /\ pc[i] = "expired"
    /\ pending' = pending \ {i}
    /\ IF i \in pending
       THEN /\ pc' = [pc EXCEPT ![i] = "popped"]
            /\ status' = [status EXCEPT ![i] = "auto_escalated_after_timeout"]
       ELSE /\ pc' = [pc EXCEPT ![i] = "finished"]
            /\ UNCHANGED status
    /\ UNCHANGED <<up, severity, held, answer, sent, sentAs, crashes, lost>>

-----------------------------------------------------------------------------
(* HTTP calls: POST /approve/{iid}, /dismiss/{iid} and /escalate           *)

\* Both calls begin with the same check and answer 404 if it fails.
CheckPending(r, i, next) ==
    /\ up /\ pc[r] = "idle"
    /\ IF i \in pending
       THEN Goto(r, next, i) /\ UNCHANGED answer
       ELSE Finish(r, "not_found")
    /\ UNCHANGED <<up, severity, status, pending, sent, sentAs, crashes, lost>>

ApproveCheck(r, i) == CheckPending(r, i, "approving")
DismissCheck(r, i) == CheckPending(r, i, "dismissing")

\* The pop of an approval raises KeyError, a 500, if it comes second.
ApprovePop(r) ==
    /\ pc[r] = "approving"
    /\ pending' = pending \ {held[r]}
    /\ IF held[r] \in pending
       THEN /\ pc' = [pc EXCEPT ![r] = "popped"]
            /\ answer' = [answer EXCEPT ![r] = "approved"]
            /\ status' = [status EXCEPT ![held[r]] = "manually_approved"]
            /\ UNCHANGED held
       ELSE Finish(r, "server_error") /\ UNCHANGED status
    /\ UNCHANGED <<up, severity, sent, sentAs, crashes, lost>>

\* self._pending[iid]["status"] = "dismissed" first looks the record up ...
DismissLookup(r) ==
    /\ pc[r] = "dismissing"
    /\ IF held[r] \in pending
       THEN Goto(r, "marking", held[r]) /\ UNCHANGED answer
       ELSE Finish(r, "server_error")
    /\ UNCHANGED <<up, severity, status, pending, sent, sentAs, crashes, lost>>

\* ... then writes the record it found, even if it has been popped since.
DismissMark(r) ==
    /\ pc[r] = "marking"
    /\ status' = [status EXCEPT ![held[r]] = "dismissed"]
    /\ pc' = [pc EXCEPT ![r] = "marked"]
    /\ UNCHANGED <<up, severity, pending, held, answer, sent, sentAs, crashes,
                   lost>>

\* del self._pending[iid]: the call that removes the key decides.
DismissDelete(r) ==
    /\ pc[r] = "marked"
    /\ pending' = pending \ {held[r]}
    /\ IF held[r] \in pending
       THEN /\ pc' = [pc EXCEPT ![r] = "replying"]
            /\ answer' = [answer EXCEPT ![r] = "dismissed"]
            /\ UNCHANGED held
       ELSE Finish(r, "server_error")
    /\ UNCHANGED <<up, severity, status, sent, sentAs, crashes, lost>>

\* POST /escalate makes a new incident of the operator's and escalates it.
ManualEscalate(r, i) ==
    /\ up /\ pc[r] = "idle" /\ Fresh(i)
    /\ \E s \in {"HIGH", "CRITICAL"} : severity' = [severity EXCEPT ![i] = s]
    /\ status' = [status EXCEPT ![i] = "operator"]
    /\ Goto(r, "popped", i)
    /\ answer' = [answer EXCEPT ![r] = "escalated"]
    /\ UNCHANGED <<up, pending, sent, sentAs, crashes, lost>>

\* The response leaves; until then a crash can still swallow it.
Reply(r) ==
    /\ pc[r] = "replying"
    /\ Finish(r, answer[r])
    /\ UNCHANGED <<up, severity, status, pending, sent, sentAs, crashes, lost>>

-----------------------------------------------------------------------------
(* _escalate, run by whichever thread removed the record from _pending     *)

Stamp(t) ==
    /\ pc[t] = "popped"
    /\ status' = [status EXCEPT ![held[t]] = "escalated_to_hq"]
    /\ pc' = [pc EXCEPT ![t] = "stamped"]
    /\ UNCHANGED <<up, severity, pending, held, answer, sent, sentAs, crashes,
                   lost>>

\* Where a thread goes when _escalate returns.
AfterEscalate(t) ==
    CASE t = Consumer -> "idle"
      [] t \in Incident -> "finished"
      [] t \in Request -> "replying"

\* publish() catches a KafkaException and returns False, and _escalate does
\* not look at what it returned: a refused record is gone.
Publish(t) ==
    /\ pc[t] = "stamped"
    /\ \/ /\ sent' = [sent EXCEPT ![held[t]] = @ + 1]
          /\ sentAs' = [sentAs EXCEPT ![held[t]] = status[held[t]]]
          /\ UNCHANGED lost
       \/ /\ lost < MaxLost
          /\ lost' = lost + 1
          /\ UNCHANGED <<sent, sentAs>>
    /\ pc' = [pc EXCEPT ![t] = AfterEscalate(t)]
    /\ UNCHANGED <<up, severity, status, pending, held, answer, crashes>>

-----------------------------------------------------------------------------
(* The process                                                             *)

\* _pending, the threads and the open connections live in memory only.
Crash ==
    /\ up /\ crashes < MaxCrashes
    /\ up' = FALSE
    /\ crashes' = crashes + 1
    /\ pending' = {}
    /\ pc' = [t \in Thread |-> CASE t = Consumer -> "idle"
                                  [] t # Consumer /\ pc[t] \in {"idle", "finished"} -> pc[t]
                                  [] OTHER -> "dead"]
    /\ UNCHANGED <<severity, status, held, answer, sent, sentAs, lost>>

\* The consumer replays its topics; an alert handled again gets a new uuid4.
Restart ==
    /\ ~up
    /\ up' = TRUE
    /\ UNCHANGED <<severity, status, pending, pc, held, answer, sent, sentAs,
                   crashes, lost>>

\* The steps a running thread takes by itself.
ThreadStep(t) ==
    \/ t = Consumer /\ StartTimer
    \/ t \in Incident /\ (Wake(t) \/ PopOnTimeout(t))
    \/ t \in Request /\ (\/ ApprovePop(t) \/ DismissLookup(t)
                         \/ DismissMark(t) \/ DismissDelete(t) \/ Reply(t))
    \/ Stamp(t)
    \/ Publish(t)

\* What alerts and operators start.
Arrival ==
    \/ \E i \in Incident : RaiseHigh(i) \/ RaiseCritical(i) \/ RaiseEnforcement(i)
    \/ \E r \in Request, i \in Incident :
          ApproveCheck(r, i) \/ DismissCheck(r, i) \/ ManualEscalate(r, i)

Next == Arrival \/ (\E t \in Thread : ThreadStep(t)) \/ Crash \/ Restart

\* The interpreter runs every thread that can run, and sleeps end.  Nothing
\* makes alerts or operators come, and nothing makes the process restart.
Fairness == \A t \in Thread : WF_vars(ThreadStep(t))

Spec == Init /\ [][Next]_vars

FairSpec == Spec /\ Fairness

-----------------------------------------------------------------------------
(* Properties                                                              *)

\* Thread t has taken the record of incident i and has not published it yet.
Carries(t, i) == held[t] = i /\ pc[t] \in {"popped", "stamped"}

\* Call r removed incident i from _pending for good.
Dismissed(r, i) == held[r] = i /\ answer[r] = "dismissed"

\* However the timeout thread, approvals and dismissals interleave, HQ
\* receives at most one record of an incident.
AtMostOnceToHQ == \A i \in Incident : sent[i] <= 1

\* An incident whose dismissal succeeded never reaches HQ, no thread is on its
\* way to send it, and no other call decided it too.
DismissedStaysLocal ==
    \A r \in Request, i \in Incident :
        Dismissed(r, i) =>
            /\ sent[i] = 0
            /\ \A t \in Thread : ~Carries(t, i)
            /\ \A q \in Request \ {r} :
                  held[q] = i => answer[q] \notin {"approved", "dismissed"}

\* "approved": true and "escalated": true mean that HQ has the record, unless
\* the producer refused one.
ApprovedReachesHQ ==
    \A r \in Request :
        pc[r] \in {"replying", "finished"} /\ answer[r] \in {"approved", "escalated"}
            => sent[held[r]] = 1 \/ lost > 0

\* Call r wrote "dismissed" into the record of incident i and will not, or did
\* not, answer that it dismissed it.
LostRace(r, i) ==
    /\ held[r] = i
    /\ pc[r] \in {"marked", "finished", "dead"}
    /\ answer[r] \in {"none", "server_error"}

\* HQ sees a status other than escalated_to_hq only on an incident for which a
\* dismissal lost the race, and that call never answers "dismissed": true.
MislabelledOnlyByRace ==
    \A i \in Incident :
        sentAs[i] \notin {"none", "escalated_to_hq"} =>
            /\ sentAs[i] = "dismissed"
            /\ \E r \in Request : LostRace(r, i)

\* While the process runs, a pending incident has a timeout thread that will
\* look at it, or the consumer is about to start one: no window stays open.
WindowHasTimer ==
    \A i \in pending :
        \/ pc[i] \in {"sleeping", "expired"}
        \/ pc[Consumer] = "arming" /\ held[Consumer] = i

\* Every window closes.
WindowCloses == \A i \in Incident : i \in pending ~> i \notin pending

\* The record of incident i can still reach HQ.
Live(i) == i \in pending \/ \E t \in Thread : Carries(t, i)

\* The fate of an incident, as IncidentFate has it.
Fate(i) ==
    IF Fresh(i) THEN "none"
    ELSE IF status[i] = "none" THEN "kept"
    ELSE IF sent[i] > 0 THEN "escalated"
    ELSE IF \E r \in Request : Dismissed(r, i) THEN "dismissed"
    ELSE IF Live(i) THEN "waiting"
    ELSE "lost"

\* The manager keeps the promise of IncidentFate: one fate, and a final one.
Promise == INSTANCE IncidentFate WITH fate <- [i \in Incident |-> Fate(i)]
KeepsPromise == Promise!Spec
=============================================================================
