------------------------ MODULE ApprovalWindowProofs ------------------------
(***************************************************************************)
(* Theorems about ApprovalWindow, for any set of incidents, operator       *)
(* calls, crashes and refused records.                                     *)
(*                                                                         *)
(* At most one record of an incident reaches HQ because the right to send  *)
(* one is never duplicated: it is in _pending, or with one thread that     *)
(* removed it from there, or spent.  OneRight says so, and is inductive    *)
(* together with what each kind of thread may be doing (Threads), what an  *)
(* HTTP call's prepared answer says of its progress (Calls) and that an    *)
(* identifier is unknown to every thread before its incident exists        *)
(* (Unborn).                                                               *)
(***************************************************************************)
EXTENDS ApprovalWindow, TLAPS

\* Each kind of thread runs only its own code; a timeout thread works on the
\* incident it is named after, and a started one implies the incident exists.
Threads ==
    /\ pc[Consumer] \in {"idle", "arming", "popped", "stamped"}
    /\ pc[Consumer] # "idle" => held[Consumer] \in Incident
    /\ pc[Consumer] = "arming" => severity[held[Consumer]] # "none"
    /\ \A i \in Incident :
          /\ pc[i] \in {"idle", "sleeping", "expired", "popped", "stamped",
                        "finished", "dead"}
          /\ pc[i] # "idle" => held[i] = i
          /\ held[i] \in {i, NoInc}
    /\ \A r \in Request :
          /\ pc[r] \notin {"arming", "sleeping", "expired"}
          /\ pc[r] \in {"approving", "dismissing", "marking", "marked",
                        "popped", "stamped", "replying"} => held[r] \in Incident

\* A call has prepared an answer only once it has removed a record or ended.
Calls ==
    \A r \in Request :
        /\ pc[r] \in {"idle", "approving", "dismissing", "marking", "marked"}
              => answer[r] = "none"
        /\ pc[r] \in {"popped", "stamped"} => answer[r] \in {"approved", "escalated"}
        /\ answer[r] \in {"approved", "dismissed", "escalated"} => held[r] \in Incident

\* No thread works on an incident that does not exist, and none was sent.
Unborn ==
    \A i \in Incident : severity[i] = "none" =>
        /\ i \notin pending
        /\ sent[i] = 0
        /\ \A t \in Thread : held[t] # i

\* Call r has decided incident i.
DecidedBy(r, i) == held[r] = i /\ answer[r] \in {"approved", "dismissed"}

\* The right to send a record of i is in one place only.
OneRight ==
    \A i \in Incident :
        /\ sent[i] <= 1
        /\ i \in pending =>
              /\ sent[i] = 0
              /\ \A t \in Thread : ~Carries(t, i)
              /\ \A r \in Request : ~DecidedBy(r, i)
        /\ \A t \in Thread : Carries(t, i) =>
              /\ sent[i] = 0
              /\ \A u \in Thread : Carries(u, i) => u = t
              /\ \A r \in Request : ~Dismissed(r, i)
        /\ \A r \in Request : Dismissed(r, i) => sent[i] = 0
        /\ \A r, q \in Request : DecidedBy(r, i) /\ DecidedBy(q, i) => r = q

IInv == TypeOK /\ Threads /\ Calls /\ Unborn /\ OneRight

LEMMA InitIInv == Init => IInv
  BY ApprovalAssumption DEF Init, IInv, TypeOK, Threads, Calls, Unborn, OneRight,
     Carries, Dismissed, DecidedBy, Thread, PCs, Statuses, Answers

LEMMA NextIInv == IInv /\ [Next]_vars => IInv'
<1> SUFFICES ASSUME IInv, [Next]_vars PROVE IInv'
  OBVIOUS
<1> USE ApprovalAssumption DEF IInv, Thread
<1>1. ASSUME NEW i \in Incident, RaiseHigh(i) PROVE IInv'
  <2> USE <1>1 DEF RaiseHigh, Goto, Fresh
  <2>1. TypeOK'
    BY DEF TypeOK, Threads, PCs, Statuses, Answers
  <2>2. Threads'
    BY DEF TypeOK, Threads, Unborn
  <2>3. Calls'
    BY DEF TypeOK, Calls, Threads
  <2>4. Unborn'
    BY DEF TypeOK, Threads, Unborn
  <2>5. OneRight'
    BY DEF TypeOK, Threads, Calls, Unborn, OneRight, Carries, Dismissed, DecidedBy
  <2> QED BY <2>1, <2>2, <2>3, <2>4, <2>5
<1>2. ASSUME NEW i \in Incident, RaiseCritical(i) PROVE IInv'
  <2> USE <1>2 DEF RaiseCritical, Goto, Fresh
  <2>1. TypeOK'
    BY DEF TypeOK, Threads, PCs, Statuses, Answers
  <2>2. Threads'
    BY DEF TypeOK, Threads, Unborn
  <2>3. Calls'
    BY DEF TypeOK, Calls, Threads
  <2>4. Unborn'
    BY DEF TypeOK, Threads, Unborn
  <2>5. OneRight'
    BY DEF TypeOK, Threads, Calls, Unborn, OneRight, Carries, Dismissed, DecidedBy
  <2> QED BY <2>1, <2>2, <2>3, <2>4, <2>5
<1>3. ASSUME NEW i \in Incident, RaiseEnforcement(i) PROVE IInv'
  <2> USE <1>3 DEF RaiseEnforcement, Fresh
  <2>1. TypeOK'
    BY DEF TypeOK, Threads, PCs, Statuses, Answers
  <2>2. Threads'
    BY DEF TypeOK, Threads, Unborn
  <2>3. Calls'
    BY DEF TypeOK, Calls, Threads
  <2>4. Unborn'
    BY DEF TypeOK, Threads, Unborn
  <2>5. OneRight'
    BY DEF TypeOK, Threads, Calls, Unborn, OneRight, Carries, Dismissed, DecidedBy
  <2> QED BY <2>1, <2>2, <2>3, <2>4, <2>5
<1>4. ASSUME NEW r \in Request, NEW i \in Incident, ApproveCheck(r, i) PROVE IInv'
  <2> USE <1>4 DEF ApproveCheck, CheckPending, Goto, Finish
  <2>1. TypeOK'
    BY DEF TypeOK, Threads, PCs, Statuses, Answers
  <2>2. Threads'
    BY DEF TypeOK, Threads, Unborn
  <2>3. Calls'
    BY DEF TypeOK, Calls, Threads
  <2>4. Unborn'
    BY DEF TypeOK, Threads, Unborn
  <2>5. OneRight'
    BY DEF TypeOK, Threads, Calls, Unborn, OneRight, Carries, Dismissed, DecidedBy
  <2> QED BY <2>1, <2>2, <2>3, <2>4, <2>5
<1>5. ASSUME NEW r \in Request, NEW i \in Incident, DismissCheck(r, i) PROVE IInv'
  <2> USE <1>5 DEF DismissCheck, CheckPending, Goto, Finish
  <2>1. TypeOK'
    BY DEF TypeOK, Threads, PCs, Statuses, Answers
  <2>2. Threads'
    BY DEF TypeOK, Threads, Unborn
  <2>3. Calls'
    BY DEF TypeOK, Calls, Threads
  <2>4. Unborn'
    BY DEF TypeOK, Threads, Unborn
  <2>5. OneRight'
    BY DEF TypeOK, Threads, Calls, Unborn, OneRight, Carries, Dismissed, DecidedBy
  <2> QED BY <2>1, <2>2, <2>3, <2>4, <2>5
<1>6. ASSUME NEW r \in Request, NEW i \in Incident, ManualEscalate(r, i) PROVE IInv'
  <2> USE <1>6 DEF ManualEscalate, Goto, Fresh
  <2>1. TypeOK'
    BY DEF TypeOK, Threads, PCs, Statuses, Answers
  <2>2. Threads'
    BY DEF TypeOK, Threads, Unborn
  <2>3. Calls'
    BY DEF TypeOK, Calls, Threads
  <2>4. Unborn'
    BY DEF TypeOK, Threads, Unborn
  <2>5. OneRight'
    BY DEF TypeOK, Threads, Calls, Unborn, OneRight, Carries, Dismissed, DecidedBy
  <2> QED BY <2>1, <2>2, <2>3, <2>4, <2>5
<1>7. CASE StartTimer
  <2> USE <1>7 DEF StartTimer
  <2>1. TypeOK'
    BY DEF TypeOK, Threads, PCs, Statuses, Answers
  <2>2. Threads'
    BY DEF TypeOK, Threads, Unborn
  <2>3. Calls'
    BY DEF TypeOK, Calls, Threads
  <2>4. Unborn'
    BY DEF TypeOK, Threads, Unborn
  <2>5. OneRight'
    <3>1. ASSUME NEW t \in Thread, NEW i \in Incident, Carries(t, i)'
          PROVE  Carries(t, i)
      BY <3>1 DEF Carries, TypeOK, Threads
    <3>2. ASSUME NEW r \in Request, NEW i \in Incident
          PROVE  /\ Dismissed(r, i)' <=> Dismissed(r, i)
                 /\ DecidedBy(r, i)' <=> DecidedBy(r, i)
      BY DEF Dismissed, DecidedBy, TypeOK, Threads
    <3> QED BY <3>1, <3>2 DEF OneRight
  <2> QED BY <2>1, <2>2, <2>3, <2>4, <2>5
<1>8. ASSUME NEW i \in Incident, Wake(i) PROVE IInv'
  <2> USE <1>8 DEF Wake
  <2>1. TypeOK'
    BY DEF TypeOK, Threads, PCs, Statuses, Answers
  <2>2. Threads'
    BY DEF TypeOK, Threads, Unborn
  <2>3. Calls'
    BY DEF TypeOK, Calls, Threads
  <2>4. Unborn'
    BY DEF TypeOK, Threads, Unborn
  <2>5. OneRight'
    BY DEF TypeOK, Threads, Calls, Unborn, OneRight, Carries, Dismissed, DecidedBy
  <2> QED BY <2>1, <2>2, <2>3, <2>4, <2>5
<1>9. ASSUME NEW i \in Incident, PopOnTimeout(i) PROVE IInv'
  <2> USE <1>9 DEF PopOnTimeout
  <2>1. TypeOK'
    BY DEF TypeOK, Threads, PCs, Statuses, Answers
  <2>2. Threads'
    BY DEF TypeOK, Threads, Unborn
  <2>3. Calls'
    BY DEF TypeOK, Calls, Threads
  <2>4. Unborn'
    BY DEF TypeOK, Threads, Unborn
  <2>5. OneRight'
    BY DEF TypeOK, Threads, Calls, Unborn, OneRight, Carries, Dismissed, DecidedBy
  <2> QED BY <2>1, <2>2, <2>3, <2>4, <2>5
<1>10. ASSUME NEW r \in Request, ApprovePop(r) PROVE IInv'
  <2> USE <1>10 DEF ApprovePop, Finish
  <2>1. TypeOK'
    BY DEF TypeOK, Threads, PCs, Statuses, Answers
  <2>2. Threads'
    BY DEF TypeOK, Threads, Unborn
  <2>3. Calls'
    BY DEF TypeOK, Calls, Threads
  <2>4. Unborn'
    BY DEF TypeOK, Threads, Unborn
  <2>5. OneRight'
    BY DEF TypeOK, Threads, Calls, Unborn, OneRight, Carries, Dismissed, DecidedBy
  <2> QED BY <2>1, <2>2, <2>3, <2>4, <2>5
<1>11. ASSUME NEW r \in Request, DismissLookup(r) PROVE IInv'
  <2> USE <1>11 DEF DismissLookup, Goto, Finish
  <2>1. TypeOK'
    BY DEF TypeOK, Threads, PCs, Statuses, Answers
  <2>2. Threads'
    BY DEF TypeOK, Threads, Unborn
  <2>3. Calls'
    BY DEF TypeOK, Calls, Threads
  <2>4. Unborn'
    BY DEF TypeOK, Threads, Unborn
  <2>5. OneRight'
    BY DEF TypeOK, Threads, Calls, Unborn, OneRight, Carries, Dismissed, DecidedBy
  <2> QED BY <2>1, <2>2, <2>3, <2>4, <2>5
<1>12. ASSUME NEW r \in Request, DismissMark(r) PROVE IInv'
  <2> USE <1>12 DEF DismissMark
  <2>1. TypeOK'
    BY DEF TypeOK, Threads, PCs, Statuses, Answers
  <2>2. Threads'
    BY DEF TypeOK, Threads, Unborn
  <2>3. Calls'
    BY DEF TypeOK, Calls, Threads
  <2>4. Unborn'
    BY DEF TypeOK, Threads, Unborn
  <2>5. OneRight'
    BY DEF TypeOK, Threads, Calls, Unborn, OneRight, Carries, Dismissed, DecidedBy
  <2> QED BY <2>1, <2>2, <2>3, <2>4, <2>5
<1>13. ASSUME NEW r \in Request, DismissDelete(r) PROVE IInv'
  <2> USE <1>13 DEF DismissDelete, Finish
  <2>1. TypeOK'
    BY DEF TypeOK, Threads, PCs, Statuses, Answers
  <2>2. Threads'
    BY DEF TypeOK, Threads, Unborn
  <2>3. Calls'
    BY DEF TypeOK, Calls, Threads
  <2>4. Unborn'
    BY DEF TypeOK, Threads, Unborn
  <2>5. OneRight'
    BY DEF TypeOK, Threads, Calls, Unborn, OneRight, Carries, Dismissed, DecidedBy
  <2> QED BY <2>1, <2>2, <2>3, <2>4, <2>5
<1>14. ASSUME NEW r \in Request, Reply(r) PROVE IInv'
  <2> USE <1>14 DEF Reply, Finish
  <2>1. TypeOK'
    BY DEF TypeOK, Threads, PCs, Statuses, Answers
  <2>2. Threads'
    BY DEF TypeOK, Threads, Unborn
  <2>3. Calls'
    BY DEF TypeOK, Calls, Threads
  <2>4. Unborn'
    BY DEF TypeOK, Threads, Unborn
  <2>5. OneRight'
    BY DEF TypeOK, Threads, Calls, Unborn, OneRight, Carries, Dismissed, DecidedBy
  <2> QED BY <2>1, <2>2, <2>3, <2>4, <2>5
<1>15. ASSUME NEW t \in Thread, Stamp(t) PROVE IInv'
  <2> USE <1>15 DEF Stamp
  <2>1. TypeOK'
    BY DEF TypeOK, Threads, PCs, Statuses, Answers
  <2>2. Threads'
    BY DEF TypeOK, Threads, Unborn
  <2>3. Calls'
    BY DEF TypeOK, Calls, Threads
  <2>4. Unborn'
    BY DEF TypeOK, Threads, Unborn
  <2>5. OneRight'
    BY DEF TypeOK, Threads, Calls, Unborn, OneRight, Carries, Dismissed, DecidedBy
  <2> QED BY <2>1, <2>2, <2>3, <2>4, <2>5
<1>16. ASSUME NEW t \in Thread, Publish(t) PROVE IInv'
  <2> USE <1>16 DEF Publish, AfterEscalate
  <2>1. TypeOK'
    BY DEF TypeOK, Threads, PCs, Statuses, Answers
  <2>2. Threads'
    BY DEF TypeOK, Threads, Unborn
  <2>3. Calls'
    BY DEF TypeOK, Calls, Threads
  <2>4. Unborn'
    BY DEF TypeOK, Threads, Unborn
  <2>5. OneRight'
    BY DEF TypeOK, Threads, Calls, Unborn, OneRight, Carries, Dismissed, DecidedBy
  <2> QED BY <2>1, <2>2, <2>3, <2>4, <2>5
<1>17. CASE Crash
  <2> USE <1>17 DEF Crash
  <2>1. TypeOK'
    <3>1. pc' \in [Thread -> PCs]
      BY DEF TypeOK, PCs
    <3>2. crashes' \in 0..MaxCrashes
      BY DEF TypeOK
    <3> QED BY <3>1, <3>2 DEF TypeOK
  <2>2. Threads'
    BY DEF TypeOK, Threads, Unborn
  <2>3. Calls'
    BY DEF TypeOK, Calls, Threads
  <2>4. Unborn'
    BY DEF TypeOK, Threads, Unborn
  <2>5. OneRight'
    BY DEF TypeOK, Threads, Calls, Unborn, OneRight, Carries, Dismissed, DecidedBy
  <2> QED BY <2>1, <2>2, <2>3, <2>4, <2>5
<1>18. CASE Restart
  <2> USE <1>18 DEF Restart
  <2>1. TypeOK'
    BY DEF TypeOK, Threads, PCs, Statuses, Answers
  <2>2. Threads'
    BY DEF TypeOK, Threads, Unborn
  <2>3. Calls'
    BY DEF TypeOK, Calls, Threads
  <2>4. Unborn'
    BY DEF TypeOK, Threads, Unborn
  <2>5. OneRight'
    BY DEF TypeOK, Threads, Calls, Unborn, OneRight, Carries, Dismissed, DecidedBy
  <2> QED BY <2>1, <2>2, <2>3, <2>4, <2>5
<1>19. CASE UNCHANGED vars
  BY <1>19 DEF vars, TypeOK, Threads, Calls, Unborn, OneRight, Carries, Dismissed, DecidedBy
<1> QED
  BY <1>1, <1>2, <1>3, <1>4, <1>5, <1>6, <1>7, <1>8, <1>9, <1>10, <1>11, <1>12, <1>13, <1>14, <1>15, <1>16, <1>17, <1>18, <1>19 DEF Next, Arrival, ThreadStep

LEMMA Invariance == Spec => []IInv
  BY InitIInv, NextIInv, PTL DEF Spec

\* The type invariant holds for any constants.
THEOREM TypeCorrect == Spec => []TypeOK
<1>1. IInv => TypeOK
  BY DEF IInv
<1> QED BY <1>1, Invariance, PTL

\* HQ receives at most one record of an incident: _approval_timeout, /approve
\* and /dismiss can interleave in any way, in any number.
THEOREM AtMostOnce == Spec => []AtMostOnceToHQ
<1>1. IInv => AtMostOnceToHQ
  BY DEF IInv, OneRight, AtMostOnceToHQ
<1> QED BY <1>1, Invariance, PTL

\* A call of /dismiss that succeeds has the last word on its incident.
THEOREM DismissalHolds == Spec => []DismissedStaysLocal
<1>1. IInv => DismissedStaysLocal
  BY DEF IInv, OneRight, DismissedStaysLocal, DecidedBy, Dismissed
<1> QED BY <1>1, Invariance, PTL

\* A call that answers approved or escalated went through Publish.
LEMMA NextApproved == IInv /\ IInv' /\ ApprovedReachesHQ /\ [Next]_vars => ApprovedReachesHQ'
<1> SUFFICES ASSUME IInv /\ IInv' /\ ApprovedReachesHQ, [Next]_vars PROVE ApprovedReachesHQ'
  OBVIOUS
<1> USE ApprovalAssumption DEF IInv, Thread
<1>1. ASSUME NEW i \in Incident, RaiseHigh(i) PROVE ApprovedReachesHQ'
  BY <1>1 DEF RaiseHigh, Goto, Fresh, ApprovedReachesHQ, TypeOK, Threads, Calls, Unborn, OneRight, Carries
<1>2. ASSUME NEW i \in Incident, RaiseCritical(i) PROVE ApprovedReachesHQ'
  BY <1>2 DEF RaiseCritical, Goto, Fresh, ApprovedReachesHQ, TypeOK, Threads, Calls, Unborn, OneRight, Carries
<1>3. ASSUME NEW i \in Incident, RaiseEnforcement(i) PROVE ApprovedReachesHQ'
  BY <1>3 DEF RaiseEnforcement, Fresh, ApprovedReachesHQ, TypeOK, Threads, Calls, Unborn, OneRight, Carries
<1>4. ASSUME NEW r \in Request, NEW i \in Incident, ApproveCheck(r, i) PROVE ApprovedReachesHQ'
  BY <1>4 DEF ApproveCheck, CheckPending, Goto, Finish, ApprovedReachesHQ, TypeOK, Threads, Calls, Unborn, OneRight, Carries
<1>5. ASSUME NEW r \in Request, NEW i \in Incident, DismissCheck(r, i) PROVE ApprovedReachesHQ'
  BY <1>5 DEF DismissCheck, CheckPending, Goto, Finish, ApprovedReachesHQ, TypeOK, Threads, Calls, Unborn, OneRight, Carries
<1>6. ASSUME NEW r \in Request, NEW i \in Incident, ManualEscalate(r, i) PROVE ApprovedReachesHQ'
  BY <1>6 DEF ManualEscalate, Goto, Fresh, ApprovedReachesHQ, TypeOK, Threads, Calls, Unborn, OneRight, Carries
<1>7. CASE StartTimer
  BY <1>7 DEF StartTimer, ApprovedReachesHQ, TypeOK, Threads, Calls, Unborn, OneRight, Carries
<1>8. ASSUME NEW i \in Incident, Wake(i) PROVE ApprovedReachesHQ'
  BY <1>8 DEF Wake, ApprovedReachesHQ, TypeOK, Threads, Calls, Unborn, OneRight, Carries
<1>9. ASSUME NEW i \in Incident, PopOnTimeout(i) PROVE ApprovedReachesHQ'
  BY <1>9 DEF PopOnTimeout, ApprovedReachesHQ, TypeOK, Threads, Calls, Unborn, OneRight, Carries
<1>10. ASSUME NEW r \in Request, ApprovePop(r) PROVE ApprovedReachesHQ'
  BY <1>10 DEF ApprovePop, Finish, ApprovedReachesHQ, TypeOK, Threads, Calls, Unborn, OneRight, Carries
<1>11. ASSUME NEW r \in Request, DismissLookup(r) PROVE ApprovedReachesHQ'
  BY <1>11 DEF DismissLookup, Goto, Finish, ApprovedReachesHQ, TypeOK, Threads, Calls, Unborn, OneRight, Carries
<1>12. ASSUME NEW r \in Request, DismissMark(r) PROVE ApprovedReachesHQ'
  BY <1>12 DEF DismissMark, ApprovedReachesHQ, TypeOK, Threads, Calls, Unborn, OneRight, Carries
<1>13. ASSUME NEW r \in Request, DismissDelete(r) PROVE ApprovedReachesHQ'
  BY <1>13 DEF DismissDelete, Finish, ApprovedReachesHQ, TypeOK, Threads, Calls, Unborn, OneRight, Carries
<1>14. ASSUME NEW r \in Request, Reply(r) PROVE ApprovedReachesHQ'
  BY <1>14 DEF Reply, Finish, ApprovedReachesHQ, TypeOK, Threads, Calls, Unborn, OneRight, Carries
<1>15. ASSUME NEW t \in Thread, Stamp(t) PROVE ApprovedReachesHQ'
  BY <1>15 DEF Stamp, ApprovedReachesHQ, TypeOK, Threads, Calls, Unborn, OneRight, Carries
<1>16. ASSUME NEW t \in Thread, Publish(t) PROVE ApprovedReachesHQ'
  <2>1. held[t] \in Incident /\ sent[held[t]] = 0
    BY <1>16 DEF Publish, TypeOK, Threads, OneRight, Carries
  <2>2. sent'[held[t]] = 1 \/ lost' > 0
    BY <1>16, <2>1 DEF Publish, TypeOK
  <2>3. \A i \in Incident : sent[i] = 1 => sent'[i] = 1
    BY <1>16, <2>1 DEF Publish, TypeOK
  <2>4. lost > 0 => lost' > 0
    BY <1>16 DEF Publish, TypeOK
  <2>5. ASSUME NEW q \in Request, q # t,
               pc'[q] \in {"replying", "finished"},
               answer'[q] \in {"approved", "escalated"}
        PROVE  sent'[held'[q]] = 1 \/ lost' > 0
    <3>1. pc[q] \in {"replying", "finished"} /\ held'[q] = held[q]
          /\ answer[q] \in {"approved", "escalated"}
      BY <1>16, <2>5 DEF Publish, TypeOK
    <3>2. sent[held[q]] = 1 \/ lost > 0
      BY <3>1 DEF ApprovedReachesHQ
    <3>3. sent[held[q]] = 1 => held[q] \in Incident
      BY <3>1, <2>5 DEF TypeOK, Threads, Calls
    <3> QED BY <3>1, <3>2, <3>3, <2>3, <2>4
  <2>6. held' = held
    BY <1>16 DEF Publish
  <2> QED BY <2>2, <2>5, <2>6 DEF ApprovedReachesHQ
<1>17. CASE Crash
  BY <1>17 DEF Crash, ApprovedReachesHQ, TypeOK, Threads, Calls, Unborn, OneRight, Carries
<1>18. CASE Restart
  BY <1>18 DEF Restart, ApprovedReachesHQ, TypeOK, Threads, Calls, Unborn, OneRight, Carries
<1>19. CASE UNCHANGED vars
  BY <1>19 DEF vars, ApprovedReachesHQ, TypeOK, Threads, Calls, Unborn, OneRight, Carries
<1> QED
  BY <1>1, <1>2, <1>3, <1>4, <1>5, <1>6, <1>7, <1>8, <1>9, <1>10, <1>11, <1>12, <1>13, <1>14, <1>15, <1>16, <1>17, <1>18, <1>19 DEF Next, Arrival, ThreadStep

\* "approved": true is true: HQ has the record, or the producer refused one.
THEOREM ApprovalReachesHQ == Spec => []ApprovedReachesHQ
<1>1. Init => ApprovedReachesHQ
  BY DEF Init, ApprovedReachesHQ, Thread
<1> QED BY <1>1, NextApproved, Invariance, PTL DEF Spec

\* Only StartTimer ends the consumer's arming, and only PopOnTimeout ends the
\* timer of a pending incident.
LEMMA NextTimer == IInv /\ WindowHasTimer /\ [Next]_vars => WindowHasTimer'
<1> SUFFICES ASSUME IInv /\ WindowHasTimer, [Next]_vars PROVE WindowHasTimer'
  OBVIOUS
<1> USE ApprovalAssumption DEF IInv, Thread
<1>1. ASSUME NEW i \in Incident, RaiseHigh(i) PROVE WindowHasTimer'
  BY <1>1 DEF RaiseHigh, Goto, Fresh, WindowHasTimer, TypeOK, Threads, Unborn, OneRight, Carries
<1>2. ASSUME NEW i \in Incident, RaiseCritical(i) PROVE WindowHasTimer'
  BY <1>2 DEF RaiseCritical, Goto, Fresh, WindowHasTimer, TypeOK, Threads, Unborn, OneRight, Carries
<1>3. ASSUME NEW i \in Incident, RaiseEnforcement(i) PROVE WindowHasTimer'
  BY <1>3 DEF RaiseEnforcement, Fresh, WindowHasTimer, TypeOK, Threads, Unborn, OneRight, Carries
<1>4. ASSUME NEW r \in Request, NEW i \in Incident, ApproveCheck(r, i) PROVE WindowHasTimer'
  BY <1>4 DEF ApproveCheck, CheckPending, Goto, Finish, WindowHasTimer, TypeOK, Threads, Unborn, OneRight, Carries
<1>5. ASSUME NEW r \in Request, NEW i \in Incident, DismissCheck(r, i) PROVE WindowHasTimer'
  BY <1>5 DEF DismissCheck, CheckPending, Goto, Finish, WindowHasTimer, TypeOK, Threads, Unborn, OneRight, Carries
<1>6. ASSUME NEW r \in Request, NEW i \in Incident, ManualEscalate(r, i) PROVE WindowHasTimer'
  BY <1>6 DEF ManualEscalate, Goto, Fresh, WindowHasTimer, TypeOK, Threads, Unborn, OneRight, Carries
<1>7. CASE StartTimer
  BY <1>7 DEF StartTimer, WindowHasTimer, TypeOK, Threads, Unborn, OneRight, Carries
<1>8. ASSUME NEW i \in Incident, Wake(i) PROVE WindowHasTimer'
  BY <1>8 DEF Wake, WindowHasTimer, TypeOK, Threads, Unborn, OneRight, Carries
<1>9. ASSUME NEW i \in Incident, PopOnTimeout(i) PROVE WindowHasTimer'
  BY <1>9 DEF PopOnTimeout, WindowHasTimer, TypeOK, Threads, Unborn, OneRight, Carries
<1>10. ASSUME NEW r \in Request, ApprovePop(r) PROVE WindowHasTimer'
  BY <1>10 DEF ApprovePop, Finish, WindowHasTimer, TypeOK, Threads, Unborn, OneRight, Carries
<1>11. ASSUME NEW r \in Request, DismissLookup(r) PROVE WindowHasTimer'
  BY <1>11 DEF DismissLookup, Goto, Finish, WindowHasTimer, TypeOK, Threads, Unborn, OneRight, Carries
<1>12. ASSUME NEW r \in Request, DismissMark(r) PROVE WindowHasTimer'
  BY <1>12 DEF DismissMark, WindowHasTimer, TypeOK, Threads, Unborn, OneRight, Carries
<1>13. ASSUME NEW r \in Request, DismissDelete(r) PROVE WindowHasTimer'
  BY <1>13 DEF DismissDelete, Finish, WindowHasTimer, TypeOK, Threads, Unborn, OneRight, Carries
<1>14. ASSUME NEW r \in Request, Reply(r) PROVE WindowHasTimer'
  BY <1>14 DEF Reply, Finish, WindowHasTimer, TypeOK, Threads, Unborn, OneRight, Carries
<1>15. ASSUME NEW t \in Thread, Stamp(t) PROVE WindowHasTimer'
  BY <1>15 DEF Stamp, WindowHasTimer, TypeOK, Threads, Unborn, OneRight, Carries
<1>16. ASSUME NEW t \in Thread, Publish(t) PROVE WindowHasTimer'
  BY <1>16 DEF Publish, AfterEscalate, WindowHasTimer, TypeOK, Threads, Unborn, OneRight, Carries
<1>17. CASE Crash
  BY <1>17 DEF Crash, WindowHasTimer, TypeOK, Threads, Unborn, OneRight, Carries
<1>18. CASE Restart
  BY <1>18 DEF Restart, WindowHasTimer, TypeOK, Threads, Unborn, OneRight, Carries
<1>19. CASE UNCHANGED vars
  BY <1>19 DEF vars, WindowHasTimer, TypeOK, Threads, Unborn, OneRight, Carries
<1> QED
  BY <1>1, <1>2, <1>3, <1>4, <1>5, <1>6, <1>7, <1>8, <1>9, <1>10, <1>11, <1>12, <1>13, <1>14, <1>15, <1>16, <1>17, <1>18, <1>19 DEF Next, Arrival, ThreadStep

\* No window stays open for want of a timeout thread.
THEOREM EveryWindowHasTimer == Spec => []WindowHasTimer
<1>1. Init => WindowHasTimer
  BY DEF Init, WindowHasTimer
<1> QED BY <1>1, NextTimer, Invariance, PTL DEF Spec

-----------------------------------------------------------------------------
(* What HQ sees in the field "status"                                      *)

\* A record about to be published says escalated_to_hq, or "dismissed" because
\* of a call that lost the race; and what was published said one of the two.
Labels ==
    \A i \in Incident :
        /\ \A t \in Thread : pc[t] = "stamped" /\ held[t] = i =>
              \/ status[i] = "escalated_to_hq"
              \/ status[i] = "dismissed" /\ \E r \in Request : LostRace(r, i)
        /\ \/ sentAs[i] \in {"none", "escalated_to_hq"}
           \/ sentAs[i] = "dismissed" /\ \E r \in Request : LostRace(r, i)
        /\ sentAs[i] # "none" => sent[i] = 1

\* An incident that was sent, or is about to be, is no longer pending, so a call
\* that lost the race for it cannot win it back.
LEMMA NextLabels == IInv /\ IInv' /\ Labels /\ [Next]_vars => Labels'
<1> SUFFICES ASSUME IInv, IInv', Labels, [Next]_vars PROVE Labels'
  OBVIOUS
<1> USE ApprovalAssumption DEF IInv, Thread
<1>1. ASSUME NEW i \in Incident, RaiseHigh(i) PROVE Labels'
  <2>1. \A q \in Request, j \in Incident : LostRace(q, j) => LostRace(q, j)'
    BY <1>1 DEF RaiseHigh, Goto, LostRace, TypeOK
  <2>2. ASSUME NEW u \in Thread, NEW j \in Incident, (pc[u] = "stamped" /\ held[u] = j)'
        PROVE  pc[u] = "stamped" /\ held[u] = j /\ status'[j] = status[j]
    BY <1>1, <2>2 DEF RaiseHigh, Goto, Fresh, TypeOK, Unborn
  <2> QED BY <1>1, <2>1, <2>2 DEF RaiseHigh, Goto, Labels
<1>2. ASSUME NEW i \in Incident, RaiseCritical(i) PROVE Labels'
  <2>1. \A q \in Request, j \in Incident : LostRace(q, j) => LostRace(q, j)'
    BY <1>2 DEF RaiseCritical, Goto, LostRace, TypeOK
  <2>2. ASSUME NEW u \in Thread, NEW j \in Incident, (pc[u] = "stamped" /\ held[u] = j)'
        PROVE  pc[u] = "stamped" /\ held[u] = j /\ status'[j] = status[j]
    BY <1>2, <2>2 DEF RaiseCritical, Goto, Fresh, TypeOK, Unborn
  <2> QED BY <1>2, <2>1, <2>2 DEF RaiseCritical, Goto, Labels
<1>3. ASSUME NEW i \in Incident, RaiseEnforcement(i) PROVE Labels'
  <2>1. \A q \in Request, j \in Incident : LostRace(q, j) => LostRace(q, j)'
    BY <1>3 DEF RaiseEnforcement, LostRace
  <2>2. ASSUME NEW u \in Thread, NEW j \in Incident, (pc[u] = "stamped" /\ held[u] = j)'
        PROVE  pc[u] = "stamped" /\ held[u] = j /\ status'[j] = status[j]
    BY <1>3, <2>2 DEF RaiseEnforcement, Fresh, TypeOK, Unborn
  <2> QED BY <1>3, <2>1, <2>2 DEF RaiseEnforcement, Fresh, Labels, TypeOK, Unborn
<1>4. ASSUME NEW r \in Request, NEW i \in Incident, ApproveCheck(r, i) PROVE Labels'
  <2>1. \A q \in Request, j \in Incident : LostRace(q, j) => LostRace(q, j)'
    BY <1>4 DEF ApproveCheck, CheckPending, Goto, Finish, LostRace, TypeOK, Threads, Calls
  <2>2. ASSUME NEW u \in Thread, NEW j \in Incident, (pc[u] = "stamped" /\ held[u] = j)'
        PROVE  pc[u] = "stamped" /\ held[u] = j /\ status'[j] = status[j]
    BY <1>4, <2>2 DEF ApproveCheck, CheckPending, Goto, Finish, TypeOK
  <2> QED BY <1>4, <2>1, <2>2 DEF ApproveCheck, CheckPending, Goto, Finish, Labels
<1>5. ASSUME NEW r \in Request, NEW i \in Incident, DismissCheck(r, i) PROVE Labels'
  <2>1. \A q \in Request, j \in Incident : LostRace(q, j) => LostRace(q, j)'
    BY <1>5 DEF DismissCheck, CheckPending, Goto, Finish, LostRace, TypeOK, Threads, Calls
  <2>2. ASSUME NEW u \in Thread, NEW j \in Incident, (pc[u] = "stamped" /\ held[u] = j)'
        PROVE  pc[u] = "stamped" /\ held[u] = j /\ status'[j] = status[j]
    BY <1>5, <2>2 DEF DismissCheck, CheckPending, Goto, Finish, TypeOK
  <2> QED BY <1>5, <2>1, <2>2 DEF DismissCheck, CheckPending, Goto, Finish, Labels
<1>6. ASSUME NEW r \in Request, NEW i \in Incident, ManualEscalate(r, i) PROVE Labels'
  <2>1. \A q \in Request, j \in Incident : LostRace(q, j) => LostRace(q, j)'
    BY <1>6 DEF ManualEscalate, Goto, Fresh, LostRace, TypeOK, Threads, Calls
  <2>2. ASSUME NEW u \in Thread, NEW j \in Incident, (pc[u] = "stamped" /\ held[u] = j)'
        PROVE  pc[u] = "stamped" /\ held[u] = j /\ status'[j] = status[j]
    <3>1. u # r
      BY <1>6, <2>2 DEF ManualEscalate, Goto, TypeOK
    <3>2. pc[u] = "stamped" /\ held[u] = j
      BY <1>6, <2>2, <3>1 DEF ManualEscalate, Goto, TypeOK
    <3>3. j # i
      BY <1>6, <3>2 DEF ManualEscalate, Fresh, Unborn, Carries
    <3> QED
      BY <1>6, <3>2, <3>3 DEF ManualEscalate, TypeOK
  <2> QED BY <1>6, <2>1, <2>2 DEF ManualEscalate, Goto, Fresh, Labels
<1>7. CASE StartTimer
  <2>1. \A q \in Request, j \in Incident : LostRace(q, j) => LostRace(q, j)'
    BY <1>7 DEF StartTimer, LostRace, TypeOK, Threads, Calls
  <2>2. ASSUME NEW u \in Thread, NEW j \in Incident, (pc[u] = "stamped" /\ held[u] = j)'
        PROVE  pc[u] = "stamped" /\ held[u] = j /\ status'[j] = status[j]
    BY <1>7, <2>2 DEF StartTimer, TypeOK, Threads, Unborn, OneRight, Carries
  <2> QED BY <1>7, <2>1, <2>2 DEF StartTimer, Labels
<1>8. ASSUME NEW i \in Incident, Wake(i) PROVE Labels'
  BY <1>8 DEF Wake, Labels, LostRace, TypeOK, Threads, Calls, Unborn, OneRight, Carries
<1>9. ASSUME NEW i \in Incident, PopOnTimeout(i) PROVE Labels'
  BY <1>9 DEF PopOnTimeout, Labels, LostRace, TypeOK, Threads, Calls, Unborn, OneRight, Carries
<1>10. ASSUME NEW r \in Request, ApprovePop(r) PROVE Labels'
  <2>1. \A q \in Request, j \in Incident : LostRace(q, j) => LostRace(q, j)'
    BY <1>10 DEF ApprovePop, Finish, LostRace, TypeOK, Threads, Calls
  <2>2. ASSUME NEW u \in Thread, NEW j \in Incident, (pc[u] = "stamped" /\ held[u] = j)'
        PROVE  pc[u] = "stamped" /\ held[u] = j /\ status'[j] = status[j]
    BY <1>10, <2>2 DEF ApprovePop, Finish, TypeOK, Threads, Unborn, OneRight, Carries
  <2> QED BY <1>10, <2>1, <2>2 DEF ApprovePop, Finish, Labels
<1>11. ASSUME NEW r \in Request, DismissLookup(r) PROVE Labels'
  BY <1>11 DEF DismissLookup, Goto, Finish, Labels, LostRace, TypeOK, Threads, Calls, Unborn, OneRight, Carries
<1>12. ASSUME NEW r \in Request, DismissMark(r) PROVE Labels'
  BY <1>12 DEF DismissMark, Labels, LostRace, TypeOK, Threads, Calls, Unborn, OneRight, Carries
<1>13. ASSUME NEW r \in Request, DismissDelete(r) PROVE Labels'
  BY <1>13 DEF DismissDelete, Finish, Labels, LostRace, TypeOK, Threads, Calls, Unborn, OneRight, Carries
<1>14. ASSUME NEW r \in Request, Reply(r) PROVE Labels'
  BY <1>14 DEF Reply, Finish, Labels, LostRace, TypeOK, Threads, Calls, Unborn, OneRight, Carries
<1>15. ASSUME NEW t \in Thread, Stamp(t) PROVE Labels'
  BY <1>15 DEF Stamp, Labels, LostRace, TypeOK, Threads, Calls, Unborn, OneRight, Carries
<1>16. ASSUME NEW t \in Thread, Publish(t) PROVE Labels'
  BY <1>16 DEF Publish, AfterEscalate, Labels, LostRace, TypeOK, Threads, Calls, Unborn, OneRight, Carries
<1>17. CASE Crash
  BY <1>17 DEF Crash, Labels, LostRace, TypeOK, Threads, Calls, Unborn, OneRight, Carries
<1>18. CASE Restart
  BY <1>18 DEF Restart, Labels, LostRace, TypeOK, Threads, Calls, Unborn, OneRight, Carries
<1>19. CASE UNCHANGED vars
  BY <1>19 DEF vars, Labels, LostRace
<1> QED
  BY <1>1, <1>2, <1>3, <1>4, <1>5, <1>6, <1>7, <1>8, <1>9, <1>10, <1>11, <1>12, <1>13, <1>14, <1>15, <1>16, <1>17, <1>18, <1>19 DEF Next, Arrival, ThreadStep

\* HQ is told "dismissed" only by a race, and then no operator is told so.
THEOREM OnlyRaceMislabels == Spec => []MislabelledOnlyByRace
<1>1. Init => Labels
  BY DEF Init, Labels, Thread
<1>2. Labels => MislabelledOnlyByRace
  BY DEF Labels, MislabelledOnlyByRace
<1> QED BY <1>1, <1>2, NextLabels, Invariance, PTL DEF Spec
-----------------------------------------------------------------------------
(* The promise of IncidentFate                                             *)

\* An incident has a record with a status exactly while, or after, it could be
\* sent; one that is only kept never has.  No thread but the consumer knows an
\* incident whose timer is not started yet.
Known ==
    /\ pc[Consumer] = "arming" => pc[held[Consumer]] = "idle"
    /\ \A i \in Incident :
          /\ severity[i] = "none" => status[i] = "none"
          /\ Live(i) => status[i] # "none"
          /\ \A r \in Request : held[r] = i /\ pc[r] = "marking" => status[i] # "none"

\* Nothing gives a kept incident a record.
LEMMA NextKnown == IInv /\ IInv' /\ Known /\ [Next]_vars => Known'
<1> SUFFICES ASSUME IInv, IInv', Known, [Next]_vars PROVE Known'
  OBVIOUS
<1> USE ApprovalAssumption DEF IInv, Thread
<1>1. ASSUME NEW i \in Incident, RaiseHigh(i) PROVE Known'
  BY <1>1 DEF RaiseHigh, Goto, Fresh, Known, Live, TypeOK, Threads, Calls, Unborn, OneRight, Carries
<1>2. ASSUME NEW i \in Incident, RaiseCritical(i) PROVE Known'
  BY <1>2 DEF RaiseCritical, Goto, Fresh, Known, Live, TypeOK, Threads, Calls, Unborn, OneRight, Carries
<1>3. ASSUME NEW i \in Incident, RaiseEnforcement(i) PROVE Known'
  BY <1>3 DEF RaiseEnforcement, Fresh, Known, Live, TypeOK, Threads, Calls, Unborn, OneRight, Carries
<1>4. ASSUME NEW r \in Request, NEW i \in Incident, ApproveCheck(r, i) PROVE Known'
  BY <1>4 DEF ApproveCheck, CheckPending, Goto, Finish, Known, Live, TypeOK, Threads, Calls, Unborn, OneRight, Carries
<1>5. ASSUME NEW r \in Request, NEW i \in Incident, DismissCheck(r, i) PROVE Known'
  BY <1>5 DEF DismissCheck, CheckPending, Goto, Finish, Known, Live, TypeOK, Threads, Calls, Unborn, OneRight, Carries
<1>6. ASSUME NEW r \in Request, NEW i \in Incident, ManualEscalate(r, i) PROVE Known'
  BY <1>6 DEF ManualEscalate, Goto, Fresh, Known, Live, TypeOK, Threads, Calls, Unborn, OneRight, Carries
<1>7. CASE StartTimer
  <2>1. \A t \in Thread, j \in Incident : Carries(t, j)' => Carries(t, j)
    BY <1>7 DEF StartTimer, TypeOK, Threads, Carries
  <2>2. \A r \in Request : pc'[r] = pc[r] /\ held'[r] = held[r]
    BY <1>7 DEF StartTimer, TypeOK, Threads
  <2>3. pc'[Consumer] = "idle" /\ pending' = pending /\ severity' = severity /\ status' = status
    BY <1>7 DEF StartTimer, TypeOK, Threads
  <2> QED BY <2>1, <2>2, <2>3 DEF Known, Live
<1>8. ASSUME NEW i \in Incident, Wake(i) PROVE Known'
  BY <1>8 DEF Wake, Known, Live, TypeOK, Threads, Calls, Unborn, OneRight, Carries
<1>9. ASSUME NEW i \in Incident, PopOnTimeout(i) PROVE Known'
  BY <1>9 DEF PopOnTimeout, Known, Live, TypeOK, Threads, Calls, Unborn, OneRight, Carries
<1>10. ASSUME NEW r \in Request, ApprovePop(r) PROVE Known'
  BY <1>10 DEF ApprovePop, Finish, Known, Live, TypeOK, Threads, Calls, Unborn, OneRight, Carries
<1>11. ASSUME NEW r \in Request, DismissLookup(r) PROVE Known'
  BY <1>11 DEF DismissLookup, Goto, Finish, Known, Live, TypeOK, Threads, Calls, Unborn, OneRight, Carries
<1>12. ASSUME NEW r \in Request, DismissMark(r) PROVE Known'
  BY <1>12 DEF DismissMark, Known, Live, TypeOK, Threads, Calls, Unborn, OneRight, Carries
<1>13. ASSUME NEW r \in Request, DismissDelete(r) PROVE Known'
  BY <1>13 DEF DismissDelete, Finish, Known, Live, TypeOK, Threads, Calls, Unborn, OneRight, Carries
<1>14. ASSUME NEW r \in Request, Reply(r) PROVE Known'
  BY <1>14 DEF Reply, Finish, Known, Live, TypeOK, Threads, Calls, Unborn, OneRight, Carries
<1>15. ASSUME NEW t \in Thread, Stamp(t) PROVE Known'
  BY <1>15 DEF Stamp, Known, Live, TypeOK, Threads, Calls, Unborn, OneRight, Carries
<1>16. ASSUME NEW t \in Thread, Publish(t) PROVE Known'
  BY <1>16 DEF Publish, AfterEscalate, Known, Live, TypeOK, Threads, Calls, Unborn, OneRight, Carries
<1>17. CASE Crash
  BY <1>17 DEF Crash, Known, Live, TypeOK, Threads, Calls, Unborn, OneRight, Carries
<1>18. CASE Restart
  BY <1>18 DEF Restart, Known, Live, TypeOK, Threads, Calls, Unborn, OneRight, Carries
<1>19. CASE UNCHANGED vars
  BY <1>19 DEF vars, Known, Live, Carries
<1> QED
  BY <1>1, <1>2, <1>3, <1>4, <1>5, <1>6, <1>7, <1>8, <1>9, <1>10, <1>11, <1>12, <1>13, <1>14, <1>15, <1>16, <1>17, <1>18, <1>19 DEF Next, Arrival, ThreadStep

\* The refinement mapping.
FateMap == [i \in Incident |-> Fate(i)]

\* A step that leaves what Fate reads alone leaves the fate alone.
LEMMA SameFate ==
  ASSUME NEW i \in Incident,
         severity'[i] = "none" <=> severity[i] = "none",
         status'[i] = "none" <=> status[i] = "none",
         sent'[i] = sent[i],
         (\E r \in Request : Dismissed(r, i))' <=> (\E r \in Request : Dismissed(r, i)),
         Live(i)' <=> Live(i)
  PROVE  Fate(i)' = Fate(i)
  BY DEF Fate, Fresh

\* Three ways a step of the window can be a step of the promise.
LEMMA RaiseStep ==
  ASSUME NEW i \in Incident, Fate(i) = "none", Fate(i)' \in {"waiting", "kept"},
         \A j \in Incident \ {i} : Fate(j)' = Fate(j)
  PROVE  Promise!Next
  BY DEF Promise!Next, Promise!Raise

LEMMA DecideStep ==
  ASSUME NEW i \in Incident, Fate(i) = "waiting",
         Fate(i)' \in {"escalated", "dismissed"},
         \A j \in Incident \ {i} : Fate(j)' = Fate(j)
  PROVE  Promise!Next
  BY DEF Promise!Next, Promise!Decide

LEMMA LoseStep ==
  ASSUME NEW S \in SUBSET Incident,
         \A j \in S : Fate(j) = "waiting" /\ Fate(j)' = "lost",
         \A j \in Incident \ S : Fate(j)' = Fate(j)
  PROVE  Promise!Next
  BY DEF Promise!Next, Promise!Lose

\* An incident nothing is done with yet can only be raised.
LEMMA FreshFate ==
  ASSUME NEW i \in Incident, Fresh(i) PROVE Fate(i) = "none"
  BY DEF Fate

\* An incident whose record waits in _pending or in the hands of a thread.
LEMMA LiveFate ==
  ASSUME IInv, Known, NEW i \in Incident, Live(i) PROVE Fate(i) = "waiting"
  <1>1. ~Fresh(i) /\ status[i] # "none"
    BY DEF IInv, Unborn, Known, Live, Carries, Fresh
  <1>2. sent[i] = 0
    BY DEF IInv, OneRight, Live
  <1>3. \A r \in Request : ~Dismissed(r, i)
    BY DEF IInv, OneRight, Live, Dismissed, DecidedBy
  <1> QED BY <1>1, <1>2, <1>3 DEF Fate

\* Every step of the window is a step of the promise, or changes no fate.
LEMMA NextPromise ==
  IInv /\ IInv' /\ Known /\ Known' /\ [Next]_vars => [Promise!Next]_FateMap
<1> SUFFICES ASSUME IInv, IInv', Known, Known', [Next]_vars
             PROVE  [Promise!Next]_FateMap
  OBVIOUS
<1> USE ApprovalAssumption DEF IInv, Thread
<1>1. ASSUME NEW r \in Request, NEW i \in Incident, ApproveCheck(r, i) PROVE \A j \in Incident : Fate(j)' = Fate(j)
  <2> SUFFICES ASSUME NEW j \in Incident PROVE Fate(j)' = Fate(j)
    OBVIOUS
  <2> USE <1>1 DEF ApproveCheck, CheckPending, Goto, Finish
  <2>1. /\ severity'[j] = severity[j] /\ sent'[j] = sent[j]
        /\ status'[j] = "none" <=> status[j] = "none"
    BY DEF Known, Live, TypeOK, Threads, Calls, Unborn, OneRight, Carries
  <2>2. (\E r_1 \in Request : Dismissed(r_1, j))' <=> (\E r_1 \in Request : Dismissed(r_1, j))
    BY DEF Dismissed, TypeOK, Threads, Calls
  <2>3. Live(j)' <=> Live(j)
    BY DEF Live, Carries, TypeOK, Threads
  <2> QED BY <2>1, <2>2, <2>3, SameFate
<1>2. ASSUME NEW r \in Request, NEW i \in Incident, DismissCheck(r, i) PROVE \A j \in Incident : Fate(j)' = Fate(j)
  <2> SUFFICES ASSUME NEW j \in Incident PROVE Fate(j)' = Fate(j)
    OBVIOUS
  <2> USE <1>2 DEF DismissCheck, CheckPending, Goto, Finish
  <2>1. /\ severity'[j] = severity[j] /\ sent'[j] = sent[j]
        /\ status'[j] = "none" <=> status[j] = "none"
    BY DEF Known, Live, TypeOK, Threads, Calls, Unborn, OneRight, Carries
  <2>2. (\E r_1 \in Request : Dismissed(r_1, j))' <=> (\E r_1 \in Request : Dismissed(r_1, j))
    BY DEF Dismissed, TypeOK, Threads, Calls
  <2>3. Live(j)' <=> Live(j)
    BY DEF Live, Carries, TypeOK, Threads
  <2> QED BY <2>1, <2>2, <2>3, SameFate
<1>3. ASSUME StartTimer PROVE \A j \in Incident : Fate(j)' = Fate(j)
  <2> SUFFICES ASSUME NEW j \in Incident PROVE Fate(j)' = Fate(j)
    OBVIOUS
  <2> USE <1>3 DEF StartTimer
  <2>1. /\ severity'[j] = severity[j] /\ sent'[j] = sent[j]
        /\ status'[j] = "none" <=> status[j] = "none"
    BY DEF Known, Live, TypeOK, Threads, Calls, Unborn, OneRight, Carries
  <2>2. (\E r_1 \in Request : Dismissed(r_1, j))' <=> (\E r_1 \in Request : Dismissed(r_1, j))
    BY DEF Dismissed, TypeOK, Threads, Calls
  <2>3. Live(j)' <=> Live(j)
    <3>1. ASSUME NEW t \in Thread PROVE Carries(t, j)' <=> Carries(t, j)
      BY DEF Known, TypeOK, Threads, Carries
    <3> QED BY <3>1 DEF Live
  <2> QED BY <2>1, <2>2, <2>3, SameFate
<1>4. ASSUME NEW i \in Incident, Wake(i) PROVE \A j \in Incident : Fate(j)' = Fate(j)
  <2> SUFFICES ASSUME NEW j \in Incident PROVE Fate(j)' = Fate(j)
    OBVIOUS
  <2> USE <1>4 DEF Wake
  <2>1. /\ severity'[j] = severity[j] /\ sent'[j] = sent[j]
        /\ status'[j] = "none" <=> status[j] = "none"
    BY DEF Known, Live, TypeOK, Threads, Calls, Unborn, OneRight, Carries
  <2>2. (\E r_1 \in Request : Dismissed(r_1, j))' <=> (\E r_1 \in Request : Dismissed(r_1, j))
    BY DEF Dismissed, TypeOK, Threads, Calls
  <2>3. Live(j)' <=> Live(j)
    BY DEF Live, Carries, TypeOK, Threads
  <2> QED BY <2>1, <2>2, <2>3, SameFate
<1>5. ASSUME NEW i \in Incident, PopOnTimeout(i) PROVE \A j \in Incident : Fate(j)' = Fate(j)
  <2> SUFFICES ASSUME NEW j \in Incident PROVE Fate(j)' = Fate(j)
    OBVIOUS
  <2> USE <1>5 DEF PopOnTimeout
  <2>1. /\ severity'[j] = severity[j] /\ sent'[j] = sent[j]
        /\ status'[j] = "none" <=> status[j] = "none"
    BY DEF Known, Live, TypeOK, Threads, Calls, Unborn, OneRight, Carries
  <2>2. (\E r_1 \in Request : Dismissed(r_1, j))' <=> (\E r_1 \in Request : Dismissed(r_1, j))
    BY DEF Dismissed, TypeOK, Threads, Calls
  <2>3. Live(j)' <=> Live(j)
    BY DEF Live, Carries, TypeOK, Threads
  <2> QED BY <2>1, <2>2, <2>3, SameFate
<1>6. ASSUME NEW r \in Request, ApprovePop(r) PROVE \A j \in Incident : Fate(j)' = Fate(j)
  <2> SUFFICES ASSUME NEW j \in Incident PROVE Fate(j)' = Fate(j)
    OBVIOUS
  <2> USE <1>6 DEF ApprovePop, Finish
  <2>1. /\ severity'[j] = severity[j] /\ sent'[j] = sent[j]
        /\ status'[j] = "none" <=> status[j] = "none"
    BY DEF Known, Live, TypeOK, Threads, Calls, Unborn, OneRight, Carries
  <2>2. (\E r_1 \in Request : Dismissed(r_1, j))' <=> (\E r_1 \in Request : Dismissed(r_1, j))
    BY DEF Dismissed, TypeOK, Threads, Calls
  <2>3. Live(j)' <=> Live(j)
    BY DEF Live, Carries, TypeOK, Threads
  <2> QED BY <2>1, <2>2, <2>3, SameFate
<1>7. ASSUME NEW r \in Request, DismissLookup(r) PROVE \A j \in Incident : Fate(j)' = Fate(j)
  <2> SUFFICES ASSUME NEW j \in Incident PROVE Fate(j)' = Fate(j)
    OBVIOUS
  <2> USE <1>7 DEF DismissLookup, Goto, Finish
  <2>1. /\ severity'[j] = severity[j] /\ sent'[j] = sent[j]
        /\ status'[j] = "none" <=> status[j] = "none"
    BY DEF Known, Live, TypeOK, Threads, Calls, Unborn, OneRight, Carries
  <2>2. (\E r_1 \in Request : Dismissed(r_1, j))' <=> (\E r_1 \in Request : Dismissed(r_1, j))
    BY DEF Dismissed, TypeOK, Threads, Calls
  <2>3. Live(j)' <=> Live(j)
    BY DEF Live, Carries, TypeOK, Threads
  <2> QED BY <2>1, <2>2, <2>3, SameFate
<1>8. ASSUME NEW r \in Request, DismissMark(r) PROVE \A j \in Incident : Fate(j)' = Fate(j)
  <2> SUFFICES ASSUME NEW j \in Incident PROVE Fate(j)' = Fate(j)
    OBVIOUS
  <2> USE <1>8 DEF DismissMark
  <2>1. /\ severity'[j] = severity[j] /\ sent'[j] = sent[j]
        /\ status'[j] = "none" <=> status[j] = "none"
    BY DEF Known, Live, TypeOK, Threads, Calls, Unborn, OneRight, Carries
  <2>2. (\E r_1 \in Request : Dismissed(r_1, j))' <=> (\E r_1 \in Request : Dismissed(r_1, j))
    BY DEF Dismissed, TypeOK, Threads, Calls
  <2>3. Live(j)' <=> Live(j)
    BY DEF Live, Carries, TypeOK, Threads
  <2> QED BY <2>1, <2>2, <2>3, SameFate
<1>9. ASSUME NEW r \in Request, Reply(r) PROVE \A j \in Incident : Fate(j)' = Fate(j)
  <2> SUFFICES ASSUME NEW j \in Incident PROVE Fate(j)' = Fate(j)
    OBVIOUS
  <2> USE <1>9 DEF Reply, Finish
  <2>1. /\ severity'[j] = severity[j] /\ sent'[j] = sent[j]
        /\ status'[j] = "none" <=> status[j] = "none"
    BY DEF Known, Live, TypeOK, Threads, Calls, Unborn, OneRight, Carries
  <2>2. (\E r_1 \in Request : Dismissed(r_1, j))' <=> (\E r_1 \in Request : Dismissed(r_1, j))
    BY DEF Dismissed, TypeOK, Threads, Calls
  <2>3. Live(j)' <=> Live(j)
    BY DEF Live, Carries, TypeOK, Threads
  <2> QED BY <2>1, <2>2, <2>3, SameFate
<1>10. ASSUME NEW t \in Thread, Stamp(t) PROVE \A j \in Incident : Fate(j)' = Fate(j)
  <2> SUFFICES ASSUME NEW j \in Incident PROVE Fate(j)' = Fate(j)
    OBVIOUS
  <2> USE <1>10 DEF Stamp
  <2>1. /\ severity'[j] = severity[j] /\ sent'[j] = sent[j]
        /\ status'[j] = "none" <=> status[j] = "none"
    BY DEF Known, Live, TypeOK, Threads, Calls, Unborn, OneRight, Carries
  <2>2. (\E r_1 \in Request : Dismissed(r_1, j))' <=> (\E r_1 \in Request : Dismissed(r_1, j))
    BY DEF Dismissed, TypeOK, Threads, Calls
  <2>3. Live(j)' <=> Live(j)
    BY DEF Live, Carries, TypeOK, Threads
  <2> QED BY <2>1, <2>2, <2>3, SameFate
<1>11. ASSUME Restart PROVE \A j \in Incident : Fate(j)' = Fate(j)
  <2> SUFFICES ASSUME NEW j \in Incident PROVE Fate(j)' = Fate(j)
    OBVIOUS
  <2> USE <1>11 DEF Restart
  <2>1. /\ severity'[j] = severity[j] /\ sent'[j] = sent[j]
        /\ status'[j] = "none" <=> status[j] = "none"
    BY DEF Known, Live, TypeOK, Threads, Calls, Unborn, OneRight, Carries
  <2>2. (\E r_1 \in Request : Dismissed(r_1, j))' <=> (\E r_1 \in Request : Dismissed(r_1, j))
    BY DEF Dismissed, TypeOK, Threads, Calls
  <2>3. Live(j)' <=> Live(j)
    BY DEF Live, Carries, TypeOK, Threads
  <2> QED BY <2>1, <2>2, <2>3, SameFate
<1>12. ASSUME NEW i \in Incident, RaiseHigh(i) PROVE Promise!Next
  <2> USE <1>12 DEF RaiseHigh, Goto
  <2>1. ASSUME NEW j \in Incident \ {i} PROVE Fate(j)' = Fate(j)
    <3>1. /\ severity'[j] = severity[j] /\ sent'[j] = sent[j]
          /\ status'[j] = status[j]
      BY DEF TypeOK, Threads
    <3>2. (\E q \in Request : Dismissed(q, j))' <=> (\E q \in Request : Dismissed(q, j))
      BY DEF Dismissed, TypeOK, Threads, Calls
    <3>3. Live(j)' <=> Live(j)
      BY DEF Live, Carries, TypeOK, Threads
    <3> QED BY <3>1, <3>2, <3>3, SameFate
  <2>2. Fate(i) = "none"
    BY FreshFate
  <2>3. Live(i)'
    BY DEF Live, Carries, TypeOK, Threads
  <2>4. Fate(i)' = "waiting"
    <3>1. severity'[i] # "none" /\ status'[i] # "none" /\ sent'[i] = 0
      BY DEF TypeOK, Unborn, Fresh
    <3>2. \A q \in Request : ~Dismissed(q, i)'
      BY DEF Dismissed, TypeOK, Threads, Unborn, Fresh
    <3> QED BY <2>3, <3>1, <3>2 DEF Fate, Fresh
  <2> QED BY <2>1, <2>2, <2>4, RaiseStep
<1>13. ASSUME NEW i \in Incident, RaiseCritical(i) PROVE Promise!Next
  <2> USE <1>13 DEF RaiseCritical, Goto
  <2>1. ASSUME NEW j \in Incident \ {i} PROVE Fate(j)' = Fate(j)
    <3>1. /\ severity'[j] = severity[j] /\ sent'[j] = sent[j]
          /\ status'[j] = status[j]
      BY DEF TypeOK, Threads
    <3>2. (\E q \in Request : Dismissed(q, j))' <=> (\E q \in Request : Dismissed(q, j))
      BY DEF Dismissed, TypeOK, Threads, Calls
    <3>3. Live(j)' <=> Live(j)
      BY DEF Live, Carries, TypeOK, Threads
    <3> QED BY <3>1, <3>2, <3>3, SameFate
  <2>2. Fate(i) = "none"
    BY FreshFate
  <2>3. Live(i)'
    BY DEF Live, Carries, TypeOK, Threads
  <2>4. Fate(i)' = "waiting"
    <3>1. severity'[i] # "none" /\ status'[i] # "none" /\ sent'[i] = 0
      BY DEF TypeOK, Unborn, Fresh
    <3>2. \A q \in Request : ~Dismissed(q, i)'
      BY DEF Dismissed, TypeOK, Threads, Unborn, Fresh
    <3> QED BY <2>3, <3>1, <3>2 DEF Fate, Fresh
  <2> QED BY <2>1, <2>2, <2>4, RaiseStep
<1>14. ASSUME NEW i \in Incident, RaiseEnforcement(i) PROVE Promise!Next
  <2> USE <1>14 DEF RaiseEnforcement
  <2>1. ASSUME NEW j \in Incident \ {i} PROVE Fate(j)' = Fate(j)
    <3>1. /\ severity'[j] = severity[j] /\ sent'[j] = sent[j]
          /\ status'[j] = status[j]
      BY DEF TypeOK, Threads
    <3>2. (\E q \in Request : Dismissed(q, j))' <=> (\E q \in Request : Dismissed(q, j))
      BY DEF Dismissed, TypeOK, Threads, Calls
    <3>3. Live(j)' <=> Live(j)
      BY DEF Live, Carries, TypeOK, Threads
    <3> QED BY <3>1, <3>2, <3>3, SameFate
  <2>2. Fate(i) = "none"
    BY FreshFate
  <2>3. Fate(i)' = "kept"
    BY DEF Fate, Fresh, Known, TypeOK
  <2> QED BY <2>1, <2>2, <2>3, RaiseStep
<1>15. ASSUME NEW r \in Request, NEW i \in Incident, ManualEscalate(r, i) PROVE Promise!Next
  <2> USE <1>15 DEF ManualEscalate, Goto
  <2>1. ASSUME NEW j \in Incident \ {i} PROVE Fate(j)' = Fate(j)
    <3>1. /\ severity'[j] = severity[j] /\ sent'[j] = sent[j]
          /\ status'[j] = status[j]
      BY DEF TypeOK, Threads
    <3>2. (\E q \in Request : Dismissed(q, j))' <=> (\E q \in Request : Dismissed(q, j))
      BY DEF Dismissed, TypeOK, Threads, Calls
    <3>3. Live(j)' <=> Live(j)
      BY DEF Live, Carries, TypeOK, Threads
    <3> QED BY <3>1, <3>2, <3>3, SameFate
  <2>2. Fate(i) = "none"
    BY FreshFate
  <2>3. Live(i)'
    BY DEF Live, Carries, TypeOK, Threads
  <2>4. Fate(i)' = "waiting"
    <3>1. severity'[i] # "none" /\ status'[i] # "none" /\ sent'[i] = 0
      BY DEF TypeOK, Unborn, Fresh
    <3>2. \A q \in Request : ~Dismissed(q, i)'
      BY DEF Dismissed, TypeOK, Threads, Unborn, Fresh
    <3> QED BY <2>3, <3>1, <3>2 DEF Fate, Fresh
  <2> QED BY <2>1, <2>2, <2>4, RaiseStep
<1>16. ASSUME NEW r \in Request, DismissDelete(r), held[r] \in pending PROVE Promise!Next
  <2> USE <1>16 DEF DismissDelete, Finish
  <2> DEFINE i == held[r]
  <2>0. i \in Incident
    BY DEF TypeOK
  <2>1. ASSUME NEW j \in Incident \ {i} PROVE Fate(j)' = Fate(j)
    <3>1. /\ severity'[j] = severity[j] /\ sent'[j] = sent[j]
          /\ status'[j] = status[j]
      BY <2>0 DEF TypeOK, Threads
    <3>2. (\E q \in Request : Dismissed(q, j))' <=> (\E q \in Request : Dismissed(q, j))
      BY <2>0 DEF Dismissed, TypeOK, Threads, Calls
    <3>3. Live(j)' <=> Live(j)
      BY <2>0 DEF Live, Carries, TypeOK, Threads
    <3> QED BY <3>1, <3>2, <3>3, SameFate
  <2>2. Fate(i) = "waiting"
    BY <2>0, LiveFate DEF Live
  <2>3. Fate(i)' = "dismissed"
    <3>1. ~Fresh(i)' /\ status'[i] # "none" /\ sent'[i] = 0
      BY <2>0 DEF Fresh, Known, Live, Unborn, OneRight
    <3>2. Dismissed(r, i)'
      BY <2>0 DEF Dismissed, TypeOK
    <3> QED BY <3>1, <3>2 DEF Fate
  <2> QED BY <2>0, <2>1, <2>2, <2>3, DecideStep
<1>17. ASSUME NEW r \in Request, DismissDelete(r), held[r] \notin pending
       PROVE  \A j \in Incident : Fate(j)' = Fate(j)
  <2> SUFFICES ASSUME NEW j \in Incident PROVE Fate(j)' = Fate(j)
    OBVIOUS
  <2> USE <1>17 DEF DismissDelete, Finish
  <2>1. severity'[j] = severity[j] /\ sent'[j] = sent[j] /\ status'[j] = status[j]
    OBVIOUS
  <2>2. (\E q \in Request : Dismissed(q, j))' <=> (\E q \in Request : Dismissed(q, j))
    BY DEF Dismissed, TypeOK, Threads, Calls
  <2>3. Live(j)' <=> Live(j)
    BY DEF Live, Carries, TypeOK, Threads
  <2> QED BY <2>1, <2>2, <2>3, SameFate
<1>18. ASSUME NEW t \in Thread, Publish(t) PROVE Promise!Next
  <2> USE <1>18 DEF Publish
  <2> DEFINE i == held[t]
  <2>0. i \in Incident /\ Carries(t, i)
    BY DEF TypeOK, Threads, Carries
  <2>1. AfterEscalate(t) \in {"idle", "finished", "replying"}
    BY DEF AfterEscalate
  <2>2. \A u \in Thread, j \in Incident : Carries(u, j)' <=> Carries(u, j) /\ u # t
    BY <2>1 DEF Carries, TypeOK
  <2>3. ~Live(i)'
    BY <2>0, <2>2 DEF Live, OneRight
  <2>4. \A q \in Request, j \in Incident : Dismissed(q, j)' <=> Dismissed(q, j)
    BY DEF Dismissed
  <2>5. ASSUME NEW j \in Incident \ {i} PROVE Fate(j)' = Fate(j)
    <3>1. severity'[j] = severity[j] /\ sent'[j] = sent[j] /\ status'[j] = status[j]
      BY <2>0 DEF TypeOK
    <3>2. Live(j)' <=> Live(j)
      BY <2>0, <2>2 DEF Live, Carries
    <3> QED BY <2>4, <3>1, <3>2, SameFate
  <2>6. Fate(i) = "waiting"
    BY <2>0, LiveFate DEF Live
  <2>7. ~Fresh(i)' /\ status'[i] # "none"
    BY <2>0 DEF Fresh, Known, Live, Carries, Unborn
  <2>8. CASE sent' = [sent EXCEPT ![i] = @ + 1]
    <3>1. sent'[i] > 0
      BY <2>0, <2>8 DEF TypeOK
    <3>2. Fate(i)' = "escalated"
      BY <2>7, <3>1 DEF Fate
    <3> QED BY <2>0, <2>5, <2>6, <3>2, DecideStep
  <2>9. CASE UNCHANGED sent
    <3>1. sent'[i] = 0 /\ \A q \in Request : ~Dismissed(q, i)'
      BY <2>0, <2>4, <2>9 DEF OneRight
    <3>2. Fate(i)' = "lost"
      BY <2>3, <2>7, <3>1 DEF Fate
    <3>3. {i} \in SUBSET Incident /\ \A j \in {i} : Fate(j) = "waiting" /\ Fate(j)' = "lost"
      BY <2>0, <2>6, <3>2
    <3>4. \A j \in Incident \ {i} : Fate(j)' = Fate(j)
      BY <2>5
    <3> HIDE DEF i
    <3> QED BY <3>3, <3>4, LoseStep
  <2> QED BY <2>8, <2>9
<1>19. CASE Crash
  <2> USE <1>19 DEF Crash
  <2> DEFINE S == {j \in Incident : Fate(j) = "waiting"}
  <2>1. ASSUME NEW j \in Incident PROVE ~Live(j)'
    BY DEF Live, Carries, TypeOK
  <2>2. ASSUME NEW j \in Incident
        PROVE  /\ Fresh(j)' <=> Fresh(j)
               /\ (\E q \in Request : Dismissed(q, j))' <=> (\E q \in Request : Dismissed(q, j))
    BY DEF Fresh, Dismissed
  <2>3. ASSUME NEW j \in S PROVE Fate(j)' = "lost"
    BY <2>1, <2>2 DEF Fate
  <2>4. ASSUME NEW j \in Incident \ S PROVE Fate(j)' = Fate(j)
    BY <2>1, <2>2 DEF Fate
  <2> QED BY <2>3, <2>4, LoseStep
<1>20. ASSUME UNCHANGED vars PROVE \A j \in Incident : Fate(j)' = Fate(j)
  BY <1>20 DEF vars, Fate, Fresh, Dismissed, Live, Carries
<1>21. ASSUME \A j \in Incident : Fate(j)' = Fate(j) PROVE UNCHANGED FateMap
  BY <1>21 DEF FateMap
<1> QED
  BY <1>1, <1>2, <1>3, <1>4, <1>5, <1>6, <1>7, <1>8, <1>9, <1>10, <1>11, <1>12, <1>13, <1>14, <1>15, <1>16, <1>17, <1>18, <1>19, <1>20, <1>21 DEF Next, Arrival, ThreadStep

\* The manager implements IncidentFate: every incident has one fate and keeps
\* it, however the threads interleave, crash and restart.
THEOREM PromiseKept == Spec => KeepsPromise
<1>1. Init => Known
  BY ApprovalAssumption DEF Init, Known, Live, Carries, Thread
<1>2. Init => Promise!Init
  BY FreshFate DEF Init, Promise!Init, Fresh
<1>3. IInv /\ IInv' /\ Known /\ Known' /\ [Next]_vars => [Promise!Next]_FateMap
  BY NextPromise
<1> QED BY <1>1, <1>2, <1>3, NextKnown, Invariance, PTL DEF Spec, KeepsPromise, Promise!Spec, FateMap
=============================================================================
