---------------------------- MODULE IncidentFate ----------------------------
(***************************************************************************)
(* What a local manager promises about an incident, without saying how:    *)
(* once raised it waits, and its wait ends in exactly one way.  A fate,    *)
(* once reached, is final.  An incident may also be lost, alone when the   *)
(* producer refuses the record and together with every other waiting one   *)
(* when the manager's process dies.                                        *)
(***************************************************************************)

CONSTANT Incident       \* the identifiers (uuid4) of incidents

VARIABLE fate           \* fate[i]: what has become of incident i

\* "none": not raised yet.  "kept": recorded locally and never offered to HQ.
Fates == {"none", "waiting", "kept", "escalated", "dismissed", "lost"}

TypeOK == fate \in [Incident -> Fates]

Init == fate = [i \in Incident |-> "none"]

\* A new incident waits for a decision, or is only kept.
Raise(i) ==
    /\ fate[i] = "none"
    /\ \E f \in {"waiting", "kept"} : fate' = [fate EXCEPT ![i] = f]

\* The wait of one incident ends: HQ is told, or an operator dismissed it.
Decide(i) ==
    /\ fate[i] = "waiting"
    /\ \E f \in {"escalated", "dismissed"} : fate' = [fate EXCEPT ![i] = f]

\* Some waiting incidents are forgotten.
Lose(S) ==
    /\ \A i \in S : fate[i] = "waiting"
    /\ fate' = [i \in Incident |-> IF i \in S THEN "lost" ELSE fate[i]]

Next ==
    \/ \E i \in Incident : Raise(i)
    \/ \E i \in Incident : Decide(i)
    \/ \E S \in SUBSET Incident : Lose(S)

Spec == Init /\ [][Next]_fate
=============================================================================
