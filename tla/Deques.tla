------------------------------- MODULE Deques -------------------------------
(***************************************************************************)
(* collections.deque(maxlen=n), as the agents and the local managers use   *)
(* it to remember alerts, swipes and flows: the newest entry is the last,  *)
(* and an entry more than n pushes the oldest one out.  The rules look     *)
(* only at entries younger than a window.  An entry is a record with an    *)
(* age in ticks, and one that no rule can count any more is dropped.       *)
(***************************************************************************)
EXTENDS Integers, Sequences

LastOf(s, n) == SubSeq(s, IF Len(s) > n THEN Len(s) - n + 1 ELSE 1, Len(s))

\* append, with maxlen n
Push(s, e, n) == LastOf(Append(s, e), n)

\* s without what comes before the first of its indices in I
From(s, I) ==
    IF I = {} THEN <<>> ELSE SubSeq(s, CHOOSE i \in I : \A j \in I : i <= j, Len(s))

\* A tick later: entries grow older, and those older than the limit are gone.
Grown(e) == [e EXCEPT !.age = @ + 1]
Aging(s, limit) ==
    From([i \in DOMAIN s |-> Grown(s[i])], {i \in DOMAIN s : s[i].age < limit})

=============================================================================
