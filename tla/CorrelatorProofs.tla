-------------------------- MODULE CorrelatorProofs --------------------------
(***************************************************************************)
(* What the analytical agent of HQ reports and keeps of its chains, proved *)
(* for any incidents, actors, windows, cooldowns and restarts.             *)
(*                                                                         *)
(* A rule that finds what it found a short time ago keeps silent.  Backed  *)
(* says why that loses nothing: behind every silence there is a chain no   *)
(* older than the cooldown, and a pair of incidents, once covered by a     *)
(* chain, ages no faster than the chain does.                              *)
(***************************************************************************)
EXTENDS Correlator, FiniteSetTheorems, WellFoundedInduction, TLAPS

-----------------------------------------------------------------------------
(* Sets as sequences, and the least of some numbers.                       *)

LEMMA SetToSeqIs ==
  ASSUME NEW S, IsFiniteSet(S)
  PROVE  /\ SetToSeq(S) \in Seq(S) /\ Len(SetToSeq(S)) = Cardinality(S)
         /\ \A x \in S : \E n \in DOMAIN SetToSeq(S) : SetToSeq(S)[n] = x
<1> DEFINE N == Cardinality(S)
           f == SetToSeq(S)
<1>1. N \in Nat /\ ExistsBijection(1..N, S)
  BY FS_CardinalityType
<1>2. PICK g : g \in Bijection(1..N, S)
  BY <1>1 DEF ExistsBijection
<1>3. g \in [1..N -> S] /\ IsInjective(g)
  BY <1>2 DEF Bijection, Injection
<1>4. f \in [1..N -> S] /\ IsInjective(f)
  BY <1>3 DEF SetToSeq
<1>5. f \in Seq(S) /\ Len(f) = N /\ DOMAIN f = 1..N
  BY <1>1, <1>4
<1>6. \A x \in S : \E n \in DOMAIN f : f[n] = x
  <2>1. f \in Injection(1..N, S)
    BY <1>4 DEF Injection
  <2>2. IsFiniteSet(1..N) /\ Cardinality(1..N) = N
    BY <1>1, FS_Interval
  <2> HIDE DEF f
  <2>3. f \in Surjection(1..N, S)
    BY <2>1, <2>2, FS_Injection
  <2> QED
    BY <1>5, <2>3 DEF Surjection
<1> QED
  BY <1>5, <1>6

LEMMA Least ==
  ASSUME NEW S, S \subseteq Nat, S # {}
  PROVE  LET n == CHOOSE k \in S : \A l \in S : k <= l IN n \in S /\ \A l \in S : n <= l
<1>1. PICK k \in S : \A l \in S : ~(<<l, k>> \in OpToRel(<, Nat))
  BY NatLessThanWellFounded, WFMin
<1>2. \A l \in S : k <= l
  <2> SUFFICES ASSUME NEW l \in S, ~(k <= l) PROVE FALSE
    OBVIOUS
  <2>1. k \in Nat /\ l \in Nat /\ l < k
    OBVIOUS
  <2>2. <<l, k>> \in Nat \X Nat /\ <<l, k>>[1] = l /\ <<l, k>>[2] = k
    BY <2>1
  <2>3. <<l, k>> \in OpToRel(<, Nat)
    BY <2>1, <2>2 DEF OpToRel
  <2> QED
    BY <1>1, <2>3
<1> QED
  BY <1>2

-----------------------------------------------------------------------------
(* Types.                                                                  *)

Entry  == [of : Incident, age : 0..Old]
Record == [type : Types, severity : {HIGH, CRITICAL}, who : SUBSET (Domain \cup Actor),
           sent : BOOLEAN]
Status == {"active", "stale", "resolved"}
Pc     == {"resting", "due", "sweeping", "marking", "dead"}

TopicType ==
    /\ incidents \in Seq(Incident) /\ apos \in 0..Len(incidents)
    /\ correlated \in Seq(Record) /\ Len(correlated) <= MaxCorrelations
    /\ resolves \subseteq Chain /\ unread \subseteq resolves
    /\ restarts \in 0..MaxFaults

MemoryType ==
    /\ byDomain \in [Domain -> Seq(Entry)]
    /\ \A d \in Domain : Len(byDomain[d]) <= MaxRecent
    /\ stages \in [Actor -> [Stage -> 0..Old]]
    /\ DOMAIN dedup \subseteq Key /\ \A k \in DOMAIN dedup : dedup[k] \in 0..Long

ChainType ==
    /\ DOMAIN chains \subseteq 1..Len(correlated)
    /\ \A n \in DOMAIN chains : chains[n] \in [status : Status, age : 0..Old]

\* The sweep looks at chains of this life, and marks one that it saw active.
SweepType ==
    /\ sweep \in [pc : Pc, left : SUBSET Chain, size : 0..MaxCorrelations,
                  at : 0..MaxCorrelations, saw : Status]
    /\ sweep.left \subseteq DOMAIN chains
    /\ sweep.pc = "marking" => sweep.saw = "active" /\ sweep.at \in DOMAIN chains

TypeInv == TopicType /\ MemoryType /\ ChainType /\ SweepType

LEMMA Numbers ==
  /\ {Fast, Slow, Short, Long, MaxRecent, MaxCorrelations, MaxIncidents, MaxResolves,
      MaxFaults} \subseteq Nat
  /\ Old \in Nat /\ Fast < Old /\ Long < Old
  /\ 0 < Short /\ Short <= Long /\ MaxRecent > 0
BY CorrelatorAssumption DEF Old

LEMMA TypeInit == Init => TypeInv
<1> SUFFICES ASSUME Init PROVE TypeInv
  OBVIOUS
<1> USE Numbers DEF Init
<1>1. TopicType
  BY DEF TopicType
<1>2. MemoryType
  BY DEF MemoryType
<1>3. ChainType
  BY DEF ChainType
<1>4. SweepType
  BY DEF SweepType, Resting, Pc, Status
<1> QED
  BY <1>1, <1>2, <1>3, <1>4 DEF TypeInv

-----------------------------------------------------------------------------
(* One incident.                                                           *)

\* What an incident correlates.
Hits(i) ==
    {k \in Coordinated(i, Remember(i)) \cup CampusWide(Remember(i)) \cup Insider(Remember(i))
           \cup IotBridge(Remember(i)) \cup Combo(Remember(i)) \cup Progression(SeeStage(i)) :
        MayFire(k)}

LEMMA AppendIs ==
  ASSUME NEW S, NEW u \in Seq(S), NEW e \in S
  PROVE  /\ Append(u, e) \in Seq(S) /\ Len(u) \in Nat /\ Len(Append(u, e)) = Len(u) + 1
         /\ DOMAIN Append(u, e) = 1..Len(u) + 1 /\ DOMAIN u = 1..Len(u)
         /\ \A j \in 1..Len(u) : Append(u, e)[j] = u[j]
         /\ Append(u, e)[Len(u) + 1] = e
OBVIOUS

LEMMA RememberType ==
  ASSUME MemoryType, NEW i \in Incident
  PROVE  /\ Remember(i) \in [Domain -> Seq(Entry)]
         /\ \A d \in Domain : Len(Remember(i)[d]) <= MaxRecent
         /\ \A d \in Domain : \A j \in DOMAIN Remember(i)[d] :
               \/ d = i.domain /\ Remember(i)[d][j] = [of |-> i, age |-> 0]
               \/ \E k \in DOMAIN byDomain[d] : Remember(i)[d][j] = byDomain[d][k]
<1> DEFINE e == [of |-> i, age |-> 0]
<1>1. e \in Entry
  BY Numbers DEF Entry
<1> HIDE DEF e
<1>2. CASE i.domain \notin Domain
  BY <1>2 DEF Remember, MemoryType
<1>3. CASE i.domain \in Domain
  <2> DEFINE s == byDomain[i.domain]
             t == IF Len(s) < MaxRecent THEN Append(s, e) ELSE Append(Tail(s), e)
  <2>1. s \in Seq(Entry) /\ Len(s) \in Nat /\ Len(s) <= MaxRecent
    BY <1>3 DEF MemoryType
  <2>2. Remember(i) = [byDomain EXCEPT ![i.domain] = t]
    BY <1>3 DEF Remember, e
  <2>3. /\ t \in Seq(Entry) /\ Len(t) <= MaxRecent
        /\ \A j \in DOMAIN t : t[j] = e \/ \E k \in DOMAIN s : t[j] = s[k]
    <3> HIDE DEF s
    <3>1. CASE Len(s) < MaxRecent
      <4>1. t = Append(s, e)
        BY <3>1
      <4> HIDE DEF t
      <4>2. /\ t \in Seq(Entry) /\ Len(t) = Len(s) + 1
            /\ DOMAIN t = 1..Len(s) + 1 /\ DOMAIN s = 1..Len(s)
            /\ \A j \in 1..Len(s) : t[j] = s[j]
            /\ t[Len(s) + 1] = e
        BY <1>1, <2>1, <4>1, AppendIs
      <4>3. Len(t) <= MaxRecent
        BY <2>1, <3>1, <4>2, Numbers
      <4>4. \A j \in DOMAIN t : j \in DOMAIN s \/ j = Len(s) + 1
        BY <2>1, <4>2
      <4> QED
        BY <4>2, <4>3, <4>4
    <3>2. CASE ~(Len(s) < MaxRecent)
      <4>1. t = Append(Tail(s), e)
        BY <3>2
      <4>2. Len(s) > 0 /\ s # <<>>
        BY <2>1, <3>2, Numbers
      <4>3. /\ Tail(s) \in Seq(Entry) /\ Len(Tail(s)) = Len(s) - 1
            /\ \A j \in 1..Len(s) - 1 : Tail(s)[j] = s[j + 1]
        BY <2>1, <4>2
      <4> DEFINE u == Tail(s)
      <4>4. u \in Seq(Entry) /\ Len(u) = Len(s) - 1
            /\ \A j \in 1..Len(u) : \E k \in DOMAIN s : u[j] = s[k]
        BY <2>1, <4>3
      <4> HIDE DEF u
      <4>5. /\ Append(u, e) \in Seq(Entry) /\ Len(Append(u, e)) = Len(s)
            /\ \A j \in DOMAIN Append(u, e) : Append(u, e)[j] = e \/ j \in 1..Len(u)
            /\ \A j \in 1..Len(u) : Append(u, e)[j] = u[j]
        <5>1. /\ Append(u, e) \in Seq(Entry) /\ Len(Append(u, e)) = Len(u) + 1
              /\ DOMAIN Append(u, e) = 1..Len(u) + 1
              /\ \A j \in 1..Len(u) : Append(u, e)[j] = u[j]
              /\ Append(u, e)[Len(u) + 1] = e
          BY <1>1, <4>4, AppendIs
        <5> QED
          BY <2>1, <4>4, <5>1
      <4> QED
        BY <2>1, <4>1, <4>4, <4>5 DEF u
    <3> QED
      BY <3>1, <3>2
  <2> HIDE DEF t
  <2> QED
    BY <1>3, <2>2, <2>3 DEF MemoryType, e
<1> QED
  BY <1>2, <1>3

LEMMA SeeStageType ==
  ASSUME MemoryType, NEW i \in Incident
  PROVE  SeeStage(i) \in [Actor -> [Stage -> 0..Old]]
<1>1. i.actor \in Actor /\ 0 \in 0..Old
  BY CorrelatorAssumption, Numbers
<1>2. StageOf(i.type) # "Unknown" => StageOf(i.type) \in Stage
  BY DEF Stage
<1> HIDE DEF Stage, StageOf
<1> QED
  BY <1>1, <1>2 DEF SeeStage, MemoryType

\* One key, or none.
LEMMA FoundType ==
  ASSUME NEW type \in Types, NEW who \in SUBSET (Domain \cup Actor)
  PROVE  Found(type, who) \subseteq Key /\ IsFiniteSet(Found(type, who))
<1>1. Found(type, who) \subseteq Key
  BY DEF Found, Key
<1>2. IsFiniteSet(Found(type, who))
  BY FS_Singleton DEF Found
<1> QED
  BY <1>1, <1>2

LEMMA HitsType ==
  ASSUME MemoryType, NEW i \in Incident
  PROVE  Hits(i) \subseteq Key /\ IsFiniteSet(Hits(i))
<1> DEFINE m == Remember(i)
           Fine(S) == S \subseteq Key /\ IsFiniteSet(S)
<1>0. m \in [Domain -> Seq(Entry)] /\ Fine({})
  BY RememberType, FS_EmptySet
<1> HIDE DEF m
<1>1. Fine(Coordinated(i, m))
  <2>1. {d \in Domain : Recent(m, d, Fast, HIGH) # {}} \in SUBSET (Domain \cup Actor)
    OBVIOUS
  <2>2. "coordinated_attack" \in Types
    BY DEF Types
  <2> QED
    BY <1>0, <2>1, <2>2, FoundType DEF Coordinated
<1>2. Fine(CampusWide(m)) /\ Fine(IotBridge(m)) /\ Fine(Combo(m))
  <2>1. {} \in SUBSET (Domain \cup Actor)
    OBVIOUS
  <2>2. {"campus_wide_threat", "iot_cyber_bridge", "physical_cyber_combo"} \subseteq Types
    BY DEF Types
  <2> QED
    BY <1>0, <2>1, <2>2, FoundType DEF CampusWide, IotBridge, Combo
<1>3. Fine(Insider(m))
  <2> DEFINE pac == RecentOf(m, "physical_access", Slow, MEDIUM,
                        {"unknown_card", "unauthorized_card", "after_hours", "badge_clone"})
             first == CHOOSE j \in pac : \A k \in pac : j <= k
  <2>1. ASSUME pac # {}
        PROVE  {m["physical_access"][first].of.actor} \in SUBSET (Domain \cup Actor)
    <3>1. m["physical_access"] \in Seq(Entry)
      BY <1>0 DEF Domain
    <3>2. pac \subseteq DOMAIN m["physical_access"]
      BY DEF RecentOf, Recent
    <3>3. pac \subseteq Nat
      BY <3>1, <3>2
    <3> HIDE DEF pac
    <3>4. first \in pac
      BY <2>1, <3>3, Least
    <3> HIDE DEF first
    <3>5. m["physical_access"][first] \in Entry
      BY <3>1, <3>2, <3>4
    <3>6. m["physical_access"][first].of.actor \in Actor
      BY <3>5, CorrelatorAssumption DEF Entry
    <3> QED
      BY <3>6
  <2>2. "insider_threat" \in Types
    BY DEF Types
  <2>3. Insider(m) = {} \/ (pac # {} /\
            Insider(m) = Found("insider_threat", {m["physical_access"][first].of.actor}))
    BY DEF Insider
  <2> HIDE DEF pac, first
  <2> QED
    BY <1>0, <2>1, <2>2, <2>3, FoundType
<1>4. Fine(Progression(SeeStage(i)))
  <2> DEFINE st == SeeStage(i)
             A == {b \in Actor : Cardinality({s \in Stage : st[b][s] <= Slow}) >= 3}
             key(a) == [type |-> "kill_chain_progression", who |-> {a}]
             T == {key(a) : a \in A}
             f == [a \in A |-> key(a)]
  <2>1. Progression(st) = T
    BY DEF Progression, Found
  <2>2. T \subseteq Key
    <3>1. "kill_chain_progression" \in Types
      BY DEF Types
    <3>2. ASSUME NEW a \in A PROVE key(a) \in Key
      <4>1. {a} \in SUBSET (Domain \cup Actor)
        OBVIOUS
      <4> QED
        BY <3>1, <4>1 DEF Key
    <3> HIDE DEF A
    <3> QED
      BY <3>2
  <2>3. IsFiniteSet(A)
    <3>1. A \subseteq Actor
      OBVIOUS
    <3> HIDE DEF A
    <3> QED
      BY <3>1, CorrelatorAssumption, FS_Subset
  <2>4. f \in Surjection(A, T)
    <3> HIDE DEF A
    <3> QED
      BY DEF Surjection
  <2>5. IsFiniteSet(T)
    <3> HIDE DEF A, T, f
    <3> QED
      BY <2>3, <2>4, FS_Surjection
  <2> QED
    BY <2>1, <2>2, <2>5
<1>5. \A S, T : Fine(S) /\ Fine(T) => Fine(S \cup T)
  BY FS_Union
<1> DEFINE all == Coordinated(i, m) \cup CampusWide(m) \cup Insider(m) \cup IotBridge(m)
                  \cup Combo(m) \cup Progression(SeeStage(i))
<1>6. Fine(all)
  <2> HIDE DEF Fine
  <2> QED
    BY <1>1, <1>2, <1>3, <1>4, <1>5
<1>7. Hits(i) \subseteq all
  BY DEF Hits, m
<1> HIDE DEF all
<1> QED
  BY <1>6, <1>7, FS_Subset

LEMMA JoinIs ==
  ASSUME NEW S, NEW s \in Seq(S), NEW t \in Seq(S)
  PROVE  /\ s \o t \in Seq(S) /\ Len(s \o t) = Len(s) + Len(t)
         /\ \A n \in 1..Len(s) : (s \o t)[n] = s[n]
         /\ \A n \in 1..Len(t) : (s \o t)[Len(s) + n] = t[n]
OBVIOUS

\* What handling an incident does to the chains: the old ones stay, and every hit
\* is the key of a new one.
LEMMA IncidentParts ==
  ASSUME TypeInv, HandleIncident
  PROVE  LET i == incidents[apos + 1] IN
         /\ i \in Incident /\ byDomain' = Remember(i) /\ stages' = SeeStage(i)
         /\ Hits(i) \subseteq Key
         /\ dedup' = [k \in DOMAIN dedup \cup Hits(i) |-> IF k \in Hits(i) THEN 0 ELSE dedup[k]]
         /\ correlated' \in Seq(Record) /\ Len(correlated') <= MaxCorrelations
         /\ Len(correlated) <= Len(correlated')
         /\ \A n \in 1..Len(correlated) : correlated'[n] = correlated[n]
         /\ DOMAIN chains \subseteq DOMAIN chains' /\ DOMAIN chains' \subseteq 1..Len(correlated')
         /\ \A n \in DOMAIN chains : chains'[n] = chains[n]
         /\ \A n \in DOMAIN chains' \ DOMAIN chains : chains'[n] = [status |-> "active", age |-> 0]
         /\ \A k \in Hits(i) : \E n \in DOMAIN chains' :
               /\ correlated'[n].type = k.type /\ correlated'[n].who = k.who
               /\ chains'[n] = [status |-> "active", age |-> 0]
<1> DEFINE i == incidents[apos + 1]
           new == SetToSeq(Hits(i))
           old == Len(correlated)
<1>1. i \in Incident
  <2>1. apos < Len(incidents)
    BY DEF HandleIncident
  <2>2. incidents \in Seq(Incident) /\ apos \in 0..Len(incidents)
    BY DEF TypeInv, TopicType
  <2>3. apos + 1 \in 1..Len(incidents)
    BY <2>1, <2>2
  <2> QED
    BY <2>2, <2>3
<1>2. Hits(i) \subseteq Key /\ IsFiniteSet(Hits(i))
  BY <1>1, HitsType DEF TypeInv
<1>3. PICK taken \in SUBSET Hits(i) :
         correlated' = correlated \o
            [n \in DOMAIN new |-> [type |-> new[n].type, severity |-> Severity(new[n].type),
                                   who |-> new[n].who, sent |-> new[n] \in taken]]
  BY DEF HandleIncident, Hits
<1> DEFINE more == [n \in DOMAIN new |-> [type |-> new[n].type, severity |-> Severity(new[n].type),
                                          who |-> new[n].who, sent |-> new[n] \in taken]]
<1>3a. /\ old + Len(new) <= MaxCorrelations
       /\ byDomain' = Remember(i) /\ stages' = SeeStage(i)
       /\ dedup' = [k \in DOMAIN dedup \cup Hits(i) |-> IF k \in Hits(i) THEN 0 ELSE dedup[k]]
       /\ chains' = [n \in DOMAIN chains \cup (old + 1)..(old + Len(new)) |->
                        IF n > old THEN [status |-> "active", age |-> 0] ELSE chains[n]]
  BY DEF HandleIncident, Hits
<1>3b. correlated' = correlated \o more
  BY <1>3
<1> HIDE DEF i
<1>4. /\ new \in Seq(Hits(i)) /\ Len(new) \in Nat /\ DOMAIN new = 1..Len(new)
      /\ \A x \in Hits(i) : \E n \in DOMAIN new : new[n] = x
  BY <1>2, SetToSeqIs
<1> HIDE DEF new
<1>5. \A n \in DOMAIN new : new[n] \in Hits(i) /\ more[n] \in Record
                            /\ more[n].type = new[n].type /\ more[n].who = new[n].who
  <2> TAKE n \in DOMAIN new
  <2>1. new[n] \in Hits(i) /\ new[n] \in Key
    BY <1>2, <1>4
  <2>2. new[n].type \in Types /\ new[n].who \in SUBSET (Domain \cup Actor)
    BY <2>1 DEF Key
  <2>3. Severity(new[n].type) \in {HIGH, CRITICAL}
    BY DEF Severity
  <2> QED
    BY <2>1, <2>2, <2>3 DEF Record
<1>6. more \in Seq(Record) /\ Len(more) = Len(new)
  BY <1>4, <1>5
<1>7. correlated \in Seq(Record) /\ old \in Nat /\ DOMAIN chains \subseteq 1..old
  BY DEF TypeInv, TopicType, ChainType
<1> HIDE DEF more
<1>8. /\ correlated' \in Seq(Record) /\ Len(correlated') = old + Len(new)
      /\ \A n \in 1..old : correlated'[n] = correlated[n]
      /\ \A n \in 1..Len(new) : correlated'[old + n] = more[n]
  <2> DEFINE all == correlated \o more
             N == Len(more)
  <2>1. /\ all \in Seq(Record) /\ Len(all) = old + N
        /\ \A n \in 1..old : all[n] = correlated[n]
        /\ \A n \in 1..N : all[old + n] = more[n]
    <3>1. correlated \in Seq(Record) /\ more \in Seq(Record)
      BY <1>6, <1>7
    <3>2. /\ correlated \o more \in Seq(Record)
          /\ Len(correlated \o more) = Len(correlated) + Len(more)
      BY <3>1, JoinIs
    <3>3. \A n \in 1..Len(correlated) : (correlated \o more)[n] = correlated[n]
      BY <3>1, JoinIs
    <3>4. \A n \in 1..Len(more) : (correlated \o more)[Len(correlated) + n] = more[n]
      BY <3>1, JoinIs
    <3> QED
      BY <3>2, <3>3, <3>4
  <2>2. correlated' = all /\ N = Len(new)
    BY <1>6, <1>3b
  <2> HIDE DEF old, all, N
  <2> QED
    BY <2>1, <2>2
<1> HIDE DEF old
<1>9. /\ DOMAIN chains \subseteq DOMAIN chains' /\ DOMAIN chains' \subseteq 1..(old + Len(new))
      /\ \A n \in DOMAIN chains : chains'[n] = chains[n]
      /\ \A n \in DOMAIN chains' \ DOMAIN chains : chains'[n] = [status |-> "active", age |-> 0]
      /\ \A n \in 1..Len(new) : /\ old + n \in DOMAIN chains'
                                /\ chains'[old + n] = [status |-> "active", age |-> 0]
  BY <1>4, <1>7, <1>3a
<1>10. \A k \in Hits(i) : \E n \in DOMAIN chains' :
          /\ correlated'[n].type = k.type /\ correlated'[n].who = k.who
          /\ chains'[n] = [status |-> "active", age |-> 0]
  <2> TAKE k \in Hits(i)
  <2>1. PICK n \in 1..Len(new) : new[n] = k
    BY <1>4
  <2>2. more[n].type = k.type /\ more[n].who = k.who
    BY <1>4, <1>5, <2>1
  <2> QED
    BY <1>8, <1>9, <2>1, <2>2
<1>11. old <= old + Len(new)
  BY <1>4, <1>7
<1> QED
  BY <1>1, <1>2, <1>8, <1>9, <1>10, <1>11, <1>3a DEF i, old

LEMMA IncidentType ==
  ASSUME TypeInv, HandleIncident
  PROVE  TypeInv'
<1> DEFINE i == incidents[apos + 1]
<1>1. i \in Incident
  BY IncidentParts
<1>2. TopicType'
  <2>1. correlated' \in Seq(Record) /\ Len(correlated') <= MaxCorrelations
    BY IncidentParts
  <2>2. /\ apos < Len(incidents) /\ apos' = apos + 1
        /\ UNCHANGED <<incidents, resolves, unread, restarts>>
    BY DEF HandleIncident
  <2>3. incidents \in Seq(Incident) /\ apos \in 0..Len(incidents)
    BY DEF TypeInv, TopicType
  <2>4. apos' \in 0..Len(incidents)
    BY <2>2, <2>3
  <2> QED
    BY <2>1, <2>2, <2>4 DEF TypeInv, TopicType
<1>3. MemoryType'
  <2>1. byDomain' = Remember(i) /\ stages' = SeeStage(i)
    BY IncidentParts
  <2>2. /\ Hits(i) \subseteq Key
        /\ dedup' = [k \in DOMAIN dedup \cup Hits(i) |-> IF k \in Hits(i) THEN 0 ELSE dedup[k]]
    BY IncidentParts
  <2> HIDE DEF i
  <2>3. DOMAIN dedup' \subseteq Key /\ \A k \in DOMAIN dedup' : dedup'[k] \in 0..Long
    BY <2>2, Numbers DEF TypeInv, MemoryType
  <2> QED
    BY <1>1, <2>1, <2>3, RememberType, SeeStageType DEF TypeInv, MemoryType
<1>4. /\ DOMAIN chains \subseteq DOMAIN chains' /\ DOMAIN chains' \subseteq 1..Len(correlated')
      /\ \A n \in DOMAIN chains : chains'[n] = chains[n]
      /\ \A n \in DOMAIN chains' \ DOMAIN chains : chains'[n] = [status |-> "active", age |-> 0]
  BY IncidentParts
<1>5. ChainType'
  <2>1. [status |-> "active", age |-> 0] \in [status : Status, age : 0..Old]
    BY Numbers DEF Status
  <2> QED
    BY <1>4, <2>1 DEF TypeInv, ChainType
<1>6. SweepType'
  <2>1. sweep' = sweep
    BY DEF HandleIncident
  <2> QED
    BY <1>4, <2>1 DEF TypeInv, SweepType
<1> QED
  BY <1>2, <1>3, <1>5, <1>6 DEF TypeInv

-----------------------------------------------------------------------------
(* The other steps.                                                        *)

LEMMA OlderType ==
  ASSUME NEW age \in 0..Old
  PROVE  /\ Older(age) \in 0..Old /\ Older(age) <= age + 1
         /\ age < Old => Older(age) = age + 1
BY Numbers DEF Older

\* The sweep takes the chain with the lowest number.
LEMMA EntryStep ==
  ASSUME TypeInv, SweepEntry
  PROVE  SweepType'
<1> DEFINE n == CHOOSE k \in sweep.left : \A l \in sweep.left : k <= l
<1>0. chains' = chains /\ sweep.pc = "sweeping"
  BY DEF SweepEntry
<1>1. CASE sweep.left = {}
  <2>1. sweep' = Resting
    BY <1>1 DEF SweepEntry
  <2> QED
    BY <2>1, Numbers DEF SweepType, Resting, Pc, Status
<1>2. CASE sweep.left # {}
  <2>1. sweep.left \subseteq DOMAIN chains /\ sweep.left \subseteq Chain /\ sweep.left \subseteq Nat
    BY DEF TypeInv, SweepType, Chain
  <2>2. n \in sweep.left
    BY <1>2, <2>1, Least
  <2>3. sweep' = [sweep EXCEPT !.left = @ \ {n}, !.at = n, !.saw = chains[n].status,
                               !.pc = IF chains[n].status = "active" /\ IsOld(n)
                                      THEN "marking" ELSE "sweeping"]
    BY <1>2 DEF SweepEntry
  <2> HIDE DEF n
  <2>4. n \in 0..MaxCorrelations /\ n \in DOMAIN chains /\ chains[n].status \in Status
    BY <2>1, <2>2, Numbers DEF TypeInv, ChainType, Chain
  <2>5. /\ sweep'.left = sweep.left \ {n} /\ sweep'.at = n /\ sweep'.saw = chains[n].status
        /\ sweep'.pc \in {"marking", "sweeping"}
        /\ sweep'.pc = "marking" => chains[n].status = "active"
        /\ sweep' \in [pc : Pc, left : SUBSET Chain, size : 0..MaxCorrelations,
                       at : 0..MaxCorrelations, saw : Status]
    <3>1. sweep \in [pc : Pc, left : SUBSET Chain, size : 0..MaxCorrelations,
                     at : 0..MaxCorrelations, saw : Status]
      BY DEF TypeInv, SweepType
    <3>2. sweep.left \ {n} \in SUBSET Chain /\ {"marking", "sweeping"} \subseteq Pc
      BY <2>1 DEF Pc
    <3>3. /\ sweep'.left = sweep.left \ {n} /\ sweep'.at = n /\ sweep'.saw = chains[n].status
          /\ sweep'.pc = IF chains[n].status = "active" /\ IsOld(n)
                         THEN "marking" ELSE "sweeping"
      BY <2>3, <3>1
    <3> QED
      BY <2>3, <2>4, <3>1, <3>2, <3>3
  <2> QED
    BY <1>0, <2>1, <2>4, <2>5 DEF SweepType
<1> QED
  BY <1>1, <1>2

LEMMA StartStep ==
  ASSUME TypeInv, SweepStart
  PROVE  SweepType'
<1>1. DOMAIN chains \subseteq 1..MaxCorrelations
  BY Numbers DEF TypeInv, ChainType, TopicType
<1>2. Cardinality(DOMAIN chains) \in 0..MaxCorrelations
  <2>1. IsFiniteSet(1..MaxCorrelations) /\ Cardinality(1..MaxCorrelations) = MaxCorrelations
    <3>1. 1 \in Int /\ MaxCorrelations \in Int /\ MaxCorrelations \in Nat
      BY Numbers
    <3>2. /\ IsFiniteSet(1..MaxCorrelations)
          /\ Cardinality(1..MaxCorrelations) =
                IF 1 > MaxCorrelations THEN 0 ELSE MaxCorrelations - 1 + 1
      BY <3>1, FS_Interval
    <3> QED
      BY <3>1, <3>2
  <2>2. IsFiniteSet(DOMAIN chains) /\ Cardinality(DOMAIN chains) <= MaxCorrelations
    BY <1>1, <2>1, FS_Subset
  <2> QED
    BY <2>2, FS_CardinalityType, Numbers
<1>3. /\ chains' = chains
      /\ sweep' = [Resting EXCEPT !.pc = "sweeping", !.left = DOMAIN chains,
                                 !.size = Cardinality(DOMAIN chains)]
  BY DEF SweepStart
<1>4. sweep' = [pc |-> "sweeping", left |-> DOMAIN chains, size |-> Cardinality(DOMAIN chains),
                at |-> 0, saw |-> "active"]
  BY <1>3 DEF Resting
<1> DEFINE D == DOMAIN chains
           N == Cardinality(D)
<1>5. sweep' = [pc |-> "sweeping", left |-> D, size |-> N, at |-> 0, saw |-> "active"]
      /\ D \in SUBSET Chain /\ N \in 0..MaxCorrelations /\ DOMAIN chains' = D
  BY <1>1, <1>2, <1>3, <1>4 DEF Chain
<1> HIDE DEF D, N
<1> QED
  BY <1>5, Numbers DEF SweepType, Pc, Status

LEMMA TickType ==
  ASSUME TypeInv, Tick
  PROVE  TypeInv'
<1>1. TopicType'
  BY DEF TypeInv, TopicType, Tick
<1>2. MemoryType'
  <2>1. ASSUME NEW d \in Domain
        PROVE  byDomain'[d] \in Seq(Entry) /\ Len(byDomain'[d]) = Len(byDomain[d])
    <3>1. byDomain[d] \in Seq(Entry)
      BY DEF TypeInv, MemoryType
    <3>2. byDomain'[d] = [j \in DOMAIN byDomain[d] |->
                            [byDomain[d][j] EXCEPT !.age = Older(@)]]
      BY DEF Tick
    <3> DEFINE s == byDomain[d]
               t == byDomain'[d]
    <3>3. s \in Seq(Entry) /\ Len(s) \in Nat /\ DOMAIN s = 1..Len(s)
          /\ t = [j \in DOMAIN s |-> [s[j] EXCEPT !.age = Older(@)]]
      BY <3>1, <3>2
    <3> HIDE DEF s, t
    <3>4. ASSUME NEW j \in DOMAIN s PROVE t[j] \in Entry
      <4>1. s[j] \in Entry
        BY <3>3
      <4>2. s[j].age \in 0..Old /\ Older(s[j].age) \in 0..Old
        BY <4>1, OlderType DEF Entry
      <4> QED
        BY <3>3, <4>1, <4>2 DEF Entry
    <3>5. t \in [1..Len(s) -> Entry]
      BY <3>3, <3>4
    <3>6. t \in Seq(Entry) /\ Len(t) = Len(s)
      BY <3>3, <3>5
    <3> QED
      BY <3>6 DEF s, t
  <2>2. byDomain' = [d \in Domain |-> byDomain'[d]]
    BY DEF Tick
  <2>3. stages' \in [Actor -> [Stage -> 0..Old]]
    BY OlderType DEF TypeInv, MemoryType, Tick
  <2>4. DOMAIN dedup' \subseteq Key /\ \A k \in DOMAIN dedup' : dedup'[k] \in 0..Long
    BY Numbers DEF TypeInv, MemoryType, Tick
  <2> QED
    BY <2>1, <2>2, <2>3, <2>4 DEF TypeInv, MemoryType
<1>3. ChainType'
  BY OlderType DEF TypeInv, ChainType, Tick
<1>4. SweepType'
  <2>1. DOMAIN chains' = DOMAIN chains
    BY DEF Tick
  <2>2. sweep' = sweep \/ sweep' = [Resting EXCEPT !.pc = "due"]
    BY DEF Tick
  <2> QED
    BY <2>1, <2>2, Numbers DEF TypeInv, SweepType, Resting, Pc, Status
<1> QED
  BY <1>1, <1>2, <1>3, <1>4 DEF TypeInv

LEMMA RestartType ==
  ASSUME TypeInv, Restart
  PROVE  TypeInv'
<1> USE Numbers
<1>1. TopicType'
  <2>1. Cardinality(Refused) \in Nat
    <3>1. DOMAIN correlated = 1..Len(correlated) /\ Len(correlated) \in Nat
      BY DEF TypeInv, TopicType
    <3>2. Refused \subseteq 1..Len(correlated) /\ IsFiniteSet(1..Len(correlated))
      BY <3>1, FS_Interval DEF Refused
    <3> QED
      BY <3>2, FS_Subset, FS_CardinalityType
  <2>2. restarts \in 0..MaxFaults /\ restarts + Cardinality(Refused) < MaxFaults
        /\ restarts' = restarts + 1
    BY DEF TypeInv, TopicType, Restart
  <2>3. restarts' \in 0..MaxFaults
    BY <2>1, <2>2
  <2> QED
    BY <2>3 DEF TypeInv, TopicType, Restart
<1>2. MemoryType'
  <2>1. /\ byDomain' = [d \in Domain |-> <<>>] /\ DOMAIN dedup' = {}
        /\ stages' = [a \in Actor |-> [s \in Stage |-> Old]]
    BY DEF Restart
  <2>2. stages' \in [Actor -> [Stage -> 0..Old]]
    BY <2>1
  <2> QED
    BY <2>1, <2>2 DEF MemoryType
<1>3. ChainType' /\ SweepType'
  BY DEF ChainType, SweepType, Restart, Resting, Pc, Status
<1> QED
  BY <1>1, <1>2, <1>3 DEF TypeInv

LEMMA TypeStep == TypeInv /\ [Next]_vars => TypeInv'
<1> SUFFICES ASSUME TypeInv, [Next]_vars PROVE TypeInv'
  OBVIOUS
<1>1. ASSUME NEW i \in Incident, NewIncident(i) PROVE TypeInv'
  <2>1. TopicType'
    BY <1>1 DEF NewIncident, TypeInv, TopicType, memory
  <2>2. MemoryType' /\ ChainType' /\ SweepType'
    BY <1>1 DEF NewIncident, TypeInv, MemoryType, ChainType, SweepType, memory
  <2> QED
    BY <2>1, <2>2 DEF TypeInv
<1>2. ASSUME NEW n \in Chain, ResolveChain(n) PROVE TypeInv'
  BY <1>2 DEF ResolveChain, TypeInv, TopicType, MemoryType, ChainType, SweepType
<1>3. CASE HandleIncident
  BY <1>3, IncidentType
<1>4. ASSUME NEW n \in Chain, HandleResolve(n) PROVE TypeInv'
  <2>1. TopicType' /\ MemoryType'
    BY <1>4 DEF HandleResolve, TypeInv, TopicType, MemoryType
  <2>2. DOMAIN chains' = DOMAIN chains
        /\ \A k \in DOMAIN chains : chains'[k] \in [status : Status, age : 0..Old]
    BY <1>4 DEF HandleResolve, TypeInv, ChainType, Status
  <2>3. ChainType' /\ SweepType'
    BY <1>4, <2>2 DEF HandleResolve, TypeInv, ChainType, SweepType
  <2> QED
    BY <2>1, <2>3 DEF TypeInv
<1>5. CASE SweepStart \/ SweepGrown \/ SweepEntry
  <2>1. UNCHANGED <<incidents, correlated, resolves, memory, chains, restarts>>
    BY <1>5 DEF SweepStart, SweepGrown, SweepEntry
  <2>2. SweepGrown => SweepType'
    BY Numbers DEF SweepGrown, SweepType, Resting, Pc, Status
  <2>3. TopicType' /\ MemoryType' /\ ChainType'
    BY <2>1 DEF TypeInv, TopicType, MemoryType, ChainType, memory
  <2> QED
    BY <1>5, <2>2, <2>3, StartStep, EntryStep DEF TypeInv
<1>6. CASE SweepMark
  <2>1. TopicType' /\ MemoryType'
    BY <1>6 DEF SweepMark, TypeInv, TopicType, MemoryType, memory
  <2>2. DOMAIN chains' = DOMAIN chains
        /\ \A k \in DOMAIN chains : chains'[k] \in [status : Status, age : 0..Old]
    BY <1>6 DEF SweepMark, TypeInv, ChainType, Status
  <2>3. ChainType' /\ SweepType'
    BY <1>6, <2>2 DEF SweepMark, TypeInv, ChainType, SweepType, Pc
  <2> QED
    BY <2>1, <2>3 DEF TypeInv
<1>7. CASE Restart
  BY <1>7, RestartType
<1>8. CASE Tick
  BY <1>8, TickType
<1>9. CASE UNCHANGED vars
  BY <1>9 DEF vars, memory, TypeInv, TopicType, MemoryType, ChainType, SweepType
<1> QED
  BY <1>1, <1>2, <1>3, <1>4, <1>5, <1>6, <1>7, <1>8, <1>9 DEF Next, Consumer, Cleaner

LEMMA TypeInvariance == Spec => []TypeInv
BY TypeInit, TypeStep, PTL DEF Spec

\* Memory, topics and the sweep keep their types; deques, ages and numbers their
\* bounds.
THEOREM CorrelatorTypeCorrect == Spec => []TypeOK
<1>1. TypeInv => TypeOK
  BY DEF TypeInv, TopicType, MemoryType, ChainType, SweepType, TypeOK, Entry, Record, Status, Pc
<1> QED
  BY <1>1, TypeInvariance, PTL

\* A resolved chain stays resolved, the one lost update of the sweep aside
\* (_cleanup_kill_chains, resolve_killchain).
THEOREM ResolvedIsKept == Spec => ResolvedStays
<1> DEFINE Step == \A n \in DOMAIN chains \cap DOMAIN chains' :
                     (chains[n].status = "resolved" /\ chains'[n].status # "resolved")
                         => sweep.pc = "marking" /\ sweep.at = n /\ sweep.saw = "active"
<1>1. TypeInv /\ [Next]_vars => [Step]_vars
  <2> SUFFICES ASSUME TypeInv, Next, NEW n \in DOMAIN chains \cap DOMAIN chains',
                      chains[n].status = "resolved", chains'[n].status # "resolved"
               PROVE  sweep.pc = "marking" /\ sweep.at = n /\ sweep.saw = "active"
    OBVIOUS
  <2>1. CASE HandleIncident
    <3>1. chains'[n] = chains[n]
      BY <2>1, IncidentParts
    <3> QED
      BY <3>1
  <2>2. CASE \E k \in Chain : HandleResolve(k)
    BY <2>2 DEF HandleResolve, TypeInv, ChainType
  <2>3. CASE SweepMark
    BY <2>3 DEF SweepMark, TypeInv, ChainType, SweepType
  <2>4. CASE Restart
    BY <2>4 DEF Restart
  <2>5. CASE Tick
    BY <2>5 DEF Tick, TypeInv, ChainType
  <2>6. CASE chains' = chains
    BY <2>6
  <2> QED
    BY <2>1, <2>2, <2>3, <2>4, <2>5, <2>6 DEF Next, Consumer, Cleaner, NewIncident, ResolveChain,
        SweepStart, SweepGrown, SweepEntry
<1> QED
  BY <1>1, TypeInvariance, PTL DEF Spec, ResolvedStays

-----------------------------------------------------------------------------
(* Rule 1 under its cooldown.                                              *)

\* Behind the silence of rule 1 there is a chain of the same domains that came no
\* earlier than the silence began.
Backed ==
    \A k \in DOMAIN dedup :
        (k.type = "coordinated_attack" /\ dedup[k] < Short) =>
            \E n \in DOMAIN chains :
                /\ correlated[n].type = "coordinated_attack" /\ correlated[n].who = k.who
                /\ chains[n].age <= dedup[k]

\* Chain n answers for an incident of c that is a old, and one of d that is b old.
Answers(n, c, d, a, b) ==
    /\ correlated[n].type = "coordinated_attack" /\ {c, d} \subseteq correlated[n].who
    /\ chains[n].age < a + Short \/ chains[n].age < b + Short

Answered(c, d, a, b) == \E n \in DOMAIN chains : Answers(n, c, d, a, b)

\* Severe(m, c, j): entry j of domain c is one that rule 1 counts.
Severe(m, c, j) ==
    j \in DOMAIN m[c] /\ m[c][j].age <= Fast /\ m[c][j].of.severity >= HIGH

LEMMA SevereIsRecent == \A m, c, j : j \in Recent(m, c, Fast, HIGH) <=> Severe(m, c, j)
BY DEF Recent, Severe

LEMMA Reading ==
  AttackIsReported <=>
      \A c, d \in Domain : c # d =>
         \A j, k : Severe(byDomain, c, j) /\ Severe(byDomain, d, k) =>
            Answered(c, d, byDomain[c][j].age, byDomain[d][k].age)
BY SevereIsRecent DEF AttackIsReported, Answered, Answers, Names

LEMMA ReadingNext ==
  AttackIsReported' <=>
      \A c, d \in Domain : c # d =>
         \A j, k : Severe(byDomain', c, j) /\ Severe(byDomain', d, k) =>
            Answered(c, d, byDomain[c][j].age, byDomain[d][k].age)'
BY SevereIsRecent DEF AttackIsReported, Answered, Answers, Names

\* What changes neither the memory of rule 1 nor the age of a chain changes neither.
LEMMA QuietStep ==
  ASSUME Backed, AttackIsReported,
         UNCHANGED <<byDomain, dedup, correlated>>, DOMAIN chains' = DOMAIN chains,
         \A n \in DOMAIN chains : chains'[n].age = chains[n].age
  PROVE  Backed' /\ AttackIsReported'
<1>1. Backed'
  BY DEF Backed
<1>2. AttackIsReported'
  BY DEF AttackIsReported, Recent, Names, Refused
<1> QED
  BY <1>1, <1>2

\* Two domains with a severe incident make rule 1 find a set that has both.
LEMMA Found2 ==
  ASSUME NEW i, NEW m, NEW c \in Domain, NEW d \in Domain, c # d, i.domain \in {c, d},
         NEW j, NEW k, Severe(m, c, j), Severe(m, d, k)
  PROVE  \E w \in SUBSET Domain :
            {c, d} \subseteq w /\ [type |-> "coordinated_attack", who |-> w] \in Coordinated(i, m)
<1> DEFINE active == {x \in Domain : Recent(m, x, Fast, HIGH) # {}}
<1>1. c \in active /\ d \in active
  BY DEF Recent, Severe
<1>2. IsFiniteSet(active) /\ Cardinality(active) >= 2
  <2>1. IsFiniteSet(Domain)
    <3>1. Domain = ({"iot"} \cup {"physical_access"}) \cup {"data_network"}
      BY DEF Domain
    <3>2. IsFiniteSet({"iot"}) /\ IsFiniteSet({"physical_access"}) /\ IsFiniteSet({"data_network"})
      BY FS_Singleton
    <3>3. IsFiniteSet({"iot"} \cup {"physical_access"})
      BY <3>2, FS_Union
    <3> QED
      BY <3>1, <3>2, <3>3, FS_Union
  <2>2. active \subseteq Domain
    OBVIOUS
  <2> HIDE DEF active
  <2>3. IsFiniteSet(active) /\ Cardinality(active) \in Nat
    BY <2>1, <2>2, FS_Subset, FS_CardinalityType
  <2>4. {c, d} \subseteq active /\ IsFiniteSet({c, d}) /\ Cardinality({c, d}) = 2
    <3>1. {c, d} = {c} \cup {d} /\ d \notin {c}
      OBVIOUS
    <3>2. IsFiniteSet({c}) /\ Cardinality({c}) = 1
      BY FS_Singleton
    <3> QED
      BY <1>1, <3>1, <3>2, FS_AddElement
  <2> QED
    BY <2>3, <2>4, FS_Subset
<1>3. i.domain \in active
  BY <1>1
<1>4. Coordinated(i, m) = Found("coordinated_attack", active)
  BY <1>2, <1>3 DEF Coordinated
<1>5. active \subseteq Domain
  OBVIOUS
<1> HIDE DEF active
<1> QED
  BY <1>1, <1>4, <1>5 DEF Found

LEMMA IncidentReported ==
  ASSUME TypeInv, Backed, AttackIsReported, HandleIncident
  PROVE  Backed' /\ AttackIsReported'
<1> DEFINE i == incidents[apos + 1]
<1>1. /\ i \in Incident /\ byDomain' = Remember(i)
      /\ dedup' = [k \in DOMAIN dedup \cup Hits(i) |-> IF k \in Hits(i) THEN 0 ELSE dedup[k]]
      /\ \A n \in DOMAIN chains : /\ n \in DOMAIN chains' /\ chains'[n] = chains[n]
                                  /\ correlated'[n] = correlated[n]
      /\ \A k \in Hits(i) : \E n \in DOMAIN chains' :
            /\ correlated'[n].type = k.type /\ correlated'[n].who = k.who
            /\ chains'[n] = [status |-> "active", age |-> 0]
  BY IncidentParts DEF TypeInv, ChainType
<1> HIDE DEF i
<1>2. Backed'
  <2> SUFFICES ASSUME NEW k \in DOMAIN dedup', k.type = "coordinated_attack", dedup'[k] < Short
               PROVE  \E n \in DOMAIN chains' :
                         /\ correlated'[n].type = "coordinated_attack" /\ correlated'[n].who = k.who
                         /\ chains'[n].age <= dedup'[k]
    BY DEF Backed
  <2>1. CASE k \in Hits(i)
    <3>1. dedup'[k] = 0
      BY <1>1, <2>1
    <3> QED
      BY <1>1, <2>1, <3>1
  <2>2. CASE k \notin Hits(i)
    <3>1. k \in DOMAIN dedup /\ dedup'[k] = dedup[k]
      BY <1>1, <2>2
    <3> QED
      BY <1>1, <3>1 DEF Backed
  <2> QED
    BY <2>1, <2>2
<1>3. AttackIsReported'
  <2> SUFFICES ASSUME NEW c \in Domain, NEW d \in Domain, c # d, NEW j, NEW k,
                      Severe(byDomain', c, j), Severe(byDomain', d, k)
               PROVE  Answered(c, d, byDomain[c][j].age, byDomain[d][k].age)'
    BY ReadingNext
  <2> DEFINE x == byDomain'[c][j]
             y == byDomain'[d][k]
             Fresh(e, dom) == dom = i.domain /\ e = [of |-> i, age |-> 0]
             Kept(e, dom) == \E l \in DOMAIN byDomain[dom] : e = byDomain[dom][l]
  <2>1. (Fresh(x, c) \/ Kept(x, c)) /\ (Fresh(y, d) \/ Kept(y, d))
    BY <1>1, RememberType DEF TypeInv, Severe
  <2>2. x.age <= Fast /\ x.of.severity >= HIGH /\ y.age <= Fast /\ y.of.severity >= HIGH
    BY DEF Severe
  <2> HIDE DEF x, y
  <2>3. CASE Kept(x, c) /\ Kept(y, d)
    <3>1. PICK p \in DOMAIN byDomain[c], q \in DOMAIN byDomain[d] :
             x = byDomain[c][p] /\ y = byDomain[d][q]
      BY <2>3
    <3>2. Answered(c, d, x.age, y.age)
      BY <2>2, <3>1, Reading DEF Severe
    <3>3. PICK n \in DOMAIN chains : Answers(n, c, d, x.age, y.age)
      BY <3>2 DEF Answered
    <3> QED
      BY <1>1, <3>3 DEF Answered, Answers, x, y
  <2>4. ASSUME Fresh(x, c) \/ Fresh(y, d)
        PROVE  Answered(c, d, byDomain[c][j].age, byDomain[d][k].age)'
    <3>1. i.domain \in {c, d} /\ (x.age = 0 \/ y.age = 0)
      BY <2>4
    <3>2. PICK w \in SUBSET Domain :
             /\ {c, d} \subseteq w
             /\ [type |-> "coordinated_attack", who |-> w] \in Coordinated(i, Remember(i))
      BY <1>1, <3>1, Found2
    <3> DEFINE key == [type |-> "coordinated_attack", who |-> w]
    <3>3. \E n \in DOMAIN chains' :
             /\ correlated'[n].type = "coordinated_attack" /\ correlated'[n].who = w
             /\ chains'[n].age < Short
      <4>1. CASE MayFire(key)
        <5>1. key \in Hits(i)
          BY <3>2, <4>1 DEF Hits
        <5> QED
          BY <1>1, <5>1, Numbers
      <4>2. CASE ~MayFire(key)
        <5>1. key \in DOMAIN dedup /\ ~(dedup[key] >= Short)
          BY <4>2 DEF MayFire, Cooldown
        <5>2. dedup[key] \in 0..Long
          BY <5>1 DEF TypeInv, MemoryType
        <5>3. dedup[key] < Short
          BY <5>1, <5>2, Numbers
        <5>4. PICK n \in DOMAIN chains :
                 /\ correlated[n].type = "coordinated_attack" /\ correlated[n].who = w
                 /\ chains[n].age <= dedup[key]
          BY <5>1, <5>3 DEF Backed
        <5>5. chains[n].age \in 0..Old
          BY DEF TypeInv, ChainType
        <5>6. chains[n].age < Short
          BY <5>2, <5>3, <5>4, <5>5, Numbers
        <5> QED
          BY <1>1, <5>4, <5>6
      <4> QED
        BY <4>1, <4>2
    <3>4. PICK n \in DOMAIN chains' :
             /\ correlated'[n].type = "coordinated_attack" /\ correlated'[n].who = w
             /\ chains'[n].age < Short
      BY <3>3
    <3>5. chains'[n].age < x.age + Short \/ chains'[n].age < y.age + Short
      BY <3>1, <3>4, Numbers
    <3> QED
      BY <3>2, <3>4, <3>5 DEF Answered, Answers, x, y
  <2> QED
    BY <2>1, <2>3, <2>4
<1> QED
  BY <1>2, <1>3

LEMMA TickReported ==
  ASSUME TypeInv, Backed, AttackIsReported, Tick
  PROVE  Backed' /\ AttackIsReported'
<1>1. /\ DOMAIN chains' = DOMAIN chains /\ correlated' = correlated
      /\ \A n \in DOMAIN chains : chains'[n].age \in 0..Old /\ chains'[n].age <= chains[n].age + 1
  <2>1. \A n \in DOMAIN chains : chains[n] \in [status : Status, age : 0..Old]
    BY DEF TypeInv, ChainType
  <2>2. /\ DOMAIN chains' = DOMAIN chains /\ correlated' = correlated
        /\ \A n \in DOMAIN chains : chains'[n] = [chains[n] EXCEPT !.age = Older(@)]
    BY DEF Tick
  <2>3. \A n \in DOMAIN chains : chains'[n].age = Older(chains[n].age)
    BY <2>1, <2>2
  <2> QED
    BY <2>1, <2>2, <2>3, OlderType
<1>2. \A n \in DOMAIN chains : chains[n].age \in 0..Old
  BY DEF TypeInv, ChainType
<1>3. Backed'
  <2> SUFFICES ASSUME NEW k \in DOMAIN dedup', k.type = "coordinated_attack", dedup'[k] < Short
               PROVE  \E n \in DOMAIN chains' :
                         /\ correlated'[n].type = "coordinated_attack" /\ correlated'[n].who = k.who
                         /\ chains'[n].age <= dedup'[k]
    BY DEF Backed
  <2>1. k \in DOMAIN dedup /\ dedup'[k] = IF dedup[k] < Long THEN dedup[k] + 1 ELSE Long
    BY DEF Tick
  <2>2. dedup[k] \in 0..Long
    BY <2>1 DEF TypeInv, MemoryType
  <2>3. dedup'[k] = dedup[k] + 1 /\ dedup[k] < Short
    BY <2>1, <2>2, Numbers
  <2>4. PICK n \in DOMAIN chains :
           /\ correlated[n].type = "coordinated_attack" /\ correlated[n].who = k.who
           /\ chains[n].age <= dedup[k]
    BY <2>1, <2>3 DEF Backed
  <2>5. chains'[n].age <= dedup'[k]
    BY <1>1, <1>2, <2>2, <2>3, <2>4, Numbers
  <2> QED
    BY <1>1, <2>4, <2>5
<1>4. AttackIsReported'
  <2> SUFFICES ASSUME NEW c \in Domain, NEW d \in Domain, c # d, NEW j, NEW k,
                      Severe(byDomain', c, j), Severe(byDomain', d, k)
               PROVE  Answered(c, d, byDomain[c][j].age, byDomain[d][k].age)'
    BY ReadingNext
  <2>1. ASSUME NEW x \in Domain, NEW l, Severe(byDomain', x, l)
        PROVE  /\ Severe(byDomain, x, l) /\ byDomain[x][l].age \in Nat
               /\ byDomain'[x][l].age = byDomain[x][l].age + 1
    <3>1. /\ byDomain'[x] = [p \in DOMAIN byDomain[x] |->
                               [byDomain[x][p] EXCEPT !.age = Older(@)]]
          /\ byDomain[x] \in Seq(Entry)
      BY DEF Tick, TypeInv, MemoryType
    <3> DEFINE e == byDomain[x][l]
               f == byDomain'[x][l]
    <3>2. l \in DOMAIN byDomain[x] /\ e \in Entry /\ f = [e EXCEPT !.age = Older(@)]
      BY <2>1, <3>1 DEF Severe
    <3>3. f.age <= Fast /\ f.of.severity >= HIGH
      BY <2>1 DEF Severe
    <3> HIDE DEF e, f
    <3>4. e.age \in 0..Old /\ f.age = Older(e.age) /\ f.of = e.of
      BY <3>2 DEF Entry
    <3>5. e.age < Old
      BY <3>3, <3>4, Numbers DEF Older
    <3>6. f.age = e.age + 1 /\ e.age \in Nat /\ e.age <= Fast
      BY <3>3, <3>4, <3>5, OlderType, Numbers
    <3> QED
      BY <3>2, <3>3, <3>4, <3>6 DEF Severe, e, f
  <2>2. PICK n \in DOMAIN chains : Answers(n, c, d, byDomain[c][j].age, byDomain[d][k].age)
    BY <2>1, Reading DEF Answered
  <2> DEFINE a == byDomain[c][j].age
             b == byDomain[d][k].age
  <2>3. /\ byDomain'[c][j].age = a + 1 /\ a \in Nat /\ byDomain'[d][k].age = b + 1 /\ b \in Nat
        /\ chains[n].age < a + Short \/ chains[n].age < b + Short
    BY <2>1, <2>2 DEF Answers
  <2> HIDE DEF a, b
  <2>4. chains'[n].age < (a + 1) + Short \/ chains'[n].age < (b + 1) + Short
    BY <1>1, <1>2, <2>3, Numbers
  <2> QED
    BY <1>1, <2>2, <2>3, <2>4 DEF Answered, Answers
<1> QED
  BY <1>3, <1>4

LEMMA ReportedStep ==
  TypeInv /\ Backed /\ AttackIsReported /\ [Next]_vars => Backed' /\ AttackIsReported'
<1> SUFFICES ASSUME TypeInv, Backed, AttackIsReported, [Next]_vars
             PROVE  Backed' /\ AttackIsReported'
  OBVIOUS
<1>1. CASE HandleIncident
  BY <1>1, IncidentReported
<1>2. CASE Tick
  BY <1>2, TickReported
<1>3. CASE Restart
  <2>1. Backed'
    BY <1>3 DEF Restart, Backed
  <2>2. AttackIsReported'
    BY <1>3 DEF Restart, AttackIsReported, Recent
  <2> QED
    BY <2>1, <2>2
<1>4. ASSUME NEW n \in Chain, HandleResolve(n) PROVE Backed' /\ AttackIsReported'
  <2>1. UNCHANGED <<byDomain, dedup, correlated>>
    BY <1>4 DEF HandleResolve
  <2>2. DOMAIN chains' = DOMAIN chains /\ \A k \in DOMAIN chains : chains'[k].age = chains[k].age
    BY <1>4 DEF HandleResolve, TypeInv, ChainType
  <2> QED
    BY <2>1, <2>2, QuietStep
<1>5. CASE SweepMark
  <2>1. UNCHANGED <<byDomain, dedup, correlated>>
    BY <1>5 DEF SweepMark, memory
  <2>2. DOMAIN chains' = DOMAIN chains /\ \A k \in DOMAIN chains : chains'[k].age = chains[k].age
    BY <1>5 DEF SweepMark, TypeInv, ChainType
  <2> QED
    BY <2>1, <2>2, QuietStep
<1>6. CASE UNCHANGED <<byDomain, dedup, correlated, chains>>
  BY <1>6, QuietStep
<1>7. ASSUME \/ \E i \in Incident : NewIncident(i)
             \/ \E n \in Chain : ResolveChain(n)
             \/ SweepStart \/ SweepGrown \/ SweepEntry \/ UNCHANGED vars
      PROVE  UNCHANGED <<byDomain, dedup, correlated, chains>>
  BY <1>7 DEF NewIncident, ResolveChain, SweepStart, SweepGrown, SweepEntry, vars, memory
<1> QED
  BY <1>1, <1>2, <1>3, <1>4, <1>5, <1>6, <1>7 DEF Next, Consumer, Cleaner

\* Two severe incidents of different domains in the window are answered by a chain
\* that names both domains and is less than the cooldown older than the later one
\* (rule 1, _correlate, and the cooldown of _fire).
THEOREM AttackReported == Spec => []AttackIsReported
<1>1. Init => Backed /\ AttackIsReported
  BY DEF Init, Backed, AttackIsReported, Recent
<1> QED
  BY <1>1, ReportedStep, TypeInvariance, PTL DEF Spec
=============================================================================
