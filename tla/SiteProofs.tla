----------------------------- MODULE SiteProofs -----------------------------
(***************************************************************************)
(* Proofs about the detectors that remember in deques, and about the       *)
(* detecting side as a whole.                                              *)
(*                                                                         *)
(* A deque forgets when it is full, so what is asked of a rule is what it  *)
(* must see: the history holds one entry more than the deque, and Trails   *)
(* says that the deque is the history while the history is not longer than *)
(* it, and its newest part otherwise.  Everything that is proved about     *)
(* Triage (RememberInv) and about the windows of Detectors (WindowInv)     *)
(* rests on that, for any length of the deques and any windows.            *)
(*                                                                         *)
(* CardEvents counts denials in a deque that it never shortens by age.     *)
(* Unreported says that what the history of denials has and the deque has  *)
(* not was reported already.                                               *)
(*                                                                         *)
(* The slow scan of Detectors is counted in a set of ports that is emptied *)
(* when its first entry is older than the window.  SetInv relates that set *)
(* to all ports seen in as long a time: these lie in the set and its       *)
(* predecessor, and ScanInv, that a set that was full was reported.        *)
(*                                                                         *)
(* A behaviour of Site is one of each component, most of which stutter:    *)
(* what is proved of the nine holds of it.                                 *)
(***************************************************************************)
EXTENDS Site, DetectionProofs, WellFoundedInduction

-----------------------------------------------------------------------------
(* Deques.                                                                 *)

\* The entries of a deque: records with an age, which a tick changes.
Ageing(S) == \A e \in S : e.age \in Nat /\ Grown(e) \in S /\ Grown(e).age = e.age + 1

\* Of two entries the later one is the younger, and none is older than the limit.
NewestLast(s, limit) ==
    /\ \A i, j \in 1..Len(s) : i <= j => s[j].age <= s[i].age
    /\ \A i \in 1..Len(s) : s[i].age <= limit

\* The deque d of n entries holds what h remembers with one entry more.
Trails(d, h, n, limit, S) ==
    /\ h \in Seq(S) /\ Len(h) \in Nat /\ Len(h) <= n + 1 /\ NewestLast(h, limit)
    /\ d \in Seq(S) /\ Len(d) \in Nat /\ Len(d) <= n
    /\ Len(h) <= n => d = h
    /\ Len(h) > n => Len(h) = n + 1 /\ Len(d) = n /\ \A i \in 1..n : d[i] = h[i + 1]

\* p is s with e behind it, but for the oldest entry when s is full.
IsPush(p, s, e, n, S) ==
    /\ p \in Seq(S) /\ Len(p) \in 1..n
    /\ Len(s) < n => /\ Len(p) = Len(s) + 1 /\ p[Len(s) + 1] = e
                     /\ \A i \in 1..Len(s) : p[i] = s[i]
    /\ Len(s) = n => /\ Len(p) = n /\ p[n] = e
                     /\ \A i \in 1..n - 1 : p[i] = s[i + 1]

\* a is s a tick later, without its first k entries.
IsAged(a, s, limit, k, S) ==
    /\ a \in Seq(S) /\ k \in 0..Len(s)
    /\ Len(a) = Len(s) - k
    /\ \A i \in 1..Len(s) - k : a[i] = Grown(s[i + k])
    /\ \A i \in 1..k : s[i].age >= limit
    /\ k < Len(s) => s[k + 1].age < limit

LEMMA Least ==
  ASSUME NEW S, S \subseteq Nat, S # {}
  PROVE  LET n == CHOOSE k \in S : \A l \in S : k <= l IN n \in S /\ \A l \in S : n <= l
<1>1. PICK k \in S : \A l \in S : ~(<<l, k>> \in OpToRel(<, Nat))
  BY NatLessThanWellFounded, WFMin
<1>2. \A l \in S : k <= l
  <2> SUFFICES ASSUME NEW l \in S, ~(k <= l) PROVE FALSE
    OBVIOUS
  <2>1. <<l, k>> \in Nat \X Nat /\ <<l, k>>[1] = l /\ <<l, k>>[2] = k /\ l < k
    OBVIOUS
  <2>2. <<l, k>> \in OpToRel(<, Nat)
    BY <2>1 DEF OpToRel
  <2> QED
    BY <1>1, <2>2
<1> QED
  BY <1>2

\* The suffix of a sequence that starts behind its first k entries.
LEMMA SuffixIs ==
  ASSUME NEW S, NEW s \in Seq(S), NEW k \in 0..Len(s)
  PROVE  /\ SubSeq(s, k + 1, Len(s)) \in Seq(S)
         /\ Len(SubSeq(s, k + 1, Len(s))) = Len(s) - k
         /\ \A i \in 1..Len(s) - k : SubSeq(s, k + 1, Len(s))[i] = s[i + k]
<1>1. k + 1 \in Int /\ Len(s) \in Int /\ Len(s) \in Nat
  OBVIOUS
<1>2. \A i \in k + 1..Len(s) : s[i] \in S
  OBVIOUS
<1>3. /\ SubSeq(s, k + 1, Len(s)) \in Seq(S)
      /\ Len(SubSeq(s, k + 1, Len(s)))
            = IF k + 1 <= Len(s) THEN Len(s) - (k + 1) + 1 ELSE 0
      /\ \A i \in 1..Len(s) - (k + 1) + 1 : SubSeq(s, k + 1, Len(s))[i] = s[k + 1 + i - 1]
  BY <1>1, <1>2, SubSeqProperties
<1> QED
  BY <1>1, <1>3

LEMMA SameSeq ==
  ASSUME NEW S, NEW s \in Seq(S), NEW t \in Seq(S), Len(s) = Len(t),
         \A i \in 1..Len(s) : s[i] = t[i]
  PROVE  s = t
BY SeqEqual

\* A deque of n entries keeps the last n.
LEMMA LastOfIs ==
  ASSUME NEW S, NEW s \in Seq(S), NEW n \in Nat, Len(s) <= n + 1
  PROVE  /\ LastOf(s, n) \in Seq(S)
         /\ Len(s) <= n => LastOf(s, n) = s
         /\ Len(s) > n => /\ Len(s) = n + 1 /\ Len(LastOf(s, n)) = n
                          /\ \A i \in 1..n : LastOf(s, n)[i] = s[i + 1]
<1>1. Len(s) \in Nat
  OBVIOUS
<1>2. CASE Len(s) <= n
  <2>1. ~(Len(s) > n)
    BY <1>1, <1>2
  <2>2. LastOf(s, n) = SubSeq(s, 1, Len(s))
    BY <2>1 DEF LastOf
  <2>3. SubSeq(s, 1, Len(s)) = s
    BY SubSeqFull
  <2>4. LastOf(s, n) \in Seq(S) /\ LastOf(s, n) = s
    BY <2>2, <2>3
  <2> QED
    BY <2>1, <2>4
<1>3. CASE Len(s) > n
  <2>1. Len(s) = n + 1
    BY <1>1, <1>3
  <2>2. LastOf(s, n) = SubSeq(s, 1 + 1, Len(s))
    BY <2>1 DEF LastOf
  <2>3. 1 \in 0..Len(s)
    BY <2>1
  <2>4. /\ SubSeq(s, 1 + 1, Len(s)) \in Seq(S)
        /\ Len(SubSeq(s, 1 + 1, Len(s))) = Len(s) - 1
        /\ \A i \in 1..Len(s) - 1 : SubSeq(s, 1 + 1, Len(s))[i] = s[i + 1]
    BY <2>3, SuffixIs
  <2> QED
    BY <1>3, <2>1, <2>2, <2>4
<1> QED
  BY <1>1, <1>2, <1>3

\* A new entry.
LEMMA PushIs ==
  ASSUME NEW S, NEW s \in Seq(S), NEW e \in S, NEW n \in Nat \ {0}, Len(s) <= n
  PROVE  IsPush(Push(s, e, n), s, e, n, S)
<1> DEFINE a == Append(s, e)
<1>1. /\ a \in Seq(S) /\ Len(a) = Len(s) + 1 /\ Len(s) \in Nat /\ a[Len(s) + 1] = e
      /\ \A i \in 1..Len(s) : a[i] = s[i]
  OBVIOUS
<1>2. Push(s, e, n) = LastOf(a, n)
  BY DEF Push
<1> HIDE DEF a
<1>3. Len(a) <= n + 1 /\ n \in Nat
  BY <1>1
<1>4. /\ LastOf(a, n) \in Seq(S)
      /\ Len(a) <= n => LastOf(a, n) = a
      /\ Len(a) > n => /\ Len(a) = n + 1 /\ Len(LastOf(a, n)) = n
                       /\ \A i \in 1..n : LastOf(a, n)[i] = a[i + 1]
  BY <1>1, <1>3, LastOfIs
<1>7. SUFFICES ASSUME NEW p, p = LastOf(a, n) PROVE IsPush(p, s, e, n, S)
  BY <1>2
<1>5. CASE Len(s) < n
  <2>1. p = a /\ p \in Seq(S)
    BY <1>1, <1>3, <1>4, <1>5, <1>7
  <2> QED
    BY <1>1, <1>3, <1>5, <2>1 DEF IsPush
<1>6. CASE Len(s) = n
  <2>1. Len(a) = n + 1 /\ Len(a) > n
    BY <1>1, <1>6
  <2>2. \A i \in 1..n - 1 : i \in 1..n /\ i + 1 \in 1..Len(s)
    BY <1>6
  <2>3. n \in 1..n /\ n + 1 = Len(s) + 1
    BY <1>6
  <2> QED
    BY <1>1, <1>4, <1>6, <1>7, <2>1, <2>2, <2>3 DEF IsPush
<1> QED
  BY <1>1, <1>5, <1>6

\* A tick drops the entries before the first that is young enough, and makes the
\* others a tick older.
LEMMA AgingIs ==
  ASSUME NEW S, Ageing(S), NEW s \in Seq(S), NEW limit \in Nat
  PROVE  \E k \in Nat : IsAged(Aging(s, limit), s, limit, k, S)
<1> DEFINE g == [i \in DOMAIN s |-> Grown(s[i])]
           I == {i \in DOMAIN s : s[i].age < limit}
           f == CHOOSE i \in I : \A j \in I : i <= j
<1>1. Len(s) \in Nat /\ DOMAIN s = 1..Len(s) /\ \A i \in 1..Len(s) : s[i] \in S
  OBVIOUS
<1>2. g \in Seq(S) /\ Len(g) = Len(s) /\ \A i \in 1..Len(s) : g[i] = Grown(s[i])
  BY <1>1 DEF Ageing
<1>3. I \subseteq Nat /\ \A i \in I : i \in 1..Len(s)
  BY <1>1
<1>4. \A i \in 1..Len(s) : s[i].age \in Nat /\ (i \in I <=> s[i].age < limit)
  BY <1>1 DEF Ageing
<1>5. Aging(s, limit) = IF I = {} THEN <<>> ELSE SubSeq(g, f, Len(g))
  BY DEF Aging, From
<1>6. CASE I = {}
  <2>1. Aging(s, limit) = <<>> /\ \A i \in 1..Len(s) : s[i].age >= limit
    BY <1>4, <1>5, <1>6
  <2>2. Aging(s, limit) \in Seq(S) /\ Len(Aging(s, limit)) = 0
    BY <2>1
  <2> DEFINE n == Len(s)
  <2>3. n \in 0..n /\ n - n = 0 /\ ~(n < n) /\ \A i \in 1..n - n : FALSE
    BY <1>1
  <2> HIDE DEF g, I, f
  <2>4. IsAged(Aging(s, limit), s, limit, n, S)
    BY <2>1, <2>2, <2>3 DEF IsAged
  <2> QED
    BY <1>1, <2>4
<1>7. CASE I # {}
  <2>1. f \in I /\ \A j \in I : f <= j
    BY <1>3, <1>7, Least
  <2> HIDE DEF f, I, g
  <2>2. f \in 1..Len(s) /\ f - 1 \in 0..Len(g) /\ f - 1 + 1 = f
    BY <1>1, <1>2, <1>3, <2>1
  <2>3. /\ SubSeq(g, f, Len(g)) \in Seq(S)
        /\ Len(SubSeq(g, f, Len(g))) = Len(g) - (f - 1)
        /\ \A i \in 1..Len(g) - (f - 1) : SubSeq(g, f, Len(g))[i] = g[i + (f - 1)]
    <3> DEFINE k == f - 1
    <3>1. /\ SubSeq(g, k + 1, Len(g)) \in Seq(S)
          /\ Len(SubSeq(g, k + 1, Len(g))) = Len(g) - k
          /\ \A i \in 1..Len(g) - k : SubSeq(g, k + 1, Len(g))[i] = g[i + k]
      <4> HIDE DEF k
      <4>1. k \in 0..Len(g)
        BY <2>2 DEF k
      <4> QED
        BY <1>2, <4>1, SuffixIs
    <3> QED
      BY <2>2, <3>1
  <2>4. /\ Len(Aging(s, limit)) = Len(s) - (f - 1)
        /\ \A i \in 1..Len(s) - (f - 1) : Aging(s, limit)[i] = Grown(s[i + (f - 1)])
    <3>1. \A i \in 1..Len(s) - (f - 1) : i + (f - 1) \in 1..Len(s)
      BY <1>1, <2>2
    <3> QED
      BY <1>2, <1>5, <1>7, <2>3, <3>1
  <2>5. \A i \in 1..f - 1 : s[i].age >= limit
    <3> TAKE i \in 1..f - 1
    <3>1. i \in 1..Len(s) /\ ~(f <= i)
      BY <1>1, <2>2
    <3>2. i \notin I
      BY <2>1, <3>1
    <3> QED
      BY <1>4, <3>1, <3>2
  <2>6. s[f - 1 + 1].age < limit
    BY <1>4, <2>1, <2>2
  <2>7. f - 1 \in 0..Len(s)
    BY <1>2, <2>2
  <2>8. Aging(s, limit) \in Seq(S)
    BY <1>5, <1>7, <2>3
  <2>9. IsAged(Aging(s, limit), s, limit, f - 1, S)
    BY <2>4, <2>5, <2>6, <2>7, <2>8 DEF IsAged
  <2> QED
    BY <1>1, <2>7, <2>9
<1> QED
  BY <1>6, <1>7

LEMMA TrailsEmpty ==
  ASSUME NEW S, NEW n \in Nat, NEW limit \in Nat
  PROVE  Trails(<<>>, <<>>, n, limit, S)
<1>1. <<>> \in Seq(S) /\ Len(<<>>) = 0
  OBVIOUS
<1> QED
  BY <1>1 DEF Trails, NewestLast

NoneOlder(d, limit) == \A i \in DOMAIN d : d[i].age <= limit

LEMMA TrailsNoneOlder ==
  ASSUME NEW S, NEW d, NEW h, NEW n \in Nat \ {0}, NEW limit \in Nat, Trails(d, h, n, limit, S)
  PROVE  NoneOlder(d, limit)
<1> SUFFICES ASSUME NEW i \in 1..Len(d) PROVE d[i].age <= limit
  BY DEF NoneOlder, Trails
<1>1. Len(h) \in Nat /\ Len(d) \in Nat /\ n \in Nat /\ NewestLast(h, limit)
  BY DEF Trails
<1>2. CASE Len(h) <= n
  BY <1>1, <1>2 DEF Trails, NewestLast
<1>3. CASE Len(h) > n
  <2>1. i + 1 \in 1..Len(h) /\ d[i] = h[i + 1]
    BY <1>1, <1>3 DEF Trails
  <2> QED
    BY <1>1, <2>1 DEF NewestLast
<1> QED
  BY <1>1, <1>2, <1>3

LEMMA PushInOrder ==
  ASSUME NEW S, Ageing(S), NEW s \in Seq(S), NEW e \in S, e.age = 0, NEW n \in Nat \ {0},
         Len(s) <= n, NEW limit \in Nat, NewestLast(s, limit), NEW p, IsPush(p, s, e, n, S)
  PROVE  NewestLast(p, limit)
<1> DEFINE k == IF Len(s) < n THEN 0 ELSE 1
<1>1. Len(s) \in Nat /\ k \in 0..1
  OBVIOUS
<1>2. /\ Len(p) + k = Len(s) + 1 /\ Len(p) \in Nat /\ p[Len(p)] = e
      /\ \A i \in 1..Len(p) - 1 : i + k \in 1..Len(s) /\ p[i] = s[i + k]
  <2>1. CASE Len(s) < n
    <3>1. /\ Len(p) = Len(s) + 1 /\ p[Len(s) + 1] = e
          /\ \A i \in 1..Len(s) : p[i] = s[i]
      BY <2>1 DEF IsPush
    <3> QED
      BY <1>1, <2>1, <3>1
  <2>2. CASE Len(s) = n
    <3>1. Len(p) = n /\ p[n] = e /\ \A i \in 1..n - 1 : p[i] = s[i + 1]
      BY <2>2 DEF IsPush
    <3> QED
      BY <1>1, <2>2, <3>1
  <2> QED
    BY <1>1, <2>1, <2>2
<1>3. \A i \in 1..Len(s) : s[i].age \in Nat
  BY DEF Ageing
<1> HIDE DEF k
<1>4. ASSUME NEW i \in 1..Len(p), NEW j \in 1..Len(p), i <= j
      PROVE  p[j].age <= p[i].age
  <2>1. CASE j = Len(p)
    <3>1. CASE i = Len(p)
      BY <1>2, <2>1, <3>1
    <3>2. CASE i # Len(p)
      <4>1. i \in 1..Len(p) - 1
        BY <1>2, <3>2
      <4>2. i + k \in 1..Len(s) /\ p[i] = s[i + k]
        BY <1>2, <4>1
      <4>3. p[i].age \in Nat
        BY <1>3, <4>2
      <4> QED
        BY <1>2, <2>1, <4>3
    <3> QED
      BY <3>1, <3>2
  <2>2. CASE j # Len(p)
    <3>1. i \in 1..Len(p) - 1 /\ j \in 1..Len(p) - 1
      BY <1>2, <1>4, <2>2
    <3>2. /\ i + k \in 1..Len(s) /\ j + k \in 1..Len(s) /\ i + k <= j + k
          /\ p[i] = s[i + k] /\ p[j] = s[j + k]
      BY <1>1, <1>2, <1>4, <3>1
    <3> QED
      BY <3>2 DEF NewestLast
  <2> QED
    BY <2>1, <2>2
<1>5. ASSUME NEW i \in 1..Len(p) PROVE p[i].age <= limit
  <2>1. CASE i = Len(p)
    BY <1>2, <2>1
  <2>2. CASE i # Len(p)
    <3>1. i \in 1..Len(p) - 1
      BY <1>2, <2>2
    <3>2. i + k \in 1..Len(s) /\ p[i] = s[i + k]
      BY <1>2, <3>1
    <3> QED
      BY <3>2 DEF NewestLast
  <2> QED
    BY <2>1, <2>2
<1> QED
  BY <1>4, <1>5 DEF NewestLast

\* Both forget in the same way when something comes.
LEMMA TrailsPush ==
  ASSUME NEW S, Ageing(S), NEW d, NEW h, NEW n \in Nat \ {0}, NEW limit \in Nat,
         Trails(d, h, n, limit, S), NEW e \in S, e.age = 0
  PROVE  Trails(Push(d, e, n), Push(h, e, n + 1), n, limit, S)
<1>0. n \in Nat /\ n >= 1 /\ n + 1 \in Nat \ {0}
  OBVIOUS
<1>1. /\ h \in Seq(S) /\ Len(h) \in Nat /\ Len(h) <= n + 1 /\ NewestLast(h, limit)
      /\ d \in Seq(S) /\ Len(d) \in Nat /\ Len(d) <= n
      /\ Len(h) <= n => d = h
      /\ Len(h) > n => Len(h) = n + 1 /\ Len(d) = n /\ \A i \in 1..n : d[i] = h[i + 1]
  BY DEF Trails
<1>2. SUFFICES ASSUME NEW p, IsPush(p, h, e, n + 1, S), NEW q, IsPush(q, d, e, n, S)
               PROVE  Trails(q, p, n, limit, S)
  <2>1. IsPush(Push(h, e, n + 1), h, e, n + 1, S)
    BY <1>0, <1>1, PushIs
  <2>2. IsPush(Push(d, e, n), d, e, n, S)
    BY <1>1, PushIs
  <2> QED
    BY <2>1, <2>2
<1>3. NewestLast(p, limit)
  BY <1>0, <1>1, <1>2, PushInOrder
<1>4. /\ p \in Seq(S) /\ Len(p) \in Nat /\ Len(p) <= n + 1
      /\ q \in Seq(S) /\ Len(q) \in Nat /\ Len(q) <= n
  BY <1>0, <1>2 DEF IsPush
<1>5. CASE Len(h) < n
  <2>1. d = h
    BY <1>0, <1>1, <1>5
  <2>2. /\ Len(p) = Len(h) + 1 /\ p[Len(h) + 1] = e /\ \A i \in 1..Len(h) : p[i] = h[i]
    BY <1>0, <1>1, <1>2, <1>5 DEF IsPush
  <2>3. /\ Len(q) = Len(h) + 1 /\ q[Len(h) + 1] = e /\ \A i \in 1..Len(h) : q[i] = h[i]
    BY <1>0, <1>1, <1>2, <1>5, <2>1 DEF IsPush
  <2>4. \A i \in 1..Len(q) : q[i] = p[i]
    BY <1>1, <2>2, <2>3
  <2>5. q = p
    BY <1>4, <2>2, <2>3, <2>4, SameSeq
  <2>6. Len(p) <= n /\ ~(Len(p) > n)
    BY <1>0, <1>1, <1>5, <2>2
  <2> QED
    BY <1>3, <1>4, <2>5, <2>6 DEF Trails
<1>6. CASE Len(h) = n
  <2>1. d = h
    BY <1>0, <1>1, <1>6
  <2>2. /\ Len(p) = n + 1 /\ p[n + 1] = e /\ \A i \in 1..n : p[i] = h[i]
    BY <1>0, <1>1, <1>2, <1>6 DEF IsPush
  <2>3. /\ Len(q) = n /\ q[n] = e /\ \A i \in 1..n - 1 : q[i] = h[i + 1]
    BY <1>0, <1>1, <1>2, <1>6, <2>1 DEF IsPush
  <2>4. \A i \in 1..n : q[i] = p[i + 1]
    <3> TAKE i \in 1..n
    <3>1. CASE i = n
      BY <2>2, <2>3, <3>1
    <3>2. CASE i # n
      <4>1. i \in 1..n - 1 /\ i + 1 \in 1..n
        BY <1>0, <3>2
      <4> QED
        BY <2>2, <2>3, <4>1
    <3> QED
      BY <3>1, <3>2
  <2>5. ~(Len(p) <= n)
    BY <1>0, <2>2
  <2> QED
    BY <1>3, <1>4, <2>2, <2>3, <2>4, <2>5 DEF Trails
<1>7. CASE Len(h) = n + 1
  <2>1. Len(d) = n /\ \A i \in 1..n : d[i] = h[i + 1]
    BY <1>0, <1>1, <1>7
  <2>2. /\ Len(p) = n + 1 /\ p[n + 1] = e /\ \A i \in 1..n : p[i] = h[i + 1]
    <3>1. n + 1 - 1 = n
      BY <1>0
    <3> QED
      BY <1>0, <1>2, <1>7, <3>1 DEF IsPush
  <2>3. /\ Len(q) = n /\ q[n] = e /\ \A i \in 1..n - 1 : q[i] = d[i + 1]
    BY <1>0, <1>1, <1>2, <2>1 DEF IsPush
  <2>4. \A i \in 1..n : q[i] = p[i + 1]
    <3> TAKE i \in 1..n
    <3>1. CASE i = n
      BY <2>2, <2>3, <3>1
    <3>2. CASE i # n
      <4>1. i \in 1..n - 1 /\ i + 1 \in 1..n
        BY <1>0, <3>2
      <4> QED
        BY <2>1, <2>2, <2>3, <4>1
    <3> QED
      BY <3>1, <3>2
  <2>5. ~(Len(p) <= n)
    BY <1>0, <2>2
  <2> QED
    BY <1>3, <1>4, <2>2, <2>3, <2>4, <2>5 DEF Trails
<1> QED
  BY <1>0, <1>1, <1>5, <1>6, <1>7

LEMMA TrailsNonempty ==
  ASSUME NEW S, NEW n \in Nat \ {0}, NEW limit \in Nat, NEW d, NEW h, Trails(d, h, n, limit, S)
  PROVE  d = <<>> <=> h = <<>>
<1>1. CASE Len(h) <= n
  BY <1>1 DEF Trails
<1>2. CASE Len(h) > n
  <2>1. Len(h) # 0 /\ Len(d) # 0
    BY <1>2 DEF Trails
  <2>2. Len(<<>>) = 0
    OBVIOUS
  <2> QED
    BY <2>1, <2>2
<1>3. Len(h) \in Nat /\ n \in Nat
  BY DEF Trails
<1> QED
  BY <1>1, <1>2, <1>3

\* A tick leaves the order as it is.
LEMMA AgingInOrder ==
  ASSUME NEW S, Ageing(S), NEW s \in Seq(S), NEW limit \in Nat, NewestLast(s, limit),
         NEW a, NEW k, IsAged(a, s, limit, k, S)
  PROVE  NewestLast(a, limit)
<1>1. /\ k \in 0..Len(s) /\ Len(a) = Len(s) - k
      /\ \A i \in 1..Len(s) - k : a[i] = Grown(s[i + k])
      /\ k < Len(s) => s[k + 1].age < limit
  BY DEF IsAged
<1>2. Len(s) \in Nat /\ k \in Nat /\ \A i \in 1..Len(s) : s[i] \in S
  BY <1>1
<1>3. ASSUME NEW i \in 1..Len(a)
      PROVE  /\ i + k \in 1..Len(s) /\ k + 1 \in 1..Len(s) /\ k + 1 <= i + k /\ k < Len(s)
             /\ s[i + k].age \in Nat /\ a[i].age = s[i + k].age + 1
  <2>1. i + k \in 1..Len(s) /\ k + 1 \in 1..Len(s) /\ k + 1 <= i + k /\ k < Len(s)
    BY <1>1, <1>2
  <2>2. s[i + k] \in S /\ a[i] = Grown(s[i + k])
    BY <1>1, <1>2, <2>1
  <2> QED
    BY <2>1, <2>2 DEF Ageing
<1>4. ASSUME NEW i \in 1..Len(a), NEW j \in 1..Len(a), i <= j
      PROVE  a[j].age <= a[i].age
  <2>1. i + k <= j + k
    BY <1>1, <1>2, <1>4
  <2>2. s[j + k].age <= s[i + k].age
    BY <1>3, <2>1 DEF NewestLast
  <2>3. /\ s[i + k].age \in Nat /\ a[i].age = s[i + k].age + 1
        /\ s[j + k].age \in Nat /\ a[j].age = s[j + k].age + 1
    BY <1>3
  <2> QED
    BY <2>2, <2>3
<1>5. ASSUME NEW i \in 1..Len(a) PROVE a[i].age <= limit
  <2>1. s[i + k].age <= s[k + 1].age
    BY <1>3 DEF NewestLast
  <2>2. s[k + 1].age < limit /\ s[k + 1].age \in Nat
    BY <1>1, <1>2, <1>3 DEF Ageing
  <2>3. s[i + k].age \in Nat /\ a[i].age = s[i + k].age + 1
    BY <1>3
  <2> QED
    BY <2>1, <2>2, <2>3
<1> QED
  BY <1>4, <1>5 DEF NewestLast

\* Both forget in the same way as time goes by.
LEMMA TrailsAging ==
  ASSUME NEW S, Ageing(S), NEW d, NEW h, NEW n \in Nat \ {0}, NEW limit \in Nat,
         Trails(d, h, n, limit, S)
  PROVE  Trails(Aging(d, limit), Aging(h, limit), n, limit, S)
<1>0. n \in Nat /\ n >= 1
  OBVIOUS
<1>1. /\ h \in Seq(S) /\ Len(h) \in Nat /\ Len(h) <= n + 1 /\ NewestLast(h, limit)
      /\ d \in Seq(S) /\ Len(d) \in Nat /\ Len(d) <= n
      /\ Len(h) <= n => d = h
      /\ Len(h) > n => Len(h) = n + 1 /\ Len(d) = n /\ \A i \in 1..n : d[i] = h[i + 1]
  BY DEF Trails
<1>2. SUFFICES ASSUME NEW a, NEW k \in Nat, IsAged(a, h, limit, k, S),
                      NEW b, NEW j \in Nat, IsAged(b, d, limit, j, S),
                      h = d => a = b
               PROVE  Trails(b, a, n, limit, S)
  <2>1. \E k \in Nat : IsAged(Aging(h, limit), h, limit, k, S)
    BY <1>1, AgingIs
  <2>2. \E j \in Nat : IsAged(Aging(d, limit), d, limit, j, S)
    BY <1>1, AgingIs
  <2> QED
    BY <2>1, <2>2
<1>3. /\ a \in Seq(S) /\ k \in 0..Len(h) /\ Len(a) = Len(h) - k
      /\ \A i \in 1..Len(h) - k : a[i] = Grown(h[i + k])
      /\ \A i \in 1..k : h[i].age >= limit
      /\ k < Len(h) => h[k + 1].age < limit
  BY <1>2 DEF IsAged
<1>4. NewestLast(a, limit)
  BY <1>1, <1>2, AgingInOrder
<1>5. /\ b \in Seq(S) /\ j \in 0..Len(d) /\ Len(b) = Len(d) - j
      /\ \A i \in 1..Len(d) - j : b[i] = Grown(d[i + j])
      /\ \A i \in 1..j : d[i].age >= limit
      /\ j < Len(d) => d[j + 1].age < limit
  BY <1>2 DEF IsAged
<1>8. Len(a) \in Nat /\ Len(a) <= n + 1 /\ Len(b) \in Nat /\ Len(b) <= n
  BY <1>0, <1>1, <1>3, <1>5
<1>6. CASE Len(h) <= n
  <2>1. a = b /\ Len(a) <= n /\ ~(Len(a) > n)
    BY <1>0, <1>1, <1>2, <1>3, <1>6, <1>8
  <2> QED
    BY <1>3, <1>4, <1>8, <2>1 DEF Trails
<1>7. CASE Len(h) > n
  <2>0. Len(h) = n + 1 /\ Len(d) = n /\ \A i \in 1..n : d[i] = h[i + 1]
    BY <1>1, <1>7
  <2>1. \A i \in 1..n + 1 : h[i].age \in Nat
    BY <1>1, <2>0 DEF Ageing
  <2>2. k \in 0..n + 1 /\ j \in 0..n
    BY <1>3, <1>5, <2>0
  <2>3. CASE k = 0
    <3>1. h[1].age < limit /\ h[2].age <= h[1].age
      <4>1. 1 \in 1..Len(h) /\ 2 \in 1..Len(h) /\ k < Len(h) /\ k + 1 = 1
        BY <1>0, <2>0, <2>3
      <4> QED
        BY <1>1, <1>3, <4>1 DEF NewestLast
    <3>2. d[1] = h[2] /\ 1 \in 1..n /\ 2 \in 1..n + 1
      BY <1>0, <2>0
    <3>3. j = 0
      <4> SUFFICES ASSUME j # 0 PROVE FALSE
        OBVIOUS
      <4>1. 1 \in 1..j
        BY <2>2
      <4>2. d[1].age >= limit
        BY <1>5, <4>1
      <4> QED
        BY <1>0, <2>1, <3>1, <3>2, <4>2
    <3>4. Len(a) = n + 1 /\ Len(b) = n
      BY <1>0, <1>3, <1>5, <2>0, <2>3, <3>3
    <3>5. \A i \in 1..n : b[i] = a[i + 1]
      <4> TAKE i \in 1..n
      <4>1. b[i] = Grown(d[i])
        <5>1. i \in 1..Len(d) - j /\ i + j = i
          BY <1>0, <2>0, <3>3
        <5> QED
          BY <1>5, <5>1
      <4>2. a[i + 1] = Grown(h[i + 1])
        <5>1. i + 1 \in 1..Len(h) - k /\ i + 1 + k = i + 1
          BY <1>0, <2>0, <2>3
        <5> QED
          BY <1>3, <5>1
      <4> QED
        BY <2>0, <4>1, <4>2
    <3>6. ~(Len(a) <= n)
      BY <1>0, <3>4
    <3> QED
      BY <1>3, <1>4, <1>5, <1>8, <3>4, <3>5, <3>6 DEF Trails
  <2>4. CASE k > 0
    <3>1. j = k - 1
      <4>1. ~(j < k - 1)
        <5> SUFFICES ASSUME j < k - 1 PROVE FALSE
          OBVIOUS
        <5>1. j < Len(d) /\ j + 1 \in 1..n /\ j + 2 \in 1..k /\ j + 2 \in 1..n + 1
          BY <1>0, <2>0, <2>2
        <5>2. d[j + 1].age < limit /\ h[j + 2].age >= limit
          BY <1>3, <1>5, <5>1
        <5>3. d[j + 1] = h[j + 2]
          <6>1. d[j + 1] = h[j + 1 + 1] /\ j + 1 + 1 = j + 2
            BY <2>0, <2>2, <5>1
          <6> QED
            BY <6>1
        <5> QED
          BY <2>1, <5>1, <5>2, <5>3
      <4>2. ~(j > k - 1)
        <5> SUFFICES ASSUME j > k - 1 PROVE FALSE
          OBVIOUS
        <5>1. k \in 1..j /\ k \in 1..n /\ k < Len(h) /\ k + 1 \in 1..n + 1
          BY <1>0, <2>0, <2>2, <2>4
        <5>2. d[k].age >= limit /\ h[k + 1].age < limit /\ d[k] = h[k + 1]
          BY <1>3, <1>5, <2>0, <5>1
        <5> QED
          BY <2>1, <5>1, <5>2
      <4> QED
        BY <2>2, <4>1, <4>2
    <3>2. Len(a) = n + 1 - k /\ Len(b) = n + 1 - k
      BY <1>0, <1>3, <1>5, <2>0, <2>2, <3>1
    <3>3. \A i \in 1..Len(b) : b[i] = a[i]
      <4> TAKE i \in 1..Len(b)
      <4>1. b[i] = Grown(d[i + j])
        <5>1. i \in 1..Len(d) - j
          BY <1>5
        <5> QED
          BY <1>5, <5>1
      <4>2. a[i] = Grown(h[i + k])
        <5>1. i \in 1..Len(h) - k
          BY <1>3, <3>2
        <5> QED
          BY <1>3, <5>1
      <4>3. i + j \in 1..n /\ i + j + 1 = i + k
        BY <1>0, <2>2, <2>4, <3>1, <3>2
      <4>4. d[i + j] = h[i + k]
        BY <2>0, <4>3
      <4> QED
        BY <4>1, <4>2, <4>4
    <3>4. b = a
      BY <1>3, <1>5, <3>2, <3>3, SameSeq
    <3>5. Len(a) <= n /\ ~(Len(a) > n)
      BY <1>0, <2>2, <2>4, <3>2
    <3> QED
      BY <1>3, <1>4, <1>8, <3>4, <3>5 DEF Trails
  <2> QED
    BY <2>2, <2>3, <2>4
<1> QED
  BY <1>0, <1>1, <1>6, <1>7

-----------------------------------------------------------------------------
(* Triage: the deques and what they remember.                              *)

Source == {"data", "pac", "iot"}
Subjects == {m.subject : m \in UNION Feeds}
Graded == [sev : {"LOW", "MEDIUM", "HIGH", "CRITICAL"}, of : Subjects, age : Nat]

RememberInv ==
    /\ feed \in Feeds
    /\ DOMAIN recent = DOMAIN heard
    /\ \A k \in DOMAIN heard :
          /\ k[1] \in Source
          /\ Trails(recent[k], heard[k], Depth[k[1]], LargestWindow(k), Graded)

LEMMA Levels ==
    /\ DOMAIN Rank = {"LOW", "MEDIUM", "HIGH", "CRITICAL"}
    /\ Rank["LOW"] = 0 /\ Rank["MEDIUM"] = 1 /\ Rank["HIGH"] = 2 /\ Rank["CRITICAL"] = 3
    /\ \A s \in DOMAIN Rank : Rank[s] \in 0..3
BY DEF Rank

LEMMA AlertEntries == Ageing(Graded)
BY DEF Ageing, Graded, Grown

LEMMA WindowIs ==
  ASSUME TriageAssumption, NEW k, k[1] \in Source
  PROVE  LargestWindow(k) \in Nat /\ Depth[k[1]] \in Nat \ {0}
<1>1. Depth[k[1]] \in Nat \ {0}
  BY DEF TriageAssumption, Source
<1>2. {Short, Cred, Long, Corr, CardWin, FireCorr} \subseteq Nat
  BY DEF TriageAssumption
<1>3. CASE k[1] = "data"
  BY <1>1, <1>2, <1>3 DEF LargestWindow
<1>4. CASE k[1] = "pac"
  BY <1>1, <1>2, <1>4 DEF LargestWindow
<1>5. CASE k[1] = "iot"
  BY <1>1, <1>2, <1>5 DEF LargestWindow
<1> QED
  BY <1>1, <1>3, <1>4, <1>5 DEF Source

LEMMA KeysIs ==
  ASSUME NEW m, m.to \in Source, NEW k \in Keys(m)
  PROVE  k[1] = m.to
<1>1. CASE m.to = "data"
  BY <1>1 DEF Keys
<1>2. CASE m.to = "pac"
  BY <1>2 DEF Keys
<1>3. CASE m.to = "iot"
  BY <1>3 DEF Keys
<1> QED
  BY <1>1, <1>2, <1>3 DEF Source

\* n is d with an entry for m behind each of its deques.
IsNoted(n, d, m, more) ==
    /\ DOMAIN n = DOMAIN d \cup Keys(m)
    /\ \A k \in Keys(m) :
          n[k] = Push(Of(d, k), AlertOf(m), Depth[m.to] + more)
    /\ \A k \in DOMAIN d \ Keys(m) : n[k] = d[k]

LEMMA NotedIs ==
  ASSUME NEW d, NEW m, NEW more
  PROVE  IsNoted(Noted(d, m, more), d, m, more)
BY DEF Noted, IsNoted

LEMMA AgedIs ==
  ASSUME NEW d
  PROVE  /\ DOMAIN AgedAlerts(d) = {k \in DOMAIN d : Aging(d[k], LargestWindow(k)) # <<>>}
         /\ \A k \in DOMAIN AgedAlerts(d) : AgedAlerts(d)[k] = Aging(d[k], LargestWindow(k))
BY DEF AgedAlerts

LEMMA RememberInit == TriageInit => RememberInv
BY DEF TriageInit, RememberInv

LEMMA ConsumeRemembers ==
  ASSUME TriageAssumption, RememberInv, NEW m \in feed, ConsumeAlert(m)
  PROVE  RememberInv'
<1> DEFINE e == AlertOf(m)
<1>1. m.to \in Source /\ e \in Graded /\ e.age = 0
  <2>1. m.to \in {"data", "pac", "iot"} /\ m.sev \in DOMAIN Rank
    BY DEF RememberInv, TriageAssumption
  <2>2. m.subject \in Subjects
    BY DEF RememberInv, Subjects
  <2> QED
    BY <2>1, <2>2, Levels DEF Source, Graded, AlertOf
<1>2. recent' = Noted(recent, m, 0) /\ heard' = Noted(heard, m, 1) /\ feed' = feed
  BY DEF ConsumeAlert
<1>5. IsNoted(recent', recent, m, 0) /\ IsNoted(heard', heard, m, 1)
  BY <1>2, NotedIs
<1>3. DOMAIN recent' = DOMAIN heard'
  BY <1>5 DEF RememberInv, IsNoted
<1>4. ASSUME NEW k \in DOMAIN heard'
      PROVE  /\ k[1] \in Source
             /\ Trails(recent'[k], heard'[k], Depth[k[1]], LargestWindow(k), Graded)
  <2>1. CASE k \in Keys(m)
    <3>1. k[1] = m.to /\ k[1] \in Source
      BY <1>1, <2>1, KeysIs
    <3>2. LargestWindow(k) \in Nat /\ Depth[m.to] \in Nat \ {0}
      BY <3>1, WindowIs
    <3>3. Trails(Of(recent, k), Of(heard, k), Depth[m.to], LargestWindow(k), Graded)
      <4>1. CASE k \in DOMAIN heard
        <5>1. Of(recent, k) = recent[k] /\ Of(heard, k) = heard[k]
          BY <4>1 DEF RememberInv, Of
        <5>2. Trails(recent[k], heard[k], Depth[m.to], LargestWindow(k), Graded)
          BY <3>1, <4>1 DEF RememberInv
        <5> QED
          BY <5>1, <5>2
      <4>2. CASE k \notin DOMAIN heard
        <5>1. Of(recent, k) = <<>> /\ Of(heard, k) = <<>>
          BY <4>2 DEF RememberInv, Of
        <5> QED
          BY <3>2, <5>1, TrailsEmpty
      <4> QED
        BY <4>1, <4>2
    <3>4. Trails(Push(Of(recent, k), e, Depth[m.to]), Push(Of(heard, k), e, Depth[m.to] + 1),
                 Depth[m.to], LargestWindow(k), Graded)
      BY <1>1, <3>2, <3>3, AlertEntries, TrailsPush
    <3>5. /\ recent'[k] = Push(Of(recent, k), e, Depth[m.to] + 0)
          /\ heard'[k] = Push(Of(heard, k), e, Depth[m.to] + 1)
      BY <1>5, <2>1 DEF IsNoted
    <3>6. Depth[m.to] + 0 = Depth[m.to]
      BY <3>2
    <3> QED
      BY <3>1, <3>4, <3>5, <3>6
  <2>2. CASE k \notin Keys(m)
    <3>1. k \in DOMAIN heard /\ k \in DOMAIN recent
      BY <1>5, <2>2 DEF RememberInv, IsNoted
    <3>2. recent'[k] = recent[k] /\ heard'[k] = heard[k]
      BY <1>5, <2>2, <3>1 DEF IsNoted
    <3> QED
      BY <3>1, <3>2 DEF RememberInv
  <2> QED
    BY <2>1, <2>2
<1> QED
  BY <1>2, <1>3, <1>4 DEF RememberInv

LEMMA TickRemembers ==
  ASSUME TriageAssumption, RememberInv, TriageTick
  PROVE  RememberInv'
<1>1. recent' = AgedAlerts(recent) /\ heard' = AgedAlerts(heard) /\ feed' = feed
  BY DEF TriageTick
<1>2. ASSUME NEW k \in DOMAIN heard
      PROVE  /\ k[1] \in Source
             /\ Trails(Aging(recent[k], LargestWindow(k)), Aging(heard[k], LargestWindow(k)),
                       Depth[k[1]], LargestWindow(k), Graded)
             /\ Aging(recent[k], LargestWindow(k)) = <<>> <=> Aging(heard[k], LargestWindow(k)) = <<>>
  <2>1. k[1] \in Source /\ Trails(recent[k], heard[k], Depth[k[1]], LargestWindow(k), Graded)
    BY DEF RememberInv
  <2>2. LargestWindow(k) \in Nat /\ Depth[k[1]] \in Nat \ {0}
    BY <2>1, WindowIs
  <2>3. Trails(Aging(recent[k], LargestWindow(k)), Aging(heard[k], LargestWindow(k)),
               Depth[k[1]], LargestWindow(k), Graded)
    BY <2>1, <2>2, AlertEntries, TrailsAging
  <2> QED
    BY <2>1, <2>2, <2>3, TrailsNonempty
<1>3. DOMAIN recent' = DOMAIN heard' /\ DOMAIN heard' \subseteq DOMAIN heard
  BY <1>1, <1>2, AgedIs DEF RememberInv
<1>4. ASSUME NEW k \in DOMAIN heard'
      PROVE  /\ k[1] \in Source
             /\ Trails(recent'[k], heard'[k], Depth[k[1]], LargestWindow(k), Graded)
  <2>1. recent'[k] = Aging(recent[k], LargestWindow(k)) /\ heard'[k] = Aging(heard[k], LargestWindow(k))
    BY <1>1, <1>3, AgedIs
  <2> QED
    BY <1>2, <1>3, <2>1
<1> QED
  BY <1>1, <1>3, <1>4 DEF RememberInv

LEMMA RememberNext ==
  ASSUME TriageAssumption, RememberInv, [TriageNext]_triageVars
  PROVE  RememberInv'
<1>1. ASSUME UNCHANGED <<feed, recent, heard>> PROVE RememberInv'
  BY <1>1 DEF RememberInv
<1>2. ASSUME NEW m \in feed, ConsumeSpoofed(m) PROVE RememberInv'
  BY <1>1, <1>2 DEF ConsumeSpoofed
<1>3. ASSUME NEW m \in feed, ConsumeDropped(m) PROVE RememberInv'
  BY <1>1, <1>3 DEF ConsumeDropped
<1>4. CASE UNCHANGED triageVars
  BY <1>1, <1>4 DEF triageVars
<1> QED
  BY <1>2, <1>3, <1>4, ConsumeRemembers, TickRemembers DEF TriageNext

\* What a deque says, as long as it holds everything that it was told.
LEMMA HeldIsHeard ==
  ASSUME RememberInv, NEW k \in DOMAIN heard, Len(heard[k]) <= Depth[k[1]]
  PROVE  recent[k] = heard[k]
BY DEF RememberInv, Trails

LEMMA CameIn ==
  ASSUME NEW d, NEW k, NEW s, NEW w, Came(d, k, s, w)
  PROVE  k \in DOMAIN d /\ \E i \in DOMAIN d[k] : d[k][i].age <= w /\ Rank[d[k][i].sev] >= Rank[s]
BY DEF Came, Of

LEMMA CameWider ==
  ASSUME NEW d, NEW k, d[k] \in Seq(Graded), NEW s, NEW w \in Nat, NEW wider \in Nat,
         w <= wider, Came(d, k, s, w)
  PROVE  Came(d, k, s, wider)
<1>1. PICK i \in DOMAIN d[k] : d[k][i].age <= w /\ Rank[d[k][i].sev] >= Rank[s]
  BY CameIn
<1>2. d[k][i] \in Graded
  BY <1>1
<1>3. d[k][i].age <= wider
  BY <1>1, <1>2 DEF Graded
<1> QED
  BY <1>1, <1>3, CameIn DEF Came, Of

LEMMA CompletesCame ==
  ASSUME NEW p, NEW m, NEW d, Completes(p, m, d)
  PROVE  Came(d, KeyOf(p.to, p.first, m.subject), p.sev1, p.window)
BY DEF Completes, Came, Of

LEMMA DataPair ==
  ASSUME NEW m, NEW d, NEW one, NEW other, NEW w, m.type = other,
         Came(d, <<"data", one, m.subject>>, "LOW", w),
         <<one, other, w>> \in
            {<<"ransomware_behavior", "credential_dump", Cred>>,
             <<"credential_dump", "ransomware_behavior", Cred>>,
             <<"port_scan", "brute_force_ssh", Short>>, <<"brute_force_ssh", "port_scan", Short>>,
             <<"port_scan", "brute_force_http", Short>>, <<"brute_force_http", "port_scan", Short>>,
             <<"lateral_movement", "privilege_escalation", Long>>,
             <<"privilege_escalation", "lateral_movement", Long>>}
  PROVE  DataRule(m, d) /\ one # other /\ other \notin Enforcement
BY DEF DataRule, Enforcement

LEMMA PacPair ==
  ASSUME NEW m, NEW d, NEW one, NEW other, NEW sev, m.type = other,
         Came(d, <<"pac", one>>, sev, Corr),
         <<one, sev, other>> \in
            {<<"unknown_card_attempt", "HIGH", "brute_force_badge_attempt">>,
             <<"brute_force_badge_attempt", "HIGH", "unknown_card_attempt">>,
             <<"unauthorized_area_access", "MEDIUM", "impossible_travel_detected">>,
             <<"impossible_travel_detected", "HIGH", "unauthorized_area_access">>}
  PROVE  PacRule(m, d) /\ one # other
BY DEF PacRule

LEMMA IotPair ==
  ASSUME NEW m, NEW d, NEW one, NEW other, NEW sev, m.type = other,
         Rank[m.sev] >= Rank["HIGH"],
         Came(d, <<"iot", one>>, sev, FireCorr),
         <<one, sev, other>> \in
            {<<"temperature", "HIGH", "gas">>, <<"gas", "MEDIUM", "temperature">>,
             <<"gas", "HIGH", "motion">>}
  PROVE  IotRule(m, d) /\ one # other
BY DEF IotRule

\* The first alert of a pair is still there when the second one is graded.
LEMMA FirstIsKept ==
  ASSUME TriageAssumption, RememberInv, NEW m \in feed, ConsumeAlert(m), NEW k,
         k \notin Keys(m), NEW s, NEW w, Came(heard, k, s, w), Len(heard[k]) <= Depth[k[1]]
  PROVE  Came(recent', k, s, w) /\ recent'[k] \in Seq(Graded)
<1>1. k \in DOMAIN heard /\ \E i \in DOMAIN heard[k] :
         heard[k][i].age <= w /\ Rank[heard[k][i].sev] >= Rank[s]
  BY CameIn
<1>2. recent[k] = heard[k] /\ recent[k] \in Seq(Graded)
  BY <1>1, HeldIsHeard DEF RememberInv, Trails
<1>3. IsNoted(recent', recent, m, 0)
  BY NotedIs DEF ConsumeAlert
<1>4. k \in DOMAIN recent' /\ recent'[k] = recent[k]
  BY <1>1, <1>3 DEF IsNoted, RememberInv
<1> QED
  BY <1>1, <1>2, <1>4 DEF Came, Of

\* A CRITICAL alert that is not suppressed becomes a CRITICAL incident.
LEMMA CriticalIs ==
  ASSUME TriageAssumption, RememberInv, NEW m \in feed, ConsumeAlert(m),
         ~Suppress(m), Severity(m, recent') = "CRITICAL"
  PROVE  incident' # Nobody /\ incident'.sev = "CRITICAL"
<1> DEFINE r == Response(m, "CRITICAL")
<1>1. r \in {"none", "block_attacker_ip", "isolate_host"}
  BY DEF Response
<1> HIDE DEF r
<1>2. incident' = [sev |-> "CRITICAL", type |-> m.type, subject |-> m.subject, response |-> r]
  BY Levels DEF ConsumeAlert, Incident, r
<1>3. Nobody # [sev |-> "CRITICAL", type |-> m.type, subject |-> m.subject, response |-> r]
  BY <1>1, Levels DEF TriageAssumption, RememberInv
<1> QED
  BY <1>2, <1>3

LEMMA PairIsNotTriple == \A a, b, c, d, e : <<a, b>> # <<c, d, e>>
OBVIOUS

LEMMA PairFires ==
  ASSUME TriageAssumption, RememberInv, NEW m \in feed, ConsumeAlert(m), NEW p \in Pairs,
         Completes(p, m, heard), ~Unlooked(p, m),
         Len(heard[KeyOf(p.to, p.first, m.subject)]) <= Depth[p.to]
  PROVE  ~Suppress(m) /\ Severity(m, recent') = "CRITICAL"
<1> DEFINE k == KeyOf(p.to, p.first, m.subject)
<1>1. ASSUME k \notin Keys(m), k[1] = p.to
      PROVE  Came(recent', k, p.sev1, p.window) /\ recent'[k] \in Seq(Graded)
  BY <1>1, CompletesCame, FirstIsKept
<1>0. m.to = p.to /\ m.type = p.second /\ Rank[m.sev] >= Rank[p.sev2]
  BY DEF Completes
<1>2. CASE p.to = "data"
  <2>1. /\ <<p.first, p.second, p.window>> \in
            {<<"ransomware_behavior", "credential_dump", Cred>>,
             <<"credential_dump", "ransomware_behavior", Cred>>,
             <<"port_scan", "brute_force_ssh", Short>>, <<"brute_force_ssh", "port_scan", Short>>,
             <<"port_scan", "brute_force_http", Short>>, <<"brute_force_http", "port_scan", Short>>,
             <<"lateral_movement", "privilege_escalation", Long>>,
             <<"privilege_escalation", "lateral_movement", Long>>}
        /\ p.sev1 = "LOW"
    BY <1>2 DEF Pairs, Pair, Ordered
  <2>2. k = <<"data", p.first, m.subject>>
    BY <1>2 DEF KeyOf
  <2>3. p.first # p.second
    BY <2>1
  <2>4. k \notin Keys(m) /\ k[1] = p.to
    BY <1>0, <1>2, <2>2, <2>3 DEF Keys
  <2>5. Came(recent', <<"data", p.first, m.subject>>, "LOW", p.window)
    BY <1>1, <2>1, <2>2, <2>4
  <2>6. DataRule(m, recent') /\ p.second \notin Enforcement
    BY <1>0, <2>1, <2>5, DataPair
  <2> QED
    BY <1>0, <1>2, <2>6 DEF Severity, Suppress
<1>3. CASE p.to = "pac"
  <2>1. /\ <<p.first, p.sev1, p.second>> \in
            {<<"unknown_card_attempt", "HIGH", "brute_force_badge_attempt">>,
             <<"brute_force_badge_attempt", "HIGH", "unknown_card_attempt">>,
             <<"unauthorized_area_access", "MEDIUM", "impossible_travel_detected">>,
             <<"impossible_travel_detected", "HIGH", "unauthorized_area_access">>}
        /\ p.window \in {Corr, SameCard}
    BY <1>3 DEF Pairs, Pair, Ordered
  <2>2. k = <<"pac", p.first>>
    BY <1>3 DEF KeyOf
  <2>3. p.first # p.second
    BY <2>1
  <2>4. k \notin Keys(m) /\ k[1] = p.to
    <3>1. k # <<"pac", "card", m.subject>>
      BY <2>2, PairIsNotTriple
    <3> QED
      BY <1>0, <1>3, <2>2, <2>3, <3>1 DEF Keys
  <2>5. Came(recent', <<"pac", p.first>>, p.sev1, Corr)
    <3>1. Corr \in Nat /\ SameCard \in Nat /\ SameCard <= Corr
      BY DEF TriageAssumption
    <3> QED
      BY <1>1, <2>1, <2>2, <2>4, <3>1, CameWider
  <2>6. PacRule(m, recent')
    BY <1>0, <2>1, <2>5, PacPair
  <2> QED
    BY <1>0, <1>3, <2>6 DEF Severity, Suppress
<1>4. CASE p.to = "iot"
  <2>1. /\ <<p.first, p.sev1, p.second>> \in
            {<<"temperature", "HIGH", "gas">>, <<"gas", "MEDIUM", "temperature">>,
             <<"gas", "HIGH", "motion">>}
        /\ p.window = FireCorr /\ Rank[m.sev] >= Rank["HIGH"]
    <3>1. /\ <<p.first, p.sev1, p.second, p.sev2>> \in
                {<<"temperature", "HIGH", "gas", "MEDIUM">>, <<"gas", "MEDIUM", "temperature", "HIGH">>,
                 <<"motion", "HIGH", "gas", "HIGH">>, <<"gas", "HIGH", "motion", "HIGH">>}
          /\ p.window = FireCorr
      BY <1>4 DEF Pairs, Pair, Ordered
    <3>2. m.sev \in DOMAIN Rank
      BY DEF RememberInv, TriageAssumption
    <3>3. m.type = "gas" => p.first # "motion" /\ Rank[m.sev] >= Rank["HIGH"]
      BY <1>4, <3>2, Levels DEF Unlooked
    <3>4. CASE m.type = "gas"
      BY <1>0, <3>1, <3>3, <3>4
    <3>5. CASE m.type # "gas"
      BY <1>0, <3>1, <3>5
    <3> QED
      BY <3>4, <3>5
  <2>2. k = <<"iot", p.first>>
    BY <1>4 DEF KeyOf
  <2>3. p.first # p.second
    BY <2>1
  <2>4. k \notin Keys(m) /\ k[1] = p.to
    BY <1>0, <1>4, <2>2, <2>3 DEF Keys
  <2>5. Came(recent', <<"iot", p.first>>, p.sev1, FireCorr)
    BY <1>1, <2>1, <2>2, <2>4
  <2>6. IotRule(m, recent')
    BY <1>0, <2>1, <2>5, IotPair
  <2> QED
    BY <1>0, <1>4, <2>6 DEF Severity, Suppress
<1>5. p.to \in Source
  BY DEF Pairs, Pair, Ordered, Source
<1> QED
  BY <1>2, <1>3, <1>4, <1>5 DEF Source

LEMMA ThirdFires ==
  ASSUME TriageAssumption, RememberInv, NEW m \in feed, ConsumeAlert(m), m.to = "pac",
         Cardinality(CardAlerts(m, heard')) >= 3,
         Len(heard'[<<"pac", "card", m.subject>>]) <= Depth["pac"]
  PROVE  ~Suppress(m) /\ Severity(m, recent') = "CRITICAL"
<1> DEFINE k == <<"pac", "card", m.subject>>
<1>1. RememberInv'
  BY ConsumeRemembers
<1>2. k \in Keys(m)
  BY DEF Keys
<1>3. IsNoted(heard', heard, m, 1)
  BY NotedIs DEF ConsumeAlert
<1>4. k \in DOMAIN heard' /\ k \in DOMAIN recent' /\ recent'[k] = heard'[k]
  BY <1>1, <1>2, <1>3 DEF IsNoted, RememberInv, Trails
<1>5. CardAlerts(m, recent') = CardAlerts(m, heard')
  BY <1>4 DEF CardAlerts, Of
<1>6. PacRule(m, recent')
  BY <1>5 DEF PacRule
<1> QED
  BY <1>6 DEF Severity, Suppress

LEMMA RememberInvariance == ASSUME TriageAssumption PROVE TriageSpec => []RememberInv
<1>1. RememberInv /\ [TriageNext]_triageVars => RememberInv'
  BY RememberNext
<1> QED
  BY <1>1, RememberInit, PTL DEF TriageSpec

\* Two alerts that mean more together become a CRITICAL incident, in whichever order
\* they come but for the two that the IoT manager does not look for (handle_alert and
\* _reclassify of the three managers).
THEOREM PairsAreCritical == ASSUME TriageAssumption PROVE TriageSpec => PairIsCritical
<1> DEFINE Step == \A m \in feed : ConsumeAlert(m) =>
          /\ \A p \in Pairs :
                /\ Completes(p, m, heard) /\ ~Unlooked(p, m)
                /\ Len(heard[KeyOf(p.to, p.first, m.subject)]) <= Depth[p.to]
                => BecomesCritical
          /\ m.to = "pac" /\ Cardinality(CardAlerts(m, heard')) >= 3
                /\ Len(heard'[<<"pac", "card", m.subject>>]) <= Depth["pac"]
                => BecomesCritical
<1>1. RememberInv => Step
  BY PairFires, ThirdFires, CriticalIs DEF BecomesCritical
<1> QED
  BY <1>1, RememberInvariance, PTL DEF PairIsCritical

GradesInv ==
    /\ \A c \in DOMAIN lastEvent :
          \/ lastEvent[c] = Nobody
          \/ "age" \in DOMAIN lastEvent[c] /\ lastEvent[c].age \in {0, 1}
    /\ incident = Nobody \/ Rank[incident.sev] >= Rank["HIGH"]

LEMMA GradesInit == TriageInit => GradesInv
BY DEF TriageInit, GradesInv

LEMMA GradesNext == GradesInv /\ [TriageNext]_triageVars => GradesInv'
<1> SUFFICES ASSUME GradesInv, [TriageNext]_triageVars PROVE GradesInv'
  OBVIOUS
<1>1. ASSUME NEW m \in feed, ConsumeSpoofed(m) PROVE GradesInv'
  <2>1. UNCHANGED lastEvent /\ incident'.sev = "CRITICAL"
    BY <1>1 DEF ConsumeSpoofed
  <2> QED
    BY <2>1, Levels DEF GradesInv
<1>2. ASSUME NEW m \in feed, ConsumeDropped(m) PROVE GradesInv'
  BY <1>2 DEF ConsumeDropped, GradesInv
<1>3. ASSUME NEW m \in feed, ConsumeAlert(m) PROVE GradesInv'
  <2> DEFINE r == [access |-> m.access, age |-> 0]
  <2>1. \/ lastEvent' = lastEvent
        \/ lastEvent' = [lastEvent EXCEPT ![m.subject] = r]
    BY <1>3 DEF ConsumeAlert
  <2>2. "age" \in DOMAIN r /\ r.age = 0
    OBVIOUS
  <2> HIDE DEF r
  <2>3. \A c \in DOMAIN lastEvent' :
          \/ lastEvent'[c] = Nobody
          \/ "age" \in DOMAIN lastEvent'[c] /\ lastEvent'[c].age \in {0, 1}
    BY <2>1, <2>2 DEF GradesInv
  <2>4. incident' = Nobody \/ \E s : incident' = Incident(m, s)
    BY <1>3 DEF ConsumeAlert
  <2>5. \A s : Incident(m, s) = Nobody \/ Rank[Incident(m, s).sev] >= Rank["HIGH"]
    BY DEF Incident
  <2> QED
    BY <2>3, <2>4, <2>5 DEF GradesInv
<1>4. CASE TriageTick
  <2>1. ASSUME NEW c \in DOMAIN lastEvent, lastEvent[c] # Nobody
        PROVE  /\ "age" \in DOMAIN [lastEvent[c] EXCEPT !.age = 1]
               /\ [lastEvent[c] EXCEPT !.age = 1].age = 1
    <3>1. "age" \in DOMAIN lastEvent[c]
      BY <2>1 DEF GradesInv
    <3> QED
      BY <3>1, Zenon
  <2>2. /\ DOMAIN lastEvent' = DOMAIN lastEvent
        /\ \A c \in DOMAIN lastEvent :
              lastEvent'[c] = IF lastEvent[c] = Nobody THEN Nobody ELSE [lastEvent[c] EXCEPT !.age = 1]
        /\ incident' = Nobody
    BY <1>4, Zenon DEF TriageTick
  <2>3. ASSUME NEW c \in DOMAIN lastEvent'
        PROVE  lastEvent'[c] = Nobody \/ ("age" \in DOMAIN lastEvent'[c] /\ lastEvent'[c].age \in {0, 1})
    BY <2>1, <2>2, Zenon
  <2> QED
    BY <2>2, <2>3 DEF GradesInv
<1>5. CASE UNCHANGED triageVars
  BY <1>5 DEF triageVars, GradesInv
<1> QED
  BY <1>1, <1>2, <1>3, <1>4, <1>5 DEF TriageNext

LEMMA DequesAreSmall ==
  ASSUME TriageAssumption, RememberInv, NEW k \in DOMAIN recent
  PROVE  /\ Len(recent[k]) <= Depth[k[1]]
         /\ \A i \in DOMAIN recent[k] : /\ recent[k][i].sev \in DOMAIN Rank
                                        /\ recent[k][i].age \in 0..LargestWindow(k)
<1> DEFINE d == recent[k]
           h == heard[k]
           n == Depth[k[1]]
           w == LargestWindow(k)
<1>1. k[1] \in Source /\ Trails(d, h, n, w, Graded)
  BY DEF RememberInv
<1>2. w \in Nat /\ n \in Nat \ {0}
  BY <1>1, WindowIs
<1> HIDE DEF d, h, n, w
<1>3. Len(d) <= n /\ NoneOlder(d, w)
  BY <1>1, <1>2, AlertEntries, TrailsNoneOlder DEF Trails
<1>4. ASSUME NEW i \in DOMAIN d PROVE d[i].sev \in DOMAIN Rank /\ d[i].age \in 0..w
  <2>1. d[i] \in Graded
    BY <1>1 DEF Trails
  <2>2. d[i].age <= w
    BY <1>3 DEF NoneOlder
  <2> QED
    BY <1>2, <2>1, <2>2, Levels DEF Graded
<1> QED
  BY <1>3, <1>4 DEF d, n, w

\* The deques stay within maxlen and forget in time (recent, _last_event).
THEOREM TriageTypeCorrect == ASSUME TriageAssumption PROVE TriageSpec => []TriageTypeOK
<1>1. RememberInv /\ GradesInv => TriageTypeOK
  BY DequesAreSmall DEF GradesInv, TriageTypeOK
<1>2. TriageSpec => []GradesInv
  BY GradesInit, GradesNext, PTL DEF TriageSpec
<1> QED
  BY <1>1, <1>2, RememberInvariance, PTL

-----------------------------------------------------------------------------
(* Cards.                                                                  *)

Moment == [age : Nat]

LEMMA StampEntries == Ageing(Moment) /\ Now \in Moment /\ Now.age = 0
BY DEF Ageing, Moment, Grown, Now

LEMMA CardNumbers ==
  ASSUME CardAssumption
  PROVE  /\ TailWindow \in Nat /\ BruteWindow \in Nat /\ CloneGap \in Nat
         /\ Threshold \in Nat \ {0} /\ Kept \in Nat \ {0} /\ Threshold <= Kept
         /\ NotYet \notin 0..BruteWindow
BY DEF CardAssumption

Deque(s, n, limit) == s \in Seq(Moment) /\ Len(s) \in 0..n /\ NewestLast(s, limit)

CardTypes ==
    /\ events \in Events
    /\ DOMAIN swipes = Card /\ DOMAIN denied = Card /\ DOMAIN refused = Card
    /\ DOMAIN readers = Card /\ DOMAIN reported = Card
    /\ \A c \in Card :
          /\ Deque(swipes[c], Kept, TailWindow)
          /\ Deque(denied[c], Kept, BruteWindow)
          /\ Deque(refused[c], Threshold, BruteWindow)
          /\ readers[c] \subseteq [reader : {e.reader : e \in UNION Events}, age : 0..CloneGap]
          /\ reported[c] \in 0..BruteWindow \cup {NotYet}
    /\ command \in Card \cup {NotYet}

\* The denials that were not reported yet end the denials within the window (the
\* deque of them may hold more), and the report is no older than the ones before.
Unreported(d, r, last) ==
    /\ \A i \in Nat : i < Len(d) /\ i < Len(r) => r[Len(r) - i] = d[Len(d) - i]
    /\ \A j \in 1..Len(r) : j <= Len(r) - Len(d) => last # NotYet /\ r[j].age >= last

CardInv == \A c \in Card : Unreported(denied[c], refused[c], reported[c])

LEMMA DequeEmpty == \A n, limit \in Nat : Deque(<<>>, n, limit)
<1>1. <<>> \in Seq(Moment) /\ Len(<<>>) = 0
  OBVIOUS
<1> QED
  BY <1>1 DEF Deque, NewestLast

LEMMA DequePush ==
  ASSUME NEW n \in Nat \ {0}, NEW limit \in Nat, NEW s, Deque(s, n, limit)
  PROVE  Deque(Push(s, Now, n), n, limit) /\ IsPush(Push(s, Now, n), s, Now, n, Moment)
<1>1. s \in Seq(Moment) /\ Len(s) <= n /\ NewestLast(s, limit)
  BY DEF Deque
<1>2. IsPush(Push(s, Now, n), s, Now, n, Moment)
  BY <1>1, StampEntries, PushIs
<1>3. NewestLast(Push(s, Now, n), limit)
  BY <1>1, <1>2, StampEntries, PushInOrder
<1>4. Push(s, Now, n) \in Seq(Moment) /\ Len(Push(s, Now, n)) \in 0..n
  BY <1>2 DEF IsPush
<1> QED
  BY <1>2, <1>3, <1>4 DEF Deque

LEMMA DequeAging ==
  ASSUME NEW n \in Nat, NEW limit \in Nat, NEW s, Deque(s, n, limit)
  PROVE  /\ Deque(Aging(s, limit), n, limit)
         /\ \E k \in Nat : IsAged(Aging(s, limit), s, limit, k, Moment)
<1>1. s \in Seq(Moment) /\ Len(s) \in 0..n /\ NewestLast(s, limit)
  BY DEF Deque
<1>2. PICK k \in Nat : IsAged(Aging(s, limit), s, limit, k, Moment)
  BY <1>1, StampEntries, AgingIs
<1>3. NewestLast(Aging(s, limit), limit)
  BY <1>1, <1>2, StampEntries, AgingInOrder
<1>4. Aging(s, limit) \in Seq(Moment) /\ Len(Aging(s, limit)) \in 0..n
  BY <1>1, <1>2 DEF IsAged
<1> QED
  BY <1>2, <1>3, <1>4 DEF Deque

LEMMA UnreportedPush ==
  ASSUME CardAssumption, NEW d, NEW r, NEW last, Unreported(d, r, last),
         Deque(d, Kept, BruteWindow), Deque(r, Threshold, BruteWindow),
         NEW p, IsPush(p, d, Now, Kept, Moment), NEW q, IsPush(q, r, Now, Threshold, Moment)
  PROVE  Unreported(p, q, last)
<1>1. Len(d) \in 0..Kept /\ Len(r) \in 0..Threshold /\ Len(d) \in Nat /\ Len(r) \in Nat
  BY CardNumbers DEF Deque
<1>2. /\ Kept \in Nat /\ Threshold \in Nat /\ 1 <= Threshold /\ Threshold <= Kept
  BY CardNumbers
<1> DEFINE kd == IF Len(d) < Kept THEN 0 ELSE 1
           kr == IF Len(r) < Threshold THEN 0 ELSE 1
<1>3. /\ Len(p) = Len(d) + 1 - kd /\ p[Len(p)] = Now /\ kd \in 0..1
      /\ \A i \in 1..Len(p) - 1 : p[i] = d[i + kd]
  <2>1. CASE Len(d) < Kept
    BY <1>1, <1>2, <2>1 DEF IsPush
  <2>2. CASE Len(d) = Kept
    <3>1. Len(p) = Kept /\ p[Kept] = Now /\ \A i \in 1..Kept - 1 : p[i] = d[i + 1]
      BY <2>2 DEF IsPush
    <3>2. kd = 1
      BY <1>1, <1>2, <2>2
    <3> HIDE DEF kd
    <3> QED
      BY <1>1, <1>2, <2>2, <3>1, <3>2
  <2> QED
    BY <1>1, <1>2, <2>1, <2>2
<1>4. /\ Len(q) = Len(r) + 1 - kr /\ q[Len(q)] = Now /\ kr \in 0..1
      /\ \A i \in 1..Len(q) - 1 : q[i] = r[i + kr]
  <2>1. CASE Len(r) < Threshold
    BY <1>1, <1>2, <2>1 DEF IsPush
  <2>2. CASE Len(r) = Threshold
    BY <1>1, <1>2, <2>2 DEF IsPush
  <2> QED
    BY <1>1, <1>2, <2>1, <2>2
<1>5. kd = 1 => Len(p) = Kept
  BY <1>1, <1>2, <1>3
<1>6. Len(q) <= Threshold
  BY <1>1, <1>2, <1>4
<1> HIDE DEF kd, kr
<1>7. ASSUME NEW i \in Nat, i < Len(p), i < Len(q) PROVE q[Len(q) - i] = p[Len(p) - i]
  <2>1. CASE i = 0
    BY <1>1, <1>3, <1>4, <2>1
  <2>2. CASE i # 0
    <3>1. /\ Len(p) - i \in 1..Len(p) - 1 /\ Len(q) - i \in 1..Len(q) - 1
          /\ Len(p) - i + kd = Len(d) - (i - 1) /\ Len(q) - i + kr = Len(r) - (i - 1)
          /\ i - 1 \in Nat /\ i - 1 < Len(d) /\ i - 1 < Len(r)
      BY <1>1, <1>3, <1>4, <1>7, <2>2
    <3>2. p[Len(p) - i] = d[Len(d) - (i - 1)] /\ q[Len(q) - i] = r[Len(r) - (i - 1)]
      BY <1>3, <1>4, <3>1
    <3> QED
      BY <3>1, <3>2 DEF Unreported
  <2> QED
    BY <2>1, <2>2
<1>8. ASSUME NEW j \in 1..Len(q), j <= Len(q) - Len(p)
      PROVE  last # NotYet /\ q[j].age >= last
  <2>1. kd = 0
    BY <1>1, <1>2, <1>3, <1>4, <1>5, <1>6, <1>8
  <2>2. j \in 1..Len(q) - 1 /\ j + kr \in 1..Len(r) /\ j + kr <= Len(r) - Len(d)
    BY <1>1, <1>3, <1>4, <1>8, <2>1
  <2>3. q[j] = r[j + kr]
    BY <1>4, <2>2
  <2> QED
    BY <2>2, <2>3 DEF Unreported
<1> QED
  BY <1>7, <1>8 DEF Unreported

LEMMA UnreportedAging ==
  ASSUME CardAssumption, NEW d, NEW r, NEW last, Unreported(d, r, last),
         Deque(d, Kept, BruteWindow), Deque(r, Threshold, BruteWindow),
         last \in 0..BruteWindow \cup {NotYet},
         NEW p, NEW kd, IsAged(p, d, BruteWindow, kd, Moment),
         NEW q, NEW kr, IsAged(q, r, BruteWindow, kr, Moment)
  PROVE  Unreported(p, q, IF last = NotYet \/ last = BruteWindow THEN NotYet ELSE last + 1)
<1>1. Len(d) \in Nat /\ Len(r) \in Nat /\ d \in Seq(Moment) /\ r \in Seq(Moment)
  BY DEF Deque
<1>2. /\ kd \in 0..Len(d) /\ Len(p) = Len(d) - kd
      /\ \A i \in 1..Len(d) - kd : p[i] = Grown(d[i + kd])
      /\ \A i \in 1..kd : d[i].age >= BruteWindow
  BY DEF IsAged
<1>3. /\ kr \in 0..Len(r) /\ Len(q) = Len(r) - kr
      /\ \A i \in 1..Len(r) - kr : q[i] = Grown(r[i + kr])
      /\ kr < Len(r) => r[kr + 1].age < BruteWindow
  BY DEF IsAged
<1>4. BruteWindow \in Nat /\ NotYet \notin 0..BruteWindow
  BY CardNumbers
<1>5. ASSUME NEW i \in Nat, i < Len(p), i < Len(q) PROVE q[Len(q) - i] = p[Len(p) - i]
  <2>1. /\ Len(p) - i \in 1..Len(d) - kd /\ Len(q) - i \in 1..Len(r) - kr
        /\ Len(p) - i + kd = Len(d) - i /\ Len(q) - i + kr = Len(r) - i
        /\ i < Len(d) /\ i < Len(r)
    BY <1>1, <1>2, <1>3, <1>5
  <2>2. p[Len(p) - i] = Grown(d[Len(d) - i]) /\ q[Len(q) - i] = Grown(r[Len(r) - i])
    BY <1>2, <1>3, <2>1
  <2> QED
    BY <2>1, <2>2 DEF Unreported
<1>6. ASSUME NEW j \in 1..Len(q), j <= Len(q) - Len(p)
      PROVE  last # NotYet /\ last # BruteWindow /\ q[j].age >= last + 1
  <2>1. /\ j \in 1..Len(r) - kr /\ j + kr \in 1..Len(r) /\ kr + 1 \in 1..Len(r)
        /\ kr + 1 <= j + kr /\ kr < Len(r)
    BY <1>1, <1>3, <1>6
  <2>2. r[j + kr] \in Moment /\ r[kr + 1] \in Moment
    BY <1>1, <2>1
  <2>3. r[j + kr].age <= r[kr + 1].age
    BY <2>1 DEF Deque, NewestLast
  <2>4. r[j + kr].age \in Nat /\ r[kr + 1].age \in Nat
    BY <2>2 DEF Moment
  <2>5. r[j + kr].age < BruteWindow
    BY <1>3, <1>4, <2>1, <2>3, <2>4
  <2>6. j + kr <= Len(r) - Len(d)
    <3> SUFFICES ASSUME j + kr > Len(r) - Len(d) PROVE FALSE
      BY <1>1, <1>3
    <3> DEFINE i == Len(r) - (j + kr)
    <3>1. i \in Nat /\ i < Len(r) /\ i < Len(d) /\ Len(r) - i = j + kr /\ Len(d) - i \in 1..kd
      BY <1>1, <1>2, <1>3, <1>6, <2>1
    <3> HIDE DEF i
    <3>2. r[j + kr] = d[Len(d) - i]
      BY <3>1 DEF Unreported
    <3>3. d[Len(d) - i].age >= BruteWindow
      BY <1>2, <3>1
    <3> QED
      BY <1>4, <2>4, <2>5, <3>2, <3>3
  <2>7. last # NotYet /\ r[j + kr].age >= last
    BY <2>1, <2>6 DEF Unreported
  <2>8. q[j] = Grown(r[j + kr])
    BY <1>3, <2>1
  <2>9. Grown(r[j + kr]).age = r[j + kr].age + 1
    BY <2>2, StampEntries DEF Ageing
  <2> QED
    BY <1>4, <2>4, <2>5, <2>7, <2>8, <2>9
<1> DEFINE later == IF last = NotYet \/ last = BruteWindow THEN NotYet ELSE last + 1
<1>7. ASSUME NEW j \in 1..Len(q), j <= Len(q) - Len(p)
      PROVE  later # NotYet /\ q[j].age >= later
  <2>1. last # NotYet /\ last # BruteWindow /\ q[j].age >= last + 1
    BY <1>6, <1>7
  <2>2. later = last + 1 /\ last + 1 \in 0..BruteWindow
    BY <1>4, <2>1
  <2> QED
    BY <1>4, <2>1, <2>2
<1> HIDE DEF later
<1>8. Unreported(p, q, later)
  BY <1>5, <1>7 DEF Unreported
<1> QED
  BY <1>8 DEF later

LEMMA CardInitial == ASSUME CardAssumption PROVE CardInit => CardTypes /\ CardInv
<1> SUFFICES ASSUME CardInit PROVE CardTypes /\ CardInv
  OBVIOUS
<1>1. /\ Deque(<<>>, Kept, TailWindow) /\ Deque(<<>>, Kept, BruteWindow)
      /\ Deque(<<>>, Threshold, BruteWindow)
  BY CardNumbers, DequeEmpty
<1>2. CardTypes
  BY <1>1 DEF CardInit, CardTypes
<1>3. Unreported(<<>>, <<>>, NotYet)
  BY DEF Unreported
<1>4. CardInv
  BY <1>3 DEF CardInit, CardInv
<1> QED
  BY <1>2, <1>4

\* The deques after an event.
LEMMA EventDeques ==
  ASSUME CardAssumption, CardTypes, NEW e \in events
  PROVE  /\ e.card \in Card
         /\ Deque(Swipes(e), Kept, TailWindow)
         /\ Deque(Denials(e), Kept, BruteWindow)
         /\ \/ Denials(e) = denied[e.card] /\ e.access # "denied"
            \/ e.access = "denied" /\ IsPush(Denials(e), denied[e.card], Now, Kept, Moment)
<1>1. e.card \in Card
  BY DEF CardTypes, Card
<1>2. Deque(swipes[e.card], Kept, TailWindow) /\ Deque(denied[e.card], Kept, BruteWindow)
  BY <1>1 DEF CardTypes
<1>3. Deque(Stamped(swipes[e.card]), Kept, TailWindow)
  BY <1>2, CardNumbers, DequePush DEF Stamped
<1>4. /\ Deque(Stamped(denied[e.card]), Kept, BruteWindow)
      /\ IsPush(Stamped(denied[e.card]), denied[e.card], Now, Kept, Moment)
  BY <1>2, CardNumbers, DequePush DEF Stamped
<1>5. Deque(Swipes(e), Kept, TailWindow)
  BY <1>2, <1>3 DEF Swipes
<1>6. CASE e.access = "denied"
  BY <1>1, <1>4, <1>5, <1>6 DEF Denials
<1>7. CASE e.access # "denied"
  BY <1>1, <1>2, <1>5, <1>7 DEF Denials
<1> QED
  BY <1>6, <1>7

LEMMA NoteTypes ==
  ASSUME CardAssumption, CardTypes, NEW e \in events, Note(e)
  PROVE  /\ events' \in Events
         /\ DOMAIN swipes' = Card /\ DOMAIN refused' = Card /\ DOMAIN readers' = Card
         /\ \A c \in Card :
               /\ Deque(swipes'[c], Kept, TailWindow)
               /\ Deque(refused'[c], Threshold, BruteWindow)
               /\ readers'[c] \subseteq [reader : {x.reader : x \in UNION Events}, age : 0..CloneGap]
<1>1. e.card \in Card /\ Deque(Swipes(e), Kept, TailWindow)
  BY EventDeques
<1>2. Deque(Push(refused[e.card], Now, Threshold), Threshold, BruteWindow)
  BY <1>1, CardNumbers, DequePush DEF CardTypes
<1>3. [reader |-> e.reader, age |-> 0] \in [reader : {x.reader : x \in UNION Events}, age : 0..CloneGap]
  BY CardNumbers DEF CardTypes
<1>4. \A c \in Card : Deque(swipes'[c], Kept, TailWindow)
  BY <1>1 DEF Note, CardTypes
<1>5. \A c \in Card : Deque(refused'[c], Threshold, BruteWindow)
  BY <1>2 DEF Note, CardTypes
<1>6. \A c \in Card :
         readers'[c] \subseteq [reader : {x.reader : x \in UNION Events}, age : 0..CloneGap]
  BY <1>3 DEF Note, CardTypes
<1> QED
  BY <1>4, <1>5, <1>6 DEF Note, CardTypes

LEMMA CardTypesNext == ASSUME CardAssumption, CardTypes, [CardNext]_cardVars PROVE CardTypes'
<1>1. ASSUME NEW e \in events, HandleTamper(e) PROVE CardTypes'
  BY <1>1 DEF HandleTamper, CardTypes
<1>2. ASSUME NEW e \in events, HandleInsider(e) PROVE CardTypes'
  <2>1. Note(e) /\ denied' = [denied EXCEPT ![e.card] = Denials(e)] /\ command' = e.card
        /\ UNCHANGED reported
    BY <1>2 DEF HandleInsider
  <2>2. e.card \in Card /\ Deque(Denials(e), Kept, BruteWindow)
    BY EventDeques
  <2>3. DOMAIN denied' = Card /\ \A c \in Card : Deque(denied'[c], Kept, BruteWindow)
    BY <2>1, <2>2 DEF CardTypes
  <2> QED
    BY <2>1, <2>2, <2>3, NoteTypes DEF CardTypes
<1>3. ASSUME NEW e \in events, HandleEvent(e) PROVE CardTypes'
  <2>1. /\ Note(e) /\ command' = NotYet
        /\ denied' = [denied EXCEPT ![e.card] = IF BruteForce(e) THEN <<>> ELSE Denials(e)]
        /\ reported' = IF BruteForce(e) THEN [reported EXCEPT ![e.card] = 0] ELSE reported
    BY <1>3 DEF HandleEvent
  <2>2. e.card \in Card /\ Deque(Denials(e), Kept, BruteWindow) /\ Deque(<<>>, Kept, BruteWindow)
    BY EventDeques, DequeEmpty, CardNumbers
  <2>3. DOMAIN denied' = Card /\ \A c \in Card : Deque(denied'[c], Kept, BruteWindow)
    BY <2>1, <2>2 DEF CardTypes
  <2>4. DOMAIN reported' = Card /\ \A c \in Card : reported'[c] \in 0..BruteWindow \cup {NotYet}
    BY <2>1, <2>2, CardNumbers DEF CardTypes
  <2> QED
    BY <2>1, <2>3, <2>4, NoteTypes DEF CardTypes
<1>4. CASE CardTick
  <2>1. \A c \in Card : /\ Deque(Aging(swipes[c], TailWindow), Kept, TailWindow)
                        /\ Deque(Aging(denied[c], BruteWindow), Kept, BruteWindow)
                        /\ Deque(Aging(refused[c], BruteWindow), Threshold, BruteWindow)
    BY CardNumbers, DequeAging DEF CardTypes
  <2>2. \A c \in Card : /\ Deque(swipes'[c], Kept, TailWindow)
                        /\ Deque(denied'[c], Kept, BruteWindow)
                        /\ Deque(refused'[c], Threshold, BruteWindow)
    BY <1>4, <2>1 DEF CardTick
  <2>3. ASSUME NEW c \in Card
        PROVE  readers'[c] \subseteq [reader : {x.reader : x \in UNION Events}, age : 0..CloneGap]
    <3>1. readers'[c] = {r \in {[x EXCEPT !.age = @ + 1] : x \in readers[c]} : r.age <= CloneGap}
      BY <1>4 DEF CardTick
    <3>2. ASSUME NEW x \in readers[c], [x EXCEPT !.age = @ + 1].age <= CloneGap
          PROVE  [x EXCEPT !.age = @ + 1]
                    \in [reader : {y.reader : y \in UNION Events}, age : 0..CloneGap]
      <4>1. x \in [reader : {y.reader : y \in UNION Events}, age : 0..CloneGap]
        BY DEF CardTypes
      <4> QED
        BY <3>2, <4>1, CardNumbers
    <3> QED
      BY <3>1, <3>2
  <2>4. \A c \in Card : reported'[c] \in 0..BruteWindow \cup {NotYet}
    BY <1>4, CardNumbers DEF CardTick, CardTypes
  <2>5. /\ events' \in Events /\ command' = NotYet
        /\ DOMAIN swipes' = Card /\ DOMAIN denied' = Card /\ DOMAIN refused' = Card
        /\ DOMAIN readers' = Card /\ DOMAIN reported' = Card
    BY <1>4 DEF CardTick, CardTypes
  <2> QED
    BY <2>2, <2>3, <2>4, <2>5 DEF CardTypes
<1>5. CASE UNCHANGED cardVars
  BY <1>5 DEF cardVars, CardTypes
<1> QED
  BY <1>1, <1>2, <1>3, <1>4, <1>5 DEF CardNext

\* An event adds to both deques or to none.
LEMMA NoteKeeps ==
  ASSUME CardAssumption, CardTypes, CardInv, NEW e \in events, Note(e)
  PROVE  /\ Unreported(Denials(e), refused'[e.card], reported[e.card])
         /\ \A c \in Card \ {e.card} : refused'[c] = refused[c]
<1> DEFINE c == e.card
<1>1. c \in Card /\ DOMAIN refused = Card
  BY EventDeques DEF CardTypes
<1>2. /\ Unreported(denied[c], refused[c], reported[c])
      /\ Deque(denied[c], Kept, BruteWindow) /\ Deque(refused[c], Threshold, BruteWindow)
  BY <1>1 DEF CardTypes, CardInv
<1>3. CASE e.access = "denied"
  <2>1. refused' = [refused EXCEPT ![c] = Push(@, Now, Threshold)]
    BY <1>3 DEF Note
  <2>2. refused'[c] = Push(refused[c], Now, Threshold)
    BY <1>1, <2>1
  <2>3. IsPush(Push(refused[c], Now, Threshold), refused[c], Now, Threshold, Moment)
    BY <1>2, CardNumbers, DequePush
  <2>4. IsPush(Denials(e), denied[c], Now, Kept, Moment)
    BY <1>3, EventDeques
  <2>5. Unreported(Denials(e), Push(refused[c], Now, Threshold), reported[c])
    BY <1>2, <2>3, <2>4, UnreportedPush
  <2> QED
    BY <1>1, <2>1, <2>2, <2>5
<1>4. CASE e.access # "denied"
  <2>1. refused' = refused /\ Denials(e) = denied[c]
    BY <1>4 DEF Note, Denials
  <2> QED
    BY <1>2, <2>1
<1> QED
  BY <1>3, <1>4

LEMMA CardInvNext ==
  ASSUME CardAssumption, CardTypes, CardInv, [CardNext]_cardVars
  PROVE  CardInv'
<1>1. ASSUME NEW e \in events, HandleTamper(e) PROVE CardInv'
  BY <1>1 DEF HandleTamper, CardInv
<1>2. ASSUME NEW e \in events, HandleInsider(e) PROVE CardInv'
  <2>1. Note(e) /\ denied' = [denied EXCEPT ![e.card] = Denials(e)] /\ UNCHANGED reported
    BY <1>2 DEF HandleInsider
  <2>2. /\ Unreported(Denials(e), refused'[e.card], reported[e.card])
        /\ \A c \in Card \ {e.card} : refused'[c] = refused[c]
    BY <2>1, NoteKeeps
  <2> QED
    BY <2>1, <2>2 DEF CardInv, CardTypes
<1>3. ASSUME NEW e \in events, HandleEvent(e) PROVE CardInv'
  <2>1. /\ Note(e)
        /\ denied' = [denied EXCEPT ![e.card] = IF BruteForce(e) THEN <<>> ELSE Denials(e)]
        /\ reported' = IF BruteForce(e) THEN [reported EXCEPT ![e.card] = 0] ELSE reported
    BY <1>3 DEF HandleEvent
  <2>2. /\ Unreported(Denials(e), refused'[e.card], reported[e.card])
        /\ \A c \in Card \ {e.card} : refused'[c] = refused[c]
    BY <2>1, NoteKeeps
  <2>3. e.card \in Card /\ Deque(refused'[e.card], Threshold, BruteWindow)
    BY <2>1, EventDeques, NoteTypes
  <2>4. Unreported(<<>>, refused'[e.card], 0)
    <3> DEFINE r == refused'[e.card]
    <3>1. r \in Seq(Moment)
      BY <2>3 DEF Deque
    <3> HIDE DEF r
    <3>2. Len(<<>>) = 0 /\ \A j \in 1..Len(r) : r[j].age >= 0
      <4>1. \A j \in 1..Len(r) : r[j] \in Moment
        BY <3>1
      <4>2. \A x \in Moment : x.age >= 0
        BY DEF Moment
      <4> QED
        BY <4>1, <4>2
    <3>3. 0 # NotYet
      BY CardNumbers
    <3>4. Unreported(<<>>, r, 0)
      BY <3>2, <3>3 DEF Unreported
    <3> QED
      BY <3>4 DEF r
  <2>5. CASE BruteForce(e)
    BY <2>1, <2>2, <2>3, <2>4, <2>5 DEF CardInv, CardTypes
  <2>6. CASE ~BruteForce(e)
    BY <2>1, <2>2, <2>3, <2>6 DEF CardInv, CardTypes
  <2> QED
    BY <2>5, <2>6
<1>4. CASE CardTick
  <2> SUFFICES ASSUME NEW c \in Card PROVE Unreported(denied'[c], refused'[c], reported'[c])
    BY DEF CardInv
  <2>1. /\ Deque(denied[c], Kept, BruteWindow) /\ Deque(refused[c], Threshold, BruteWindow)
        /\ reported[c] \in 0..BruteWindow \cup {NotYet}
        /\ Unreported(denied[c], refused[c], reported[c])
    BY DEF CardTypes, CardInv
  <2>2. PICK kd \in Nat : IsAged(Aging(denied[c], BruteWindow), denied[c], BruteWindow, kd, Moment)
    BY <2>1, CardNumbers, DequeAging
  <2>3. PICK kr \in Nat : IsAged(Aging(refused[c], BruteWindow), refused[c], BruteWindow, kr, Moment)
    BY <2>1, CardNumbers, DequeAging
  <2>4. Unreported(Aging(denied[c], BruteWindow), Aging(refused[c], BruteWindow),
             IF reported[c] = NotYet \/ reported[c] = BruteWindow THEN NotYet ELSE reported[c] + 1)
    BY <2>1, <2>2, <2>3, UnreportedAging
  <2> QED
    BY <1>4, <2>4 DEF CardTick
<1>5. CASE UNCHANGED cardVars
  BY <1>5 DEF cardVars, CardInv
<1> QED
  BY <1>1, <1>2, <1>3, <1>4, <1>5 DEF CardNext

LEMMA IntervalSize == ASSUME NEW n \in Nat PROVE Cardinality(1..n) = n
<1>1. 1 \in Int /\ n \in Int
  OBVIOUS
<1>2. Cardinality(1..n) = IF 1 > n THEN 0 ELSE n - 1 + 1
  BY <1>1, FS_Interval
<1> QED
  BY <1>2

\* As many unreported denials as the threshold asks for are found.
LEMMA ManyAreFound ==
  ASSUME CardAssumption, NEW e, Deque(Denials(e), Kept, BruteWindow), ~BruteForce(e)
  PROVE  Len(Denials(e)) < Threshold
<1> DEFINE d == Denials(e)
           found == {i \in DOMAIN d : d[i].age <= BruteWindow}
<1>1. d \in Seq(Moment) /\ Len(d) \in Nat /\ NewestLast(d, BruteWindow)
  BY CardNumbers DEF Deque
<1> HIDE DEF d
<1>2. found = 1..Len(d)
  <2>1. DOMAIN d = 1..Len(d)
    BY <1>1
  <2>2. \A i \in 1..Len(d) : d[i].age <= BruteWindow
    BY <1>1 DEF NewestLast
  <2> QED
    BY <2>1, <2>2
<1>3. Cardinality(1..Len(d)) = Len(d)
  BY <1>1, IntervalSize
<1>4. ~(Cardinality(found) >= Threshold)
  BY DEF BruteForce, Within, d
<1> HIDE DEF found
<1>5. ~(Len(d) >= Threshold)
  BY <1>2, <1>3, <1>4
<1>6. Len(d) < Threshold
  BY <1>1, <1>5, CardNumbers
<1> QED
  BY <1>6 DEF d

LEMMA DenialsAreReported ==
  ASSUME CardAssumption, CardTypes, CardInv, NEW e \in events, HandleEvent(e) \/ HandleInsider(e),
         Len(refused'[e.card]) >= Threshold
  PROVE  reported'[e.card] # NotYet \/ command' = e.card
<1>1. CASE HandleInsider(e)
  BY <1>1 DEF HandleInsider
<1>2. CASE HandleEvent(e) /\ BruteForce(e)
  <2>1. reported' = [reported EXCEPT ![e.card] = 0]
    BY <1>2 DEF HandleEvent
  <2>2. reported'[e.card] = 0
    BY <2>1, EventDeques DEF CardTypes
  <2> QED
    BY <2>2, CardNumbers
<1>3. CASE HandleEvent(e) /\ ~BruteForce(e)
  <2>1. Note(e) /\ reported' = reported
    BY <1>3 DEF HandleEvent
  <2>2. e.card \in Card /\ Deque(Denials(e), Kept, BruteWindow)
    BY EventDeques
  <2>3. Unreported(Denials(e), refused'[e.card], reported[e.card])
    BY <2>1, NoteKeeps
  <2>4. Len(Denials(e)) < Threshold /\ Len(Denials(e)) \in Nat
    BY <1>3, <2>2, ManyAreFound DEF Deque
  <2>5. Len(refused'[e.card]) \in Nat
    BY <2>1, <2>2, NoteTypes DEF Deque
  <2>6. 1 \in 1..Len(refused'[e.card]) /\ 1 <= Len(refused'[e.card]) - Len(Denials(e))
    BY <2>4, <2>5, CardNumbers
  <2>7. reported[e.card] # NotYet
    BY <2>3, <2>6 DEF Unreported
  <2> QED
    BY <2>1, <2>7
<1> QED
  BY <1>1, <1>2, <1>3

LEMMA SwipesAreReported ==
  ASSUME CardAssumption, CardTypes, NEW e \in events, HandleEvent(e)
  PROVE  /\ "tailgating_detected" \in issued' => Len(swipes'[e.card]) > 1
         /\ e.access = "pending" /\ Len(swipes'[e.card]) > 1 => "tailgating_detected" \in issued'
<1>1. swipes'[e.card] = Swipes(e) /\ issued' = Alerts(e)
  BY EventDeques DEF HandleEvent, Note, CardTypes
<1>2. "tailgating_detected" \in Alerts(e) <=> Tailgating(e)
  BY DEF Alerts, Reasoned
<1>3. Tailgating(e) => Len(Swipes(e)) > 1
  BY DEF Tailgating
<1>4. ASSUME Len(Swipes(e)) > 1 PROVE Tailgating(e)
  <2>1. Deque(Swipes(e), Kept, TailWindow)
    BY EventDeques
  <2>2. Len(Swipes(e)) - 1 \in 1..Len(Swipes(e))
    BY <1>4, <2>1, CardNumbers DEF Deque
  <2> QED
    BY <1>4, <2>1, <2>2 DEF Tailgating, Deque, NewestLast
<1> QED
  BY <1>1, <1>2, <1>3, <1>4

LEMMA CardInvariance == ASSUME CardAssumption PROVE CardSpec => [](CardTypes /\ CardInv)
<1>1. CardInit => CardTypes /\ CardInv
  BY CardInitial
<1>2. CardTypes /\ CardInv /\ [CardNext]_cardVars => (CardTypes /\ CardInv)'
  BY CardTypesNext, CardInvNext
<1> QED
  BY <1>1, <1>2, PTL DEF CardSpec

\* A card that is denied as often as the threshold asks for is reported or blocked,
\* and two swipes in the window are tailgating (handle_event).
THEOREM CardAttackReported == ASSUME CardAssumption PROVE CardSpec => CardAttackIsAlerted
<1> DEFINE Step == \A e \in events : HandleEvent(e) \/ HandleInsider(e) =>
          /\ Len(refused'[e.card]) >= Threshold =>
                reported'[e.card] # NotYet \/ command' = e.card
          /\ e.reason # "insider_threat_detected" =>
                /\ "tailgating_detected" \in issued' => Len(swipes'[e.card]) > 1
                /\ e.access = "pending" /\ Len(swipes'[e.card]) > 1 =>
                      "tailgating_detected" \in issued'
<1>1. CardTypes /\ CardInv => Step
  <2> SUFFICES ASSUME CardTypes, CardInv, NEW e \in events, HandleEvent(e) \/ HandleInsider(e)
               PROVE  /\ Len(refused'[e.card]) >= Threshold =>
                            reported'[e.card] # NotYet \/ command' = e.card
                      /\ e.reason # "insider_threat_detected" =>
                            /\ "tailgating_detected" \in issued' => Len(swipes'[e.card]) > 1
                            /\ e.access = "pending" /\ Len(swipes'[e.card]) > 1 =>
                                  "tailgating_detected" \in issued'
    OBVIOUS
  <2>1. e.reason # "insider_threat_detected" => HandleEvent(e)
    BY DEF HandleInsider
  <2> QED
    BY <2>1, DenialsAreReported, SwipesAreReported
<1> QED
  BY <1>1, CardInvariance, PTL DEF CardAttackIsAlerted

LEMMA DequeYoung ==
  ASSUME NEW n \in Nat, NEW limit \in Nat, NEW s, Deque(s, n, limit)
  PROVE  s \in Seq([age : 0..limit]) /\ Len(s) <= n
<1>1. s \in Seq(Moment) /\ Len(s) \in Nat /\ Len(s) <= n /\ NewestLast(s, limit)
  BY DEF Deque
<1>2. \A i \in 1..Len(s) : s[i] \in [age : 0..limit]
  <2> TAKE i \in 1..Len(s)
  <2>1. s[i] \in Moment
    BY <1>1
  <2>2. s[i].age <= limit
    BY <1>1 DEF NewestLast
  <2> QED
    BY <2>1, <2>2 DEF Moment
<1>3. s \in Seq([age : 0..limit])
  <2>1. DOMAIN s = 1..Len(s) /\ s = [i \in 1..Len(s) |-> s[i]]
    BY <1>1
  <2>2. s \in [1..Len(s) -> [age : 0..limit]]
    BY <1>2, <2>1
  <2>3. Seq([age : 0..limit]) = UNION {[1..j -> [age : 0..limit]] : j \in Nat}
    BY SeqDef
  <2> DEFINE F == [1..Len(s) -> [age : 0..limit]]
  <2>4. F \in {[1..j -> [age : 0..limit]] : j \in Nat} /\ s \in F
    BY <1>1, <2>2
  <2> QED
    BY <2>3, <2>4, Zenon
<1> QED
  BY <1>1, <1>3

\* The tables of the cards keep their types and bounds.
THEOREM CardTypeCorrect == ASSUME CardAssumption PROVE CardSpec => []CardTypeOK
<1>1. CardTypes => CardTypeOK
  BY CardNumbers, DequeYoung DEF CardTypes, CardTypeOK
<1> QED
  BY <1>1, CardInvariance, PTL

-----------------------------------------------------------------------------
(* Flows: the window rules.                                                *)

Items == {Item(r, f) : r \in WindowRule, f \in UNION Traffic}
Logged == [item : Items, age : Nat]

WindowInv ==
    /\ flows \in Traffic /\ sent \in Nat
    /\ DOMAIN deque = DOMAIN seen
    /\ \A s \in DOMAIN seen :
          /\ s[1] \in WindowRule /\ s = <<s[1], s[2]>>
          /\ Trails(deque[s], seen[s], Cap[s[1]], Window[s[1]], Logged)

LEMMA LoggedEntries == Ageing(Logged)
BY DEF Ageing, Logged, Grown

LEMMA DetectorNumbers ==
  ASSUME DetectorAssumption
  PROVE  /\ \A r \in WindowRule : Window[r] \in Nat /\ Cap[r] \in Nat \ {0} /\ r \in Rule
         /\ \A r \in Rule : Cooldown[r] \in Nat \ {0}
         /\ Grace \in Nat /\ SlowWindow \in Nat /\ SlowThreshold \in Nat \ {0}
         /\ "slow_port_scan" \in Rule
BY DEF DetectorAssumption, WindowRule, Rule

\* n is d with an entry of the flow behind each of its deques.
IsEntered(n, d, f, more) ==
    /\ DOMAIN n = DOMAIN d \cup Slots(f)
    /\ \A s \in Slots(f) : n[s] = Push(In(d, s), Entry(s[1], f), Cap[s[1]] + more)
    /\ \A s \in DOMAIN d \ Slots(f) : n[s] = d[s]

LEMMA SlotIs ==
  ASSUME NEW f, NEW s \in Slots(f)
  PROVE  s[1] \in WindowRule /\ Enters(s[1], f) /\ s[2] = Key(s[1], f) /\ s = <<s[1], Key(s[1], f)>>
BY DEF Slots

LEMMA EnteredIs ==
  ASSUME NEW d, NEW f, NEW more,
         \A s \in DOMAIN d : s[1] \in WindowRule /\ s = <<s[1], s[2]>>
  PROVE  IsEntered(Entered(d, f, more), d, f, more)
<1>1. \A s \in Slots(f) : Pushed(d, s[1], f, Cap[s[1]] + more)
                            = Push(In(d, s), Entry(s[1], f), Cap[s[1]] + more)
  BY SlotIs DEF Pushed
<1>2. \A s \in DOMAIN d \ Slots(f) : ~(Enters(s[1], f) /\ s[2] = Key(s[1], f))
  BY DEF Slots
<1> QED
  BY <1>1, <1>2, SlotIs DEF Entered, IsEntered

LEMMA WindowInit == Init => WindowInv
BY DEF Init, WindowInv

LEMMA FlowEnters ==
  ASSUME DetectorAssumption, WindowInv, NEW f \in flows, HandleFlow(f)
  PROVE  WindowInv'
<1>1. IsEntered(deque', deque, f, 0) /\ IsEntered(seen', seen, f, 1)
  BY EnteredIs DEF HandleFlow, WindowInv
<1>2. flows' = flows /\ sent' \in Nat /\ f \in UNION Traffic
  BY DEF HandleFlow, WindowInv
<1>3. DOMAIN deque' = DOMAIN seen'
  BY <1>1 DEF IsEntered, WindowInv
<1>4. ASSUME NEW s \in DOMAIN seen'
      PROVE  /\ s[1] \in WindowRule /\ s = <<s[1], s[2]>>
             /\ Trails(deque'[s], seen'[s], Cap[s[1]], Window[s[1]], Logged)
  <2>1. CASE s \in Slots(f)
    <3> DEFINE r == s[1]
               e == Entry(r, f)
               n == Cap[r]
    <3>1. r \in WindowRule
      BY <2>1, SlotIs
    <3>2. Window[r] \in Nat /\ n \in Nat \ {0} /\ n + 0 = n
      BY <3>1, DetectorNumbers
    <3>3. e \in Logged /\ e.age = 0
      BY <1>2, <3>1 DEF Entry, Logged, Items
    <3>4. Trails(In(deque, s), In(seen, s), n, Window[r], Logged)
      <4>1. CASE s \in DOMAIN seen
        BY <4>1 DEF WindowInv, In
      <4>2. CASE s \notin DOMAIN seen
        <5>1. In(deque, s) = <<>> /\ In(seen, s) = <<>>
          BY <4>2 DEF WindowInv, In
        <5> QED
          BY <3>2, <5>1, TrailsEmpty
      <4> QED
        BY <4>1, <4>2
    <3>5. deque'[s] = Push(In(deque, s), e, n + 0) /\ seen'[s] = Push(In(seen, s), e, n + 1)
      BY <1>1, <2>1 DEF IsEntered
    <3> HIDE DEF r, e, n
    <3>6. Trails(Push(In(deque, s), e, n), Push(In(seen, s), e, n + 1), n, Window[r], Logged)
      BY <3>2, <3>3, <3>4, LoggedEntries, TrailsPush
    <3>7. Trails(deque'[s], seen'[s], n, Window[r], Logged)
      BY <3>2, <3>5, <3>6
    <3>8. s = <<s[1], s[2]>>
      BY <2>1, SlotIs
    <3> QED
      BY <3>1, <3>7, <3>8 DEF r, n
  <2>2. CASE s \notin Slots(f)
    <3>1. s \in DOMAIN seen /\ s \in DOMAIN deque
      BY <1>1, <2>2 DEF IsEntered, WindowInv
    <3>2. deque'[s] = deque[s] /\ seen'[s] = seen[s]
      BY <1>1, <2>2, <3>1 DEF IsEntered
    <3> QED
      BY <3>1, <3>2 DEF WindowInv
  <2> QED
    BY <2>1, <2>2
<1> QED
  BY <1>2, <1>3, <1>4 DEF WindowInv

LEMMA WindowNext ==
  ASSUME DetectorAssumption, WindowInv, [Next]_vars
  PROVE  WindowInv'
<1>1. ASSUME UNCHANGED <<flows, deque, seen>>, sent' \in Nat PROVE WindowInv'
  BY <1>1 DEF WindowInv
<1>2. ASSUME NEW f \in flows, SkipInfra(f) PROVE WindowInv'
  BY <1>1, <1>2 DEF SkipInfra, WindowInv
<1>3. ASSUME NEW h \in Host, RecordIsolation(h) PROVE WindowInv'
  BY <1>1, <1>3 DEF RecordIsolation, WindowInv
<1>4. ASSUME NEW recs \in Advice, ApplyThresholdUpdates(recs) PROVE WindowInv'
  BY <1>1, <1>4 DEF ApplyThresholdUpdates, WindowInv
<1>5. CASE Tick
  <2>1. deque' = InWindow(deque) /\ seen' = InWindow(seen) /\ flows' = flows /\ sent' = 0
    BY <1>5 DEF Tick
  <2>2. ASSUME NEW s \in DOMAIN seen
        PROVE  /\ s[1] \in WindowRule
               /\ Trails(Aging(deque[s], Window[s[1]]), Aging(seen[s], Window[s[1]]),
                         Cap[s[1]], Window[s[1]], Logged)
               /\ Aging(deque[s], Window[s[1]]) = <<>> <=> Aging(seen[s], Window[s[1]]) = <<>>
    <3>1. s[1] \in WindowRule /\ Trails(deque[s], seen[s], Cap[s[1]], Window[s[1]], Logged)
      BY DEF WindowInv
    <3>2. Window[s[1]] \in Nat /\ Cap[s[1]] \in Nat \ {0}
      BY <3>1, DetectorNumbers
    <3>3. Trails(Aging(deque[s], Window[s[1]]), Aging(seen[s], Window[s[1]]),
                 Cap[s[1]], Window[s[1]], Logged)
      BY <3>1, <3>2, LoggedEntries, TrailsAging
    <3> QED
      BY <3>1, <3>2, <3>3, TrailsNonempty
  <2>3. /\ DOMAIN deque' = {s \in DOMAIN deque : Aging(deque[s], Window[s[1]]) # <<>>}
        /\ DOMAIN seen' = {s \in DOMAIN seen : Aging(seen[s], Window[s[1]]) # <<>>}
        /\ \A s \in DOMAIN deque' : deque'[s] = Aging(deque[s], Window[s[1]])
        /\ \A s \in DOMAIN seen' : seen'[s] = Aging(seen[s], Window[s[1]])
    BY <2>1 DEF InWindow
  <2>4. DOMAIN deque' = DOMAIN seen' /\ DOMAIN seen' \subseteq DOMAIN seen
    BY <2>2, <2>3 DEF WindowInv
  <2>5. ASSUME NEW s \in DOMAIN seen'
        PROVE  /\ s[1] \in WindowRule /\ s = <<s[1], s[2]>>
               /\ Trails(deque'[s], seen'[s], Cap[s[1]], Window[s[1]], Logged)
    <3>1. deque'[s] = Aging(deque[s], Window[s[1]]) /\ seen'[s] = Aging(seen[s], Window[s[1]])
      BY <2>3, <2>4
    <3>2. s = <<s[1], s[2]>>
      BY <2>4 DEF WindowInv
    <3> QED
      BY <2>2, <2>4, <3>1, <3>2
  <2> QED
    BY <2>1, <2>4, <2>5 DEF WindowInv
<1>6. CASE UNCHANGED vars
  BY <1>6 DEF vars, WindowInv
<1> QED
  BY <1>2, <1>3, <1>4, <1>5, <1>6, FlowEnters DEF Next

\* An alert that a flow calls for is published, or was within the cooldown.
IsAlerted(F, r, k, limit) == \E x \in F : x.rule = r /\ x.key = k /\ x.age < limit

\* What _dedup remembers after a flow: its own alerts and those they do not replace.
LEMMA FiredIs ==
  ASSUME NEW f, HandleFlow(f)
  PROVE  /\ alerts' = {r \in Rule : Raised(r, f)}
         /\ \A r \in alerts' : [rule |-> r, key |-> Key(r, f), age |-> 0] \in fired'
         /\ \A x \in fired : \/ x \in fired'
                             \/ x.rule \in alerts' /\ x.key = Key(x.rule, f)
         /\ \A x \in fired' : \/ x \in fired
                              \/ \E r \in alerts' : x = [rule |-> r, key |-> Key(r, f), age |-> 0]
<1>1. fired' = Stamps(alerts', f) \cup {x \in fired : x.rule \in alerts' => x.key # Key(x.rule, f)}
  BY DEF HandleFlow
<1>2. alerts' = {r \in Rule : Raised(r, f)}
  BY DEF HandleFlow
<1> QED
  BY <1>1, <1>2 DEF Stamps

LEMMA MatchAlerts ==
  ASSUME DetectorAssumption, NEW f, HandleFlow(f), NEW r \in Rule, Matches(r, f)
  PROVE  IsAlerted(fired', r, Key(r, f), Cooldown[r])
<1> DEFINE new == [rule |-> r, key |-> Key(r, f), age |-> 0]
<1>1. Cooldown[r] > 0
  BY DetectorNumbers
<1>2. CASE r \in alerts'
  <2>1. new \in fired'
    BY <1>2, FiredIs
  <2> QED
    BY <1>1, <2>1 DEF IsAlerted
<1>3. CASE r \notin alerts'
  <2>1. ~Dedup(r, Key(r, f))
    BY <1>3, FiredIs DEF Raised
  <2>2. PICK x \in fired : x.rule = r /\ x.key = Key(r, f) /\ x.age < Cooldown[r]
    BY <2>1 DEF Dedup
  <2>3. x \in fired'
    BY <1>3, <2>2, FiredIs
  <2> QED
    BY <2>2, <2>3 DEF IsAlerted
<1> QED
  BY <1>2, <1>3

LEMMA WindowAlerts ==
  ASSUME DetectorAssumption, WindowInv, WindowInv', NEW f \in flows, HandleFlow(f),
         NEW s \in DOMAIN seen', s \in DOMAIN seen => seen'[s] # seen[s],
         Count(s[1], seen'[s]) >= thr[s[1]], Len(seen'[s]) <= Cap[s[1]]
  PROVE  IsAlerted(fired', s[1], s[2], Cooldown[s[1]])
<1>1. IsEntered(deque', deque, f, 0) /\ IsEntered(seen', seen, f, 1)
  BY EnteredIs DEF HandleFlow, WindowInv
<1>2. s \in Slots(f)
  BY <1>1 DEF IsEntered
<1> DEFINE r == s[1]
<1>3. r \in WindowRule /\ r \in Rule /\ Enters(r, f) /\ s[2] = Key(r, f) /\ s = <<r, Key(r, f)>>
  BY <1>2, SlotIs, DetectorNumbers
<1>4. deque'[s] = seen'[s]
  BY DEF WindowInv, Trails
<1>5. deque'[s] = Pushed(deque, r, f, Cap[r])
  <2>1. Cap[r] + 0 = Cap[r]
    BY <1>3, DetectorNumbers
  <2>2. deque'[s] = Push(In(deque, s), Entry(r, f), Cap[r] + 0)
    BY <1>1, <1>2 DEF IsEntered
  <2> HIDE DEF r
  <2> QED
    BY <1>3, <2>1, <2>2 DEF Pushed
<1> HIDE DEF r
<1>6. Count(r, Pushed(deque, r, f, Cap[r])) >= thr[r]
  BY <1>4, <1>5 DEF r
<1>7. Matches(r, f)
  BY <1>3, <1>6 DEF Matches
<1>8. IsAlerted(fired', r, Key(r, f), Cooldown[r])
  BY <1>3, <1>7, MatchAlerts
<1> QED
  BY <1>3, <1>8 DEF r

-----------------------------------------------------------------------------
(* Flows: the slow scan.                                                   *)

ThresholdInv ==
    /\ thr \in [Tuned -> Nat] /\ thr["slow_port_scan"] <= SlowThreshold

\* The shape of the alerts that are remembered.
IsAlert(x) == /\ "rule" \in DOMAIN x /\ "key" \in DOMAIN x /\ "age" \in DOMAIN x
              /\ x.rule \in Rule /\ x.age \in 0..Horizon(x)
FiredInv == \A x \in fired : IsAlert(x)

DailyTypes ==
    /\ daily \subseteq [src : Host, ports : SUBSET Nat, age : 0..SlowWindow + 1]
    /\ ports \subseteq [src : Host, port : Nat, age : 0..SlowWindow]
    /\ IsFiniteSet(ports) /\ \A d \in daily : IsFiniteSet(d.ports)
    /\ \A d, e \in daily : d.src = e.src => d = e
    /\ \A p, q \in ports : p.src = q.src /\ p.port = q.port => p = q

\* Every source with a port has its set, which began within a window of the port
\* and holds every port tried since it began.
SetInv ==
    /\ \A p \in ports : \E d \in daily : d.src = p.src
    /\ \A d \in daily, p \in ports : p.src = d.src =>
          /\ d.age <= SlowWindow + p.age
          /\ p.age <= d.age => p.port \in d.ports

\* A set that reached the threshold, now or before it was emptied, was reported
\* within the cooldown before its latest flow.
Earlier(d) == {p \in ports : p.src = d.src /\ p.age > d.age}
ScanInv ==
    \A d \in daily :
       /\ Cardinality(d.ports) >= SlowThreshold =>
             \A p \in ports : p.src = d.src =>
                IsAlerted(fired, "slow_port_scan", <<d.src>>, Cooldown["slow_port_scan"] + p.age)
       /\ Cardinality(Earlier(d)) >= SlowThreshold =>
             \A p \in Earlier(d) :
                IsAlerted(fired, "slow_port_scan", <<d.src>>, Cooldown["slow_port_scan"] + p.age)

LEMMA PortsCount ==
  ASSUME NEW S, \A p, q \in S : p.port = q.port => p = q, NEW Q, IsFiniteSet(Q),
         \A p \in S : p.port \in Q
  PROVE  Cardinality(S) <= Cardinality(Q) /\ IsFiniteSet(S)
<1> DEFINE f == [p \in S |-> p.port]
<1>1. f \in Injection(S, Q)
  BY DEF Injection, IsInjective
<1> QED
  BY <1>1, FS_Injection

LEMMA SlowInit == ASSUME DetectorAssumption
                  PROVE  Init => ThresholdInv /\ FiredInv /\ DailyTypes /\ SetInv /\ ScanInv
<1> SUFFICES ASSUME Init PROVE ThresholdInv /\ FiredInv /\ DailyTypes /\ SetInv /\ ScanInv
  OBVIOUS
<1>1. daily = {} /\ fired = {} /\ ports = {} /\ thr = Base
  BY DEF Init
<1>2. "slow_port_scan" \in Tuned /\ Base \in [Tuned -> Nat]
  BY DEF DetectorAssumption, Tuned, Rule
<1>3. ThresholdInv
  BY <1>1, <1>2 DEF DetectorAssumption, ThresholdInv
<1>4. FiredInv /\ SetInv /\ ScanInv
  BY <1>1 DEF FiredInv, SetInv, ScanInv
<1>5. DailyTypes
  BY <1>1, FS_EmptySet DEF DailyTypes
<1> QED
  BY <1>3, <1>4, <1>5

LEMMA ThresholdNext ==
  ASSUME DetectorAssumption, ThresholdInv, [Next]_vars
  PROVE  ThresholdInv'
<1>1. ASSUME UNCHANGED thr PROVE ThresholdInv'
  BY <1>1 DEF ThresholdInv
<1>2. ASSUME NEW recs \in Advice, ApplyThresholdUpdates(recs) PROVE ThresholdInv'
  <2>1. thr' = [r \in DOMAIN thr |-> IF r \in DOMAIN recs THEN recs[r] ELSE thr[r]]
    BY <1>2 DEF ApplyThresholdUpdates
  <2>2. /\ \A r \in DOMAIN recs : recs[r] \in Nat
        /\ "slow_port_scan" \in DOMAIN recs => recs["slow_port_scan"] <= SlowThreshold
    BY DEF DetectorAssumption
  <2>3. "slow_port_scan" \in Tuned
    BY DEF Tuned, Rule
  <2> QED
    BY <2>1, <2>2, <2>3 DEF ThresholdInv
<1>3. ASSUME NEW f \in flows, SkipInfra(f) \/ HandleFlow(f) PROVE ThresholdInv'
  BY <1>1, <1>3 DEF SkipInfra, HandleFlow
<1>4. ASSUME NEW h \in Host, RecordIsolation(h) PROVE ThresholdInv'
  BY <1>1, <1>4 DEF RecordIsolation
<1>5. CASE Tick \/ UNCHANGED vars
  BY <1>1, <1>5 DEF Tick, vars
<1> QED
  BY <1>2, <1>3, <1>4, <1>5 DEF Next

\* An alert that has grown a tick older.
LEMMA GrownIs ==
  ASSUME NEW x, "rule" \in DOMAIN x, "key" \in DOMAIN x, "age" \in DOMAIN x
  PROVE  /\ Grown(x).age = x.age + 1 /\ Grown(x).rule = x.rule /\ Grown(x).key = x.key
         /\ "rule" \in DOMAIN Grown(x) /\ "key" \in DOMAIN Grown(x) /\ "age" \in DOMAIN Grown(x)
         /\ Horizon(Grown(x)) = Horizon(x)
<1>1. /\ Grown(x).age = x.age + 1 /\ Grown(x).rule = x.rule /\ Grown(x).key = x.key
      /\ "rule" \in DOMAIN Grown(x) /\ "key" \in DOMAIN Grown(x) /\ "age" \in DOMAIN Grown(x)
  BY Zenon DEF Grown
<1> QED
  BY <1>1 DEF Horizon

LEMMA HorizonIs ==
  ASSUME DetectorAssumption, NEW x, x.rule \in Rule
  PROVE  /\ Horizon(x) \in Nat
         /\ x.rule = "slow_port_scan" => Horizon(x) = Cooldown["slow_port_scan"] + SlowWindow
BY DetectorNumbers DEF Horizon

LEMMA FiredNext ==
  ASSUME DetectorAssumption, FiredInv, [Next]_vars
  PROVE  FiredInv'
<1>1. ASSUME UNCHANGED fired PROVE FiredInv'
  BY <1>1 DEF FiredInv
<1>2. ASSUME NEW f \in flows, HandleFlow(f) PROVE FiredInv'
  <2>1. ASSUME NEW x \in fired' PROVE x \in fired \/ IsAlert(x)
    <3>1. SUFFICES ASSUME NEW r \in Rule, x = [rule |-> r, key |-> Key(r, f), age |-> 0]
                   PROVE  IsAlert(x)
      BY <1>2, FiredIs
    <3>2. x.rule = r /\ x.age = 0
      BY <3>1
    <3>3. Horizon(x) \in Nat
      BY <3>2, HorizonIs
    <3> QED
      BY <3>1, <3>2, <3>3 DEF IsAlert
  <2> QED
    BY <2>1 DEF FiredInv, IsAlert, Horizon
<1>3. CASE Tick
  <2>1. fired' = {x \in Older(fired) : x.age <= Horizon(x)}
    BY <1>3 DEF Tick
  <2>2. ASSUME NEW x \in fired' PROVE IsAlert(x)
    <3>1. PICK y \in fired : x = Grown(y)
      BY <2>1 DEF Older
    <3>2. IsAlert(y)
      BY DEF FiredInv
    <3>3. Horizon(y) \in Nat /\ Horizon(x) = Horizon(y)
      BY <3>1, <3>2, HorizonIs, GrownIs DEF IsAlert
    <3> QED
      BY <2>1, <3>1, <3>2, <3>3, GrownIs DEF IsAlert
  <2> QED
    BY <2>2 DEF FiredInv, IsAlert, Horizon
<1>4. ASSUME NEW f \in flows, SkipInfra(f) PROVE FiredInv'
  BY <1>1, <1>4 DEF SkipInfra
<1>5. ASSUME NEW h \in Host, RecordIsolation(h) PROVE FiredInv'
  BY <1>1, <1>5 DEF RecordIsolation
<1>6. ASSUME NEW recs \in Advice, ApplyThresholdUpdates(recs) PROVE FiredInv'
  BY <1>1, <1>6 DEF ApplyThresholdUpdates
<1>7. CASE UNCHANGED vars
  BY <1>1, <1>7 DEF vars
<1> QED
  BY <1>2, <1>3, <1>4, <1>5, <1>6, <1>7 DEF Next

LEMMA StillAlerted ==
  ASSUME NEW f, HandleFlow(f), NEW r, NEW k, NEW n \in Nat \ {0}, IsAlerted(fired, r, k, n)
  PROVE  IsAlerted(fired', r, k, n)
<1>1. PICK x \in fired : x.rule = r /\ x.key = k /\ x.age < n
  BY DEF IsAlerted
<1>2. CASE x \in fired'
  BY <1>1, <1>2 DEF IsAlerted
<1>3. CASE r \in alerts' /\ k = Key(r, f)
  <2>1. [rule |-> r, key |-> k, age |-> 0] \in fired'
    BY <1>3, FiredIs
  <2> QED
    BY <2>1 DEF IsAlerted
<1> QED
  BY <1>1, <1>2, <1>3, FiredIs

LEMMA AlertedOlder ==
  ASSUME DetectorAssumption, FiredInv, Tick, NEW k, NEW n \in Nat,
         n + 1 <= Cooldown["slow_port_scan"] + SlowWindow,
         IsAlerted(fired, "slow_port_scan", k, n)
  PROVE  IsAlerted(fired', "slow_port_scan", k, n + 1)
<1>1. PICK x \in fired : x.rule = "slow_port_scan" /\ x.key = k /\ x.age < n
  BY DEF IsAlerted
<1>2. IsAlert(x) /\ Horizon(x) \in Nat /\ Horizon(x) = Cooldown["slow_port_scan"] + SlowWindow
  BY <1>1, HorizonIs DEF FiredInv, IsAlert
<1>3. /\ Grown(x).age = x.age + 1 /\ Grown(x).rule = x.rule /\ Grown(x).key = x.key
      /\ Horizon(Grown(x)) = Horizon(x)
  BY <1>2, GrownIs DEF IsAlert
<1>4. x.age \in Nat
  BY <1>2 DEF IsAlert
<1>5. Grown(x) \in Older(fired) /\ Grown(x).age <= Horizon(Grown(x))
  BY <1>1, <1>2, <1>3, <1>4, DetectorNumbers DEF Older
<1>6. Grown(x) \in fired'
  BY <1>5 DEF Tick
<1> QED
  BY <1>1, <1>3, <1>4, <1>6 DEF IsAlerted

\* The set of the flow's source: a new one, or the one it has with the port in it.
SetStarts(e, f) ==
    /\ e = [src |-> f.src, ports |-> {f.port}, age |-> 0]
    /\ \A d \in daily : d.src = f.src => d.age > SlowWindow
Continued(e, f, old) ==
    /\ old.src = f.src /\ old.age <= SlowWindow
    /\ e = [src |-> f.src, ports |-> old.ports \cup {f.port}, age |-> old.age]

LEMMA SlowScanIs ==
  ASSUME DetectorAssumption, DailyTypes, NEW f
  PROVE  SetStarts(SlowScan(f), f) \/ \E old \in daily : Continued(SlowScan(f), f, old)
<1> DEFINE known == {d \in daily : d.src = f.src}
           old == CHOOSE d \in known : TRUE
           e == SlowScan(f)
<1>1. e = IF known = {} \/ old.age > SlowWindow
          THEN [src |-> f.src, ports |-> {f.port}, age |-> 0]
          ELSE [old EXCEPT !.ports = @ \cup {f.port}]
  BY DEF SlowScan
<1>2. CASE known = {}
  BY <1>1, <1>2 DEF SetStarts
<1>3. CASE known # {}
  <2>1. old \in known
    BY <1>3
  <2> HIDE DEF old, e
  <2>2. /\ old \in daily /\ old.src = f.src /\ \A d \in daily : d.src = f.src => d = old
        /\ old \in [src : Host, ports : SUBSET Nat, age : 0..SlowWindow + 1]
    BY <2>1 DEF DailyTypes
  <2>3. CASE old.age > SlowWindow
    BY <1>1, <2>2, <2>3 DEF SetStarts, e
  <2>4. CASE ~(old.age > SlowWindow)
    <3>1. e = [old EXCEPT !.ports = @ \cup {f.port}]
      BY <1>1, <1>3, <2>4
    <3>2. e = [src |-> f.src, ports |-> old.ports \cup {f.port}, age |-> old.age]
      BY <2>2, <3>1
    <3>3. old.age <= SlowWindow
      BY <2>2, <2>4, DetectorNumbers
    <3> QED
      BY <2>2, <3>2, <3>3 DEF Continued, e
  <2> QED
    BY <2>3, <2>4
<1> QED
  BY <1>2, <1>3

\* What a flow with a port does to the sets.
LEMMA SlowScanTypes ==
  ASSUME DetectorAssumption, DailyTypes, NEW f, f.src \in Host, f.port \in Nat
  PROVE  LET e == SlowScan(f)
         IN  /\ e \in [src : Host, ports : SUBSET Nat, age : 0..SlowWindow]
             /\ e.src = f.src /\ f.port \in e.ports /\ IsFiniteSet(e.ports)
<1>1. CASE SetStarts(SlowScan(f), f)
  <2>1. SlowScan(f) = [src |-> f.src, ports |-> {f.port}, age |-> 0]
    BY <1>1 DEF SetStarts
  <2>2. IsFiniteSet({f.port})
    BY FS_Singleton
  <2> QED
    BY <2>1, <2>2, DetectorNumbers
<1>2. ASSUME NEW old \in daily, Continued(SlowScan(f), f, old)
      PROVE  LET e == SlowScan(f)
             IN  /\ e \in [src : Host, ports : SUBSET Nat, age : 0..SlowWindow]
                 /\ e.src = f.src /\ f.port \in e.ports /\ IsFiniteSet(e.ports)
  <2>1. /\ SlowScan(f) = [src |-> f.src, ports |-> old.ports \cup {f.port}, age |-> old.age]
        /\ old.age <= SlowWindow
    BY <1>2 DEF Continued
  <2>2. old \in [src : Host, ports : SUBSET Nat, age : 0..SlowWindow + 1] /\ IsFiniteSet(old.ports)
    BY DEF DailyTypes
  <2>3. IsFiniteSet(old.ports \cup {f.port})
    BY <2>2, FS_AddElement
  <2> QED
    BY <2>1, <2>2, <2>3, DetectorNumbers
<1> QED
  BY <1>1, <1>2, SlowScanIs

\* The port that a flow tries.
Tried(f) == [src |-> f.src, port |-> f.port, age |-> 0]
Scans(f) ==
    /\ daily' = {SlowScan(f)} \cup {d \in daily : d.src # f.src}
    /\ ports' = {Tried(f)} \cup {p \in ports : p.src # f.src \/ p.port # f.port}

LEMMA ScanTypes ==
  ASSUME DetectorAssumption, DailyTypes, NEW f, f.src \in Host, f.port \in Nat, Scans(f)
  PROVE  DailyTypes'
<1> DEFINE e == SlowScan(f)
<1>1. /\ e \in [src : Host, ports : SUBSET Nat, age : 0..SlowWindow]
      /\ e.src = f.src /\ f.port \in e.ports /\ IsFiniteSet(e.ports)
  BY SlowScanTypes
<1> HIDE DEF e
<1>2. daily' = {e} \cup {d \in daily : d.src # f.src}
  BY DEF Scans, e
<1>3. ports' = {Tried(f)} \cup {p \in ports : p.src # f.src \/ p.port # f.port}
  BY DEF Scans
<1>4. e \in [src : Host, ports : SUBSET Nat, age : 0..SlowWindow + 1]
  BY <1>1, DetectorNumbers
<1>5. daily' \subseteq [src : Host, ports : SUBSET Nat, age : 0..SlowWindow + 1]
  BY <1>2, <1>4 DEF DailyTypes
<1>6. \A d \in daily' : IsFiniteSet(d.ports)
  BY <1>1, <1>2 DEF DailyTypes
<1>7. \A d, x \in daily' : d.src = x.src => d = x
  BY <1>1, <1>2 DEF DailyTypes
<1>8. Tried(f) \in [src : Host, port : Nat, age : 0..SlowWindow]
      /\ Tried(f).src = f.src /\ Tried(f).port = f.port
  BY DetectorNumbers DEF Tried
<1>9. ports' \subseteq [src : Host, port : Nat, age : 0..SlowWindow]
  BY <1>3, <1>8 DEF DailyTypes
<1>10. \A p, q \in ports' : p.src = q.src /\ p.port = q.port => p = q
  BY <1>3, <1>8 DEF DailyTypes
<1>11. IsFiniteSet(ports')
  <2>1. IsFiniteSet({p \in ports : p.src # f.src \/ p.port # f.port})
    BY FS_Subset DEF DailyTypes
  <2>2. IsFiniteSet({p \in ports : p.src # f.src \/ p.port # f.port} \cup {Tried(f)})
    BY <2>1, FS_AddElement
  <2>3. ports' = {p \in ports : p.src # f.src \/ p.port # f.port} \cup {Tried(f)}
    BY <1>3
  <2> QED
    BY <2>2, <2>3
<1> QED
  BY <1>5, <1>6, <1>7, <1>9, <1>10, <1>11 DEF DailyTypes

LEMMA ScanSets ==
  ASSUME DetectorAssumption, DailyTypes, SetInv, NEW f, f.src \in Host, f.port \in Nat, Scans(f)
  PROVE  SetInv'
<1> DEFINE e == SlowScan(f)
<1>1. e.src = f.src /\ f.port \in e.ports /\ e.age \in 0..SlowWindow
  BY SlowScanTypes
<1>2. SetStarts(e, f) \/ \E old \in daily : Continued(e, f, old)
  BY SlowScanIs
<1> HIDE DEF e
<1>3. daily' = {e} \cup {d \in daily : d.src # f.src}
  BY DEF Scans, e
<1>4. ports' = {Tried(f)} \cup {p \in ports : p.src # f.src \/ p.port # f.port}
      /\ Tried(f).src = f.src /\ Tried(f).port = f.port /\ Tried(f).age = 0
  BY DEF Scans, Tried
<1>5. ASSUME NEW p \in ports' PROVE \E d \in daily' : d.src = p.src
  BY <1>1, <1>3, <1>4 DEF SetInv
<1>6. ASSUME NEW d \in daily', NEW p \in ports', p.src = d.src
      PROVE  d.age <= SlowWindow + p.age /\ (p.age <= d.age => p.port \in d.ports)
  <2>1. CASE d.src # f.src
    BY <1>1, <1>3, <1>4, <1>6, <2>1 DEF SetInv
  <2>2. CASE d.src = f.src /\ p = Tried(f)
    <3>1. d = e
      BY <1>3, <2>2
    <3> QED
      BY <1>1, <1>4, <2>2, <3>1, DetectorNumbers
  <2>3. CASE d.src = f.src /\ p # Tried(f)
    <3>1. d = e /\ p \in ports /\ p.src = f.src /\ p.age \in Nat
      BY <1>3, <1>4, <1>6, <2>3 DEF DailyTypes
    <3>2. CASE SetStarts(e, f)
      <4>1. PICK x \in daily : x.src = p.src
        BY <3>1 DEF SetInv
      <4>2. x.age > SlowWindow /\ x.age <= SlowWindow + p.age /\ x.age \in Nat
        BY <3>1, <3>2, <4>1 DEF SetStarts, SetInv, DailyTypes
      <4>3. p.age > 0 /\ e.age = 0
        BY <3>1, <3>2, <4>2, DetectorNumbers DEF SetStarts
      <4> QED
        BY <3>1, <4>3, DetectorNumbers
    <3>3. ASSUME NEW old \in daily, Continued(e, f, old)
          PROVE  d.age <= SlowWindow + p.age /\ (p.age <= d.age => p.port \in d.ports)
      <4>1. old.src = f.src /\ e.age = old.age /\ e.ports = old.ports \cup {f.port}
        BY <3>3 DEF Continued
      <4> QED
        BY <3>1, <4>1 DEF SetInv
    <3> QED
      BY <1>2, <3>2, <3>3
  <2> QED
    BY <2>1, <2>2, <2>3
<1> QED
  BY <1>5, <1>6 DEF SetInv

\* A set that reaches the threshold is reported by the flow that makes it.
LEMMA FullSetAlerts ==
  ASSUME DetectorAssumption, ThresholdInv, DailyTypes, NEW f, f.src \in Host, f.port \in Nat,
         HandleFlow(f), SlowScanned(f), Cardinality(SlowScan(f).ports) >= SlowThreshold
  PROVE  IsAlerted(fired', "slow_port_scan", <<f.src>>, Cooldown["slow_port_scan"])
<1>1. IsFiniteSet(SlowScan(f).ports)
  BY SlowScanTypes
<1>2. Cardinality(SlowScan(f).ports) \in Nat
  BY <1>1, FS_CardinalityType
<1>3. thr["slow_port_scan"] \in Nat /\ thr["slow_port_scan"] <= SlowThreshold /\ SlowThreshold \in Nat
  BY DetectorNumbers DEF ThresholdInv, Tuned, Rule
<1>4. Cardinality(SlowScan(f).ports) >= thr["slow_port_scan"]
  BY <1>2, <1>3
<1>5. Matches("slow_port_scan", f)
  BY <1>4 DEF Matches
<1>6. Key("slow_port_scan", f) = <<f.src>>
  BY DEF Key
<1> QED
  BY <1>5, <1>6, MatchAlerts, DetectorNumbers

LEMMA AlertedLonger ==
  ASSUME NEW F, \A x \in F : IsAlert(x), NEW r, NEW k, NEW n \in Nat, NEW m \in Nat, n <= m,
         IsAlerted(F, r, k, n), \A x \in F : Horizon(x) \in Nat
  PROVE  IsAlerted(F, r, k, m)
<1>1. PICK x \in F : x.rule = r /\ x.key = k /\ x.age < n
  BY DEF IsAlerted
<1>2. x.age \in Nat
  BY DEF IsAlert
<1>3. x.age < m
  BY <1>1, <1>2
<1> QED
  BY <1>1, <1>3 DEF IsAlerted

LEMMA FiredLonger ==
  ASSUME DetectorAssumption, FiredInv, NEW r, NEW k, NEW n \in Nat, NEW m \in Nat, n <= m,
         IsAlerted(fired, r, k, n)
  PROVE  IsAlerted(fired, r, k, m)
BY AlertedLonger, HorizonIs DEF FiredInv, IsAlert

\* An emptied set was full when it had many ports of the last window.
LEMMA EmptiedSet ==
  ASSUME DetectorAssumption, DailyTypes, SetInv, NEW f, SetStarts(SlowScan(f), f),
         NEW S, S \subseteq {p \in ports : p.src = f.src}, Cardinality(S) >= SlowThreshold
  PROVE  \E d \in daily : d.src = f.src /\ Cardinality(d.ports) >= SlowThreshold
<1>1. IsFiniteSet(S)
  <2>1. S \in SUBSET ports
    OBVIOUS
  <2> QED
    BY <2>1, FS_Subset DEF DailyTypes
<1>2. Cardinality(S) \in Nat /\ S # {}
  BY <1>1, FS_CardinalityType, FS_EmptySet, DetectorNumbers
<1>3. PICK q \in S : TRUE
  BY <1>2
<1>4. PICK d \in daily : d.src = f.src
  BY <1>3 DEF SetInv
<1>5. d.age > SlowWindow /\ d.age \in Nat /\ IsFiniteSet(d.ports)
  BY <1>4 DEF SetStarts, DailyTypes
<1>6. \A p \in S : p.port \in d.ports
  <2> TAKE p \in S
  <2>1. p \in ports /\ p.src = d.src /\ p.age \in 0..SlowWindow
    BY <1>4 DEF DailyTypes
  <2>2. p.age <= d.age
    BY <1>5, <2>1, DetectorNumbers
  <2> QED
    BY <2>1, <2>2 DEF SetInv
<1>7. \A p, x \in S : p.port = x.port => p = x
  BY DEF DailyTypes
<1>8. Cardinality(S) <= Cardinality(d.ports)
  BY <1>5, <1>6, <1>7, PortsCount
<1>9. Cardinality(d.ports) \in Nat
  BY <1>5, FS_CardinalityType
<1> QED
  BY <1>2, <1>4, <1>8, <1>9, DetectorNumbers

LEMMA ScanReports ==
  ASSUME DetectorAssumption, ThresholdInv, FiredInv, FiredInv', DailyTypes, DailyTypes', SetInv, ScanInv,
         NEW f, f.src \in Host, f.port \in Nat, HandleFlow(f), SlowScanned(f), Scans(f)
  PROVE  ScanInv'
<1> DEFINE e == SlowScan(f)
           C == Cooldown["slow_port_scan"]
           R == "slow_port_scan"
           N == {p \in ports' : p.src = f.src /\ p.age > e.age}
<1>1. e.src = f.src /\ f.port \in e.ports /\ e.age \in 0..SlowWindow
  BY SlowScanTypes
<1>2. SetStarts(e, f) \/ \E old \in daily : Continued(e, f, old)
  BY SlowScanIs
<1>3. C \in Nat \ {0} /\ C \in Nat
  BY DetectorNumbers
<1>4. Cardinality(e.ports) >= SlowThreshold => IsAlerted(fired', R, <<f.src>>, C)
  BY FullSetAlerts
<1> HIDE DEF C
<1>5. daily' = {e} \cup {d \in daily : d.src # f.src}
  BY DEF Scans
<1>6. ports' = {Tried(f)} \cup {p \in ports : p.src # f.src \/ p.port # f.port}
      /\ Tried(f).src = f.src /\ Tried(f).port = f.port /\ Tried(f).age = 0
  BY DEF Scans, Tried
<1>7. \A p \in ports : p.age \in Nat
  BY DEF DailyTypes
<1>8. \A p \in ports' : p.age \in Nat
  BY DEF DailyTypes
<1>9. N \subseteq {p \in ports : p.src = f.src}
  BY <1>1, <1>6
<1>10. ASSUME Cardinality(N) >= SlowThreshold
       PROVE  \A p \in N : IsAlerted(fired, R, <<f.src>>, C + p.age)
  <2>1. CASE SetStarts(e, f)
    <3>1. PICK d \in daily : d.src = f.src /\ Cardinality(d.ports) >= SlowThreshold
      BY <1>9, <1>10, <2>1, EmptiedSet
    <3> QED
      BY <1>9, <3>1 DEF ScanInv, C
  <2>2. ASSUME NEW old \in daily, Continued(e, f, old)
        PROVE  \A p \in N : IsAlerted(fired, R, <<f.src>>, C + p.age)
    <3>1. old.src = f.src /\ e.age = old.age
      BY <2>2 DEF Continued
    <3>2. N \in SUBSET Earlier(old) /\ IsFiniteSet(Earlier(old))
      <4>1. Earlier(old) \in SUBSET ports
        BY DEF Earlier
      <4>2. IsFiniteSet(Earlier(old))
        BY <4>1, FS_Subset DEF DailyTypes
      <4>3. \A p \in N : p \in ports /\ p.src = old.src /\ p.age > old.age
        BY <1>9, <3>1
      <4> HIDE DEF N
      <4> QED
        BY <4>2, <4>3 DEF Earlier
    <3> HIDE DEF N
    <3>3. Cardinality(N) <= Cardinality(Earlier(old)) /\ IsFiniteSet(N)
      BY <3>2, FS_Subset
    <3>4. Cardinality(Earlier(old)) >= SlowThreshold
      BY <1>10, <3>2, <3>3, FS_CardinalityType, DetectorNumbers
    <3> QED
      BY <3>1, <3>2, <3>4 DEF ScanInv, C
  <2> QED
    BY <1>2, <2>1, <2>2
<1>11. ASSUME NEW p \in ports', IsAlerted(fired', R, <<f.src>>, C)
       PROVE  IsAlerted(fired', R, <<f.src>>, C + p.age)
  <2>1. C + p.age \in Nat /\ C <= C + p.age
    BY <1>3, <1>8
  <2>2. \A x \in fired' : IsAlert(x) /\ Horizon(x) \in Nat
    BY HorizonIs DEF FiredInv, IsAlert, Horizon
  <2> QED
    BY <1>3, <1>11, <2>1, <2>2, AlertedLonger
<1>12. ASSUME NEW p \in ports, NEW k, IsAlerted(fired, R, k, C + p.age)
       PROVE  IsAlerted(fired', R, k, C + p.age)
  <2>1. C + p.age \in Nat \ {0}
    BY <1>3, <1>7
  <2> QED
    BY <1>12, <2>1, StillAlerted
<1>13. ASSUME NEW d \in daily', d.src # f.src
       PROVE  /\ d \in daily
              /\ \A p : p \in ports' /\ p.src = d.src => p \in ports
              /\ {p \in ports' : p.src = d.src /\ p.age > d.age} = Earlier(d)
  <2>1. \A p : p.src = d.src => (p \in ports' <=> p \in ports)
    BY <1>6, <1>13
  <2> QED
    BY <1>1, <1>5, <1>13, <2>1 DEF Earlier
<1> HIDE DEF e, R
<1>14. ASSUME NEW d \in daily', Cardinality(d.ports) >= SlowThreshold, NEW p \in ports', p.src = d.src
       PROVE  IsAlerted(fired', R, <<d.src>>, C + p.age)
  <2>1. CASE d.src = f.src
    <3>1. d = e
      BY <1>5, <2>1
    <3> QED
      BY <1>4, <1>11, <1>14, <2>1, <3>1
  <2>2. CASE d.src # f.src
    <3>1. p \in ports /\ d \in daily
      BY <1>13, <1>14, <2>2
    <3>2. IsAlerted(fired, R, <<d.src>>, C + p.age)
      BY <1>14, <3>1 DEF ScanInv, C, R
    <3> QED
      BY <1>12, <3>1, <3>2
  <2> QED
    BY <2>1, <2>2
<1>15. ASSUME NEW d \in daily',
              Cardinality({p \in ports' : p.src = d.src /\ p.age > d.age}) >= SlowThreshold,
              NEW p \in ports', p.src = d.src, p.age > d.age
       PROVE  IsAlerted(fired', R, <<d.src>>, C + p.age)
  <2>1. CASE d.src = f.src
    <3>1. d = e /\ p \in N
      BY <1>1, <1>5, <1>15, <2>1
    <3>2. IsAlerted(fired, R, <<f.src>>, C + p.age) /\ p \in ports
      BY <1>9, <1>10, <1>15, <2>1, <3>1
    <3> QED
      BY <1>12, <2>1, <3>2
  <2>2. CASE d.src # f.src
    <3>1. p \in ports /\ d \in daily /\ Cardinality(Earlier(d)) >= SlowThreshold /\ p \in Earlier(d)
      BY <1>13, <1>15, <2>2 DEF Earlier
    <3>2. IsAlerted(fired, R, <<d.src>>, C + p.age)
      BY <3>1 DEF ScanInv, C, R
    <3> QED
      BY <1>12, <3>1, <3>2
  <2> QED
    BY <2>1, <2>2
<1>16. ScanInv' <=>
         \A d \in daily' :
           /\ Cardinality(d.ports) >= SlowThreshold =>
                 \A p \in ports' : p.src = d.src => IsAlerted(fired', R, <<d.src>>, C + p.age)
           /\ Cardinality({p \in ports' : p.src = d.src /\ p.age > d.age}) >= SlowThreshold =>
                 \A p \in ports' : p.src = d.src /\ p.age > d.age =>
                    IsAlerted(fired', R, <<d.src>>, C + p.age)
  BY DEF ScanInv, Earlier, C, R
<1> QED
  BY <1>14, <1>15, <1>16

SlowInv == ThresholdInv /\ FiredInv /\ DailyTypes /\ SetInv /\ ScanInv

\* A flow without a port leaves the sets as they are.
LEMMA FlowScans ==
  ASSUME DetectorAssumption, flows \in Traffic, SlowInv, FiredInv', NEW f \in flows, HandleFlow(f)
  PROVE  DailyTypes' /\ SetInv' /\ ScanInv'
<1>1. CASE SlowScanned(f)
  <2>1. Scans(f)
    BY <1>1 DEF HandleFlow, Scans, Tried
  <2>2. f.src \in Host /\ f.port \in Nat
    <3>1. f \in UNION Traffic
      OBVIOUS
    <3>2. f.src \in Host \cup Infra \cup {NoHost} /\ f.port \in Nat
      BY <3>1 DEF DetectorAssumption
    <3>3. f.src \notin Infra /\ f.src # NoHost
      BY <1>1 DEF HandleFlow, SlowScanned
    <3> QED
      BY <3>2, <3>3
  <2>3. DailyTypes'
    BY <2>1, <2>2, ScanTypes DEF SlowInv
  <2> QED
    BY <1>1, <2>1, <2>2, <2>3, ScanSets, ScanReports DEF SlowInv
<1>2. CASE ~SlowScanned(f)
  <2>1. daily' = daily /\ ports' = ports
    BY <1>2 DEF HandleFlow
  <2>2. DailyTypes' /\ SetInv'
    BY <2>1 DEF SlowInv, DailyTypes, SetInv
  <2>3. ASSUME NEW p \in ports, NEW k, IsAlerted(fired, "slow_port_scan", k, Cooldown["slow_port_scan"] + p.age)
        PROVE  IsAlerted(fired', "slow_port_scan", k, Cooldown["slow_port_scan"] + p.age)
    <3>1. Cooldown["slow_port_scan"] + p.age \in Nat \ {0}
      BY DetectorNumbers DEF SlowInv, DailyTypes
    <3> QED
      BY <2>3, <3>1, StillAlerted
  <2>4. ScanInv'
    BY <2>1, <2>3 DEF SlowInv, ScanInv, Earlier
  <2> QED
    BY <2>2, <2>4
<1> QED
  BY <1>1, <1>2

\* The sets and the ports a tick later.
LaterDaily(d) == [d EXCEPT !.age = Upto(@, SlowWindow + 1)]

LEMMA TickIs ==
  ASSUME DetectorAssumption, DailyTypes, Tick
  PROVE  /\ \A d \in daily' : \E x \in daily :
               /\ d = LaterDaily(x) /\ d.src = x.src /\ d.ports = x.ports
               /\ d.age = IF x.age < SlowWindow + 1 THEN x.age + 1 ELSE SlowWindow + 1
         /\ \A x \in daily : LaterDaily(x) \in daily' /\ LaterDaily(x).src = x.src
         /\ \A p \in ports' : \E q \in ports :
               /\ p = Grown(q) /\ p.src = q.src /\ p.port = q.port /\ p.age = q.age + 1
               /\ q.age \in Nat /\ q.age + 1 <= SlowWindow
<1>1. daily' = {LaterDaily(d) : d \in daily}
  BY DEF Tick, LaterDaily
<1>2. ASSUME NEW x \in daily
      PROVE  /\ LaterDaily(x).src = x.src /\ LaterDaily(x).ports = x.ports
             /\ LaterDaily(x).age = IF x.age < SlowWindow + 1 THEN x.age + 1 ELSE SlowWindow + 1
  <2>1. x \in [src : Host, ports : SUBSET Nat, age : 0..SlowWindow + 1]
    BY DEF DailyTypes
  <2> QED
    BY <2>1 DEF LaterDaily, Upto
<1>3. ports' = {p \in {Grown(x) : x \in ports} : p.age <= SlowWindow}
  BY DEF Tick, Older
<1>4. ASSUME NEW q \in ports
      PROVE  Grown(q).src = q.src /\ Grown(q).port = q.port /\ Grown(q).age = q.age + 1 /\ q.age \in Nat
  <2>1. q \in [src : Host, port : Nat, age : 0..SlowWindow]
    BY DEF DailyTypes
  <2> QED
    BY <2>1 DEF Grown
<1>5. \A p \in ports' : \E q \in ports :
               /\ p = Grown(q) /\ p.src = q.src /\ p.port = q.port /\ p.age = q.age + 1
               /\ q.age \in Nat /\ q.age + 1 <= SlowWindow
  BY <1>3, <1>4
<1> QED
  BY <1>1, <1>2, <1>5

LEMMA TickTypes ==
  ASSUME DetectorAssumption, DailyTypes, Tick
  PROVE  DailyTypes'
<1>1. ASSUME NEW d \in daily'
      PROVE  d \in [src : Host, ports : SUBSET Nat, age : 0..SlowWindow + 1] /\ IsFiniteSet(d.ports)
  <2>1. PICK x \in daily :
               /\ d = LaterDaily(x) /\ d.src = x.src /\ d.ports = x.ports
               /\ d.age = IF x.age < SlowWindow + 1 THEN x.age + 1 ELSE SlowWindow + 1
    BY TickIs
  <2>2. x \in [src : Host, ports : SUBSET Nat, age : 0..SlowWindow + 1] /\ IsFiniteSet(x.ports)
    BY DEF DailyTypes
  <2>3. Upto(x.age, SlowWindow + 1) \in 0..SlowWindow + 1
    BY <2>2, DetectorNumbers DEF Upto
  <2>4. d = [x EXCEPT !.age = Upto(x.age, SlowWindow + 1)]
    BY <2>1 DEF LaterDaily
  <2> QED
    BY <2>1, <2>2, <2>3, <2>4
<1>2. \A d, e \in daily' : d.src = e.src => d = e
  BY TickIs DEF DailyTypes
<1>3. ASSUME NEW p \in ports' PROVE p \in [src : Host, port : Nat, age : 0..SlowWindow]
  <2>1. PICK q \in ports : p = Grown(q) /\ q.age \in Nat /\ q.age + 1 <= SlowWindow
    BY TickIs
  <2>2. q \in [src : Host, port : Nat, age : 0..SlowWindow]
    BY DEF DailyTypes
  <2> QED
    BY <2>1, <2>2, DetectorNumbers DEF Grown
<1>4. \A p, q \in ports' : p.src = q.src /\ p.port = q.port => p = q
  BY TickIs DEF DailyTypes
<1>5. IsFiniteSet(ports')
  <2> DEFINE T == {Grown(x) : x \in ports}
             g == [x \in ports |-> Grown(x)]
  <2>1. g \in Surjection(ports, T)
    BY DEF Surjection
  <2>2. IsFiniteSet(T)
    BY <2>1, FS_Surjection DEF DailyTypes
  <2>3. ports' \in SUBSET T
    BY DEF Tick, Older
  <2> QED
    BY <2>2, <2>3, FS_Subset
<1> QED
  BY <1>1, <1>2, <1>3, <1>4, <1>5 DEF DailyTypes

LEMMA TickSets ==
  ASSUME DetectorAssumption, DailyTypes, SetInv, Tick
  PROVE  SetInv'
<1>1. ASSUME NEW p \in ports' PROVE \E d \in daily' : d.src = p.src
  <2>1. PICK q \in ports : p.src = q.src
    BY TickIs
  <2>2. PICK x \in daily : x.src = q.src
    BY DEF SetInv
  <2> QED
    BY <2>1, <2>2, TickIs
<1>2. ASSUME NEW d \in daily', NEW p \in ports', p.src = d.src
      PROVE  d.age <= SlowWindow + p.age /\ (p.age <= d.age => p.port \in d.ports)
  <2>1. PICK x \in daily : /\ d.src = x.src /\ d.ports = x.ports
                           /\ d.age = IF x.age < SlowWindow + 1 THEN x.age + 1 ELSE SlowWindow + 1
    BY TickIs
  <2>2. PICK q \in ports : /\ p.src = q.src /\ p.port = q.port /\ p.age = q.age + 1
                           /\ q.age \in Nat /\ q.age + 1 <= SlowWindow
    BY TickIs
  <2>3. x.age <= SlowWindow + q.age /\ (q.age <= x.age => q.port \in x.ports)
    BY <1>2, <2>1, <2>2 DEF SetInv
  <2>4. x.age \in 0..SlowWindow + 1
    BY DEF DailyTypes
  <2> QED
    BY <2>1, <2>2, <2>3, <2>4, DetectorNumbers
<1> QED
  BY <1>1, <1>2 DEF SetInv

LEMMA TickReports ==
  ASSUME DetectorAssumption, FiredInv, DailyTypes, ScanInv, Tick
  PROVE  ScanInv'
<1> DEFINE C == Cooldown["slow_port_scan"]
           R == "slow_port_scan"
<1>1. ASSUME NEW k, NEW q \in ports, q.age \in Nat, q.age + 1 <= SlowWindow,
             IsAlerted(fired, R, k, C + q.age)
      PROVE  IsAlerted(fired', R, k, C + (q.age + 1))
  <2>1. C + q.age \in Nat /\ C + q.age + 1 <= C + SlowWindow /\ C + q.age + 1 = C + (q.age + 1)
    BY <1>1, DetectorNumbers
  <2>2. IsAlerted(fired', R, k, C + q.age + 1)
    BY <1>1, <2>1, AlertedOlder
  <2> QED
    BY <2>1, <2>2
<1>2. ASSUME NEW d \in daily', Cardinality(d.ports) >= SlowThreshold, NEW p \in ports', p.src = d.src
      PROVE  IsAlerted(fired', R, <<d.src>>, C + p.age)
  <2>1. PICK x \in daily : d.src = x.src /\ d.ports = x.ports
    BY TickIs
  <2>2. PICK q \in ports : /\ p.src = q.src /\ p.age = q.age + 1
                           /\ q.age \in Nat /\ q.age + 1 <= SlowWindow
    BY TickIs
  <2>3. IsAlerted(fired, R, <<x.src>>, C + q.age)
    BY <1>2, <2>1, <2>2 DEF ScanInv
  <2> QED
    BY <1>1, <2>1, <2>2, <2>3
<1>3. ASSUME NEW d \in daily', NEW S, S = {p \in ports' : p.src = d.src /\ p.age > d.age},
             Cardinality(S) >= SlowThreshold, NEW p \in S
      PROVE  IsAlerted(fired', R, <<d.src>>, C + p.age)
  <2>1. PICK x \in daily : /\ d.src = x.src
                           /\ d.age = IF x.age < SlowWindow + 1 THEN x.age + 1 ELSE SlowWindow + 1
    BY TickIs
  <2>2. x.age \in 0..SlowWindow + 1
    BY DEF DailyTypes
  <2>3. \A y \in S : \E q \in Earlier(x) : y = Grown(q) /\ y.age = q.age + 1
                                         /\ q.age \in Nat /\ q.age + 1 <= SlowWindow
    <3> TAKE y \in S
    <3>1. y \in ports' /\ y.src = d.src /\ y.age > d.age
      BY <1>3
    <3>2. PICK q \in ports : /\ y = Grown(q) /\ y.src = q.src /\ y.age = q.age + 1
                             /\ q.age \in Nat /\ q.age + 1 <= SlowWindow
      BY <3>1, TickIs
    <3>3. q.age > x.age
      BY <2>1, <2>2, <3>1, <3>2, DetectorNumbers
    <3> QED
      BY <2>1, <3>1, <3>2, <3>3 DEF Earlier
  <2> DEFINE T == {Grown(q) : q \in Earlier(x)}
             g == [q \in Earlier(x) |-> Grown(q)]
  <2>4. IsFiniteSet(Earlier(x))
    <3>1. Earlier(x) \in SUBSET ports
      BY DEF Earlier
    <3> QED
      BY <3>1, FS_Subset DEF DailyTypes
  <2>5. g \in Surjection(Earlier(x), T)
    BY DEF Surjection
  <2>6. IsFiniteSet(T) /\ Cardinality(T) <= Cardinality(Earlier(x))
    BY <2>4, <2>5, FS_Surjection
  <2>7. S \in SUBSET T
    BY <2>3
  <2> HIDE DEF T, g
  <2>8. IsFiniteSet(S) /\ Cardinality(S) <= Cardinality(T)
    BY <2>6, <2>7, FS_Subset
  <2>9. Cardinality(Earlier(x)) >= SlowThreshold
    BY <1>3, <2>4, <2>6, <2>8, FS_CardinalityType, DetectorNumbers
  <2>10. PICK q \in Earlier(x) : p.age = q.age + 1 /\ q.age \in Nat /\ q.age + 1 <= SlowWindow
    BY <2>3
  <2>11. IsAlerted(fired, R, <<x.src>>, C + q.age) /\ q \in ports
    BY <2>9 DEF ScanInv, Earlier
  <2> QED
    BY <1>1, <2>1, <2>10, <2>11
<1>4. ScanInv' <=>
         \A d \in daily' :
           /\ Cardinality(d.ports) >= SlowThreshold =>
                 \A p \in ports' : p.src = d.src => IsAlerted(fired', R, <<d.src>>, C + p.age)
           /\ Cardinality({p \in ports' : p.src = d.src /\ p.age > d.age}) >= SlowThreshold =>
                 \A p \in {x \in ports' : x.src = d.src /\ x.age > d.age} :
                    IsAlerted(fired', R, <<d.src>>, C + p.age)
  BY DEF ScanInv, Earlier
<1> HIDE DEF C, R
<1> QED
  BY <1>2, <1>3, <1>4

LEMMA SlowNext ==
  ASSUME DetectorAssumption, flows \in Traffic, SlowInv, [Next]_vars
  PROVE  SlowInv'
<1>1. ThresholdInv' /\ FiredInv'
  BY ThresholdNext, FiredNext DEF SlowInv
<1>2. ASSUME UNCHANGED <<daily, ports, fired>> PROVE DailyTypes' /\ SetInv' /\ ScanInv'
  BY <1>2 DEF SlowInv, DailyTypes, SetInv, ScanInv, Earlier
<1>3. ASSUME NEW f \in flows, HandleFlow(f) PROVE DailyTypes' /\ SetInv' /\ ScanInv'
  BY <1>1, <1>3, FlowScans
<1>4. ASSUME NEW f \in flows, SkipInfra(f) PROVE DailyTypes' /\ SetInv' /\ ScanInv'
  BY <1>2, <1>4 DEF SkipInfra
<1>5. ASSUME NEW h \in Host, RecordIsolation(h) PROVE DailyTypes' /\ SetInv' /\ ScanInv'
  BY <1>2, <1>5 DEF RecordIsolation
<1>6. ASSUME NEW recs \in Advice, ApplyThresholdUpdates(recs) PROVE DailyTypes' /\ SetInv' /\ ScanInv'
  BY <1>2, <1>6 DEF ApplyThresholdUpdates
<1>7. ASSUME Tick PROVE DailyTypes' /\ SetInv' /\ ScanInv'
  BY <1>7, TickTypes, TickSets, TickReports DEF SlowInv
<1>8. ASSUME UNCHANGED vars PROVE DailyTypes' /\ SetInv' /\ ScanInv'
  BY <1>2, <1>8 DEF vars
<1>9. DailyTypes' /\ SetInv' /\ ScanInv'
  BY <1>3, <1>4, <1>5, <1>6, <1>7, <1>8 DEF Next
<1> QED
  BY <1>1, <1>9 DEF SlowInv

LEMMA DetectorInvariance ==
  ASSUME DetectorAssumption
  PROVE  Spec => [](WindowInv /\ SlowInv)
<1>1. Init => WindowInv /\ SlowInv
  BY WindowInit, SlowInit DEF SlowInv
<1>2. WindowInv /\ SlowInv /\ [Next]_vars => (WindowInv /\ SlowInv)'
  <2>1. WindowInv => flows \in Traffic
    BY DEF WindowInv
  <2> QED
    BY <2>1, WindowNext, SlowNext
<1> QED
  BY <1>1, <1>2, PTL DEF Spec

\* Twice the threshold, less one, in a day: one of two sets was full.
LEMMA ManyPortsAlerted ==
  ASSUME DetectorAssumption, SlowInv, NEW d \in daily,
         Cardinality({p \in ports : p.src = d.src}) >= 2 * SlowThreshold - 1
  PROVE  IsAlerted(fired, "slow_port_scan", <<d.src>>, SlowWindow + Cooldown["slow_port_scan"])
<1> DEFINE A == {p \in ports : p.src = d.src}
           N == {p \in ports : p.src = d.src /\ ~(p.age > d.age)}
           C == Cooldown["slow_port_scan"]
<1>1. A \in SUBSET ports /\ N \in SUBSET ports /\ Earlier(d) \in SUBSET ports /\ A = N \cup Earlier(d)
      /\ N \cap Earlier(d) = {}
  BY DEF Earlier
<1>2. IsFiniteSet(A) /\ IsFiniteSet(N) /\ IsFiniteSet(Earlier(d))
  BY <1>1, FS_Subset DEF SlowInv, DailyTypes
<1>3. Cardinality(A) \in Nat /\ Cardinality(N) \in Nat /\ Cardinality(Earlier(d)) \in Nat
  BY <1>2, FS_CardinalityType
<1>4. Cardinality(A) = Cardinality(N) + Cardinality(Earlier(d))
  <2>1. Cardinality(N \cup Earlier(d))
          = Cardinality(N) + Cardinality(Earlier(d)) - Cardinality(N \cap Earlier(d))
    BY <1>2, FS_Union
  <2>2. Cardinality(N \cap Earlier(d)) = 0
    BY <1>1, FS_EmptySet
  <2> HIDE DEF A, N
  <2> QED
    BY <1>1, <1>3, <2>1, <2>2
<1>5. SlowThreshold \in Nat \ {0} /\ C \in Nat \ {0} /\ SlowWindow \in Nat
  BY DetectorNumbers
<1>6. ASSUME NEW p \in A, IsAlerted(fired, "slow_port_scan", <<d.src>>, C + p.age)
      PROVE  IsAlerted(fired, "slow_port_scan", <<d.src>>, SlowWindow + C)
  <2>1. p.age \in 0..SlowWindow
    BY DEF SlowInv, DailyTypes
  <2>2. C + p.age \in Nat /\ SlowWindow + C \in Nat /\ C + p.age <= SlowWindow + C
    BY <1>5, <2>1
  <2> QED
    BY <1>6, <2>2, FiredLonger DEF SlowInv
<1>7. CASE Cardinality(Earlier(d)) >= SlowThreshold
  <2>1. Earlier(d) # {}
    <3>1. Cardinality({}) = 0
      BY FS_EmptySet
    <3>2. ~(0 >= SlowThreshold)
      BY <1>5
    <3> QED
      BY <1>7, <3>1, <3>2
  <2>2. PICK p \in Earlier(d) : TRUE
    BY <2>1
  <2>3. IsAlerted(fired, "slow_port_scan", <<d.src>>, C + p.age)
    BY <1>7 DEF SlowInv, ScanInv
  <2>4. p \in A
    BY <1>1
  <2> QED
    BY <1>6, <2>3, <2>4
<1>8. CASE Cardinality(N) >= SlowThreshold
  <2>1. N # {}
    BY <1>5, <1>8, FS_EmptySet
  <2>2. PICK p \in N : TRUE
    BY <2>1
  <2>3. \A q \in N : q.port \in d.ports
    <3> TAKE q \in N
    <3>1. q.age \in Nat /\ d.age \in Nat
      BY DEF SlowInv, DailyTypes
    <3>2. q.age <= d.age
      BY <3>1
    <3> QED
      BY <3>2 DEF SlowInv, SetInv
  <2>4. \A q, x \in N : q.port = x.port => q = x
    BY DEF SlowInv, DailyTypes
  <2>5. IsFiniteSet(d.ports)
    BY DEF SlowInv, DailyTypes
  <2>6. Cardinality(N) <= Cardinality(d.ports)
    BY <2>3, <2>4, <2>5, PortsCount
  <2>7. Cardinality(d.ports) >= SlowThreshold
    BY <1>3, <1>5, <1>8, <2>5, <2>6, FS_CardinalityType
  <2>8. IsAlerted(fired, "slow_port_scan", <<d.src>>, C + p.age)
    BY <2>7 DEF SlowInv, ScanInv
  <2> QED
    BY <1>6, <2>8
<1>9. Cardinality(A) >= 2 * SlowThreshold - 1
  OBVIOUS
<1> HIDE DEF A, N, C
<1>10. Cardinality(N) >= SlowThreshold \/ Cardinality(Earlier(d)) >= SlowThreshold
  BY <1>3, <1>4, <1>5, <1>9
<1> QED
  BY <1>7, <1>8, <1>10

\* A flow that brings the entries of a source to a threshold, and a source that tries
\* many ports in a day, are reported (_check_*, _dedup, _check_slow_port_scan).
THEOREM FlowAttackReported == ASSUME DetectorAssumption PROVE Spec => FlowAttackIsAlerted
<1> DEFINE Windows ==
        sent' > sent => \A s \in DOMAIN seen' :
              /\ s \in DOMAIN seen => seen'[s] # seen[s]
              /\ Count(s[1], seen'[s]) >= thr[s[1]]
              /\ Len(seen'[s]) <= Cap[s[1]]
              => AlertedWithin(s[1], s[2], Cooldown[s[1]])'
      SlowScans ==
        \A d \in daily :
              Cardinality({p \in ports : p.src = d.src}) >= 2 * SlowThreshold - 1
              => AlertedWithin("slow_port_scan", <<d.src>>,
                               SlowWindow + Cooldown["slow_port_scan"])
<1>1. WindowInv /\ WindowInv' /\ [Next]_vars => Windows
  <2> SUFFICES ASSUME WindowInv, WindowInv', [Next]_vars, sent' > sent, NEW s \in DOMAIN seen',
                      s \in DOMAIN seen => seen'[s] # seen[s],
                      Count(s[1], seen'[s]) >= thr[s[1]], Len(seen'[s]) <= Cap[s[1]]
               PROVE  IsAlerted(fired', s[1], s[2], Cooldown[s[1]])
    BY DEF IsAlerted, AlertedWithin
  <2>1. sent \in Nat
    BY DEF WindowInv
  <2>2. ~Tick /\ ~UNCHANGED vars
    BY <2>1 DEF Tick, vars
  <2>3. \A h \in Host : ~RecordIsolation(h)
    BY <2>1 DEF RecordIsolation
  <2>4. \A recs \in Advice : ~ApplyThresholdUpdates(recs)
    BY <2>1 DEF ApplyThresholdUpdates
  <2>5. \A f \in flows : ~SkipInfra(f)
    BY DEF SkipInfra
  <2>6. PICK f \in flows : HandleFlow(f)
    BY <2>2, <2>3, <2>4, <2>5 DEF Next
  <2> QED
    BY <2>6, WindowAlerts
<1>2. SlowInv => SlowScans
  BY ManyPortsAlerted DEF IsAlerted, AlertedWithin
<1>3. SlowScans' => \A d \in daily' :
              Cardinality({p \in ports' : p.src = d.src}) >= 2 * SlowThreshold - 1
              => AlertedWithin("slow_port_scan", <<d.src>>,
                               SlowWindow + Cooldown["slow_port_scan"])'
  OBVIOUS
<1> HIDE DEF Windows, SlowScans
<1>4. (WindowInv /\ SlowInv) /\ (WindowInv /\ SlowInv)' /\ [Next]_vars => Windows /\ SlowScans'
  <2>1. SlowInv' => SlowScans'
    BY <1>2, PTL
  <2> QED
    BY <1>1, <2>1
<1> USE DEF Windows
<1> QED
  BY <1>3, <1>4, DetectorInvariance, PTL DEF Spec, FlowAttackIsAlerted

OtherTypes ==
    /\ isolated \in SUBSET [src : Host, age : 0..Grace + 1]
    /\ alerts \subseteq Rule
    /\ clock \in Clock

LEMMA OtherTypesNext ==
  ASSUME DetectorAssumption, OtherTypes, [Next]_vars
  PROVE  OtherTypes'
<1>1. ASSUME NEW f \in flows, SkipInfra(f) PROVE OtherTypes'
  BY <1>1 DEF SkipInfra, OtherTypes
<1>2. ASSUME NEW f \in flows, HandleFlow(f) PROVE OtherTypes'
  <2>1. alerts' = {r \in Rule : Raised(r, f)} /\ isolated' = isolated /\ clock' = clock
    BY <1>2 DEF HandleFlow
  <2>2. alerts' \subseteq Rule
    BY <2>1
  <2> QED
    BY <2>1, <2>2 DEF OtherTypes
<1>3. ASSUME NEW h \in Host, RecordIsolation(h) PROVE OtherTypes'
  BY <1>3, DetectorNumbers DEF RecordIsolation, OtherTypes
<1>4. ASSUME NEW recs \in Advice, ApplyThresholdUpdates(recs) PROVE OtherTypes'
  BY <1>4 DEF ApplyThresholdUpdates, OtherTypes
<1>5. ASSUME Tick PROVE OtherTypes'
  <2>1. isolated' = {[i EXCEPT !.age = Upto(@, Grace + 1)] : i \in isolated}
    BY <1>5 DEF Tick
  <2>2. ASSUME NEW i \in isolated
        PROVE  [i EXCEPT !.age = Upto(@, Grace + 1)] \in [src : Host, age : 0..Grace + 1]
    <3>1. i \in [src : Host, age : 0..Grace + 1]
      BY DEF OtherTypes
    <3>2. Upto(i.age, Grace + 1) \in 0..Grace + 1
      BY <3>1, DetectorNumbers DEF Upto
    <3> QED
      BY <3>1, <3>2
  <2> QED
    BY <1>5, <2>1, <2>2 DEF Tick, OtherTypes
<1>6. ASSUME UNCHANGED vars PROVE OtherTypes'
  BY <1>6 DEF vars, OtherTypes
<1> QED
  BY <1>1, <1>2, <1>3, <1>4, <1>5, <1>6 DEF Next

LEMMA WindowsAreSmall ==
  ASSUME DetectorAssumption, WindowInv, NEW s \in DOMAIN deque
  PROVE  /\ s[1] \in WindowRule
         /\ Len(deque[s]) <= Cap[s[1]]
         /\ \A i \in DOMAIN deque[s] : deque[s][i].age \in 0..Window[s[1]]
<1> DEFINE d == deque[s]
           h == seen[s]
           n == Cap[s[1]]
           w == Window[s[1]]
<1>1. s[1] \in WindowRule /\ Trails(d, h, n, w, Logged)
  BY DEF WindowInv
<1>2. w \in Nat /\ n \in Nat \ {0}
  BY <1>1, DetectorNumbers
<1> HIDE DEF d, h, n, w
<1>3. Len(d) <= n /\ NoneOlder(d, w) /\ d \in Seq(Logged)
  BY <1>1, <1>2, TrailsNoneOlder DEF Trails
<1>4. ASSUME NEW i \in DOMAIN d PROVE d[i].age \in 0..w
  <2>1. d[i] \in Logged /\ d[i].age <= w
    BY <1>3 DEF NoneOlder
  <2> QED
    BY <1>2, <2>1 DEF Logged
<1> QED
  BY <1>1, <1>3, <1>4 DEF d, n, w

\* The deques of the rules stay within maxlen, and the sets of the slow scan, the
\* isolations, the thresholds and the cooldowns keep their types.
THEOREM DetectorTypeCorrect == ASSUME DetectorAssumption PROVE Spec => []TypeOK
<1>1. Init => OtherTypes
  BY DEF Init, OtherTypes
<1>2. Spec => []OtherTypes
  BY <1>1, OtherTypesNext, PTL DEF Spec
<1>3. WindowInv /\ SlowInv /\ OtherTypes => TypeOK
  <2> SUFFICES ASSUME WindowInv, SlowInv, OtherTypes PROVE TypeOK
    OBVIOUS
  <2>1. DOMAIN seen = DOMAIN deque
    BY DEF WindowInv
  <2>2. daily \in SUBSET [src : Host, ports : SUBSET Nat, age : 0..SlowWindow + 1]
    BY DEF SlowInv, DailyTypes
  <2>3. thr \in [Tuned -> Nat] /\ \A x \in fired : x.rule \in Rule /\ x.age \in 0..Horizon(x)
    BY DEF SlowInv, ThresholdInv, FiredInv, IsAlert
  <2> QED
    BY <2>1, <2>2, <2>3, WindowsAreSmall DEF OtherTypes, TypeOK
<1> QED
  BY <1>2, <1>3, DetectorInvariance, PTL

-----------------------------------------------------------------------------
(* The detecting side.                                                     *)

LEMMA SiteSteps ==
  ASSUME [SiteNext]_siteVars
  PROVE  /\ [RiskNext]_riskVars /\ [Next]_vars /\ [BaselineNext]_baselineVars
         /\ [TriageNext]_triageVars /\ [SensorNext]_sensorVars /\ [AgentNext]_agentVars
         /\ [FireNext]_fireVars /\ [CardNext]_cardVars /\ [TravelNext]_travelVars
BY DEF SiteNext, siteVars

\* A behaviour of the detecting side is a behaviour of each of its components
\* (the agents and managers run as processes of their own and share no state).
THEOREM SiteIsItsComponents ==
    SiteSpec => /\ RiskSpec /\ Spec /\ BaselineSpec /\ TriageSpec /\ WatchSpec
                /\ FireSpec /\ CardSpec /\ TravelSpec
<1>1. SiteInit => /\ RiskInit /\ Init /\ BaselineInit /\ TriageInit /\ SensorInit /\ AgentInit
                  /\ FireInit /\ CardInit /\ TravelInit
  BY DEF SiteInit
<1>2. [SiteNext]_siteVars =>
         /\ [RiskNext]_riskVars /\ [Next]_vars /\ [BaselineNext]_baselineVars
         /\ [TriageNext]_triageVars /\ [SensorNext]_sensorVars /\ [AgentNext]_agentVars
         /\ [FireNext]_fireVars /\ [CardNext]_cardVars /\ [TravelNext]_travelVars
  BY SiteSteps
<1> QED
  BY <1>1, <1>2, PTL
     DEF SiteSpec, RiskSpec, Spec, BaselineSpec, TriageSpec, WatchSpec, FireSpec, CardSpec,
         TravelSpec

\* Every component's state keeps its types and bounds, among them that no deque
\* outgrows its maxlen and no age the window that looks at it.
THEOREM SiteTypeCorrect == SiteSpec => []SiteTypeOK
<1>1. /\ SiteSpec => []RiskTypeOK /\ []TypeOK /\ []BaselineTypeOK
      /\ SiteSpec => []TriageTypeOK /\ [](SensorTypeOK /\ AgentTypeOK)
      /\ SiteSpec => []FireTypeOK /\ []CardTypeOK /\ []TravelTypeOK
  BY SiteAssumption, SiteIsItsComponents, RiskTypeCorrect, DetectorTypeCorrect,
     BaselineTypeCorrect, TriageTypeCorrect, WatchTypeCorrect, FireTypeCorrect,
     CardTypeCorrect, TravelTypeCorrect
<1>2. RiskTypeOK /\ TypeOK /\ BaselineTypeOK /\ TriageTypeOK /\ (SensorTypeOK /\ AgentTypeOK)
         /\ FireTypeOK /\ CardTypeOK /\ TravelTypeOK => SiteTypeOK
  BY DEF SiteTypeOK
<1> QED
  BY <1>1, <1>2, PTL

\* An attack that reaches its threshold is reported, by the rules over flows, by the
\* checks of one card's events and by the comparison of its places (handle_flow and
\* the _check_* methods, handle_event of the two access agents).
THEOREM AttacksAreAlerted == SiteSpec => AttackIsAlerted
BY SiteAssumption, SiteIsItsComponents, FlowAttackReported, CardAttackReported, TravelReported
   DEF AttackIsAlerted

=============================================================================
