----------------------------- MODULE TimedProofs ------------------------------
(***************************************************************************)
(* Proofs about TimedEngine for any rate, any length of a second and any   *)
(* number of hosts and threads.                                            *)
(***************************************************************************)
EXTENDS TimedEngine, FiniteSetTheorems, SequenceTheorems, WellFoundedInduction, TLAPS

\* The whole seconds in a time are the multiple of a second just below it.
LEMMA DivBounds ==
  ASSUME NEW x \in Nat, NEW s \in Nat, s > 0
  PROVE  /\ x \div s \in Nat
         /\ s * (x \div s) <= x /\ x < s * (x \div s) + s
OBVIOUS

\* Multiplication keeps and reflects the order.
LEMMA Factors ==
  ASSUME NEW a \in Int, NEW b \in Int, NEW s \in Nat, s > 0
  PROVE  s * a < s * b => a < b
OBVIOUS

\* Two ticks less than a second apart lie in the same or in adjacent seconds.
LEMMA AdjacentSeconds ==
  ASSUME NEW from \in Nat, NEW x \in from .. from + Second - 1
  PROVE  SecondOf(x) \in {SecondOf(from), SecondOf(from) + 1}
<1> DEFINE d == SecondOf(from)
           e == SecondOf(x)
<1>0. Second \in Nat /\ Second > 0 /\ x \in Nat /\ from <= x /\ x <= from + Second - 1
  BY TimedAssumption
<1>1. /\ d \in Nat /\ Second * d <= from /\ from < Second * d + Second
      /\ e \in Nat /\ Second * e <= x /\ x < Second * e + Second
  BY <1>0, DivBounds DEF SecondOf
<1> HIDE DEF d, e
<1>2. Second * d + Second = Second * (d + 1) /\ Second * (d + 1) + Second = Second * (d + 2)
      /\ Second * e + Second = Second * (e + 1)
  BY <1>0, <1>1
<1>3. Second * e < Second * (d + 2) /\ Second * d < Second * (e + 1)
  <2> DEFINE D == Second * d
             E == Second * e
  <2>1. D \in Int /\ E \in Int
    BY <1>0, <1>1
  <2>2. E < (D + Second) + Second /\ D < E + Second
    <3> HIDE DEF D, E
    <3>1. D <= from /\ from < D + Second /\ E <= x /\ x < E + Second
      BY <1>1 DEF D, E
    <3> QED
      BY <1>0, <2>1, <3>1
  <2> QED
    BY <1>2, <2>2
<1>4. e < d + 2 /\ d < e + 1
  BY <1>0, <1>1, <1>3, Factors
<1> QED
  BY <1>1, <1>4 DEF d, e

-----------------------------------------------------------------------------
(* The limiter.                                                            *)

BucketType == [second : Nat, count : Nat]

\* The queries of a host let through in one second.
InSecond(h, s) == {i \in DOMAIN granted[h] : SecondOf(granted[h][i]) = s}

\* What a host was granted lies in the past, not after the second its bucket
\* counts; the bucket counts all of that second; no second has more than the
\* rate; and a second in which it was refused has no less.
HostInv(h) ==
  /\ buckets[h] \in BucketType
  /\ buckets[h].second <= SecondOf(now)
  /\ granted[h] \in Seq(Nat)
  /\ \A i \in DOMAIN granted[h] : SecondOf(granted[h][i]) <= buckets[h].second
  /\ \A s \in Nat : IsFiniteSet(InSecond(h, s)) /\ Cardinality(InSecond(h, s)) <= Rate
  /\ Cardinality(InSecond(h, buckets[h].second)) = buckets[h].count
  /\ \A s \in Nat : <<h, s>> \in refused =>
       Cardinality(InSecond(h, s)) = Rate /\ s <= buckets[h].second

LimiterInv ==
  Rate > 0 => /\ now \in Nat
              /\ buckets \in [Hosts -> BucketType]
              /\ granted \in [Hosts -> Seq(Nat)]
              /\ \A h \in Hosts : HostInv(h)

\* The clock's ticks belong to seconds that never go back.
LEMMA SecondsType ==
  ASSUME NEW x \in Nat
  PROVE  SecondOf(x) \in Nat /\ SecondOf(x) <= SecondOf(x + 1)
<1>1. Second \in Nat /\ Second > 0 /\ x \in x .. x + Second - 1
  BY TimedAssumption
<1>2. SecondOf(x) \in Nat /\ SecondOf(x + 1) \in Nat
  BY <1>1, DivBounds DEF SecondOf
<1>3. CASE Second = 1
  <2>1. x \div 1 = x /\ (x + 1) \div 1 = x + 1
    OBVIOUS
  <2> QED
    BY <1>3, <2>1 DEF SecondOf
<1>4. CASE Second > 1
  <2>1. x + 1 \in x .. x + Second - 1
    BY <1>1, <1>4
  <2>2. SecondOf(x + 1) \in {SecondOf(x), SecondOf(x) + 1}
    BY <2>1, AdjacentSeconds
  <2> QED
    BY <1>2, <2>2
<1> QED
  BY <1>1, <1>3, <1>4

\* The bucket as allow finds it counts what was let through in this second.
LEMMA CurrentCounts ==
  ASSUME now \in Nat, NEW h \in Hosts, HostInv(h)
  PROVE  /\ Current(h) \in BucketType
         /\ Current(h).second = SecondOf(now)
         /\ Current(h).count = Cardinality(InSecond(h, SecondOf(now)))
<1>0. SecondOf(now) \in Nat /\ buckets[h] \in BucketType
  BY SecondsType DEF HostInv
<1>1. CASE buckets[h].second = SecondOf(now)
  BY <1>0, <1>1 DEF HostInv, Current
<1>2. CASE buckets[h].second # SecondOf(now)
  <2>1. Current(h) = [second |-> SecondOf(now), count |-> 0]
    BY <1>2 DEF Current
  <2>2. buckets[h].second < SecondOf(now)
    BY <1>0, <1>2 DEF HostInv, BucketType
  <2>3. InSecond(h, SecondOf(now)) = {}
    <3>1. ASSUME NEW i \in DOMAIN granted[h] PROVE SecondOf(granted[h][i]) # SecondOf(now)
      <4>1. granted[h][i] \in Nat /\ SecondOf(granted[h][i]) <= buckets[h].second
        BY DEF HostInv
      <4>2. SecondOf(granted[h][i]) \in Nat
        BY <4>1, SecondsType
      <4> QED
        BY <1>0, <2>2, <4>1, <4>2 DEF BucketType
    <3> QED
      BY <3>1 DEF InSecond
  <2> QED
    BY <1>0, <2>1, <2>3, FS_EmptySet DEF BucketType
<1> QED
  BY <1>1, <1>2

\* A host that takes no part in a step keeps its account, and so does every
\* host when the clock moves.
LEMMA AccountKept ==
  ASSUME now \in Nat, NEW h \in Hosts, HostInv(h),
         now' \in Nat, SecondOf(now) <= SecondOf(now'),
         buckets'[h] = buckets[h], granted'[h] = granted[h],
         \A s : <<h, s>> \in refused' => <<h, s>> \in refused
  PROVE  HostInv(h)'
<1>1. SecondOf(now) \in Nat /\ SecondOf(now') \in Nat
  BY SecondsType
<1>2. \A s : InSecond(h, s)' = InSecond(h, s)
  BY DEF InSecond
<1>3. buckets[h].second \in Nat
  BY DEF HostInv, BucketType
<1> QED
  BY <1>1, <1>2, <1>3 DEF HostInv

\* A query that is let through is counted in its second and in no other.
LEMMA AllowKeepsAccount ==
  ASSUME Rate > 0, LimiterInv, NEW t \in Threads, NEW h \in Hosts, NEW k \in Keys,
         Allow(t, h, k)
  PROVE  HostInv(h)'
<1>. PICK s0 \in Nat : s0 = SecondOf(now)
  BY SecondsType DEF LimiterInv
<1> DEFINE new == Len(granted[h]) + 1
<1>0. /\ now \in Nat /\ now' = now /\ HostInv(h) /\ s0 \in Nat /\ refused' = refused
      /\ Rate \in Nat
  BY TimedAssumption DEF LimiterInv, Allow
<1>1. /\ Current(h) \in BucketType /\ Current(h).second = s0
      /\ Current(h).count = Cardinality(InSecond(h, s0)) /\ Current(h).count < Rate
  BY <1>0, CurrentCounts DEF Allow
<1>2. buckets'[h] = [second |-> s0, count |-> Current(h).count + 1]
  <2> DEFINE b == [Current(h) EXCEPT !.count = @ + 1]
  <2>1. b = [second |-> s0, count |-> Current(h).count + 1]
    BY <1>1 DEF BucketType
  <2>2. buckets' = [buckets EXCEPT ![h] = b] /\ buckets \in [Hosts -> BucketType]
    BY <1>0 DEF Allow, LimiterInv
  <2> HIDE DEF b
  <2>3. buckets'[h] = b
    BY <2>2
  <2> QED
    BY <2>1, <2>3
<1>3. /\ granted'[h] = Append(granted[h], now) /\ granted'[h] \in Seq(Nat)
      /\ DOMAIN granted'[h] = DOMAIN granted[h] \cup {new} /\ new \notin DOMAIN granted[h]
      /\ granted'[h][new] = now
      /\ \A i \in DOMAIN granted[h] : granted'[h][i] = granted[h][i]
  <2>1. granted'[h] = Append(granted[h], now) /\ granted[h] \in Seq(Nat)
    BY DEF Allow, LimiterInv
  <2> QED
    BY <1>0, <2>1
<1> HIDE DEF new
<1>n. SecondOf(granted'[h][new]) = s0
  BY <1>3
<1>4. InSecond(h, s0)' = InSecond(h, s0) \cup {new} /\ new \notin InSecond(h, s0)
  BY <1>3, <1>n DEF InSecond
<1>5. \A s \in Nat \ {s0} : InSecond(h, s)' = InSecond(h, s)
  BY <1>3, <1>n DEF InSecond
<1>6. /\ IsFiniteSet(InSecond(h, s0)')
      /\ Cardinality(InSecond(h, s0)') = Cardinality(InSecond(h, s0)) + 1
  <2>1. IsFiniteSet(InSecond(h, s0))
    BY <1>0 DEF HostInv
  <2>2. \A S, x : IsFiniteSet(S) /\ x \notin S =>
          IsFiniteSet(S \cup {x}) /\ Cardinality(S \cup {x}) = Cardinality(S) + 1
    BY FS_AddElement
  <2> QED
    BY <1>4, <2>1, <2>2
<1>7. buckets'[h] \in BucketType /\ buckets'[h].second = s0
      /\ buckets'[h].count = Current(h).count + 1
  BY <1>0, <1>1, <1>2 DEF BucketType
<1>8. /\ \A i \in DOMAIN granted[h] : SecondOf(granted[h][i]) <= s0
      /\ <<h, s0>> \notin refused
      /\ \A s \in Nat : <<h, s>> \in refused => s <= s0
  <2>1. buckets[h].second \in Nat /\ buckets[h].second <= s0
    BY <1>0 DEF HostInv, BucketType
  <2>2. \A i \in DOMAIN granted[h] :
          SecondOf(granted[h][i]) \in Nat /\ SecondOf(granted[h][i]) <= buckets[h].second
    <3>1. \A i \in DOMAIN granted[h] : granted[h][i] \in Nat
      BY <1>0 DEF HostInv
    <3> QED
      BY <1>0, <3>1, SecondsType DEF HostInv
  <2>3. <<h, s0>> \in refused => Cardinality(InSecond(h, s0)) = Rate
    BY <1>0 DEF HostInv
  <2>4. <<h, s0>> \notin refused
    BY <1>0, <1>1, <2>3
  <2>5. \A s \in Nat : <<h, s>> \in refused => s <= s0
    BY <1>0, <2>1 DEF HostInv
  <2> QED
    BY <1>0, <2>1, <2>2, <2>4, <2>5
<1>9. \A s \in Nat : /\ IsFiniteSet(InSecond(h, s)') /\ Cardinality(InSecond(h, s)') <= Rate
                     /\ <<h, s>> \in refused' => Cardinality(InSecond(h, s)') = Rate /\ s <= s0
  <2> SUFFICES ASSUME NEW s \in Nat
               PROVE  /\ IsFiniteSet(InSecond(h, s)') /\ Cardinality(InSecond(h, s)') <= Rate
                      /\ <<h, s>> \in refused' => Cardinality(InSecond(h, s)') = Rate /\ s <= s0
    OBVIOUS
  <2>1. CASE s = s0
    <3>1. Current(h).count \in Nat
      BY <1>1 DEF BucketType
    <3> QED
      BY <1>0, <1>1, <1>6, <1>8, <2>1, <3>1
  <2>2. CASE s # s0
    BY <1>0, <1>5, <1>8, <2>2 DEF HostInv
  <2> QED
    BY <2>1, <2>2
<1>10. \A i \in DOMAIN granted'[h] : SecondOf(granted'[h][i]) <= s0
  BY <1>0, <1>3, <1>8
<1>11. Cardinality(InSecond(h, s0)') = buckets'[h].count
  BY <1>1, <1>6, <1>7
<1>12. SecondOf(now') = s0
  BY <1>0
<1> QED
  BY <1>0, <1>3, <1>7, <1>9, <1>10, <1>11, <1>12 DEF HostInv

\* A query that is refused finds its second full, and leaves the account so.
LEMMA RefuseKeepsAccount ==
  ASSUME Rate > 0, LimiterInv, NEW t \in Threads, NEW h \in Hosts, Refuse(t, h)
  PROVE  HostInv(h)'
<1>. PICK s0 \in Nat : s0 = SecondOf(now)
  BY SecondsType DEF LimiterInv
<1>0. /\ now \in Nat /\ now' = now /\ HostInv(h) /\ granted' = granted
      /\ refused' = refused \cup {<<h, s0>>} /\ Rate \in Nat
  BY TimedAssumption DEF LimiterInv, Refuse
<1>1. /\ Current(h) \in BucketType /\ Current(h).second = s0
      /\ Current(h).count = Cardinality(InSecond(h, s0)) /\ Current(h).count >= Rate
  BY <1>0, CurrentCounts DEF Refuse
<1>2. buckets'[h] = Current(h)
  BY DEF Refuse, LimiterInv
<1>3. \A s : InSecond(h, s)' = InSecond(h, s)
  BY <1>0 DEF InSecond
<1>4. Cardinality(InSecond(h, s0)) = Rate
  <2>1. Cardinality(InSecond(h, s0)) <= Rate
    BY <1>0 DEF HostInv
  <2>2. Current(h).count \in Nat
    BY <1>1 DEF BucketType
  <2> QED
    BY <1>0, <1>1, <2>1, <2>2
<1>5. buckets[h].second \in Nat /\ buckets[h].second <= s0
  BY <1>0 DEF HostInv, BucketType
<1>6. \A i \in DOMAIN granted[h] : SecondOf(granted[h][i]) <= s0
  <2>1. \A i \in DOMAIN granted[h] : SecondOf(granted[h][i]) \in Nat
    <3>1. \A i \in DOMAIN granted[h] : granted[h][i] \in Nat
      BY <1>0 DEF HostInv
    <3> QED
      BY <3>1, SecondsType
  <2> QED
    BY <1>0, <1>5, <2>1 DEF HostInv
<1>7. \A s \in Nat : <<h, s>> \in refused' => Cardinality(InSecond(h, s)) = Rate /\ s <= s0
  BY <1>0, <1>4, <1>5 DEF HostInv
<1> QED
  BY <1>0, <1>1, <1>2, <1>3, <1>6, <1>7 DEF HostInv

\* The accounts are right in the initial state and after every step.
LEMMA LimiterInvariant == Spec => []LimiterInv
<1>1. Init => LimiterInv
  <2> SUFFICES ASSUME Init, Rate > 0 PROVE LimiterInv
    BY DEF LimiterInv
  <2>1. now = 0 /\ SecondOf(now) \in Nat
    <3>1. now = 0
      BY DEF Init
    <3> QED
      BY <3>1, SecondsType
  <2>2. DOMAIN << >> = {} /\ << >> \in Seq(Nat)
    OBVIOUS
  <2>3. ASSUME NEW h \in Hosts PROVE HostInv(h)
    <3>1. granted[h] = << >> /\ refused = {} /\ buckets[h] = [second |-> 0, count |-> 0]
      BY DEF Init
    <3>2. \A s : InSecond(h, s) = {}
      BY <2>2, <3>1 DEF InSecond
    <3>3. buckets[h] \in BucketType /\ buckets[h].second = 0 /\ buckets[h].count = 0
      BY <3>1 DEF BucketType
    <3>4. IsFiniteSet({}) /\ Cardinality({}) = 0 /\ Rate \in Nat
      BY FS_EmptySet, TimedAssumption
    <3>5. granted[h] \in Seq(Nat) /\ DOMAIN granted[h] = {}
      BY <2>2, <3>1
    <3>6. buckets[h].second <= SecondOf(now)
      BY <2>1, <3>3
    <3>7. 0 <= Rate
      BY <3>4
    <3> QED
      BY <3>1, <3>2, <3>3, <3>4, <3>5, <3>6, <3>7, Zenon DEF HostInv
  <2>4. buckets \in [Hosts -> BucketType] /\ granted \in [Hosts -> Seq(Nat)]
    <3>1. [second |-> 0, count |-> 0] \in BucketType
      BY DEF BucketType
    <3> QED
      BY <2>2, <3>1 DEF Init
  <2> QED
    BY <2>1, <2>3, <2>4 DEF LimiterInv
<1>2. LimiterInv /\ [Next]_vars => LimiterInv'
  <2> SUFFICES ASSUME LimiterInv, [Next]_vars, Rate > 0 PROVE LimiterInv'
    BY DEF LimiterInv
  <2>0. /\ now \in Nat /\ buckets \in [Hosts -> BucketType]
        /\ granted \in [Hosts -> Seq(Nat)] /\ \A h \in Hosts : HostInv(h)
    BY DEF LimiterInv
  <2>1. CASE Tick
    <3>1. /\ now' = now + 1 /\ now' \in Nat
          /\ UNCHANGED <<buckets, granted, refused>>
      BY <2>0, <2>1 DEF Tick
    <3>2. SecondOf(now) <= SecondOf(now')
      BY <2>0, <3>1, SecondsType
    <3> QED
      BY <2>0, <3>1, <3>2, AccountKept DEF LimiterInv
  <2>2. ASSUME UNCHANGED <<now, buckets, granted, refused>> PROVE LimiterInv'
    <3>1. SecondOf(now) <= SecondOf(now)
      BY <2>0, SecondsType
    <3> QED
      BY <2>0, <2>2, <3>1, AccountKept DEF LimiterInv
  <2>3. CASE Invalidate \/ (\E t \in Threads : Hit(t) \/ Miss(t) \/ Put(t)) \/ UNCHANGED vars
    BY <2>2, <2>3 DEF Invalidate, Hit, Miss, Put, vars
  <2>4. ASSUME NEW t \in Threads, NEW h \in Hosts, Refuse(t, h) PROVE LimiterInv'
    <3>1. HostInv(h)'
      BY <2>4, RefuseKeepsAccount
    <3>2. /\ UNCHANGED <<now, granted>> /\ buckets' = [buckets EXCEPT ![h] = Current(h)]
          /\ refused' = refused \cup {<<h, SecondOf(now)>>} /\ Current(h) \in BucketType
      BY <2>0, <2>4, CurrentCounts DEF Refuse
    <3>3. SecondOf(now) <= SecondOf(now)
      BY <2>0, SecondsType
    <3>4. \A o \in Hosts \ {h} : HostInv(o)'
      BY <2>0, <3>2, <3>3, AccountKept
    <3> QED
      BY <2>0, <3>1, <3>2, <3>4 DEF LimiterInv
  <2>5. ASSUME NEW t \in Threads, NEW h \in Hosts, NEW k \in Keys, Allow(t, h, k)
        PROVE  LimiterInv'
    <3>1. HostInv(h)'
      BY <2>5, AllowKeepsAccount
    <3> DEFINE b == [Current(h) EXCEPT !.count = @ + 1]
    <3>2. b \in BucketType
      BY <2>0, CurrentCounts DEF BucketType
    <3>3. /\ UNCHANGED <<now, refused>> /\ buckets' = [buckets EXCEPT ![h] = b]
          /\ granted' = [granted EXCEPT ![h] = Append(@, now)]
      BY <2>5, TimedAssumption DEF Allow
    <3> HIDE DEF b
    <3>4. SecondOf(now) <= SecondOf(now)
      BY <2>0, SecondsType
    <3>5. \A o \in Hosts \ {h} : HostInv(o)'
      BY <2>0, <3>3, <3>4, AccountKept
    <3> QED
      BY <2>0, <3>1, <3>2, <3>3, <3>5 DEF LimiterInv
  <2> QED
    BY <2>1, <2>3, <2>4, <2>5 DEF Next
<1> QED
  BY <1>1, <1>2, PTL DEF Spec

\* Whatever second one takes, a host is let through at most twice the rate in
\* it: once the rate in each of the calendar seconds it touches.
THEOREM TwiceTheRateAtMost == Spec => []NeverTwiceTheRate
<1>1. LimiterInv => NeverTwiceTheRate
  <2> SUFFICES ASSUME LimiterInv, Rate > 0, NEW h \in Hosts, NEW from \in 0 .. MaxTime
               PROVE  Cardinality(Granted(h, from, from + Second - 1)) <= 2 * Rate
    BY DEF NeverTwiceTheRate
  <2> DEFINE G == Granted(h, from, from + Second - 1)
             A == InSecond(h, SecondOf(from))
             B == InSecond(h, SecondOf(from) + 1)
  <2>1. from \in Nat /\ Second \in Nat /\ Rate \in Nat /\ SecondOf(from) \in Nat
    BY SecondsType, TimedAssumption
  <2>2. G \subseteq A \cup B
    BY <2>1, AdjacentSeconds DEF Granted, InSecond
  <2>3. IsFiniteSet(A) /\ IsFiniteSet(B) /\ Cardinality(A) <= Rate /\ Cardinality(B) <= Rate
    BY <2>1 DEF LimiterInv, HostInv
  <2> HIDE DEF G, A, B
  <2>4. IsFiniteSet(A \cup B) /\ IsFiniteSet(A \cap B)
        /\ Cardinality(A \cup B) = Cardinality(A) + Cardinality(B) - Cardinality(A \cap B)
    BY <2>3, FS_Union, FS_Intersection
  <2>5. IsFiniteSet(G) /\ Cardinality(G) <= Cardinality(A \cup B)
    BY <2>2, <2>4, FS_Subset
  <2>6. Cardinality(A) \in Nat /\ Cardinality(B) \in Nat /\ Cardinality(G) \in Nat
        /\ Cardinality(A \cap B) \in Nat /\ Cardinality(A \cup B) \in Nat
    BY <2>3, <2>4, <2>5, FS_CardinalityType
  <2>7. Cardinality(G) <= 2 * Rate
    BY <2>1, <2>3, <2>4, <2>5, <2>6
  <2> QED
    BY <2>7 DEF G
<1> QED
  BY <1>1, LimiterInvariant, PTL

\* The ticks of a second are the ones from its multiple of Second on.
LEMMA TicksOfSecond ==
  ASSUME NEW x \in Nat, NEW s \in Nat
  PROVE  SecondOf(x) = s <=> x \in s * Second .. s * Second + Second - 1
<1> DEFINE e == SecondOf(x)
<1>0. Second \in Nat /\ Second > 0
  BY TimedAssumption
<1>1. e \in Nat /\ Second * e <= x /\ x < Second * e + Second
  BY <1>0, DivBounds DEF SecondOf
<1> HIDE DEF e
<1>2. CASE e = s
  <2>1. Second * e = s * Second /\ Second * e \in Nat
    BY <1>0, <1>1, <1>2
  <2> DEFINE m == s * Second
  <2>2. m \in Nat /\ m <= x /\ x < m + Second
    BY <1>1, <2>1
  <2> HIDE DEF m
  <2>3. x \in m .. m + Second - 1
    BY <1>0, <2>2
  <2> QED
    BY <1>2, <2>3 DEF m, e
<1>3. CASE x \in s * Second .. s * Second + Second - 1
  <2> DEFINE m == Second * s
             n == Second * e
  <2>1. m = s * Second /\ m \in Nat /\ n \in Nat
    BY <1>0, <1>1
  <2>2. m <= x /\ x <= m + Second - 1 /\ n <= x /\ x < n + Second
    BY <1>1, <1>3, <2>1
  <2>3. Second * (s + 1) = m + Second /\ Second * (e + 1) = n + Second
    BY <1>0, <1>1
  <2> HIDE DEF m, n
  <2>4. n < m + Second /\ m < n + Second
    BY <1>0, <2>1, <2>2
  <2>5. Second * e < Second * (s + 1) /\ Second * s < Second * (e + 1)
    BY <2>3, <2>4 DEF m, n
  <2>6. e < s + 1 /\ s < e + 1
    BY <1>0, <1>1, <2>5, Factors
  <2> QED
    BY <1>1, <1>3, <2>6 DEF e
<1> QED
  BY <1>2, <1>3 DEF e

\* No query is refused while its host has not had the rate of that second,
\* whatever other hosts ask.
THEOREM RefusalsAtTheRate == Spec => []RefusedAtTheRate
<1> DEFINE NoneRefused == Rate = 0 => refused = {}
<1>1. LimiterInv /\ NoneRefused => RefusedAtTheRate
  <2> SUFFICES ASSUME LimiterInv, NoneRefused,
                      NEW h \in Hosts, NEW second \in 0 .. SecondOf(MaxTime),
                      <<h, second>> \in refused
               PROVE  Cardinality(Granted(h, second * Second, second * Second + Second - 1)) = Rate
    BY DEF RefusedAtTheRate
  <2>1. second \in Nat /\ HostInv(h)
    <3>1. SecondOf(MaxTime) \in Nat /\ Rate > 0
      BY SecondsType, TimedAssumption
    <3> QED
      BY <3>1 DEF LimiterInv
  <2>2. \A i \in DOMAIN granted[h] : granted[h][i] \in Nat
    BY <2>1 DEF HostInv
  <2>3. Granted(h, second * Second, second * Second + Second - 1) = InSecond(h, second)
    BY <2>1, <2>2, TicksOfSecond DEF Granted, InSecond
  <2> QED
    BY <2>1, <2>3 DEF HostInv
<1>2. Init => NoneRefused
  BY DEF Init
<1>3. NoneRefused /\ [Next]_vars => NoneRefused'
  <2>1. ASSUME NEW t \in Threads, NEW h \in Hosts, Refuse(t, h) PROVE Rate > 0
    BY <2>1 DEF Refuse
  <2>2. ASSUME NEW t \in Threads, NEW h \in Hosts, NEW k \in Keys, Allow(t, h, k)
        PROVE  refused' = refused
    BY <2>2 DEF Allow
  <2>3. ASSUME NEW t \in Threads, Hit(t) \/ Miss(t) \/ Put(t) PROVE refused' = refused
    BY <2>3 DEF Hit, Miss, Put
  <2>4. CASE Tick \/ Invalidate \/ UNCHANGED vars
    BY <2>4 DEF Tick, Invalidate, vars
  <2> QED
    BY <2>1, <2>2, <2>3, <2>4 DEF Next
<1> HIDE DEF NoneRefused
<1> QED
  BY <1>1, <1>2, <1>3, LimiterInvariant, PTL DEF Spec

-----------------------------------------------------------------------------
(* Recursion along a sequence, which FoldLeft is, without an operator as a *)
(* parameter.                                                              *)

\* Induction over the numbers, for a set that holds 0 and with each number the next.
LEMMA NatsBySteps ==
  ASSUME NEW S, 0 \in S, \A n \in Nat : n \in S => n + 1 \in S
  PROVE  Nat \subseteq S
<1> DEFINE Out == Nat \ S
<1>1. SUFFICES ASSUME Out # {} PROVE FALSE
  OBVIOUS
<1>2. PICK m \in Out : \A k \in Out : ~(<<k, m>> \in OpToRel(<, Nat))
  <2>1. IsWellFoundedOn(OpToRel(<, Nat), Nat)
    BY NatLessThanWellFounded
  <2> HIDE DEF Out
  <2>2. Out \subseteq Nat
    BY DEF Out
  <2> QED
    BY <1>1, <2>1, <2>2, WFMin
<1>3. m # 0 /\ m - 1 \in Nat /\ m - 1 \notin Out
  <2>1. m \in Nat /\ m # 0
    OBVIOUS
  <2>2. m - 1 \in Nat /\ <<m - 1, m>> \in OpToRel(<, Nat)
    BY <2>1 DEF OpToRel
  <2> QED
    BY <1>2, <2>1, <2>2
<1> QED
  BY <1>3

\* The largest of the first k positions is k.
LEMMA LastOfPrefix ==
  ASSUME NEW k \in Nat, NEW s \in SUBSET (1 .. k + 1), k + 1 \in s
  PROVE  Max(s) = k + 1 /\ s \ {Max(s)} \in SUBSET (1 .. k)
<1>1. \A y \in s : y \in Int /\ k + 1 >= y
  OBVIOUS
<1>2. \A x \in s : (\A y \in s : x >= y) => x = k + 1
  <2> TAKE x \in s
  <2> HAVE \A y \in s : x >= y
  <2>1. x >= k + 1 /\ k + 1 >= x /\ x \in Int
    BY <1>1
  <2> QED
    BY <2>1
<1>3. Max(s) = k + 1
  <2>1. Max(s) \in s /\ \A y \in s : Max(s) >= y
    BY <1>1 DEF Max
  <2> QED
    BY <1>2, <2>1
<1>4. s \ {k + 1} \in SUBSET (1 .. k)
  OBVIOUS
<1> QED
  BY <1>3, <1>4

\* The same for the prefixes of a sequence of length n.
LEMMA PrefixPositions ==
  ASSUME NEW n \in Nat, NEW i \in 1 .. n
  PROVE  /\ Max(1 .. i) = i /\ (1 .. i) \ {i} = 1 .. i - 1
         /\ 1 .. i \in SUBSET (1 .. n) /\ 1 .. i # {}
         /\ i - 1 \in 0 .. n /\ i \in 0 .. n
<1>1. PICK k \in Nat : k + 1 = i
  <2>1. i - 1 \in Nat /\ (i - 1) + 1 = i
    OBVIOUS
  <2> QED
    BY <2>1
<1>2. 1 .. i \in SUBSET (1 .. k + 1) /\ k + 1 \in 1 .. i
  BY <1>1
<1>3. Max(1 .. i) = k + 1
  BY <1>2, LastOfPrefix
<1>4. (1 .. i) \ {i} = 1 .. i - 1 /\ 1 .. i \in SUBSET (1 .. n) /\ 1 .. i # {}
  OBVIOUS
<1>5. i - 1 \in 0 .. n /\ i \in 0 .. n
  OBVIOUS
<1> QED
  BY <1>1, <1>3, <1>4, <1>5

\* A set of positions that is not empty has a largest.
LEMMA PrefixHasLast ==
  ASSUME NEW n \in Nat, NEW s \in SUBSET (1 .. n), s # {}
  PROVE  Max(s) \in s
<1> DEFINE S == {m \in Nat : \A r \in SUBSET (1 .. m) : r # {} => Max(r) \in r}
<1>1. 0 \in S
  <2>1. 1 .. 0 = {} /\ SUBSET {} = {{}}
    OBVIOUS
  <2> QED
    BY <2>1
<1>2. ASSUME NEW m \in Nat, m \in S PROVE m + 1 \in S
  <2>1. ASSUME NEW r \in SUBSET (1 .. m + 1), r # {} PROVE Max(r) \in r
    <3>1. CASE m + 1 \in r
      BY <3>1, LastOfPrefix
    <3>2. CASE m + 1 \notin r
      <4>1. r \in SUBSET (1 .. m)
        BY <3>2
      <4> QED
        BY <1>2, <2>1, <4>1
    <3> QED
      BY <3>1, <3>2
  <2> QED
    BY <2>1
<1>3. n \in S
  <2> HIDE DEF S
  <2> QED
    BY <1>1, <1>2, NatsBySteps
<1> QED
  BY <1>3

\* g solves the recursion that starts from base and takes, for a set of
\* positions, the largest one last.
Solves(g, n, T, base, F) ==
  /\ g \in [SUBSET (1 .. n) -> T]
  /\ \A s \in SUBSET (1 .. n) :
       g[s] = IF s = {} THEN base ELSE F[<<g[s \ {Max(s)}], Max(s)>>]

\* A recursion along the positions of a sequence, each step taking the largest
\* position away, has a solution.
LEMMA FoldExists ==
  ASSUME NEW n \in Nat, NEW T, NEW base \in T, NEW F \in [T \X (1 .. n) -> T]
  PROVE  \E g : Solves(g, n, T, base, F)
<1> DEFINE S == {m \in Nat : m <= n => \E g : Solves(g, m, T, base, F)}
<1>1. 0 \in S
  <2>1. 1 .. 0 = {} /\ SUBSET {} = {{}}
    OBVIOUS
  <2>2. Solves([s \in {{}} |-> base], 0, T, base, F)
    BY <2>1 DEF Solves
  <2> QED
    BY <2>2
<1>2. ASSUME NEW m \in Nat, m \in S PROVE m + 1 \in S
  <2>1. SUFFICES ASSUME m + 1 <= n PROVE \E g : Solves(g, m + 1, T, base, F)
    OBVIOUS
  <2>2. PICK g : Solves(g, m, T, base, F)
    <3>1. m <= n
      BY <2>1
    <3> QED
      BY <1>2, <3>1
  <2>3. SUBSET (1 .. m) \subseteq SUBSET (1 .. m + 1)
    OBVIOUS
  <2> DEFINE h == [s \in SUBSET (1 .. m + 1) |->
                     IF m + 1 \in s THEN F[<<g[s \ {m + 1}], m + 1>>] ELSE g[s]]
  <2>4. \A s \in SUBSET (1 .. m + 1) : m + 1 \notin s => s \in SUBSET (1 .. m)
    OBVIOUS
  <2>5. h \in [SUBSET (1 .. m + 1) -> T]
    <3>1. ASSUME NEW s \in SUBSET (1 .. m + 1), m + 1 \in s
          PROVE  F[<<g[s \ {m + 1}], m + 1>>] \in T
      <4>1. s \ {m + 1} \in SUBSET (1 .. m)
        OBVIOUS
      <4>2. g[s \ {m + 1}] \in T
        BY <2>2, <4>1 DEF Solves
      <4>3. m + 1 \in 1 .. n
        BY <2>1
      <4> QED
        BY <4>2, <4>3
    <3> QED
      BY <2>2, <2>4, <3>1 DEF Solves
  <2>6. ASSUME NEW s \in SUBSET (1 .. m + 1)
        PROVE  h[s] = IF s = {} THEN base ELSE F[<<h[s \ {Max(s)}], Max(s)>>]
    <3>1. CASE m + 1 \in s
      <4>1. Max(s) = m + 1 /\ s \ {Max(s)} \in SUBSET (1 .. m)
        BY <3>1, LastOfPrefix
      <4>2. h[s \ {m + 1}] = g[s \ {m + 1}]
        BY <4>1, <2>3
      <4> QED
        BY <3>1, <4>1, <4>2
    <3>2. CASE m + 1 \notin s
      <4>1. s \in SUBSET (1 .. m) /\ h[s] = g[s]
        BY <2>4, <3>2
      <4>2. g[s] = IF s = {} THEN base ELSE F[<<g[s \ {Max(s)}], Max(s)>>]
        BY <2>2, <4>1 DEF Solves
      <4>3. h[s \ {Max(s)}] = g[s \ {Max(s)}]
        BY <3>2
      <4> QED
        BY <4>1, <4>2, <4>3
    <3> QED
      BY <3>1, <3>2
  <2>7. Solves(h, m + 1, T, base, F)
    <3> HIDE DEF h
    <3> QED
      BY <2>5, <2>6 DEF Solves
  <2> QED
    BY <2>7
<1>3. n \in S
  <2> HIDE DEF S
  <2> QED
    BY <1>1, <1>2, NatsBySteps
<1> QED
  BY <1>3

-----------------------------------------------------------------------------
(* The time an answer stays in the cache.                                  *)

\* The TTL that answerCached has after the first i records of an answer.
NextTtl(ttl, next) == IF ttl = 0 \/ next < ttl THEN next ELSE ttl

\* The time an answer is kept is found record by record, from its first on.
LEMMA KeptForSteps ==
  ASSUME NEW k \in Keys, CacheTtl = 0
  PROVE  \E acc : /\ acc[0] = 0 /\ KeptFor(k) = acc[Len(Ttls[k])]
                  /\ \A i \in 1 .. Len(Ttls[k]) : acc[i] = NextTtl(acc[i - 1], Ttls[k][i])
<1> DEFINE n == Len(Ttls[k])
           F == [p \in Nat \X (1 .. n) |-> NextTtl(p[1], Ttls[k][p[2]])]
           Iter(it) == it = [s \in SUBSET (1 .. n) |->
                               IF s = {} THEN 0 ELSE NextTtl(it[s \ {Max(s)}], Ttls[k][Max(s)])]
           it == CHOOSE it : Iter(it)
<1>1. n \in Nat /\ DOMAIN Ttls[k] = 1 .. n /\ \A i \in 1 .. n : Ttls[k][i] \in Nat
  BY TimedAssumption
<1>2. KeptFor(k) = it[1 .. n]
  <2>1. CacheTtl > 0 <=> FALSE
    OBVIOUS
  <2> HIDE DEF n
  <2> QED
    BY <1>1, <2>1, Zenon DEF KeptFor, FoldLeft, MapThenFoldSet, NextTtl
<1>3. Iter(it)
  <2>1. F \in [Nat \X (1 .. n) -> Nat]
    BY <1>1 DEF NextTtl
  <2>2. PICK g : Solves(g, n, Nat, 0, F)
    <3> HIDE DEF F, n
    <3> QED
      BY <1>1, <2>1, FoldExists
  <2>3. Iter(g)
    <3>1. ASSUME NEW s \in SUBSET (1 .. n), s # {}
          PROVE  F[<<g[s \ {Max(s)}], Max(s)>>] = NextTtl(g[s \ {Max(s)}], Ttls[k][Max(s)])
      <4>1. Max(s) \in 1 .. n
        BY <1>1, <3>1, PrefixHasLast
      <4>2. g[s \ {Max(s)}] \in Nat
        BY <2>2 DEF Solves
      <4> QED
        BY <4>1, <4>2
    <3> HIDE DEF F
    <3> QED
      BY <2>2, <3>1 DEF Solves
  <2> HIDE DEF Iter
  <2> QED
    BY <2>3
<1> DEFINE acc == [i \in 0 .. n |-> it[1 .. i]]
<1>4. acc[0] = 0 /\ KeptFor(k) = acc[n]
  <2>1. 1 .. 0 = {} /\ {} \in SUBSET (1 .. n) /\ 0 \in 0 .. n /\ n \in 0 .. n
    BY <1>1
  <2>2. it[{}] = 0
    <3> HIDE DEF it
    <3> QED
      BY <1>3, <2>1
  <2> HIDE DEF it
  <2> QED
    BY <1>2, <2>1, <2>2
<1>5. ASSUME NEW i \in 1 .. n PROVE acc[i] = NextTtl(acc[i - 1], Ttls[k][i])
  <2>1. /\ Max(1 .. i) = i /\ (1 .. i) \ {i} = 1 .. i - 1
        /\ 1 .. i \in SUBSET (1 .. n) /\ 1 .. i # {}
        /\ i - 1 \in 0 .. n /\ i \in 0 .. n
    BY <1>1, PrefixPositions
  <2> HIDE DEF it
  <2>2. it[1 .. i] = NextTtl(it[1 .. i - 1], Ttls[k][i])
    BY <1>3, <2>1
  <2> QED
    BY <2>1, <2>2
<1> HIDE DEF acc
<1> QED
  BY <1>4, <1>5

\* What is kept at all is kept for no longer than any TTL of the answer, if none
\* is 0; an answer without records, or whose last TTL is 0, is not kept.
LEMMA KeptForTheLeast ==
  ASSUME NEW k \in Keys, CacheTtl = 0, KeptFor(k) # 0
  PROVE  /\ KeptFor(k) \in Nat
         /\ Ttls[k][Len(Ttls[k])] # 0
         /\ (\A i \in DOMAIN Ttls[k] : Ttls[k][i] # 0) =>
              \A i \in DOMAIN Ttls[k] : KeptFor(k) <= Ttls[k][i]
<1> PICK n : n = Len(Ttls[k])
  OBVIOUS
<1> PICK ttl : ttl = Ttls[k]
  OBVIOUS
<1>1. n \in Nat /\ DOMAIN ttl = 1 .. n /\ \A i \in 1 .. n : ttl[i] \in Nat
  BY TimedAssumption
<1>2. PICK acc : /\ acc[0] = 0 /\ KeptFor(k) = acc[n]
                 /\ \A i \in 1 .. n : acc[i] = NextTtl(acc[i - 1], ttl[i])
  BY KeptForSteps
<1> DEFINE Least(i) == (\A j \in 1 .. n : ttl[j] # 0) =>
                         (i > 0 => acc[i] # 0) /\ \A j \in 1 .. i : acc[i] <= ttl[j]
           S == {i \in Nat : i <= n => acc[i] \in Nat /\ Least(i)}
<1>3. 0 \in S
  BY <1>2
<1>4. ASSUME NEW i \in Nat, i \in S PROVE i + 1 \in S
  <2>1. SUFFICES ASSUME i + 1 <= n PROVE acc[i + 1] \in Nat /\ Least(i + 1)
    OBVIOUS
  <2>2. i + 1 \in 1 .. n /\ i <= n /\ (i + 1) - 1 = i
    BY <1>1, <2>1
  <2>3. ttl[i + 1] \in Nat /\ acc[i + 1] = NextTtl(acc[i], ttl[i + 1])
    BY <1>1, <1>2, <2>2
  <2>4. acc[i] \in Nat /\ Least(i)
    BY <1>4, <2>2
  <2>5. acc[i + 1] \in Nat
    BY <2>3, <2>4 DEF NextTtl
  <2>6. ASSUME \A j \in 1 .. n : ttl[j] # 0
        PROVE  acc[i + 1] # 0 /\ \A j \in 1 .. i + 1 : acc[i + 1] <= ttl[j]
    <3>1. /\ ttl[i + 1] # 0 /\ (i > 0 => acc[i] # 0)
          /\ \A j \in 1 .. i : ttl[j] \in Nat /\ acc[i] <= ttl[j]
      BY <1>1, <2>2, <2>4, <2>6
    <3>2. \A j \in 1 .. i + 1 : j = i + 1 \/ j \in 1 .. i
      OBVIOUS
    <3>3. acc[i + 1] # 0 /\ acc[i + 1] <= ttl[i + 1] /\ (i > 0 => acc[i + 1] <= acc[i])
      BY <2>3, <2>4, <3>1 DEF NextTtl
    <3>4. \A j \in 1 .. i : acc[i + 1] <= ttl[j]
      BY <2>4, <2>5, <3>1, <3>3
    <3> QED
      BY <3>2, <3>3, <3>4
  <2> QED
    BY <2>5, <2>6
<1>5. Nat \subseteq S
  <2> HIDE DEF S
  <2> QED
    BY <1>3, <1>4, NatsBySteps
<1>6. n > 0 /\ n - 1 \in Nat /\ n \in 1 .. n
  BY <1>1, <1>2
<1>7. acc[n] \in Nat /\ acc[n - 1] \in Nat /\ Least(n)
  BY <1>1, <1>5, <1>6
<1>8. acc[n] = NextTtl(acc[n - 1], ttl[n]) /\ ttl[n] \in Nat
  BY <1>1, <1>2, <1>6
<1>9. ttl[n] # 0
  BY <1>2, <1>7, <1>8 DEF NextTtl
<1> QED
  BY <1>1, <1>2, <1>7, <1>9

\* An entry expires as many seconds after it was stored as its answer is kept,
\* and a thread looks up or stores the answer it was asked for.
CacheInv ==
  /\ now \in Nat
  /\ DOMAIN putAt = Keys
  /\ \A k \in DOMAIN cache :
       /\ k \in Keys /\ KeptFor(k) # 0
       /\ putAt[k] \in Nat /\ cache[k] = putAt[k] + KeptFor(k) * Second
  /\ at \in [Threads -> {"idle", "get", "put"}]
  /\ DOMAIN asked = Threads
  /\ \A t \in Threads : at[t] # "idle" => asked[t] \in Keys

\* At start the cache is empty and no thread is at it.
LEMMA InitCacheInv == Init => CacheInv
  BY DEF Init, CacheInv

\* Every entry is stored with the time its answer is kept, and is only ever
\* taken out again.
LEMMA NextCacheInv == CacheInv /\ [Next]_vars => CacheInv'
<1> SUFFICES ASSUME CacheInv, [Next]_vars PROVE CacheInv'
  OBVIOUS
<1>1. CASE Tick
  BY <1>1 DEF Tick, CacheInv
<1>2. CASE Invalidate
  BY <1>2 DEF Invalidate, CacheInv
<1>3. ASSUME NEW t \in Threads, Hit(t) PROVE CacheInv'
  BY <1>3 DEF Hit, Forget, CacheInv
<1>4. ASSUME NEW t \in Threads, Miss(t) PROVE CacheInv'
  BY <1>4 DEF Miss, CacheInv
<1>5. ASSUME NEW t \in Threads, Put(t) PROVE CacheInv'
  <2> PICK k : k = asked[t]
    OBVIOUS
  <2>0. k \in Keys /\ UNCHANGED now /\ Forget(t)
    BY <1>5 DEF Put, CacheInv
  <2>1. CASE UNCHANGED <<cache, putAt>>
    BY <2>0, <2>1 DEF Forget, CacheInv
  <2>2. ASSUME NEW kept \in SUBSET DOMAIN cache, KeptFor(k) # 0,
               cache' = [c \in kept \cup {k} |->
                           IF c = k THEN now + KeptFor(k) * Second ELSE cache[c]],
               putAt' = [putAt EXCEPT ![k] = now]
        PROVE  CacheInv'
    <3>1. ASSUME NEW c \in DOMAIN cache'
          PROVE  /\ c \in Keys /\ KeptFor(c) # 0
                 /\ putAt'[c] \in Nat /\ cache'[c] = putAt'[c] + KeptFor(c) * Second
      BY <2>0, <2>2 DEF CacheInv
    <3> QED
      BY <2>0, <2>2, <3>1 DEF Forget, CacheInv
  <2> DEFINE kept == IF Cardinality(DOMAIN cache) >= MaxEntries THEN {} ELSE DOMAIN cache
  <2>3. kept \in SUBSET DOMAIN cache
    OBVIOUS
  <2>4. \/ UNCHANGED <<cache, putAt>>
        \/ /\ KeptFor(k) # 0
           /\ cache' = [c \in kept \cup {k} |->
                           IF c = k THEN now + KeptFor(k) * Second ELSE cache[c]]
           /\ putAt' = [putAt EXCEPT ![k] = now]
    BY <1>5, Zenon DEF Put
  <2> HIDE DEF kept
  <2> QED
    BY <2>1, <2>2, <2>3, <2>4
<1>6. ASSUME NEW t \in Threads, NEW h \in Hosts, Refuse(t, h) PROVE CacheInv'
  BY <1>6 DEF Refuse, CacheInv
<1>7. ASSUME NEW t \in Threads, NEW h \in Hosts, NEW k \in Keys, Allow(t, h, k) PROVE CacheInv'
  BY <1>7 DEF Allow, CacheInv
<1>8. CASE UNCHANGED vars
  BY <1>8 DEF vars, CacheInv
<1> QED
  BY <1>1, <1>2, <1>3, <1>4, <1>5, <1>6, <1>7, <1>8 DEF Next

\* Multiplication keeps the order.
LEMMA Longer ==
  ASSUME NEW a \in Nat, NEW b \in Nat, NEW s \in Nat, a <= b
  PROVE  a * s <= b * s
OBVIOUS

\* Whatever the threads, the clock and the updates do, a hit is never older than
\* the records of its answer allow.
THEOREM HitsStayFresh == Spec => HitsAreFresh
<1> DEFINE Fresh(t) ==
      LET k    == asked[t]
          ttls == {Ttls[k][i] : i \in DOMAIN Ttls[k]}
      IN  IF CacheTtl > 0 THEN Age(k) <= CacheTtl * Second
          ELSE /\ 0 \notin ttls => \A ttl \in ttls : Age(k) <= ttl * Second
               /\ Ttls[k][Len(Ttls[k])] # 0
<1>1. ASSUME CacheInv, NEW t \in Threads, Hit(t) PROVE Fresh(t)
  <2> PICK k : k = asked[t]
    OBVIOUS
  <2> PICK n : n = KeptFor(k)
    OBVIOUS
  <2>0. Second \in Nat /\ CacheTtl \in Nat
    BY TimedAssumption
  <2>1. /\ k \in Keys /\ n # 0 /\ now \in Nat /\ putAt[k] \in Nat
        /\ cache[k] = putAt[k] + n * Second /\ ~(cache[k] < now)
    BY <1>1 DEF CacheInv, Hit, Expired
  <2>2. ASSUME n \in Nat, NEW m \in Nat, n <= m PROVE Age(k) <= m * Second
    <3>1. n * Second \in Nat /\ m * Second \in Nat /\ n * Second <= m * Second
      BY <2>0, <2>2, Longer
    <3> DEFINE a == n * Second
               b == m * Second
    <3> HIDE DEF a, b
    <3>2. a \in Nat /\ b \in Nat /\ a <= b /\ cache[k] = putAt[k] + a
      BY <2>1, <3>1 DEF a, b
    <3>3. now - putAt[k] <= b
      BY <2>1, <3>2
    <3> QED
      BY <3>3 DEF Age, b
  <2>3. CASE CacheTtl > 0
    <3>1. n = CacheTtl
      BY <2>3 DEF KeptFor
    <3> QED
      BY <2>0, <2>2, <2>3, <3>1
  <2>4. CASE CacheTtl = 0
    <3>1. /\ n \in Nat /\ Ttls[k][Len(Ttls[k])] # 0
          /\ (\A i \in DOMAIN Ttls[k] : Ttls[k][i] # 0) => \A i \in DOMAIN Ttls[k] : n <= Ttls[k][i]
      BY <2>1, <2>4, KeptForTheLeast
    <3>2. \A i \in DOMAIN Ttls[k] : Ttls[k][i] \in Nat
      BY <2>1, TimedAssumption
    <3>3. ASSUME \A i \in DOMAIN Ttls[k] : Ttls[k][i] # 0, NEW i \in DOMAIN Ttls[k]
          PROVE  Age(k) <= Ttls[k][i] * Second
      BY <2>2, <3>1, <3>2, <3>3
    <3> QED
      BY <2>4, <3>1, <3>3
  <2> QED
    BY <2>0, <2>3, <2>4
<1>2. CacheInv /\ [Next]_vars => [\A t \in Threads : Hit(t) => Fresh(t)]_vars
  BY <1>1
<1>3. CacheInv /\ [Next]_vars /\ CacheInv' => [\A t \in Threads : Hit(t) =>
       LET k    == asked[t]
           ttls == {Ttls[k][i] : i \in DOMAIN Ttls[k]}
       IN  IF CacheTtl > 0 THEN Age(k) <= CacheTtl * Second
           ELSE /\ 0 \notin ttls => \A ttl \in ttls : Age(k) <= ttl * Second
                /\ Ttls[k][Len(Ttls[k])] # 0]_vars
  BY <1>2
<1> QED
  BY <1>3, InitCacheInv, NextCacheInv, PTL DEF Spec, HitsAreFresh

=============================================================================
