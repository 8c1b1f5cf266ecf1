----------------------------- MODULE MetricsProofs -----------------------------
(***************************************************************************)
(* Facts about the sample of GET /metrics: how its window moves, that it   *)
(* can be sorted, and what the sample that is reported as p95 marks off,   *)
(* for windows and samples of every size.                                  *)
(***************************************************************************)
EXTENDS Metrics, SequenceTheorems, FiniteSetTheorems, TLAPS

LEMMA MetricsStayTyped ==
  ASSUME MetricsTypeOK,
         \/ UNCHANGED metricsVars \/ IncrementRequestCount \/ ForgetMetrics
         \/ \E ms \in Nat : RecordLatencyMs(ms)
  PROVE  MetricsTypeOK'
<1>1. CASE UNCHANGED metricsVars
  BY <1>1 DEF metricsVars, MetricsTypeOK
<1>2. CASE IncrementRequestCount
  BY <1>2 DEF IncrementRequestCount, MetricsTypeOK
<1>4. CASE ForgetMetrics
  BY <1>4 DEF ForgetMetrics, MetricsTypeOK
<1>3. ASSUME NEW ms \in Nat, RecordLatencyMs(ms)
      PROVE  MetricsTypeOK'
  <2>1. Append(latencies, ms) \in Seq(Nat) /\ Len(Append(latencies, ms)) > 0
    BY DEF MetricsTypeOK
  <2>2. Windowed(Append(latencies, ms)) \in Seq(Nat)
    BY <2>1 DEF Windowed
  <2> QED BY <1>3, <2>2 DEF RecordLatencyMs, MetricsTypeOK
<1> QED BY <1>1, <1>2, <1>3, <1>4

(* The window grows with the history until it is full, then moves with it.  *)
LEMMA WindowMoves ==
  ASSUME NEW s \in Seq(Nat), NEW ms \in Nat
  PROVE  Windowed(Append(Newest(s), ms)) = Newest(Append(s, ms))
<1> DEFINE n == Len(s)
           m == MaxLatencySamples
           t == Append(s, ms)
<1>1. /\ n \in Nat /\ t \in Seq(Nat) /\ Len(t) = n + 1
      /\ \A i \in 1..n : t[i] = s[i]
      /\ t[n + 1] = ms
      /\ m \in Nat \ {0}
  BY MetricsAssumption, AppendProperties
<1>2. CASE n < m
  <2>1. Newest(s) = s /\ Newest(t) = t
    BY <1>1, <1>2 DEF Newest
  <2> QED BY <1>1, <1>2, <2>1 DEF Windowed
<1>3. CASE n >= m
  <2> DEFINE w == SubSeq(s, n - m + 1, n)
             v == SubSeq(t, n - m + 2, n + 1)
             u == Append(w, ms)
  <2>1. Newest(s) = w
    <3>1. CASE n = m
      <4>1. n - m + 1 = 1
        BY <1>1, <3>1
      <4>2. w = s
        BY <4>1, SubSeqFull
      <4> QED BY <1>1, <3>1, <4>2 DEF Newest
    <3>2. CASE n # m
      <4>1. ~(n <= m)
        BY <1>1, <1>3, <3>2
      <4> QED BY <4>1 DEF Newest
    <3> QED BY <3>1, <3>2
  <2>2. Newest(t) = v
    <3>1. (n + 1) - m + 1 = n - m + 2 /\ ~(n + 1 <= m)
      BY <1>1, <1>3
    <3> HIDE DEF n, t
    <3> QED BY <1>1, <3>1 DEF Newest
  <2>3. w \in Seq(Nat) /\ Len(w) = m /\ \A i \in 1..m : w[i] = s[n - m + i]
    <3>1. \A i \in (n - m + 1)..n : s[i] \in Nat
      BY <1>1, <1>3
    <3> HIDE DEF n, m, t
    <3> QED BY <1>1, <1>3, <3>1, SubSeqProperties
  <2>4. v \in Seq(Nat) /\ Len(v) = m /\ \A i \in 1..m : v[i] = t[n - m + 1 + i]
    <3>1. \A i \in (n - m + 2)..(n + 1) : t[i] \in Nat
      BY <1>1, <1>3
    <3> HIDE DEF n, m, t
    <3> QED BY <1>1, <1>3, <3>1, SubSeqProperties
  <2> HIDE DEF w, v, n, m, t
  <2>5. /\ u \in Seq(Nat) /\ u # <<>> /\ Len(u) = m + 1
        /\ \A i \in 1..m : u[i] = w[i]
        /\ u[m + 1] = ms
    <3>1. ms \in Nat /\ w \in Seq(Nat) /\ Len(w) = m
      BY <2>3
    <3> QED BY <3>1, AppendProperties
  <2> HIDE DEF u
  <2>6. /\ Tail(u) \in Seq(Nat) /\ Len(Tail(u)) = m
        /\ \A i \in 1..m : Tail(u)[i] = u[i + 1]
    BY <1>1, <2>5, HeadTailProperties
  <2>7. ASSUME NEW i \in 1..m PROVE Tail(u)[i] = v[i]
    <3>1. CASE i = m
      BY <1>1, <1>3, <2>4, <2>5, <2>6, <3>1
    <3>2. CASE i # m
      <4>1. /\ i + 1 \in 1..m /\ n - m + 1 + i \in 1..n
            /\ n - m + (i + 1) = n - m + 1 + i
        BY <1>1, <1>3, <3>2
      <4>2. Tail(u)[i] = w[i + 1]
        BY <2>5, <2>6, <4>1
      <4>3. w[i + 1] = s[n - m + 1 + i]
        BY <2>3, <4>1
      <4>4. v[i] = s[n - m + 1 + i]
        BY <1>1, <2>4, <4>1
      <4> QED BY <4>2, <4>3, <4>4
    <3> QED BY <3>1, <3>2
  <2>8. Tail(u) = v
    BY <2>4, <2>6, <2>7, SeqEqual
  <2>9. Windowed(u) = Tail(u)
    BY <1>1, <2>5 DEF Windowed, m
  <2> QED BY <2>1, <2>2, <2>8, <2>9 DEF u, t
<1> QED BY <1>1, <1>2, <1>3

(* A sequence of numbers can be sorted: an index's rank is the number of   *)
(* samples that are smaller, or equal and not later, and the inverse of    *)
(* the ranking arranges them.                                              *)
LEMMA CanBeSorted ==
  ASSUME NEW s \in Seq(Nat)
  PROVE  \E p \in Bijection(DOMAIN s, DOMAIN s) : Sorts(p, s)
<1> DEFINE n == Len(s)
           D == 1..n
           Before(i, j) == s[i] < s[j] \/ (s[i] = s[j] /\ i < j)
           upto(j) == {i \in D : Before(i, j) \/ i = j}
           rank == [j \in D |-> Cardinality(upto(j))]
<1>1. /\ n \in Nat /\ DOMAIN s = D /\ \A i \in D : s[i] \in Nat /\ i \in Nat
      /\ IsFiniteSet(D) /\ Cardinality(D) = n
  <2>1. /\ n \in Nat /\ DOMAIN s = D
        /\ \A i \in D : s[i] \in Nat /\ i \in Nat
    OBVIOUS
  <2>2. IsFiniteSet(1..n) /\ Cardinality(1..n) = IF 1 > n THEN 0 ELSE n - 1 + 1
    BY <2>1, FS_Interval
  <2> HIDE DEF n
  <2> QED BY <2>1, <2>2
<1>2. \A j \in D : upto(j) \in SUBSET D /\ j \in upto(j)
  OBVIOUS
<1>3. \A i, j \in D : Before(i, j) => upto(i) \subseteq upto(j) /\ j \notin upto(i)
  BY <1>1
<1>4. \A i, j \in D : i # j => Before(i, j) \/ Before(j, i)
  BY <1>1
<1> HIDE DEF D, Before, upto, n
<1>5. \A j \in D : IsFiniteSet(upto(j)) /\ Cardinality(upto(j)) \in 1..n
  <2> SUFFICES ASSUME NEW j \in D
               PROVE  IsFiniteSet(upto(j)) /\ Cardinality(upto(j)) \in 1..n
    OBVIOUS
  <2>1. IsFiniteSet(upto(j)) /\ Cardinality(upto(j)) <= n
    BY <1>1, <1>2, FS_Subset
  <2>2. Cardinality(upto(j)) \in Nat
    BY <2>1, FS_CardinalityType
  <2>3. Cardinality(upto(j)) # 0
    BY <1>2, <2>1, FS_EmptySet
  <2> QED BY <1>1, <2>1, <2>2, <2>3
<1>6. \A i, j \in D : Before(i, j) => rank[i] < rank[j]
  <2> SUFFICES ASSUME NEW i \in D, NEW j \in D, Before(i, j)
               PROVE  Cardinality(upto(i)) < Cardinality(upto(j))
    OBVIOUS
  <2>1. upto(i) \in SUBSET upto(j) /\ upto(i) # upto(j)
    BY <1>2, <1>3
  <2>2. /\ Cardinality(upto(i)) <= Cardinality(upto(j))
        /\ Cardinality(upto(i)) # Cardinality(upto(j))
    BY <1>5, <2>1, FS_Subset
  <2>3. Cardinality(upto(i)) \in Nat /\ Cardinality(upto(j)) \in Nat
    BY <1>5
  <2> QED BY <2>2, <2>3
<1>7. rank \in Injection(D, D)
  <2>1. rank \in [D -> D]
    BY <1>5 DEF D
  <2>2. ASSUME NEW i \in D, NEW j \in D, rank[i] = rank[j] PROVE i = j
    <3>1. rank[i] \in Nat /\ rank[j] \in Nat
      BY <1>5
    <3>2. ~(rank[i] < rank[j]) /\ ~(rank[j] < rank[i])
      BY <2>2, <3>1
    <3> QED BY <1>4, <1>6, <3>2
  <2> HIDE DEF rank
  <2> QED BY <2>1, <2>2 DEF Injection, IsInjective
<1>8. rank \in Surjection(D, D)
  BY <1>1, <1>7, FS_Injection
<1> DEFINE p == [k \in D |-> CHOOSE j \in D : rank[j] = k]
<1>9. \A k \in D : p[k] \in D /\ rank[p[k]] = k
  <2>1. \A k \in D : \E j \in D : rank[j] = k
    BY <1>8 DEF Surjection
  <2> HIDE DEF rank
  <2> QED BY <2>1
<1> HIDE DEF p, rank
<1>10. p \in Injection(D, D)
  BY <1>9 DEF Injection, IsInjective, p
<1>11. p \in Bijection(D, D)
  BY <1>1, <1>10, FS_Injection DEF Bijection
<1>12. ASSUME NEW i \in D, NEW j \in D, i < j PROVE s[p[i]] <= s[p[j]]
  <2>1. ~Before(p[j], p[i])
    <3>1. i \in Nat /\ j \in Nat
      BY <1>1
    <3>2. ~(rank[p[j]] < rank[p[i]])
      BY <1>9, <1>12, <3>1
    <3> QED BY <1>6, <1>9, <3>2
  <2>2. s[p[i]] \in Nat /\ s[p[j]] \in Nat /\ ~(s[p[j]] < s[p[i]])
    BY <1>1, <1>9, <2>1 DEF Before
  <2> QED BY <2>2
<1> QED BY <1>1, <1>11, <1>12 DEF Sorts

(* At least n - k + 1 of n sorted samples are as large as the k-th, and at *)
(* most n - k are larger.                                                  *)
LEMMA RankMarksOff ==
  ASSUME NEW s \in Seq(Nat), NEW k \in 1..Len(s),
         NEW p \in Bijection(DOMAIN s, DOMAIN s), Sorts(p, s)
  PROVE  /\ s[p[k]] \in Nat
         /\ Cardinality({i \in DOMAIN s : s[i] >= s[p[k]]}) \in Nat
         /\ Cardinality({i \in DOMAIN s : s[i] > s[p[k]]}) \in Nat
         /\ Cardinality({i \in DOMAIN s : s[i] >= s[p[k]]}) >= Len(s) - k + 1
         /\ Cardinality({i \in DOMAIN s : s[i] > s[p[k]]}) <= Len(s) - k
<1> DEFINE n == Len(s)
           D == 1..n
           notLess == {i \in D : s[i] >= s[p[k]]}
           more == {i \in D : s[i] > s[p[k]]}
<1>1. /\ n \in Nat /\ DOMAIN s = D /\ k \in D /\ IsFiniteSet(D)
      /\ \A i \in D : s[i] \in Nat /\ i \in Nat
  <2>1. /\ n \in Nat /\ DOMAIN s = D /\ k \in D
        /\ \A i \in D : s[i] \in Nat /\ i \in Nat
    OBVIOUS
  <2> QED BY <2>1, FS_Interval
<1>2. /\ p \in [D -> D]
      /\ \A i, j \in D : p[i] = p[j] => i = j
      /\ \A i \in D : \E j \in D : p[j] = i
  BY <1>1 DEF Bijection, Injection, Surjection, IsInjective
<1>3. \A i, j \in D : i <= j => s[p[i]] <= s[p[j]]
  <2> SUFFICES ASSUME NEW i \in D, NEW j \in D, i <= j PROVE s[p[i]] <= s[p[j]]
    OBVIOUS
  <2>1. s[p[i]] \in Nat /\ s[p[j]] \in Nat
    BY <1>1, <1>2
  <2>2. CASE i = j
    BY <2>1, <2>2
  <2>3. CASE i < j
    BY <1>1, <2>3 DEF Sorts
  <2> QED BY <1>1, <2>2, <2>3
<1>4. IsFiniteSet(notLess) /\ IsFiniteSet(more)
  BY <1>1, FS_Subset
<1>5. /\ Cardinality(k..n) = n - k + 1 /\ IsFiniteSet(k..n)
      /\ Cardinality((k + 1)..n) = n - k /\ IsFiniteSet((k + 1)..n)
  BY <1>1, FS_Interval
<1>6. Cardinality(k..n) <= Cardinality(notLess)
  <2> DEFINE f == [j \in k..n |-> p[j]]
  <2>1. \A j \in k..n : j \in D /\ p[j] \in notLess
    <3> SUFFICES ASSUME NEW j \in k..n PROVE j \in D /\ p[j] \in D /\ s[p[j]] >= s[p[k]]
      OBVIOUS
    <3>1. j \in D /\ k <= j
      BY <1>1
    <3>2. p[j] \in D /\ s[p[k]] <= s[p[j]] /\ s[p[j]] \in Nat /\ s[p[k]] \in Nat
      BY <1>1, <1>2, <1>3, <3>1
    <3> QED BY <3>1, <3>2
  <2>2. f \in Injection(k..n, notLess)
    BY <1>2, <2>1 DEF Injection, IsInjective
  <2> QED BY <1>4, <2>2, FS_Injection
<1>7. Cardinality(more) <= Cardinality((k + 1)..n)
  <2> DEFINE g == [i \in more |-> CHOOSE j \in D : p[j] = i]
  <2>1. \A i \in more : g[i] \in D /\ p[g[i]] = i
    BY <1>2
  <2>2. \A i \in more : g[i] \in (k + 1)..n
    <3> SUFFICES ASSUME NEW i \in more PROVE g[i] \in (k + 1)..n
      OBVIOUS
    <3>1. g[i] \in D /\ s[i] = s[p[g[i]]] /\ s[i] > s[p[k]] /\ s[i] \in Nat /\ s[p[k]] \in Nat
      BY <1>1, <1>2, <2>1
    <3> HIDE DEF g, more
    <3>2. ~(g[i] <= k)
      BY <1>1, <1>3, <3>1
    <3> QED BY <1>1, <3>1, <3>2
  <2>3. g \in Injection(more, (k + 1)..n)
    <3>1. DOMAIN g = more /\ \A i, j \in more : g[i] = g[j] => i = j
      BY <2>1
    <3>2. g \in [more -> (k + 1)..n]
      BY <2>2
    <3> HIDE DEF g, more
    <3> QED BY <3>1, <3>2 DEF Injection, IsInjective
  <2> QED BY <1>5, <2>3, FS_Injection
<1>8. s[p[k]] \in Nat /\ Cardinality(notLess) \in Nat /\ Cardinality(more) \in Nat
  BY <1>1, <1>2, <1>4, FS_CardinalityType
<1> QED BY <1>1, <1>5, <1>6, <1>7, <1>8

LEMMA P95IsRank ==
  ASSUME NEW n \in Nat \ {0}
  PROVE  /\ Max({1, (95 * n) \div 100}) \in 1..n
         /\ 20 * (n - Max({1, (95 * n) \div 100}) + 1) >= n
         /\ 20 * (n - Max({1, (95 * n) \div 100})) < n + 20
<1> DEFINE q == (95 * n) \div 100
<1>1. q \in Nat /\ 100 * q <= 95 * n /\ 95 * n < 100 * q + 100
  OBVIOUS
<1> HIDE DEF q
<1>2. Max({1, q}) = IF q > 1 THEN q ELSE 1
  BY <1>1 DEF Max
<1>3. Max({1, q}) \in 1..n
  BY <1>1, <1>2
<1>4. 20 * (n - Max({1, q}) + 1) >= n /\ 20 * (n - Max({1, q})) < n + 20
  BY <1>1, <1>2
<1> QED BY <1>3, <1>4 DEF q

(* What GET /metrics calls p95 marks off the slowest twentieth, whatever   *)
(* the window holds.                                                       *)
LEMMA P95Marks ==
  ASSUME MetricsTypeOK
  PROVE  P95MarksTheSlowest
<1> SUFFICES ASSUME latencies # <<>> PROVE P95MarksTheSlowest
  BY DEF P95MarksTheSlowest
<1> DEFINE n == Len(latencies)
           k == Max({1, (95 * n) \div 100})
<1>1. latencies \in Seq(Nat) /\ n \in Nat \ {0} /\ DOMAIN latencies = 1..n
  BY DEF MetricsTypeOK
<1>2. k \in 1..n /\ 20 * (n - k + 1) >= n /\ 20 * (n - k) < n + 20
  BY <1>1, P95IsRank
<1>3. PICK p \in Bijection(DOMAIN latencies, DOMAIN latencies) :
        /\ Sorts(p, latencies)
        /\ Ascending(latencies) = [i \in DOMAIN latencies |-> latencies[p[i]]]
  BY <1>1, CanBeSorted DEF Ascending
<1>4. P95 = latencies[p[k]]
  BY <1>1, <1>2, <1>3 DEF P95
<1> DEFINE notLess == Cardinality({i \in DOMAIN latencies : latencies[i] >= P95})
           more == Cardinality({i \in DOMAIN latencies : latencies[i] > P95})
<1> HIDE DEF k, n
<1>5. notLess \in Nat /\ more \in Nat /\ notLess >= n - k + 1 /\ more <= n - k
  <2>1. k \in 1..Len(latencies)
    BY <1>2 DEF n
  <2>2. /\ notLess \in Nat /\ more \in Nat
        /\ notLess >= Len(latencies) - k + 1 /\ more <= Len(latencies) - k
    <3>1. /\ Cardinality({i \in DOMAIN latencies : latencies[i] >= latencies[p[k]]}) \in Nat
          /\ Cardinality({i \in DOMAIN latencies : latencies[i] > latencies[p[k]]}) \in Nat
          /\ Cardinality({i \in DOMAIN latencies : latencies[i] >= latencies[p[k]]})
               >= Len(latencies) - k + 1
          /\ Cardinality({i \in DOMAIN latencies : latencies[i] > latencies[p[k]]})
               <= Len(latencies) - k
      BY <1>1, <1>3, <2>1, RankMarksOff
    <3> QED BY <1>4, <3>1
  <2> QED BY <2>2 DEF n
<1>6. 20 * notLess >= n /\ 20 * more < n + 20
  <2> HIDE DEF notLess, more
  <2> QED BY <1>1, <1>2, <1>5
<1> QED BY <1>6 DEF P95MarksTheSlowest, SamplesThat, n
=============================================================================
