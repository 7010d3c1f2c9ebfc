------------------------- MODULE CampaignLifeProofs -------------------------
(***************************************************************************)
(* Proofs about CampaignLife: for every number of campaigns, machines and  *)
(* configurations, every schedule and every ranking.                       *)
(***************************************************************************)
EXTENDS CampaignLife, TLAPS, SequenceTheorems, FiniteSetTheorems, WellFoundedInduction

(***************************************************************************)
(* Numbers, orders and sequences.                                          *)
(***************************************************************************)

\* Of a set of naturals with a member, the least.
LEMMA LeastNat ==
  ASSUME NEW S, S \subseteq Nat, S # {}
  PROVE  \E x \in S : \A y \in S : x <= y
<1> DEFINE R == OpToRel(<, Nat)
<1>1. IsWellFoundedOn(R, Nat)
  BY NatLessThanWellFounded
<1> HIDE DEF R
<1>2. PICK x \in S : \A y \in S : ~(<<y, x>> \in R)
  BY <1>1, WFMin
<1>3. \A y \in S : ~(y < x)
  BY <1>2 DEF R, OpToRel
<1> QED BY <1>2, <1>3

\* Induction up to n: what holds of 0, and of k if of k - 1, holds of them all.
LEMMA UpTo ==
  ASSUME NEW n \in Nat, NEW Good, 0 \in Good,
         \A k \in 1..n : k - 1 \in Good => k \in Good
  PROVE  \A k \in 0..n : k \in Good
<1> DEFINE Bad == {k \in 0..n : k \notin Good}
<1> SUFFICES ASSUME Bad # {} PROVE FALSE
  OBVIOUS
<1>2. Bad \subseteq Nat
  OBVIOUS
<1> HIDE DEF Bad
<1>3. PICK x \in Bad : \A y \in Bad : x <= y
  BY <1>2, LeastNat
<1>5. x \in 1..n /\ x \notin Good
  BY <1>3 DEF Bad
<1>6. x - 1 \in 0..n /\ x - 1 < x
  BY <1>5
<1>7. x - 1 \in Good
  BY <1>3, <1>6 DEF Bad
<1> QED BY <1>5, <1>7

LEMMA MinIs ==
  ASSUME NEW S, S \subseteq Nat, S # {}
  PROVE  Min(S) \in S /\ \A y \in S : Min(S) <= y
<1>1. \E x \in S : \A y \in S : x =< y
  BY LeastNat
<1> QED BY <1>1 DEF Min

\* The values of a function on a finite set are finitely many.
LEMMA ImageFinite ==
  ASSUME NEW S, IsFiniteSet(S), NEW f
  PROVE  IsFiniteSet({f[x] : x \in S})
<1> DEFINE T == {f[x] : x \in S}
           g == [x \in S |-> f[x]]
<1>1. g \in Surjection(S, T)
  BY DEF Surjection
<1> HIDE DEF g, T
<1>2. IsFiniteSet(T)
  BY <1>1, FS_Surjection
<1> QED BY <1>2 DEF T

\* A finite set of integers has a largest member.
LEMMA MaxIs ==
  ASSUME NEW S, S \subseteq Int, IsFiniteSet(S), S # {}
  PROVE  Max(S) \in S
<1> DEFINE lower(x) == {y \in S : y < x}
           N == {Cardinality(S) - Cardinality(lower(x)) : x \in S}
<1>1. Cardinality(S) \in Nat
  BY FS_CardinalityType
<1>2. ASSUME NEW x \in S
      PROVE  /\ IsFiniteSet(lower(x)) /\ Cardinality(lower(x)) \in Nat
             /\ Cardinality(lower(x)) <= Cardinality(S)
  <2>1. lower(x) \in SUBSET S
    OBVIOUS
  <2> HIDE DEF lower
  <2> QED BY <2>1, FS_Subset, FS_CardinalityType
<1> HIDE DEF lower
<1>3. N \subseteq Nat /\ N # {}
  <2>1. \A x \in S : Cardinality(S) - Cardinality(lower(x)) \in Nat
    BY <1>1, <1>2
  <2> QED BY <2>1
<1>4. PICK k \in N : \A j \in N : k <= j
  <2> HIDE DEF N
  <2> QED BY <1>3, LeastNat
<1>5. PICK x \in S : k = Cardinality(S) - Cardinality(lower(x))
  BY <1>4
<1>6. ASSUME NEW y \in S, x < y PROVE FALSE
  <2>1. lower(x) \in SUBSET lower(y) /\ x \in lower(y) /\ x \notin lower(x)
    <3>1. x \in Int /\ y \in Int /\ \A z \in S : z \in Int
      OBVIOUS
    <3>2. \A z \in S : z < x => z < y
      BY <1>6, <3>1
    <3>3. ~(x < x)
      BY <3>1
    <3> QED BY <1>6, <3>2, <3>3 DEF lower
  <2>2. Cardinality(lower(x)) <= Cardinality(lower(y)) /\ Cardinality(lower(x)) # Cardinality(lower(y))
    BY <1>2, <2>1, FS_Subset
  <2>3. Cardinality(S) - Cardinality(lower(y)) \in N
    OBVIOUS
  <2> HIDE DEF N
  <2> QED BY <1>1, <1>2, <1>4, <1>5, <2>2, <2>3
<1>7. \E z \in S : \A y \in S : z >= y
  BY <1>6
<1> QED BY <1>7 DEF Max

(***************************************************************************)
(* What InOrder makes of a strict order.                                   *)
(***************************************************************************)
StrictOrder(S, R) ==
  /\ \A x \in S : <<x, x>> \notin R
  /\ \A x, y \in S : x # y => <<x, y>> \in R \/ <<y, x>> \in R
  /\ \A x, y, z \in S : <<x, y>> \in R /\ <<y, z>> \in R => <<x, z>> \in R

\* All of the members, each once, and in the order.
Lists(q, S, R) ==
  /\ Cardinality(S) \in Nat
  /\ q \in [1..Cardinality(S) -> S]
  /\ \A x \in S : \E k \in 1..Cardinality(S) : q[k] = x
  /\ \A j, k \in 1..Cardinality(S) : j < k => <<q[j], q[k]>> \in R /\ q[j] # q[k]

LEMMA InOrderIs ==
  ASSUME NEW S, IsFiniteSet(S), NEW R, StrictOrder(S, R)
  PROVE  Lists(InOrder(S, R), S, R)
<1> DEFINE upto(x) == {y \in S : y = x \/ <<y, x>> \in R}
           at(x) == Cardinality(upto(x))
           place == [x \in S |-> at(x)]
           n == Cardinality(S)
<1>1. n \in Nat
  BY FS_CardinalityType
<1>2. ASSUME NEW x \in S PROVE IsFiniteSet(upto(x)) /\ at(x) \in 1..n
  <2>1. upto(x) \in SUBSET S /\ x \in upto(x)
    OBVIOUS
  <2> HIDE DEF upto
  <2>2. IsFiniteSet(upto(x)) /\ Cardinality(upto(x)) <= n
    BY <2>1, FS_Subset
  <2>3. Cardinality(upto(x)) \in Nat /\ Cardinality(upto(x)) # 0
    BY <2>1, <2>2, FS_CardinalityType, FS_EmptySet
  <2> QED BY <1>1, <2>2, <2>3
<1>3. ASSUME NEW x \in S, NEW y \in S, <<x, y>> \in R PROVE at(x) < at(y)
  <2>1. upto(x) \in SUBSET upto(y) /\ y \in upto(y) /\ y \notin upto(x)
    BY <1>3 DEF StrictOrder
  <2> HIDE DEF upto
  <2>2. at(x) <= at(y) /\ at(x) # at(y)
    BY <1>2, <2>1, FS_Subset
  <2>3. at(x) \in 1..n /\ at(y) \in 1..n
    BY <1>2
  <2> HIDE DEF at
  <2> QED BY <1>1, <2>2, <2>3
<1>5. InOrder(S, R) = [k \in 1..n |-> CHOOSE x \in S : at(x) = k]
  BY DEF InOrder
<1> HIDE DEF at, n
<1>4. \A x, y \in S : at(x) = at(y) => x = y
  <2> SUFFICES ASSUME NEW x \in S, NEW y \in S, at(x) = at(y), x # y PROVE FALSE
    OBVIOUS
  <2>1. at(x) < at(y) \/ at(y) < at(x)
    BY <1>3 DEF StrictOrder
  <2>2. at(x) \in 1..n /\ at(y) \in 1..n
    BY <1>2
  <2> QED BY <1>1, <2>1, <2>2
<1>6. place \in Injection(S, 1..n)
  BY <1>2, <1>4 DEF Injection, IsInjective
<1>7. IsFiniteSet(1..n) /\ Cardinality(1..n) = n
  BY <1>1, FS_Interval, SMTT(30)
<1>8. place \in Surjection(S, 1..n)
  <2>1. Cardinality(1..n) = Cardinality(S)
    BY <1>7 DEF n
  <2> HIDE DEF place
  <2> QED BY <1>6, <1>7, <2>1, FS_Injection
<1>9. \A k \in 1..n : \E x \in S : at(x) = k
  BY <1>8 DEF Surjection
<1>10. \A k \in 1..n : InOrder(S, R)[k] \in S /\ at(InOrder(S, R)[k]) = k
  BY <1>5, <1>9
<1>11. InOrder(S, R) \in [1..n -> S]
  BY <1>5, <1>10
<1>12. ASSUME NEW x \in S PROVE \E k \in 1..n : InOrder(S, R)[k] = x
  <2>1. at(x) \in 1..n
    BY <1>2
  <2> QED BY <1>4, <1>10, <2>1
<1>13. ASSUME NEW j \in 1..n, NEW k \in 1..n, j < k
       PROVE  <<InOrder(S, R)[j], InOrder(S, R)[k]>> \in R /\ InOrder(S, R)[j] # InOrder(S, R)[k]
  <2>1. PICK x \in S : x = InOrder(S, R)[j] /\ at(x) = j
    BY <1>10
  <2>2. PICK y \in S : y = InOrder(S, R)[k] /\ at(y) = k
    BY <1>10
  <2>3. x # y
    BY <1>1, <1>13, <2>1, <2>2
  <2>4. ~(at(y) < at(x))
    BY <1>1, <1>13, <2>1, <2>2
  <2>5. <<x, y>> \in R
    BY <1>3, <2>3, <2>4 DEF StrictOrder
  <2> QED BY <2>1, <2>2, <2>3, <2>5
<1> QED BY <1>1, <1>11, <1>12, <1>13 DEF n, Lists

LEMMA ListsOnce ==
  ASSUME NEW q, NEW S, NEW R, Lists(q, S, R)
  PROVE  \A j, k \in 1..Cardinality(S) : q[j] = q[k] => j = k
<1> DEFINE n == Cardinality(S)
<1>1. n \in Nat /\ \A j, k \in 1..n : j < k => q[j] # q[k]
  BY Zenon DEF Lists
<1> HIDE DEF n
<1>2. ASSUME NEW j \in 1..n, NEW k \in 1..n, q[j] = q[k] PROVE j = k
  <2>1. ~(j < k) /\ ~(k < j)
    BY <1>1, <1>2
  <2> QED BY <1>1, <2>1
<1> QED BY <1>2 DEF n

IdOrder(S) == {p \in S \X S : p[1] < p[2]}
LEMMA ByIdIs ==
  ASSUME NEW S, IsFiniteSet(S), S \subseteq Int
  PROVE  Lists(ById(S), S, IdOrder(S))
<1>1. \A x, y \in S : <<x, y>> \in IdOrder(S) <=> x < y
  BY DEF IdOrder
<1>2. \A x \in S : x \in Int
  OBVIOUS
<1>3. StrictOrder(S, IdOrder(S))
  BY <1>1, <1>2, SMTT(30) DEF StrictOrder
<1>4. ById(S) = InOrder(S, IdOrder(S))
  BY DEF ById, IdOrder
<1> QED BY <1>3, <1>4, InOrderIs

\* Means are ordered, and the rest decides between equal ones.
LEMMA CrossOrder ==
  ASSUME NEW a \in Nat, NEW b \in Nat \ {0}, NEW u \in Nat, NEW v \in Nat \ {0},
         NEW x \in Nat, NEW y \in Nat \ {0}
  PROVE  /\ a * v \in Nat /\ u * b \in Nat /\ u * y \in Nat /\ x * v \in Nat
         /\ a * y \in Nat /\ x * b \in Nat
         /\ a * v >= u * b /\ u * y >= x * v => a * y >= x * b
         /\ a * v > u * b /\ u * y >= x * v => a * y > x * b
         /\ a * v >= u * b /\ u * y > x * v => a * y > x * b
<1>1. /\ a * v \in Nat /\ u * b \in Nat /\ u * y \in Nat /\ x * v \in Nat
      /\ a * y \in Nat /\ x * b \in Nat
  BY SMTT(30)
<1>2. /\ (a * v) * y = (a * y) * v /\ (u * b) * y = (u * y) * b /\ (x * v) * b = (x * b) * v
  BY SMTT(30)
<1>3. \A m, k \in Nat : \A t \in Nat \ {0} :
        (m >= k <=> m * t >= k * t) /\ (m > k <=> m * t > k * t)
  BY SMTT(30)
<1> DEFINE av == a * v  ub == u * b  uy == u * y  xv == x * v  ay == a * y  xb == x * b
<1> HIDE DEF av, ub, uy, xv, ay, xb
<1>4. /\ av \in Nat /\ ub \in Nat /\ uy \in Nat /\ xv \in Nat /\ ay \in Nat /\ xb \in Nat
      /\ av * y = ay * v /\ ub * y = uy * b /\ xv * b = xb * v
  BY <1>1, <1>2 DEF av, ub, uy, xv, ay, xb
<1>5. /\ (av >= ub <=> av * y >= ub * y) /\ (av > ub <=> av * y > ub * y)
      /\ (uy >= xv <=> uy * b >= xv * b) /\ (uy > xv <=> uy * b > xv * b)
      /\ (ay >= xb <=> ay * v >= xb * v) /\ (ay > xb <=> ay * v > xb * v)
  BY <1>3, <1>4
<1>6. ay * v \in Int /\ uy * b \in Int /\ xb * v \in Int
  BY <1>4
<1> DEFINE A == ay * v  B == uy * b  C == xb * v
<1>7. /\ (av >= ub <=> A >= B) /\ (av > ub <=> A > B) /\ (uy >= xv <=> B >= C)
      /\ (uy > xv <=> B > C) /\ (ay >= xb <=> A >= C) /\ (ay > xb <=> A > C)
  BY <1>4, <1>5
<1> HIDE DEF A, B, C
<1>8. A \in Int /\ B \in Int /\ C \in Int
  BY <1>6 DEF A, B, C
<1>9. /\ av >= ub /\ uy >= xv => ay >= xb
      /\ av > ub /\ uy >= xv => ay > xb
      /\ av >= ub /\ uy > xv => ay > xb
  BY <1>7, <1>8
<1> QED BY <1>1, <1>9 DEF av, ub, uy, xv, ay, xb

\* By the mean, then by the first run.
Outranks(a, b, f, g, h) ==
  a[g] * b[h] > a[h] * b[g] \/ (a[g] * b[h] = a[h] * b[g] /\ f[g] < f[h])
RankOrder(S, a, b, f) == {p \in S \X S : Outranks(a, b, f, p[1], p[2])}
LEMMA MeansOrder ==
  ASSUME NEW S, NEW a \in [S -> Nat], NEW b \in [S -> Nat \ {0}], NEW f \in [S -> Nat],
         \A g, h \in S : f[g] = f[h] => g = h
  PROVE  StrictOrder(S, RankOrder(S, a, b, f))
<1> DEFINE R == RankOrder(S, a, b, f)
<1>1. \A g, h \in S : <<g, h>> \in R <=> Outranks(a, b, f, g, h)
  BY DEF RankOrder
<1> HIDE DEF R
<1>2. \A g, h \in S : a[g] * b[h] \in Nat
  <2>1. \A g \in S : a[g] \in Nat /\ b[g] \in Nat
    OBVIOUS
  <2>2. \A m, k \in Nat : m * k \in Nat
    BY SMTT(30)
  <2> QED BY <2>1, <2>2, Zenon
<1>3. \A g \in S : <<g, g>> \notin R
  <2>1. \A g \in S : a[g] * b[g] \in Nat /\ f[g] \in Nat
    BY <1>2
  <2>2. ASSUME NEW m \in Nat, NEW k \in Nat PROVE ~(m > m) /\ ~(k < k)
    OBVIOUS
  <2> QED BY <1>1, <2>1, <2>2, Zenon DEF Outranks
<1>4. ASSUME NEW g \in S, NEW h \in S, g # h PROVE <<g, h>> \in R \/ <<h, g>> \in R
  <2> DEFINE m == a[g] * b[h]  k == a[h] * b[g]
  <2>1. m \in Nat /\ k \in Nat /\ f[g] \in Nat /\ f[h] \in Nat /\ f[g] # f[h]
    BY <1>2, <1>4
  <2>2. <<g, h>> \in R <=> m > k \/ (m = k /\ f[g] < f[h])
    BY <1>1, Zenon DEF Outranks
  <2>3. <<h, g>> \in R <=> k > m \/ (k = m /\ f[h] < f[g])
    BY <1>1, Zenon DEF Outranks
  <2> HIDE DEF m, k
  <2> QED BY <2>1, <2>2, <2>3
<1>5. ASSUME NEW g \in S, NEW h \in S, NEW i \in S, <<g, h>> \in R, <<h, i>> \in R
      PROVE  <<g, i>> \in R
  <2> DEFINE gh == a[g] * b[h]  hg == a[h] * b[g]  hi == a[h] * b[i]
             ih == a[i] * b[h]  gi == a[g] * b[i]  ig == a[i] * b[g]
  <2>1. /\ gh \in Nat /\ hg \in Nat /\ hi \in Nat /\ ih \in Nat /\ gi \in Nat /\ ig \in Nat
        /\ f[g] \in Nat /\ f[h] \in Nat /\ f[i] \in Nat
    BY <1>2
  <2>2. gh > hg \/ (gh = hg /\ f[g] < f[h])
    BY <1>1, <1>5, Zenon DEF Outranks
  <2>3. hi > ih \/ (hi = ih /\ f[h] < f[i])
    BY <1>1, <1>5, Zenon DEF Outranks
  <2>4. /\ gh >= hg /\ hi >= ih => gi >= ig
        /\ gh > hg /\ hi >= ih => gi > ig
        /\ gh >= hg /\ hi > ih => gi > ig
    <3>1. /\ a[g] \in Nat /\ b[g] \in Nat \ {0} /\ a[h] \in Nat /\ b[h] \in Nat \ {0}
          /\ a[i] \in Nat /\ b[i] \in Nat \ {0}
      OBVIOUS
    <3> QED BY <3>1, CrossOrder, Zenon
  <2>5. <<g, i>> \in R <=> gi > ig \/ (gi = ig /\ f[g] < f[i])
    BY <1>1, Zenon DEF Outranks
  <2>6. gi = ig => \/ gi > ig \/ (gh = hg /\ hi = ih)
    <3> HIDE DEF gh, hg, hi, ih, gi, ig
    <3> QED BY <2>1, <2>2, <2>3, <2>4
  <2> HIDE DEF gh, hg, hi, ih, gi, ig
  <2>7. gi > ig \/ gi = ig
    BY <2>1, <2>2, <2>3, <2>4
  <2> QED BY <2>1, <2>2, <2>3, <2>4, <2>5, <2>6, <2>7
<1>6. StrictOrder(S, R)
  BY <1>3, <1>4, <1>5, Zenon DEF StrictOrder
<1> QED BY <1>6 DEF R

\* The sum of finitely many naturals is one.
LEMMA SumIs ==
  ASSUME NEW S, IsFiniteSet(S), NEW v \in [S -> Nat]
  PROVE  SumFunction(v) \in Nat
<1> DEFINE n == Cardinality(S)
           pick(s) == CHOOSE x \in s : TRUE
           Small(m) == {s \in SUBSET S : Cardinality(s) <= m}
           Is(g, m) == g = [s \in Small(m) |-> IF s = {} THEN 0 ELSE v[pick(s)] + g[s \ {pick(s)}]]
           Good == {m \in 0..n : \E g : Is(g, m) /\ g \in [Small(m) -> Nat]}
<1>0. n \in Nat
  BY FS_CardinalityType
<1>1. \A s \in SUBSET S : IsFiniteSet(s) /\ Cardinality(s) \in Nat /\ Cardinality(s) <= n
  BY FS_Subset, FS_CardinalityType
<1>2. \A s \in SUBSET S : s # {} =>
         /\ pick(s) \in s /\ s \ {pick(s)} \in SUBSET S
         /\ Cardinality(s \ {pick(s)}) = Cardinality(s) - 1
  <2> SUFFICES ASSUME NEW s \in SUBSET S, s # {}
      PROVE  /\ pick(s) \in s /\ s \ {pick(s)} \in SUBSET S
             /\ Cardinality(s \ {pick(s)}) = Cardinality(s) - 1
    OBVIOUS
  <2>1. pick(s) \in s
    OBVIOUS
  <2> HIDE DEF pick
  <2> QED BY <1>1, <2>1, FS_RemoveElement
<1> HIDE DEF pick, n
<1>3. 0 \in Good
  <2> DEFINE g == [s \in Small(0) |-> 0]
  <2>1. \A s \in Small(0) : s = {}
    BY <1>1, FS_EmptySet
  <2>2. Is(g, 0)
    BY <2>1
  <2>3. g \in [Small(0) -> Nat] /\ 0 \in 0..n
    BY <1>0
  <2> HIDE DEF g, Is, Small
  <2> QED BY <2>2, <2>3
<1>4. ASSUME NEW m \in 1..n, m - 1 \in Good PROVE m \in Good
  <2>1. PICK g : Is(g, m - 1) /\ g \in [Small(m - 1) -> Nat]
    BY <1>4
  <2> DEFINE h == [s \in Small(m) |-> IF s = {} THEN 0 ELSE v[pick(s)] + g[s \ {pick(s)}]]
  <2>2. \A s \in Small(m) : s # {} => s \ {pick(s)} \in Small(m - 1)
    BY <1>0, <1>1, <1>2
  <2>3. ASSUME NEW s \in Small(m - 1) PROVE s \in Small(m) /\ h[s] = g[s]
    <3>1. s \in SUBSET S /\ Cardinality(s) <= m - 1 /\ Cardinality(s) \in Nat
      BY <1>1
    <3>2. s \in Small(m)
      BY <1>0, <3>1
    <3>3. g[s] = IF s = {} THEN 0 ELSE v[pick(s)] + g[s \ {pick(s)}]
      BY <2>1
    <3> HIDE DEF Small
    <3> QED BY <3>2, <3>3
  <2>4. Is(h, m)
    <3>1. \A s \in Small(m) : s # {} => h[s \ {pick(s)}] = g[s \ {pick(s)}]
      <4> HIDE DEF h, Small
      <4> QED BY <2>2, <2>3
    <3>2. \A s \in Small(m) : h[s] = IF s = {} THEN 0 ELSE v[pick(s)] + h[s \ {pick(s)}]
      <4> HIDE DEF Small
      <4> QED BY <3>1
    <3>3. h = [s \in Small(m) |-> h[s]]
      <4> HIDE DEF Small
      <4> QED OBVIOUS
    <3> HIDE DEF h, Small
    <3> QED BY <3>2, <3>3
  <2>5. h \in [Small(m) -> Nat]
    <3>1. ASSUME NEW s \in Small(m), s # {} PROVE v[pick(s)] \in Nat /\ g[s \ {pick(s)}] \in Nat
      <4>1. pick(s) \in S
        BY <1>2, <3>1
      <4>2. s \ {pick(s)} \in Small(m - 1)
        BY <2>2, <3>1
      <4> HIDE DEF Small, Is
      <4> QED BY <2>1, <4>1, <4>2
    <3>2. \A s \in Small(m) : h[s] \in Nat
      <4> HIDE DEF Small
      <4> QED BY <3>1
    <3> HIDE DEF Small
    <3> QED BY <3>2
  <2>6. m \in 0..n
    BY <1>0
  <2> HIDE DEF h, Is, Small
  <2> QED BY <2>4, <2>5, <2>6
<1>5. n \in Good
  <2>1. n \in 0..n
    BY <1>0
  <2> HIDE DEF Good
  <2> QED BY <1>0, <1>3, <1>4, <2>1, UpTo
<1>6. Small(n) = SUBSET S
  BY <1>1
<1> DEFINE W(g) == g = [s \in SUBSET S |-> IF s = {} THEN 0 ELSE v[pick(s)] + g[s \ {pick(s)}]]
<1>7. PICK g : W(g) /\ g \in [SUBSET S -> Nat]
  BY <1>5, <1>6
<1> DEFINE w == CHOOSE f : W(f)
<1>8. W(w)
  <2> HIDE DEF W
  <2> QED BY <1>7
<1>9. SumFunction(v) = w[S]
  <2>1. DOMAIN v = S
    OBVIOUS
  <2> QED BY <2>1, Zenon DEF SumFunction, SumFunctionOnSet, FoldFunctionOnSet, MapThenFoldSet, pick
<1> HIDE DEF w
<1>10. \A s \in SUBSET S : s # {} => s \ {pick(s)} \in SUBSET S
  BY <1>2
<1> DEFINE Fits == {m \in 0..n : \A s \in Small(m) : w[s] \in Nat}
<1>11. 0 \in Fits
  <2>1. \A s \in Small(0) : s = {} /\ s \in SUBSET S
    BY <1>1, FS_EmptySet
  <2>2. w[{}] = 0
    BY <1>8
  <2>3. \A s \in Small(0) : w[s] \in Nat
    <3> HIDE DEF Small, W
    <3> QED BY <2>1, <2>2
  <2> QED BY <1>0, <2>3
<1>12. ASSUME NEW m \in 1..n, m - 1 \in Fits PROVE m \in Fits
  <2>1. ASSUME NEW s \in Small(m), s # {} PROVE w[s] \in Nat
    <3>1. s \in SUBSET S /\ pick(s) \in S
      BY <1>2, <2>1
    <3>2. s \ {pick(s)} \in Small(m - 1)
      BY <1>0, <1>1, <1>2, <2>1
    <3>3. w[s \ {pick(s)}] \in Nat /\ v[pick(s)] \in Nat
      <4> HIDE DEF Small
      <4> QED BY <1>12, <3>1, <3>2
    <3>4. w[s] = v[pick(s)] + w[s \ {pick(s)}]
      BY <1>8, <2>1, <3>1
    <3> HIDE DEF W
    <3> QED BY <3>3, <3>4
  <2>2. w[{}] = 0
    BY <1>8
  <2>3. m \in 0..n
    BY <1>0
  <2>4. \A s \in Small(m) : w[s] \in Nat
    <3> HIDE DEF Small, W
    <3>1. \A s \in Small(m) : s = {} => w[s] = w[{}]
      BY Zenon
    <3> QED BY <2>1, <2>2, <3>1
  <2> QED BY <2>3, <2>4
<1>13. n \in Fits
  <2>1. n \in 0..n
    BY <1>0
  <2> HIDE DEF Fits
  <2> QED BY <1>0, <1>11, <1>12, <2>1, UpTo
<1>14. w[S] \in Nat
  <2>1. S \in SUBSET S
    OBVIOUS
  <2> HIDE DEF Small
  <2> QED BY <1>6, <1>13, <2>1
<1> QED BY <1>9, <1>14

\* f strings the first m lists of s together: u tells the list a place comes
\* from, j the place in it.
Placed(f, s, m, u, j) ==
  /\ u \in [1..Len(f) -> 1..m] /\ j \in [1..Len(f) -> Nat]
  /\ \A p \in 1..Len(f) : j[p] \in 1..Len(s[u[p]]) /\ f[p] = s[u[p]][j[p]]
  /\ \A p, q \in 1..Len(f) : u[p] = u[q] /\ j[p] = j[q] => p = q
Strung(f, s, m, T) ==
  /\ f \in Seq(T)
  /\ \E u, j : Placed(f, s, m, u, j)
  /\ \A k \in 1..m : \A i \in 1..Len(s[k]) : \E p \in 1..Len(f) : f[p] = s[k][i]

LEMMA OneMoreStrung ==
  ASSUME NEW T, NEW m \in Nat, NEW s, NEW f, Strung(f, s, m, T), s[m + 1] \in Seq(T)
  PROVE  Strung(f \o s[m + 1], s, m + 1, T)
<1> DEFINE t == s[m + 1]
           h == f \o t
<1>1. PICK u, j : Placed(f, s, m, u, j)
  BY DEF Strung
<1>2. f \in Seq(T) /\ Len(f) \in Nat /\ t \in Seq(T) /\ Len(t) \in Nat
  BY DEF Strung
<1>3. /\ h \in Seq(T) /\ Len(h) = Len(f) + Len(t)
      /\ \A i \in 1..(Len(f) + Len(t)) : h[i] = IF i <= Len(f) THEN f[i] ELSE t[i - Len(f)]
  BY <1>2, ConcatProperties
<1> DEFINE a == [p \in 1..Len(h) |-> IF p <= Len(f) THEN u[p] ELSE m + 1]
           b == [p \in 1..Len(h) |-> IF p <= Len(f) THEN j[p] ELSE p - Len(f)]
<1> HIDE DEF h
<1>4. ASSUME NEW p \in 1..Len(h)
      PROVE  /\ a[p] \in 1..(m + 1) /\ b[p] \in Nat /\ b[p] \in 1..Len(s[a[p]]) /\ h[p] = s[a[p]][b[p]]
             /\ p <= Len(f) => p \in 1..Len(f) /\ a[p] = u[p] /\ b[p] = j[p] /\ a[p] # m + 1
             /\ ~(p <= Len(f)) => a[p] = m + 1 /\ b[p] = p - Len(f)
  <2>1. CASE p <= Len(f)
    <3>1. p \in 1..Len(f) /\ a[p] = u[p] /\ b[p] = j[p] /\ h[p] = f[p]
      BY <1>2, <1>3, <2>1
    <3>2. u[p] \in 1..m /\ j[p] \in Nat /\ j[p] \in 1..Len(s[u[p]]) /\ f[p] = s[u[p]][j[p]]
      BY <1>1, <3>1 DEF Placed
    <3> QED BY <2>1, <3>1, <3>2
  <2>2. CASE ~(p <= Len(f))
    <3>1. a[p] = m + 1 /\ b[p] = p - Len(f) /\ h[p] = t[p - Len(f)]
      BY <1>2, <1>3, <2>2
    <3>2. p - Len(f) \in 1..Len(t)
      BY <1>2, <1>3, <2>2
    <3> QED BY <2>2, <3>1, <3>2
  <2> QED BY <2>1, <2>2
<1>5. ASSUME NEW p \in 1..Len(h), NEW q \in 1..Len(h), a[p] = a[q], b[p] = b[q] PROVE p = q
  <2>1. CASE p <= Len(f)
    <3>1. q <= Len(f)
      BY <1>4, <1>5, <2>1
    <3>2. p \in 1..Len(f) /\ q \in 1..Len(f) /\ u[p] = u[q] /\ j[p] = j[q]
      BY <1>4, <1>5, <2>1, <3>1
    <3> QED BY <1>1, <3>2 DEF Placed
  <2>2. CASE ~(p <= Len(f))
    <3>1. ~(q <= Len(f))
      BY <1>4, <1>5, <2>2
    <3>2. p - Len(f) = q - Len(f) /\ p \in Int /\ q \in Int
      BY <1>4, <1>5, <2>2, <3>1
    <3> QED BY <1>2, <3>2
  <2> QED BY <2>1, <2>2
<1>6. a \in [1..Len(h) -> 1..(m + 1)] /\ b \in [1..Len(h) -> Nat]
  <2>1. a = [p \in 1..Len(h) |-> a[p]] /\ b = [p \in 1..Len(h) |-> b[p]]
    OBVIOUS
  <2> HIDE DEF a, b
  <2> QED BY <1>4, <2>1
<1> HIDE DEF a, b
<1>7. Placed(h, s, m + 1, a, b)
  BY <1>4, <1>5, <1>6, Zenon DEF Placed
<1>8. ASSUME NEW k \in 1..(m + 1), NEW i \in 1..Len(s[k]) PROVE \E p \in 1..Len(h) : h[p] = s[k][i]
  <2>1. CASE k \in 1..m
    <3>1. PICK p \in 1..Len(f) : f[p] = s[k][i]
      BY <2>1 DEF Strung
    <3>2. p \in 1..Len(h) /\ h[p] = f[p]
      BY <1>2, <1>3, <3>1
    <3> QED BY <3>1, <3>2
  <2>2. CASE k = m + 1
    <3>1. Len(f) + i \in 1..Len(h) /\ i \in 1..Len(t) /\ (Len(f) + i) - Len(f) = i /\ ~(Len(f) + i <= Len(f))
      BY <1>2, <1>3, <2>2
    <3>2. h[Len(f) + i] = t[i]
      BY <1>3, <3>1
    <3> QED BY <2>2, <3>1, <3>2
  <2> QED BY <2>1, <2>2
<1>9. Strung(h, s, m + 1, T)
  BY <1>3, <1>7, <1>8, Zenon DEF Strung
<1> QED BY <1>9 DEF h

\* FlattenSeq strings its lists together.
LEMMA FlattenIs ==
  ASSUME NEW T, NEW n \in Nat, NEW s, s = [k \in 1..n |-> s[k]], \A k \in 1..n : s[k] \in Seq(T)
  PROVE  Strung(FlattenSeq(s), s, n, T)
<1> DEFINE Is(g, m) == g = [k \in 1..m |-> IF k = 1 THEN s[k] ELSE g[k - 1] \o s[k]]
<1>0. Len(s) = n
  <2>1. s \in Seq(Seq(T)) /\ DOMAIN s = 1..n
    OBVIOUS
  <2> QED BY <2>1, LenProperties
<1>1. CASE n = 0
  <2>1. FlattenSeq(s) = s /\ s = <<>>
    BY <1>0, <1>1 DEF FlattenSeq
  <2>2. s \in Seq(T) /\ Len(s) = 0
    BY <2>1, EmptySeq
  <2> DEFINE z == [k \in 1..0 |-> 0]
  <2>3. Placed(s, s, 0, z, z)
    BY <2>2 DEF Placed
  <2> HIDE DEF z
  <2>4. \A k \in 1..0 : FALSE
    OBVIOUS
  <2> QED BY <1>1, <2>1, <2>2, <2>3, <2>4, Zenon DEF Strung
<1>2. CASE n # 0
  <2> DEFINE Good == {m \in 0..n : m = 0 \/ \E g : Is(g, m)}
  <2>1. ASSUME NEW m \in 1..n, m - 1 \in Good PROVE m \in Good
    <3>1. CASE m = 1
      <4> DEFINE g == [k \in 1..1 |-> s[k]]
      <4>1. Is(g, 1)
        OBVIOUS
      <4>2. m \in 0..n
        OBVIOUS
      <4> HIDE DEF Is, g
      <4> QED BY <3>1, <4>1, <4>2
    <3>2. CASE m # 1
      <4>0. m - 1 # 0
        BY <3>2
      <4>1. PICK g : Is(g, m - 1)
        BY <2>1, <4>0, Zenon
      <4> DEFINE h == [k \in 1..m |-> IF k = m THEN g[m - 1] \o s[m] ELSE g[k]]
      <4>2. ASSUME NEW k \in 1..m PROVE h[k] = IF k = 1 THEN s[k] ELSE h[k - 1] \o s[k]
        <5>1. CASE k = m
          <6>1. h[k - 1] = g[m - 1] /\ k # 1
            BY <3>2, <5>1
          <6> QED BY <5>1, <6>1
        <5>2. CASE k # m
          <6>1. k \in 1..(m - 1)
            BY <5>2
          <6>2. g[k] = IF k = 1 THEN s[k] ELSE g[k - 1] \o s[k]
            BY <4>1, <6>1
          <6>3. h[k] = g[k] /\ (k # 1 => h[k - 1] = g[k - 1])
            BY <5>2, <6>1
          <6> HIDE DEF h
          <6> QED BY <6>2, <6>3
        <5> QED BY <5>1, <5>2
      <4>3. Is(h, m)
        <5> HIDE DEF h
        <5>1. h = [k \in 1..m |-> h[k]]
          BY DEF h
        <5> QED BY <4>2, <5>1
      <4>4. m \in 0..n
        OBVIOUS
      <4> HIDE DEF Is, h
      <4> QED BY <4>3, <4>4
    <3> QED BY <3>1, <3>2
  <2>2. \E g : Is(g, n)
    <3>1. 0 \in Good /\ n \in 0..n
      OBVIOUS
    <3>2. n \in Good
      <4> HIDE DEF Good
      <4> QED BY <2>1, <3>1, UpTo
    <3> HIDE DEF Is
    <3> QED BY <1>2, <3>2
  <2> DEFINE w == CHOOSE g : Is(g, n)
  <2>3. Is(w, n)
    <3> HIDE DEF Is
    <3> QED BY <2>2
  <2>4. FlattenSeq(s) = w[n]
    BY <1>0, <1>2, Zenon DEF FlattenSeq
  <2> HIDE DEF w
  <2> DEFINE Fits == {m \in 0..n : m = 0 \/ Strung(w[m], s, m, T)}
  <2>5. ASSUME NEW m \in 1..n, m - 1 \in Fits PROVE m \in Fits
    <3>0. w[m] = IF m = 1 THEN s[m] ELSE w[m - 1] \o s[m]
      BY <2>3
    <3>1. CASE m = 1
      <4>1. w[m] = s[m] /\ s[m] \in Seq(T) /\ Len(s[m]) \in Nat
        BY <3>0, <3>1
      <4>2. PICK f : f = s[1]
        OBVIOUS
      <4> DEFINE a == [p \in 1..Len(f) |-> 1]  b == [p \in 1..Len(f) |-> p]
      <4>3. f \in Seq(T) /\ Len(f) \in Nat
        BY <3>1, <4>1, <4>2
      <4>4. /\ \A p \in 1..Len(f) : a[p] = 1 /\ b[p] = p
            /\ a \in [1..Len(f) -> 1..1] /\ b \in [1..Len(f) -> Nat]
        BY <4>3
      <4> HIDE DEF a, b
      <4>5. Placed(f, s, 1, a, b)
        BY <4>2, <4>4 DEF Placed
      <4>6. \A k \in 1..1 : \A i \in 1..Len(s[k]) : \E p \in 1..Len(f) : f[p] = s[k][i]
        <5>1. \A k \in 1..1 : k = 1
          OBVIOUS
        <5> QED BY <4>2, <5>1, Zenon
      <4>7. Strung(f, s, 1, T)
        BY <4>3, <4>5, <4>6, Zenon DEF Strung
      <4> QED BY <3>1, <4>1, <4>2, <4>7
    <3>2. CASE m # 1
      <4>1. m - 1 \in Nat /\ (m - 1) + 1 = m /\ m - 1 # 0
        BY <3>2
      <4>2. Strung(w[m - 1], s, m - 1, T)
        BY <2>5, <4>1
      <4>3. s[(m - 1) + 1] \in Seq(T)
        BY <4>1
      <4>4. Strung(w[m - 1] \o s[(m - 1) + 1], s, (m - 1) + 1, T)
        BY <4>1, <4>2, <4>3, OneMoreStrung, Zenon
      <4>5. Strung(w[m], s, m, T)
        <5>1. w[m] = w[m - 1] \o s[m]
          BY <3>0, <3>2
        <5> QED BY <4>1, <4>4, <5>1, Zenon
      <4>6. m \in 0..n
        OBVIOUS
      <4> QED BY <4>5, <4>6, Zenon
    <3> QED BY <3>1, <3>2
  <2>6. n \in Fits
    <3>1. 0 \in Fits /\ n \in 0..n
      OBVIOUS
    <3> HIDE DEF Fits
    <3> QED BY <2>5, <3>1, UpTo
  <2> HIDE DEF Is
  <2> QED BY <1>2, <2>4, <2>6
<1> QED BY <1>1, <1>2

(***************************************************************************)
(* The tables as values, so that the rows a lost tick brings back can be   *)
(* spoken of like the present ones: w a site, ks the campaigns, ds the     *)
(* candidates, rs the runs.                                                *)
(***************************************************************************)
OfIn(ds, c) == {i \in DOMAIN ds : ds[i].camp = c}
ValidIn(ds, c) == {i \in OfIn(ds, c) : ds[i].st = "valid"}
RunsIn(ds, rs, c) == {r \in DOMAIN rs : ds[rs[r].cand].camp = c}
LiveIn(ds, rs, c) == {r \in RunsIn(ds, rs, c) : rs[r].st = "live"}
GroupIn(ds, rs, c, g) ==
  {r \in RunsIn(ds, rs, c) : LET d == ds[rs[r].cand]
                             IN  d.cfg = g /\ ~d.base /\ stage_of(d) = "screen"}
MeasuredIn(ds, rs, c, g) == {r \in GroupIn(ds, rs, c, g) : rs[r].st = "succeeded" /\ rs[r].val # 0}
TotalIn(ds, rs, c, g) == SumFunction([r \in MeasuredIn(ds, rs, c, g) |-> rs[r].val])
BetterIn(ds, rs, c, g, h) ==
  LET a == TotalIn(ds, rs, c, g) * Cardinality(MeasuredIn(ds, rs, c, h))
      b == TotalIn(ds, rs, c, h) * Cardinality(MeasuredIn(ds, rs, c, g))
  IN  a > b \/ (a = b /\ Min(GroupIn(ds, rs, c, g)) < Min(GroupIn(ds, rs, c, h)))
RankedIn(ds, rs, c, S) == InOrder(S, {p \in S \X S : BetterIn(ds, rs, c, p[1], p[2])})
Rankable(w, ds, rs, c) == {g \in DOMAIN w.camps[c].cfgs : MeasuredIn(ds, rs, c, g) # {}}
Cut(q, k) == SubSeq(q, 1, IF k < Len(q) THEN k ELSE Len(q))
TopIn(w, ds, rs, c, k) == Cut(RankedIn(ds, rs, c, Rankable(w, ds, rs, c)), k)

Screened(ds, c, g) == {i \in OfIn(ds, c) : ds[i].cfg = g /\ ds[i].kind \in {"search", "confirmation"}}
Verified(ds, c, g) == {i \in OfIn(ds, c) : ds[i].cfg = g /\ ds[i].kind \in {"verification"}}

Covered(w, ds, c) == \A g \in DOMAIN w.camps[c].cfgs : \E i \in OfIn(ds, c) : ds[i].cfg = g
Confirmed(w, ds, rs, c) ==
  \A g \in ToSet(TopIn(w, ds, rs, c, w.camps[c].confirm_top_k)) :
    Cardinality(GroupIn(ds, rs, c, g)) >= w.camps[c].confirm_repeats
Proven(w, ds, rs, c) ==
  \A g \in ToSet(TopIn(w, ds, rs, c, w.camps[c].verify_top_k)) :
    \E i \in OfIn(ds, c) : ds[i].cfg = g /\ ds[i].kind = "verification"
Complete(w, ds, rs, c) ==
  /\ ValidIn(ds, c) = {} /\ LiveIn(ds, rs, c) = {}
  /\ Covered(w, ds, c) /\ Confirmed(w, ds, rs, c) /\ Proven(w, ds, rs, c)

LEMMA TablesNow ==
  ASSUME NEW c
  PROVE  /\ Of(c) = OfIn(cands, c) /\ Valid(c) = ValidIn(cands, c)
         /\ RunsOf(c) = RunsIn(cands, runs, c)
         /\ (\E r \in RunsOf(c) : IsLive(r)) <=> LiveIn(cands, runs, c) # {}
         /\ \A g : /\ Group(c, g) = GroupIn(cands, runs, c, g)
                   /\ Measured(c, g) = MeasuredIn(cands, runs, c, g)
                   /\ Total(c, g) = TotalIn(cands, runs, c, g)
         /\ \A S : Ranked(c, S) = RankedIn(cands, runs, c, S)
         /\ \A k : Top(c, k) = TopIn(site, cands, runs, c, k)
<1>1. Of(c) = OfIn(cands, c) /\ RunsOf(c) = RunsIn(cands, runs, c)
  BY Zenon DEF Of, OfIn, RunsOf, RunsIn
<1>2. Valid(c) = ValidIn(cands, c)
  BY <1>1 DEF Valid, ValidIn
<1>3. (\E r \in RunsOf(c) : IsLive(r)) <=> LiveIn(cands, runs, c) # {}
  BY <1>1 DEF IsLive, LiveIn
<1>4. \A g : Group(c, g) = GroupIn(cands, runs, c, g)
  BY <1>1, Zenon DEF Group, GroupIn
<1>5. \A g : Measured(c, g) = MeasuredIn(cands, runs, c, g)
  BY <1>4, Zenon DEF Measured, MeasuredIn
<1>6. \A g : Total(c, g) = TotalIn(cands, runs, c, g)
  BY <1>5, Zenon DEF Total, TotalIn
<1>7. \A g, h : Better(c, g, h) <=> BetterIn(cands, runs, c, g, h)
  <2> SUFFICES ASSUME NEW g, NEW h PROVE Better(c, g, h) <=> BetterIn(cands, runs, c, g, h)
    BY Zenon
  <2>1. /\ Group(c, g) = GroupIn(cands, runs, c, g) /\ Group(c, h) = GroupIn(cands, runs, c, h)
        /\ Measured(c, g) = MeasuredIn(cands, runs, c, g) /\ Measured(c, h) = MeasuredIn(cands, runs, c, h)
        /\ Total(c, g) = TotalIn(cands, runs, c, g) /\ Total(c, h) = TotalIn(cands, runs, c, h)
    BY <1>4, <1>5, <1>6, Zenon
  <2> QED BY <2>1, SMT DEF Better, BetterIn
<1>8. ASSUME NEW S PROVE Ranked(c, S) = RankedIn(cands, runs, c, S)
  <2>1. {p \in S \X S : Better(c, p[1], p[2])} = {p \in S \X S : BetterIn(cands, runs, c, p[1], p[2])}
    BY <1>7, Zenon
  <2> QED BY <2>1, Zenon DEF Ranked, RankedIn
<1>9. ranked_screen_configs(c) = RankedIn(cands, runs, c, Rankable(site, cands, runs, c))
  <2>1. {g \in DOMAIN Spec1(c).cfgs : Measured(c, g) # {}} = Rankable(site, cands, runs, c)
    BY <1>5, SMT DEF Rankable, Spec1
  <2> QED BY <1>8, <2>1, Zenon DEF ranked_screen_configs
<1>10. \A k : Top(c, k) = TopIn(site, cands, runs, c, k)
  BY <1>9, Zenon DEF Top, TopIn, Cut
<1> QED BY <1>1, <1>2, <1>3, <1>4, <1>5, <1>6, <1>8, <1>10

\* Nothing of campaign c has moved.
SameIn(ds, rs, ds2, rs2, c) ==
  /\ OfIn(ds2, c) = OfIn(ds, c) /\ RunsIn(ds2, rs2, c) = RunsIn(ds, rs, c)
  /\ \A i \in OfIn(ds, c) : ds2[i] = ds[i]
  /\ \A r \in RunsIn(ds, rs, c) : rs2[r] = rs[r] /\ rs[r].cand \in OfIn(ds, c)

LEMMA SameComplete ==
  ASSUME NEW w, NEW ds, NEW rs, NEW ds2, NEW rs2, NEW c, SameIn(ds, rs, ds2, rs2, c)
  PROVE  Complete(w, ds, rs, c) => Complete(w, ds2, rs2, c)
<1>1. /\ OfIn(ds2, c) = OfIn(ds, c) /\ RunsIn(ds2, rs2, c) = RunsIn(ds, rs, c)
      /\ \A i \in OfIn(ds, c) : ds2[i] = ds[i]
      /\ \A r \in RunsIn(ds, rs, c) : rs2[r] = rs[r] /\ rs[r].cand \in OfIn(ds, c)
  BY DEF SameIn
<1>2. \A r \in RunsIn(ds, rs, c) : ds2[rs2[r].cand] = ds[rs[r].cand]
  BY <1>1, Zenon
<1>3. \A g : GroupIn(ds2, rs2, c, g) = GroupIn(ds, rs, c, g)
  BY <1>1, <1>2, Zenon DEF GroupIn
<1>4. \A g : \A r \in GroupIn(ds, rs, c, g) : rs2[r] = rs[r]
  BY <1>1, Zenon DEF GroupIn
<1>5. \A g : MeasuredIn(ds2, rs2, c, g) = MeasuredIn(ds, rs, c, g)
  <2> SUFFICES ASSUME NEW g PROVE MeasuredIn(ds2, rs2, c, g) = MeasuredIn(ds, rs, c, g)
    OBVIOUS
  <2>1. GroupIn(ds2, rs2, c, g) = GroupIn(ds, rs, c, g) /\ \A r \in GroupIn(ds, rs, c, g) : rs2[r] = rs[r]
    BY <1>3, <1>4, Zenon
  <2> QED BY <2>1, SMT DEF MeasuredIn
<1>6. \A g : TotalIn(ds2, rs2, c, g) = TotalIn(ds, rs, c, g)
  <2> SUFFICES ASSUME NEW g PROVE TotalIn(ds2, rs2, c, g) = TotalIn(ds, rs, c, g)
    OBVIOUS
  <2>1. \A r \in MeasuredIn(ds, rs, c, g) : rs2[r] = rs[r]
    BY <1>4, Zenon DEF MeasuredIn
  <2>2. [r \in MeasuredIn(ds2, rs2, c, g) |-> rs2[r].val] = [r \in MeasuredIn(ds, rs, c, g) |-> rs[r].val]
    BY <1>5, <2>1
  <2> QED BY <2>2, Zenon DEF TotalIn
<1>7. \A g, h : BetterIn(ds2, rs2, c, g, h) <=> BetterIn(ds, rs, c, g, h)
  <2> SUFFICES ASSUME NEW g, NEW h PROVE BetterIn(ds2, rs2, c, g, h) <=> BetterIn(ds, rs, c, g, h)
    BY Zenon
  <2>1. /\ GroupIn(ds2, rs2, c, g) = GroupIn(ds, rs, c, g) /\ GroupIn(ds2, rs2, c, h) = GroupIn(ds, rs, c, h)
        /\ MeasuredIn(ds2, rs2, c, g) = MeasuredIn(ds, rs, c, g)
        /\ MeasuredIn(ds2, rs2, c, h) = MeasuredIn(ds, rs, c, h)
        /\ TotalIn(ds2, rs2, c, g) = TotalIn(ds, rs, c, g) /\ TotalIn(ds2, rs2, c, h) = TotalIn(ds, rs, c, h)
    BY <1>3, <1>5, <1>6, Zenon
  <2> QED BY <2>1, SMT DEF BetterIn
<1>8. Rankable(w, ds2, rs2, c) = Rankable(w, ds, rs, c)
  BY <1>5, Zenon DEF Rankable
<1>9. \A S : RankedIn(ds2, rs2, c, S) = RankedIn(ds, rs, c, S)
  <2> SUFFICES ASSUME NEW S PROVE RankedIn(ds2, rs2, c, S) = RankedIn(ds, rs, c, S)
    OBVIOUS
  <2>1. {p \in S \X S : BetterIn(ds2, rs2, c, p[1], p[2])} = {p \in S \X S : BetterIn(ds, rs, c, p[1], p[2])}
    BY <1>7, Zenon
  <2> QED BY <2>1, Zenon DEF RankedIn
<1>10. \A k : TopIn(w, ds2, rs2, c, k) = TopIn(w, ds, rs, c, k)
  BY <1>8, <1>9, Zenon DEF TopIn
<1>11. ValidIn(ds2, c) = ValidIn(ds, c) /\ LiveIn(ds2, rs2, c) = LiveIn(ds, rs, c)
  BY <1>1, Zenon DEF ValidIn, LiveIn
<1>12. Covered(w, ds, c) => Covered(w, ds2, c)
  BY <1>1, Zenon DEF Covered
<1>13. Confirmed(w, ds, rs, c) => Confirmed(w, ds2, rs2, c)
  BY <1>3, <1>10, Zenon DEF Confirmed
<1>14. Proven(w, ds, rs, c) => Proven(w, ds2, rs2, c)
  BY <1>1, <1>10, SMT DEF Proven
<1> QED BY <1>11, <1>12, <1>13, <1>14, Zenon DEF Complete

(***************************************************************************)
(* The inductive invariant.  First what is true of the tables, present or  *)
(* brought back.                                                           *)
(***************************************************************************)
CampStates == {"unborn", "draft", "scheduled", "active", "paused", "done", "deleted"}
Answers == {"", "adopted", "current", "rebuilt", "unavailable"}
CampRows ==
  [st : CampStates, by : {"person", "clock", "plugin", "worker"}, sch : Schedules,
   start : Int, end : Int, over : Int, closing : BOOLEAN, build : Nat, row : Nat, applied : Answers]
CandRows(w) ==
  [camp : DOMAIN w.camps, cfg : Nat, kind : {"search", "confirmation", "verification"},
   base : BOOLEAN, st : {"valid", "invalid", "exhausted", "deleted"}, created : Nat]
RunRows(w) ==
  [cand : Nat, machine : DOMAIN w.machines, width : Nat,
   st : {"live", "succeeded", "failed", "killed"}, started : Int,
   out : {"none", "measured", "fault", "infra"}, val : Nat, stop : BOOLEAN,
   released : BOOLEAN, build : Nat]
Tickets == [arrival : Int, seen : Int]

\* The candidate of a point of the space, or of the reference.
PointOK(w, d) == IF d.base THEN d.cfg = BaselineCfg ELSE d.cfg \in DOMAIN w.camps[d.camp].cfgs
Linked(ds, rs) == \A r \in DOMAIN rs : rs[r].cand \in DOMAIN ds
Typed(w, ks, ds, rs, ts) ==
  /\ ks \in [DOMAIN w.camps -> CampRows] /\ ts \in [DOMAIN w.camps -> Tickets]
  /\ ds \in Seq(CandRows(w)) /\ rs \in Seq(RunRows(w))
  /\ \A i \in DOMAIN ds : PointOK(w, ds[i])
  /\ Linked(ds, rs)

\* A candidate that is spent was run; one that no machine could take never was,
\* and is the only one of its point; one that is gone went with its campaign.
Spent(ds, rs) == \A i \in DOMAIN ds : ds[i].st = "exhausted" => \E r \in DOMAIN rs : rs[r].cand = i
Hopeless(ds, rs) ==
  \A i \in DOMAIN ds : ds[i].st = "invalid" =>
    /\ ~ds[i].base /\ \A r \in DOMAIN rs : rs[r].cand # i
    /\ \A j \in DOMAIN ds : ds[j].camp = ds[i].camp /\ ds[j].cfg = ds[i].cfg => j = i
Gone(ks, ds) == \A i \in DOMAIN ds : ds[i].st = "deleted" => ks[ds[i].camp].st = "deleted"
Bounded(w, ds) ==
  \A c \in DOMAIN w.camps : \A g \in DOMAIN w.camps[c].cfgs :
    /\ Cardinality(Screened(ds, c, g)) <= w.camps[c].confirm_repeats
    /\ Cardinality(Verified(ds, c, g)) <= 1
Over(k) == k.st = "done" /\ k.by = "worker"
Finished(w, ks, ds, rs) == \A c \in DOMAIN w.camps : Over(ks[c]) => Complete(w, ds, rs, c)
Fixed(w, ks) == w.schedules = {} => \A c \in DOMAIN w.camps : ks[c].sch = w.camps[c].sch
Unstopped(w, ks) == \A c \in DOMAIN w.camps : ks[c].st = "unborn" => ~ks[c].closing
RowsInv(w, ks, ds, rs, ts) ==
  /\ Typed(w, ks, ds, rs, ts)
  /\ Spent(ds, rs) /\ Hopeless(ds, rs) /\ Gone(ks, ds)
  /\ Bounded(w, ds) /\ Finished(w, ks, ds, rs) /\ Fixed(w, ks) /\ Unstopped(w, ks)

\* A campaign its plugin is stopping, under no nightly schedule.
Leaving(w, k, c) ==
  /\ k.closing /\ k.st \notin {"unborn", "deleted"}
  /\ ~from_campaign(w.camps[c].sch) /\ w.schedules = {}
Empty(w, ks, ds, rs) ==
  \A c \in DOMAIN w.camps : Leaving(w, ks[c], c) => LiveIn(ds, rs, c) = {}

(***************************************************************************)
(* Then what is true of a tick under way.                                  *)
(***************************************************************************)
Stages == {"idle", "plugins", "pins", "plan", "list", "tickets", "queue", "advance", "windows"}
Turns(w) ==
  [at : Stages, todo : Seq(DOMAIN w.camps), blocked : SUBSET DOMAIN w.machines, served : SUBSET DOMAIN w.camps]
Between == turn = Free /\ Empty(site, camp, cands, runs)
\* The rows that a lost tick brings back.
Under ==
  /\ RowsInv(site, saved[1], saved[2], saved[3], saved[4])
  /\ Empty(site, saved[1], saved[2], saved[3])
  /\ Len(saved[2]) <= Len(cands) /\ Len(saved[3]) <= Len(runs)
\* What the plugin is stopping, it has shut when the clock runs.
Shuts ==
  \A c \in Camps : Leaving(site, camp[c], c) /\ (turn.at = "plugins" => c \in turn.served)
                   => camp[c].end # NoTime /\ camp[c].end <= now
AllPlanned == \A c \in Camps : camp[c].st = "active" => Covered(site, cands, c)
InLine ==
  /\ \A i, j \in DOMAIN turn.todo : turn.todo[i] = turn.todo[j] => i = j
  /\ \A i \in DOMAIN turn.todo : camp[turn.todo[i]].st = "active"

Inv ==
  /\ site \in Sites /\ now \in Nat /\ prof \in Profiles /\ turn \in Turns(site)
  /\ RowsInv(site, camp, cands, runs, ticket)
  /\ IF Idle THEN Between ELSE Under /\ Shuts
  /\ turn.at \in {"list", "tickets", "queue"} => AllPlanned
  /\ turn.at = "queue" => InLine

(***************************************************************************)
(* And of the queue, for NotOvertaken: the waiters that were not served    *)
(* come first, in the order of their tickets, and one that has left the    *)
(* line unserved has every machine it could use held.                      *)
(***************************************************************************)
Sorted ==
  \A i, j \in DOMAIN turn.todo : i < j =>
    /\ turn.todo[i] \in turn.served => turn.todo[j] \in turn.served
    /\ turn.todo[j] \notin turn.served => Before(ticket, turn.todo[i], turn.todo[j])
HeldFor(d) == \A m \in Machines \ turn.blocked : FitsEmpty(d, m) \cap Standing = {}
Waited ==
  \A d \in Camps :
    Listed(d) /\ d \notin turn.served => d \in ToSet(turn.todo) \/ HeldFor(d)
QInv == turn.at = "queue" => Sorted /\ Waited

(***************************************************************************)
(* Sites, groups of runs and their ranking.                                *)
(***************************************************************************)
LEMMA SiteFacts ==
  ASSUME NEW w \in Sites
  PROVE  /\ Len(w.camps) \in Nat /\ DOMAIN w.camps = 1..Len(w.camps) /\ IsFiniteSet(DOMAIN w.camps)
         /\ Len(w.machines) \in Nat /\ DOMAIN w.machines = 1..Len(w.machines)
         /\ \A m \in DOMAIN w.machines : w.machines[m] \in Nat
         /\ w.schedules \subseteq Schedules /\ w.hours \subseteq Nat \ {0} /\ w.prof \in Profiles
<1>1. SiteOK(w)
  BY SitesAssumption
<1>2. Len(w.camps) \in Nat /\ DOMAIN w.camps = 1..Len(w.camps) /\ w.machines \in Seq(Nat)
  BY <1>1, Zenon DEF SiteOK
<1>3. IsFiniteSet(1..Len(w.camps))
  BY <1>2, FS_Interval
<1>4. /\ Len(w.machines) \in Nat /\ DOMAIN w.machines = 1..Len(w.machines)
      /\ \A m \in DOMAIN w.machines : w.machines[m] \in Nat
  BY <1>2
<1>5. w.schedules \subseteq Schedules /\ w.hours \subseteq Nat \ {0} /\ w.prof \in Profiles
  BY <1>1, Zenon DEF SiteOK
<1> QED BY <1>2, <1>3, <1>4, <1>5

LEMMA CampFacts ==
  ASSUME NEW w \in Sites, NEW c \in DOMAIN w.camps
  PROVE  LET k == w.camps[c]
         IN  /\ k.st \in CampStates \ {"deleted"} /\ k.sch \in Schedules /\ k.end \in Int
             /\ k.outs \subseteq {"measured", "fault", "infra"} /\ k.vals \subseteq Nat
             /\ Len(k.cfgs) \in Nat /\ DOMAIN k.cfgs = 1..Len(k.cfgs)
             /\ \A g \in DOMAIN k.cfgs : k.cfgs[g] \in Nat \ {0}
             /\ k.confirm_top_k \in Nat /\ k.verify_top_k \in Nat /\ k.confirm_repeats \in Nat \ {0}
<1> DEFINE k == w.camps[c]
<1>1. SiteOK(w)
  BY SitesAssumption
<1>2. /\ k.st \in {"unborn", "draft", "scheduled", "active", "paused", "done"}
      /\ k.sch \in Schedules /\ k.end \in Nat \cup {NoTime}
      /\ k.outs \subseteq {"measured", "fault", "infra"} /\ k.vals \subseteq Nat
      /\ k.cfgs \in Seq(Nat \ {0})
      /\ {k.confirm_top_k, k.verify_top_k} \subseteq Nat /\ k.confirm_repeats \in Nat \ {0}
  BY <1>1, Zenon DEF SiteOK
<1> HIDE DEF k
<1>3. k.st \in CampStates \ {"deleted"} /\ k.end \in Int /\ k.confirm_top_k \in Nat /\ k.verify_top_k \in Nat
  BY <1>2 DEF CampStates, NoTime
<1>4. Len(k.cfgs) \in Nat /\ DOMAIN k.cfgs = 1..Len(k.cfgs) /\ \A g \in DOMAIN k.cfgs : k.cfgs[g] \in Nat \ {0}
  BY <1>2
<1> QED BY <1>2, <1>3, <1>4 DEF k

\* The runs of one configuration: finitely many, by their numbers.
LEMMA GroupIs ==
  ASSUME NEW w, NEW ds, NEW rs \in Seq(RunRows(w)), NEW c, NEW g
  PROVE  /\ GroupIn(ds, rs, c, g) \subseteq Nat /\ IsFiniteSet(GroupIn(ds, rs, c, g))
         /\ Cardinality(GroupIn(ds, rs, c, g)) \in Nat
         /\ MeasuredIn(ds, rs, c, g) \subseteq GroupIn(ds, rs, c, g)
         /\ Cardinality(MeasuredIn(ds, rs, c, g)) \in Nat
         /\ Cardinality(MeasuredIn(ds, rs, c, g)) = 0 => MeasuredIn(ds, rs, c, g) = {}
         /\ TotalIn(ds, rs, c, g) \in Nat
<1> DEFINE G == GroupIn(ds, rs, c, g)
           M == MeasuredIn(ds, rs, c, g)
<1>1. Len(rs) \in Nat /\ DOMAIN rs = 1..Len(rs) /\ \A r \in DOMAIN rs : rs[r] \in RunRows(w)
  BY LenProperties
<1>2. G \subseteq DOMAIN rs /\ M \subseteq G
  BY Zenon DEF GroupIn, MeasuredIn, RunsIn
<1> HIDE DEF G, M
<1>3. IsFiniteSet(1..Len(rs))
  BY <1>1, FS_Interval
<1>4. IsFiniteSet(G)
  BY <1>1, <1>2, <1>3, FS_Subset
<1>5. IsFiniteSet(M)
  BY <1>2, <1>4, FS_Subset
<1>6. Cardinality(G) \in Nat /\ Cardinality(M) \in Nat /\ (Cardinality(M) = 0 => M = {})
  BY <1>4, <1>5, FS_CardinalityType, FS_EmptySet
<1>7. G \subseteq Nat
  BY <1>1, <1>2
<1>8. [r \in M |-> rs[r].val] \in [M -> Nat]
  <2>1. \A r \in M : rs[r].val \in Nat
    BY <1>1, <1>2 DEF RunRows
  <2> QED BY <2>1
<1>9. SumFunction([r \in M |-> rs[r].val]) \in Nat
  BY <1>5, <1>8, SumIs
<1>10. TotalIn(ds, rs, c, g) \in Nat
  BY <1>9, Zenon DEF TotalIn, M
<1> QED BY <1>2, <1>4, <1>6, <1>7, <1>10 DEF G, M

\* The ranking lists the configurations that were measured, each once.
LEMMA RankedIs ==
  ASSUME NEW w, NEW ds, NEW rs \in Seq(RunRows(w)), NEW c, NEW S, IsFiniteSet(S),
         \A g \in S : MeasuredIn(ds, rs, c, g) # {}
  PROVE  Lists(RankedIn(ds, rs, c, S), S, {p \in S \X S : BetterIn(ds, rs, c, p[1], p[2])})
<1> DEFINE a == [g \in S |-> TotalIn(ds, rs, c, g)]
           b == [g \in S |-> Cardinality(MeasuredIn(ds, rs, c, g))]
           f == [g \in S |-> Min(GroupIn(ds, rs, c, g))]
           R == {p \in S \X S : BetterIn(ds, rs, c, p[1], p[2])}
           Q == RankOrder(S, a, b, f)
<1>1. a \in [S -> Nat]
  BY GroupIs
<1>2. b \in [S -> Nat \ {0}]
  BY GroupIs
<1>3. ASSUME NEW g \in S PROVE f[g] \in Nat /\ f[g] \in GroupIn(ds, rs, c, g)
  <2>1. GroupIn(ds, rs, c, g) \subseteq Nat /\ GroupIn(ds, rs, c, g) # {}
    BY GroupIs
  <2>2. Min(GroupIn(ds, rs, c, g)) \in GroupIn(ds, rs, c, g)
    BY <2>1, MinIs
  <2> QED BY <2>1, <2>2
<1>4. f \in [S -> Nat]
  BY <1>3
<1>5. \A g : \A r \in GroupIn(ds, rs, c, g) : ds[rs[r].cand].cfg = g
  BY Zenon DEF GroupIn
<1>6. \A g, h \in S : f[g] = f[h] => g = h
  <2> HIDE DEF f
  <2> QED BY <1>3, <1>5, Zenon
<1>7. \A g, h \in S : Outranks(a, b, f, g, h) <=> BetterIn(ds, rs, c, g, h)
  <2> SUFFICES ASSUME NEW g \in S, NEW h \in S
      PROVE  Outranks(a, b, f, g, h) <=> BetterIn(ds, rs, c, g, h)
    OBVIOUS
  <2>1. /\ a[g] = TotalIn(ds, rs, c, g) /\ a[h] = TotalIn(ds, rs, c, h)
        /\ b[g] = Cardinality(MeasuredIn(ds, rs, c, g)) /\ b[h] = Cardinality(MeasuredIn(ds, rs, c, h))
        /\ f[g] = Min(GroupIn(ds, rs, c, g)) /\ f[h] = Min(GroupIn(ds, rs, c, h))
    OBVIOUS
  <2> HIDE DEF a, b, f
  <2> QED BY <2>1, SMT DEF Outranks, BetterIn
<1> HIDE DEF a, b, f
<1>8. StrictOrder(S, Q)
  BY <1>1, <1>2, <1>4, <1>6, MeansOrder
<1>9. Q = R
  <2>1. \A p \in S \X S : p[1] \in S /\ p[2] \in S
    OBVIOUS
  <2> QED BY <1>7, <2>1, Zenon DEF RankOrder
<1> HIDE DEF Q
<1>10. Lists(InOrder(S, Q), S, Q)
  BY <1>8, InOrderIs
<1> QED BY <1>9, <1>10, Zenon DEF RankedIn

\* The best k: configurations that were measured, each once.
TopFacts(w, ds, rs, c, k) ==
  LET top == TopIn(w, ds, rs, c, k)
  IN  /\ Len(top) \in Nat /\ top \in Seq(Rankable(w, ds, rs, c)) /\ DOMAIN top = 1..Len(top)
      /\ \A i, j \in DOMAIN top : top[i] = top[j] => i = j
      /\ k = 0 => top = <<>>
      /\ Rankable(w, ds, rs, c) \subseteq DOMAIN w.camps[c].cfgs /\ IsFiniteSet(Rankable(w, ds, rs, c))

LEMMA TopIs ==
  ASSUME NEW w \in Sites, NEW ds, NEW rs \in Seq(RunRows(w)), NEW c \in DOMAIN w.camps, NEW k \in Nat
  PROVE  TopFacts(w, ds, rs, c, k)
<1> DEFINE S == Rankable(w, ds, rs, c)
           q == RankedIn(ds, rs, c, S)
           n == IF k < Len(q) THEN k ELSE Len(q)
           R == {p \in S \X S : BetterIn(ds, rs, c, p[1], p[2])}
           m == Cardinality(S)
<1>1. Len(w.camps[c].cfgs) \in Nat /\ DOMAIN w.camps[c].cfgs = 1..Len(w.camps[c].cfgs)
  BY CampFacts
<1>2. S \subseteq DOMAIN w.camps[c].cfgs /\ \A g \in S : MeasuredIn(ds, rs, c, g) # {}
  BY Zenon DEF Rankable
<1> HIDE DEF S, R
<1>3. IsFiniteSet(S)
  <2>1. PICK l \in Nat : DOMAIN w.camps[c].cfgs = 1..l
    BY <1>1
  <2>2. IsFiniteSet(1..l)
    BY FS_Interval
  <2> QED BY <1>2, <2>1, <2>2, FS_Subset
<1>4. Lists(q, S, R)
  BY <1>2, <1>3, RankedIs DEF R
<1>5. m \in Nat /\ q \in [1..m -> S] /\ \A i, j \in 1..m : q[i] = q[j] => i = j
  BY <1>4, ListsOnce, Zenon DEF Lists
<1> HIDE DEF q, m
<1>6. q \in Seq(S) /\ Len(q) = m
  BY <1>5
<1>7. n \in Nat /\ n <= m /\ (k = 0 => n = 0)
  BY <1>5, <1>6
<1>8. TopIn(w, ds, rs, c, k) = SubSeq(q, 1, n)
  BY Zenon DEF TopIn, Cut, q, S
<1> HIDE DEF n
<1>9. \A i \in 1..n : q[i] \in S
  BY <1>5, <1>7
<1> DEFINE t == SubSeq(q, 1, n)
<1>10. t \in Seq(S) /\ Len(t) = n /\ \A i \in 1..n : t[i] = q[i]
  <2>1. /\ t \in Seq(S) /\ Len(t) = IF 1 <= n THEN n - 1 + 1 ELSE 0
        /\ \A i \in 1..(n - 1 + 1) : t[i] = q[1 + i - 1]
    BY <1>7, <1>9, SubSeqProperties
  <2> HIDE DEF t
  <2> QED BY <1>7, <2>1
<1>11. k = 0 => t = <<>>
  <2> HIDE DEF t
  <2> QED BY <1>7, <1>10, EmptySeq
<1> HIDE DEF t
<1>12. DOMAIN t = 1..n
  BY <1>10
<1>13. \A i, j \in 1..n : t[i] = t[j] => i = j
  BY <1>5, <1>7, <1>10
<1>14. TopIn(w, ds, rs, c, k) = t
  BY <1>8 DEF t
<1> QED BY <1>2, <1>3, <1>7, <1>10, <1>11, <1>12, <1>13, <1>14 DEF S, TopFacts

(***************************************************************************)
(* Steps that add no row.                                                  *)
(***************************************************************************)
\* What a step makes of a campaign's row: none comes back from the dead or is
\* born shut, none is called done for the worker, and the timetable stays.
KeptCamp(w, k, k2) ==
  /\ k.st = "deleted" => k2.st = "deleted"
  /\ Over(k2) => Over(k)
  /\ w.schedules = {} => k2.sch = k.sch
  /\ k2.st = "unborn" => k.st = "unborn" /\ k2.closing = k.closing
Shape(ds, ds2) ==
  /\ DOMAIN ds2 = DOMAIN ds
  /\ \A i \in DOMAIN ds : /\ ds2[i].camp = ds[i].camp /\ ds2[i].cfg = ds[i].cfg
                          /\ ds2[i].kind = ds[i].kind /\ ds2[i].base = ds[i].base
Holders(rs, rs2) == DOMAIN rs2 = DOMAIN rs /\ \A r \in DOMAIN rs : rs2[r].cand = rs[r].cand

LEMMA TypedIs ==
  ASSUME NEW w, NEW ks, NEW ds, NEW rs, NEW ts, Typed(w, ks, ds, rs, ts)
  PROVE  /\ Len(ds) \in Nat /\ DOMAIN ds = 1..Len(ds) /\ \A i \in DOMAIN ds : ds[i] \in CandRows(w)
         /\ Len(rs) \in Nat /\ DOMAIN rs = 1..Len(rs) /\ \A r \in DOMAIN rs : rs[r] \in RunRows(w)
         /\ Linked(ds, rs) /\ \A r \in DOMAIN rs : rs[r].cand \in DOMAIN ds
         /\ \A c : \A r \in RunsIn(ds, rs, c) : rs[r].cand \in OfIn(ds, c)
<1>1. ds \in Seq(CandRows(w)) /\ rs \in Seq(RunRows(w)) /\ Linked(ds, rs) /\ \A r \in DOMAIN rs : rs[r].cand \in DOMAIN ds
  BY Zenon DEF Typed, Linked
<1>2. /\ Len(ds) \in Nat /\ DOMAIN ds = 1..Len(ds) /\ \A i \in DOMAIN ds : ds[i] \in CandRows(w)
      /\ Len(rs) \in Nat /\ DOMAIN rs = 1..Len(rs) /\ \A r \in DOMAIN rs : rs[r] \in RunRows(w)
  BY <1>1, LenProperties
<1>3. \A c : \A r \in RunsIn(ds, rs, c) : rs[r].cand \in OfIn(ds, c)
  BY <1>1, Zenon DEF RunsIn, OfIn
<1> QED BY <1>1, <1>2, <1>3

\* The same candidates and runs for every campaign.
SameShape(ds, rs, ds2, rs2) ==
  \A c : /\ OfIn(ds2, c) = OfIn(ds, c) /\ RunsIn(ds2, rs2, c) = RunsIn(ds, rs, c)
         /\ \A g : Screened(ds2, c, g) = Screened(ds, c, g) /\ Verified(ds2, c, g) = Verified(ds, c, g)

LEMMA ShapeSame ==
  ASSUME NEW ds, NEW rs, NEW ds2, NEW rs2, Shape(ds, ds2), Holders(rs, rs2), Linked(ds, rs)
  PROVE  SameShape(ds, rs, ds2, rs2)
<1> SUFFICES ASSUME NEW c
    PROVE  /\ OfIn(ds2, c) = OfIn(ds, c) /\ RunsIn(ds2, rs2, c) = RunsIn(ds, rs, c)
           /\ \A g : Screened(ds2, c, g) = Screened(ds, c, g) /\ Verified(ds2, c, g) = Verified(ds, c, g)
  BY DEF SameShape
<1>1. DOMAIN ds2 = DOMAIN ds /\ \A i \in DOMAIN ds : /\ ds2[i].camp = ds[i].camp /\ ds2[i].cfg = ds[i].cfg
                                                     /\ ds2[i].kind = ds[i].kind
  BY Zenon DEF Shape
<1>2. DOMAIN rs2 = DOMAIN rs /\ \A r \in DOMAIN rs : rs2[r].cand = rs[r].cand
  BY Zenon DEF Holders
<1>3. OfIn(ds2, c) = OfIn(ds, c)
  BY <1>1, SMT DEF OfIn
<1>4. RunsIn(ds2, rs2, c) = RunsIn(ds, rs, c)
  BY <1>1, <1>2, SMT DEF RunsIn, Linked
<1>5. ASSUME NEW g PROVE Screened(ds2, c, g) = Screened(ds, c, g) /\ Verified(ds2, c, g) = Verified(ds, c, g)
  <2>1. \A i \in OfIn(ds, c) : ds2[i].cfg = ds[i].cfg /\ ds2[i].kind = ds[i].kind
    BY <1>1 DEF OfIn
  <2> QED BY <1>3, <2>1, SMT DEF Screened, Verified
<1> QED BY <1>3, <1>4, <1>5

LEMMA RowsMoved ==
  ASSUME NEW w, NEW ks, NEW ds, NEW rs, NEW ts, RowsInv(w, ks, ds, rs, ts),
         NEW ks2 \in [DOMAIN w.camps -> CampRows], NEW ts2 \in [DOMAIN w.camps -> Tickets],
         NEW ds2 \in Seq(CandRows(w)), NEW rs2 \in Seq(RunRows(w)),
         Shape(ds, ds2), Holders(rs, rs2),
         \A c \in DOMAIN w.camps : KeptCamp(w, ks[c], ks2[c]),
         \A i \in DOMAIN ds : /\ ds2[i].st = "exhausted" => ds[i].st = "exhausted"
                              /\ ds2[i].st = "invalid" => ds[i].st = "invalid"
                              /\ ds2[i].st = "deleted" => ks2[ds[i].camp].st = "deleted",
         \A c \in DOMAIN w.camps : Over(ks2[c]) =>
            /\ \A i \in OfIn(ds, c) : ds2[i] = ds[i]
            /\ \A r \in RunsIn(ds, rs, c) : rs2[r] = rs[r]
  PROVE  RowsInv(w, ks2, ds2, rs2, ts2)
<1>1. Typed(w, ks, ds, rs, ts) /\ Spent(ds, rs) /\ Hopeless(ds, rs) /\ Bounded(w, ds)
  BY Zenon DEF RowsInv
<1>2. /\ Finished(w, ks, ds, rs) /\ Fixed(w, ks) /\ Unstopped(w, ks)
  BY Zenon DEF RowsInv
<1>3. /\ DOMAIN ds2 = DOMAIN ds
      /\ \A i \in DOMAIN ds : /\ ds2[i].camp = ds[i].camp /\ ds2[i].cfg = ds[i].cfg
                              /\ ds2[i].kind = ds[i].kind /\ ds2[i].base = ds[i].base
  BY Zenon DEF Shape
<1>4. DOMAIN rs2 = DOMAIN rs /\ \A r \in DOMAIN rs : rs2[r].cand = rs[r].cand
  BY Zenon DEF Holders
<1>5. /\ Linked(ds, rs) /\ \A r \in DOMAIN rs : rs[r].cand \in DOMAIN ds
      /\ \A c : \A r \in RunsIn(ds, rs, c) : rs[r].cand \in OfIn(ds, c)
  BY <1>1, TypedIs, Zenon
<1>6. \A i \in DOMAIN ds : PointOK(w, ds[i])
  BY <1>1, Zenon DEF Typed
<1>7. Typed(w, ks2, ds2, rs2, ts2)
  <2>1. \A i \in DOMAIN ds2 : PointOK(w, ds2[i])
    BY <1>3, <1>6, SMT DEF PointOK
  <2>2. \A r \in DOMAIN rs2 : rs2[r].cand \in DOMAIN ds2
    BY <1>3, <1>4, <1>5
  <2> QED BY <2>1, <2>2, Zenon DEF Typed, Linked
<1>8. Spent(ds2, rs2)
  <2> SUFFICES ASSUME NEW i \in DOMAIN ds, ds2[i].st = "exhausted"
      PROVE  \E r \in DOMAIN rs2 : rs2[r].cand = i
    BY <1>3, Zenon DEF Spent
  <2>1. PICK r \in DOMAIN rs : rs[r].cand = i
    BY <1>1, Zenon DEF Spent
  <2> QED BY <1>4, <2>1, Zenon
<1>9. Hopeless(ds2, rs2)
  <2> SUFFICES ASSUME NEW i \in DOMAIN ds, ds2[i].st = "invalid"
      PROVE  /\ ~ds2[i].base /\ \A r \in DOMAIN rs2 : rs2[r].cand # i
             /\ \A j \in DOMAIN ds2 : ds2[j].camp = ds2[i].camp /\ ds2[j].cfg = ds2[i].cfg => j = i
    BY <1>3, Zenon DEF Hopeless
  <2>1. /\ ~ds[i].base /\ \A r \in DOMAIN rs : rs[r].cand # i
        /\ \A j \in DOMAIN ds : ds[j].camp = ds[i].camp /\ ds[j].cfg = ds[i].cfg => j = i
    BY <1>1, Zenon DEF Hopeless
  <2> QED BY <1>3, <1>4, <2>1, Zenon
<1>10. Gone(ks2, ds2)
  BY <1>3, SMT DEF Gone
<1>S. SameShape(ds, rs, ds2, rs2)
  BY <1>5, ShapeSame, Zenon
<1>11. Bounded(w, ds2)
  <2> SUFFICES ASSUME NEW c \in DOMAIN w.camps, NEW g \in DOMAIN w.camps[c].cfgs
      PROVE  /\ Cardinality(Screened(ds2, c, g)) <= w.camps[c].confirm_repeats
             /\ Cardinality(Verified(ds2, c, g)) <= 1
    BY Zenon DEF Bounded
  <2>1. Screened(ds2, c, g) = Screened(ds, c, g) /\ Verified(ds2, c, g) = Verified(ds, c, g)
    BY <1>S, SMT DEF SameShape
  <2>2. /\ Cardinality(Screened(ds, c, g)) <= w.camps[c].confirm_repeats
        /\ Cardinality(Verified(ds, c, g)) <= 1
    BY <1>1, Zenon DEF Bounded
  <2> QED BY <2>1, <2>2
<1>12. Finished(w, ks2, ds2, rs2)
  <2> SUFFICES ASSUME NEW c \in DOMAIN w.camps, Over(ks2[c]) PROVE Complete(w, ds2, rs2, c)
    BY Zenon DEF Finished
  <2>1. Over(ks[c])
    BY Zenon DEF KeptCamp
  <2>2. Complete(w, ds, rs, c)
    BY <1>2, <2>1, Zenon DEF Finished
  <2>3. OfIn(ds2, c) = OfIn(ds, c) /\ RunsIn(ds2, rs2, c) = RunsIn(ds, rs, c)
    BY <1>S, Zenon DEF SameShape
  <2>4. SameIn(ds, rs, ds2, rs2, c)
    BY <1>5, <2>3, Zenon DEF SameIn
  <2> QED BY <2>2, <2>4, SameComplete, Zenon
<1>13. Fixed(w, ks2)
  BY <1>2, SMT DEF Fixed, KeptCamp
<1>14. Unstopped(w, ks2)
  BY <1>2, SMT DEF Unstopped, KeptCamp
<1> QED BY <1>7, <1>8, <1>9, <1>10, <1>11, <1>12, <1>13, <1>14, Zenon DEF RowsInv

\* Nothing but the campaigns and the tickets moves.
LEMMA RowsCamps ==
  ASSUME NEW w, NEW ks, NEW ds, NEW rs, NEW ts, RowsInv(w, ks, ds, rs, ts),
         NEW ks2 \in [DOMAIN w.camps -> CampRows], NEW ts2 \in [DOMAIN w.camps -> Tickets],
         \A c \in DOMAIN w.camps : KeptCamp(w, ks[c], ks2[c])
  PROVE  RowsInv(w, ks2, ds, rs, ts2)
<1>1. Typed(w, ks, ds, rs, ts) /\ Gone(ks, ds)
  BY Zenon DEF RowsInv
<1>2. ds \in Seq(CandRows(w)) /\ rs \in Seq(RunRows(w))
  BY <1>1, Zenon DEF Typed
<1>3. Shape(ds, ds) /\ Holders(rs, rs)
  BY Zenon DEF Shape, Holders
<1>4. \A i \in DOMAIN ds : ds[i].camp \in DOMAIN w.camps
  BY <1>1, TypedIs DEF CandRows
<1>5. \A i \in DOMAIN ds : ds[i].st = "deleted" => ks2[ds[i].camp].st = "deleted"
  BY <1>1, <1>4, SMT DEF Gone, KeptCamp
<1> QED BY <1>2, <1>3, <1>5, RowsMoved, Zenon

\* No run comes to life.
LEMMA EmptyMoved ==
  ASSUME NEW w, NEW ks, NEW ds, NEW rs, NEW ks2, NEW ds2, NEW rs2, Empty(w, ks, ds, rs),
         Linked(ds, rs), Shape(ds, ds2), Holders(rs, rs2),
         \A r \in DOMAIN rs : rs2[r].st = "live" => rs[r].st = "live",
         \A c \in DOMAIN w.camps : Leaving(w, ks2[c], c) => Leaving(w, ks[c], c)
  PROVE  Empty(w, ks2, ds2, rs2)
<1>S. SameShape(ds, rs, ds2, rs2)
  BY ShapeSame, Zenon
<1>1. \A c : RunsIn(ds2, rs2, c) = RunsIn(ds, rs, c)
  BY <1>S, Zenon DEF SameShape
<1>2. \A c : LiveIn(ds, rs, c) = {} => LiveIn(ds2, rs2, c) = {}
  <2>1. \A c : RunsIn(ds, rs, c) \subseteq DOMAIN rs
    BY Zenon DEF RunsIn
  <2> QED BY <1>1, <2>1, SMT DEF LiveIn
<1> QED BY <1>2, Zenon DEF Empty


(***************************************************************************)
(* Steps that add candidates.                                              *)
(***************************************************************************)
LEMMA AtMostOne ==
  ASSUME NEW S, \A a, b \in S : a = b
  PROVE  IsFiniteSet(S) /\ Cardinality(S) \in Nat /\ Cardinality(S) <= 1
<1>1. CASE S = {}
  BY <1>1, FS_EmptySet
<1>2. CASE S # {}
  <2>1. PICK a \in S : TRUE
    BY <1>2
  <2>2. S = {a}
    BY <2>1
  <2> QED BY <2>2, FS_Singleton
<1> QED BY <1>1, <1>2

\* The members of A, and those of B moved up by a.
LEMMA CountShifted ==
  ASSUME NEW a \in Nat, NEW b \in Nat, NEW A \in SUBSET (1..a), NEW B \in SUBSET (1..b),
         NEW C, \A x \in C : x \in A \/ \E n \in B : x = a + n
  PROVE  /\ Cardinality(A) \in Nat /\ Cardinality(B) \in Nat /\ Cardinality(C) \in Nat
         /\ IsFiniteSet(A) /\ IsFiniteSet(B) /\ IsFiniteSet(C)
         /\ Cardinality(C) <= Cardinality(A) + Cardinality(B)
<1> DEFINE D == {a + n : n \in B}
           f == [n \in B |-> a + n]
<1>1. IsFiniteSet(1..a) /\ IsFiniteSet(1..b)
  BY FS_Interval
<1>2. IsFiniteSet(A) /\ IsFiniteSet(B)
  BY <1>1, FS_Subset
<1>3. f \in Surjection(B, D)
  BY DEF Surjection
<1> HIDE DEF f
<1>4. IsFiniteSet(D) /\ Cardinality(D) <= Cardinality(B)
  BY <1>2, <1>3, FS_Surjection
<1>5. C \in SUBSET (A \cup D)
  OBVIOUS
<1> HIDE DEF D
<1>6. /\ IsFiniteSet(A \cup D) /\ IsFiniteSet(A \cap D)
      /\ Cardinality(A \cup D) = Cardinality(A) + Cardinality(D) - Cardinality(A \cap D)
  BY <1>2, <1>4, FS_Union, FS_Intersection
<1>7. IsFiniteSet(C) /\ Cardinality(C) <= Cardinality(A \cup D)
  BY <1>5, <1>6, FS_Subset
<1>8. /\ Cardinality(A) \in Nat /\ Cardinality(B) \in Nat /\ Cardinality(C) \in Nat
      /\ Cardinality(D) \in Nat /\ Cardinality(A \cap D) \in Nat
  BY <1>2, <1>4, <1>6, <1>7, FS_CardinalityType
<1> QED BY <1>2, <1>4, <1>6, <1>7, <1>8

\* The rows of t come after those of s.
Joined(s, t, q) ==
  /\ Len(q) = Len(s) + Len(t)
  /\ \A i \in DOMAIN s : i \in DOMAIN q /\ q[i] = s[i]
  /\ \A n \in DOMAIN t : Len(s) + n \in DOMAIN q /\ q[Len(s) + n] = t[n]
  /\ \A i \in DOMAIN q : i \in DOMAIN s \/ \E n \in DOMAIN t : i = Len(s) + n

LEMMA JoinedIs ==
  ASSUME NEW T, NEW s \in Seq(T), NEW t \in Seq(T)
  PROVE  s \o t \in Seq(T) /\ Joined(s, t, s \o t)
<1> DEFINE q == s \o t
<1>1. /\ q \in Seq(T) /\ Len(q) = Len(s) + Len(t)
      /\ \A i \in 1..(Len(s) + Len(t)) : q[i] = IF i <= Len(s) THEN s[i] ELSE t[i - Len(s)]
  BY ConcatProperties
<1> HIDE DEF q
<1>2. /\ Len(s) \in Nat /\ DOMAIN s = 1..Len(s) /\ Len(t) \in Nat /\ DOMAIN t = 1..Len(t)
      /\ Len(q) \in Nat /\ DOMAIN q = 1..Len(q)
  BY <1>1, LenProperties
<1>3. \A i \in DOMAIN s : i \in DOMAIN q /\ q[i] = s[i]
  BY <1>1, <1>2
<1>4. ASSUME NEW n \in DOMAIN t PROVE Len(s) + n \in DOMAIN q /\ q[Len(s) + n] = t[n]
  <2>1. Len(s) + n \in 1..(Len(s) + Len(t)) /\ ~(Len(s) + n <= Len(s)) /\ (Len(s) + n) - Len(s) = n
    BY <1>2
  <2> QED BY <1>1, <1>2, <2>1
<1>5. ASSUME NEW i \in DOMAIN q, i \notin DOMAIN s PROVE \E n \in DOMAIN t : i = Len(s) + n
  <2>1. i - Len(s) \in DOMAIN t /\ i = Len(s) + (i - Len(s))
    BY <1>1, <1>2, <1>5
  <2> QED BY <2>1
<1>6. Joined(s, t, q)
  BY <1>1, <1>3, <1>4, <1>5 DEF Joined
<1> QED BY <1>1, <1>6 DEF q

LEMMA CountAdded ==
  ASSUME NEW T, NEW ds \in Seq(T), NEW new \in Seq(T), NEW c, NEW g
  PROVE  LET ds2 == ds \o new
         IN  /\ Cardinality(Screened(ds2, c, g)) <= Cardinality(Screened(ds, c, g)) + Cardinality(Screened(new, c, g))
             /\ Cardinality(Verified(ds2, c, g)) <= Cardinality(Verified(ds, c, g)) + Cardinality(Verified(new, c, g))
             /\ IsFiniteSet(Screened(ds, c, g)) /\ IsFiniteSet(Verified(ds, c, g))
             /\ Cardinality(Screened(ds, c, g)) \in Nat /\ Cardinality(Screened(new, c, g)) \in Nat
             /\ Cardinality(Verified(ds, c, g)) \in Nat /\ Cardinality(Verified(new, c, g)) \in Nat
             /\ Cardinality(Screened(ds2, c, g)) \in Nat /\ Cardinality(Verified(ds2, c, g)) \in Nat
<1> DEFINE q == ds \o new
<1>1. Len(ds) \in Nat /\ DOMAIN ds = 1..Len(ds) /\ Len(new) \in Nat /\ DOMAIN new = 1..Len(new)
  BY LenProperties
<1>2. Joined(ds, new, q)
  BY JoinedIs
<1> HIDE DEF q
<1>3. /\ \A i \in DOMAIN ds : i \in DOMAIN q /\ q[i] = ds[i]
      /\ \A n \in DOMAIN new : Len(ds) + n \in DOMAIN q /\ q[Len(ds) + n] = new[n]
      /\ \A i \in DOMAIN q : i \in DOMAIN ds \/ \E n \in DOMAIN new : i = Len(ds) + n
  BY <1>2, Zenon DEF Joined
<1>4. /\ Screened(ds, c, g) \in SUBSET (1..Len(ds)) /\ Screened(new, c, g) \in SUBSET (1..Len(new))
      /\ \A x \in Screened(q, c, g) : x \in Screened(ds, c, g) \/ \E n \in Screened(new, c, g) : x = Len(ds) + n
  BY <1>1, <1>3 DEF Screened, OfIn
<1>5. /\ Verified(ds, c, g) \in SUBSET (1..Len(ds)) /\ Verified(new, c, g) \in SUBSET (1..Len(new))
      /\ \A x \in Verified(q, c, g) : x \in Verified(ds, c, g) \/ \E n \in Verified(new, c, g) : x = Len(ds) + n
  BY <1>1, <1>3 DEF Verified, OfIn
<1>6. /\ Cardinality(Screened(q, c, g)) <= Cardinality(Screened(ds, c, g)) + Cardinality(Screened(new, c, g))
      /\ IsFiniteSet(Screened(ds, c, g))
      /\ Cardinality(Screened(ds, c, g)) \in Nat /\ Cardinality(Screened(new, c, g)) \in Nat
      /\ Cardinality(Screened(q, c, g)) \in Nat
  BY <1>1, <1>4, CountShifted, Zenon
<1>7. /\ Cardinality(Verified(q, c, g)) <= Cardinality(Verified(ds, c, g)) + Cardinality(Verified(new, c, g))
      /\ IsFiniteSet(Verified(ds, c, g))
      /\ Cardinality(Verified(ds, c, g)) \in Nat /\ Cardinality(Verified(new, c, g)) \in Nat
      /\ Cardinality(Verified(q, c, g)) \in Nat
  BY <1>1, <1>5, CountShifted, Zenon
<1> QED BY <1>6, <1>7 DEF q

\* What a step may queue: candidates of active campaigns, none of a point found
\* hopeless, and a hopeless one only as the first of its point.
Queueable(w, ks, ds, new) ==
  /\ new \in Seq(CandRows(w))
  /\ \A n \in DOMAIN new :
       /\ PointOK(w, new[n]) /\ new[n].st \in {"valid", "invalid"} /\ ks[new[n].camp].st = "active"
       /\ \A i \in DOMAIN ds : ds[i].st = "invalid" => ~(ds[i].camp = new[n].camp /\ ds[i].cfg = new[n].cfg)
       /\ new[n].st = "invalid" =>
            /\ ~new[n].base
            /\ \A i \in DOMAIN ds : ~(ds[i].camp = new[n].camp /\ ds[i].cfg = new[n].cfg)
            /\ \A p \in DOMAIN new : new[p].camp = new[n].camp /\ new[p].cfg = new[n].cfg => p = n

LEMMA RowsAdded ==
  ASSUME NEW w \in Sites, NEW ks, NEW ds, NEW rs, NEW ts, RowsInv(w, ks, ds, rs, ts),
         NEW new, Queueable(w, ks, ds, new), Bounded(w, ds \o new)
  PROVE  RowsInv(w, ks, ds \o new, rs, ts)
<1> DEFINE q == ds \o new
<1>1. Typed(w, ks, ds, rs, ts) /\ Spent(ds, rs) /\ Hopeless(ds, rs) /\ Gone(ks, ds)
  BY Zenon DEF RowsInv
<1>2. /\ Finished(w, ks, ds, rs) /\ Fixed(w, ks) /\ Unstopped(w, ks)
  BY Zenon DEF RowsInv
<1>3. /\ ds \in Seq(CandRows(w)) /\ rs \in Seq(RunRows(w)) /\ \A i \in DOMAIN ds : PointOK(w, ds[i])
      /\ ks \in [DOMAIN w.camps -> CampRows] /\ ts \in [DOMAIN w.camps -> Tickets]
  BY <1>1, Zenon DEF Typed
<1>4. new \in Seq(CandRows(w))
  BY Zenon DEF Queueable
<1>5. ASSUME NEW n \in DOMAIN new
      PROVE  /\ PointOK(w, new[n]) /\ new[n].st \in {"valid", "invalid"} /\ ks[new[n].camp].st = "active"
             /\ \A i \in DOMAIN ds : ds[i].st = "invalid" => ~(ds[i].camp = new[n].camp /\ ds[i].cfg = new[n].cfg)
             /\ new[n].st = "invalid" =>
                  /\ ~new[n].base
                  /\ \A i \in DOMAIN ds : ~(ds[i].camp = new[n].camp /\ ds[i].cfg = new[n].cfg)
                  /\ \A p \in DOMAIN new : new[p].camp = new[n].camp /\ new[p].cfg = new[n].cfg => p = n
  BY <1>5, Zenon DEF Queueable
<1>6. q \in Seq(CandRows(w)) /\ Joined(ds, new, q)
  BY <1>3, <1>4, JoinedIs
<1> HIDE DEF q
<1>7. /\ \A i \in DOMAIN ds : i \in DOMAIN q /\ q[i] = ds[i]
      /\ \A n \in DOMAIN new : Len(ds) + n \in DOMAIN q /\ q[Len(ds) + n] = new[n]
      /\ \A i \in DOMAIN q : i \in DOMAIN ds \/ \E n \in DOMAIN new : i = Len(ds) + n
  BY <1>6, Zenon DEF Joined
<1>8. /\ Len(ds) \in Nat /\ DOMAIN ds = 1..Len(ds) /\ Linked(ds, rs)
      /\ \A r \in DOMAIN rs : rs[r].cand \in DOMAIN ds
      /\ \A c : \A r \in RunsIn(ds, rs, c) : rs[r].cand \in OfIn(ds, c)
  BY <1>1, TypedIs, Zenon
<1>9. \A n \in DOMAIN new : n \in Nat \ {0} /\ Len(ds) + n \notin DOMAIN ds
  BY <1>4, <1>8, LenProperties
<1>10. Typed(w, ks, q, rs, ts)
  <2>1. \A i \in DOMAIN q : PointOK(w, q[i])
    <3> SUFFICES ASSUME NEW i \in DOMAIN q PROVE PointOK(w, q[i])
      OBVIOUS
    <3>1. CASE i \in DOMAIN ds
      <4>1. q[i] = ds[i] /\ PointOK(w, ds[i])
        BY <1>3, <1>7, <3>1
      <4> QED BY <4>1
    <3>2. CASE i \notin DOMAIN ds
      <4>1. PICK n \in DOMAIN new : i = Len(ds) + n
        BY <1>7, <3>2
      <4>2. q[i] = new[n] /\ PointOK(w, new[n])
        BY <1>5, <1>7, <4>1
      <4> QED BY <4>2
    <3> QED BY <3>1, <3>2
  <2>2. Linked(q, rs)
    BY <1>7, <1>8 DEF Linked
  <2> QED BY <1>3, <1>6, <2>1, <2>2, Zenon DEF Typed
<1>11. Spent(q, rs)
  <2> SUFFICES ASSUME NEW i \in DOMAIN q, q[i].st = "exhausted" PROVE \E r \in DOMAIN rs : rs[r].cand = i
    BY Zenon DEF Spent
  <2>1. i \in DOMAIN ds
    <3> SUFFICES ASSUME i \notin DOMAIN ds PROVE FALSE
      OBVIOUS
    <3>1. PICK n \in DOMAIN new : i = Len(ds) + n
      BY <1>7
    <3>2. q[i] = new[n] /\ new[n].st \in {"valid", "invalid"}
      BY <1>5, <1>7, <3>1
    <3> QED BY <3>2
  <2> QED BY <1>1, <1>7, <2>1 DEF Spent
<1>12. Gone(ks, q)
  <2> SUFFICES ASSUME NEW i \in DOMAIN q, q[i].st = "deleted" PROVE ks[q[i].camp].st = "deleted"
    BY Zenon DEF Gone
  <2>1. i \in DOMAIN ds
    <3> SUFFICES ASSUME i \notin DOMAIN ds PROVE FALSE
      OBVIOUS
    <3>1. PICK n \in DOMAIN new : i = Len(ds) + n
      BY <1>7
    <3>2. q[i] = new[n] /\ new[n].st \in {"valid", "invalid"}
      BY <1>5, <1>7, <3>1
    <3> QED BY <3>2
  <2> QED BY <1>1, <1>7, <2>1 DEF Gone
<1>13. Hopeless(q, rs)
  <2> SUFFICES ASSUME NEW i \in DOMAIN q, q[i].st = "invalid"
      PROVE  /\ ~q[i].base /\ \A r \in DOMAIN rs : rs[r].cand # i
             /\ \A j \in DOMAIN q : q[j].camp = q[i].camp /\ q[j].cfg = q[i].cfg => j = i
    BY Zenon DEF Hopeless
  <2>1. CASE i \in DOMAIN ds
    <3>1. /\ ~ds[i].base /\ \A r \in DOMAIN rs : rs[r].cand # i
          /\ \A j \in DOMAIN ds : ds[j].camp = ds[i].camp /\ ds[j].cfg = ds[i].cfg => j = i
      BY <1>1, <1>7, <2>1 DEF Hopeless
    <3>2. ASSUME NEW j \in DOMAIN q, q[j].camp = q[i].camp, q[j].cfg = q[i].cfg PROVE j = i
      <4>1. CASE j \in DOMAIN ds
        BY <1>7, <2>1, <3>1, <3>2, <4>1
      <4>2. CASE j \notin DOMAIN ds
        <5>1. PICK n \in DOMAIN new : j = Len(ds) + n
          BY <1>7, <4>2
        <5>2. q[j] = new[n] /\ q[i] = ds[i]
          BY <1>7, <2>1, <5>1
        <5> QED BY <1>5, <2>1, <3>2, <5>2
      <4> QED BY <4>1, <4>2
    <3> QED BY <1>7, <2>1, <3>1, <3>2
  <2>2. CASE i \notin DOMAIN ds
    <3>1. PICK n \in DOMAIN new : i = Len(ds) + n
      BY <1>7, <2>2
    <3>2. q[i] = new[n]
      BY <1>7, <3>1
    <3>3. /\ ~new[n].base
          /\ \A j \in DOMAIN ds : ~(ds[j].camp = new[n].camp /\ ds[j].cfg = new[n].cfg)
          /\ \A p \in DOMAIN new : new[p].camp = new[n].camp /\ new[p].cfg = new[n].cfg => p = n
      BY <1>5, <3>2
    <3>4. \A r \in DOMAIN rs : rs[r].cand # i
      BY <1>8, <2>2
    <3>5. ASSUME NEW j \in DOMAIN q, q[j].camp = q[i].camp, q[j].cfg = q[i].cfg PROVE j = i
      <4>1. j \notin DOMAIN ds
        BY <1>7, <3>2, <3>3, <3>5
      <4>2. PICK p \in DOMAIN new : j = Len(ds) + p
        BY <1>7, <4>1
      <4>3. q[j] = new[p]
        BY <1>7, <4>2
      <4> QED BY <3>1, <3>2, <3>3, <3>5, <4>2, <4>3
    <3> QED BY <3>2, <3>3, <3>4, <3>5
  <2> QED BY <2>1, <2>2
<1>14. Finished(w, ks, q, rs)
  <2> SUFFICES ASSUME NEW c \in DOMAIN w.camps, Over(ks[c]) PROVE Complete(w, q, rs, c)
    BY Zenon DEF Finished
  <2>1. \A n \in DOMAIN new : new[n].camp # c
    <3> SUFFICES ASSUME NEW n \in DOMAIN new, new[n].camp = c PROVE FALSE
      OBVIOUS
    <3> QED BY <1>5 DEF Over
  <2>2. OfIn(q, c) = OfIn(ds, c)
    <3>1. \A i \in OfIn(q, c) : i \in DOMAIN ds
      BY <1>7, <2>1 DEF OfIn
    <3> QED BY <1>7, <3>1 DEF OfIn
  <2>3. RunsIn(q, rs, c) = RunsIn(ds, rs, c)
    BY <1>7, <1>8, SMT DEF RunsIn
  <2>4. \A i \in OfIn(ds, c) : q[i] = ds[i]
    BY <1>7 DEF OfIn
  <2>5. SameIn(ds, rs, q, rs, c)
    BY <1>8, <2>2, <2>3, <2>4, Zenon DEF SameIn
  <2>6. Complete(w, ds, rs, c)
    BY <1>2, Zenon DEF Finished
  <2> QED BY <2>5, <2>6, SameComplete, Zenon
<1>15. Bounded(w, q)
  BY DEF q
<1>16. RowsInv(w, ks, q, rs, ts)
  BY <1>2, <1>10, <1>11, <1>12, <1>13, <1>14, <1>15, Zenon DEF RowsInv
<1> QED BY <1>16 DEF q

LEMMA BoundedAdded ==
  ASSUME NEW w \in Sites, NEW ds \in Seq(CandRows(w)), NEW new \in Seq(CandRows(w)), Bounded(w, ds),
         \A c \in DOMAIN w.camps : \A g \in DOMAIN w.camps[c].cfgs :
           /\ \/ Screened(new, c, g) = {}
              \/ Cardinality(Screened(ds, c, g)) + Cardinality(Screened(new, c, g)) <= w.camps[c].confirm_repeats
           /\ \/ Verified(new, c, g) = {}
              \/ Verified(ds, c, g) = {} /\ Cardinality(Verified(new, c, g)) <= 1
  PROVE  Bounded(w, ds \o new)
<1> DEFINE q == ds \o new
<1> SUFFICES ASSUME NEW c \in DOMAIN w.camps, NEW g \in DOMAIN w.camps[c].cfgs
    PROVE  /\ Cardinality(Screened(q, c, g)) <= w.camps[c].confirm_repeats
           /\ Cardinality(Verified(q, c, g)) <= 1
  BY Zenon DEF Bounded
<1>1. /\ Cardinality(Screened(q, c, g)) <= Cardinality(Screened(ds, c, g)) + Cardinality(Screened(new, c, g))
      /\ Cardinality(Verified(q, c, g)) <= Cardinality(Verified(ds, c, g)) + Cardinality(Verified(new, c, g))
      /\ Cardinality(Screened(ds, c, g)) \in Nat /\ Cardinality(Screened(new, c, g)) \in Nat
      /\ Cardinality(Verified(ds, c, g)) \in Nat /\ Cardinality(Verified(new, c, g)) \in Nat
      /\ Cardinality(Screened(q, c, g)) \in Nat /\ Cardinality(Verified(q, c, g)) \in Nat
  BY CountAdded
<1> HIDE DEF q
<1>2. /\ Cardinality(Screened(ds, c, g)) <= w.camps[c].confirm_repeats
      /\ Cardinality(Verified(ds, c, g)) <= 1
  BY Zenon DEF Bounded
<1>3. w.camps[c].confirm_repeats \in Nat
  BY CampFacts
<1>4. Cardinality({}) = 0
  BY FS_EmptySet
<1>5. Cardinality(Screened(q, c, g)) <= w.camps[c].confirm_repeats
  <2>1. CASE Screened(new, c, g) = {}
    BY <1>1, <1>2, <1>3, <1>4, <2>1
  <2>2. CASE Cardinality(Screened(ds, c, g)) + Cardinality(Screened(new, c, g)) <= w.camps[c].confirm_repeats
    BY <1>1, <1>3, <2>2
  <2> QED BY <2>1, <2>2
<1>6. Cardinality(Verified(q, c, g)) <= 1
  <2>1. CASE Verified(new, c, g) = {}
    BY <1>1, <1>2, <1>4, <2>1
  <2>2. CASE Verified(ds, c, g) = {} /\ Cardinality(Verified(new, c, g)) <= 1
    BY <1>1, <1>4, <2>2
  <2> QED BY <2>1, <2>2
<1> QED BY <1>5, <1>6

IsPoint(d, c, g, kind, s) ==
  d \in CandRows(site) /\ d.camp = c /\ d.cfg = g /\ d.kind = kind /\ ~d.base /\ d.st = s /\ PointOK(site, d)
IsReference(d, c, kind) ==
  d \in CandRows(site) /\ d.camp = c /\ d.cfg = 0 /\ d.kind = kind /\ d.base /\ d.st = "valid" /\ PointOK(site, d)

LEMMA NewPointIs ==
  ASSUME site \in Sites, now \in Nat, NEW c \in Camps, NEW g \in DOMAIN Spec1(c).cfgs,
         NEW kind \in {"search", "confirmation", "verification"}, NEW s \in {"valid", "invalid"}
  PROVE  IsPoint(NewCandidate(c, g, kind, FALSE, s), c, g, kind, s)
<1>1. g \in Nat
  BY CampFacts DEF Camps, Spec1
<1> QED BY <1>1 DEF IsPoint, NewCandidate, CandRows, PointOK, Camps, Spec1

LEMMA NewReferenceIs ==
  ASSUME site \in Sites, now \in Nat, NEW c \in Camps, NEW kind \in {"search", "verification"}
  PROVE  IsReference(NewCandidate(c, BaselineCfg, kind, TRUE, "valid"), c, kind)
BY DEF IsReference, NewCandidate, CandRows, PointOK, Camps, BaselineCfg

\* What a campaign's turn in the plan adds: its points that are not candidates.
PlanFor(c, q) ==
  /\ q \in Seq(CandRows(site))
  /\ \A n \in DOMAIN q :
       /\ q[n].camp = c /\ camp[c].st = "active" /\ PointOK(site, q[n])
       /\ q[n].kind = "search" /\ ~q[n].base /\ q[n].st \in {"valid", "invalid"}
       /\ \A i \in DOMAIN cands : ~(cands[i].camp = c /\ cands[i].cfg = q[n].cfg)
  /\ \A n, p \in DOMAIN q : q[n].cfg = q[p].cfg => n = p
  /\ camp[c].st = "active" =>
       \A g \in DOMAIN site.camps[c].cfgs :
         (\E i \in DOMAIN cands : cands[i].camp = c /\ cands[i].cfg = g) \/ \E n \in DOMAIN q : q[n].cfg = g

LEMMA PlannedIs ==
  ASSUME site \in Sites, now \in Nat, NEW c \in Camps
  PROVE  PlanFor(c, Planned(c))
<1> DEFINE new == {i \in DOMAIN Spec1(c).cfgs : ~\E j \in Of(c) : cands[j].cfg = i}
           l == Cardinality(new)
           o == ById(new)
           st(n) == IF validate_config(c, o[n]) THEN "valid" ELSE "invalid"
           q == [n \in 1..l |-> NewCandidate(c, o[n], "search", FALSE, st(n))]
<1>1. CASE camp[c].st # "active"
  <2>1. Planned(c) = <<>>
    BY <1>1 DEF Planned
  <2> QED BY <1>1, <2>1 DEF PlanFor
<1>2. CASE camp[c].st = "active"
  <2>1. Planned(c) = q
    BY <1>2 DEF Planned
  <2>2. Len(Spec1(c).cfgs) \in Nat /\ DOMAIN Spec1(c).cfgs = 1..Len(Spec1(c).cfgs)
    BY CampFacts DEF Camps, Spec1
  <2>3. /\ new \subseteq DOMAIN Spec1(c).cfgs
        /\ \A g \in DOMAIN Spec1(c).cfgs : g \in new <=> \A i \in DOMAIN cands : ~(cands[i].camp = c /\ cands[i].cfg = g)
    BY Zenon DEF Of
  <2> HIDE DEF new
  <2>4. IsFiniteSet(new) /\ new \subseteq Nat
    <3>1. PICK k \in Nat : DOMAIN Spec1(c).cfgs = 1..k
      BY <2>2
    <3>2. IsFiniteSet(1..k)
      BY FS_Interval
    <3> QED BY <2>3, <3>1, <3>2, FS_Subset
  <2>5. Lists(o, new, IdOrder(new))
    <3>1. new \subseteq Int
      BY <2>4
    <3> QED BY <2>4, <3>1, ByIdIs
  <2>6. l \in Nat /\ o \in [1..l -> new] /\ \A x \in new : \E k \in 1..l : o[k] = x
    BY <2>5, Zenon DEF Lists
  <2>7. \A j, k \in 1..l : o[j] = o[k] => j = k
    BY <2>5, ListsOnce
  <2> HIDE DEF l, o
  <2>a. q = [n \in 1..l |-> q[n]] /\ DOMAIN q = 1..l
    OBVIOUS
  <2>8. ASSUME NEW n \in 1..l
        PROVE  /\ o[n] \in new /\ q[n] \in CandRows(site) /\ q[n].camp = c /\ q[n].cfg = o[n]
               /\ q[n].kind = "search" /\ ~q[n].base /\ q[n].st \in {"valid", "invalid"} /\ PointOK(site, q[n])
    <3>1. o[n] \in new /\ o[n] \in Nat /\ o[n] \in DOMAIN Spec1(c).cfgs
      BY <2>3, <2>4, <2>6
    <3>2. st(n) \in {"valid", "invalid"}
      BY Zenon
    <3>3. q[n] = NewCandidate(c, o[n], "search", FALSE, st(n))
      OBVIOUS
    <3> HIDE DEF q, st
    <3>4. "search" \in {"search", "confirmation", "verification"}
      OBVIOUS
    <3>5. IsPoint(NewCandidate(c, o[n], "search", FALSE, st(n)), c, o[n], "search", st(n))
      BY <3>1, <3>2, <3>4, NewPointIs, Zenon
    <3> QED BY <3>1, <3>2, <3>3, <3>5 DEF IsPoint
  <2> HIDE DEF q
  <2>9. q \in Seq(CandRows(site)) /\ DOMAIN q = 1..l
    <3>1. \A n \in 1..l : q[n] \in CandRows(site)
      BY <2>8
    <3> QED BY <2>6, <2>a, <3>1
  <2>10. \A n, p \in DOMAIN q : q[n].cfg = q[p].cfg => n = p
    BY <2>7, <2>8, <2>9
  <2>11. \A n \in DOMAIN q : \A i \in DOMAIN cands : ~(cands[i].camp = c /\ cands[i].cfg = q[n].cfg)
    BY <2>3, <2>8, <2>9
  <2>12. ASSUME NEW g \in DOMAIN Spec1(c).cfgs
         PROVE  (\E i \in DOMAIN cands : cands[i].camp = c /\ cands[i].cfg = g) \/ \E n \in DOMAIN q : q[n].cfg = g
    <3>1. CASE g \in new
      BY <2>6, <2>8, <2>9, <3>1
    <3>2. CASE g \notin new
      BY <2>3, <3>2
    <3> QED BY <3>1, <3>2
  <2>13. PlanFor(c, q)
    BY <1>2, <2>8, <2>9, <2>10, <2>11, <2>12 DEF PlanFor, Spec1
  <2> QED BY <2>1, <2>13
<1> QED BY <1>1, <1>2

LEMMA PlanAdds ==
  ASSUME site \in Sites, now \in Nat, RowsInv(site, camp, cands, runs, ticket)
  PROVE  LET ds == cands \o FlattenSeq([c \in Camps |-> Planned(c)])
         IN  /\ RowsInv(site, camp, ds, runs, ticket) /\ Len(cands) <= Len(ds)
             /\ \A c \in Camps : camp[c].st = "active" => Covered(site, ds, c)
<1> DEFINE s == [c \in Camps |-> Planned(c)]
           m == Len(site.camps)
           T == CandRows(site)
           f == FlattenSeq(s)
<1>1. m \in Nat /\ Camps = 1..m
  BY SiteFacts DEF Camps
<1>2. \A c \in Camps : PlanFor(c, s[c])
  BY PlannedIs
<1>3. s = [k \in 1..m |-> s[k]]
  BY <1>1
<1>4. \A k \in 1..m : s[k] \in Seq(T)
  BY <1>1, <1>2 DEF PlanFor
<1> HIDE DEF s, m, T
<1>5. Strung(f, s, m, T)
  BY <1>1, <1>3, <1>4, FlattenIs
<1> HIDE DEF f
<1>6. f \in Seq(T) /\ \A k \in 1..m : \A i \in 1..Len(s[k]) : \E p \in 1..Len(f) : f[p] = s[k][i]
  BY <1>5 DEF Strung
<1>7. PICK u, j : Placed(f, s, m, u, j)
  BY <1>5 DEF Strung
<1>8. DOMAIN f = 1..Len(f) /\ Len(f) \in Nat /\ \A k \in 1..m : DOMAIN s[k] = 1..Len(s[k])
  BY <1>4, <1>6, LenProperties
<1>9. ASSUME NEW p \in DOMAIN f
      PROVE  /\ u[p] \in Camps /\ j[p] \in DOMAIN s[u[p]] /\ f[p] = s[u[p]][j[p]] /\ f[p].camp = u[p]
             /\ camp[f[p].camp].st = "active" /\ PointOK(site, f[p])
             /\ f[p].kind = "search" /\ ~f[p].base /\ f[p].st \in {"valid", "invalid"}
             /\ \A i \in DOMAIN cands : ~(cands[i].camp = f[p].camp /\ cands[i].cfg = f[p].cfg)
  <2>1. u[p] \in Camps /\ j[p] \in DOMAIN s[u[p]] /\ f[p] = s[u[p]][j[p]]
    BY <1>1, <1>7, <1>8 DEF Placed
  <2>2. PlanFor(u[p], s[u[p]])
    BY <1>2, <2>1
  <2>3. /\ f[p].camp = u[p] /\ camp[u[p]].st = "active" /\ PointOK(site, f[p])
        /\ f[p].kind = "search" /\ ~f[p].base /\ f[p].st \in {"valid", "invalid"}
        /\ \A i \in DOMAIN cands : ~(cands[i].camp = u[p] /\ cands[i].cfg = f[p].cfg)
    BY <2>1, <2>2, SMT DEF PlanFor
  <2> QED BY <2>1, <2>3
<1>10. ASSUME NEW p \in DOMAIN f, NEW q \in DOMAIN f, f[p].camp = f[q].camp, f[p].cfg = f[q].cfg
       PROVE  p = q
  <2>1. u[p] = u[q] /\ u[p] \in Camps /\ j[p] \in DOMAIN s[u[p]] /\ j[q] \in DOMAIN s[u[p]]
        /\ s[u[p]][j[p]].cfg = s[u[p]][j[q]].cfg
    BY <1>9, <1>10
  <2>2. j[p] = j[q]
    <3>1. PlanFor(u[p], s[u[p]])
      BY <1>2, <2>1
    <3> QED BY <2>1, <3>1, Zenon DEF PlanFor
  <2> QED BY <1>7, <1>8, <2>1, <2>2 DEF Placed
<1>11. Typed(site, camp, cands, runs, ticket) /\ Bounded(site, cands)
  BY Zenon DEF RowsInv
<1>12. cands \in Seq(T)
  BY <1>11 DEF Typed, T
<1>13. Queueable(site, camp, cands, f)
  <2>1. \A n \in DOMAIN f : \A p \in DOMAIN f : f[p].camp = f[n].camp /\ f[p].cfg = f[n].cfg => p = n
    BY <1>10
  <2>2. f \in Seq(CandRows(site))
    BY <1>6 DEF T
  <2> QED BY <1>9, <2>1, <2>2, Zenon DEF Queueable
<1>14. Bounded(site, cands \o f)
  <2>1. ASSUME NEW c \in DOMAIN site.camps, NEW g \in DOMAIN site.camps[c].cfgs
        PROVE  /\ \/ Screened(f, c, g) = {}
                  \/ Cardinality(Screened(cands, c, g)) + Cardinality(Screened(f, c, g)) <= site.camps[c].confirm_repeats
               /\ Verified(f, c, g) = {}
    <3>1. Verified(f, c, g) = {}
      BY <1>9 DEF Verified, OfIn
    <3>2. CASE Screened(f, c, g) # {}
      <4>1. PICK p \in DOMAIN f : f[p].camp = c /\ f[p].cfg = g
        BY <3>2, Zenon DEF Screened, OfIn
      <4>2. Screened(cands, c, g) = {}
        BY <1>9, <4>1 DEF Screened, OfIn
      <4>3. \A a, b \in Screened(f, c, g) : a = b
        BY <1>10, Zenon DEF Screened, OfIn
      <4>4. Cardinality(Screened(f, c, g)) \in Nat /\ Cardinality(Screened(f, c, g)) <= 1
        BY <4>3, AtMostOne
      <4>5. Cardinality(Screened(cands, c, g)) = 0
        BY <4>2, FS_EmptySet
      <4>6. site.camps[c].confirm_repeats \in Nat \ {0}
        BY CampFacts
      <4> QED BY <3>1, <4>4, <4>5, <4>6
    <3> QED BY <3>1, <3>2
  <2> QED BY <1>6, <1>11, <1>12, <2>1, BoundedAdded DEF T
<1>15. RowsInv(site, camp, cands \o f, runs, ticket)
  BY <1>13, <1>14, RowsAdded
<1>16. cands \o f \in Seq(T) /\ Joined(cands, f, cands \o f)
  BY <1>6, <1>12, JoinedIs
<1> DEFINE ds == cands \o f
<1> HIDE DEF ds
<1>17. /\ Len(ds) = Len(cands) + Len(f)
       /\ \A i \in DOMAIN cands : i \in DOMAIN ds /\ ds[i] = cands[i]
       /\ \A n \in DOMAIN f : Len(cands) + n \in DOMAIN ds /\ ds[Len(cands) + n] = f[n]
  BY <1>16, Zenon DEF Joined, ds
<1>18. Len(cands) <= Len(ds)
  <2>1. Len(cands) \in Nat
    BY <1>12, LenProperties
  <2> QED BY <1>8, <1>17, <2>1
<1>19. ASSUME NEW c \in Camps, camp[c].st = "active" PROVE Covered(site, ds, c)
  <2> SUFFICES ASSUME NEW g \in DOMAIN site.camps[c].cfgs PROVE \E i \in OfIn(ds, c) : ds[i].cfg = g
    BY Zenon DEF Covered
  <2>1. PlanFor(c, s[c]) /\ c \in 1..m
    BY <1>1, <1>2
  <2>2. (\E i \in DOMAIN cands : cands[i].camp = c /\ cands[i].cfg = g) \/ \E n \in DOMAIN s[c] : s[c][n].cfg = g
    BY <1>19, <2>1, Zenon DEF PlanFor
  <2>3. ASSUME NEW i \in DOMAIN cands, cands[i].camp = c, cands[i].cfg = g
        PROVE  \E k \in OfIn(ds, c) : ds[k].cfg = g
    BY <1>17, <2>3 DEF OfIn
  <2>4. ASSUME NEW n \in DOMAIN s[c], s[c][n].cfg = g
        PROVE  \E k \in OfIn(ds, c) : ds[k].cfg = g
    <3>1. s[c][n].camp = c
      BY <2>1, Zenon DEF PlanFor
    <3>2. PICK p \in DOMAIN f : f[p] = s[c][n]
      BY <1>6, <1>8, <2>1
    <3> QED BY <1>17, <2>4, <3>1, <3>2 DEF OfIn
  <2> QED BY <2>2, <2>3, <2>4
<1>20. f = FlattenSeq([c \in Camps |-> Planned(c)])
  BY DEF f, s
<1> QED BY <1>15, <1>18, <1>19, <1>20 DEF ds

\* References, and points that none of the machines was found too small for.
LEMMA Queues ==
  ASSUME site \in Sites, RowsInv(site, camp, cands, runs, ticket), NEW new \in Seq(CandRows(site)),
         \A n \in DOMAIN new :
           /\ camp[new[n].camp].st = "active" /\ new[n].st = "valid" /\ PointOK(site, new[n])
           /\ \/ new[n].base
              \/ \A i \in DOMAIN cands : cands[i].st = "invalid" => ~(cands[i].camp = new[n].camp /\ cands[i].cfg = new[n].cfg)
  PROVE  Queueable(site, camp, cands, new)
<1>1. Typed(site, camp, cands, runs, ticket) /\ Hopeless(cands, runs)
  BY Zenon DEF RowsInv
<1>2. \A i \in DOMAIN cands : cands[i] \in CandRows(site) /\ PointOK(site, cands[i])
  <2>1. \A i \in DOMAIN cands : cands[i] \in CandRows(site)
    BY <1>1, TypedIs, Zenon
  <2> QED BY <1>1, <2>1, Zenon DEF Typed
<1>3. ASSUME NEW n \in DOMAIN new, NEW i \in DOMAIN cands, cands[i].st = "invalid",
             cands[i].camp = new[n].camp, cands[i].cfg = new[n].cfg
      PROVE  FALSE
  <2>1. new[n].base
    BY <1>3, Zenon
  <2>2. new[n].cfg = 0
    BY <2>1, Zenon DEF PointOK, BaselineCfg
  <2>3. ~cands[i].base
    BY <1>1, <1>3, Zenon DEF Hopeless
  <2>4. cands[i].cfg \in DOMAIN site.camps[cands[i].camp].cfgs
    BY <1>2, <2>3, Zenon DEF PointOK
  <2>5. cands[i].camp \in DOMAIN site.camps
    BY <1>2 DEF CandRows
  <2>6. DOMAIN site.camps[cands[i].camp].cfgs = 1..Len(site.camps[cands[i].camp].cfgs)
        /\ Len(site.camps[cands[i].camp].cfgs) \in Nat
    BY <2>5, CampFacts
  <2> QED BY <1>3, <2>2, <2>4, <2>6
<1>4. \A n \in DOMAIN new : new[n].st = "valid" /\ new[n].st # "invalid" /\ new[n].st \in {"valid", "invalid"}
  OBVIOUS
<1> QED BY <1>3, <1>4, Zenon DEF Queueable

LEMMA CoveredAdded ==
  ASSUME NEW w, NEW T, NEW ds \in Seq(T), NEW new \in Seq(T)
  PROVE  /\ Len(ds) <= Len(ds \o new) /\ \A c : Covered(w, ds, c) => Covered(w, ds \o new, c)
         /\ \A i \in DOMAIN ds : i \in DOMAIN (ds \o new) /\ (ds \o new)[i] = ds[i]
<1> DEFINE q == ds \o new
<1>1. Joined(ds, new, q) /\ q \in Seq(T)
  BY JoinedIs
<1>2. Len(ds) \in Nat /\ Len(new) \in Nat
  BY LenProperties
<1> HIDE DEF q
<1>3. Len(q) = Len(ds) + Len(new) /\ \A i \in DOMAIN ds : i \in DOMAIN q /\ q[i] = ds[i]
  BY <1>1, Zenon DEF Joined
<1>4. ASSUME NEW c, Covered(w, ds, c), NEW g \in DOMAIN w.camps[c].cfgs
      PROVE  \E i \in OfIn(q, c) : q[i].cfg = g
  <2>1. PICK i \in OfIn(ds, c) : ds[i].cfg = g
    BY <1>4, Zenon DEF Covered
  <2>2. i \in OfIn(q, c) /\ q[i].cfg = g
    BY <1>3, <2>1 DEF OfIn
  <2> QED BY <2>2
<1>5. \A c : Covered(w, ds, c) => Covered(w, q, c)
  BY <1>4, Zenon DEF Covered
<1>6. Len(ds) <= Len(q)
  BY <1>2, <1>3
<1> QED BY <1>3, <1>5, <1>6 DEF q

LEMMA BaselinesAdd ==
  ASSUME site \in Sites, now \in Nat, RowsInv(site, camp, cands, runs, ticket)
  PROVE  LET lacking == ById({c \in Camps : Listed(c) /\ NeedsBaseline(c)})
             ds == cands \o [n \in DOMAIN lacking |->
                     NewCandidate(lacking[n], BaselineCfg, "search", TRUE, "valid")]
         IN  /\ RowsInv(site, camp, ds, runs, ticket) /\ Len(cands) <= Len(ds)
             /\ \A c \in Camps : Covered(site, cands, c) => Covered(site, ds, c)
<1> DEFINE S == {c \in Camps : Listed(c) /\ NeedsBaseline(c)}
           o == ById(S)
           l == Cardinality(S)
           f == [n \in DOMAIN o |-> NewCandidate(o[n], BaselineCfg, "search", TRUE, "valid")]
<1>1. Len(site.camps) \in Nat /\ Camps = 1..Len(site.camps) /\ IsFiniteSet(Camps)
  BY SiteFacts DEF Camps
<1>2. S \subseteq Camps /\ \A c \in S : camp[c].st = "active"
  BY Zenon DEF Listed
<1> HIDE DEF S
<1>3. IsFiniteSet(S) /\ S \subseteq Int
  <2>1. S \subseteq Int
    BY <1>1, <1>2
  <2>2. S \in SUBSET Camps
    BY <1>2
  <2> QED BY <1>1, <2>1, <2>2, FS_Subset
<1>4. Lists(o, S, IdOrder(S))
  BY <1>3, ByIdIs
<1>5. l \in Nat /\ o \in [1..l -> S]
  BY <1>4, Zenon DEF Lists
<1> HIDE DEF l, o
<1>6. f = [n \in 1..l |-> f[n]] /\ DOMAIN f = 1..l
  BY <1>5
<1>7. ASSUME NEW n \in 1..l PROVE IsReference(f[n], o[n], "search") /\ camp[o[n]].st = "active"
  <2>1. o[n] \in Camps /\ camp[o[n]].st = "active"
    BY <1>2, <1>5
  <2>2. IsReference(NewCandidate(o[n], BaselineCfg, "search", TRUE, "valid"), o[n], "search")
    BY <2>1, NewReferenceIs
  <2>3. f[n] = NewCandidate(o[n], BaselineCfg, "search", TRUE, "valid")
    BY <1>5
  <2> HIDE DEF f
  <2> QED BY <2>1, <2>2, <2>3
<1> HIDE DEF f
<1>8. f \in Seq(CandRows(site))
  <2>1. \A n \in 1..l : f[n] \in CandRows(site)
    BY <1>7 DEF IsReference
  <2> QED BY <1>5, <1>6, <2>1
<1>9. ASSUME NEW n \in DOMAIN f
      PROVE  camp[f[n].camp].st = "active" /\ f[n].st = "valid" /\ PointOK(site, f[n]) /\ f[n].base /\ f[n].cfg = 0
  BY <1>6, <1>7, SMT DEF IsReference
<1>10. Queueable(site, camp, cands, f)
  BY <1>8, <1>9, Queues, Zenon
<1>11. cands \in Seq(CandRows(site)) /\ Bounded(site, cands)
  BY Zenon DEF RowsInv, Typed
<1>12. Bounded(site, cands \o f)
  <2>1. ASSUME NEW c \in DOMAIN site.camps, NEW g \in DOMAIN site.camps[c].cfgs
        PROVE  Screened(f, c, g) = {} /\ Verified(f, c, g) = {}
    <3>1. g # 0
      BY CampFacts
    <3> QED BY <1>9, <3>1 DEF Screened, Verified, OfIn
  <2> QED BY <1>8, <1>11, <2>1, BoundedAdded
<1>13. RowsInv(site, camp, cands \o f, runs, ticket)
  BY <1>10, <1>12, RowsAdded
<1>14. Len(cands) <= Len(cands \o f) /\ \A c : Covered(site, cands, c) => Covered(site, cands \o f, c)
  BY <1>8, <1>11, CoveredAdded
<1> QED BY <1>13, <1>14 DEF f, o, S

\* A campaign with nothing to run has run every candidate of a point that was
\* ever measured.
LEMMA EachWasRun ==
  ASSUME NEW w \in Sites, NEW ks, NEW ds, NEW rs, NEW ts, RowsInv(w, ks, ds, rs, ts),
         NEW c \in DOMAIN w.camps, ks[c].st = "active", ValidIn(ds, c) = {},
         NEW g \in DOMAIN w.camps[c].cfgs, MeasuredIn(ds, rs, c, g) # {}
  PROVE  /\ Cardinality(Screened(ds, c, g)) <= Cardinality(GroupIn(ds, rs, c, g))
         /\ \A i \in DOMAIN ds : ds[i].st = "invalid" => ~(ds[i].camp = c /\ ds[i].cfg = g)
<1>1. Typed(w, ks, ds, rs, ts) /\ Spent(ds, rs) /\ Hopeless(ds, rs) /\ Gone(ks, ds)
  BY Zenon DEF RowsInv
<1>2. /\ \A i \in DOMAIN ds : ds[i] \in CandRows(w) /\ PointOK(w, ds[i])
      /\ rs \in Seq(RunRows(w)) /\ \A r \in DOMAIN rs : rs[r].cand \in DOMAIN ds
  <2>1. /\ \A i \in DOMAIN ds : ds[i] \in CandRows(w)
        /\ \A r \in DOMAIN rs : rs[r].cand \in DOMAIN ds
    BY <1>1, TypedIs, Zenon
  <2> QED BY <1>1, <2>1, Zenon DEF Typed
<1>3. PICK r \in DOMAIN rs : ds[rs[r].cand].camp = c /\ ds[rs[r].cand].cfg = g
  BY Zenon DEF MeasuredIn, GroupIn, RunsIn
<1>4. ASSUME NEW i \in DOMAIN ds, ds[i].st = "invalid", ds[i].camp = c, ds[i].cfg = g PROVE FALSE
  <2>1. /\ \A q \in DOMAIN rs : rs[q].cand # i
        /\ \A j \in DOMAIN ds : ds[j].camp = ds[i].camp /\ ds[j].cfg = ds[i].cfg => j = i
    BY <1>1, <1>4, Zenon DEF Hopeless
  <2> QED BY <1>2, <1>3, <1>4, <2>1, Zenon
<1>5. ASSUME NEW i \in Screened(ds, c, g) PROVE \E q \in GroupIn(ds, rs, c, g) : rs[q].cand = i
  <2>1. i \in DOMAIN ds /\ ds[i].camp = c /\ ds[i].cfg = g /\ ds[i].kind # "verification"
    BY <1>5 DEF Screened, OfIn
  <2>2. ds[i].st # "valid"
    BY <2>1 DEF ValidIn, OfIn
  <2>3. ds[i].st # "invalid"
    BY <1>4, <2>1
  <2>4. ds[i].st # "deleted"
    BY <1>1, <2>1 DEF Gone
  <2>5. ds[i].st = "exhausted"
    BY <1>2, <2>1, <2>2, <2>3, <2>4 DEF CandRows
  <2>6. PICK q \in DOMAIN rs : rs[q].cand = i
    BY <1>1, <2>1, <2>5, Zenon DEF Spent
  <2>7. ~ds[i].base
    <3>1. g # 0
      BY CampFacts
    <3> QED BY <1>2, <2>1, <3>1 DEF PointOK, BaselineCfg
  <2>8. q \in GroupIn(ds, rs, c, g)
    BY <2>1, <2>6, <2>7 DEF GroupIn, RunsIn, stage_of
  <2> QED BY <2>6, <2>8
<1> DEFINE h == [i \in Screened(ds, c, g) |-> CHOOSE q \in GroupIn(ds, rs, c, g) : rs[q].cand = i]
<1>6. h \in Injection(Screened(ds, c, g), GroupIn(ds, rs, c, g))
  <2>1. ASSUME NEW i \in Screened(ds, c, g) PROVE h[i] \in GroupIn(ds, rs, c, g) /\ rs[h[i]].cand = i
    BY <1>5
  <2>2. h \in [Screened(ds, c, g) -> GroupIn(ds, rs, c, g)]
    BY <2>1
  <2> HIDE DEF h
  <2>3. \A i, j \in Screened(ds, c, g) : h[i] = h[j] => i = j
    BY <2>1, Zenon
  <2> QED BY <2>2, <2>3 DEF Injection, IsInjective
<1>7. IsFiniteSet(GroupIn(ds, rs, c, g))
  BY <1>2, GroupIs
<1> HIDE DEF h
<1>8. Cardinality(Screened(ds, c, g)) <= Cardinality(GroupIn(ds, rs, c, g))
  BY <1>6, <1>7, FS_Injection
<1> QED BY <1>4, <1>8

\* The confirmations of a campaign that has nothing to run: no more than are
\* missing, and none only when none is missing.
LEMMA ConfirmAdds ==
  ASSUME site \in Sites, now \in Nat, RowsInv(site, camp, cands, runs, ticket),
         NEW c \in Camps, camp[c].st = "active", Valid(c) = {}
  PROVE  LET f == Confirmations(c)
         IN  /\ f \in Seq(CandRows(site))
             /\ RowsInv(site, camp, cands \o f, runs, ticket)
             /\ f = <<>> => Confirmed(site, cands, runs, c)
             /\ \A n \in DOMAIN f : f[n].kind = "confirmation"
<1> DEFINE top == TopIn(site, cands, runs, c, site.camps[c].confirm_top_k)
           G(g) == GroupIn(cands, runs, c, g)
           rep == site.camps[c].confirm_repeats
           miss(g) == IF rep - Cardinality(G(g)) > 0 THEN rep - Cardinality(G(g)) ELSE 0
           one(g) == NewCandidate(c, g, "confirmation", FALSE, "valid")
           m == Len(top)
           T == CandRows(site)
           s == [n \in 1..m |-> [i \in 1..miss(top[n]) |-> one(top[n])]]
           f == FlattenSeq(s)
<1>0. c \in DOMAIN site.camps
  BY DEF Camps
<1>1. Typed(site, camp, cands, runs, ticket) /\ Bounded(site, cands)
  BY Zenon DEF RowsInv
<1>2. cands \in Seq(T) /\ runs \in Seq(RunRows(site))
  BY <1>1, Zenon DEF Typed
<1>3. rep \in Nat \ {0} /\ site.camps[c].confirm_top_k \in Nat
  BY <1>0, CampFacts
<1>4. /\ m \in Nat /\ top \in Seq(Rankable(site, cands, runs, c)) /\ DOMAIN top = 1..m
      /\ \A i, k \in DOMAIN top : top[i] = top[k] => i = k
  <2>1. TopFacts(site, cands, runs, c, site.camps[c].confirm_top_k)
    BY <1>0, <1>2, <1>3, TopIs, Zenon
  <2> QED BY <2>1, Zenon DEF TopFacts
<1>5. \A g : Cardinality(G(g)) \in Nat
  BY <1>2, GroupIs
<1>6. \A g : miss(g) \in Nat
  <2> HIDE DEF G, rep
  <2> QED BY <1>3, <1>5
<1>7. Confirmations(c) = f
  <2>1. Top(c, Spec1(c).confirm_top_k) = top
    BY TablesNow, Zenon DEF Spec1
  <2>2. \A g : Missing(c, g) = rep - Cardinality(G(g))
    BY TablesNow, Zenon DEF Missing, Spec1
  <2>3. DOMAIN top = 1..m
    BY <1>4
  <2> HIDE DEF top, m, rep, G
  <2> QED BY <2>1, <2>2, <2>3 DEF Confirmations
<1>8. \A n \in 1..m : top[n] \in Rankable(site, cands, runs, c)
  BY <1>4, ElementOfSeq
<1> HIDE DEF top, m, rep
<1>9. ASSUME NEW g \in Rankable(site, cands, runs, c)
      PROVE  /\ g \in DOMAIN site.camps[c].cfgs /\ MeasuredIn(cands, runs, c, g) # {}
             /\ IsPoint(one(g), c, g, "confirmation", "valid")
             /\ Cardinality(Screened(cands, c, g)) <= Cardinality(G(g))
             /\ \A i \in DOMAIN cands : cands[i].st = "invalid" => ~(cands[i].camp = c /\ cands[i].cfg = g)
  <2>1. g \in DOMAIN site.camps[c].cfgs /\ MeasuredIn(cands, runs, c, g) # {}
    BY Zenon DEF Rankable
  <2>2. IsPoint(one(g), c, g, "confirmation", "valid")
    BY <2>1, NewPointIs DEF Spec1
  <2>3. ValidIn(cands, c) = {}
    BY TablesNow
  <2> HIDE DEF one
  <2> QED BY <1>0, <2>1, <2>2, <2>3, EachWasRun
<1> HIDE DEF G, one, miss
<1>10. \A n \in 1..m : s[n] \in Seq(T) /\ Len(s[n]) = miss(top[n]) /\ \A i \in 1..miss(top[n]) : s[n][i] = one(top[n])
  <2> SUFFICES ASSUME NEW n \in 1..m
      PROVE  s[n] \in Seq(T) /\ Len(s[n]) = miss(top[n]) /\ \A i \in 1..miss(top[n]) : s[n][i] = one(top[n])
    OBVIOUS
  <2>1. one(top[n]) \in T /\ miss(top[n]) \in Nat
    BY <1>6, <1>8, <1>9 DEF IsPoint
  <2>2. s[n] = [i \in 1..miss(top[n]) |-> one(top[n])]
    OBVIOUS
  <2> HIDE DEF s, T
  <2> QED BY <2>1, <2>2
<1>11. s = [n \in 1..m |-> s[n]]
  OBVIOUS
<1> HIDE DEF s, T
<1>12. Strung(f, s, m, T)
  BY <1>4, <1>10, <1>11, FlattenIs
<1> HIDE DEF f
<1>13. f \in Seq(T) /\ \A k \in 1..m : \A i \in 1..Len(s[k]) : \E p \in 1..Len(f) : f[p] = s[k][i]
  BY <1>12 DEF Strung
<1>14. PICK u, j : Placed(f, s, m, u, j)
  BY <1>12 DEF Strung
<1>15. DOMAIN f = 1..Len(f) /\ Len(f) \in Nat
  BY <1>13, LenProperties
<1>16. ASSUME NEW p \in DOMAIN f
       PROVE  /\ u[p] \in 1..m /\ j[p] \in 1..miss(top[u[p]])
              /\ IsPoint(f[p], c, top[u[p]], "confirmation", "valid")
  <2>1. u[p] \in 1..m /\ j[p] \in 1..Len(s[u[p]]) /\ f[p] = s[u[p]][j[p]]
    BY <1>14, <1>15 DEF Placed
  <2>2. j[p] \in 1..miss(top[u[p]]) /\ f[p] = one(top[u[p]])
    BY <1>10, <2>1
  <2> QED BY <1>8, <1>9, <2>1, <2>2
<1>17. ASSUME NEW p \in DOMAIN f
       PROVE  /\ f[p].camp = c /\ f[p].cfg = top[u[p]] /\ f[p].kind = "confirmation"
              /\ f[p].st = "valid" /\ PointOK(site, f[p])
  BY <1>16 DEF IsPoint
<1>18. Queueable(site, camp, cands, f)
  <2>1. ASSUME NEW p \in DOMAIN f
        PROVE  /\ camp[f[p].camp].st = "active" /\ f[p].st = "valid" /\ PointOK(site, f[p])
               /\ \A i \in DOMAIN cands : cands[i].st = "invalid" => ~(cands[i].camp = f[p].camp /\ cands[i].cfg = f[p].cfg)
    <3>1. u[p] \in 1..m /\ f[p].camp = c /\ f[p].cfg = top[u[p]]
      BY <1>16, <1>17
    <3>2. \A i \in DOMAIN cands : cands[i].st = "invalid" => ~(cands[i].camp = c /\ cands[i].cfg = top[u[p]])
      BY <1>8, <1>9, <3>1, Zenon
    <3> QED BY <1>17, <3>1, <3>2
  <2>2. f \in Seq(CandRows(site))
    BY <1>13 DEF T
  <2> QED BY <2>1, <2>2, Queues, Zenon
<1>19. Bounded(site, cands \o f)
  <2>1. ASSUME NEW d \in DOMAIN site.camps, NEW g \in DOMAIN site.camps[d].cfgs
        PROVE  /\ \/ Screened(f, d, g) = {}
                  \/ Cardinality(Screened(cands, d, g)) + Cardinality(Screened(f, d, g)) <= site.camps[d].confirm_repeats
               /\ Verified(f, d, g) = {}
    <3>1. Verified(f, d, g) = {}
      BY <1>17 DEF Verified, OfIn
    <3>2. CASE Screened(f, d, g) # {}
      <4> DEFINE F == Screened(f, d, g)
                 h == [p \in F |-> j[p]]
      <4>1. PICK p \in DOMAIN f : p \in F
        BY <3>2 DEF Screened, OfIn
      <4>2. \A q \in F : q \in DOMAIN f /\ f[q].camp = d /\ f[q].cfg = g
        BY DEF Screened, OfIn
      <4> HIDE DEF F
      <4>3. d = c /\ top[u[p]] = g /\ u[p] \in 1..m
        BY <1>16, <1>17, <4>1, <4>2
      <4>4. \A q \in F : u[q] = u[p] /\ j[q] \in 1..miss(g)
        <5> SUFFICES ASSUME NEW q \in F PROVE u[q] = u[p] /\ j[q] \in 1..miss(g)
          OBVIOUS
        <5>1. q \in DOMAIN f /\ top[u[q]] = g /\ u[q] \in 1..m /\ j[q] \in 1..miss(top[u[q]])
          BY <1>16, <1>17, <4>2
        <5> QED BY <1>4, <4>3, <5>1
      <4>5. h \in Injection(F, 1..miss(g))
        <5>1. h \in [F -> 1..miss(g)]
          BY <4>4
        <5>2. \A q, v \in F : h[q] = h[v] => q = v
          BY <1>14, <1>15, <4>2, <4>4 DEF Placed
        <5> QED BY <5>1, <5>2 DEF Injection, IsInjective
      <4>6. miss(g) \in Nat /\ g \in Rankable(site, cands, runs, c)
        BY <1>6, <1>8, <4>3
      <4> HIDE DEF h
      <4>7. IsFiniteSet(1..miss(g)) /\ Cardinality(1..miss(g)) = miss(g)
        BY <4>6, FS_Interval
      <4>8. IsFiniteSet(F) /\ Cardinality(F) <= miss(g)
        BY <4>5, <4>7, FS_Injection
      <4>9. Cardinality(F) \in Nat
        BY <4>8, FS_CardinalityType
      <4>10. j[p] \in 1..miss(g)
        BY <4>1, <4>4
      <4>11. miss(g) = rep - Cardinality(G(g))
        BY <1>3, <1>5, <4>10 DEF miss
      <4>12. Cardinality(Screened(cands, c, g)) <= Cardinality(G(g))
        BY <1>9, <4>6
      <4>13. Cardinality(Screened(cands, c, g)) \in Nat
        BY <1>2, <1>13, CountAdded
      <4>14. Cardinality(Screened(cands, c, g)) + Cardinality(F) <= rep
        BY <1>3, <1>5, <4>8, <4>9, <4>11, <4>12, <4>13
      <4> QED BY <3>1, <4>3, <4>14 DEF F, rep
    <3> QED BY <3>1, <3>2
  <2> QED BY <1>1, <1>2, <1>13, <2>1, BoundedAdded DEF T
<1>20. RowsInv(site, camp, cands \o f, runs, ticket)
  BY <1>18, <1>19, RowsAdded
<1>21. ASSUME f = <<>> PROVE Confirmed(site, cands, runs, c)
  <2> SUFFICES ASSUME NEW g \in ToSet(top) PROVE Cardinality(G(g)) >= rep
    BY Zenon DEF Confirmed, top, G, rep
  <2>1. PICK n \in 1..m : top[n] = g
    BY <1>4 DEF ToSet
  <2>2. Len(f) = 0
    BY <1>21
  <2>3. ~(1 \in 1..Len(s[n]))
    BY <1>13, <2>1, <2>2
  <2>4. miss(g) \in Nat /\ Len(s[n]) = miss(g)
    BY <1>6, <1>10, <2>1
  <2>5. miss(g) = 0
    BY <2>3, <2>4
  <2> QED BY <1>3, <1>5, <2>5 DEF miss
<1> QED BY <1>7, <1>13, <1>17, <1>20, <1>21 DEF T

\* The verifications: one for each of the best that has none, and none only
\* when each has one.
LEMMA VerifyAdds ==
  ASSUME site \in Sites, now \in Nat, RowsInv(site, camp, cands, runs, ticket),
         NEW c \in Camps, camp[c].st = "active", Valid(c) = {}
  PROVE  LET f == Verifications(c)
         IN  /\ f \in Seq(CandRows(site))
             /\ RowsInv(site, camp, cands \o f, runs, ticket)
             /\ f = <<>> => Proven(site, cands, runs, c)
             /\ \A n \in DOMAIN f : f[n].kind = "verification"
<1> DEFINE top == TopIn(site, cands, runs, c, site.camps[c].verify_top_k)
           S == {g \in ToSet(top) : Unverified(c, g)}
           T == CandRows(site)
           o == RankedIn(cands, runs, c, S)
           one(g) == NewCandidate(c, g, "verification", FALSE, "valid")
           a == [n \in DOMAIN o |-> one(o[n])]
           ref == NewCandidate(c, BaselineCfg, "verification", TRUE, "valid")
           b == IF Spec1(c).canary /\ ~has_baseline_candidate(c, "verify") THEN <<ref>> ELSE <<>>
           l == Cardinality(S)
<1>0. c \in DOMAIN site.camps
  BY DEF Camps
<1>1. Typed(site, camp, cands, runs, ticket) /\ Bounded(site, cands)
  BY Zenon DEF RowsInv
<1>2. cands \in Seq(T) /\ runs \in Seq(RunRows(site))
  BY <1>1, Zenon DEF Typed
<1>3. site.camps[c].verify_top_k \in Nat
  BY <1>0, CampFacts
<1>4. /\ Len(top) \in Nat /\ top \in Seq(Rankable(site, cands, runs, c)) /\ DOMAIN top = 1..Len(top)
      /\ site.camps[c].verify_top_k = 0 => top = <<>>
      /\ IsFiniteSet(Rankable(site, cands, runs, c))
  <2>1. TopFacts(site, cands, runs, c, site.camps[c].verify_top_k)
    BY <1>0, <1>2, <1>3, TopIs, Zenon
  <2> QED BY <2>1, Zenon DEF TopFacts
<1>5. Top(c, Spec1(c).verify_top_k) = top /\ \A Q : Ranked(c, Q) = RankedIn(cands, runs, c, Q)
  BY TablesNow, Zenon DEF Spec1
<1>6. ToSet(top) \subseteq Rankable(site, cands, runs, c)
  <2>1. \A n \in DOMAIN top : top[n] \in Rankable(site, cands, runs, c)
    BY <1>4, ElementOfSeq
  <2> QED BY <2>1 DEF ToSet
<1> HIDE DEF top
<1>7. Verifications(c) = IF ~is_staged(c) \/ top = <<>> THEN <<>> ELSE a \o b
  <2>1. Ranked(c, S) = o
    BY <1>5, Zenon
  <2> HIDE DEF o, S
  <2> QED BY <1>5, <2>1, Zenon DEF Verifications, S
<1>8. CASE ~is_staged(c) \/ top = <<>>
  <2>1. top = <<>>
    BY <1>3, <1>4, <1>8 DEF is_staged, Spec1
  <2>2. Verifications(c) = <<>>
    BY <1>7, <1>8
  <2>3. cands \o <<>> = cands
    BY <1>2, ConcatEmptySeq
  <2>4. ToSet(top) = {}
    BY <2>1 DEF ToSet
  <2>5. Proven(site, cands, runs, c)
    BY <2>4, Zenon DEF Proven, top
  <2>6. <<>> \in Seq(CandRows(site))
    BY EmptySeq
  <2> QED BY <2>2, <2>3, <2>5, <2>6
<1>9. CASE is_staged(c) /\ top # <<>>
  <2> DEFINE f == a \o b
  <2>1. S \subseteq Rankable(site, cands, runs, c) /\ \A g \in S : Unverified(c, g)
    BY <1>6
  <2>2. \A g \in ToSet(top) : g \in S <=> Unverified(c, g)
    OBVIOUS
  <2> HIDE DEF S
  <2>3. IsFiniteSet(S)
    <3>1. S \in SUBSET Rankable(site, cands, runs, c)
      BY <2>1
    <3> QED BY <1>4, <3>1, FS_Subset
  <2>4. ASSUME NEW g \in S
        PROVE  /\ g \in DOMAIN site.camps[c].cfgs /\ MeasuredIn(cands, runs, c, g) # {}
               /\ IsPoint(one(g), c, g, "verification", "valid")
               /\ \A i \in DOMAIN cands : cands[i].st = "invalid" => ~(cands[i].camp = c /\ cands[i].cfg = g)
               /\ Verified(cands, c, g) = {}
    <3>1. g \in DOMAIN site.camps[c].cfgs /\ MeasuredIn(cands, runs, c, g) # {}
      BY <2>1, Zenon DEF Rankable
    <3>2. IsPoint(one(g), c, g, "verification", "valid")
      BY <3>1, NewPointIs DEF Spec1
    <3>3. ValidIn(cands, c) = {}
      BY TablesNow
    <3>4. Verified(cands, c, g) = {}
      <4>1. Of(c) = OfIn(cands, c)
        BY TablesNow
      <4> QED BY <2>1, <4>1 DEF Unverified, Verified
    <3> HIDE DEF one
    <3> QED BY <1>0, <3>1, <3>2, <3>3, <3>4, EachWasRun
  <2>5. Lists(o, S, {p \in S \X S : BetterIn(cands, runs, c, p[1], p[2])})
    <3>1. \A g \in S : MeasuredIn(cands, runs, c, g) # {}
      BY <2>4, Zenon
    <3> QED BY <1>2, <2>3, <3>1, RankedIs, Zenon
  <2>6. l \in Nat /\ o \in [1..l -> S] /\ \A x \in S : \E k \in 1..l : o[k] = x
    BY <2>5, Zenon DEF Lists
  <2>7. \A n, k \in 1..l : o[n] = o[k] => n = k
    BY <2>5, ListsOnce
  <2> HIDE DEF o, l, one
  <2>8. a = [n \in 1..l |-> one(o[n])]
    BY <2>6
  <2>9. \A n \in 1..l : a[n] = one(o[n]) /\ o[n] \in S /\ one(o[n]) \in T
    BY <2>4, <2>6, <2>8 DEF IsPoint
  <2> HIDE DEF a, T
  <2>10. a \in Seq(T) /\ Len(a) = l /\ DOMAIN a = 1..l
    BY <2>6, <2>8, <2>9
  <2>11. IsReference(ref, c, "verification")
    BY NewReferenceIs
  <2>12. ref \in T
    BY <2>11 DEF IsReference, T
  <2> HIDE DEF ref
  <2>13. b \in Seq(T) /\ \A n \in DOMAIN b : b[n] = ref
    BY <2>12
  <2> HIDE DEF b
  <2>14. f \in Seq(T) /\ Joined(a, b, f)
    BY <2>10, <2>13, JoinedIs
  <2>15. f = <<>> => a = <<>>
    BY <2>10, <2>13, ConcatEqualIffEmpty
  <2> HIDE DEF f
  <2>16. ASSUME NEW p \in DOMAIN f
         PROVE  \/ p \in 1..l /\ f[p] = one(o[p]) /\ o[p] \in S
                \/ p \notin 1..l /\ f[p] = ref
    <3>1. (p \in DOMAIN a /\ f[p] = a[p]) \/ \E n \in DOMAIN b : p = Len(a) + n /\ f[p] = b[n]
      BY <2>14, Zenon DEF Joined
    <3>2. \A n \in DOMAIN b : n \in Nat \ {0}
      BY <2>13, LenProperties
    <3> QED BY <2>6, <2>9, <2>10, <2>13, <3>1, <3>2
  <2>17. ASSUME NEW p \in DOMAIN f
         PROVE  /\ f[p].camp = c /\ f[p].kind = "verification" /\ f[p].st = "valid" /\ PointOK(site, f[p])
                /\ \/ f[p].base /\ f[p].cfg = 0
                   \/ p \in 1..l /\ f[p].cfg = o[p] /\ o[p] \in S
    <3>1. CASE p \in 1..l /\ f[p] = one(o[p]) /\ o[p] \in S
      BY <2>4, <3>1 DEF IsPoint
    <3>2. CASE f[p] = ref
      BY <2>11, <3>2 DEF IsReference
    <3> QED BY <2>16, <3>1, <3>2
  <2>18. Queueable(site, camp, cands, f)
    <3>1. ASSUME NEW p \in DOMAIN f
          PROVE  /\ camp[f[p].camp].st = "active" /\ f[p].st = "valid" /\ PointOK(site, f[p])
                 /\ \/ f[p].base
                    \/ \A i \in DOMAIN cands :
                         cands[i].st = "invalid" => ~(cands[i].camp = f[p].camp /\ cands[i].cfg = f[p].cfg)
      BY <2>4, <2>17
    <3>2. f \in Seq(CandRows(site))
      BY <2>14 DEF T
    <3> QED BY <3>1, <3>2, Queues, Zenon
  <2>19. Bounded(site, cands \o f)
    <3>1. ASSUME NEW d \in DOMAIN site.camps, NEW g \in DOMAIN site.camps[d].cfgs
          PROVE  /\ Screened(f, d, g) = {}
                 /\ \/ Verified(f, d, g) = {}
                    \/ Verified(cands, d, g) = {} /\ Cardinality(Verified(f, d, g)) <= 1
      <4>1. Screened(f, d, g) = {}
        BY <2>17 DEF Screened, OfIn
      <4>2. g # 0
        BY CampFacts
      <4>3. \A p \in Verified(f, d, g) : p \in DOMAIN f /\ d = c /\ p \in 1..l /\ o[p] = g /\ g \in S
        BY <2>17, <4>2 DEF Verified, OfIn
      <4>4. CASE Verified(f, d, g) # {}
        <5>1. d = c /\ g \in S
          BY <4>3, <4>4
        <5>2. \A p, q \in Verified(f, d, g) : p = q
          BY <2>7, <4>3
        <5>3. Cardinality(Verified(f, d, g)) <= 1
          BY <5>2, AtMostOne
        <5> QED BY <2>4, <4>1, <5>1, <5>3
      <4> QED BY <4>1, <4>4
    <3> QED BY <1>1, <1>2, <2>14, <3>1, BoundedAdded DEF T
  <2>20. RowsInv(site, camp, cands \o f, runs, ticket)
    BY <2>18, <2>19, RowsAdded
  <2>21. ASSUME f = <<>> PROVE Proven(site, cands, runs, c)
    <3>1. l = 0
      <4>1. Len(a) = 0
        BY <2>15, <2>21
      <4> QED BY <2>10, <4>1
    <3>2. S = {}
      BY <2>6, <3>1
    <3>3. \A g \in ToSet(top) : ~Unverified(c, g)
      BY <2>2, <3>2
    <3>4. Of(c) = OfIn(cands, c)
      BY TablesNow
    <3> QED BY <3>3, <3>4, Zenon DEF Proven, Unverified, top
  <2>22. Verifications(c) = f
    BY <1>7, <1>9 DEF f
  <2> QED BY <2>14, <2>17, <2>20, <2>21, <2>22 DEF T
<1> QED BY <1>8, <1>9

(***************************************************************************)
(* The end of a campaign, and the start of a run.                          *)
(***************************************************************************)
LEMMA DoneKeeps ==
  ASSUME NEW w, NEW ks, NEW ds, NEW rs, NEW ts, RowsInv(w, ks, ds, rs, ts),
         NEW c \in DOMAIN w.camps, ks[c].st = "active", Complete(w, ds, rs, c)
  PROVE  RowsInv(w, [ks EXCEPT ![c].st = "done", ![c].by = "worker"], ds, rs, ts)
<1> DEFINE k2 == [ks EXCEPT ![c].st = "done", ![c].by = "worker"]
<1>1. Typed(w, ks, ds, rs, ts) /\ Gone(ks, ds) /\ Finished(w, ks, ds, rs) /\ Fixed(w, ks) /\ Unstopped(w, ks)
  BY Zenon DEF RowsInv
<1>2. Spent(ds, rs) /\ Hopeless(ds, rs) /\ Bounded(w, ds)
  BY Zenon DEF RowsInv
<1>3. /\ ks \in [DOMAIN w.camps -> CampRows] /\ ts \in [DOMAIN w.camps -> Tickets]
      /\ ds \in Seq(CandRows(w)) /\ rs \in Seq(RunRows(w))
      /\ \A i \in DOMAIN ds : PointOK(w, ds[i]) /\ Linked(ds, rs)
  BY <1>1, Zenon DEF Typed
<1>4. k2[c] = [ks[c] EXCEPT !.st = "done", !.by = "worker"] /\ \A d \in DOMAIN w.camps : d # c => k2[d] = ks[d]
  BY <1>3
<1>5. k2 \in [DOMAIN w.camps -> CampRows]
  <2>1. ks[c] \in CampRows
    BY <1>3
  <2>2. [ks[c] EXCEPT !.st = "done", !.by = "worker"] \in CampRows
    BY <2>1 DEF CampRows, CampStates
  <2> QED BY <1>3, <1>4, <2>2
<1>6. k2[c].st = "done" /\ k2[c].sch = ks[c].sch
  BY <1>3, <1>4 DEF CampRows
<1> HIDE DEF k2
<1>7. Typed(w, k2, ds, rs, ts)
  BY <1>1, <1>3, <1>5, Zenon DEF Typed
<1>8. \A i \in DOMAIN ds : ds[i].camp \in DOMAIN w.camps
  BY <1>1, TypedIs DEF CandRows
<1>9. Gone(k2, ds)
  <2> SUFFICES ASSUME NEW i \in DOMAIN ds, ds[i].st = "deleted" PROVE k2[ds[i].camp].st = "deleted"
    BY DEF Gone
  <2>1. ks[ds[i].camp].st = "deleted"
    BY <1>1 DEF Gone
  <2> QED BY <1>4, <1>8, <2>1
<1>10. Finished(w, k2, ds, rs)
  <2> SUFFICES ASSUME NEW d \in DOMAIN w.camps, Over(k2[d]) PROVE Complete(w, ds, rs, d)
    BY Zenon DEF Finished
  <2>1. CASE d = c
    BY <2>1
  <2>2. CASE d # c
    BY <1>1, <1>4, <2>2 DEF Finished
  <2> QED BY <2>1, <2>2
<1>11. Fixed(w, k2)
  BY <1>1, <1>4, <1>6 DEF Fixed
<1>12. Unstopped(w, k2)
  BY <1>1, <1>4, <1>6 DEF Unstopped
<1> QED BY <1>2, <1>7, <1>9, <1>10, <1>11, <1>12, Zenon DEF RowsInv, k2

\* The rows of ds, perhaps followed by more.
Extends(ds, ds2) == Len(ds) <= Len(ds2) /\ \A i \in DOMAIN ds : i \in DOMAIN ds2 /\ ds2[i] = ds[i]

LEMMA FinishKeeps ==
  ASSUME site \in Sites, now \in Nat, RowsInv(site, camp, cands, runs, ticket),
         NEW c \in Camps, camp[c].st = "active", Covered(site, cands, c), maybe_finish_campaign(c)
  PROVE  /\ RowsInv(site, camp', cands', runs, ticket)
         /\ Extends(cands, cands')
         /\ \A d : Covered(site, cands, d) => Covered(site, cands', d)
         /\ camp' = camp \/ camp' = [camp EXCEPT ![c].st = "done", ![c].by = "worker"]
         /\ \A i \in DOMAIN cands' : i \in DOMAIN cands \/ cands'[i].kind # "search"
<1>0. c \in DOMAIN site.camps
  BY DEF Camps
<1>1. cands \in Seq(CandRows(site))
  BY Zenon DEF RowsInv, Typed
<1>2. Len(cands) \in Nat
  BY <1>1, LenProperties
<1>3. Extends(cands, cands)
  BY <1>2 DEF Extends
<1>4. CASE UNCHANGED <<camp, cands>>
  <2>1. camp' = camp /\ cands' = cands
    BY <1>4
  <2> QED BY <1>3, <2>1
<1>5. CASE ~UNCHANGED <<camp, cands>>
  <2>1. Valid(c) = {} /\ ~(\E r \in RunsOf(c) : IsLive(r))
    BY <1>5, Zenon DEF maybe_finish_campaign
  <2>2. /\ Confirmations(c) \in Seq(CandRows(site)) /\ RowsInv(site, camp, cands \o Confirmations(c), runs, ticket)
        /\ Confirmations(c) = <<>> => Confirmed(site, cands, runs, c)
        /\ \A n \in DOMAIN Confirmations(c) : Confirmations(c)[n].kind # "search"
    BY <2>1, ConfirmAdds
  <2>3. /\ Verifications(c) \in Seq(CandRows(site)) /\ RowsInv(site, camp, cands \o Verifications(c), runs, ticket)
        /\ Verifications(c) = <<>> => Proven(site, cands, runs, c)
        /\ \A n \in DOMAIN Verifications(c) : Verifications(c)[n].kind # "search"
    BY <2>1, VerifyAdds
  <2>4. ASSUME NEW new \in Seq(CandRows(site))
        PROVE  /\ Extends(cands, cands \o new)
               /\ \A d : Covered(site, cands, d) => Covered(site, cands \o new, d)
    BY <1>1, CoveredAdded, Zenon DEF Extends
  <2>8. ASSUME NEW new \in Seq(CandRows(site)), \A n \in DOMAIN new : new[n].kind # "search"
        PROVE  \A i \in DOMAIN (cands \o new) : i \in DOMAIN cands \/ (cands \o new)[i].kind # "search"
    <3>1. Joined(cands, new, cands \o new)
      BY <1>1, JoinedIs
    <3>2. \A i \in DOMAIN (cands \o new) :
            i \in DOMAIN cands \/ \E n \in DOMAIN new : (cands \o new)[i] = new[n]
      BY <3>1, Zenon DEF Joined
    <3> QED BY <2>8, <3>2, Zenon
  <2>5. CASE cands' = cands \o Confirmations(c) /\ camp' = camp
    BY <2>2, <2>4, <2>5, <2>8
  <2>6. CASE cands' = cands \o Verifications(c) /\ camp' = camp
    BY <2>3, <2>4, <2>6, <2>8
  <2>7. CASE /\ Confirmations(c) = <<>> /\ Verifications(c) = <<>>
             /\ camp' = [camp EXCEPT ![c].st = "done", ![c].by = "worker"] /\ cands' = cands
    <3>1. ValidIn(cands, c) = {} /\ LiveIn(cands, runs, c) = {}
      BY <2>1, TablesNow
    <3>2. Complete(site, cands, runs, c)
      BY <2>2, <2>3, <2>7, <3>1, Zenon DEF Complete
    <3>3. RowsInv(site, [camp EXCEPT ![c].st = "done", ![c].by = "worker"], cands, runs, ticket)
      BY <1>0, <3>2, DoneKeeps
    <3> QED BY <1>3, <2>7, <3>3
  <2> QED BY <1>5, <2>1, <2>5, <2>6, <2>7 DEF maybe_finish_campaign
<1> QED BY <1>4, <1>5

LEMMA PendingIs ==
  ASSUME site \in Sites, RowsInv(site, camp, cands, runs, ticket), NEW c \in Camps
  PROVE  \A i \in Pending(c) :
           /\ i \in Nat /\ i \in DOMAIN cands /\ cands[i].camp = c /\ cands[i].st = "valid"
           /\ config_cards(i) \in Nat
<1> SUFFICES ASSUME NEW i \in Pending(c)
    PROVE  /\ i \in Nat /\ i \in DOMAIN cands /\ cands[i].camp = c /\ cands[i].st = "valid"
           /\ config_cards(i) \in Nat
  OBVIOUS
<1>1. Typed(site, camp, cands, runs, ticket)
  BY Zenon DEF RowsInv
<1>2. Len(cands) \in Nat /\ DOMAIN cands = 1..Len(cands)
  BY <1>1, TypedIs
<1>3. i \in DOMAIN cands /\ cands[i].camp = c /\ cands[i].st = "valid"
  BY Zenon DEF Pending, Valid, Of
<1>4. PointOK(site, cands[i])
  BY <1>1, <1>3, Zenon DEF Typed
<1>5. \A g \in DOMAIN Spec1(c).cfgs : Spec1(c).cfgs[g] \in Nat
  BY CampFacts DEF Camps, Spec1
<1>6. config_cards(i) \in Nat
  <2>1. CASE cands[i].base
    BY <2>1 DEF config_cards
  <2>2. CASE ~cands[i].base
    <3>1. cands[i].cfg \in DOMAIN Spec1(c).cfgs
      BY <1>3, <1>4, <2>2 DEF PointOK, Spec1
    <3> QED BY <1>3, <1>5, <2>2, <3>1 DEF config_cards
  <2> QED BY <2>1, <2>2
<1> QED BY <1>2, <1>3, <1>6

LEMMA ChooseIs ==
  ASSUME site \in Sites, RowsInv(site, camp, cands, runs, ticket), NEW c \in Camps, NEW m,
         FitsNow(c, m) # {}
  PROVE  choose_next(c, m) \in Pending(c)
<1>1. \A i \in Pending(c) : i \in Nat /\ i \in DOMAIN cands /\ config_cards(i) \in Nat
  BY PendingIs
<1>2. FitsNow(c, m) \subseteq Pending(c)
  BY DEF FitsNow, Fitting
<1>3. CASE Cards(m) = 0
  <2>1. Min(FitsNow(c, m)) \in FitsNow(c, m)
    BY <1>1, <1>2, MinIs
  <2> QED BY <1>2, <1>3, <2>1 DEF choose_next
<1>4. CASE Cards(m) # 0
  <2> DEFINE F == FitsNow(c, m)
             v == [i \in F |-> config_cards(i)]
             V == {config_cards(i) : i \in F}
             B == {i \in F : config_cards(i) = Max(V)}
  <2>1. F \subseteq DOMAIN cands /\ F \subseteq Nat /\ \A i \in F : config_cards(i) \in Nat
    BY <1>1, <1>2
  <2>2. IsFiniteSet(F)
    <3>1. Len(cands) \in Nat /\ DOMAIN cands = 1..Len(cands)
      BY TypedIs, Zenon DEF RowsInv
    <3>2. IsFiniteSet(1..Len(cands))
      BY <3>1, FS_Interval
    <3>3. F \in SUBSET (1..Len(cands))
      BY <2>1, <3>1
    <3> HIDE DEF F
    <3> QED BY <3>2, <3>3, FS_Subset
  <2> HIDE DEF F
  <2>3. V = {v[i] : i \in F}
    OBVIOUS
  <2>4. IsFiniteSet(V)
    <3> HIDE DEF v, V
    <3>1. IsFiniteSet({v[i] : i \in F})
      BY <2>2, ImageFinite, Zenon
    <3> QED BY <2>3, <3>1
  <2>5. V \subseteq Int /\ V # {}
    BY <2>1 DEF F
  <2>6. Max(V) \in V
    <3> HIDE DEF V
    <3> QED BY <2>4, <2>5, MaxIs
  <2>7. B # {} /\ B \subseteq F
    BY <2>6
  <2>8. Min(B) \in B
    <3>1. B \subseteq Nat
      BY <2>1, <2>7
    <3> HIDE DEF B
    <3> QED BY <2>7, <3>1, MinIs
  <2>9. choose_next(c, m) = Min(B)
    BY <1>4, Zenon DEF choose_next, F
  <2> QED BY <1>2, <2>7, <2>8, <2>9 DEF F
<1> QED BY <1>3, <1>4

LEMMA AdmitKeeps ==
  ASSUME site \in Sites, now \in Nat, RowsInv(site, camp, cands, runs, ticket),
         NEW c \in Camps, camp[c].st = "active", NEW m \in Machines, NEW i \in Pending(c), create_run(c, m, i),
         NEW ts \in [DOMAIN site.camps -> Tickets]
  PROVE  /\ RowsInv(site, camp, cands', runs', ts)
         /\ Len(runs') = Len(runs) + 1 /\ Len(cands') = Len(cands)
         /\ Shape(cands, cands') /\ \A k \in DOMAIN cands : cands'[k].st = "valid" => cands'[k] = cands[k]
         /\ \A r \in DOMAIN runs' : r \notin DOMAIN runs => r = Len(runs) + 1 /\ runs'[r].cand = i /\ runs'[r].machine = m
<1> DEFINE ds == cands'
           rs == runs'
           n == Len(runs) + 1
           row == [cand |-> i, machine |-> m, width |-> IF Cards(m) = 0 THEN 0 ELSE config_cards(i),
                   st |-> "live", started |-> now, out |-> "none", val |-> 0,
                   stop |-> FALSE, released |-> FALSE, build |-> 0]
<1>1. Typed(site, camp, cands, runs, ticket) /\ Gone(camp, cands) /\ Spent(cands, runs) /\ Hopeless(cands, runs)
  BY Zenon DEF RowsInv
<1>2. Finished(site, camp, cands, runs) /\ Fixed(site, camp) /\ Unstopped(site, camp) /\ Bounded(site, cands)
  BY Zenon DEF RowsInv
<1>3. /\ camp \in [DOMAIN site.camps -> CampRows]
      /\ cands \in Seq(CandRows(site)) /\ runs \in Seq(RunRows(site))
      /\ \A k \in DOMAIN cands : PointOK(site, cands[k])
  BY <1>1, Zenon DEF Typed
<1>4. /\ Len(cands) \in Nat /\ DOMAIN cands = 1..Len(cands) /\ \A k \in DOMAIN cands : cands[k] \in CandRows(site)
      /\ Len(runs) \in Nat /\ DOMAIN runs = 1..Len(runs) /\ \A r \in DOMAIN runs : runs[r] \in RunRows(site)
      /\ Linked(cands, runs) /\ \A r \in DOMAIN runs : runs[r].cand \in DOMAIN cands
      /\ \A d : \A r \in RunsIn(cands, runs, d) : runs[r].cand \in OfIn(cands, d)
  BY <1>1, TypedIs, Zenon
<1>5. i \in Nat /\ i \in DOMAIN cands /\ cands[i].camp = c /\ cands[i].st = "valid" /\ config_cards(i) \in Nat
  BY PendingIs
<1>6. row \in RunRows(site)
  <2>1. m \in DOMAIN site.machines
    BY DEF Machines
  <2>2. (IF Cards(m) = 0 THEN 0 ELSE config_cards(i)) \in Nat
    BY <1>5
  <2> QED BY <1>5, <2>1, <2>2 DEF RunRows
<1>7. rs = Append(runs, row)
  BY DEF create_run
<1>7a. row.cand = i /\ row.machine = m
  OBVIOUS
<1> HIDE DEF row
<1>8. /\ rs \in Seq(RunRows(site)) /\ Len(rs) = n /\ DOMAIN rs = 1..n
      /\ \A r \in DOMAIN runs : rs[r] = runs[r] /\ rs[n] = row /\ n \notin DOMAIN runs /\ n \in DOMAIN rs
  BY <1>3, <1>4, <1>6, <1>7
<1>8a. rs[n] = row /\ n \notin DOMAIN runs /\ n \in DOMAIN rs /\ \A r \in DOMAIN rs : r \in DOMAIN runs \/ r = n
  BY <1>3, <1>4, <1>6, <1>7
<1>9. ds = [cands EXCEPT ![i].st = "exhausted"]
  BY DEF create_run
<1> HIDE DEF ds, rs
<1>10. ds[i] = [cands[i] EXCEPT !.st = "exhausted"] /\ DOMAIN ds = DOMAIN cands /\ \A k \in DOMAIN cands : k # i => ds[k] = cands[k]
  BY <1>3, <1>5, <1>9
<1>11. ds[i] \in CandRows(site) /\ ds[i].st = "exhausted" /\ ds[i].camp = c /\ ds[i].cfg = cands[i].cfg
       /\ ds[i].kind = cands[i].kind /\ ds[i].base = cands[i].base
  BY <1>4, <1>5, <1>10 DEF CandRows
<1>12. ds \in Seq(CandRows(site)) /\ Len(ds) = Len(cands)
  <2>1. ds = [k \in 1..Len(cands) |-> ds[k]]
    BY <1>4, <1>9
  <2>2. \A k \in 1..Len(cands) : ds[k] \in CandRows(site)
    BY <1>4, <1>10, <1>11
  <2> QED BY <1>4, <2>1, <2>2
<1>13. Shape(cands, ds)
  BY <1>5, <1>10, <1>11 DEF Shape
<1>14. /\ \A k \in DOMAIN cands : ds[k].camp = cands[k].camp /\ ds[k].cfg = cands[k].cfg /\ ds[k].base = cands[k].base
       /\ \A k \in DOMAIN cands : ds[k].st # "exhausted" => k # i /\ ds[k] = cands[k]
  BY <1>5, <1>10, <1>11
<1>15. Typed(site, camp, ds, rs, ts)
  <2>1. ASSUME NEW k \in DOMAIN ds PROVE PointOK(site, ds[k])
    <3>1. PointOK(site, cands[k]) /\ ds[k].camp = cands[k].camp /\ ds[k].cfg = cands[k].cfg /\ ds[k].base = cands[k].base
      BY <1>3, <1>10, <1>14, <2>1
    <3> QED BY <3>1 DEF PointOK
  <2>2. Linked(ds, rs)
    BY <1>4, <1>5, <1>7a, <1>8, <1>8a, <1>10 DEF Linked
  <2> QED BY <1>3, <1>8, <1>12, <2>1, <2>2, Zenon DEF Typed
<1>16. Spent(ds, rs)
  <2> SUFFICES ASSUME NEW k \in DOMAIN cands, ds[k].st = "exhausted" PROVE \E r \in DOMAIN rs : rs[r].cand = k
    BY <1>10, Zenon DEF Spent
  <2>1. CASE k = i
    BY <1>7a, <1>8a, <2>1
  <2>2. CASE k # i
    <3>1. cands[k].st = "exhausted"
      BY <1>10, <2>2
    <3>2. PICK r \in DOMAIN runs : runs[r].cand = k
      BY <1>1, <3>1, Zenon DEF Spent
    <3>3. r \in DOMAIN rs /\ rs[r] = runs[r]
      BY <1>4, <1>8, <3>2
    <3> QED BY <3>2, <3>3
  <2> QED BY <2>1, <2>2
<1>17. Hopeless(ds, rs)
  <2> SUFFICES ASSUME NEW k \in DOMAIN cands, ds[k].st = "invalid"
      PROVE  /\ ~ds[k].base /\ \A r \in DOMAIN rs : rs[r].cand # k
             /\ \A j \in DOMAIN ds : ds[j].camp = ds[k].camp /\ ds[j].cfg = ds[k].cfg => j = k
    BY <1>10, Zenon DEF Hopeless
  <2>1. k # i /\ ds[k] = cands[k]
    BY <1>14
  <2>2. /\ ~cands[k].base /\ \A r \in DOMAIN runs : runs[r].cand # k
        /\ \A j \in DOMAIN cands : cands[j].camp = cands[k].camp /\ cands[j].cfg = cands[k].cfg => j = k
    BY <1>1, <2>1 DEF Hopeless
  <2>3. \A r \in DOMAIN rs : rs[r].cand # k
    BY <1>7a, <1>8, <1>8a, <2>1, <2>2
  <2> QED BY <1>10, <1>14, <2>1, <2>2, <2>3
<1>18. Gone(camp, ds)
  BY <1>1, <1>10, <1>14, SMT DEF Gone
<1>19. Bounded(site, ds)
  <2> SUFFICES ASSUME NEW d \in DOMAIN site.camps, NEW g \in DOMAIN site.camps[d].cfgs
      PROVE  /\ Cardinality(Screened(ds, d, g)) <= site.camps[d].confirm_repeats
             /\ Cardinality(Verified(ds, d, g)) <= 1
    BY Zenon DEF Bounded
  <2>1. Holders(runs, runs)
    BY DEF Holders
  <2>2. SameShape(cands, runs, ds, runs)
    BY <1>4, <1>13, <2>1, ShapeSame, Zenon
  <2>3. Screened(ds, d, g) = Screened(cands, d, g) /\ Verified(ds, d, g) = Verified(cands, d, g)
    BY <2>2, SMT DEF SameShape
  <2>4. /\ Cardinality(Screened(cands, d, g)) <= site.camps[d].confirm_repeats
        /\ Cardinality(Verified(cands, d, g)) <= 1
    BY <1>2, Zenon DEF Bounded
  <2> QED BY <2>3, <2>4
<1>20. Finished(site, camp, ds, rs)
  <2> SUFFICES ASSUME NEW d \in DOMAIN site.camps, Over(camp[d]) PROVE Complete(site, ds, rs, d)
    BY Zenon DEF Finished
  <2>1. d # c
    BY DEF Over
  <2>2. OfIn(ds, d) = OfIn(cands, d) /\ \A k \in OfIn(cands, d) : ds[k] = cands[k]
    BY <1>5, <1>10, <1>14, <2>1 DEF OfIn
  <2>3. RunsIn(ds, rs, d) = RunsIn(cands, runs, d)
    <3>1. \A r \in DOMAIN runs : r \in DOMAIN rs /\ rs[r] = runs[r] /\ ds[rs[r].cand].camp = cands[runs[r].cand].camp
      BY <1>4, <1>8, <1>14
    <3>2. ds[rs[n].cand].camp # d
      BY <1>7a, <1>8a, <1>11, <2>1
    <3> QED BY <1>8a, <3>1, <3>2 DEF RunsIn
  <2>4. \A r \in RunsIn(cands, runs, d) : rs[r] = runs[r]
    BY <1>8 DEF RunsIn
  <2>5. SameIn(cands, runs, ds, rs, d)
    BY <1>4, <2>2, <2>3, <2>4, Zenon DEF SameIn
  <2>6. Complete(site, cands, runs, d)
    BY <1>2, Zenon DEF Finished
  <2> QED BY <2>5, <2>6, SameComplete, Zenon
<1>21. RowsInv(site, camp, ds, rs, ts)
  BY <1>2, <1>15, <1>16, <1>17, <1>18, <1>19, <1>20, Zenon DEF RowsInv
<1>22. \A k \in DOMAIN cands : ds[k].st = "valid" => ds[k] = cands[k]
  BY <1>14
<1>23. \A r \in DOMAIN rs : r \notin DOMAIN runs => r = n /\ rs[r].cand = i /\ rs[r].machine = m
  BY <1>7a, <1>8a
<1> QED BY <1>8, <1>12, <1>13, <1>21, <1>22, <1>23 DEF ds, rs

(***************************************************************************)
(* The steps keep the invariant.  First what many of them share.           *)
(***************************************************************************)
LEMMA OneCamp ==
  ASSUME NEW w, NEW ks, NEW ds, NEW rs, NEW ts, RowsInv(w, ks, ds, rs, ts),
         NEW c \in DOMAIN w.camps, NEW k \in CampRows, KeptCamp(w, ks[c], k)
  PROVE  /\ RowsInv(w, [ks EXCEPT ![c] = k], ds, rs, ts)
         /\ [ks EXCEPT ![c] = k][c] = k /\ \A d \in DOMAIN w.camps : d # c => [ks EXCEPT ![c] = k][d] = ks[d]
<1> DEFINE k2 == [ks EXCEPT ![c] = k]
<1>1. ks \in [DOMAIN w.camps -> CampRows] /\ ts \in [DOMAIN w.camps -> Tickets]
  BY Zenon DEF RowsInv, Typed
<1>2. k2 \in [DOMAIN w.camps -> CampRows] /\ k2[c] = k /\ \A d \in DOMAIN w.camps : d # c => k2[d] = ks[d]
  BY <1>1
<1>3. \A d : KeptCamp(w, ks[d], ks[d])
  BY DEF KeptCamp
<1>4. \A d \in DOMAIN w.camps : KeptCamp(w, ks[d], k2[d])
  <2> HIDE DEF k2
  <2> QED BY <1>2, <1>3
<1> HIDE DEF k2
<1>5. RowsInv(w, k2, ds, rs, ts)
  BY <1>1, <1>2, <1>4, RowsCamps
<1> QED BY <1>2, <1>5 DEF k2

RowsTyped(w, ks, ds, rs, ts) ==
  /\ ks \in [DOMAIN w.camps -> CampRows] /\ ts \in [DOMAIN w.camps -> Tickets]
  /\ ds \in Seq(CandRows(w)) /\ rs \in Seq(RunRows(w))
  /\ Len(ds) \in Nat /\ DOMAIN ds = 1..Len(ds) /\ \A i \in DOMAIN ds : ds[i] \in CandRows(w)
  /\ Len(rs) \in Nat /\ DOMAIN rs = 1..Len(rs) /\ \A r \in DOMAIN rs : rs[r] \in RunRows(w)
  /\ Linked(ds, rs) /\ \A r \in DOMAIN rs : rs[r].cand \in DOMAIN ds

LEMMA RowsTypedIs ==
  ASSUME NEW w, NEW ks, NEW ds, NEW rs, NEW ts, RowsInv(w, ks, ds, rs, ts)
  PROVE  RowsTyped(w, ks, ds, rs, ts)
<1>1. Typed(w, ks, ds, rs, ts)
  BY Zenon DEF RowsInv
<1>2. /\ ks \in [DOMAIN w.camps -> CampRows] /\ ts \in [DOMAIN w.camps -> Tickets]
      /\ ds \in Seq(CandRows(w)) /\ rs \in Seq(RunRows(w))
  BY <1>1, Zenon DEF Typed
<1>3. /\ Len(ds) \in Nat /\ DOMAIN ds = 1..Len(ds) /\ \A i \in DOMAIN ds : ds[i] \in CandRows(w)
      /\ Len(rs) \in Nat /\ DOMAIN rs = 1..Len(rs) /\ \A r \in DOMAIN rs : rs[r] \in RunRows(w)
      /\ Linked(ds, rs) /\ \A r \in DOMAIN rs : rs[r].cand \in DOMAIN ds
  BY <1>1, TypedIs, Zenon
<1> QED BY <1>2, <1>3 DEF RowsTyped

LEMMA RowsAre ==
  ASSUME NEW w, NEW ks, NEW ds, NEW rs, NEW ts, RowsInv(w, ks, ds, rs, ts)
  PROVE  /\ ks \in [DOMAIN w.camps -> CampRows] /\ ts \in [DOMAIN w.camps -> Tickets]
         /\ ds \in Seq(CandRows(w)) /\ rs \in Seq(RunRows(w))
         /\ Len(ds) \in Nat /\ DOMAIN ds = 1..Len(ds) /\ \A i \in DOMAIN ds : ds[i] \in CandRows(w)
         /\ Len(rs) \in Nat /\ DOMAIN rs = 1..Len(rs) /\ \A r \in DOMAIN rs : rs[r] \in RunRows(w)
         /\ Linked(ds, rs) /\ \A r \in DOMAIN rs : rs[r].cand \in DOMAIN ds
BY RowsTypedIs, Zenon DEF RowsTyped

\* A campaign that is over has no run to move.
Still(ds, rs, c) == \A r \in DOMAIN rs : ds[rs[r].cand].camp = c => rs[r].st # "live"
LEMMA OverIdle ==
  ASSUME NEW w, NEW ks, NEW ds, NEW rs, NEW ts, RowsInv(w, ks, ds, rs, ts),
         NEW c \in DOMAIN w.camps, Over(ks[c])
  PROVE  Still(ds, rs, c)
<1>1. LiveIn(ds, rs, c) = {}
  BY Zenon DEF RowsInv, Finished, Complete
<1> QED BY <1>1, SMT DEF LiveIn, RunsIn, Still

\* The rows at the start of the tick are those a lost tick brings back.
LEMMA TickStarts ==
  ASSUME Inv, PluginTurn, saved' = IF Idle THEN rows ELSE saved, site' = site,
         RowsInv(site, camp', cands', runs', ticket'), Len(cands) <= Len(cands'), Len(runs) <= Len(runs')
  PROVE  Under'
<1>1. RowsInv(site, camp, cands, runs, ticket)
  BY Zenon DEF Inv
<1>2. Len(cands) \in Nat /\ Len(runs) \in Nat /\ Len(cands') \in Nat /\ Len(runs') \in Nat
  BY <1>1, RowsAre, Zenon
<1>3. CASE Idle
  <2>1. Empty(site, camp, cands, runs)
    BY <1>3 DEF Inv, Between
  <2>2. saved' = <<camp, cands, runs, ticket>>
    BY <1>3 DEF rows
  <2>3. saved'[1] = camp /\ saved'[2] = cands /\ saved'[3] = runs /\ saved'[4] = ticket
    BY <2>2
  <2> QED BY <1>1, <2>1, <2>3 DEF Under
<1>4. CASE ~Idle
  <2>1. Under /\ saved' = saved
    BY <1>4 DEF Inv
  <2>2. /\ RowsInv(site, saved[1], saved[2], saved[3], saved[4])
        /\ Empty(site, saved[1], saved[2], saved[3])
        /\ Len(saved[2]) <= Len(cands) /\ Len(saved[3]) <= Len(runs)
    BY <2>1 DEF Under
  <2>3. Len(saved[2]) \in Nat /\ Len(saved[3]) \in Nat
    BY <2>2, RowsAre, Zenon
  <2>4. Len(saved[2]) <= Len(cands') /\ Len(saved[3]) <= Len(runs')
    BY <1>2, <2>2, <2>3
  <2> QED BY <2>1, <2>2, <2>4 DEF Under
<1> QED BY <1>3, <1>4

LEMMA TickGoesOn ==
  ASSUME Inv, ~Idle, saved' = saved, site' = site,
         RowsInv(site, camp', cands', runs', ticket'), Len(cands) <= Len(cands'), Len(runs) <= Len(runs')
  PROVE  Under'
<1>1. RowsInv(site, camp, cands, runs, ticket)
  BY Zenon DEF Inv
<1>2. Len(cands) \in Nat /\ Len(runs) \in Nat /\ Len(cands') \in Nat /\ Len(runs') \in Nat
  BY <1>1, RowsAre, Zenon
<1>3. Under
  BY DEF Inv
<1>4. /\ RowsInv(site, saved[1], saved[2], saved[3], saved[4])
      /\ Empty(site, saved[1], saved[2], saved[3])
      /\ Len(saved[2]) <= Len(cands) /\ Len(saved[3]) <= Len(runs)
  BY <1>3 DEF Under
<1>5. Len(saved[2]) \in Nat /\ Len(saved[3]) \in Nat
  BY <1>4, RowsAre, Zenon
<1>6. Len(saved[2]) <= Len(cands') /\ Len(saved[3]) <= Len(runs')
  BY <1>2, <1>4, <1>5
<1> QED BY <1>4, <1>6 DEF Under

\* A campaign that is leaving stays shut while the tick goes on.
LEMMA ShutStays ==
  ASSUME Inv, ~Idle, turn.at # "plugins", site' = site, now' = now,
         \A c \in Camps : Leaving(site, camp'[c], c) => Leaving(site, camp[c], c) /\ camp'[c].end = camp[c].end
  PROVE  Shuts'
<1>1. Shuts
  BY DEF Inv
<1>2. Camps' = Camps
  BY DEF Camps
<1> QED BY <1>1, <1>2 DEF Shuts

(***************************************************************************)
(* The plugin's steps.                                                     *)
(***************************************************************************)
LEMMA StageTypes ==
  ASSUME site \in Sites, NEW s \in Stages, NEW q \in Seq(Camps)
  PROVE  /\ Stage(s, q) \in Turns(site) /\ Stage(s, q).at = s /\ Stage(s, q).todo = q
         /\ Stage(s, q).served = {} /\ Stage(s, q).blocked = {}
BY DEF Stage, Turns, Camps

LEMMA PluginKeeps ==
  ASSUME Inv, NEW c \in Camps, NEW stopped \in SUBSET {c}, PluginSteps(c, stopped),
         NEW k \in CampRows, camp' = [camp EXCEPT ![c] = k], KeptCamp(site, camp[c], k),
         k.closing => k.end # NoTime /\ k.end <= now
  PROVE  Inv'
<1>1. /\ site \in Sites /\ now \in Nat /\ prof \in Profiles /\ turn \in Turns(site)
      /\ RowsInv(site, camp, cands, runs, ticket)
  BY Zenon DEF Inv
<1>2. /\ PluginTurn /\ turn' = [Stage("plugins", <<>>) EXCEPT !.served = turn.served \cup stopped]
      /\ saved' = (IF Idle THEN rows ELSE saved)
      /\ site' = site /\ now' = now /\ cands' = cands /\ runs' = runs /\ ticket' = ticket /\ prof' = prof
  BY DEF PluginSteps
<1>3. /\ RowsInv(site, camp', cands, runs, ticket)
      /\ camp'[c] = k /\ \A d \in Camps : d # c => camp'[d] = camp[d]
  <2>1. c \in DOMAIN site.camps /\ camp \in [DOMAIN site.camps -> CampRows]
    BY <1>1, RowsAre, Zenon DEF Camps
  <2>2. RowsInv(site, [camp EXCEPT ![c] = k], cands, runs, ticket)
    BY <1>1, <2>1, OneCamp, Zenon
  <2> QED BY <2>1, <2>2 DEF Camps
<1>4. turn' \in Turns(site) /\ turn'.at = "plugins" /\ turn'.served = turn.served \cup stopped
  <2>1. turn' = [at |-> "plugins", todo |-> <<>>, blocked |-> {}, served |-> turn.served \cup stopped]
    BY <1>2 DEF Stage
  <2>2. turn.served \cup stopped \in SUBSET DOMAIN site.camps
    <3>1. turn.served \in SUBSET DOMAIN site.camps
      BY <1>1 DEF Turns
    <3> QED BY <3>1 DEF Camps
  <2>3. <<>> \in Seq(DOMAIN site.camps)
    BY EmptySeq
  <2> QED BY <2>1, <2>2, <2>3 DEF Turns, Stages
<1>5. Len(cands) <= Len(cands') /\ Len(runs) <= Len(runs')
  <2>1. Len(cands) \in Nat /\ Len(runs) \in Nat
    BY <1>1, RowsAre, Zenon
  <2> QED BY <1>2, <2>1
<1>6. RowsInv(site, camp', cands', runs', ticket')
  BY <1>2, <1>3
<1>7. Under'
  BY <1>2, <1>5, <1>6, TickStarts
<1>8. Shuts'
  <2> SUFFICES ASSUME NEW d \in Camps, Leaving(site, camp'[d], d), d \in turn.served \cup stopped
      PROVE  camp'[d].end # NoTime /\ camp'[d].end <= now
    BY <1>2, <1>4 DEF Shuts, Camps
  <2>1. CASE d = c
    BY <1>3, <2>1 DEF Leaving
  <2>2. CASE d # c
    <3>1. d \in turn.served /\ camp'[d] = camp[d]
      BY <1>3, <2>2
    <3>2. turn.at = "plugins" /\ ~Idle
      <4>1. CASE Idle
        <5>1. turn = Free
          BY <4>1 DEF Inv, Between
        <5> QED BY <3>1, <5>1 DEF Free, Stage
      <4> QED BY <1>2, <4>1 DEF PluginTurn, Idle
    <3>3. Shuts
      BY <3>2 DEF Inv
    <3> QED BY <3>1, <3>2, <3>3 DEF Shuts
  <2> QED BY <2>1, <2>2
<1>9. ~Idle' /\ turn'.at \notin {"list", "tickets", "queue"}
  BY <1>4 DEF Idle
<1> QED BY <1>1, <1>2, <1>4, <1>6, <1>7, <1>8, <1>9 DEF Inv

LEMMA CampRowIs ==
  ASSUME RowsInv(site, camp, cands, runs, ticket), NEW c \in Camps
  PROVE  camp[c] \in CampRows /\ camp = [camp EXCEPT ![c] = camp[c]]
<1>1. camp \in [Camps -> CampRows]
  BY RowsAre, Zenon DEF Camps
<1> QED BY <1>1

LEMMA ManagedKeeps == ASSUME Inv, ManagedSteps PROVE Inv'
<1>1. /\ site \in Sites /\ now \in Nat /\ prof \in Profiles /\ RowsInv(site, camp, cands, runs, ticket)
      /\ site.hours \subseteq Nat
  BY SiteFacts DEF Inv
<1>2. PICK c \in Camps :
        \/ \E h \in site.hours \cup {0} : create_managed_campaign(c, h)
        \/ \E h \in site.hours : start_managed_campaign(c, h) \/ extend_managed_campaign(c, now + h)
        \/ \E b \in 1..Len(prof.builds) : prof.builds[b] = "ready" /\ pin_managed_dataset(c, b, "adopted")
        \/ \E a \in {"", "unavailable"} : pin_managed_dataset(c, 0, a)
        \/ stop_managed_campaign(c)
  BY Zenon DEF ManagedSteps
<1>3. camp[c] \in CampRows /\ camp \in [Camps -> CampRows]
  BY <1>1, RowsAre, CampRowIs DEF Camps
<1>4. now \in Int /\ NoTime \in Int /\ now # NoTime /\ Len(prof.builds) \in Nat
  <2>1. prof.builds \in Seq({"running", "ready", "failed"})
    BY <1>1 DEF Profiles
  <2> QED BY <1>1, <2>1, LenProperties DEF NoTime
<1>5. ASSUME NEW k \in CampRows, camp' = [camp EXCEPT ![c] = k], KeptCamp(site, camp[c], k), PluginAsks(c),
             k.closing = camp[c].closing
      PROVE  Inv'
  <2>1. ~k.closing /\ PluginSteps(c, {})
    BY <1>5 DEF PluginAsks
  <2> QED BY <1>5, <2>1, PluginKeeps
<1>6. ASSUME NEW h \in site.hours \cup {0}, create_managed_campaign(c, h) PROVE Inv'
  <2> DEFINE k == IF h > 0 THEN HeldOpen(camp[c], h)
                  ELSE ByPlugin(camp[c], IF from_campaign(camp[c].sch) THEN "scheduled" ELSE "draft")
  <2>1. camp[c].st = "unborn" /\ PluginAsks(c) /\ camp' = [camp EXCEPT ![c] = k] /\ h \in Nat
    BY <1>1, <1>3, <1>6 DEF create_managed_campaign
  <2>2. k \in CampRows /\ KeptCamp(site, camp[c], k) /\ k.closing = camp[c].closing
    <3>1. CASE h > 0
      <4>1. PICK x \in Int : x = now + h
        BY <1>4, <2>1
      <4>2. k = [camp[c] EXCEPT !.st = "active", !.by = "plugin", !.start = now, !.end = x, !.over = x]
        BY <1>3, <4>1, <3>1 DEF HeldOpen, ByPlugin, CampRows
      <4> HIDE DEF k
      <4>3. k \in CampRows /\ k.st = "active" /\ k.sch = camp[c].sch /\ k.closing = camp[c].closing
        BY <1>3, <1>4, <4>2 DEF CampRows, CampStates
      <4> QED BY <2>1, <4>3 DEF KeptCamp, Over
    <3>2. CASE ~(h > 0)
      <4>1. PICK s \in {"scheduled", "draft"} : k = ByPlugin(camp[c], s)
        BY <3>2
      <4> HIDE DEF k
      <4> QED BY <1>3, <2>1, <4>1 DEF ByPlugin, CampRows, CampStates, KeptCamp, Over
    <3> QED BY <3>1, <3>2
  <2> HIDE DEF k
  <2> QED BY <1>5, <2>1, <2>2
<1>7. ASSUME NEW h \in site.hours, start_managed_campaign(c, h) PROVE Inv'
  <2> DEFINE k == HeldOpen(camp[c], h)
  <2>1. camp[c].st \in {"draft", "scheduled"} /\ PluginAsks(c) /\ camp' = [camp EXCEPT ![c] = k] /\ h \in Nat
    BY <1>1, <1>3, <1>7 DEF start_managed_campaign
  <2>2. k \in CampRows /\ KeptCamp(site, camp[c], k) /\ k.closing = camp[c].closing
    <3>1. PICK x \in Int : x = now + h
      BY <1>4, <2>1
    <3>2. k = [camp[c] EXCEPT !.st = "active", !.by = "plugin", !.start = now, !.end = now + h, !.over = now + h]
      BY <1>3 DEF HeldOpen, ByPlugin, CampRows
    <3> HIDE DEF k
    <3>3. k \in CampRows /\ k.st = "active" /\ k.sch = camp[c].sch /\ k.closing = camp[c].closing
      <4>1. k.st = "active" /\ k.sch = camp[c].sch /\ k.closing = camp[c].closing
        BY <1>3, <3>2 DEF CampRows
      <4>2. k \in CampRows
        BY <1>3, <1>4, <3>1, <3>2 DEF CampRows, CampStates
      <4> QED BY <4>1, <4>2
    <3> QED BY <2>1, <3>3 DEF KeptCamp, Over
  <2> HIDE DEF k
  <2> QED BY <1>5, <2>1, <2>2
<1>8. ASSUME NEW h \in site.hours, extend_managed_campaign(c, now + h) PROVE Inv'
  <2> DEFINE k == [camp[c] EXCEPT !.end = now + h, !.over = now + h]
  <2>1. camp[c].st = "active" /\ PluginAsks(c) /\ camp' = [camp EXCEPT ![c] = k] /\ h \in Nat
    BY <1>1, <1>3, <1>8 DEF extend_managed_campaign
  <2>2. k \in CampRows /\ k.st = camp[c].st /\ k.sch = camp[c].sch /\ k.closing = camp[c].closing
    <3>1. PICK x \in Int : x = now + h
      BY <1>4, <2>1
    <3> QED BY <1>3, <3>1 DEF CampRows
  <2>3. KeptCamp(site, camp[c], k)
    <3> HIDE DEF k
    <3> QED BY <2>1, <2>2 DEF KeptCamp, Over
  <2> HIDE DEF k
  <2> QED BY <1>5, <2>1, <2>2, <2>3
<1>9. ASSUME NEW b \in Nat, NEW a \in Answers, pin_managed_dataset(c, b, a) PROVE Inv'
  <2> DEFINE k == [camp[c] EXCEPT !.build = b, !.applied = a, !.row = 0]
  <2>1. Exists(c) /\ PluginAsks(c) /\ camp' = [camp EXCEPT ![c] = k]
    BY <1>1, <1>3, <1>9 DEF pin_managed_dataset
  <2>2. k \in CampRows /\ KeptCamp(site, camp[c], k) /\ k.closing = camp[c].closing
    BY <1>3, <2>1 DEF CampRows, CampStates, KeptCamp, Over
  <2> HIDE DEF k
  <2> QED BY <1>5, <2>1, <2>2
<1>10. ASSUME stop_managed_campaign(c) PROVE Inv'
  <2> DEFINE k == IF camp[c].st = "done" THEN [camp[c] EXCEPT !.closing = FALSE]
                  ELSE IF \E r \in RunsOf(c) : IsLive(r) THEN Shut(camp[c])
                  ELSE [ByPlugin(Shut(camp[c]), "done") EXCEPT !.closing = FALSE]
  <2>1. Exists(c) /\ PluginSteps(c, {c}) /\ camp' = [camp EXCEPT ![c] = k]
    BY <1>1, <1>3, <1>10 DEF stop_managed_campaign
  <2>2. camp[c].st \notin {"unborn", "deleted"}
    BY <2>1 DEF Exists
  <2>3. k \in CampRows /\ KeptCamp(site, camp[c], k) /\ (k.closing => k.end # NoTime /\ k.end <= now)
    <3>1. CASE camp[c].st = "done"
      <4>1. k = [camp[c] EXCEPT !.closing = FALSE]
        BY <3>1
      <4> HIDE DEF k
      <4> QED BY <1>3, <2>2, <3>1, <4>1 DEF CampRows, CampStates, KeptCamp, Over
    <3>2. CASE camp[c].st # "done" /\ \E r \in RunsOf(c) : IsLive(r)
      <4>1. k = Shut(camp[c])
        BY <3>2
      <4> HIDE DEF k
      <4>2. PICK e \in Int : /\ e = IF camp[c].end = NoTime \/ camp[c].end > now THEN now ELSE camp[c].end
                             /\ e # NoTime /\ e <= now
        BY <1>3, <1>4 DEF CampRows
      <4>3. k = [camp[c] EXCEPT !.closing = TRUE, !.over = NoTime, !.end = e]
        BY <4>1, <4>2 DEF Shut
      <4>4. k \in CampRows /\ k.st = camp[c].st /\ k.by = camp[c].by /\ k.sch = camp[c].sch /\ k.end = e
        BY <1>3, <1>4, <4>3 DEF CampRows
      <4>5. KeptCamp(site, camp[c], k)
        BY <2>2, <4>4 DEF KeptCamp, Over
      <4> QED BY <4>2, <4>4, <4>5
    <3>3. CASE camp[c].st # "done" /\ ~\E r \in RunsOf(c) : IsLive(r)
      <4>1. k = [ByPlugin(Shut(camp[c]), "done") EXCEPT !.closing = FALSE]
        BY <3>3
      <4> HIDE DEF k
      <4> QED BY <1>3, <1>4, <2>2, <3>3, <4>1 DEF CampRows, CampStates, KeptCamp, Over, Shut, ByPlugin
    <3> QED BY <3>1, <3>2, <3>3
  <2> HIDE DEF k
  <2> QED BY <2>1, <2>3, PluginKeeps
<1>11. ASSUME NEW b \in 1..Len(prof.builds), pin_managed_dataset(c, b, "adopted") PROVE Inv'
  <2>1. b \in Nat /\ "adopted" \in Answers
    BY <1>4 DEF Answers
  <2> QED BY <1>9, <1>11, <2>1
<1>12. ASSUME NEW a \in {"", "unavailable"}, pin_managed_dataset(c, 0, a) PROVE Inv'
  BY <1>9, <1>12 DEF Answers
<1> QED BY <1>2, <1>6, <1>7, <1>8, <1>10, <1>11, <1>12

(***************************************************************************)
(* The clock and the stop requests.                                        *)
(***************************************************************************)
LEMMA WindowIs ==
  ASSUME now \in Nat, NEW s \in Schedules, current_window(s) # <<>>
  PROVE  current_window(s)[1] \in Int /\ current_window(s)[2] \in Int
<1> DEFINE today == now \div Day
           O == Occurrences(s)
           found == {i \in 1..3 : O[i][1] <= now /\ now < O[i][2]}
           first == O[Min(found)]
<1>1. Day \in Nat \ {0} /\ today \in Int
  BY BoundsAssumption
<1>2. s.start \in Int /\ s.end \in Int
  BY DEF Schedules
<1>3. \A d \in Int : occurrence(s, d)[1] \in Int /\ occurrence(s, d)[2] \in Int
  <2> SUFFICES ASSUME NEW d \in Int PROVE occurrence(s, d)[1] \in Int /\ occurrence(s, d)[2] \in Int
    OBVIOUS
  <2>1. d * Day + s.start \in Int /\ d * Day + s.end \in Int /\ (d + 1) * Day + s.end \in Int
    BY <1>1, <1>2
  <2> QED BY <2>1 DEF occurrence
<1> HIDE DEF today
<1>4. candidate_days = <<today - 1, today, today + 1>>
  BY DEF candidate_days, today
<1>5. \A i \in 1..3 : candidate_days[i] \in Int
  BY <1>1, <1>4
<1>6. \A i \in 1..3 : O[i] = occurrence(s, candidate_days[i])
  BY DEF Occurrences
<1> HIDE DEF O
<1>7. current_window(s) = IF found = {} \/ (s.until # NoTime /\ first[1] > s.until) THEN <<>> ELSE first
  BY DEF current_window, FirstOf, O
<1>8. found # {} /\ current_window(s) = first
  BY <1>7
<1>9. Min(found) \in found
  <2>1. found \subseteq Nat
    OBVIOUS
  <2> HIDE DEF found
  <2> QED BY <1>8, <2>1, MinIs
<1>10. Min(found) \in 1..3
  BY <1>9
<1> HIDE DEF found
<1> QED BY <1>3, <1>5, <1>6, <1>8, <1>10

LEMMA AdvancedIs ==
  ASSUME now \in Nat, NEW k \in CampRows
  PROVE  /\ Advanced(k) \in CampRows /\ KeptCamp(site, k, Advanced(k)) /\ Advanced(k).closing = k.closing
         /\ k.st = "unborn" => Advanced(k).st = "unborn"
         /\ ~from_campaign(k.sch) => Advanced(k).end = k.end
<1> DEFINE w == current_window(k.sch)
           k1 == IF k.over # NoTime THEN [k EXCEPT !.over = NoTime] ELSE k
<1>1. k1 \in CampRows /\ k1.st = k.st /\ k1.by = k.by /\ k1.sch = k.sch /\ k1.end = k.end /\ k1.closing = k.closing
  BY DEF CampRows, NoTime
<1> HIDE DEF k1
<1>2. CASE Advanced(k) \in {k, k1}
  BY <1>1, <1>2 DEF KeptCamp, Over
<1>3. CASE /\ k.st \in {"scheduled", "active"} /\ from_campaign(k.sch) /\ w # <<>>
           /\ Advanced(k) = [k1 EXCEPT !.start = w[1], !.end = w[2], !.st = "active",
                                       !.by = IF k.st = "active" THEN @ ELSE "clock"]
  <2>1. k.sch \in Schedules
    BY DEF CampRows
  <2>2. PICK x \in Int, y \in Int : x = w[1] /\ y = w[2]
    BY <1>3, <2>1, WindowIs
  <2>3. PICK b \in {"person", "clock", "plugin", "worker"} : b = IF k.st = "active" THEN k1.by ELSE "clock"
    BY <1>1 DEF CampRows
  <2> DEFINE k2 == [k1 EXCEPT !.start = x, !.end = y, !.st = "active", !.by = b]
  <2>4. k2 \in CampRows /\ k2.st = "active" /\ k2.sch = k1.sch /\ k2.closing = k1.closing
    BY <1>1 DEF CampRows, CampStates
  <2>5. Advanced(k) = k2
    BY <1>1, <1>3, <2>2, <2>3 DEF CampRows
  <2> HIDE DEF k2
  <2> QED BY <1>1, <1>3, <2>4, <2>5 DEF KeptCamp, Over
<1>4. CASE /\ k.st = "active"
           /\ Advanced(k) = [k1 EXCEPT !.st = IF is_finished(k.sch) THEN "done" ELSE "scheduled", !.by = "clock"]
           /\ from_campaign(k.sch)
  <2>1. PICK s \in {"done", "scheduled"} : s = IF is_finished(k.sch) THEN "done" ELSE "scheduled"
    OBVIOUS
  <2> DEFINE k2 == [k1 EXCEPT !.st = s, !.by = "clock"]
  <2>2. k2 \in CampRows /\ k2.st = s /\ k2.by = "clock" /\ k2.sch = k1.sch /\ k2.closing = k1.closing
    BY <1>1 DEF CampRows, CampStates
  <2>3. Advanced(k) = k2
    BY <1>4, <2>1
  <2> HIDE DEF k2
  <2> QED BY <1>1, <1>4, <2>1, <2>2, <2>3 DEF KeptCamp, Over
<1> QED BY <1>2, <1>3, <1>4, Zenon DEF Advanced, k1

\* A step that moves runs, and puts back in the queue what they ran.
Requeue(ds, back) == [i \in DOMAIN ds |-> IF i \in back THEN [ds[i] EXCEPT !.st = "valid"] ELSE ds[i]]
Moves(w, ks, ds, rs, ks2, rs2, back) ==
  /\ ks2 \in [DOMAIN w.camps -> CampRows]
  /\ \A c \in DOMAIN w.camps : KeptCamp(w, ks[c], ks2[c])
  /\ rs2 = [r \in DOMAIN rs |-> rs2[r]]
  /\ \A r \in DOMAIN rs : rs2[r] \in RunRows(w) /\ rs2[r].cand = rs[r].cand
  /\ \A r \in DOMAIN rs : rs[r].st # "live" => rs2[r] = rs[r]
  /\ \A i \in back : \E r \in DOMAIN rs : rs[r].cand = i /\ rs[r].st = "live"

Moved(w, ds, rs, ks2, rs2, ts2, back) ==
  /\ RowsInv(w, ks2, Requeue(ds, back), rs2, ts2)
  /\ Len(Requeue(ds, back)) = Len(ds) /\ Len(rs2) = Len(rs)
  /\ Shape(ds, Requeue(ds, back)) /\ Holders(rs, rs2)

LEMMA RunsMoved ==
  ASSUME NEW w, NEW ks, NEW ds, NEW rs, NEW ts, RowsInv(w, ks, ds, rs, ts),
         NEW ts2 \in [DOMAIN w.camps -> Tickets], NEW ks2, NEW rs2, NEW back,
         Moves(w, ks, ds, rs, ks2, rs2, back)
  PROVE  Moved(w, ds, rs, ks2, rs2, ts2, back)
<1> DEFINE ds2 == Requeue(ds, back)
<1>m. /\ ks2 \in [DOMAIN w.camps -> CampRows]
      /\ \A c \in DOMAIN w.camps : KeptCamp(w, ks[c], ks2[c])
      /\ rs2 = [r \in DOMAIN rs |-> rs2[r]]
      /\ \A r \in DOMAIN rs : rs2[r] \in RunRows(w) /\ rs2[r].cand = rs[r].cand
      /\ \A r \in DOMAIN rs : rs[r].st # "live" => rs2[r] = rs[r]
      /\ \A i \in back : \E r \in DOMAIN rs : rs[r].cand = i /\ rs[r].st = "live"
  BY Zenon DEF Moves
<1>1. /\ Len(ds) \in Nat /\ DOMAIN ds = 1..Len(ds) /\ \A i \in DOMAIN ds : ds[i] \in CandRows(w)
      /\ Len(rs) \in Nat /\ DOMAIN rs = 1..Len(rs) /\ \A r \in DOMAIN rs : rs[r] \in RunRows(w)
      /\ Linked(ds, rs) /\ \A r \in DOMAIN rs : rs[r].cand \in DOMAIN ds
  <2>1. RowsTyped(w, ks, ds, rs, ts)
    BY RowsTypedIs, Zenon
  <2> QED BY <2>1, Zenon DEF RowsTyped
<1>2. rs2 \in Seq(RunRows(w)) /\ Len(rs2) = Len(rs) /\ DOMAIN rs2 = DOMAIN rs
  BY <1>1, <1>m
<1>3. ASSUME NEW i \in DOMAIN ds
      PROVE  /\ ds2[i] \in CandRows(w) /\ ds2[i].camp = ds[i].camp /\ ds2[i].cfg = ds[i].cfg
             /\ ds2[i].kind = ds[i].kind /\ ds2[i].base = ds[i].base
             /\ ds2[i].st # "valid" => ds2[i] = ds[i]
             /\ i \notin back => ds2[i] = ds[i]
  <2>1. ds[i] \in CandRows(w)
    BY <1>1
  <2>2. CASE i \in back
    <3>1. ds2[i] = [ds[i] EXCEPT !.st = "valid"]
      BY <2>2 DEF Requeue
    <3> HIDE DEF ds2
    <3> QED BY <2>1, <2>2, <3>1 DEF CandRows
  <2>3. CASE i \notin back
    <3>1. ds2[i] = ds[i]
      BY <2>3 DEF Requeue
    <3> HIDE DEF ds2
    <3> QED BY <2>1, <3>1
  <2> QED BY <2>2, <2>3
<1>4. DOMAIN ds2 = DOMAIN ds /\ ds2 = [i \in 1..Len(ds) |-> ds2[i]]
  BY <1>1 DEF Requeue
<1> HIDE DEF ds2
<1>5. ds2 \in Seq(CandRows(w)) /\ Len(ds2) = Len(ds)
  <2>1. \A i \in 1..Len(ds) : ds2[i] \in CandRows(w)
    BY <1>1, <1>3
  <2> QED BY <1>1, <1>4, <2>1
<1>6. Shape(ds, ds2)
  BY <1>3, <1>4 DEF Shape
<1>7. Holders(rs, rs2)
  BY <1>2, <1>m DEF Holders
<1>8. \A i \in DOMAIN ds : ds[i].camp \in DOMAIN w.camps
  BY <1>1 DEF CandRows
<1>9. \A i \in DOMAIN ds : /\ ds2[i].st = "exhausted" => ds[i].st = "exhausted"
                           /\ ds2[i].st = "invalid" => ds[i].st = "invalid"
                           /\ ds2[i].st = "deleted" => ks2[ds[i].camp].st = "deleted"
  <2> SUFFICES ASSUME NEW i \in DOMAIN ds
      PROVE  /\ ds2[i].st = "exhausted" => ds[i].st = "exhausted"
             /\ ds2[i].st = "invalid" => ds[i].st = "invalid"
             /\ ds2[i].st = "deleted" => ks2[ds[i].camp].st = "deleted"
    OBVIOUS
  <2>1. ds2[i].st # "valid" => ds2[i] = ds[i]
    BY <1>3
  <2>2. ds[i].st = "deleted" => ks[ds[i].camp].st = "deleted"
    BY DEF RowsInv, Gone
  <2>3. KeptCamp(w, ks[ds[i].camp], ks2[ds[i].camp])
    BY <1>8, <1>m
  <2> QED BY <2>1, <2>2, <2>3 DEF KeptCamp
<1>10. ASSUME NEW c \in DOMAIN w.camps, Over(ks2[c])
       PROVE  /\ \A i \in OfIn(ds, c) : ds2[i] = ds[i]
              /\ \A r \in RunsIn(ds, rs, c) : rs2[r] = rs[r]
  <2>1. Over(ks[c])
    BY <1>10, <1>m DEF KeptCamp
  <2>2. \A r \in DOMAIN rs : ds[rs[r].cand].camp = c => rs[r].st # "live"
    <3>1. Still(ds, rs, c)
      BY <2>1, OverIdle, Zenon
    <3> QED BY <3>1, Zenon DEF Still
  <2>3. \A r \in RunsIn(ds, rs, c) : rs2[r] = rs[r]
    BY <1>m, <2>2 DEF RunsIn
  <2>4. \A i \in OfIn(ds, c) : i \notin back
    BY <1>m, <2>2 DEF OfIn
  <2>5. \A i \in OfIn(ds, c) : ds2[i] = ds[i]
    BY <1>3, <2>4 DEF OfIn
  <2> QED BY <2>3, <2>5
<1>11. RowsInv(w, ks2, ds2, rs2, ts2)
  BY <1>2, <1>5, <1>6, <1>7, <1>9, <1>10, <1>m, RowsMoved, Zenon
<1> QED BY <1>2, <1>5, <1>6, <1>7, <1>11 DEF ds2, Moved

LEMMA ClockKeeps == ASSUME Inv, Clock PROVE Inv'
<1>1. /\ site \in Sites /\ now \in Nat /\ prof \in Profiles /\ turn \in Turns(site)
      /\ RowsInv(site, camp, cands, runs, ticket)
  BY Zenon DEF Inv
<1>2. /\ PluginTurn /\ (\A c \in Camps : Closing(c) => c \in turn.served)
      /\ saved' = (IF Idle THEN rows ELSE saved)
      /\ camp' = [c \in Camps |-> Advanced(camp[c])] /\ StopRequests
      /\ turn' = Stage("pins", ById({c \in Camps : camp'[c].st = "active"}))
      /\ site' = site /\ now' = now /\ ticket' = ticket /\ prof' = prof
  BY DEF Clock
<1>3. RowsTyped(site, camp, cands, runs, ticket)
  BY <1>1, RowsTypedIs, Zenon
<1>4. /\ camp \in [Camps -> CampRows] /\ ticket \in [Camps -> Tickets]
      /\ \A r \in DOMAIN runs : runs[r] \in RunRows(site) /\ runs[r].cand \in DOMAIN cands
      /\ Len(cands) \in Nat /\ Len(runs) \in Nat
  BY <1>3, Zenon DEF RowsTyped, Camps
<1>5. ASSUME NEW c \in Camps
      PROVE  /\ camp'[c] = Advanced(camp[c]) /\ camp'[c] \in CampRows
             /\ KeptCamp(site, camp[c], camp'[c]) /\ camp'[c].closing = camp[c].closing
             /\ camp[c].st = "unborn" => camp'[c].st = "unborn"
             /\ ~from_campaign(camp[c].sch) => camp'[c].end = camp[c].end
  <2>1. camp[c] \in CampRows
    BY <1>4
  <2>2. camp'[c] = Advanced(camp[c])
    BY <1>2
  <2> QED BY <1>1, <2>1, <2>2, AdvancedIs
<1>6. camp' \in [DOMAIN site.camps -> CampRows]
  BY <1>2, <1>5 DEF Camps
<1> DEFINE back == {i \in DOMAIN cands : \E r \in DOMAIN runs : runs[r].cand = i /\ IsLive(r) /\ runs[r].stop}
<1>7. cands' = Requeue(cands, back)
  BY <1>2 DEF StopRequests, Requeue
<1>8. runs' = [r \in DOMAIN runs |-> IF IsLive(r) /\ runs[r].stop THEN Stopped(runs[r]) ELSE runs[r]]
  BY <1>2 DEF StopRequests
<1>9. ASSUME NEW r \in DOMAIN runs
      PROVE  runs'[r] \in RunRows(site) /\ runs'[r].cand = runs[r].cand /\ (runs[r].st # "live" => runs'[r] = runs[r])
  <2>1. runs[r] \in RunRows(site)
    BY <1>4
  <2>2. CASE IsLive(r) /\ runs[r].stop
    <3>1. runs'[r] = Stopped(runs[r])
      BY <1>8, <2>2
    <3>2. runs[r].st = "live"
      BY <2>2 DEF IsLive
    <3>3. Stopped(runs[r]) \in RunRows(site) /\ Stopped(runs[r]).cand = runs[r].cand
      BY <2>1 DEF Stopped, RunRows
    <3> QED BY <3>1, <3>2, <3>3
  <2>3. CASE ~(IsLive(r) /\ runs[r].stop)
    <3>1. runs'[r] = runs[r]
      BY <1>8, <2>3
    <3> QED BY <2>1, <3>1
  <2> QED BY <2>2, <2>3
<1>10. runs' = [r \in DOMAIN runs |-> runs'[r]]
  BY <1>8
<1>11. \A i \in back : \E r \in DOMAIN runs : runs[r].cand = i /\ runs[r].st = "live"
  BY DEF IsLive
<1> HIDE DEF back
<1>12. /\ RowsInv(site, camp', cands', runs', ticket) /\ Len(cands') = Len(cands) /\ Len(runs') = Len(runs)
  <2>1. \A c \in DOMAIN site.camps : KeptCamp(site, camp[c], camp'[c])
    BY <1>5 DEF Camps
  <2>2. \A r \in DOMAIN runs : runs'[r] \in RunRows(site) /\ runs'[r].cand = runs[r].cand
    BY <1>9
  <2>3. Moves(site, camp, cands, runs, camp', runs', back)
    BY <1>6, <1>9, <1>10, <1>11, <2>1, <2>2 DEF Moves
  <2>4. ticket \in [DOMAIN site.camps -> Tickets]
    BY <1>4 DEF Camps
  <2>5. Moved(site, cands, runs, camp', runs', ticket, back)
    BY <1>1, <2>3, <2>4, RunsMoved, Zenon
  <2> QED BY <1>7, <2>5 DEF Moved
<1>13. RowsInv(site, camp', cands', runs', ticket') /\ Len(cands) <= Len(cands') /\ Len(runs) <= Len(runs')
  BY <1>2, <1>4, <1>12
<1>14. Under'
  BY <1>2, <1>13, TickStarts
<1>15. turn' \in Turns(site) /\ turn'.at = "pins"
  <2> DEFINE S == {c \in Camps : camp'[c].st = "active"}
  <2>1. IsFiniteSet(Camps) /\ Len(site.camps) \in Nat /\ Camps = 1..Len(site.camps)
    BY <1>1, SiteFacts DEF Camps
  <2>2. IsFiniteSet(S)
    BY <2>1, FS_Subset
  <2>3. S \subseteq Int /\ S \subseteq Camps
    BY <2>1
  <2> HIDE DEF S
  <2>4. Lists(ById(S), S, IdOrder(S))
    BY <2>2, <2>3, ByIdIs
  <2>5. Cardinality(S) \in Nat /\ ById(S) \in [1..Cardinality(S) -> S]
    BY <2>4, Zenon DEF Lists
  <2>6. ById(S) \in Seq(Camps)
    <3>1. \A i \in 1..Cardinality(S) : ById(S)[i] \in Camps
      BY <2>3, <2>5
    <3>2. ById(S) \in [1..Cardinality(S) -> Camps]
      BY <2>5, <3>1
    <3> QED BY <2>5, <3>2
  <2>7. turn' = Stage("pins", ById(S)) /\ "pins" \in Stages
    BY <1>2 DEF S, Stages
  <2> QED BY <1>1, <2>6, <2>7, StageTypes
<1>16. Shuts'
  <2> SUFFICES ASSUME NEW c \in Camps, Leaving(site, camp'[c], c)
      PROVE  camp'[c].end # NoTime /\ camp'[c].end <= now
    BY <1>2 DEF Shuts, Camps
  <2>1. Leaving(site, camp[c], c)
    BY <1>5 DEF Leaving, KeptCamp
  <2>2. Closing(c)
    BY <2>1 DEF Leaving, Closing, Exists
  <2>3. c \in turn.served
    BY <1>2, <2>2
  <2>4. turn.at = "plugins" /\ ~Idle
    <3>1. CASE Idle
      <4>1. turn = Free
        BY <3>1 DEF Inv, Between
      <4> QED BY <2>3, <4>1 DEF Free, Stage
    <3> QED BY <1>2, <3>1 DEF PluginTurn, Idle
  <2>5. camp[c].end # NoTime /\ camp[c].end <= now
    BY <2>1, <2>3, <2>4 DEF Inv, Shuts
  <2>6. camp[c].sch = site.camps[c].sch
    BY <1>1, <2>1 DEF RowsInv, Fixed, Leaving, Camps
  <2>7. camp'[c].end = camp[c].end
    BY <1>5, <2>1, <2>6 DEF Leaving
  <2> QED BY <2>5, <2>7
<1> QED BY <1>1, <1>2, <1>13, <1>14, <1>15, <1>16 DEF Inv, Idle

(***************************************************************************)
(* The stages of the tick that leave the runs alone.                       *)
(***************************************************************************)
LEMMA TailIs ==
  ASSUME turn \in Turns(site), turn.todo # <<>>
  PROVE  LET t == [turn EXCEPT !.todo = Tail(@)]
         IN  /\ t \in Turns(site) /\ t.at = turn.at /\ t.todo = Tail(turn.todo)
             /\ t.served = turn.served /\ t.blocked = turn.blocked
             /\ Head(turn.todo) \in Camps
<1>1. turn.todo \in Seq(DOMAIN site.camps)
  BY DEF Turns
<1>2. Tail(turn.todo) \in Seq(DOMAIN site.camps) /\ Head(turn.todo) \in DOMAIN site.camps
  BY <1>1, HeadTailProperties
<1> QED BY <1>1, <1>2 DEF Turns, Camps

LEMMA SameKeeps ==
  ASSUME Inv, ~Idle, turn.at # "plugins", UNCHANGED <<site, now, saved, camp, cands, runs, ticket>>
  PROVE  /\ RowsInv(site, camp', cands', runs', ticket') /\ Under' /\ Shuts'
         /\ Len(cands) \in Nat /\ Len(runs) \in Nat
<1>1. RowsInv(site, camp, cands, runs, ticket)
  BY Zenon DEF Inv
<1>2. RowsInv(site, camp', cands', runs', ticket')
  BY <1>1
<1>3. Len(cands) \in Nat /\ Len(runs) \in Nat
  BY <1>1, RowsAre, Zenon
<1>4. Len(cands) <= Len(cands') /\ Len(runs) <= Len(runs')
  BY <1>3
<1>5. Under'
  BY <1>2, <1>4, TickGoesOn
<1>6. Shuts'
  BY ShutStays
<1> QED BY <1>2, <1>3, <1>5, <1>6

LEMMA BuildsIs ==
  ASSUME prof \in Profiles
  PROVE  /\ TriggerBuild \in Profiles /\ [TriggerBuild EXCEPT !.exists = TRUE] \in Profiles
         /\ Len(prof.builds) \in Nat /\ prof.current \in Nat
<1>1. prof.builds \in Seq({"running", "ready", "failed"}) /\ prof.current \in Nat
  BY DEF Profiles
<1>2. Append(prof.builds, "running") \in Seq({"running", "ready", "failed"}) /\ Len(prof.builds) \in Nat
  BY <1>1
<1>3. TriggerBuild \in Profiles
  BY <1>2 DEF TriggerBuild, Profiles
<1>4. [TriggerBuild EXCEPT !.exists = TRUE] \in Profiles
  BY <1>3 DEF Profiles
<1> QED BY <1>1, <1>2, <1>3, <1>4

LEMMA PinKeeps == ASSUME Inv, PinStep \/ LLMBenchAway PROVE Inv'
<1>1. /\ site \in Sites /\ now \in Nat /\ prof \in Profiles /\ turn \in Turns(site)
      /\ RowsInv(site, camp, cands, runs, ticket)
  BY Zenon DEF Inv
<1>2. /\ turn.at = "pins" /\ turn.todo # <<>> /\ turn' = [turn EXCEPT !.todo = Tail(@)]
      /\ UNCHANGED <<site, now, saved, cands, runs, ticket>>
  BY DEF PinStep, LLMBenchAway
<1> DEFINE c == Head(turn.todo)
<1>3. turn' \in Turns(site) /\ turn'.at = "pins" /\ c \in Camps
  BY <1>1, <1>2, TailIs
<1>4. ~Idle /\ turn.at # "plugins"
  BY <1>2 DEF Idle
<1>5. \/ UNCHANGED <<camp, prof>> \/ choose_dataset_build(c) \/ poll_dataset_build(c)
  BY DEF PinStep, LLMBenchAway
<1> HIDE DEF c
<1>6. camp \in [Camps -> CampRows] /\ camp[c] \in CampRows
  BY <1>1, <1>3, RowsAre DEF Camps
<1>7. TriggerBuild \in Profiles /\ Len(prof.builds) \in Nat /\ prof.current \in Nat
  BY <1>1, BuildsIs
<1>8. ASSUME NEW k \in CampRows, camp' = [camp EXCEPT ![c] = k], prof' \in Profiles,
             k.st = camp[c].st, k.by = camp[c].by, k.sch = camp[c].sch, k.end = camp[c].end, k.closing = camp[c].closing
      PROVE  Inv'
  <2>1. KeptCamp(site, camp[c], k)
    BY <1>8 DEF KeptCamp, Over
  <2>2. c \in DOMAIN site.camps
    BY <1>3 DEF Camps
  <2>3. RowsInv(site, [camp EXCEPT ![c] = k], cands, runs, ticket)
    BY <1>1, <2>1, <2>2, OneCamp, Zenon
  <2>4. RowsInv(site, camp', cands', runs', ticket')
    BY <1>2, <1>8, <2>3
  <2>5. Len(cands) <= Len(cands') /\ Len(runs) <= Len(runs')
    <3>1. Len(cands) \in Nat /\ Len(runs) \in Nat
      BY <1>1, RowsAre, Zenon
    <3> QED BY <1>2, <3>1
  <2>6. Under'
    BY <1>2, <1>4, <2>4, <2>5, TickGoesOn
  <2>7. ASSUME NEW d \in Camps, Leaving(site, camp'[d], d)
        PROVE  Leaving(site, camp[d], d) /\ camp'[d].end = camp[d].end
    <3>1. CASE d = c
      <4>1. camp'[d] = k
        BY <1>6, <1>8, <3>1
      <4> QED BY <1>8, <2>7, <3>1, <4>1 DEF Leaving
    <3>2. CASE d # c
      <4>1. camp'[d] = camp[d]
        BY <1>6, <1>8, <3>2
      <4> QED BY <2>7, <4>1
    <3> QED BY <3>1, <3>2
  <2>8. Shuts'
    BY <1>2, <1>4, <2>7, ShutStays
  <2> QED BY <1>1, <1>2, <1>3, <1>8, <2>4, <2>6, <2>8 DEF Inv, Idle
<1>9. ASSUME NEW b \in Nat, NEW a \in Answers, NEW r \in Nat,
             camp' = [camp EXCEPT ![c].build = b, ![c].applied = a, ![c].row = r], prof' \in Profiles
      PROVE  Inv'
  <2> DEFINE k == [camp[c] EXCEPT !.build = b, !.applied = a, !.row = r]
  <2>1. camp' = [camp EXCEPT ![c] = k]
    BY <1>3, <1>6, <1>9
  <2>2. k \in CampRows /\ k.st = camp[c].st /\ k.by = camp[c].by /\ k.sch = camp[c].sch
        /\ k.end = camp[c].end /\ k.closing = camp[c].closing
    BY <1>6 DEF CampRows
  <2> HIDE DEF k
  <2> QED BY <1>8, <1>9, <2>1, <2>2
<1>13. "adopted" \in Answers /\ "current" \in Answers /\ "rebuilt" \in Answers /\ "unavailable" \in Answers /\ 0 \in Nat
  BY DEF Answers
<1>10. ASSUME NEW r \in Nat, camp' = [camp EXCEPT ![c].row = r], prof' \in Profiles PROVE Inv'
  <2> DEFINE k == [camp[c] EXCEPT !.row = r]
  <2>1. camp' = [camp EXCEPT ![c] = k]
    BY <1>3, <1>6, <1>10
  <2>2. k \in CampRows /\ k.st = camp[c].st /\ k.by = camp[c].by /\ k.sch = camp[c].sch
        /\ k.end = camp[c].end /\ k.closing = camp[c].closing
    BY <1>6 DEF CampRows
  <2> HIDE DEF k
  <2> QED BY <1>8, <1>10, <2>1, <2>2
<1>11. ASSUME NEW a \in Answers, camp' = [camp EXCEPT ![c].applied = a, ![c].row = 0], prof' \in Profiles PROVE Inv'
  <2>1. PICK b \in Nat : b = camp[c].build
    BY <1>6 DEF CampRows
  <2>2. camp' = [camp EXCEPT ![c].build = b, ![c].applied = a, ![c].row = 0]
    BY <1>6, <1>11, <1>3, <2>1 DEF CampRows
  <2> QED BY <1>9, <1>11, <1>13, <2>2
<1>12. CASE UNCHANGED <<camp, prof>>
  <2>1. camp' = [camp EXCEPT ![c] = camp[c]]
    BY <1>3, <1>6, <1>12
  <2> QED BY <1>1, <1>6, <1>8, <1>12, <2>1
<1>14. CASE choose_dataset_build(c)
  <2>1. CASE camp' = conclude_no_dataset(c) /\ prof' = prof
    BY <1>1, <1>11, <1>13, <2>1 DEF conclude_no_dataset
  <2>2. CASE camp' = Pinned(c, prof.current, IF decide(c) = "adopt" THEN "adopted" ELSE "current") /\ prof' = prof
    <3>1. PICK a \in Answers : a = IF decide(c) = "adopt" THEN "adopted" ELSE "current"
      BY <1>13
    <3>2. camp' = [camp EXCEPT ![c].build = prof.current, ![c].applied = a, ![c].row = 0]
      BY <2>2, <3>1 DEF Pinned
    <3> QED BY <1>1, <1>7, <1>9, <1>13, <2>2, <3>2
  <2>3. CASE camp' = [camp EXCEPT ![c].row = Len(prof.builds)] /\ prof' = prof
    BY <1>1, <1>7, <1>10, <2>3
  <2>4. CASE camp' = [camp EXCEPT ![c].row = Len(prof.builds) + 1] /\ prof' = TriggerBuild
    <3>1. Len(prof.builds) + 1 \in Nat
      BY <1>7
    <3> QED BY <1>7, <1>10, <2>4, <3>1
  <2> QED BY <1>14, <2>1, <2>2, <2>3, <2>4 DEF choose_dataset_build
<1>15. CASE poll_dataset_build(c)
  <2>1. prof' = prof /\ camp[c].row \in Nat
    BY <1>6, <1>15 DEF poll_dataset_build, CampRows
  <2>2. CASE camp' = camp
    BY <1>12, <2>1, <2>2
  <2>3. CASE camp' = Pinned(c, camp[c].row, "rebuilt")
    BY <1>1, <1>9, <1>13, <2>1, <2>3 DEF Pinned
  <2>4. CASE camp' = Pinned(c, prof.current, "current")
    BY <1>1, <1>7, <1>9, <1>13, <2>1, <2>4 DEF Pinned
  <2>5. CASE camp' = conclude_no_dataset(c)
    BY <1>1, <1>11, <1>13, <2>1, <2>5 DEF conclude_no_dataset
  <2> QED BY <1>15, <2>2, <2>3, <2>4, <2>5 DEF poll_dataset_build
<1> QED BY <1>5, <1>12, <1>14, <1>15

\* A step of the tick, between the clock and the end.
LEMMA GoesOn ==
  ASSUME Inv, ~Idle, turn.at # "plugins", site' = site, now' = now, saved' = saved, prof' \in Profiles,
         turn' \in Turns(site), turn'.at # "idle",
         RowsInv(site, camp', cands', runs', ticket'), Len(cands) <= Len(cands'), Len(runs) <= Len(runs'),
         \A c \in Camps : Leaving(site, camp'[c], c) => Leaving(site, camp[c], c) /\ camp'[c].end = camp[c].end,
         turn'.at \in {"list", "tickets", "queue"} => AllPlanned',
         turn'.at = "queue" => InLine'
  PROVE  Inv'
<1>1. Under'
  BY TickGoesOn
<1>2. Shuts'
  BY ShutStays
<1>3. site \in Sites /\ now \in Nat
  BY DEF Inv
<1> QED BY <1>1, <1>2, <1>3 DEF Inv, Idle

\* One that leaves the tables alone.
LEMMA TurnsOnly ==
  ASSUME Inv, ~Idle, turn.at # "plugins", UNCHANGED <<site, now, saved, camp, cands, runs, ticket>>,
         prof' \in Profiles, turn' \in Turns(site), turn'.at # "idle",
         turn'.at \in {"list", "tickets", "queue"} => turn.at \in {"list", "tickets", "queue"},
         turn'.at = "queue" => InLine'
  PROVE  Inv'
<1>1. RowsInv(site, camp', cands', runs', ticket') /\ Under' /\ Shuts' /\ Len(cands) \in Nat /\ Len(runs) \in Nat
  BY SameKeeps
<1>2. turn.at \in {"list", "tickets", "queue"} => AllPlanned
  BY DEF Inv
<1>3. AllPlanned => AllPlanned'
  BY DEF AllPlanned, Camps
<1>4. site \in Sites /\ now \in Nat
  BY DEF Inv
<1> QED BY <1>1, <1>2, <1>3, <1>4 DEF Inv, Idle

LEMMA NoneTodo == ASSUME site \in Sites, NEW s \in Stages
  PROVE  Stage(s, <<>>) \in Turns(site) /\ Stage(s, <<>>).at = s
<1>1. <<>> \in Seq(Camps)
  OBVIOUS
<1> QED BY <1>1, StageTypes

LEMMA RefreshKeeps == ASSUME Inv, refresh_datasets PROVE Inv'
<1>1. site \in Sites /\ prof \in Profiles
  BY DEF Inv
<1>2. turn.at = "pins" /\ turn' = Stage("plan", <<>>) /\ UNCHANGED <<site, now, saved, camp, cands, runs, ticket>>
      /\ (prof' = prof \/ prof' = TriggerBuild)
  BY DEF refresh_datasets
<1>3. turn' \in Turns(site) /\ turn'.at = "plan"
  BY <1>1, <1>2, NoneTodo DEF Stages
<1>4. prof' \in Profiles
  BY <1>1, <1>2, BuildsIs
<1> QED BY <1>2, <1>3, <1>4, TurnsOnly DEF Idle

LEMMA PlanKeeps == ASSUME Inv, Plan PROVE Inv'
<1>1. site \in Sites /\ prof \in Profiles /\ now \in Nat /\ RowsInv(site, camp, cands, runs, ticket)
  BY Zenon DEF Inv
<1> DEFINE ds == cands \o FlattenSeq([c \in Camps |-> Planned(c)])
<1>2. turn.at = "plan" /\ turn' = Stage("list", <<>>) /\ UNCHANGED <<site, now, saved, camp, runs, ticket, prof>>
      /\ cands' = ds
  BY DEF Plan
<1>3. /\ RowsInv(site, camp, ds, runs, ticket) /\ Len(cands) <= Len(ds)
      /\ \A c \in Camps : camp[c].st = "active" => Covered(site, ds, c)
  BY <1>1, PlanAdds
<1> HIDE DEF ds
<1>4. turn' \in Turns(site) /\ turn'.at = "list"
  BY <1>1, <1>2, NoneTodo DEF Stages
<1>5. RowsInv(site, camp', cands', runs', ticket') /\ Len(cands) <= Len(cands')
  BY <1>2, <1>3
<1>6. Len(runs) <= Len(runs')
  <2>1. Len(runs) \in Nat
    BY <1>1, RowsAre, Zenon
  <2> QED BY <1>2, <2>1
<1>7. AllPlanned'
  BY <1>2, <1>3 DEF AllPlanned, Camps
<1> QED BY <1>1, <1>2, <1>4, <1>5, <1>6, <1>7, GoesOn DEF Idle

LEMMA BaselinesKeep == ASSUME Inv, EnsureBaselines PROVE Inv'
<1>1. site \in Sites /\ prof \in Profiles /\ now \in Nat /\ RowsInv(site, camp, cands, runs, ticket)
  BY Zenon DEF Inv
<1> DEFINE lacking == ById({c \in Camps : Listed(c) /\ NeedsBaseline(c)})
           ds == cands \o [n \in DOMAIN lacking |-> NewCandidate(lacking[n], BaselineCfg, "search", TRUE, "valid")]
<1>2. turn.at = "list" /\ turn' = Stage("tickets", <<>>) /\ UNCHANGED <<site, now, saved, camp, runs, ticket, prof>>
      /\ cands' = ds
  BY DEF EnsureBaselines
<1>3. /\ RowsInv(site, camp, ds, runs, ticket) /\ Len(cands) <= Len(ds)
      /\ \A c \in Camps : Covered(site, cands, c) => Covered(site, ds, c)
  BY <1>1, BaselinesAdd
<1> HIDE DEF ds
<1>4. turn' \in Turns(site) /\ turn'.at = "tickets"
  BY <1>1, <1>2, NoneTodo DEF Stages
<1>5. RowsInv(site, camp', cands', runs', ticket') /\ Len(cands) <= Len(cands')
  BY <1>2, <1>3
<1>6. Len(runs) <= Len(runs')
  <2>1. Len(runs) \in Nat
    BY <1>1, RowsAre, Zenon
  <2> QED BY <1>2, <2>1
<1>7. AllPlanned'
  <2>1. AllPlanned
    BY <1>2 DEF Inv
  <2> QED BY <1>2, <1>3, <2>1 DEF AllPlanned, Camps
<1> QED BY <1>1, <1>2, <1>4, <1>5, <1>6, <1>7, GoesOn DEF Idle

(***************************************************************************)
(* Tickets and the order they give.                                        *)
(***************************************************************************)
LEMMA SinceIs ==
  ASSUME site \in Sites, now \in Nat, RowsInv(site, camp, cands, runs, ticket), NEW c \in Camps
  PROVE  waiting_since(c) \in Int
<1> DEFINE begun == [r \in DOMAIN runs |-> runs[r].started]
           made == [i \in DOMAIN cands |-> cands[i].created]
           started == {runs[r].started : r \in RunsOf(c)}
           ready == {cands[i].created : i \in Valid(c)}
           last == IF started = {} THEN {} ELSE {Max(started)}
           first == IF ready = {} THEN {} ELSE {Min(ready)}
           opened == {camp[c].start} \ {NoTime}
           moments == last \cup first \cup opened
<1>1. RowsTyped(site, camp, cands, runs, ticket)
  BY RowsTypedIs, Zenon
<1>2. /\ Len(runs) \in Nat /\ DOMAIN runs = 1..Len(runs) /\ \A r \in DOMAIN runs : runs[r] \in RunRows(site)
      /\ \A i \in DOMAIN cands : cands[i] \in CandRows(site)
      /\ camp \in [DOMAIN site.camps -> CampRows]
  BY <1>1, Zenon DEF RowsTyped
<1>3. RunsOf(c) \subseteq DOMAIN runs /\ Valid(c) \subseteq DOMAIN cands
  BY DEF RunsOf, Valid, Of
<1>4. \A r \in RunsOf(c) : runs[r].started \in Int
  BY <1>2, <1>3 DEF RunRows
<1>5. \A i \in Valid(c) : cands[i].created \in Nat
  BY <1>2, <1>3 DEF CandRows
<1>6. camp[c].start \in Int
  BY <1>2 DEF CampRows, Camps
<1>7. started \subseteq Int /\ IsFiniteSet(started)
  <2>1. IsFiniteSet(RunsOf(c))
    <3>1. IsFiniteSet(1..Len(runs))
      BY <1>2, FS_Interval
    <3> QED BY <1>2, <1>3, <3>1, FS_Subset
  <2>2. IsFiniteSet({begun[r] : r \in RunsOf(c)})
    BY <2>1, ImageFinite
  <2>3. started = {begun[r] : r \in RunsOf(c)}
    BY <1>3
  <2> QED BY <1>4, <2>2, <2>3
<1>8. ready \subseteq Nat
  BY <1>5
<1> HIDE DEF started, ready
<1>9. IsFiniteSet(last) /\ last \subseteq Int
  <2>1. CASE started = {}
    BY <2>1, FS_EmptySet
  <2>2. CASE started # {}
    <3>1. Max(started) \in Int
      BY <1>7, <2>2, MaxIs
    <3>2. IsFiniteSet({Max(started)})
      BY FS_Singleton
    <3> QED BY <2>2, <3>1, <3>2
  <2> QED BY <2>1, <2>2
<1>10. IsFiniteSet(first) /\ first \subseteq Int
  <2>1. CASE ready = {}
    BY <2>1, FS_EmptySet
  <2>2. CASE ready # {}
    <3>0. Min(ready) \in ready
      BY <1>8, <2>2, MinIs
    <3>3. PICK x \in ready : x = Min(ready)
      BY <3>0, Zenon
    <3>4. x \in Int
      BY <1>8
    <3>1. Min(ready) \in Int
      BY <3>3, <3>4, Zenon
    <3>2. IsFiniteSet({Min(ready)})
      BY FS_Singleton
    <3> QED BY <2>2, <3>1, <3>2
  <2> QED BY <2>1, <2>2
<1>11. IsFiniteSet(opened) /\ opened \subseteq Int
  <2>1. IsFiniteSet({camp[c].start})
    BY FS_Singleton
  <2> QED BY <1>6, <2>1, FS_Subset
<1>12. waiting_since(c) = IF moments = {} THEN now ELSE Max(moments)
  BY Zenon DEF waiting_since, started, ready
<1> HIDE DEF last, first, opened
<1>13. IsFiniteSet(moments) /\ moments \subseteq Int
  <2>1. IsFiniteSet(last \cup first)
    BY <1>9, <1>10, FS_Union
  <2>2. IsFiniteSet(moments)
    BY <1>11, <2>1, FS_Union
  <2> QED BY <1>9, <1>10, <1>11, <2>2
<1> HIDE DEF moments
<1>14. moments # {} => Max(moments) \in moments
  BY <1>13, MaxIs
<1>15. CASE moments = {}
  <2>1. waiting_since(c) = now
    BY <1>12, <1>15, Zenon
  <2> QED BY <2>1
<1>16. CASE moments # {}
  <2>1. PICK x \in moments : x = Max(moments)
    BY <1>14, <1>16, Zenon
  <2>2. x \in Int
    BY <1>13
  <2>3. waiting_since(c) = x
    BY <1>12, <1>16, <2>1, Zenon
  <2> QED BY <2>2, <2>3, Zenon
<1> QED BY <1>15, <1>16

TicketOrder(t, S) == {p \in S \X S : Before(t, p[1], p[2])}
LEMMA ByTicketIs ==
  ASSUME NEW t, NEW S, IsFiniteSet(S), S \subseteq Int, \A c \in S : t[c] \in Tickets
  PROVE  Lists(ByTicket(t, S), S, TicketOrder(t, S))
<1>1. \A c \in S : t[c].arrival \in Int
  BY DEF Tickets
<1>2. \A c, d \in S : <<c, d>> \in TicketOrder(t, S) <=> Before(t, c, d)
  BY DEF TicketOrder
<1>3. \A c \in S : ~Before(t, c, c)
  <2> SUFFICES ASSUME NEW c \in S PROVE ~Before(t, c, c)
    OBVIOUS
  <2>1. PICK a \in Int, n \in Int : a = t[c].arrival /\ n = c
    BY <1>1
  <2> QED BY <2>1 DEF Before
<1>4. \A c, d \in S : c # d => Before(t, c, d) \/ Before(t, d, c)
  BY <1>1 DEF Before
<1>5. \A c, d, e \in S : Before(t, c, d) /\ Before(t, d, e) => Before(t, c, e)
  BY <1>1 DEF Before
<1>6. StrictOrder(S, TicketOrder(t, S))
  BY <1>2, <1>3, <1>4, <1>5, Zenon DEF StrictOrder
<1> QED BY <1>6, InOrderIs DEF ByTicket, TicketOrder

(***************************************************************************)
(* The line of the waiters.                                                *)
(***************************************************************************)
Once(q) == \A i, j \in DOMAIN q : q[i] = q[j] => i = j

LEMMA TailOf ==
  ASSUME NEW T, NEW s \in Seq(T), s # <<>>
  PROVE  /\ Len(s) \in Nat \ {0} /\ DOMAIN s = 1..Len(s) /\ 1 \in DOMAIN s
         /\ Head(s) = s[1] /\ Head(s) \in T /\ Tail(s) \in Seq(T)
         /\ Len(Tail(s)) = Len(s) - 1 /\ DOMAIN Tail(s) = 1..(Len(s) - 1)
         /\ \A i \in DOMAIN Tail(s) : i + 1 \in DOMAIN s /\ Tail(s)[i] = s[i + 1]
<1>1. Len(s) \in Nat /\ DOMAIN s = 1..Len(s) /\ Len(s) # 0
  BY EmptySeq, LenProperties
<1>2. 1 \in DOMAIN s /\ Head(s) = s[1] /\ s[1] \in T
  BY <1>1, HeadTailProperties
<1>3. Tail(s) \in Seq(T) /\ Len(Tail(s)) = Len(s) - 1 /\ \A i \in 1..Len(Tail(s)) : Tail(s)[i] = s[i + 1]
  BY HeadTailProperties
<1>4. DOMAIN Tail(s) = 1..(Len(s) - 1)
  BY <1>3, LenProperties
<1>5. \A i \in DOMAIN Tail(s) : i + 1 \in DOMAIN s /\ Tail(s)[i] = s[i + 1]
  BY <1>1, <1>3, <1>4
<1> QED BY <1>1, <1>2, <1>3, <1>4, <1>5

LEMMA TailOnce ==
  ASSUME NEW T, NEW s \in Seq(T), s # <<>>, Once(s)
  PROVE  Once(Tail(s)) /\ \A i \in DOMAIN Tail(s) : Tail(s)[i] # Head(s)
<1>1. /\ Len(s) \in Nat \ {0} /\ 1 \in DOMAIN s /\ DOMAIN Tail(s) = 1..(Len(s) - 1) /\ Head(s) = s[1]
      /\ \A i \in DOMAIN Tail(s) : i + 1 \in DOMAIN s /\ Tail(s)[i] = s[i + 1]
  BY TailOf
<1>2. \A i, j \in DOMAIN Tail(s) : Tail(s)[i] = Tail(s)[j] => i = j
  <2> SUFFICES ASSUME NEW i \in DOMAIN Tail(s), NEW j \in DOMAIN Tail(s), Tail(s)[i] = Tail(s)[j] PROVE i = j
    OBVIOUS
  <2>1. i + 1 \in DOMAIN s /\ j + 1 \in DOMAIN s /\ s[i + 1] = s[j + 1]
    BY <1>1
  <2>2. i + 1 = j + 1
    BY <2>1, Zenon DEF Once
  <2> QED BY <1>1, <2>2
<1>3. \A i \in DOMAIN Tail(s) : Tail(s)[i] # Head(s)
  <2> SUFFICES ASSUME NEW i \in DOMAIN Tail(s), Tail(s)[i] = Head(s) PROVE FALSE
    OBVIOUS
  <2>1. i + 1 \in DOMAIN s /\ s[i + 1] = s[1]
    BY <1>1
  <2>2. i + 1 = 1
    BY <1>1, <2>1, Zenon DEF Once
  <2> QED BY <1>1, <2>2
<1> QED BY <1>2, <1>3 DEF Once

\* To the end of the line.
LEMMA RoundOf ==
  ASSUME NEW T, NEW s \in Seq(T), s # <<>>
  PROVE  LET q == Append(Tail(s), Head(s))
         IN  /\ q \in Seq(T) /\ Len(q) = Len(s) /\ DOMAIN q = DOMAIN s
             /\ \A i \in DOMAIN q : i # Len(s) => i \in DOMAIN Tail(s) /\ q[i] = Tail(s)[i]
             /\ q[Len(s)] = Head(s) /\ Len(s) \in DOMAIN q
<1> DEFINE q == Append(Tail(s), Head(s))
<1>1. /\ Len(s) \in Nat \ {0} /\ DOMAIN s = 1..Len(s) /\ DOMAIN Tail(s) = 1..(Len(s) - 1) /\ Head(s) \in T
      /\ Tail(s) \in Seq(T) /\ Len(Tail(s)) = Len(s) - 1
  BY TailOf
<1>2. PICK n \in Nat \ {0}, t \in Seq(T), h \in T : n = Len(s) /\ t = Tail(s) /\ h = Head(s)
  BY <1>1, Zenon
<1>3. Len(t) = n - 1 /\ DOMAIN t = 1..(n - 1) /\ DOMAIN s = 1..n
  BY <1>1, <1>2, Zenon
<1>4. q = Append(t, h)
  BY <1>2, Zenon
<1> HIDE DEF q
<1>5. /\ q \in Seq(T) /\ Len(q) = Len(t) + 1
      /\ \A i \in 1..Len(t) : q[i] = t[i] /\ q[Len(t) + 1] = h
  BY <1>4, AppendProperties
<1>9. q[Len(t) + 1] = h
  BY <1>4, AppendProperties
<1>6. Len(q) = n /\ DOMAIN q = 1..n
  BY <1>3, <1>5, LenProperties
<1>7. \A i \in DOMAIN q : i # n => i \in DOMAIN t /\ q[i] = t[i]
  BY <1>3, <1>5, <1>6
<1>8. q[n] = h /\ n \in DOMAIN q
  BY <1>3, <1>6, <1>9
<1> QED BY <1>2, <1>3, <1>5, <1>6, <1>7, <1>8, Zenon DEF q

LEMMA RoundOnce ==
  ASSUME NEW T, NEW s \in Seq(T), s # <<>>, Once(s)
  PROVE  Once(Append(Tail(s), Head(s)))
<1> DEFINE q == Append(Tail(s), Head(s))
<1>1. /\ DOMAIN q = DOMAIN s /\ q[Len(s)] = Head(s)
      /\ \A i \in DOMAIN q : i # Len(s) => i \in DOMAIN Tail(s) /\ q[i] = Tail(s)[i]
  BY RoundOf
<1>2. Once(Tail(s)) /\ \A i \in DOMAIN Tail(s) : Tail(s)[i] # Head(s)
  BY TailOnce
<1> HIDE DEF q
<1>3. Once(q)
  <2> SUFFICES ASSUME NEW i \in DOMAIN q, NEW j \in DOMAIN q, q[i] = q[j] PROVE i = j
    BY DEF Once
  <2>1. CASE i = Len(s) \/ j = Len(s)
    BY <1>1, <1>2, <2>1
  <2>2. CASE i # Len(s) /\ j # Len(s)
    BY <1>1, <1>2, <2>2 DEF Once
  <2> QED BY <2>1, <2>2
<1> QED BY <1>3 DEF q

LEMMA TakeKeeps == ASSUME Inv, TakeTickets PROVE Inv' /\ Sorted' /\ Waited'
<1>1. site \in Sites /\ prof \in Profiles /\ now \in Nat /\ RowsInv(site, camp, cands, runs, ticket)
  BY Zenon DEF Inv
<1> DEFINE S == {c \in Camps : Listed(c)}
<1>2. /\ turn.at = "tickets" /\ UNCHANGED <<site, now, saved, camp, cands, runs, prof>>
      /\ ticket' = [c \in Camps |-> IF Listed(c) THEN Take(c) ELSE ticket[c]]
      /\ turn' = Stage("queue", ByTicket(ticket', S))
  BY DEF TakeTickets
<1>3. RowsTyped(site, camp, cands, runs, ticket)
  BY <1>1, RowsTypedIs, Zenon
<1>4. /\ camp \in [DOMAIN site.camps -> CampRows] /\ ticket \in [Camps -> Tickets]
      /\ Len(cands) \in Nat /\ Len(runs) \in Nat
  BY <1>3, Zenon DEF RowsTyped, Camps
<1>5. ASSUME NEW c \in Camps PROVE ticket'[c] \in Tickets
  <2>1. CASE Listed(c) /\ ticket[c] = NoTicket
    <3>1. PICK x \in Int, y \in Int : x = waiting_since(c) /\ y = now
      BY <1>1, SinceIs
    <3>2. ticket'[c] = [arrival |-> x, seen |-> y]
      BY <1>2, <2>1, <3>1 DEF Take
    <3> QED BY <3>2 DEF Tickets
  <2>2. CASE Listed(c) /\ ticket[c] # NoTicket
    <3>1. PICK y \in Int : y = now
      BY <1>1
    <3>2. ticket'[c] = [ticket[c] EXCEPT !.seen = y]
      BY <1>2, <2>2, <3>1 DEF Take
    <3>3. ticket[c] \in Tickets
      BY <1>4
    <3> QED BY <3>2, <3>3 DEF Tickets
  <2>3. CASE ~Listed(c)
    BY <1>2, <1>4, <2>3
  <2> QED BY <2>1, <2>2, <2>3
<1>6. ticket' \in [DOMAIN site.camps -> Tickets]
  BY <1>2, <1>5 DEF Camps
<1>7. RowsInv(site, camp, cands, runs, ticket')
  <2>1. \A c \in DOMAIN site.camps : KeptCamp(site, camp[c], camp[c])
    BY DEF KeptCamp
  <2> QED BY <1>1, <1>4, <1>6, <2>1, RowsCamps, Zenon
<1>8. RowsInv(site, camp', cands', runs', ticket')
  BY <1>2, <1>7
<1>9. IsFiniteSet(S) /\ S \subseteq Int /\ S \subseteq Camps
  <2>1. IsFiniteSet(Camps) /\ Len(site.camps) \in Nat /\ Camps = 1..Len(site.camps)
    BY <1>1, SiteFacts DEF Camps
  <2>2. S \subseteq Camps
    OBVIOUS
  <2>3. IsFiniteSet(S)
    BY <2>1, <2>2, FS_Subset
  <2> QED BY <2>1, <2>2, <2>3
<1>10. \A c \in S : camp[c].st = "active"
  BY DEF Listed
<1>S. \A c \in Camps : Listed(c)' <=> c \in S
  <2>1. \A c : Listed(c)' <=> Listed(c)
    BY <1>2 DEF Listed, window_allows_stage, window_allows_run_of, is_staged, waiting_on_dataset,
               uses_pinning, is_pinned, Spec1
  <2> QED BY <2>1
<1> HIDE DEF S
<1> DEFINE q == ByTicket(ticket', S)
<1>11. Lists(q, S, TicketOrder(ticket', S))
  <2>1. \A c \in S : ticket'[c] \in Tickets
    BY <1>5, <1>9
  <2> QED BY <1>9, <2>1, ByTicketIs
<1> HIDE DEF q
<1>12. Cardinality(S) \in Nat /\ q \in [1..Cardinality(S) -> S]
  BY <1>11, Zenon DEF Lists
<1>13. q \in Seq(Camps) /\ DOMAIN q = 1..Cardinality(S) /\ \A i \in DOMAIN q : q[i] \in S
  <2>1. \A i \in 1..Cardinality(S) : q[i] \in Camps
    BY <1>9, <1>12
  <2>2. q \in [1..Cardinality(S) -> Camps]
    BY <1>12, <2>1
  <2> QED BY <1>12, <2>2
<1>14. turn' = Stage("queue", q)
  BY <1>2 DEF q
<1>15. /\ turn' \in Turns(site) /\ turn'.at = "queue" /\ turn'.todo = q /\ turn'.served = {}
  BY <1>1, <1>13, <1>14, StageTypes DEF Stages
<1>16. InLine'
  <2>1. \A i, j \in 1..Cardinality(S) : q[i] = q[j] => i = j
    BY <1>11, ListsOnce, Zenon
  <2>2. \A i \in DOMAIN q : camp'[q[i]].st = "active"
    BY <1>2, <1>10, <1>13
  <2>3. \A i, j \in DOMAIN q : q[i] = q[j] => i = j
    BY <1>13, <2>1, Zenon
  <2> QED BY <1>15, <2>2, <2>3, Zenon DEF InLine
<1>17. AllPlanned'
  <2>1. AllPlanned
    BY <1>2 DEF Inv
  <2> QED BY <1>2, <2>1 DEF AllPlanned, Camps
<1>18. Inv'
  <2>1. ~Idle /\ turn.at # "plugins"
    BY <1>2 DEF Idle
  <2>2. Len(cands) <= Len(cands') /\ Len(runs) <= Len(runs')
    BY <1>2, <1>4
  <2>3. \A c \in Camps : Leaving(site, camp'[c], c) => Leaving(site, camp[c], c) /\ camp'[c].end = camp[c].end
    BY <1>2
  <2> QED BY <1>1, <1>2, <1>8, <1>15, <1>16, <1>17, <2>1, <2>2, <2>3, GoesOn
<1>19. Sorted'
  <2>1. \A i, j \in DOMAIN q : i < j => Before(ticket', q[i], q[j])
    <3>1. \A i, j \in DOMAIN q : i < j => <<q[i], q[j]>> \in TicketOrder(ticket', S)
      BY <1>11, <1>13, Zenon DEF Lists
    <3>2. \A c, d : <<c, d>> \in TicketOrder(ticket', S) => Before(ticket', c, d)
      BY DEF TicketOrder
    <3> QED BY <3>1, <3>2, Zenon
  <2> QED BY <1>13, <1>15, <2>1 DEF Sorted
<1>20. Waited'
  <2> SUFFICES ASSUME NEW d \in Camps', Listed(d)' PROVE d \in ToSet(turn'.todo)
    BY DEF Waited
  <2>1. d \in S
    BY <1>2, <1>S DEF Camps
  <2>2. PICK k \in 1..Cardinality(S) : q[k] = d
    BY <1>11, <2>1, Zenon DEF Lists
  <2> QED BY <1>13, <1>15, <2>2 DEF ToSet
<1> QED BY <1>18, <1>19, <1>20

\* The head of the line, in a state of the queue.
LEMMA HeadIs ==
  ASSUME Inv, InQueue
  PROVE  /\ turn.at = "queue" /\ ~Idle /\ turn \in Turns(site)
         /\ turn.todo \in Seq(Camps) /\ turn.todo # <<>> /\ Once(turn.todo)
         /\ NextInLine \in Camps /\ camp[NextInLine].st = "active" /\ Covered(site, cands, NextInLine)
         /\ Tail(turn.todo) \in Seq(Camps) /\ Once(Tail(turn.todo))
         /\ \A i \in DOMAIN Tail(turn.todo) :
              Tail(turn.todo)[i] # NextInLine /\ camp[Tail(turn.todo)[i]].st = "active"
<1>1. turn.at = "queue" /\ turn.todo # <<>> /\ ~Idle
  BY DEF InQueue, Idle
<1>2. turn \in Turns(site) /\ InLine /\ AllPlanned
  BY <1>1 DEF Inv
<1>3. turn.todo \in Seq(Camps)
  BY <1>2 DEF Turns, Camps
<1>4. Once(turn.todo) /\ \A i \in DOMAIN turn.todo : camp[turn.todo[i]].st = "active"
  BY <1>2 DEF InLine, Once
<1>5. PICK s \in Seq(Camps) : s = turn.todo
  BY <1>3
<1>6. /\ 1 \in DOMAIN s /\ Head(s) = s[1] /\ Head(s) \in Camps /\ Tail(s) \in Seq(Camps)
      /\ \A i \in DOMAIN Tail(s) : i + 1 \in DOMAIN s /\ Tail(s)[i] = s[i + 1]
  BY <1>1, <1>5, TailOf
<1>7. Once(Tail(s)) /\ \A i \in DOMAIN Tail(s) : Tail(s)[i] # Head(s)
  BY <1>1, <1>4, <1>5, TailOnce
<1>8. camp[Head(s)].st = "active" /\ \A i \in DOMAIN Tail(s) : camp[Tail(s)[i]].st = "active"
  BY <1>4, <1>5, <1>6
<1>9. Covered(site, cands, Head(s))
  BY <1>2, <1>6, <1>8, Zenon DEF AllPlanned
<1> QED BY <1>1, <1>2, <1>3, <1>4, <1>5, <1>6, <1>7, <1>8, <1>9, Zenon DEF NextInLine

LEMMA NothingKeeps == ASSUME Inv, NothingPending PROVE Inv'
<1>1. site \in Sites /\ prof \in Profiles /\ now \in Nat /\ RowsInv(site, camp, cands, runs, ticket) /\ AllPlanned
  BY Zenon DEF Inv, NothingPending, InQueue
<1>2. PICK c \in Camps : c = NextInLine
  BY HeadIs DEF NothingPending
<1>3. /\ InQueue /\ maybe_finish_campaign(c) /\ turn' = [turn EXCEPT !.todo = Tail(@)]
      /\ UNCHANGED <<site, now, saved, runs, ticket, prof>>
  BY <1>2 DEF NothingPending
<1>4. /\ turn.at = "queue" /\ ~Idle /\ turn \in Turns(site) /\ turn.todo \in Seq(Camps) /\ turn.todo # <<>>
      /\ camp[c].st = "active" /\ Covered(site, cands, c)
      /\ Tail(turn.todo) \in Seq(Camps) /\ Once(Tail(turn.todo))
      /\ \A i \in DOMAIN Tail(turn.todo) : Tail(turn.todo)[i] # c /\ camp[Tail(turn.todo)[i]].st = "active"
  BY <1>2, <1>3, HeadIs
<1>5. /\ RowsInv(site, camp', cands', runs, ticket) /\ Extends(cands, cands')
      /\ \A d : Covered(site, cands, d) => Covered(site, cands', d)
      /\ camp' = camp \/ camp' = [camp EXCEPT ![c].st = "done", ![c].by = "worker"]
  BY <1>1, <1>3, <1>4, FinishKeeps
<1>6. camp \in [Camps -> CampRows] /\ Len(runs) \in Nat
  BY <1>1, RowsAre DEF Camps
<1>7. ASSUME NEW d \in Camps
      PROVE  /\ d # c => camp'[d] = camp[d]
             /\ camp'[d].st = "active" => camp[d].st = "active"
             /\ camp'[d].closing = camp[d].closing /\ camp'[d].end = camp[d].end
  <2>1. CASE camp' = camp
    BY <2>1
  <2>2. CASE camp' = [camp EXCEPT ![c].st = "done", ![c].by = "worker"]
    <3>1. CASE d # c
      BY <1>6, <2>2, <3>1
    <3>2. CASE d = c
      <4>1. camp'[d] = [camp[d] EXCEPT !.st = "done", !.by = "worker"]
        BY <1>6, <2>2, <3>2
      <4>2. camp[d] \in CampRows
        BY <1>6
      <4> QED BY <3>2, <4>1, <4>2 DEF CampRows
    <3> QED BY <3>1, <3>2
  <2> QED BY <1>5, <2>1, <2>2
<1>8. turn' \in Turns(site) /\ turn'.at = "queue" /\ turn'.todo = Tail(turn.todo)
  <2>1. LET t == [turn EXCEPT !.todo = Tail(@)]
        IN  t \in Turns(site) /\ t.at = turn.at /\ t.todo = Tail(turn.todo)
    BY <1>4, TailIs
  <2> QED BY <1>3, <1>4, <2>1
<1>9. InLine'
  <2>1. \A i \in DOMAIN Tail(turn.todo) : Tail(turn.todo)[i] \in Camps
    BY <1>4
  <2>2. \A i \in DOMAIN Tail(turn.todo) : camp'[Tail(turn.todo)[i]].st = "active"
    BY <1>4, <1>7, <2>1, Zenon
  <2> QED BY <1>4, <1>8, <2>2, Zenon DEF InLine, Once
<1>10. AllPlanned'
  BY <1>1, <1>3, <1>5, <1>7 DEF AllPlanned, Camps
<1>11. \A d \in Camps : Leaving(site, camp'[d], d) => Leaving(site, camp[d], d) /\ camp'[d].end = camp[d].end
  <2> SUFFICES ASSUME NEW d \in Camps, Leaving(site, camp'[d], d) PROVE Leaving(site, camp[d], d) /\ camp'[d].end = camp[d].end
    OBVIOUS
  <2>1. CASE d # c
    BY <1>7, <2>1
  <2>2. CASE d = c
    BY <1>4, <1>7, <2>2 DEF Leaving
  <2> QED BY <2>1, <2>2
<1>12. RowsInv(site, camp', cands', runs', ticket') /\ Len(cands) <= Len(cands') /\ Len(runs) <= Len(runs')
  BY <1>3, <1>5, <1>6 DEF Extends
<1> QED BY <1>1, <1>3, <1>4, <1>8, <1>9, <1>10, <1>11, <1>12, GoesOn

\* What a placement makes of the tables and of the line.
Placement(c, m, i) ==
  /\ c = NextInLine /\ c \in Camps /\ m \in Machines /\ i \in Pending(c)
  /\ Takes(c, m) /\ create_run(c, m, i)
  /\ turn' = [turn EXCEPT !.todo = Append(Tail(@), c), !.served = @ \cup {c}]
  /\ ticket' = [ticket EXCEPT ![c] = NoTicket]
  /\ UNCHANGED <<site, now, saved, camp, prof>>
LEMMA PlacementIs == ASSUME Inv, Admit PROVE \E c, m, i : Placement(c, m, i)
<1>1. site \in Sites /\ RowsInv(site, camp, cands, runs, ticket)
  BY Zenon DEF Inv
<1>2. PICK c \in Camps : c = NextInLine
  BY HeadIs DEF Admit
<1> DEFINE able == {m \in Machines : Takes(c, m)}
<1>3. /\ able # {} /\ create_run(c, Min(able), choose_next(c, Min(able)))
      /\ turn' = [turn EXCEPT !.todo = Append(Tail(@), c), !.served = @ \cup {c}]
      /\ ticket' = [ticket EXCEPT ![c] = NoTicket]
      /\ UNCHANGED <<site, now, saved, camp, prof>>
  BY <1>2 DEF Admit
<1>4. able \subseteq Nat
  <2>1. Len(site.machines) \in Nat /\ DOMAIN site.machines = 1..Len(site.machines)
    BY <1>1, SiteFacts
  <2> QED BY <2>1 DEF Machines
<1>5. PICK m \in able : m = Min(able)
  <2> HIDE DEF able
  <2> QED BY <1>3, <1>4, MinIs
<1>6. m \in Machines /\ Takes(c, m) /\ create_run(c, m, choose_next(c, m))
  BY <1>3, <1>5
<1>7. PICK i \in Pending(c) : i = choose_next(c, m)
  BY <1>1, <1>6, ChooseIs DEF Takes
<1>8. Placement(c, m, i)
  BY <1>2, <1>3, <1>6, <1>7 DEF Placement
<1> QED BY <1>8

LEMMA AdmitStepKeeps == ASSUME Inv, InQueue, NEW c, NEW m, NEW i, Placement(c, m, i) PROVE Inv'
<1>1. site \in Sites /\ prof \in Profiles /\ now \in Nat /\ RowsInv(site, camp, cands, runs, ticket)
  BY Zenon DEF Inv
<1>p. AllPlanned
  BY DEF Inv, InQueue
<1>2. /\ c = NextInLine /\ c \in Camps /\ m \in Machines /\ i \in Pending(c) /\ create_run(c, m, i)
      /\ turn' = [turn EXCEPT !.todo = Append(Tail(@), c), !.served = @ \cup {c}]
      /\ ticket' = [ticket EXCEPT ![c] = NoTicket]
      /\ UNCHANGED <<site, now, saved, camp, prof>>
  BY Zenon DEF Placement
<1>3. /\ turn.at = "queue" /\ ~Idle /\ turn \in Turns(site)
      /\ turn.todo \in Seq(Camps) /\ turn.todo # <<>> /\ Once(turn.todo) /\ camp[c].st = "active"
      /\ \A k \in DOMAIN Tail(turn.todo) : camp[Tail(turn.todo)[k]].st = "active"
  BY <1>2, HeadIs
<1>4. /\ camp \in [Camps -> CampRows] /\ ticket \in [Camps -> Tickets] /\ Len(runs) \in Nat /\ Len(cands) \in Nat
      /\ \A k \in DOMAIN cands : cands[k].camp \in Camps
  <2>1. RowsTyped(site, camp, cands, runs, ticket)
    BY <1>1, RowsTypedIs, Zenon
  <2>2. \A k \in DOMAIN cands : cands[k].camp \in Camps
    BY <2>1 DEF RowsTyped, CandRows, Camps
  <2> QED BY <2>1, <2>2, Zenon DEF RowsTyped, Camps
<1>5. ticket' \in [DOMAIN site.camps -> Tickets]
  <2>1. NoTicket \in Tickets
    BY DEF NoTicket, Tickets, NoTime
  <2> QED BY <1>2, <1>4, <2>1 DEF Camps
<1>6. /\ RowsInv(site, camp, cands', runs', ticket') /\ Len(runs') = Len(runs) + 1 /\ Len(cands') = Len(cands)
      /\ Shape(cands, cands')
  BY <1>1, <1>2, <1>3, <1>5, AdmitKeeps
<1>7. RowsInv(site, camp', cands', runs', ticket') /\ Len(cands) <= Len(cands') /\ Len(runs) <= Len(runs')
  BY <1>2, <1>4, <1>6
<1>8. PICK s \in Seq(Camps) : s = turn.todo
  BY <1>3
<1> DEFINE q == Append(Tail(s), Head(s))
<1>9. /\ q \in Seq(Camps) /\ q[Len(s)] = Head(s)
      /\ \A k \in DOMAIN q : k # Len(s) => k \in DOMAIN Tail(s) /\ q[k] = Tail(s)[k]
  BY <1>3, <1>8, RoundOf
<1>10. Once(q)
  BY <1>3, <1>8, RoundOnce
<1>11. Head(s) = c /\ turn' = [turn EXCEPT !.todo = q, !.served = @ \cup {c}]
  BY <1>2, <1>3, <1>8 DEF NextInLine, Turns
<1> HIDE DEF q
<1>12. turn' \in Turns(site) /\ turn'.at = "queue" /\ turn'.todo = q
  <2>1. PICK S \in SUBSET DOMAIN site.camps : S = turn.served \cup {c}
    BY <1>2, <1>3 DEF Turns, Camps
  <2>2. turn' = [turn EXCEPT !.todo = q, !.served = S]
    BY <1>3, <1>11, <2>1 DEF Turns
  <2>3. q \in Seq(DOMAIN site.camps)
    BY <1>9 DEF Camps
  <2> QED BY <1>3, <2>2, <2>3 DEF Turns
<1>13. \A k \in DOMAIN q : camp'[q[k]].st = "active"
  BY <1>2, <1>3, <1>8, <1>9, <1>11
<1>14. InLine'
  BY <1>10, <1>12, <1>13, Zenon DEF InLine, Once
<1>15. AllPlanned'
  <2>1. \A d : Covered(site, cands, d) => Covered(site, cands', d)
    <3>1. /\ DOMAIN cands' = DOMAIN cands
          /\ \A k \in DOMAIN cands : cands'[k].camp = cands[k].camp /\ cands'[k].cfg = cands[k].cfg
      BY <1>6, Zenon DEF Shape
    <3> QED BY <3>1 DEF Covered, OfIn
  <2> QED BY <1>2, <1>p, <2>1 DEF AllPlanned, Camps
<1>16. \A d \in Camps : Leaving(site, camp'[d], d) => Leaving(site, camp[d], d) /\ camp'[d].end = camp[d].end
  BY <1>2
<1> QED BY <1>1, <1>2, <1>3, <1>7, <1>12, <1>14, <1>15, <1>16, GoesOn

LEMMA HoldKeeps == ASSUME Inv, HoldMachines PROVE Inv'
<1>1. site \in Sites /\ prof \in Profiles
  BY DEF Inv
<1>2. /\ InQueue /\ turn' = [turn EXCEPT !.todo = Tail(@), !.blocked = @ \cup Busy(NextInLine)]
      /\ UNCHANGED <<site, now, saved, camp, cands, runs, ticket, prof>>
  BY DEF HoldMachines
<1>3. /\ turn.at = "queue" /\ ~Idle /\ turn \in Turns(site)
      /\ Tail(turn.todo) \in Seq(Camps) /\ Once(Tail(turn.todo))
      /\ \A i \in DOMAIN Tail(turn.todo) : camp[Tail(turn.todo)[i]].st = "active"
  BY <1>2, HeadIs
<1>4. PICK B \in SUBSET Machines : B = Busy(NextInLine)
  BY DEF Busy
<1>5. PICK q \in Seq(Camps) : q = Tail(turn.todo)
  BY <1>3
<1>6. turn' \in Turns(site) /\ turn'.at = "queue" /\ turn'.todo = q
  BY <1>2, <1>3, <1>4, <1>5 DEF Turns, Camps, Machines
<1>7. InLine'
  <2>1. Once(q) /\ \A i \in DOMAIN q : camp'[q[i]].st = "active"
    BY <1>2, <1>3, <1>5
  <2> QED BY <1>6, <2>1, Zenon DEF InLine, Once
<1> QED BY <1>1, <1>2, <1>3, <1>6, <1>7, TurnsOnly

LEMMA SweepKeeps == ASSUME Inv, Sweep PROVE Inv'
<1>1. site \in Sites /\ prof \in Profiles /\ RowsInv(site, camp, cands, runs, ticket)
  BY Zenon DEF Inv
<1>2. /\ turn.at = "queue" /\ turn' = Stage("advance", <<>>)
      /\ ticket' = [c \in Camps |-> IF ticket[c].seen < now - Grace THEN NoTicket ELSE ticket[c]]
      /\ UNCHANGED <<site, now, saved, camp, cands, runs, prof>>
  BY DEF Sweep
<1>3. /\ camp \in [DOMAIN site.camps -> CampRows] /\ ticket \in [Camps -> Tickets]
      /\ Len(cands) \in Nat /\ Len(runs) \in Nat
  <2>1. RowsTyped(site, camp, cands, runs, ticket)
    BY <1>1, RowsTypedIs, Zenon
  <2> QED BY <2>1, Zenon DEF RowsTyped, Camps
<1>4. ticket' \in [DOMAIN site.camps -> Tickets]
  <2>1. NoTicket \in Tickets
    BY DEF NoTicket, Tickets, NoTime
  <2> QED BY <1>2, <1>3, <2>1 DEF Camps
<1>5. RowsInv(site, camp, cands, runs, ticket')
  <2>1. \A c \in DOMAIN site.camps : KeptCamp(site, camp[c], camp[c])
    BY DEF KeptCamp
  <2> QED BY <1>1, <1>3, <1>4, <2>1, RowsCamps, Zenon
<1>6. RowsInv(site, camp', cands', runs', ticket') /\ Len(cands) <= Len(cands') /\ Len(runs) <= Len(runs')
  BY <1>2, <1>3, <1>5
<1>7. turn' \in Turns(site) /\ turn'.at = "advance"
  BY <1>1, <1>2, NoneTodo DEF Stages
<1>8. \A d \in Camps : Leaving(site, camp'[d], d) => Leaving(site, camp[d], d) /\ camp'[d].end = camp[d].end
  BY <1>2
<1> QED BY <1>1, <1>2, <1>6, <1>7, <1>8, GoesOn DEF Idle

(***************************************************************************)
(* The end of the tick, and what happens between two.                      *)
(***************************************************************************)
LEMMA NoneBack == ASSUME NEW w, NEW ds \in Seq(CandRows(w)) PROVE Requeue(ds, {}) = ds
<1>1. \A i \in DOMAIN ds : (IF i \in {} THEN [ds[i] EXCEPT !.st = "valid"] ELSE ds[i]) = ds[i]
  OBVIOUS
<1>2. ds = [i \in DOMAIN ds |-> ds[i]]
  OBVIOUS
<1> QED BY <1>1, <1>2 DEF Requeue

\* Runs move and nothing is put back.
RunsOnly(w, ks, ds, rs, ks2, rs2) ==
  /\ ks2 \in [DOMAIN w.camps -> CampRows]
  /\ \A c \in DOMAIN w.camps : KeptCamp(w, ks[c], ks2[c])
  /\ rs2 = [r \in DOMAIN rs |-> rs2[r]]
  /\ \A r \in DOMAIN rs : rs2[r] \in RunRows(w) /\ rs2[r].cand = rs[r].cand
  /\ \A r \in DOMAIN rs : rs[r].st # "live" => rs2[r] = rs[r]
RunsOnlyMoved(w, ds, rs, ks2, rs2, ts) ==
  RowsInv(w, ks2, ds, rs2, ts) /\ Len(rs2) = Len(rs) /\ Shape(ds, ds) /\ Holders(rs, rs2) /\ Linked(ds, rs)
LEMMA RunsOnlyIs ==
  ASSUME NEW w, NEW ks, NEW ds, NEW rs, NEW ts, RowsInv(w, ks, ds, rs, ts), NEW ks2, NEW rs2,
         RunsOnly(w, ks, ds, rs, ks2, rs2)
  PROVE  RunsOnlyMoved(w, ds, rs, ks2, rs2, ts)
<1>1. RowsTyped(w, ks, ds, rs, ts)
  BY RowsTypedIs, Zenon
<1>2. ts \in [DOMAIN w.camps -> Tickets] /\ ds \in Seq(CandRows(w)) /\ Linked(ds, rs)
  BY <1>1, Zenon DEF RowsTyped
<1>3. Moves(w, ks, ds, rs, ks2, rs2, {})
  BY Zenon DEF RunsOnly, Moves
<1>4. Moved(w, ds, rs, ks2, rs2, ts, {})
  BY <1>2, <1>3, RunsMoved, Zenon
<1>5. Requeue(ds, {}) = ds
  BY <1>2, NoneBack, Zenon
<1>6. /\ RowsInv(w, ks2, Requeue(ds, {}), rs2, ts) /\ Len(rs2) = Len(rs)
      /\ Shape(ds, Requeue(ds, {})) /\ Holders(rs, rs2)
  BY <1>4, Zenon DEF Moved
<1> QED BY <1>2, <1>5, <1>6, SMT DEF RunsOnlyMoved

LEMMA AdvanceKeeps == ASSUME Inv, AdvanceRuns PROVE Inv'
<1>1. site \in Sites /\ prof \in Profiles /\ RowsInv(site, camp, cands, runs, ticket)
  BY Zenon DEF Inv
<1>2. /\ turn.at = "advance" /\ turn' = Stage("windows", <<>>)
      /\ runs' = [r \in DOMAIN runs |-> IF Ended(r) THEN Harvested(runs[r]) ELSE runs[r]]
      /\ cands' = [i \in DOMAIN cands |-> IF Requeued(i) THEN [cands[i] EXCEPT !.st = "valid"] ELSE cands[i]]
      /\ UNCHANGED <<site, now, saved, camp, ticket, prof>>
  BY DEF AdvanceRuns
<1>3. RowsTyped(site, camp, cands, runs, ticket)
  BY <1>1, RowsTypedIs, Zenon
<1>4. /\ camp \in [DOMAIN site.camps -> CampRows] /\ ticket \in [DOMAIN site.camps -> Tickets]
      /\ Len(cands) \in Nat /\ Len(runs) \in Nat /\ \A r \in DOMAIN runs : runs[r] \in RunRows(site)
  BY <1>3, Zenon DEF RowsTyped
<1> DEFINE back == {i \in DOMAIN cands : Requeued(i)}
<1>5. cands' = Requeue(cands, back)
  BY <1>2 DEF Requeue
<1>6. \A i \in back : \E r \in DOMAIN runs : runs[r].cand = i /\ runs[r].st = "live"
  BY DEF Requeued, Ended, IsLive
<1>7. ASSUME NEW r \in DOMAIN runs
      PROVE  runs'[r] \in RunRows(site) /\ runs'[r].cand = runs[r].cand /\ (runs[r].st # "live" => runs'[r] = runs[r])
  <2>1. runs[r] \in RunRows(site)
    BY <1>4
  <2>2. CASE Ended(r)
    <3>1. PICK s \in {"succeeded", "failed"} : s = IF runs[r].out = "measured" THEN "succeeded" ELSE "failed"
      OBVIOUS
    <3>2. runs'[r] = [runs[r] EXCEPT !.st = s]
      BY <1>2, <2>2, <3>1 DEF Harvested
    <3> QED BY <2>1, <2>2, <3>2 DEF RunRows, Ended, IsLive
  <2>3. CASE ~Ended(r)
    BY <1>2, <2>1, <2>3
  <2> QED BY <2>2, <2>3
<1>8. runs' = [r \in DOMAIN runs |-> runs'[r]]
  BY <1>2
<1> HIDE DEF back
<1>9. \A c \in DOMAIN site.camps : KeptCamp(site, camp[c], camp[c])
  BY DEF KeptCamp
<1>10. Moves(site, camp, cands, runs, camp, runs', back)
  BY <1>4, <1>6, <1>7, <1>8, <1>9 DEF Moves
<1>11. Moved(site, cands, runs, camp, runs', ticket, back)
  BY <1>1, <1>4, <1>10, RunsMoved, Zenon
<1>12. RowsInv(site, camp', cands', runs', ticket') /\ Len(cands) <= Len(cands') /\ Len(runs) <= Len(runs')
  BY <1>2, <1>4, <1>5, <1>11 DEF Moved
<1>13. turn' \in Turns(site) /\ turn'.at = "windows"
  BY <1>1, <1>2, NoneTodo DEF Stages
<1>14. \A d \in Camps : Leaving(site, camp'[d], d) => Leaving(site, camp[d], d) /\ camp'[d].end = camp[d].end
  BY <1>2
<1> QED BY <1>1, <1>2, <1>12, <1>13, <1>14, GoesOn DEF Idle

\* The rows between two ticks.
LEMMA BetweenTicks ==
  ASSUME site \in Sites, site' = site, now' \in Nat, prof' \in Profiles, turn' = Free,
         RowsInv(site, camp', cands', runs', ticket'), Empty(site, camp', cands', runs')
  PROVE  Inv'
<1>1. turn' \in Turns(site) /\ turn'.at = "idle"
  BY NoneTodo DEF Free, Stages
<1> QED BY <1>1 DEF Inv, Between, Idle

LEMMA WindowsKeep == ASSUME Inv, EnforceWindows PROVE Inv'
<1>1. site \in Sites /\ prof \in Profiles /\ now \in Nat /\ RowsInv(site, camp, cands, runs, ticket)
  BY Zenon DEF Inv
<1>2. /\ turn.at = "windows" /\ turn' = Free
      /\ runs' = [r \in DOMAIN runs |-> IF Overdue(r) THEN CutOff(runs[r]) ELSE runs[r]]
      /\ UNCHANGED <<site, now, camp, cands, ticket, prof>>
  BY DEF EnforceWindows
<1>3. RowsTyped(site, camp, cands, runs, ticket)
  BY <1>1, RowsTypedIs, Zenon
<1>4. camp \in [DOMAIN site.camps -> CampRows] /\ \A r \in DOMAIN runs : runs[r] \in RunRows(site)
  BY <1>3, Zenon DEF RowsTyped
<1>5. ASSUME NEW r \in DOMAIN runs
      PROVE  /\ runs'[r] \in RunRows(site) /\ runs'[r].cand = runs[r].cand
             /\ runs[r].st # "live" => runs'[r] = runs[r]
             /\ runs'[r].st = "live" => runs[r].st = "live" /\ ~Overdue(r)
  <2>1. runs[r] \in RunRows(site)
    BY <1>4
  <2>2. CASE Overdue(r)
    <3>1. runs'[r] = CutOff(runs[r])
      BY <1>2, <2>2
    <3>2. CutOff(runs[r]) \in RunRows(site) /\ CutOff(runs[r]).cand = runs[r].cand /\ CutOff(runs[r]).st = "killed"
      BY <2>1 DEF CutOff, RunRows
    <3>3. runs[r].st = "live"
      BY <2>2 DEF Overdue, IsLive
    <3> QED BY <3>1, <3>2, <3>3
  <2>3. CASE ~Overdue(r)
    BY <1>2, <2>1, <2>3
  <2> QED BY <2>2, <2>3
<1>6. runs' = [r \in DOMAIN runs |-> runs'[r]]
  BY <1>2
<1>7. \A c \in DOMAIN site.camps : KeptCamp(site, camp[c], camp[c])
  BY DEF KeptCamp
<1>8. RunsOnly(site, camp, cands, runs, camp, runs')
  BY <1>4, <1>5, <1>6, <1>7 DEF RunsOnly
<1>9. RunsOnlyMoved(site, cands, runs, camp, runs', ticket)
  BY <1>1, <1>8, RunsOnlyIs, Zenon
<1>10. RowsInv(site, camp', cands', runs', ticket') /\ DOMAIN runs' = DOMAIN runs
  BY <1>2, <1>9 DEF RunsOnlyMoved
<1>11. Empty(site, camp, cands, runs')
  <2> SUFFICES ASSUME NEW c \in Camps, Leaving(site, camp[c], c), NEW r \in LiveIn(cands, runs', c) PROVE FALSE
    BY DEF Empty, Camps
  <2>1. r \in DOMAIN runs /\ runs'[r].st = "live" /\ cands[runs'[r].cand].camp = c
    BY <1>10 DEF LiveIn, RunsIn
  <2>2. runs[r].st = "live" /\ ~Overdue(r) /\ cands[runs[r].cand].camp = c
    BY <1>5, <2>1
  <2>3. camp[c].end # NoTime /\ camp[c].end <= now
    BY <1>2 DEF Inv, Idle, Shuts
  <2>4. camp[c].end \in Int
    BY <1>4 DEF CampRows, Camps
  <2> QED BY <1>1, <2>2, <2>3, <2>4 DEF Overdue, IsLive, CampOf
<1>12. Empty(site, camp', cands', runs')
  BY <1>2, <1>11
<1> QED BY <1>1, <1>2, <1>10, <1>12, BetweenTicks

LEMMA LoseKeeps == ASSUME Inv, LoseTick PROVE Inv'
<1>1. site \in Sites /\ prof \in Profiles /\ now \in Nat /\ Under
  BY DEF Inv, LoseTick
<1>2. /\ camp' = saved[1] /\ cands' = saved[2] /\ runs' = saved[3] /\ ticket' = saved[4]
      /\ turn' = Free /\ UNCHANGED <<site, now, prof>>
  BY DEF LoseTick
<1>3. RowsInv(site, camp', cands', runs', ticket') /\ Empty(site, camp', cands', runs')
  BY <1>1, <1>2 DEF Under
<1> QED BY <1>1, <1>2, <1>3, BetweenTicks

LEMMA IdleIs ==
  ASSUME Inv, Idle
  PROVE  /\ site \in Sites /\ prof \in Profiles /\ now \in Nat /\ turn = Free
         /\ RowsInv(site, camp, cands, runs, ticket) /\ Empty(site, camp, cands, runs)
BY Zenon DEF Inv, Between

LEMMA TimeKeeps == ASSUME Inv, TimePasses PROVE Inv'
<1>1. Idle /\ now' = now + 1 /\ UNCHANGED <<site, turn, camp, cands, runs, ticket, prof>>
  BY DEF TimePasses
<1>2. /\ site \in Sites /\ prof \in Profiles /\ now \in Nat /\ turn = Free
      /\ RowsInv(site, camp, cands, runs, ticket) /\ Empty(site, camp, cands, runs)
  BY <1>1, IdleIs
<1>3. now' \in Nat /\ turn' = Free /\ site' = site /\ prof' \in Profiles
  BY <1>1, <1>2
<1>4. RowsInv(site, camp', cands', runs', ticket') /\ Empty(site, camp', cands', runs')
  BY <1>1, <1>2
<1> QED BY <1>2, <1>3, <1>4, BetweenTicks

\* Only the profile moves.
LEMMA ProfileOnly ==
  ASSUME Inv, Idle, prof' \in Profiles, UNCHANGED <<site, now, turn, camp, cands, runs, ticket>>
  PROVE  Inv'
<1>2. /\ site \in Sites /\ now \in Nat /\ turn = Free
      /\ RowsInv(site, camp, cands, runs, ticket) /\ Empty(site, camp, cands, runs)
  BY IdleIs
<1>3. now' \in Nat /\ turn' = Free /\ site' = site
  BY <1>2
<1>4. RowsInv(site, camp', cands', runs', ticket') /\ Empty(site, camp', cands', runs')
  BY <1>2
<1> QED BY <1>2, <1>3, <1>4, BetweenTicks

LEMMA BuildEndsKeeps == ASSUME Inv, BuildEnds PROVE Inv'
<1>1. Idle /\ InFlight /\ UNCHANGED <<site, now, turn, camp, cands, runs, ticket>>
  BY DEF BuildEnds
<1>2. prof \in Profiles
  BY DEF Inv
<1> DEFINE B == {"running", "ready", "failed"}
<1>3. PICK b \in Seq(B), n \in Nat : b = prof.builds /\ n = Len(b)
  BY <1>2 DEF Profiles
<1>4. \A s \in B : [b EXCEPT ![n] = s] \in Seq(B)
  <2> SUFFICES ASSUME NEW s \in B PROVE [b EXCEPT ![n] = s] \in Seq(B)
    OBVIOUS
  <2> HIDE DEF B
  <2>1. b \in [1..n -> B]
    BY <1>3, LenProperties
  <2>2. [b EXCEPT ![n] = s] \in [1..n -> B]
    BY <2>1
  <2> QED BY <2>2
<1>5. CASE prof' = [prof EXCEPT !.builds[Len(prof.builds)] = "ready", !.current = Len(prof.builds)]
  <2>1. PICK b2 \in Seq(B) : b2 = [b EXCEPT ![n] = "ready"]
    BY <1>4
  <2>2. prof' = [prof EXCEPT !.builds = b2, !.current = n]
    BY <1>2, <1>3, <1>5, <2>1 DEF Profiles
  <2>3. prof' \in Profiles
    BY <1>2, <2>2 DEF Profiles
  <2> QED BY <1>1, <2>3, ProfileOnly
<1>6. CASE prof' = [prof EXCEPT !.builds[Len(prof.builds)] = "failed"]
  <2>1. PICK b2 \in Seq(B) : b2 = [b EXCEPT ![n] = "failed"]
    BY <1>4
  <2>2. prof' = [prof EXCEPT !.builds = b2]
    BY <1>2, <1>3, <1>6, <2>1 DEF Profiles
  <2>3. prof' \in Profiles
    BY <1>2, <2>2 DEF Profiles
  <2> QED BY <1>1, <2>3, ProfileOnly
<1> QED BY <1>5, <1>6 DEF BuildEnds

LEMMA BenchmarkKeeps == ASSUME Inv, NEW r \in DOMAIN runs, BenchmarkEnds(r) PROVE Inv'
<1>1. Idle /\ IsLive(r) /\ UNCHANGED <<site, now, turn, camp, cands, ticket, prof>>
  BY DEF BenchmarkEnds
<1>2. /\ site \in Sites /\ prof \in Profiles /\ now \in Nat /\ turn = Free
      /\ RowsInv(site, camp, cands, runs, ticket) /\ Empty(site, camp, cands, runs)
  BY <1>1, IdleIs
<1>3. RowsTyped(site, camp, cands, runs, ticket)
  BY <1>2, RowsTypedIs, Zenon
<1>4. /\ camp \in [DOMAIN site.camps -> CampRows] /\ runs \in Seq(RunRows(site))
      /\ \A q \in DOMAIN runs : runs[q] \in RunRows(site) /\ runs[q].cand \in DOMAIN cands
      /\ \A i \in DOMAIN cands : cands[i] \in CandRows(site)
  BY <1>3, Zenon DEF RowsTyped
<1>5. CampOf(r) \in DOMAIN site.camps
  BY <1>4 DEF CampOf, CandRows
<1>6. PICK o \in Spec1(CampOf(r)).outs :
        \E v \in IF o = "measured" THEN Spec1(CampOf(r)).vals ELSE {0} :
          runs' = [runs EXCEPT ![r].out = o, ![r].val = v,
                     ![r].build = IF Replays(CampOf(r), stage_of(cands[runs[r].cand])) THEN prof.current ELSE 0]
  BY DEF BenchmarkEnds
<1>7. PICK v \in IF o = "measured" THEN Spec1(CampOf(r)).vals ELSE {0} :
          runs' = [runs EXCEPT ![r].out = o, ![r].val = v,
                     ![r].build = IF Replays(CampOf(r), stage_of(cands[runs[r].cand])) THEN prof.current ELSE 0]
  BY <1>6
<1>8. o \in {"measured", "fault", "infra"} /\ v \in Nat
  <2>1. site.camps[CampOf(r)].outs \subseteq {"measured", "fault", "infra"} /\ site.camps[CampOf(r)].vals \subseteq Nat
    BY <1>2, <1>5, CampFacts
  <2> QED BY <2>1 DEF Spec1
<1>9. PICK b \in Nat : b = IF Replays(CampOf(r), stage_of(cands[runs[r].cand])) THEN prof.current ELSE 0
  BY <1>2 DEF Profiles
<1> DEFINE k == [runs[r] EXCEPT !.out = o, !.val = v, !.build = b]
<1>10. runs' = [runs EXCEPT ![r] = k]
  BY <1>4, <1>7, <1>9
<1>11. k \in RunRows(site) /\ k.cand = runs[r].cand /\ k.st = "live"
  <2>1. runs[r] \in RunRows(site) /\ runs[r].st = "live"
    BY <1>1, <1>4 DEF IsLive
  <2> QED BY <1>8, <2>1 DEF RunRows
<1> HIDE DEF k
<1>12. DOMAIN runs' = DOMAIN runs /\ runs'[r] = k /\ \A q \in DOMAIN runs : q # r => runs'[q] = runs[q]
  BY <1>4, <1>10
<1>13. runs' = [q \in DOMAIN runs |-> runs'[q]]
  BY <1>4, <1>10
<1>14. \A q \in DOMAIN runs : /\ runs'[q] \in RunRows(site) /\ runs'[q].cand = runs[q].cand
                              /\ runs[q].st # "live" => runs'[q] = runs[q]
                              /\ runs'[q].st = "live" => runs[q].st = "live"
  BY <1>1, <1>4, <1>11, <1>12 DEF IsLive
<1>15. \A c \in DOMAIN site.camps : KeptCamp(site, camp[c], camp[c])
  BY DEF KeptCamp
<1>16. RunsOnly(site, camp, cands, runs, camp, runs')
  BY <1>4, <1>13, <1>14, <1>15 DEF RunsOnly
<1>17. RunsOnlyMoved(site, cands, runs, camp, runs', ticket)
  BY <1>2, <1>16, RunsOnlyIs, Zenon
<1>18. RowsInv(site, camp, cands, runs', ticket) /\ Shape(cands, cands) /\ Holders(runs, runs') /\ Linked(cands, runs)
  BY <1>17 DEF RunsOnlyMoved
<1>19. Empty(site, camp, cands, runs')
  <2>1. \A q \in DOMAIN runs : runs'[q].st = "live" => runs[q].st = "live"
    BY <1>14
  <2>2. \A c \in DOMAIN site.camps : Leaving(site, camp[c], c) => Leaving(site, camp[c], c)
    OBVIOUS
  <2> QED BY <1>2, <1>18, <2>1, <2>2, EmptyMoved, Zenon
<1>20. RowsInv(site, camp', cands', runs', ticket') /\ Empty(site, camp', cands', runs')
  BY <1>1, <1>18, <1>19
<1>21. now' \in Nat /\ turn' = Free /\ site' = site /\ prof' \in Profiles
  BY <1>1, <1>2
<1> QED BY <1>2, <1>20, <1>21, BetweenTicks

(***************************************************************************)
(* The requests.                                                           *)
(***************************************************************************)
LEMMA CampRequest ==
  ASSUME Inv, Idle, NEW c \in Camps, NEW k \in CampRows, camp' = [camp EXCEPT ![c] = k],
         UNCHANGED <<site, now, turn, cands, runs, ticket, prof>>,
         KeptCamp(site, camp[c], k), Leaving(site, k, c) => Leaving(site, camp[c], c)
  PROVE  Inv'
<1>1. /\ site \in Sites /\ prof \in Profiles /\ now \in Nat /\ turn = Free
      /\ RowsInv(site, camp, cands, runs, ticket) /\ Empty(site, camp, cands, runs)
  BY IdleIs
<1>2. c \in DOMAIN site.camps
  BY DEF Camps
<1>3. RowsInv(site, [camp EXCEPT ![c] = k], cands, runs, ticket)
  BY <1>1, <1>2, OneCamp, Zenon
<1>8. camp'[c] = k /\ \A d \in DOMAIN site.camps : d # c => camp'[d] = camp[d]
  <2>1. camp \in [DOMAIN site.camps -> CampRows]
    BY <1>1, RowsAre
  <2> QED BY <1>2, <2>1
<1>4. RowsInv(site, camp', cands', runs', ticket')
  BY <1>3
<1>5. \A d \in DOMAIN site.camps : Leaving(site, camp'[d], d) => Leaving(site, camp[d], d)
  BY <1>8
<1>6. Empty(site, camp', cands', runs')
  BY <1>1, <1>5 DEF Empty
<1>7. now' \in Nat /\ turn' = Free /\ site' = site /\ prof' \in Profiles
  BY <1>1
<1> QED BY <1>1, <1>4, <1>6, <1>7, BetweenTicks

LEMMA CreateKeeps == ASSUME Inv, NEW c \in Camps, create_campaign(c) PROVE Inv'
<1>1. /\ Idle /\ camp[c].st = "unborn" /\ UNCHANGED <<site, now, turn, cands, runs, ticket, prof>>
      /\ camp' = [camp EXCEPT ![c] = ByHand(@, IF from_campaign(@.sch) THEN "scheduled" ELSE "draft")]
  BY DEF create_campaign, Ask, Untouched
<1>2. RowsInv(site, camp, cands, runs, ticket)
  BY Zenon DEF Inv
<1>3. camp[c] \in CampRows /\ camp \in [Camps -> CampRows]
  BY <1>2, CampRowIs, RowsAre DEF Camps
<1>4. ~camp[c].closing
  BY <1>1, <1>2 DEF RowsInv, Unstopped, Camps
<1>5. PICK s \in {"scheduled", "draft"} : s = IF from_campaign(camp[c].sch) THEN "scheduled" ELSE "draft"
  OBVIOUS
<1> DEFINE k == [camp[c] EXCEPT !.st = s, !.by = "person"]
<1>6. camp' = [camp EXCEPT ![c] = k]
  BY <1>1, <1>3, <1>5 DEF ByHand
<1>7. k \in CampRows /\ k.st = s /\ k.by = "person" /\ k.sch = camp[c].sch /\ k.closing = camp[c].closing
  BY <1>3 DEF CampRows, CampStates
<1> HIDE DEF k
<1>8. KeptCamp(site, camp[c], k) /\ ~Leaving(site, k, c)
  BY <1>1, <1>4, <1>7 DEF KeptCamp, Over, Leaving
<1> QED BY <1>1, <1>6, <1>7, <1>8, CampRequest

LEMMA StatusKeeps ==
  ASSUME Inv, NEW c \in Camps, NEW s \in {"active", "paused", "scheduled", "done"}, set_campaign_status(c, s)
  PROVE  Inv'
<1>1. /\ Idle /\ Exists(c) /\ UNCHANGED <<site, now, turn, cands, runs, ticket, prof>>
      /\ camp' = [camp EXCEPT ![c] = ByHand(@, s)]
  BY DEF set_campaign_status, Ask, Untouched
<1>2. RowsInv(site, camp, cands, runs, ticket)
  BY Zenon DEF Inv
<1>3. camp[c] \in CampRows /\ camp \in [Camps -> CampRows]
  BY <1>2, CampRowIs, RowsAre DEF Camps
<1> DEFINE k == [camp[c] EXCEPT !.st = s, !.by = "person"]
<1>6. camp' = [camp EXCEPT ![c] = k]
  BY <1>1, <1>3 DEF ByHand
<1>7. k \in CampRows /\ k.st = s /\ k.by = "person" /\ k.sch = camp[c].sch /\ k.closing = camp[c].closing
  BY <1>3 DEF CampRows, CampStates
<1> HIDE DEF k
<1>8. KeptCamp(site, camp[c], k) /\ (Leaving(site, k, c) => Leaving(site, camp[c], c))
  BY <1>1, <1>7 DEF KeptCamp, Over, Leaving, Exists
<1> QED BY <1>1, <1>6, <1>7, <1>8, CampRequest

LEMMA ScheduleKeeps == ASSUME Inv, NEW c \in Camps, NEW s \in site.schedules, set_schedule(c, s) PROVE Inv'
<1>1. /\ Idle /\ Exists(c) /\ UNCHANGED <<site, now, turn, cands, runs, ticket, prof>>
      /\ LET k == [camp[c] EXCEPT !.sch = s]
         IN  camp' = [camp EXCEPT ![c] =
               IF from_campaign(s) /\ k.st = "draft" THEN ByHand(k, "scheduled")
               ELSE IF ~from_campaign(s) /\ k.st = "scheduled" THEN ByHand(k, "paused") ELSE k]
  BY DEF set_schedule, Ask, Untouched
<1>2. site \in Sites /\ RowsInv(site, camp, cands, runs, ticket)
  BY Zenon DEF Inv
<1>3. camp[c] \in CampRows
  BY <1>2, CampRowIs
<1>4. s \in Schedules /\ site.schedules # {}
  BY <1>2, SiteFacts
<1> DEFINE k == [camp[c] EXCEPT !.sch = s]
           k2 == IF from_campaign(s) /\ k.st = "draft" THEN ByHand(k, "scheduled")
                 ELSE IF ~from_campaign(s) /\ k.st = "scheduled" THEN ByHand(k, "paused") ELSE k
<1>5. k \in CampRows /\ k.st = camp[c].st /\ k.by = camp[c].by
  BY <1>3, <1>4 DEF CampRows
<1>6. camp' = [camp EXCEPT ![c] = k2]
  BY <1>1
<1> HIDE DEF k
<1>7. k2 \in CampRows /\ (k2 = k \/ k2.st \in {"scheduled", "paused"})
  BY <1>5 DEF ByHand, CampRows, CampStates
<1> HIDE DEF k2
<1>8. KeptCamp(site, camp[c], k2) /\ ~Leaving(site, k2, c)
  BY <1>1, <1>4, <1>5, <1>7 DEF KeptCamp, Over, Leaving, Exists
<1> QED BY <1>1, <1>6, <1>7, <1>8, CampRequest

LEMMA StartKeeps == ASSUME Inv, NEW c \in Camps, NEW h \in site.hours, force_start(c, h) PROVE Inv'
<1>1. /\ Idle /\ Exists(c) /\ UNCHANGED <<site, now, turn, cands, runs, ticket, prof>>
      /\ camp' = [camp EXCEPT ![c] = [ByHand(@, "active") EXCEPT !.over = now + h, !.start = now, !.end = now + h]]
  BY DEF force_start, Ask, Untouched
<1>2. site \in Sites /\ now \in Nat /\ RowsInv(site, camp, cands, runs, ticket)
  BY Zenon DEF Inv
<1>3. camp[c] \in CampRows /\ camp \in [Camps -> CampRows]
  BY <1>2, CampRowIs, RowsAre DEF Camps
<1>4. PICK x \in Int, y \in Int : x = now /\ y = now + h
  <2>1. h \in Nat
    BY <1>2, SiteFacts
  <2> QED BY <1>2, <2>1
<1> DEFINE k == [camp[c] EXCEPT !.st = "active", !.by = "person", !.over = y, !.start = x, !.end = y]
<1>6. camp' = [camp EXCEPT ![c] = k]
  BY <1>1, <1>3, <1>4 DEF ByHand
<1>7. k \in CampRows /\ k.st = "active" /\ k.by = "person" /\ k.sch = camp[c].sch /\ k.closing = camp[c].closing
  BY <1>3 DEF CampRows, CampStates
<1> HIDE DEF k
<1>8. KeptCamp(site, camp[c], k) /\ (Leaving(site, k, c) => Leaving(site, camp[c], c))
  BY <1>1, <1>7 DEF KeptCamp, Over, Leaving, Exists
<1> QED BY <1>1, <1>6, <1>7, <1>8, CampRequest

LEMMA ForceStopKeeps == ASSUME Inv, NEW c \in Camps, force_stop(c) PROVE Inv'
<1>1. /\ Idle /\ Exists(c) /\ UNCHANGED <<site, now, turn, cands, ticket, prof>>
      /\ camp' = [camp EXCEPT ![c] = [(IF @.st = "done" THEN @ ELSE ByHand(@, "paused")) EXCEPT !.over = NoTime]]
      /\ runs' = [r \in DOMAIN runs |-> IF r \in RunsOf(c) /\ IsLive(r)
                                        THEN [runs[r] EXCEPT !.stop = TRUE] ELSE runs[r]]
  BY DEF force_stop, Ask, Untouched
<1>2. /\ site \in Sites /\ prof \in Profiles /\ now \in Nat /\ turn = Free
      /\ RowsInv(site, camp, cands, runs, ticket) /\ Empty(site, camp, cands, runs)
  BY <1>1, IdleIs
<1>3. RowsTyped(site, camp, cands, runs, ticket)
  BY <1>2, RowsTypedIs, Zenon
<1>4. /\ camp \in [DOMAIN site.camps -> CampRows] /\ c \in DOMAIN site.camps /\ camp[c] \in CampRows
      /\ \A r \in DOMAIN runs : runs[r] \in RunRows(site)
  BY <1>3 DEF RowsTyped, Camps
<1> DEFINE k == IF camp[c].st = "done" THEN [camp[c] EXCEPT !.over = NoTime]
                ELSE [camp[c] EXCEPT !.st = "paused", !.by = "person", !.over = NoTime]
<1>5. camp' = [camp EXCEPT ![c] = k]
  BY <1>1, <1>4 DEF ByHand
<1>6. /\ k \in CampRows /\ k.sch = camp[c].sch /\ k.closing = camp[c].closing
      /\ (k.st = camp[c].st /\ k.by = camp[c].by) \/ k.st = "paused"
  <2>1. PICK x \in Int : x = NoTime
    BY DEF NoTime
  <2>2. CASE camp[c].st = "done"
    <3>1. k = [camp[c] EXCEPT !.over = x]
      BY <2>1, <2>2
    <3> HIDE DEF k
    <3> QED BY <1>4, <3>1 DEF CampRows
  <2>3. CASE camp[c].st # "done"
    <3>1. k = [camp[c] EXCEPT !.st = "paused", !.by = "person", !.over = x]
      BY <2>1, <2>3
    <3> HIDE DEF k
    <3> QED BY <1>4, <3>1 DEF CampRows, CampStates
  <2> QED BY <2>2, <2>3
<1> HIDE DEF k
<1>7. KeptCamp(site, camp[c], k) /\ (Leaving(site, k, c) => Leaving(site, camp[c], c))
  BY <1>1, <1>6 DEF KeptCamp, Over, Leaving, Exists
<1>8. camp' \in [DOMAIN site.camps -> CampRows] /\ camp'[c] = k /\ \A d \in DOMAIN site.camps : d # c => camp'[d] = camp[d]
  BY <1>4, <1>5, <1>6
<1>9. /\ \A d \in DOMAIN site.camps : KeptCamp(site, camp[d], camp'[d])
      /\ \A d \in DOMAIN site.camps : Leaving(site, camp'[d], d) => Leaving(site, camp[d], d)
  <2>1. \A d : KeptCamp(site, camp[d], camp[d])
    BY DEF KeptCamp
  <2> QED BY <1>7, <1>8, <2>1
<1>10. ASSUME NEW r \in DOMAIN runs
       PROVE  /\ runs'[r] \in RunRows(site) /\ runs'[r].cand = runs[r].cand
              /\ runs[r].st # "live" => runs'[r] = runs[r]
              /\ runs'[r].st = "live" => runs[r].st = "live"
  <2>1. runs[r] \in RunRows(site)
    BY <1>4
  <2>2. CASE r \in RunsOf(c) /\ IsLive(r)
    <3>1. runs'[r] = [runs[r] EXCEPT !.stop = TRUE]
      BY <1>1, <2>2
    <3> QED BY <2>1, <2>2, <3>1 DEF RunRows, IsLive
  <2>3. CASE ~(r \in RunsOf(c) /\ IsLive(r))
    BY <1>1, <2>1, <2>3
  <2> QED BY <2>2, <2>3
<1>11. runs' = [r \in DOMAIN runs |-> runs'[r]]
  BY <1>1
<1>12. RunsOnly(site, camp, cands, runs, camp', runs')
  BY <1>8, <1>9, <1>10, <1>11 DEF RunsOnly
<1>13. RunsOnlyMoved(site, cands, runs, camp', runs', ticket)
  BY <1>2, <1>12, RunsOnlyIs, Zenon
<1>14. RowsInv(site, camp', cands, runs', ticket) /\ Shape(cands, cands) /\ Holders(runs, runs') /\ Linked(cands, runs)
  BY <1>13 DEF RunsOnlyMoved
<1>15. Empty(site, camp', cands, runs')
  <2>1. \A q \in DOMAIN runs : runs'[q].st = "live" => runs[q].st = "live"
    BY <1>10
  <2> QED BY <1>2, <1>9, <1>14, <2>1, EmptyMoved, Zenon
<1>16. RowsInv(site, camp', cands', runs', ticket') /\ Empty(site, camp', cands', runs')
  BY <1>1, <1>14, <1>15
<1>17. now' \in Nat /\ turn' = Free /\ site' = site /\ prof' \in Profiles
  BY <1>1, <1>2
<1> QED BY <1>2, <1>16, <1>17, BetweenTicks

\* The candidates are marked, and no run moves.
Recast(w, ks, ds, ks2, ds2) ==
  /\ ks2 \in [DOMAIN w.camps -> CampRows] /\ ds2 \in Seq(CandRows(w)) /\ Shape(ds, ds2)
  /\ \A c \in DOMAIN w.camps : KeptCamp(w, ks[c], ks2[c])
  /\ \A i \in DOMAIN ds : /\ ds2[i].st = "exhausted" => ds[i].st = "exhausted"
                          /\ ds2[i].st = "invalid" => ds[i].st = "invalid"
                          /\ ds2[i].st = "deleted" => ks2[ds[i].camp].st = "deleted"
  /\ \A c \in DOMAIN w.camps : Over(ks2[c]) => \A i \in OfIn(ds, c) : ds2[i] = ds[i]
LEMMA RecastIs ==
  ASSUME NEW w, NEW ks, NEW ds, NEW rs, NEW ts, RowsInv(w, ks, ds, rs, ts),
         NEW ts2 \in [DOMAIN w.camps -> Tickets], NEW ks2, NEW ds2, Recast(w, ks, ds, ks2, ds2)
  PROVE  RowsInv(w, ks2, ds2, rs, ts2)
<1>1. RowsTyped(w, ks, ds, rs, ts)
  BY RowsTypedIs, Zenon
<1>2. rs \in Seq(RunRows(w)) /\ Holders(rs, rs)
  BY <1>1, Zenon DEF RowsTyped, Holders
<1>3. /\ ks2 \in [DOMAIN w.camps -> CampRows] /\ ds2 \in Seq(CandRows(w)) /\ Shape(ds, ds2)
      /\ \A c \in DOMAIN w.camps : KeptCamp(w, ks[c], ks2[c])
      /\ \A i \in DOMAIN ds : /\ ds2[i].st = "exhausted" => ds[i].st = "exhausted"
                              /\ ds2[i].st = "invalid" => ds[i].st = "invalid"
                              /\ ds2[i].st = "deleted" => ks2[ds[i].camp].st = "deleted"
      /\ \A c \in DOMAIN w.camps : Over(ks2[c]) =>
           /\ \A i \in OfIn(ds, c) : ds2[i] = ds[i]
           /\ \A r \in RunsIn(ds, rs, c) : rs[r] = rs[r]
  BY Zenon DEF Recast
<1> QED BY <1>2, <1>3, RowsMoved, Zenon

\* A mark on some of the candidates.
Marked(ds, ds2, S, s) == ds2 = [i \in DOMAIN ds |-> IF i \in S THEN [ds[i] EXCEPT !.st = s] ELSE ds[i]]
MarkedAs(w, ds, ds2, S, s) ==
  /\ ds2 \in Seq(CandRows(w)) /\ Shape(ds, ds2)
  /\ \A i \in DOMAIN ds : IF i \in S THEN ds2[i].st = s ELSE ds2[i] = ds[i]
LEMMA MarkedIs ==
  ASSUME NEW w, NEW ds \in Seq(CandRows(w)), NEW ds2, NEW S, NEW s \in {"valid", "deleted"}, Marked(ds, ds2, S, s)
  PROVE  MarkedAs(w, ds, ds2, S, s)
<1>1. Len(ds) \in Nat /\ DOMAIN ds = 1..Len(ds) /\ \A i \in DOMAIN ds : ds[i] \in CandRows(w)
  BY LenProperties
<1>2. DOMAIN ds2 = 1..Len(ds) /\ ds2 = [i \in 1..Len(ds) |-> ds2[i]]
      /\ \A i \in DOMAIN ds : ds2[i] = IF i \in S THEN [ds[i] EXCEPT !.st = s] ELSE ds[i]
  BY <1>1 DEF Marked
<1>3. ASSUME NEW i \in DOMAIN ds
      PROVE  /\ ds2[i] \in CandRows(w) /\ ds2[i].camp = ds[i].camp /\ ds2[i].cfg = ds[i].cfg
             /\ ds2[i].kind = ds[i].kind /\ ds2[i].base = ds[i].base
             /\ IF i \in S THEN ds2[i].st = s ELSE ds2[i] = ds[i]
  <2>1. ds[i] \in CandRows(w)
    BY <1>1
  <2>2. CASE i \in S
    <3>1. ds2[i] = [ds[i] EXCEPT !.st = s]
      BY <1>2, <2>2
    <3> QED BY <2>1, <2>2, <3>1 DEF CandRows
  <2>3. CASE i \notin S
    BY <1>2, <2>1, <2>3
  <2> QED BY <2>2, <2>3
<1>4. ds2 \in [1..Len(ds) -> CandRows(w)]
  BY <1>1, <1>2, <1>3
<1>5. ds2 \in Seq(CandRows(w))
  BY <1>1, <1>4
<1>6. Shape(ds, ds2)
  BY <1>1, <1>2, <1>3 DEF Shape
<1> QED BY <1>3, <1>5, <1>6 DEF MarkedAs

LEMMA DeleteKeeps == ASSUME Inv, NEW c \in Camps, delete_campaign(c) PROVE Inv'
<1>1. /\ Idle /\ Exists(c) /\ RunsOf(c) = {} /\ UNCHANGED <<site, now, turn, runs, prof>>
      /\ camp' = [camp EXCEPT ![c] = ByHand(@, "deleted")]
      /\ cands' = [i \in DOMAIN cands |-> IF i \in Of(c) THEN [cands[i] EXCEPT !.st = "deleted"] ELSE cands[i]]
      /\ ticket' = [ticket EXCEPT ![c] = NoTicket]
  BY DEF delete_campaign, Ask, Untouched
<1>2. /\ site \in Sites /\ prof \in Profiles /\ now \in Nat /\ turn = Free
      /\ RowsInv(site, camp, cands, runs, ticket) /\ Empty(site, camp, cands, runs)
  BY <1>1, IdleIs
<1>3. RowsTyped(site, camp, cands, runs, ticket)
  BY <1>2, RowsTypedIs, Zenon
<1>4. /\ camp \in [DOMAIN site.camps -> CampRows] /\ ticket \in [DOMAIN site.camps -> Tickets]
      /\ cands \in Seq(CandRows(site)) /\ Linked(cands, runs) /\ c \in DOMAIN site.camps
  BY <1>3 DEF RowsTyped, Camps
<1> DEFINE k == [camp[c] EXCEPT !.st = "deleted", !.by = "person"]
<1>5. k \in CampRows /\ k.st = "deleted" /\ k.sch = camp[c].sch
  <2>1. camp[c] \in CampRows
    BY <1>4
  <2> QED BY <2>1 DEF CampRows, CampStates
<1>6. camp' = [camp EXCEPT ![c] = k]
  BY <1>1, <1>4 DEF ByHand
<1> HIDE DEF k
<1>7. /\ camp' \in [DOMAIN site.camps -> CampRows] /\ camp'[c] = k
      /\ \A d \in DOMAIN site.camps : d # c => camp'[d] = camp[d]
  BY <1>4, <1>5, <1>6
<1>8. ticket' \in [DOMAIN site.camps -> Tickets]
  <2>1. NoTicket \in Tickets
    BY DEF NoTicket, Tickets, NoTime
  <2> QED BY <1>1, <1>4, <2>1
<1>9. Marked(cands, cands', Of(c), "deleted")
  BY <1>1 DEF Marked
<1>10. MarkedAs(site, cands, cands', Of(c), "deleted")
  BY <1>4, <1>9, MarkedIs
<1>11. /\ cands' \in Seq(CandRows(site)) /\ Shape(cands, cands')
       /\ \A i \in DOMAIN cands : IF i \in Of(c) THEN cands'[i].st = "deleted" ELSE cands'[i] = cands[i]
  BY <1>10, Zenon DEF MarkedAs
<1>12. \A d \in DOMAIN site.camps : KeptCamp(site, camp[d], camp'[d])
  BY <1>5, <1>7 DEF KeptCamp, Over
<1>13. \A i \in DOMAIN cands : /\ cands'[i].st = "exhausted" => cands[i].st = "exhausted"
                               /\ cands'[i].st = "invalid" => cands[i].st = "invalid"
                               /\ cands'[i].st = "deleted" => camp'[cands[i].camp].st = "deleted"
  <2> SUFFICES ASSUME NEW i \in DOMAIN cands
      PROVE  /\ cands'[i].st = "exhausted" => cands[i].st = "exhausted"
             /\ cands'[i].st = "invalid" => cands[i].st = "invalid"
             /\ cands'[i].st = "deleted" => camp'[cands[i].camp].st = "deleted"
    OBVIOUS
  <2>1. CASE i \in Of(c)
    BY <1>5, <1>7, <1>11, <2>1 DEF Of
  <2>2. CASE i \notin Of(c)
    <3>1. cands[i].camp # c /\ cands'[i] = cands[i]
      BY <1>11, <2>2 DEF Of
    <3>5. cands[i] \in CandRows(site)
      BY <1>4
    <3>2. cands[i].camp \in DOMAIN site.camps
      BY <3>5 DEF CandRows
    <3>3. cands[i].st = "deleted" => camp[cands[i].camp].st = "deleted"
      BY <1>2 DEF RowsInv, Gone
    <3> QED BY <1>7, <3>1, <3>2, <3>3
  <2> QED BY <2>1, <2>2
<1>14. \A d \in DOMAIN site.camps : Over(camp'[d]) => \A i \in OfIn(cands, d) : cands'[i] = cands[i]
  <2> SUFFICES ASSUME NEW d \in DOMAIN site.camps, Over(camp'[d]), NEW i \in OfIn(cands, d) PROVE cands'[i] = cands[i]
    OBVIOUS
  <2>1. d # c
    BY <1>5, <1>7 DEF Over
  <2>2. i \in DOMAIN cands /\ i \notin Of(c)
    BY <2>1 DEF OfIn, Of
  <2> QED BY <1>11, <2>2
<1>15. Recast(site, camp, cands, camp', cands')
  BY <1>7, <1>11, <1>12, <1>13, <1>14, Zenon DEF Recast
<1>16. RowsInv(site, camp', cands', runs, ticket')
  BY <1>2, <1>8, <1>15, RecastIs, Zenon
<1>17. Empty(site, camp', cands', runs)
  <2>1. \A d \in DOMAIN site.camps : Leaving(site, camp'[d], d) => Leaving(site, camp[d], d)
    BY <1>5, <1>7 DEF Leaving
  <2>2. Holders(runs, runs) /\ \A r \in DOMAIN runs : runs[r].st = "live" => runs[r].st = "live"
    BY DEF Holders
  <2> QED BY <1>2, <1>4, <1>11, <2>1, <2>2, EmptyMoved, Zenon
<1>18. RowsInv(site, camp', cands', runs', ticket') /\ Empty(site, camp', cands', runs')
  BY <1>1, <1>16, <1>17
<1>19. now' \in Nat /\ turn' = Free /\ site' = site /\ prof' \in Profiles
  BY <1>1, <1>2
<1> QED BY <1>2, <1>18, <1>19, BetweenTicks

LEMMA RetryKeeps == ASSUME Inv, NEW c \in Camps, retry_failed(c) PROVE Inv'
<1> DEFINE again == {i \in Of(c) : Retryable(i)}
<1>1. /\ Idle /\ Exists(c) /\ UNCHANGED <<site, now, turn, runs, ticket, prof>>
      /\ cands' = [i \in DOMAIN cands |-> IF i \in again THEN [cands[i] EXCEPT !.st = "valid"] ELSE cands[i]]
      /\ camp' = IF again # {} /\ camp[c].st = "done" THEN [camp EXCEPT ![c] = ByHand(@, "active")] ELSE camp
  BY DEF retry_failed, Ask, Untouched
<1>a. again \subseteq OfIn(cands, c)
  BY DEF Of, OfIn
<1> HIDE DEF again
<1>2. /\ site \in Sites /\ prof \in Profiles /\ now \in Nat /\ turn = Free
      /\ RowsInv(site, camp, cands, runs, ticket) /\ Empty(site, camp, cands, runs)
  BY <1>1, IdleIs
<1>3. RowsTyped(site, camp, cands, runs, ticket)
  BY <1>2, RowsTypedIs, Zenon
<1>4. /\ camp \in [DOMAIN site.camps -> CampRows] /\ ticket \in [DOMAIN site.camps -> Tickets]
      /\ cands \in Seq(CandRows(site)) /\ Linked(cands, runs) /\ c \in DOMAIN site.camps
  BY <1>3 DEF RowsTyped, Camps
<1> DEFINE k == IF again # {} /\ camp[c].st = "done" THEN [camp[c] EXCEPT !.st = "active", !.by = "person"] ELSE camp[c]
<1>5. /\ k \in CampRows /\ k.sch = camp[c].sch /\ k.closing = camp[c].closing
      /\ k = camp[c] \/ (k.st = "active" /\ camp[c].st = "done")
      /\ again # {} => k.st # "done"
  <2>1. camp[c] \in CampRows
    BY <1>4
  <2>2. CASE again # {} /\ camp[c].st = "done"
    <3>1. k = [camp[c] EXCEPT !.st = "active", !.by = "person"]
      BY <2>2
    <3> HIDE DEF k
    <3> QED BY <2>1, <2>2, <3>1 DEF CampRows, CampStates
  <2>3. CASE ~(again # {} /\ camp[c].st = "done")
    BY <2>1, <2>3
  <2> QED BY <2>2, <2>3
<1>6. camp' = [camp EXCEPT ![c] = k]
  BY <1>1, <1>4 DEF ByHand
<1> HIDE DEF k
<1>7. /\ camp' \in [DOMAIN site.camps -> CampRows] /\ camp'[c] = k
      /\ \A d \in DOMAIN site.camps : d # c => camp'[d] = camp[d]
  BY <1>4, <1>5, <1>6
<1>9. Marked(cands, cands', again, "valid")
  BY <1>1 DEF Marked
<1>10. MarkedAs(site, cands, cands', again, "valid")
  BY <1>4, <1>9, MarkedIs
<1>11. /\ cands' \in Seq(CandRows(site)) /\ Shape(cands, cands')
       /\ \A i \in DOMAIN cands : IF i \in again THEN cands'[i].st = "valid" ELSE cands'[i] = cands[i]
  BY <1>10, Zenon DEF MarkedAs
<1>12. \A d \in DOMAIN site.camps : KeptCamp(site, camp[d], camp'[d])
  BY <1>5, <1>7 DEF KeptCamp, Over
<1>13. \A i \in DOMAIN cands : /\ cands'[i].st = "exhausted" => cands[i].st = "exhausted"
                               /\ cands'[i].st = "invalid" => cands[i].st = "invalid"
                               /\ cands'[i].st = "deleted" => camp'[cands[i].camp].st = "deleted"
  <2> SUFFICES ASSUME NEW i \in DOMAIN cands
      PROVE  /\ cands'[i].st = "exhausted" => cands[i].st = "exhausted"
             /\ cands'[i].st = "invalid" => cands[i].st = "invalid"
             /\ cands'[i].st = "deleted" => camp'[cands[i].camp].st = "deleted"
    OBVIOUS
  <2>1. CASE i \in again
    BY <1>11, <2>1
  <2>2. CASE i \notin again
    <3>1. cands'[i] = cands[i]
      BY <1>11, <2>2
    <3>5. cands[i] \in CandRows(site)
      BY <1>4
    <3>2. cands[i].camp \in DOMAIN site.camps
      BY <3>5 DEF CandRows
    <3>3. cands[i].st = "deleted" => camp[cands[i].camp].st = "deleted"
      BY <1>2 DEF RowsInv, Gone
    <3>4. KeptCamp(site, camp[cands[i].camp], camp'[cands[i].camp])
      BY <1>12, <3>2
    <3> QED BY <3>1, <3>3, <3>4 DEF KeptCamp
  <2> QED BY <2>1, <2>2
<1>14. \A d \in DOMAIN site.camps : Over(camp'[d]) => \A i \in OfIn(cands, d) : cands'[i] = cands[i]
  <2> SUFFICES ASSUME NEW d \in DOMAIN site.camps, Over(camp'[d]), NEW i \in OfIn(cands, d) PROVE cands'[i] = cands[i]
    OBVIOUS
  <2>1. i \in DOMAIN cands /\ cands[i].camp = d
    BY DEF OfIn
  <2>2. i \notin again
    <3>1. CASE d = c
      BY <1>5, <1>7, <3>1 DEF Over
    <3>2. CASE d # c
      BY <1>a, <2>1, <3>2 DEF OfIn
    <3> QED BY <3>1, <3>2
  <2> QED BY <1>11, <2>1, <2>2
<1>15. Recast(site, camp, cands, camp', cands')
  BY <1>7, <1>11, <1>12, <1>13, <1>14, Zenon DEF Recast
<1>16. RowsInv(site, camp', cands', runs, ticket)
  BY <1>2, <1>4, <1>15, RecastIs, Zenon
<1>17. Empty(site, camp', cands', runs)
  <2>1. \A d \in DOMAIN site.camps : Leaving(site, camp'[d], d) => Leaving(site, camp[d], d)
    BY <1>5, <1>7 DEF Leaving
  <2>2. Holders(runs, runs) /\ \A r \in DOMAIN runs : runs[r].st = "live" => runs[r].st = "live"
    BY DEF Holders
  <2> QED BY <1>2, <1>4, <1>11, <2>1, <2>2, EmptyMoved, Zenon
<1>18. RowsInv(site, camp', cands', runs', ticket') /\ Empty(site, camp', cands', runs')
  BY <1>1, <1>16, <1>17
<1>19. now' \in Nat /\ turn' = Free /\ site' = site /\ prof' \in Profiles
  BY <1>1, <1>2
<1> QED BY <1>2, <1>18, <1>19, BetweenTicks

LEMMA DatasetKeeps ==
  ASSUME Inv, (\E f \in BOOLEAN : collect(f)) \/ delete_dataset \/ create_dataset
  PROVE  Inv'
<1>1. Idle /\ UNCHANGED <<site, now, turn, camp, cands, runs, ticket>>
  BY DEF collect, delete_dataset, create_dataset, Ask, Untouched
<1>2. prof \in Profiles
  BY DEF Inv
<1>3. TriggerBuild \in Profiles /\ [TriggerBuild EXCEPT !.exists = TRUE] \in Profiles
  BY <1>2, BuildsIs
<1>4. [prof EXCEPT !.exists = FALSE, !.current = 0] \in Profiles
  BY <1>2 DEF Profiles
<1>5. prof' \in {TriggerBuild, [TriggerBuild EXCEPT !.exists = TRUE], [prof EXCEPT !.exists = FALSE, !.current = 0]}
  BY DEF collect, delete_dataset, create_dataset
<1>6. prof' \in Profiles
  BY <1>3, <1>4, <1>5
<1> QED BY <1>1, <1>6, ProfileOnly

LEMMA RequestsKeep == ASSUME Inv, Requests PROVE Inv'
<1>1. ASSUME NEW c \in Camps, create_campaign(c) PROVE Inv'
  BY <1>1, CreateKeeps
<1>2. ASSUME NEW c \in Camps, delete_campaign(c) PROVE Inv'
  BY <1>2, DeleteKeeps
<1>3. ASSUME NEW c \in Camps, force_stop(c) PROVE Inv'
  BY <1>3, ForceStopKeeps
<1>4. ASSUME NEW c \in Camps, retry_failed(c) PROVE Inv'
  BY <1>4, RetryKeeps
<1>5. ASSUME NEW c \in Camps, NEW s \in {"active", "paused", "scheduled", "done"}, set_campaign_status(c, s) PROVE Inv'
  BY <1>5, StatusKeeps
<1>6. ASSUME NEW c \in Camps, NEW s \in site.schedules, set_schedule(c, s) PROVE Inv'
  BY <1>6, ScheduleKeeps
<1>7. ASSUME NEW c \in Camps, NEW h \in site.hours, force_start(c, h) PROVE Inv'
  BY <1>7, StartKeeps
<1>8. CASE (\E f \in BOOLEAN : collect(f)) \/ delete_dataset \/ create_dataset
  BY <1>8, DatasetKeeps
<1> QED BY <1>1, <1>2, <1>3, <1>4, <1>5, <1>6, <1>7, <1>8, Zenon DEF Requests

LEMMA Starts == Init => Inv
<1> SUFFICES ASSUME Init PROVE Inv
  OBVIOUS
<1>1. /\ site \in Sites /\ now = 0 /\ turn = Free /\ camp = [c \in Camps |-> InitCamp(site.camps[c])]
      /\ cands = <<>> /\ runs = <<>> /\ ticket = [c \in Camps |-> NoTicket] /\ prof = site.prof
  BY DEF Init
<1>2. prof \in Profiles /\ now \in Nat /\ turn \in Turns(site)
  <2>1. "idle" \in Stages
    BY DEF Stages
  <2>2. site.prof \in Profiles
    BY <1>1, SiteFacts
  <2>3. Stage("idle", <<>>) \in Turns(site)
    BY <1>1, <2>1, NoneTodo
  <2> QED BY <1>1, <2>2, <2>3 DEF Free
<1>3. ASSUME NEW c \in Camps
      PROVE  /\ camp[c] \in CampRows /\ camp[c].by = "person" /\ ~camp[c].closing
             /\ camp[c].sch = site.camps[c].sch
  <2>1. PICK s \in CampStates, t \in Schedules, e \in Int : s = site.camps[c].st /\ t = site.camps[c].sch /\ e = site.camps[c].end
    BY <1>1, CampFacts DEF Camps
  <2>2. PICK n \in Int : n = NoTime
    BY DEF NoTime
  <2> DEFINE k == [st |-> s, by |-> "person", sch |-> t, start |-> n, end |-> e,
                   over |-> n, closing |-> FALSE, build |-> 0, row |-> 0, applied |-> ""]
  <2>3. camp[c] = k
    BY <1>1, <2>1, <2>2 DEF InitCamp
  <2>4. k \in CampRows
    BY DEF CampRows, Answers
  <2>5. k.by = "person" /\ ~k.closing /\ k.sch = t
    OBVIOUS
  <2> HIDE DEF k
  <2> QED BY <2>1, <2>3, <2>4, <2>5, Zenon
<1>4. camp \in [DOMAIN site.camps -> CampRows] /\ ticket \in [DOMAIN site.camps -> Tickets]
  <2>1. NoTicket \in Tickets
    BY DEF NoTicket, Tickets, NoTime
  <2> QED BY <1>1, <1>3, <2>1 DEF Camps
<1>5. /\ cands \in Seq(CandRows(site)) /\ runs \in Seq(RunRows(site)) /\ DOMAIN cands = {} /\ DOMAIN runs = {}
  BY <1>1
<1>6. Typed(site, camp, cands, runs, ticket)
  BY <1>4, <1>5 DEF Typed, Linked
<1>7. Spent(cands, runs) /\ Hopeless(cands, runs) /\ Gone(camp, cands)
  BY <1>5 DEF Spent, Hopeless, Gone
<1>8. Bounded(site, cands)
  <2> SUFFICES ASSUME NEW c \in DOMAIN site.camps, NEW g \in DOMAIN site.camps[c].cfgs
      PROVE  /\ Cardinality(Screened(cands, c, g)) <= site.camps[c].confirm_repeats
             /\ Cardinality(Verified(cands, c, g)) <= 1
    BY Zenon DEF Bounded
  <2>1. Screened(cands, c, g) = {} /\ Verified(cands, c, g) = {}
    BY <1>5 DEF Screened, Verified, OfIn
  <2>2. Cardinality({}) = 0
    BY FS_EmptySet
  <2>3. site.camps[c].confirm_repeats \in Nat
    BY <1>1, CampFacts
  <2> QED BY <2>1, <2>2, <2>3
<1>9. Finished(site, camp, cands, runs) /\ Fixed(site, camp) /\ Unstopped(site, camp)
  BY <1>3 DEF Finished, Over, Fixed, Unstopped, Camps
<1>10. RowsInv(site, camp, cands, runs, ticket)
  BY <1>6, <1>7, <1>8, <1>9 DEF RowsInv
<1>11. Empty(site, camp, cands, runs)
  BY <1>3 DEF Empty, Leaving, Camps
<1>12. turn.at = "idle"
  BY <1>1 DEF Free, Stage
<1> QED BY <1>1, <1>2, <1>10, <1>11, <1>12 DEF Inv, Between, Idle

LEMMA StepKeeps == Inv /\ [Next]_vars => Inv'
<1> SUFFICES ASSUME Inv, [Next]_vars PROVE Inv'
  OBVIOUS
<1>1. CASE ManagedSteps
  BY <1>1, ManagedKeeps
<1>2. CASE Clock
  BY <1>2, ClockKeeps
<1>3. CASE PinStep \/ LLMBenchAway
  BY <1>3, PinKeeps
<1>4. CASE refresh_datasets
  BY <1>4, RefreshKeeps
<1>5. CASE Plan
  BY <1>5, PlanKeeps
<1>6. CASE EnsureBaselines
  BY <1>6, BaselinesKeep
<1>7. CASE TakeTickets
  BY <1>7, TakeKeeps
<1>8. CASE NothingPending
  BY <1>8, NothingKeeps
<1>9. CASE Admit
  <2>1. PICK c, m, i : Placement(c, m, i)
    BY <1>9, PlacementIs
  <2>2. InQueue
    BY <1>9 DEF Admit
  <2> QED BY <2>1, <2>2, AdmitStepKeeps
<1>10. CASE HoldMachines
  BY <1>10, HoldKeeps
<1>11. CASE Sweep
  BY <1>11, SweepKeeps
<1>12. CASE AdvanceRuns
  BY <1>12, AdvanceKeeps
<1>13. CASE EnforceWindows
  BY <1>13, WindowsKeep
<1>14. CASE LoseTick
  BY <1>14, LoseKeeps
<1>15. CASE TimePasses
  BY <1>15, TimeKeeps
<1>16. CASE \E r \in DOMAIN runs : BenchmarkEnds(r)
  BY <1>16, BenchmarkKeeps
<1>17. CASE BuildEnds
  BY <1>17, BuildEndsKeeps
<1>18. CASE Requests
  BY <1>18, RequestsKeep
<1>19. CASE UNCHANGED vars
  BY <1>19 DEF Inv, vars, Idle, Between, Under, Shuts, AllPlanned, InLine, Camps
<1> QED BY <1>1, <1>2, <1>3, <1>4, <1>5, <1>6, <1>7, <1>8, <1>9, <1>10, <1>11, <1>12,
           <1>13, <1>14, <1>15, <1>16, <1>17, <1>18, <1>19, Zenon DEF Next

\* The tables and the tick are as described, always.
THEOREM InvHolds == Spec => []Inv
BY Starts, StepKeeps, PTL DEF Spec

\* A campaign its plugin is stopping holds no machine once the tick is over
\* (stop_managed_campaign), whatever the requests and the lost ticks between.
THEOREM StoppedIsEmpty == Spec => []StoppedHoldsNothing
<1>1. Inv => StoppedHoldsNothing
  <2> SUFFICES ASSUME Inv, Idle, NEW c \in Camps, Closing(c), Unscheduled(c)
      PROVE  ~\E r \in RunsOf(c) : IsLive(r)
    BY DEF StoppedHoldsNothing
  <2>1. Empty(site, camp, cands, runs)
    BY IdleIs
  <2>2. Leaving(site, camp[c], c)
    BY DEF Closing, Exists, Unscheduled, Spec1, Leaving
  <2>3. LiveIn(cands, runs, c) = {}
    BY <2>1, <2>2 DEF Empty, Camps
  <2> QED BY <2>3, TablesNow
<1> QED BY <1>1, InvHolds, PTL

\* However the ranking moves between passes, no configuration is queued for a
\* stage more often than that stage wants it (_schedule_confirmations,
\* _schedule_verification).
THEOREM EvidenceIsBounded == Spec => []EvidenceBounded
<1>1. Inv => EvidenceBounded
  <2> SUFFICES ASSUME Inv, NEW c \in Camps, NEW g \in DOMAIN Spec1(c).cfgs
      PROVE  LET queued(kinds) == Cardinality({i \in Of(c) : cands[i].cfg = g /\ cands[i].kind \in kinds})
             IN  /\ queued({"search", "confirmation"}) <= Spec1(c).confirm_repeats
                 /\ queued({"verification"}) <= 1
    BY Zenon DEF EvidenceBounded
  <2>1. Bounded(site, cands)
    BY Zenon DEF Inv, RowsInv
  <2>2. /\ Cardinality(Screened(cands, c, g)) <= site.camps[c].confirm_repeats
        /\ Cardinality(Verified(cands, c, g)) <= 1
    BY <2>1 DEF Bounded, Camps, Spec1
  <2>3. Of(c) = OfIn(cands, c)
    BY TablesNow
  <2>4. /\ {i \in Of(c) : cands[i].cfg = g /\ cands[i].kind \in {"search", "confirmation"}} = Screened(cands, c, g)
        /\ {i \in Of(c) : cands[i].cfg = g /\ cands[i].kind \in {"verification"}} = Verified(cands, c, g)
    BY <2>3, Zenon DEF Screened, Verified
  <2> QED BY <2>2, <2>4, Zenon DEF Spec1
<1> QED BY <1>1, InvHolds, PTL

\* A campaign the worker calls done has nothing left to do by its own ranking
\* (_maybe_finish_campaign): nothing that happens later to other campaigns, and
\* no request that leaves it done, brings a confirmation or a verification back.
THEOREM DoneStaysComplete == Spec => []DoneIsComplete
<1>1. Inv => DoneIsComplete
  <2> SUFFICES ASSUME Inv, NEW c \in Camps, camp[c].st = "done", camp[c].by = "worker"
      PROVE  /\ Valid(c) = {} /\ ~\E r \in RunsOf(c) : IsLive(r)
             /\ \A g \in DOMAIN Spec1(c).cfgs : \E i \in Of(c) : cands[i].cfg = g
             /\ \A g \in ToSet(Top(c, Spec1(c).confirm_top_k)) :
                  Cardinality(Group(c, g)) >= Spec1(c).confirm_repeats
             /\ \A g \in ToSet(Top(c, Spec1(c).verify_top_k)) :
                  \E i \in Of(c) : cands[i].cfg = g /\ cands[i].kind = "verification"
    BY Zenon DEF DoneIsComplete
  <2>1. Finished(site, camp, cands, runs)
    BY Zenon DEF Inv, RowsInv
  <2>2. Complete(site, cands, runs, c)
    BY <2>1 DEF Finished, Over, Camps
  <2>3. /\ Of(c) = OfIn(cands, c) /\ Valid(c) = ValidIn(cands, c)
        /\ (\E r \in RunsOf(c) : IsLive(r)) <=> LiveIn(cands, runs, c) # {}
        /\ \A g : Group(c, g) = GroupIn(cands, runs, c, g)
        /\ \A k : Top(c, k) = TopIn(site, cands, runs, c, k)
    BY TablesNow
  <2>4. /\ ValidIn(cands, c) = {} /\ LiveIn(cands, runs, c) = {}
        /\ Covered(site, cands, c) /\ Confirmed(site, cands, runs, c) /\ Proven(site, cands, runs, c)
    BY <2>2, Zenon DEF Complete
  <2>5. Valid(c) = {} /\ ~\E r \in RunsOf(c) : IsLive(r)
    BY <2>3, <2>4
  <2>6. \A g \in DOMAIN Spec1(c).cfgs : \E i \in Of(c) : cands[i].cfg = g
    BY <2>3, <2>4, Zenon DEF Covered, Spec1
  <2>7. \A g \in ToSet(Top(c, Spec1(c).confirm_top_k)) : Cardinality(Group(c, g)) >= Spec1(c).confirm_repeats
    BY <2>3, <2>4, Zenon DEF Confirmed, Spec1
  <2>8. \A g \in ToSet(Top(c, Spec1(c).verify_top_k)) :
          \E i \in Of(c) : cands[i].cfg = g /\ cands[i].kind = "verification"
    BY <2>3, <2>4, Zenon DEF Proven, Spec1
  <2> QED BY <2>5, <2>6, <2>7, <2>8
<1> QED BY <1>1, InvHolds, PTL

(***************************************************************************)
(* The queue.                                                              *)
(***************************************************************************)
LEMMA OldOnesStay == ASSUME Inv, ~Idle PROVE DOMAIN saved[2] \subseteq DOMAIN cands
<1>1. /\ RowsInv(site, saved[1], saved[2], saved[3], saved[4]) /\ Len(saved[2]) <= Len(cands)
      /\ RowsInv(site, camp, cands, runs, ticket)
  BY DEF Inv, Under
<1>2. Len(saved[2]) \in Nat /\ DOMAIN saved[2] = 1..Len(saved[2])
  BY <1>1, RowsAre, Zenon
<1>3. Len(cands) \in Nat /\ DOMAIN cands = 1..Len(cands)
  BY <1>1, RowsAre, Zenon
<1> QED BY <1>1, <1>2, <1>3

\* What a waiter has to place from before the pass only gets less.
LEMMA PendingShrinks ==
  ASSUME site' = site, now' = now, NEW S, S \subseteq DOMAIN cands,
         \A i \in S : i \in DOMAIN cands' /\ cands'[i].st = "valid" => cands'[i] = cands[i],
         NEW d \in Camps, camp'[d] = camp[d]
  PROVE  /\ Listed(d)' <=> Listed(d)
         /\ \A i \in S : i \in Pending(d)' => i \in Pending(d)
         /\ \A m, i : i \in S /\ i \in FitsEmpty(d, m)' => i \in FitsEmpty(d, m)
<1>1. Spec1(d)' = Spec1(d) /\ \A m : Cards(m)' = Cards(m)
  BY DEF Spec1, Cards
<1>2. \A s : window_allows_stage(d, s)' <=> window_allows_stage(d, s)
  BY DEF window_allows_stage, window_allows_run_of, Spec1
<1>3. Listed(d)' <=> Listed(d)
  BY <1>1, <1>2 DEF Listed, is_staged, waiting_on_dataset, uses_pinning, is_pinned, Spec1
<1>4. ASSUME NEW i \in S, i \in Pending(d)'
      PROVE  i \in Pending(d) /\ cands'[i] = cands[i]
  <2>1. /\ i \in DOMAIN cands' /\ cands'[i].camp = d /\ cands'[i].st = "valid"
        /\ window_allows_stage(d, stage_of(cands[i]))'
    BY <1>4 DEF Pending, Valid, Of
  <2>2. cands'[i] = cands[i] /\ i \in DOMAIN cands
    BY <2>1
  <2>3. window_allows_stage(d, stage_of(cands[i]))
    BY <2>1, <2>2 DEF window_allows_stage, window_allows_run_of, stage_of, Spec1
  <2> QED BY <2>1, <2>2, <2>3 DEF Pending, Valid, Of
<1>5. ASSUME NEW m, NEW i \in S, i \in FitsEmpty(d, m)'
      PROVE  i \in FitsEmpty(d, m)
  <2>1. i \in Pending(d)'
    BY <1>5 DEF FitsEmpty, Fitting
  <2>2. i \in Pending(d) /\ cands'[i] = cands[i]
    BY <1>4, <2>1
  <2>3. config_cards(i)' = config_cards(i)
    BY <2>2 DEF config_cards, Spec1
  <2> QED BY <1>1, <1>5, <2>2, <2>3 DEF FitsEmpty, Fitting
<1> QED BY <1>3, <1>4, <1>5

LEMMA TodoSet == ASSUME NEW q, NEW x PROVE x \in ToSet(q) <=> \E i \in DOMAIN q : q[i] = x
BY DEF ToSet

\* The head leaves the line: the order stays, and everyone else keeps a place.
LEMMA LineMovesUp ==
  ASSUME Inv, InQueue, Sorted, ticket' = ticket, turn'.todo = Tail(turn.todo), turn'.served = turn.served
  PROVE  /\ Sorted'
         /\ \A d : d \in ToSet(turn.todo) /\ d # NextInLine => d \in ToSet(turn'.todo)
<1>1. turn.todo \in Seq(Camps) /\ turn.todo # <<>>
  BY HeadIs
<1>2. PICK s \in Seq(Camps) : s = turn.todo
  BY <1>1
<1>3. /\ Len(s) \in Nat \ {0} /\ DOMAIN s = 1..Len(s) /\ Head(s) = s[1] /\ DOMAIN Tail(s) = 1..(Len(s) - 1)
      /\ \A i \in DOMAIN Tail(s) : i + 1 \in DOMAIN s /\ Tail(s)[i] = s[i + 1]
  BY <1>1, <1>2, TailOf
<1>4. PICK t : t = Tail(s)
  OBVIOUS
<1>5. /\ DOMAIN t = 1..(Len(s) - 1) /\ turn'.todo = t
      /\ \A i \in DOMAIN t : i + 1 \in DOMAIN s /\ t[i] = s[i + 1]
  BY <1>2, <1>3, <1>4, Zenon
<1>6. Sorted'
  <2> SUFFICES ASSUME NEW i \in DOMAIN t, NEW j \in DOMAIN t, i < j
      PROVE  /\ t[i] \in turn.served => t[j] \in turn.served
             /\ t[j] \notin turn.served => Before(ticket, t[i], t[j])
    BY <1>5 DEF Sorted, Before
  <2>1. i + 1 \in DOMAIN s /\ j + 1 \in DOMAIN s /\ i + 1 < j + 1 /\ t[i] = s[i + 1] /\ t[j] = s[j + 1]
    BY <1>3, <1>5
  <2> QED BY <1>2, <2>1 DEF Sorted
<1>7. ASSUME NEW d, d \in ToSet(turn.todo), d # NextInLine PROVE d \in ToSet(turn'.todo)
  <2>1. PICK j \in DOMAIN s : s[j] = d
    BY <1>2, <1>7, TodoSet
  <2>2. j # 1
    BY <1>2, <1>3, <1>7, <2>1 DEF NextInLine
  <2>3. j - 1 \in DOMAIN t
    BY <1>3, <1>5, <2>2
  <2>4. (j - 1) + 1 = j
    BY <1>3
  <2>5. t[j - 1] = d
    BY <1>5, <2>1, <2>3, <2>4
  <2> QED BY <1>5, <2>3, <2>5, TodoSet
<1> QED BY <1>6, <1>7

LEMMA NothingWaits == ASSUME Inv, Sorted, Waited, NothingPending PROVE Sorted' /\ Waited'
<1>1. site \in Sites /\ now \in Nat /\ RowsInv(site, camp, cands, runs, ticket)
  BY Zenon DEF Inv
<1>2. /\ InQueue /\ Pending(NextInLine) = {} /\ maybe_finish_campaign(NextInLine)
      /\ turn' = [turn EXCEPT !.todo = Tail(@)] /\ UNCHANGED <<site, now, saved, runs, ticket, prof>>
  BY DEF NothingPending
<1>3. PICK c \in Camps : c = NextInLine
  BY <1>2, HeadIs
<1>4. ~Idle /\ turn \in Turns(site) /\ camp[c].st = "active" /\ Covered(site, cands, c)
  BY <1>2, <1>3, HeadIs
<1>5. turn'.todo = Tail(turn.todo) /\ turn'.served = turn.served /\ turn'.blocked = turn.blocked
  BY <1>2, <1>4 DEF Turns
<1>6. /\ Extends(cands, cands') /\ \A i \in DOMAIN cands' : i \in DOMAIN cands \/ cands'[i].kind # "search"
      /\ camp' = camp \/ camp' = [camp EXCEPT ![c].st = "done", ![c].by = "worker"]
  BY <1>1, <1>2, <1>3, <1>4, FinishKeeps
<1>7. camp \in [Camps -> CampRows]
  BY <1>1, RowsAre DEF Camps
<1>8. /\ Sorted' /\ \A d : d \in ToSet(turn.todo) /\ d # c => d \in ToSet(turn'.todo)
  BY <1>2, <1>3, <1>5, LineMovesUp
<1>9. Waited'
  <2> SUFFICES ASSUME NEW d \in Camps, Listed(d)', d \notin turn.served, d \notin ToSet(turn'.todo)
      PROVE  HeldFor(d)'
    BY <1>2, <1>5 DEF Waited, Camps
  <2>1. camp'[d] = camp[d]
    <3>1. CASE camp' = [camp EXCEPT ![c].st = "done", ![c].by = "worker"] /\ d = c
      <4>1. camp[c] \in CampRows
        BY <1>7
      <4>2. camp'[d].st = "done"
        BY <1>7, <3>1, <4>1 DEF CampRows
      <4>3. camp'[d].st = "active"
        BY DEF Listed
      <4> QED BY <4>2, <4>3
    <3>2. CASE camp' = [camp EXCEPT ![c].st = "done", ![c].by = "worker"] /\ d # c
      BY <1>7, <3>2
    <3> QED BY <1>6, <3>1, <3>2
  <2> DEFINE S == Standing
  <2>2. S \subseteq DOMAIN cands /\ Standing' \subseteq S
    <3>1. DOMAIN saved[2] \subseteq DOMAIN cands
      BY <1>4, OldOnesStay
    <3> QED BY <1>2, <1>6, <3>1 DEF Standing, Extends
  <2>3. \A i \in S : i \in DOMAIN cands' /\ cands'[i].st = "valid" => cands'[i] = cands[i]
    BY <1>6, <2>2 DEF Extends
  <2> HIDE DEF S
  <2>4. /\ Listed(d)' <=> Listed(d)
        /\ \A i \in S : i \in Pending(d)' => i \in Pending(d)
        /\ \A m, i : i \in S /\ i \in FitsEmpty(d, m)' => i \in FitsEmpty(d, m)
    BY <1>2, <2>1, <2>2, <2>3, PendingShrinks
  <2> SUFFICES ASSUME NEW m \in Machines \ turn.blocked, NEW i \in S, i \in FitsEmpty(d, m)' PROVE FALSE
    BY <1>2, <1>5, <2>2 DEF HeldFor, Machines
  <2>5. i \in FitsEmpty(d, m)
    BY <2>4
  <2>6. CASE d = c
    BY <1>2, <1>3, <2>5, <2>6 DEF FitsEmpty, Fitting
  <2>7. CASE d # c
    <3>1. d \notin ToSet(turn.todo)
      BY <1>8, <2>7
    <3>2. HeldFor(d)
      BY <2>4, <3>1 DEF Waited
    <3> QED BY <2>5, <3>2 DEF HeldFor, S
  <2> QED BY <2>6, <2>7
<1> QED BY <1>8, <1>9

LEMMA HoldWaits == ASSUME Inv, Sorted, Waited, HoldMachines PROVE Sorted' /\ Waited'
<1>1. /\ InQueue /\ (\A m \in Machines : ~Takes(NextInLine, m))
      /\ turn' = [turn EXCEPT !.todo = Tail(@), !.blocked = @ \cup Busy(NextInLine)]
      /\ UNCHANGED <<site, now, saved, camp, cands, runs, ticket, prof>>
  BY DEF HoldMachines
<1>2. PICK c \in Camps : c = NextInLine
  BY <1>1, HeadIs
<1>3. ~Idle /\ turn \in Turns(site)
  BY <1>1, HeadIs
<1>4. turn'.todo = Tail(turn.todo) /\ turn'.served = turn.served /\ turn'.blocked = turn.blocked \cup Busy(c)
  BY <1>1, <1>2, <1>3 DEF Turns
<1>5. Sorted' /\ \A d : d \in ToSet(turn.todo) /\ d # c => d \in ToSet(turn'.todo)
  BY <1>1, <1>2, <1>4, LineMovesUp
<1>6. Waited'
  <2> SUFFICES ASSUME NEW d \in Camps, Listed(d)', d \notin turn.served, d \notin ToSet(turn'.todo)
      PROVE  HeldFor(d)'
    BY <1>1, <1>4 DEF Waited, Camps
  <2> DEFINE S == Standing
  <2>2. S \subseteq DOMAIN cands /\ Standing' = S
    BY <1>1 DEF Standing
  <2>3. \A i \in S : i \in DOMAIN cands' /\ cands'[i].st = "valid" => cands'[i] = cands[i]
    BY <1>1
  <2> HIDE DEF S
  <2>4. /\ Listed(d)' <=> Listed(d)
        /\ \A m, i : i \in S /\ i \in FitsEmpty(d, m)' => i \in FitsEmpty(d, m)
    BY <1>1, <2>2, <2>3, PendingShrinks
  <2> SUFFICES ASSUME NEW m \in Machines, m \notin turn.blocked, m \notin Busy(c), NEW i \in S, i \in FitsEmpty(d, m)'
      PROVE  FALSE
    BY <1>1, <1>4, <2>2 DEF HeldFor, Machines
  <2>5. i \in FitsEmpty(d, m)
    BY <2>4
  <2>6. CASE d = c
    <3>1. may_share(c, m) /\ ~(FitsNow(c, m) = {} /\ FitsEmpty(c, m) # {})
      BY DEF Busy
    <3>2. FitsNow(c, m) = {}
      BY <1>1, <1>2, <3>1 DEF Takes
    <3> QED BY <2>5, <2>6, <3>1, <3>2
  <2>7. CASE d # c
    <3>1. d \notin ToSet(turn.todo)
      BY <1>5, <2>7
    <3>2. HeldFor(d)
      BY <2>4, <3>1 DEF Waited
    <3> QED BY <2>5, <3>2 DEF HeldFor, S
  <2> QED BY <2>6, <2>7
<1> QED BY <1>5, <1>6

LEMMA AdmitWaits ==
  ASSUME Inv, InQueue, Sorted, Waited, NEW c, NEW m, NEW i, Placement(c, m, i)
  PROVE  Sorted' /\ Waited'
<1>1. site \in Sites /\ now \in Nat /\ RowsInv(site, camp, cands, runs, ticket)
  BY Zenon DEF Inv
<1>2. /\ c = NextInLine /\ c \in Camps /\ m \in Machines /\ i \in Pending(c) /\ create_run(c, m, i)
      /\ turn' = [turn EXCEPT !.todo = Append(Tail(@), c), !.served = @ \cup {c}]
      /\ ticket' = [ticket EXCEPT ![c] = NoTicket]
      /\ UNCHANGED <<site, now, saved, camp, prof>>
  BY Zenon DEF Placement
<1>3. /\ ~Idle /\ turn \in Turns(site) /\ turn.todo \in Seq(Camps) /\ turn.todo # <<>> /\ camp[c].st = "active"
      /\ \A k \in DOMAIN Tail(turn.todo) : Tail(turn.todo)[k] # c
  BY <1>2, HeadIs
<1>4. PICK s, n, t : s \in Seq(Camps) /\ s = turn.todo /\ n = Len(s) /\ t = Tail(s)
  BY <1>3
<1>5. /\ n \in Nat \ {0} /\ DOMAIN s = 1..n /\ Head(s) = s[1] /\ DOMAIN t = 1..(n - 1) /\ Head(s) = c
      /\ \A k \in DOMAIN t : k + 1 \in DOMAIN s /\ t[k] = s[k + 1] /\ t[k] # c
  BY <1>2, <1>3, <1>4, TailOf DEF NextInLine
<1>6. PICK q : q = Append(Tail(s), Head(s))
  OBVIOUS
<1>7. /\ DOMAIN q = 1..n /\ q[n] = c /\ \A k \in DOMAIN q : k # n => k \in DOMAIN t /\ q[k] = t[k]
  <2>1. LET p == Append(Tail(s), Head(s))
        IN  /\ DOMAIN p = DOMAIN s /\ p[Len(s)] = Head(s)
            /\ \A k \in DOMAIN p : k # Len(s) => k \in DOMAIN Tail(s) /\ p[k] = Tail(s)[k]
    BY <1>3, <1>4, RoundOf
  <2> QED BY <1>4, <1>5, <1>6, <2>1, Zenon
<1>8. turn'.todo = q /\ turn'.served = turn.served \cup {c} /\ turn'.blocked = turn.blocked
  BY <1>2, <1>3, <1>4, <1>5, <1>6 DEF Turns
<1>9. ticket \in [Camps -> Tickets]
  BY <1>1, RowsAre DEF Camps
<1>10. Sorted'
  <2> SUFFICES ASSUME NEW k \in DOMAIN q, NEW j \in DOMAIN q, k < j
      PROVE  /\ q[k] \in turn'.served => q[j] \in turn'.served
             /\ q[j] \notin turn'.served => Before(ticket', q[k], q[j])
    BY <1>8 DEF Sorted, Before
  <2>1. CASE j = n
    BY <1>7, <1>8, <2>1
  <2>2. CASE j # n
    <3>1. k # n
      BY <1>5, <1>7
    <3>2. k \in DOMAIN t /\ q[k] = t[k] /\ j \in DOMAIN t /\ q[j] = t[j]
      BY <1>7, <2>2, <3>1
    <3>3. k + 1 \in DOMAIN s /\ j + 1 \in DOMAIN s /\ k + 1 < j + 1 /\ q[k] = s[k + 1] /\ q[j] = s[j + 1] /\ q[k] # c /\ q[j] # c
      BY <1>5, <3>2
    <3>4. /\ q[k] \in turn.served => q[j] \in turn.served
          /\ q[j] \notin turn.served => Before(ticket, q[k], q[j])
      BY <1>4, <3>3 DEF Sorted
    <3>5. ticket'[q[k]] = ticket[q[k]] /\ ticket'[q[j]] = ticket[q[j]]
      <4>1. q[k] \in Camps /\ q[j] \in Camps
        BY <1>4, <3>3
      <4> QED BY <1>2, <1>9, <3>3, <4>1
    <3> QED BY <1>8, <3>3, <3>4, <3>5 DEF Before
  <2> QED BY <2>1, <2>2
<1>11. \A d : d \in ToSet(turn.todo) => d \in ToSet(turn'.todo)
  <2> SUFFICES ASSUME NEW d, d \in ToSet(turn.todo) PROVE d \in ToSet(turn'.todo)
    OBVIOUS
  <2>1. PICK j \in DOMAIN s : s[j] = d
    BY <1>4, TodoSet
  <2>2. CASE j = 1
    <3>1. n \in DOMAIN q /\ q[n] = d
      BY <1>5, <1>7, <2>1, <2>2
    <3> QED BY <1>8, <3>1, TodoSet
  <2>3. CASE j # 1
    <3>1. j - 1 \in DOMAIN t /\ j - 1 \in DOMAIN q /\ j - 1 # n /\ (j - 1) + 1 = j
      BY <1>5, <1>7, <2>3
    <3>2. q[j - 1] = d
      BY <1>5, <1>7, <2>1, <3>1
    <3> QED BY <1>8, <3>1, <3>2, TodoSet
  <2> QED BY <2>2, <2>3
<1>12. Waited'
  <2> SUFFICES ASSUME NEW d \in Camps, Listed(d)', d \notin turn.served, d \notin ToSet(turn'.todo)
      PROVE  HeldFor(d)'
    BY <1>2, <1>8 DEF Waited, Camps
  <2> DEFINE S == Standing
  <2>2. S \subseteq DOMAIN cands /\ Standing' = S
    <3>1. Shape(cands, cands')
      <4>1. ticket \in [DOMAIN site.camps -> Tickets]
        BY <1>9 DEF Camps
      <4> QED BY <1>1, <1>2, <1>3, <4>1, AdmitKeeps
    <3> QED BY <1>2, <3>1 DEF Standing, Shape
  <2>3. \A k \in S : k \in DOMAIN cands' /\ cands'[k].st = "valid" => cands'[k] = cands[k]
    <3>1. \A k \in DOMAIN cands : cands'[k].st = "valid" => cands'[k] = cands[k]
      <4>1. ticket \in [DOMAIN site.camps -> Tickets]
        BY <1>9 DEF Camps
      <4> QED BY <1>1, <1>2, <1>3, <4>1, AdmitKeeps
    <3> QED BY <2>2, <3>1
  <2> HIDE DEF S
  <2>4. /\ Listed(d)' <=> Listed(d)
        /\ \A x, k : k \in S /\ k \in FitsEmpty(d, x)' => k \in FitsEmpty(d, x)
    BY <1>2, <2>2, <2>3, PendingShrinks
  <2>5. HeldFor(d)
    BY <1>11, <2>4 DEF Waited
  <2> SUFFICES ASSUME NEW x \in Machines \ turn.blocked, NEW k \in S, k \in FitsEmpty(d, x)' PROVE FALSE
    BY <1>2, <1>8, <2>2 DEF HeldFor, Machines
  <2>6. k \in FitsEmpty(d, x)
    BY <2>4
  <2> QED BY <2>5, <2>6 DEF HeldFor, S
<1> QED BY <1>10, <1>12

\* Only these steps are in the queue afterwards, and only a placement adds a run.
LEMMA OtherSteps ==
  ASSUME Inv, Next, ~TakeTickets, ~NothingPending, ~Admit, ~HoldMachines
  PROVE  turn'.at # "queue" /\ DOMAIN runs' \subseteq DOMAIN runs
<1>s. \A s, q : Stage(s, q).at = s
  BY DEF Stage
<1>f. Free.at = "idle"
  BY <1>s DEF Free
<1>1. CASE ManagedSteps
  <2>1. PICK c, S : c \in Camps /\ PluginSteps(c, S)
    BY <1>1 DEF ManagedSteps, create_managed_campaign, start_managed_campaign, extend_managed_campaign,
               pin_managed_dataset, stop_managed_campaign, PluginAsks
  <2>2. turn' = [Stage("plugins", <<>>) EXCEPT !.served = turn.served \cup S] /\ runs' = runs
    BY <2>1 DEF PluginSteps
  <2>3. turn'.at = "plugins"
    BY <2>2 DEF Stage
  <2> QED BY <2>2, <2>3
<1>2. CASE Clock
  <2>1. turn'.at = "pins"
    BY <1>2, <1>s, Zenon DEF Clock
  <2>2. DOMAIN runs' = DOMAIN runs
    BY <1>2 DEF Clock, StopRequests
  <2> QED BY <2>1, <2>2
<1>3. CASE PinStep \/ LLMBenchAway
  <2>1. turn.at = "pins" /\ turn' = [turn EXCEPT !.todo = Tail(@)] /\ runs' = runs /\ turn \in Turns(site)
    BY <1>3 DEF PinStep, LLMBenchAway, Inv
  <2> QED BY <2>1 DEF Turns
<1>4. CASE refresh_datasets
  BY <1>4, <1>s DEF refresh_datasets
<1>5. CASE Plan
  BY <1>5, <1>s DEF Plan
<1>6. CASE EnsureBaselines
  BY <1>6, <1>s DEF EnsureBaselines
<1>7. CASE Sweep
  BY <1>7, <1>s DEF Sweep
<1>8. CASE AdvanceRuns
  <2>1. turn' = Stage("windows", <<>>) /\ DOMAIN runs' = DOMAIN runs
    BY <1>8 DEF AdvanceRuns
  <2> QED BY <1>s, <2>1
<1>9. CASE EnforceWindows
  <2>1. turn' = Free /\ DOMAIN runs' = DOMAIN runs
    BY <1>9 DEF EnforceWindows
  <2> QED BY <1>f, <2>1
<1>10. CASE LoseTick
  <2>1. turn' = Free /\ runs' = saved[3] /\ Under
    BY <1>10 DEF LoseTick, Inv
  <2>2. /\ RowsInv(site, saved[1], saved[2], saved[3], saved[4]) /\ Len(saved[3]) <= Len(runs)
        /\ RowsInv(site, camp, cands, runs, ticket)
    BY <2>1 DEF Inv, Under
  <2>5. RowsTyped(site, saved[1], saved[2], saved[3], saved[4]) /\ RowsTyped(site, camp, cands, runs, ticket)
    BY <2>2, RowsTypedIs, Zenon
  <2>3. Len(saved[3]) \in Nat /\ DOMAIN saved[3] = 1..Len(saved[3])
    BY <2>5, Zenon DEF RowsTyped
  <2>4. Len(runs) \in Nat /\ DOMAIN runs = 1..Len(runs)
    BY <2>5, Zenon DEF RowsTyped
  <2> QED BY <1>f, <2>1, <2>2, <2>3, <2>4
<1>11. CASE TimePasses
  BY <1>11 DEF TimePasses, Idle
<1>12. CASE \E r \in DOMAIN runs : BenchmarkEnds(r)
  <2>1. Idle /\ turn' = turn
    BY <1>12 DEF BenchmarkEnds
  <2>2. DOMAIN runs' = DOMAIN runs
    <3>1. RowsInv(site, camp, cands, runs, ticket)
      BY Zenon DEF Inv
    <3>2. runs \in Seq(RunRows(site))
      BY <3>1, RowsAre
    <3> QED BY <1>12, <3>2 DEF BenchmarkEnds
  <2> QED BY <2>1, <2>2 DEF Idle
<1>13. CASE BuildEnds
  BY <1>13 DEF BuildEnds, Idle
<1>14. CASE Requests
  <2>1. Idle /\ turn' = turn
    BY <1>14 DEF Requests, create_campaign, delete_campaign, force_stop, retry_failed, set_campaign_status,
               set_schedule, force_start, collect, delete_dataset, create_dataset, Ask, Untouched
  <2>2. DOMAIN runs' = DOMAIN runs
    BY <1>14 DEF Requests, create_campaign, delete_campaign, force_stop, retry_failed, set_campaign_status,
               set_schedule, force_start, collect, delete_dataset, create_dataset
  <2> QED BY <2>1, <2>2 DEF Idle
<1> QED BY <1>1, <1>2, <1>3, <1>4, <1>5, <1>6, <1>7, <1>8, <1>9, <1>10, <1>11, <1>12, <1>13, <1>14, Zenon DEF Next

LEMMA QueueKeeps == Inv /\ QInv /\ [Next]_vars => QInv'
<1> SUFFICES ASSUME Inv, QInv, [Next]_vars, turn'.at = "queue" PROVE Sorted' /\ Waited'
  BY DEF QInv
<1>1. CASE TakeTickets
  BY <1>1, TakeKeeps
<1>2. CASE NothingPending
  <2>1. Sorted /\ Waited
    BY <1>2 DEF QInv, NothingPending, InQueue
  <2> QED BY <1>2, <2>1, NothingWaits
<1>3. CASE HoldMachines
  <2>1. Sorted /\ Waited
    BY <1>3 DEF QInv, HoldMachines, InQueue
  <2> QED BY <1>3, <2>1, HoldWaits
<1>4. CASE Admit
  <2>1. Sorted /\ Waited /\ InQueue
    BY <1>4 DEF QInv, Admit, InQueue
  <2>2. PICK c, m, i : Placement(c, m, i)
    BY <1>4, PlacementIs
  <2> QED BY <2>1, <2>2, AdmitWaits
<1>5. CASE Next /\ ~TakeTickets /\ ~NothingPending /\ ~Admit /\ ~HoldMachines
  BY <1>5, OtherSteps
<1>6. CASE UNCHANGED vars
  <2>1. UNCHANGED <<site, now, turn, saved, camp, cands, runs, ticket>>
    BY <1>6 DEF vars
  <2>2. Sorted /\ Waited
    BY <2>1 DEF QInv
  <2>3. Sorted'
    BY <2>1, <2>2 DEF Sorted, Before
  <2>4. Waited'
    BY <2>1, <2>2 DEF Waited, HeldFor, Camps, Machines, Listed, window_allows_stage, window_allows_run_of,
               is_staged, waiting_on_dataset, uses_pinning, is_pinned, Spec1, FitsEmpty, Fitting, Cards,
               Pending, Valid, Of, stage_of, config_cards, Standing
  <2> QED BY <2>3, <2>4
<1> QED BY <1>1, <1>2, <1>3, <1>4, <1>5, <1>6

\* The placement of a run takes no machine from an earlier waiter.
LEMMA NoneIsPassed ==
  ASSUME Inv, Sorted, Waited, InQueue, NEW c, NEW m, NEW i, Placement(c, m, i),
         NEW d \in Camps, d # c, Listed(d), d \notin turn.served, c \in turn.served \/ Before(ticket, d, c)
  PROVE  FitsEmpty(d, m) \cap Standing = {}
<1>1. c = NextInLine /\ c \in Camps /\ m \in Machines /\ Takes(c, m)
  BY DEF Placement
<1>2. turn.todo \in Seq(Camps) /\ turn.todo # <<>> /\ site \in Sites /\ RowsInv(site, camp, cands, runs, ticket)
  BY HeadIs, Zenon DEF Inv
<1>3. d \notin ToSet(turn.todo)
  <2> SUFFICES ASSUME d \in ToSet(turn.todo) PROVE FALSE
    OBVIOUS
  <2>1. PICK s \in Seq(Camps) : s = turn.todo
    BY <1>2
  <2>2. Len(s) \in Nat \ {0} /\ DOMAIN s = 1..Len(s) /\ 1 \in DOMAIN s /\ s[1] = c
    BY <1>1, <1>2, <2>1, TailOf DEF NextInLine
  <2>3. PICK j \in DOMAIN s : s[j] = d
    BY <2>1, TodoSet
  <2>4. 1 < j
    BY <2>2, <2>3
  <2>5. (c \in turn.served => d \in turn.served) /\ (d \notin turn.served => Before(ticket, c, d))
    BY <2>1, <2>2, <2>3, <2>4 DEF Sorted
  <2>6. Before(ticket, c, d) /\ Before(ticket, d, c)
    BY <2>5
  <2>7. ticket \in [Camps -> Tickets] /\ Len(site.camps) \in Nat /\ Camps = 1..Len(site.camps)
    BY <1>2, RowsAre, SiteFacts DEF Camps
  <2>9. ticket[c] \in Tickets /\ ticket[d] \in Tickets
    BY <1>1, <2>7, Zenon
  <2>10. ticket[c].arrival \in Int /\ ticket[d].arrival \in Int
    BY <2>9 DEF Tickets
  <2>11. c \in Int /\ d \in Int
    BY <1>1, <2>7
  <2>8. PICK a \in Int, b \in Int, x \in Int, y \in Int :
          a = ticket[c].arrival /\ b = ticket[d].arrival /\ x = c /\ y = d
    BY <2>10, <2>11, Zenon
  <2> QED BY <2>6, <2>8 DEF Before
<1>4. HeldFor(d)
  BY <1>3 DEF Waited
<1> QED BY <1>1, <1>4 DEF HeldFor, Takes

\* A waiter never sees a later one take a machine it could have used (_schedule,
\* the held machines): for every number of campaigns and machines, and whatever
\* the tickets.
THEOREM NeverOvertaken == Spec => NotOvertaken
<1>1. Init => QInv
  BY DEF Init, QInv, Free, Stage
<1>2. ASSUME Inv, QInv, [Next]_vars
      PROVE  [\A r \in DOMAIN runs' \ DOMAIN runs : \A d \in Camps :
               LET c == cands[runs'[r].cand].camp
               IN  d # c /\ Listed(d) /\ d \notin turn.served
                   /\ (c \in turn.served \/ Before(ticket, d, c))
                   => FitsEmpty(d, runs'[r].machine) \cap Standing = {}]_vars
  <2> SUFFICES ASSUME Next, NEW r \in DOMAIN runs' \ DOMAIN runs, NEW d \in Camps,
                      d # cands[runs'[r].cand].camp, Listed(d), d \notin turn.served,
                      cands[runs'[r].cand].camp \in turn.served \/ Before(ticket, d, cands[runs'[r].cand].camp)
      PROVE  FitsEmpty(d, runs'[r].machine) \cap Standing = {}
    BY <1>2
  <2>1. Admit
    <3>1. TakeTickets \/ NothingPending \/ HoldMachines => runs' = runs
      BY DEF TakeTickets, NothingPending, HoldMachines
    <3> QED BY <1>2, <3>1, OtherSteps
  <2>2. PICK c, m, i : Placement(c, m, i)
    BY <1>2, <2>1, PlacementIs
  <2>3. InQueue /\ Sorted /\ Waited
    BY <1>2, <2>1 DEF Admit, InQueue, QInv
  <2>4. runs'[r].cand = i /\ runs'[r].machine = m /\ cands[i].camp = c
    <3>1. /\ site \in Sites /\ now \in Nat /\ RowsInv(site, camp, cands, runs, ticket)
          /\ c \in Camps /\ m \in Machines /\ i \in Pending(c) /\ create_run(c, m, i) /\ camp[c].st = "active"
      BY <1>2, <2>2, <2>3, HeadIs DEF Inv, Placement
    <3>2. ticket \in [DOMAIN site.camps -> Tickets]
      BY <3>1, RowsAre, Zenon
    <3>3. \A x \in DOMAIN runs' : x \notin DOMAIN runs => runs'[x].cand = i /\ runs'[x].machine = m
      BY <3>1, <3>2, AdmitKeeps
    <3>4. cands[i].camp = c
      BY <3>1, PendingIs
    <3> QED BY <3>3, <3>4
  <2> QED BY <1>2, <2>2, <2>3, <2>4, NoneIsPassed
<1>3. Inv /\ QInv /\ [Next]_vars => QInv'
  BY QueueKeeps
<1> QED BY <1>1, <1>2, <1>3, InvHolds, PTL DEF Spec, NotOvertaken
=============================================================================
