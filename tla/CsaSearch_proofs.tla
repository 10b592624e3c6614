-------------------------- MODULE CsaSearch_proofs --------------------------
(***************************************************************************)
(* The connection scan finds the best labels, and the reconstruction the   *)
(* earliest journeys for them, whatever the timetable, the query and the   *)
(* limits, if no trip is under way for a day or more.                      *)
(***************************************************************************)
EXTENDS CsaSearch, FiniteSetTheorems, WellFoundedInduction, TLAPS

(* Every set of numbers has a least element, every finite one a greatest.  *)
LEMMA GreatestOfFinite ==
  ASSUME NEW S \in SUBSET Int, IsFiniteSet(S), S # {}
  PROVE  \E x \in S : \A y \in S : y <= x
<1> DEFINE bad == {A \in SUBSET S : A # {} /\ ~\E x \in A : \A y \in A : y <= x}
<1>1. SUFFICES bad = {}
  <2>1. S \in SUBSET S
    OBVIOUS
  <2> QED BY <1>1, <2>1
<1>2. SUFFICES ASSUME bad # {} PROVE FALSE
  OBVIOUS
<1>3. PICK A \in bad : \A B \in bad : ~(<<B, A>> \in StrictSubsetOrdering(S))
  <2>1. bad \subseteq FiniteSubsetsOf(S)
    BY FS_Subset DEF FiniteSubsetsOf
  <2> QED BY <1>2, <2>1, FS_StrictSubsetOrderingWellFounded, WFMin
<1>4. PICK a \in A : TRUE
  BY <1>3
<1>5. A \ {a} \notin bad
  BY <1>3, <1>4 DEF StrictSubsetOrdering
<1>6. CASE A = {a}
  BY <1>3, <1>6
<1>7. CASE A # {a}
  <2>1. PICK b \in A \ {a} : \A y \in A \ {a} : y <= b
    BY <1>3, <1>4, <1>5, <1>7
  <2>2. \A y \in A : y <= (IF a >= b THEN a ELSE b)
    BY <1>3, <1>4, <2>1
  <2>3. (IF a >= b THEN a ELSE b) \in A
    BY <1>4, <2>1
  <2> QED BY <1>3, <2>2, <2>3
<1> QED BY <1>6, <1>7

LEMMA Least ==
  ASSUME NEW S \in SUBSET Nat, S # {}
  PROVE  \E x \in S : \A y \in S : x <= y
<1>1. PICK z \in S : TRUE
  OBVIOUS
<1> DEFINE T == {y \in S : y <= z}
           N == {-y : y \in T}
<1>2. T \subseteq 0..z /\ z \in T
  <2>1. z \in Nat
    BY <1>1
  <2>2. ASSUME NEW y \in T PROVE y \in 0..z
    <3>1. y \in Nat /\ y <= z
      OBVIOUS
    <3> QED BY <2>1, <3>1
  <2>3. z \in T
    BY <2>1
  <2> HIDE DEF T, N
  <2> QED BY <2>2, <2>3
<1>3. IsFiniteSet(T)
  <2>1. z \in Int /\ 0 \in Int
    BY <1>1
  <2>2. IsFiniteSet(0..z)
    BY <2>1, FS_Interval
  <2> QED BY <1>2, <2>2, FS_Subset
<1>4. N \in SUBSET Int /\ N # {} /\ IsFiniteSet(N)
  <2>1. N \in SUBSET Int /\ N # {}
    BY <1>2
  <2> DEFINE f == [y \in T |-> -y]
  <2>2. f \in Surjection(T, N)
    BY DEF Surjection
  <2> HIDE DEF f, N, T
  <2> QED BY <1>3, <2>1, <2>2, FS_Surjection
<1>5. PICK m \in N : \A y \in N : y <= m
  <2> HIDE DEF N
  <2> QED BY <1>4, GreatestOfFinite
<1>6. PICK x \in T : m = -x
  OBVIOUS
<1>7. \A y \in T : x <= y
  <2> TAKE y \in T
  <2>1. -y <= -x /\ x \in Nat /\ y \in Nat
    BY <1>5, <1>6
  <2> QED BY <2>1
<1>8. \A y \in S : x <= y
  <2> TAKE y \in S
  <2>1. CASE y \in T
    BY <1>7, <2>1
  <2>2. CASE y \notin T
    <3>1. y > z /\ x <= z /\ x \in Nat /\ y \in Nat /\ z \in Nat
      BY <1>1, <1>2, <2>2
    <3> QED BY <3>1
  <2> QED BY <2>1, <2>2
<1> QED BY <1>8

LEMMA MinIs ==
  ASSUME NEW S \in SUBSET Nat, S # {}
  PROVE  Min(S) \in S /\ \A y \in S : Min(S) <= y
<1>1. \E x \in S : \A y \in S : x <= y
  BY Least
<1>2. Min(S) = CHOOSE x \in S : \A y \in S : x <= y
  BY DEF Min
<1> QED BY <1>1, <1>2

-----------------------------------------------------------------------------
(* Days and minutes.                                                       *)
LEMMA AtIs ==
  ASSUME NEW d \in Int, NEW m \in Int
  PROVE  /\ At(d, m) \in Int
         /\ d \in Nat /\ m \in Nat => At(d, m) \in Nat
         /\ \A n \in Int : At(d, m) - At(d, n) = m - n
         /\ \A e \in Int : At(d + e, m) = At(d, At(e, m))
         /\ \A e \in Int : d < e => At(d, m) + DayLen <= At(e, m)
<1>1. DayLen \in Nat \ {0}
  BY TimetableAssumption
<1>2. At(d, m) \in Int /\ (d \in Nat /\ m \in Nat => At(d, m) \in Nat)
  BY <1>1 DEF At
<1>3. \A n \in Int : At(d, m) - At(d, n) = m - n
  <2>1. d * DayLen \in Int
    BY <1>1
  <2> QED BY <2>1 DEF At
<1>4. \A e \in Int : At(d + e, m) = At(d, At(e, m))
  <2> TAKE e \in Int
  <2>1. (d + e) * DayLen = d * DayLen + e * DayLen
    BY <1>1
  <2>2. d * DayLen \in Int /\ e * DayLen \in Int
    BY <1>1
  <2> QED BY <2>1, <2>2 DEF At
<1>5. \A e \in Int : d < e => At(d, m) + DayLen <= At(e, m)
  <2> SUFFICES ASSUME NEW e \in Int, d < e PROVE At(d, m) + DayLen <= At(e, m)
    OBVIOUS
  <2>1. d * DayLen + DayLen <= e * DayLen
    BY <1>1
  <2>2. d * DayLen \in Int /\ e * DayLen \in Int
    BY <1>1
  <2> QED BY <1>1, <2>1, <2>2 DEF At
<1> QED BY <1>2, <1>3, <1>4, <1>5

LEMMA DayAndMinute ==
  ASSUME NEW t \in Nat
  PROVE  /\ DayIdx(t) \in Nat /\ Mam(t) \in 0..DayLen - 1
         /\ At(DayIdx(t), Mam(t)) = t
<1>1. DayLen \in Nat \ {0}
  BY TimetableAssumption
<1>2. t \div DayLen \in Nat /\ t % DayLen \in 0..DayLen - 1
      /\ t = DayLen * (t \div DayLen) + (t % DayLen)
  BY <1>1
<1> DEFINE q == t \div DayLen
<1>3. DayLen * q = q * DayLen
  BY <1>1, <1>2
<1> QED BY <1>2, <1>3 DEF At, DayIdx, Mam

-----------------------------------------------------------------------------
(* The section j of a trip on one of its days.                             *)
LEMMA SectionIs ==
  ASSUME NEW trips, NEW t, IsTrip(trips[t]), NEW j \in DOMAIN trips[t].dep,
         NEW c, c = SectionConnection(trips, t, j)
  PROVE  /\ c.trip = t /\ c.idx = j
         /\ c.from = trips[t].stops[j] /\ c.from \in Station
         /\ c.to = trips[t].stops[j + 1] /\ c.to \in Station
         /\ c.dep \in 0..DayLen - 1 /\ c.arr \in Nat /\ c.offset \in Nat
         /\ c.in = trips[t].in[j] /\ c.out = trips[t].out[j]
         /\ c.in \in BOOLEAN /\ c.out \in BOOLEAN
         /\ c.days = {d + c.offset : d \in trips[t].days}
         /\ c.offset = DayIdx(trips[t].dep[j])
         /\ \A d \in Int : /\ At(d + c.offset, c.dep) = At(d, trips[t].dep[j])
                           /\ At(d + c.offset, c.arr) = At(d, trips[t].arr[j])
<1> DEFINE p == trips[t]
           n == Len(p.dep)
           off == DayIdx(p.dep[j])
<1>1. /\ n \in Nat \ {0} /\ DOMAIN p.dep = 1..n /\ j \in 1..n /\ j + 1 \in 1..n + 1
      /\ p.dep[j] \in Nat /\ p.arr[j] \in Nat /\ p.dep[j] <= p.arr[j]
      /\ p.in[j] \in BOOLEAN /\ p.out[j] \in BOOLEAN
      /\ p.stops[j] \in Station /\ p.stops[j + 1] \in Station
  <2>1. /\ n \in Nat \ {0} /\ p.dep \in [1..n -> Nat] /\ p.arr \in [1..n -> Nat]
        /\ p.in \in [1..n -> BOOLEAN] /\ p.out \in [1..n -> BOOLEAN]
        /\ p.stops \in [1..n + 1 -> Station]
        /\ \A i \in 1..n : p.dep[i] <= p.arr[i]
    BY DEF IsTrip
  <2>2. j \in DOMAIN p.dep
    OBVIOUS
  <2> HIDE DEF p, n
  <2>3. DOMAIN p.dep = 1..n
    BY <2>1
  <2>4. j \in 1..n /\ j + 1 \in 1..n + 1
    BY <2>1, <2>2, <2>3
  <2> QED BY <2>1, <2>3, <2>4
<1>2. /\ c.trip = t /\ c.idx = j /\ c.from = p.stops[j] /\ c.to = p.stops[j + 1]
      /\ c.dep = Mam(p.dep[j]) /\ c.arr = Mam(p.dep[j]) + p.arr[j] - p.dep[j]
      /\ c.days = {d + off : d \in {e \in p.days : off <= e}}
      /\ c.offset = off /\ c.in = p.in[j] /\ c.out = p.out[j]
  BY DEF SectionConnection
<1>3. off \in Nat /\ Mam(p.dep[j]) \in 0..DayLen - 1 /\ At(off, Mam(p.dep[j])) = p.dep[j]
  BY <1>1, DayAndMinute
<1>4. {e \in p.days : off <= e} = p.days
  BY <1>1 DEF IsTrip
<1>5. DayLen \in Nat \ {0}
  BY TimetableAssumption
<1> HIDE DEF off, n
<1>6. c.dep \in 0..DayLen - 1 /\ c.arr \in Nat /\ c.dep \in Int /\ c.arr \in Int /\ off \in Int
  BY <1>1, <1>2, <1>3, <1>5
<1>7. At(off, c.arr) = p.arr[j]
  <2>1. At(off, c.arr) - At(off, c.dep) = c.arr - c.dep
    BY <1>3, <1>5, <1>6, AtIs
  <2>2. At(off, c.arr) \in Int /\ At(off, c.dep) \in Int
    BY <1>3, <1>5, <1>6, AtIs
  <2>3. At(off, c.dep) = p.dep[j] /\ c.arr - c.dep = p.arr[j] - p.dep[j]
    BY <1>1, <1>2, <1>3, <1>6
  <2>4. p.arr[j] \in Nat /\ p.dep[j] \in Nat
    BY <1>1
  <2> HIDE DEF p
  <2> QED BY <2>1, <2>2, <2>3, <2>4
<1>8. ASSUME NEW d \in Int
      PROVE  At(d + off, c.dep) = At(d, p.dep[j]) /\ At(d + off, c.arr) = At(d, p.arr[j])
  <2>1. At(d + off, c.dep) = At(d, At(off, c.dep))
    BY <1>3, <1>5, <1>6, AtIs
  <2>2. At(d + off, c.arr) = At(d, At(off, c.arr))
    BY <1>3, <1>5, <1>6, AtIs
  <2> QED BY <1>2, <1>3, <1>7, <2>1, <2>2
<1> QED BY <1>1, <1>2, <1>3, <1>4, <1>6, <1>8 DEF p, off

-----------------------------------------------------------------------------
(* Sorting: a finite set with a total order has a last element, and can be *)
(* put into order.                                                         *)
Ordered(S) ==
  /\ \A x, y \in S : x = y \/ ScanOrder(x, y) \/ ScanOrder(y, x)
  /\ \A x, y, z \in S : ScanOrder(x, y) /\ ScanOrder(y, z) => ScanOrder(x, z)
  /\ \A x \in S : ~ScanOrder(x, x)

InOrder(f) == \A i, j \in DOMAIN f : i < j => ScanOrder(f[i], f[j])

LEMMA OrderedHasLast ==
  ASSUME NEW S, IsFiniteSet(S), S # {}, Ordered(S)
  PROVE  \E x \in S : \A y \in S : y = x \/ ScanOrder(y, x)
<1> DEFINE bad == {A \in SUBSET S : A # {} /\ ~\E x \in A : \A y \in A : y = x \/ ScanOrder(y, x)}
<1>1. SUFFICES bad = {}
  <2>1. S \in SUBSET S
    OBVIOUS
  <2> QED BY <1>1, <2>1
<1>2. SUFFICES ASSUME bad # {} PROVE FALSE
  OBVIOUS
<1>3. PICK A \in bad : \A B \in bad : ~(<<B, A>> \in StrictSubsetOrdering(S))
  <2>1. bad \subseteq FiniteSubsetsOf(S)
    BY FS_Subset DEF FiniteSubsetsOf
  <2> QED BY <1>2, <2>1, FS_StrictSubsetOrderingWellFounded, WFMin
<1>4. PICK a \in A : TRUE
  BY <1>3
<1>5. A \ {a} \notin bad
  BY <1>3, <1>4 DEF StrictSubsetOrdering
<1>6. CASE A = {a}
  BY <1>3, <1>6
<1>7. CASE A # {a}
  <2>1. PICK b \in A \ {a} : \A y \in A \ {a} : y = b \/ ScanOrder(y, b)
    BY <1>3, <1>4, <1>5, <1>7
  <2>2. a \in S /\ b \in S /\ a # b /\ A \subseteq S
    BY <1>3, <1>4, <2>1
  <2>3. CASE ScanOrder(a, b)
    <3>1. \A y \in A : y = b \/ ScanOrder(y, b)
      BY <2>1, <2>3
    <3> QED BY <1>3, <2>1, <3>1
  <2>4. CASE ScanOrder(b, a)
    <3>1. \A y \in A : y = a \/ ScanOrder(y, a)
      BY <2>1, <2>2, <2>4 DEF Ordered
    <3> QED BY <1>3, <1>4, <3>1
  <2> QED BY <2>2, <2>3, <2>4 DEF Ordered
<1> QED BY <1>6, <1>7

LEMMA OrderExists ==
  ASSUME NEW S, IsFiniteSet(S), Ordered(S)
  PROVE  \E f \in [1..Cardinality(S) -> S] : InOrder(f)
<1> DEFINE Good(A) == \E f \in [1..Cardinality(A) -> A] : InOrder(f)
           bad == {A \in SUBSET S : ~Good(A)}
<1>1. SUFFICES bad = {}
  <2>1. S \in SUBSET S
    OBVIOUS
  <2> QED BY <1>1, <2>1
<1>2. SUFFICES ASSUME bad # {} PROVE FALSE
  OBVIOUS
<1>3. PICK A \in bad : \A B \in bad : ~(<<B, A>> \in StrictSubsetOrdering(S))
  <2>1. bad \subseteq FiniteSubsetsOf(S)
    BY FS_Subset DEF FiniteSubsetsOf
  <2> HIDE DEF bad
  <2> QED BY <1>2, <2>1, FS_StrictSubsetOrderingWellFounded, WFMin
<1>4. A \subseteq S /\ ~Good(A) /\ IsFiniteSet(A)
  BY <1>3, FS_Subset
<1>5. A # {}
  <2> SUFFICES ASSUME A = {} PROVE Good(A)
    BY <1>4
  <2>1. Cardinality(A) = 0
    BY FS_EmptySet
  <2> DEFINE f == [i \in 1..0 |-> 0]
  <2>2. f \in [1..0 -> A] /\ DOMAIN f = {}
    OBVIOUS
  <2>3. InOrder(f)
    BY <2>2 DEF InOrder
  <2> QED BY <2>1, <2>2, <2>3
<1>6. PICK m \in A : \A y \in A : y = m \/ ScanOrder(y, m)
  <2>1. Ordered(A)
    BY <1>4 DEF Ordered
  <2> QED BY <1>4, <1>5, <2>1, OrderedHasLast
<1> DEFINE B == A \ {m}
           n == Cardinality(A)
<1>7. Cardinality(B) = n - 1 /\ n \in Nat \ {0} /\ Cardinality(B) \in Nat
  <2>1. Cardinality(B) = n - 1 /\ IsFiniteSet(B)
    BY <1>4, <1>6, FS_RemoveElement
  <2>2. n \in Nat /\ n # 0
    BY <1>4, <1>5, FS_EmptySet, FS_CardinalityType
  <2>3. Cardinality(B) \in Nat
    BY <2>1, FS_CardinalityType
  <2> QED BY <2>1, <2>2, <2>3
<1>8. Good(B)
  <2>1. B \in SUBSET S /\ <<B, A>> \in StrictSubsetOrdering(S)
    BY <1>4, <1>6 DEF StrictSubsetOrdering
  <2> QED BY <1>3, <2>1
<1> HIDE DEF n
<1>9. PICK f \in [1..n - 1 -> B] : InOrder(f)
  BY <1>7, <1>8
<1> DEFINE g == [i \in 1..n |-> IF i = n THEN m ELSE f[i]]
<1>10. \A i \in 1..n : i # n => i \in 1..n - 1 /\ f[i] \in B
  BY <1>7, <1>9
<1>11. g \in [1..n -> A]
  BY <1>6, <1>10
<1>12. ASSUME NEW i \in 1..n, NEW j \in 1..n, i < j
       PROVE  ScanOrder(g[i], g[j])
  <2>1. i # n /\ i \in 1..n - 1
    BY <1>7, <1>12
  <2>2. CASE j = n
    BY <1>6, <1>10, <2>1, <2>2
  <2>3. CASE j # n
    BY <1>9, <1>10, <1>12, <2>1, <2>3 DEF InOrder
  <2> QED BY <2>2, <2>3
<1>13. InOrder(g)
  <2>1. DOMAIN g = 1..n
    OBVIOUS
  <2> HIDE DEF g
  <2> QED BY <1>12, <2>1 DEF InOrder
<1> QED BY <1>4, <1>11, <1>13 DEF n

(* What comes out holds every element.                                     *)
LEMMA InOrderIsAll ==
  ASSUME NEW S, IsFiniteSet(S), Ordered(S),
         NEW f \in [1..Cardinality(S) -> S], InOrder(f)
  PROVE  \A x \in S : \E i \in 1..Cardinality(S) : f[i] = x
<1> DEFINE n == Cardinality(S)
<1>1. n \in Nat
  BY FS_CardinalityType
<1>2. IsFiniteSet(1..n) /\ Cardinality(1..n) = n
  <2>1. 1 \in Int /\ n \in Int
    BY <1>1
  <2>2. Cardinality(1..n) = IF 1 > n THEN 0 ELSE n - 1 + 1
    BY <2>1, FS_Interval
  <2> QED BY <1>1, <2>1, <2>2, FS_Interval
<1> HIDE DEF n
<1>3. \A i, j \in 1..n : f[i] = f[j] => i = j
  <2> SUFFICES ASSUME NEW i \in 1..n, NEW j \in 1..n, f[i] = f[j], i # j PROVE FALSE
    OBVIOUS
  <2>1. DOMAIN f = 1..n /\ f[i] \in S
    BY DEF n
  <2>2. i < j \/ j < i
    BY <1>1
  <2>3. ScanOrder(f[i], f[i])
    BY <2>1, <2>2 DEF InOrder
  <2> QED BY <2>1, <2>3 DEF Ordered
<1>4. f \in Injection(1..n, S)
  BY <1>3 DEF Injection, IsInjective, n
<1>5. f \in Surjection(1..n, S)
  BY <1>2, <1>4, FS_Injection DEF n
<1> QED BY <1>5 DEF Surjection, n
-----------------------------------------------------------------------------
(* The loader's closure of the walks: a recursion over the stations that   *)
(* has a solution, and whose last matrix obeys the triangle inequality.    *)
NextMatrix(m, k) ==
  [a \in Station |-> [b \in Station |-> Min({m[a][b], m[a][k] + m[k][b], Never})]]

IsVia(via, walk, n) ==
  /\ DOMAIN via = 0..n
  /\ via[0] = walk
  /\ \A k \in 1..n : via[k] = NextMatrix(via[k - 1], k)

LEMMA NeverIs == Never \in Nat /\ NStations \in Nat \ {0} /\ DayLen \in Nat \ {0}
BY TimetableAssumption DEF Never

LEMMA ViaExists ==
  ASSUME NEW walk, NEW n \in Nat
  PROVE  \E via : IsVia(via, walk, n)
<1> DEFINE bad == {m \in Nat : ~\E via : IsVia(via, walk, m)}
<1>1. SUFFICES ASSUME bad # {} PROVE FALSE
  OBVIOUS
<1>2. PICK m \in bad : \A y \in bad : m <= y
  <2>1. bad \in SUBSET Nat
    OBVIOUS
  <2> HIDE DEF bad
  <2> QED BY <1>1, <2>1, Least
<1>3. m \in Nat /\ ~\E via : IsVia(via, walk, m)
  OBVIOUS
<1>4. m # 0
  <2> SUFFICES ASSUME m = 0 PROVE IsVia([k \in {0} |-> walk], walk, m)
    BY <1>3
  <2>1. 0..m = {0} /\ 1..m = {}
    OBVIOUS
  <2> QED BY <2>1 DEF IsVia
<1>5. m - 1 \in Nat /\ ~(m <= m - 1)
  BY <1>3, <1>4
<1>6. PICK via : IsVia(via, walk, m - 1)
  <2>1. m - 1 \notin bad
    BY <1>2, <1>5
  <2> QED BY <1>5, <2>1
<1> DEFINE w == [k \in 0..m |-> IF k = m THEN NextMatrix(via[m - 1], m) ELSE via[k]]
<1>7. IsVia(w, walk, m)
  <2>1. DOMAIN w = 0..m
    OBVIOUS
  <2>2. w[0] = walk
    <3>1. 0 \in 0..m /\ 0 # m
      BY <1>3, <1>4
    <3> QED BY <1>6, <3>1 DEF IsVia
  <2>3. ASSUME NEW k \in 1..m PROVE w[k] = NextMatrix(w[k - 1], k)
    <3>1. k \in 0..m /\ k - 1 \in 0..m /\ k - 1 # m /\ k \in Nat
      BY <1>3
    <3>2. w[k - 1] = via[k - 1]
      BY <3>1
    <3>3. CASE k = m
      BY <3>1, <3>2, <3>3
    <3>4. CASE k # m
      <4>1. k \in 1..m - 1
        BY <1>3, <3>1, <3>4
      <4>2. w[k] = via[k]
        BY <3>1, <3>4
      <4> QED BY <1>6, <3>2, <4>1, <4>2 DEF IsVia
    <3> QED BY <3>3, <3>4
  <2> HIDE DEF w
  <2> QED BY <2>1, <2>2, <2>3 DEF IsVia
<1> QED BY <1>3, <1>7

Matrix == [Station -> [Station -> 0..Never]]

(* No entry is more than the way round by one of the first k stations.     *)
Shortcuts(m, k) ==
  \A a, b \in Station, j \in 1..k : m[a][b] <= m[a][j] + m[j][b]

LEMMA NextMatrixIs ==
  ASSUME NEW m \in Matrix, NEW k \in Station, NEW a \in Station, NEW b \in Station
  PROVE  LET e == NextMatrix(m, k)[a][b] IN
         /\ e \in 0..Never /\ e <= m[a][b] /\ e <= m[a][k] + m[k][b]
         /\ e = m[a][b] \/ e = m[a][k] + m[k][b] \/ e = Never
<1> DEFINE S == {m[a][b], m[a][k] + m[k][b], Never}
<1>1. /\ m[a][b] \in 0..Never /\ m[a][k] \in 0..Never /\ m[k][b] \in 0..Never
      /\ Never \in Nat
  BY NeverIs DEF Matrix
<1>2. S \in SUBSET Nat /\ S # {}
  BY <1>1
<1>3. Min(S) \in S /\ \A y \in S : Min(S) <= y
  BY <1>2, MinIs
<1>4. NextMatrix(m, k)[a][b] = Min(S)
  BY DEF NextMatrix
<1>5. Min(S) <= m[a][b] /\ Min(S) <= m[a][k] + m[k][b] /\ Min(S) <= Never /\ Min(S) \in Nat
  BY <1>2, <1>3
<1>6. Min(S) = m[a][b] \/ Min(S) = m[a][k] + m[k][b] \/ Min(S) = Never
  BY <1>3
<1> HIDE DEF S
<1> QED BY <1>1, <1>4, <1>5, <1>6

LEMMA NextShortcuts ==
  ASSUME NEW m \in Matrix, NEW k \in Station, Shortcuts(m, k - 1)
  PROVE  NextMatrix(m, k) \in Matrix /\ Shortcuts(NextMatrix(m, k), k)
<1> DEFINE w == NextMatrix(m, k)
<1>1. w \in Matrix
  <2>1. \A a, b \in Station : w[a][b] \in 0..Never
    BY NextMatrixIs
  <2>2. w = [a \in Station |-> [b \in Station |-> w[a][b]]]
    BY DEF NextMatrix
  <2> HIDE DEF w
  <2> QED BY <2>1, <2>2 DEF Matrix
<1>2. k \in 1..NStations /\ NStations \in Nat /\ Station = 1..NStations /\ Never \in Nat
  BY NeverIs DEF Station
<1>3. ASSUME NEW a \in Station, NEW b \in Station, NEW j \in 1..k
      PROVE  w[a][b] <= w[a][j] + w[j][b]
  <2>1. j \in Station /\ (j # k => j \in 1..k - 1)
    BY <1>2
  <2>2. /\ w[a][b] \in 0..Never /\ w[a][b] <= m[a][b] /\ w[a][b] <= m[a][k] + m[k][b]
    BY NextMatrixIs
  <2>3. /\ w[a][j] \in 0..Never
        /\ w[a][j] = m[a][j] \/ w[a][j] = m[a][k] + m[k][j] \/ w[a][j] = Never
    BY <2>1, NextMatrixIs
  <2>4. /\ w[j][b] \in 0..Never
        /\ w[j][b] = m[j][b] \/ w[j][b] = m[j][k] + m[k][b] \/ w[j][b] = Never
    BY <2>1, NextMatrixIs
  <2>5. \A x, y \in Station : m[x][y] \in 0..Never
    BY DEF Matrix
  <2>6. /\ m[a][b] \in Nat /\ m[a][k] \in Nat /\ m[k][b] \in Nat /\ m[a][j] \in Nat
        /\ m[j][b] \in Nat /\ m[j][k] \in Nat /\ m[k][j] \in Nat /\ m[k][k] \in Nat
    <3>1. 0..Never \subseteq Nat
      BY <1>2
    <3> QED BY <2>1, <2>5, <3>1
  <2> HIDE DEF w
  <2>7. CASE j = k
    <3>1. /\ w[a][b] \in Int /\ w[a][j] \in Int /\ w[j][b] \in Int /\ w[a][b] <= Never
      BY <1>2, <2>2, <2>3, <2>4
    <3>2. m[a][k] <= w[a][j]
      BY <1>2, <2>3, <2>5, <2>6, <2>7, <3>1, SMTT(30)
    <3>3. m[k][b] <= w[j][b]
      BY <1>2, <2>4, <2>5, <2>6, <2>7, <3>1, SMTT(30)
    <3> QED BY <2>2, <2>6, <3>1, <3>2, <3>3
  <2>8. CASE j # k
    <3>1. m[a][b] <= m[a][j] + m[j][b] /\ m[a][k] <= m[a][j] + m[j][k]
          /\ m[k][b] <= m[k][j] + m[j][b]
      BY <2>1, <2>8 DEF Shortcuts
    <3>2. /\ w[a][b] \in Int /\ w[a][j] \in Int /\ w[j][b] \in Int /\ w[a][b] <= Never
          /\ Never \in Int /\ 0 <= Never
      BY <1>2, <2>2, <2>3, <2>4
    <3>3. /\ m[a][b] \in Int /\ m[a][k] \in Int /\ m[k][b] \in Int /\ m[a][j] \in Int
          /\ m[j][b] \in Int /\ m[j][k] \in Int /\ m[k][j] \in Int
          /\ 0 <= m[a][k] /\ 0 <= m[k][b] /\ 0 <= m[a][j] /\ 0 <= m[j][b]
          /\ 0 <= m[j][k] /\ 0 <= m[k][j]
      BY <2>6
    <3>4. w[a][b] <= m[a][b] /\ w[a][b] <= m[a][k] + m[k][b]
      BY <2>2
    <3>5. CASE w[a][j] = Never
      <4>1. 0 <= w[j][b]
        BY <2>4, <3>2
      <4> QED BY <3>2, <3>5, <4>1
    <3>6. CASE w[j][b] = Never
      <4>1. 0 <= w[a][j]
        BY <2>3, <3>2
      <4> QED BY <3>2, <3>6, <4>1
    <3>7. CASE w[a][j] = m[a][j] /\ w[j][b] = m[j][b]
      BY <3>1, <3>2, <3>3, <3>4, <3>7
    <3>8. CASE w[a][j] = m[a][k] + m[k][j] /\ w[j][b] = m[j][b]
      BY <3>1, <3>2, <3>3, <3>4, <3>8
    <3>9. CASE w[a][j] = m[a][j] /\ w[j][b] = m[j][k] + m[k][b]
      BY <3>1, <3>2, <3>3, <3>4, <3>9
    <3>10. CASE w[a][j] = m[a][k] + m[k][j] /\ w[j][b] = m[j][k] + m[k][b]
      BY <3>1, <3>2, <3>3, <3>4, <3>10
    <3> QED BY <2>3, <2>4, <3>5, <3>6, <3>7, <3>8, <3>9, <3>10
  <2> QED BY <2>7, <2>8
<1> QED BY <1>1, <1>3 DEF Shortcuts

LEMMA ClosedIs ==
  ASSUME NEW walk \in Matrix
  PROVE  Closed(walk) \in Matrix /\ Shortcuts(Closed(walk), NStations)
<1> DEFINE V(f) == f = [k \in 0..NStations |->
                          IF k = 0 THEN walk ELSE NextMatrix(f[k - 1], k)]
           via == CHOOSE f : V(f)
<1>1. Closed(walk) = via[NStations]
  BY DEF Closed, NextMatrix
<1>2. NStations \in Nat
  BY NeverIs
<1>3. \E f : V(f)
  <2>1. PICK f : IsVia(f, walk, NStations)
    BY <1>2, ViaExists
  <2>2. PICK g : g = [k \in 0..NStations |-> f[k]]
    OBVIOUS
  <2>3. ASSUME NEW k \in 0..NStations
        PROVE  g[k] = IF k = 0 THEN walk ELSE NextMatrix(g[k - 1], k)
    <3>1. g[k] = f[k]
      BY <2>2
    <3>2. CASE k = 0
      BY <2>1, <3>1, <3>2 DEF IsVia
    <3>3. CASE k # 0
      <4>1. k \in 1..NStations /\ k - 1 \in 0..NStations
        BY <1>2, <3>3
      <4>2. g[k - 1] = f[k - 1]
        BY <2>2, <4>1
      <4> QED BY <2>1, <3>1, <3>3, <4>1, <4>2 DEF IsVia
    <3> QED BY <3>2, <3>3
  <2>4. V(g)
    BY <2>2, <2>3
  <2> QED BY <2>4
<1>4. V(via)
  BY <1>3
<1> HIDE DEF via
<1>5. IsVia(via, walk, NStations)
  <2>1. DOMAIN via = 0..NStations
    BY <1>4
  <2>2. \A k \in 0..NStations : via[k] = IF k = 0 THEN walk ELSE NextMatrix(via[k - 1], k)
    BY <1>4
  <2> HIDE DEF V
  <2>3. 0 \in 0..NStations /\ \A k \in 1..NStations : k \in 0..NStations /\ k # 0
    BY <1>2
  <2> QED BY <2>1, <2>2, <2>3 DEF IsVia
<1> DEFINE Good(k) == via[k] \in Matrix /\ Shortcuts(via[k], k)
           bad == {k \in 0..NStations : ~Good(k)}
<1>6. SUFFICES ASSUME bad # {} PROVE FALSE
  <2>1. NStations \in 0..NStations
    BY <1>2
  <2> QED BY <1>1, <1>6, <2>1
<1>7. PICK k \in bad : \A y \in bad : k <= y
  <2>1. bad \in SUBSET Nat
    BY <1>2
  <2> HIDE DEF bad
  <2> QED BY <1>6, <2>1, Least
<1>8. k \in 0..NStations /\ ~Good(k)
  OBVIOUS
<1>9. k # 0
  <2> SUFFICES ASSUME k = 0 PROVE Good(0)
    BY <1>8
  <2>1. via[0] = walk
    BY <1>5 DEF IsVia
  <2>2. 1..0 = {}
    OBVIOUS
  <2> QED BY <2>1, <2>2 DEF Shortcuts
<1>10. k \in 1..NStations /\ k - 1 \in 0..NStations /\ ~(k <= k - 1) /\ k \in Station
  BY <1>2, <1>8, <1>9 DEF Station
<1>11. Good(k - 1)
  <2>1. k - 1 \notin bad
    BY <1>7, <1>10
  <2> HIDE DEF Good
  <2> QED BY <1>10, <2>1
<1>12. via[k] = NextMatrix(via[k - 1], k)
  BY <1>5, <1>10 DEF IsVia
<1> QED BY <1>8, <1>10, <1>11, <1>12, NextShortcuts

(* Footpaths and transfer times together obey the triangle inequality.     *)
LEMMA FootpathsAre ==
  ASSUME NEW s, IsSchedule(s), NEW foot, foot = Footpaths(s.transfer, s.walk)
  PROVE  /\ foot \in [Station -> [Station -> Nat]]
         /\ \A a, b, c \in Station : foot[a][c] <= foot[a][b] + foot[b][c]
<1>1. s.transfer \in [Station -> Nat] /\ s.walk \in Matrix
  BY DEF IsSchedule, Matrix
<1>2. \A a, b \in Station : a # b => foot[a][a] <= foot[a][b] + foot[b][a]
  BY DEF IsSchedule
<1> DEFINE m == Closed(s.walk)
<1>3. m \in Matrix /\ Shortcuts(m, NStations)
  BY <1>1, ClosedIs
<1> HIDE DEF m
<1>4. foot = [a \in Station |-> [b \in Station |-> IF a = b THEN s.transfer[a] ELSE m[a][b]]]
  BY DEF Footpaths, m
<1>5. \A a, b \in Station : m[a][b] \in Nat /\ s.transfer[a] \in Nat
  BY <1>1, <1>3, NeverIs DEF Matrix
<1>6. foot \in [Station -> [Station -> Nat]]
  BY <1>4, <1>5
<1>7. ASSUME NEW a \in Station, NEW b \in Station, NEW c \in Station
      PROVE  foot[a][c] <= foot[a][b] + foot[b][c]
  <2>1. foot[a][c] \in Nat /\ foot[a][b] \in Nat /\ foot[b][c] \in Nat
    BY <1>6
  <2>2. CASE a = b \/ b = c
    BY <2>1, <2>2
  <2>3. CASE a # b /\ a = c
    BY <1>2, <2>3
  <2>4. CASE a # b /\ b # c /\ a # c
    <3>1. m[a][c] <= m[a][b] + m[b][c]
      BY <1>3 DEF Shortcuts, Station
    <3> QED BY <1>4, <2>4, <3>1
  <2> QED BY <2>2, <2>3, <2>4
<1> QED BY <1>6, <1>7

-----------------------------------------------------------------------------
(* What the scan relies on: every section of every trip is a connection,   *)
(* and the connections are sorted.                                         *)
Section(T, t, j) == t \in DOMAIN T.trips /\ j \in DOMAIN T.trips[t].dep

IsTimetable(T) ==
  /\ \A t \in DOMAIN T.trips : t \in Nat /\ IsTrip(T.trips[t])
  /\ Len(T.cons) \in Nat \ {0} /\ DOMAIN T.cons = 1..Len(T.cons)
  /\ \A i \in DOMAIN T.cons :
       /\ Section(T, T.cons[i].trip, T.cons[i].idx)
       /\ T.cons[i] = SectionConnection(T.trips, T.cons[i].trip, T.cons[i].idx)
  /\ \A t, j : Section(T, t, j) =>
       \E i \in DOMAIN T.cons : T.cons[i].trip = t /\ T.cons[i].idx = j
  /\ InOrder(T.cons)
  /\ T.foot \in [Station -> [Station -> Nat]]
  /\ \A a, b, c \in Station : T.foot[a][c] <= T.foot[a][b] + T.foot[b][c]
  /\ \A t, j : Section(T, t, j) =>
       \A z \in Station : T.trips[t].dep[j] < T.trips[t].arr[j] + T.foot[T.trips[t].stops[j + 1]][z]
  /\ T.last \in Nat

LEMMA FiniteImage ==
  ASSUME NEW S, IsFiniteSet(S), NEW f, S \subseteq DOMAIN f
  PROVE  IsFiniteSet({f[x] : x \in S})
<1> DEFINE g == [x \in S |-> f[x]]
           I == {f[x] : x \in S}
<1>1. g \in Surjection(S, I)
  BY DEF Surjection
<1> HIDE DEF g, I
<1>2. IsFiniteSet(I)
  BY <1>1, FS_Surjection
<1> QED BY <1>2 DEF I

LEMMA FiniteInterval ==
  ASSUME NEW n \in Nat
  PROVE  IsFiniteSet(1..n)
<1>1. 1 \in Int /\ n \in Int
  OBVIOUS
<1> QED BY <1>1, FS_Interval

(* The sections of the trips of a schedule.                                *)
AllSections(trips) ==
  UNION {{SectionConnection(trips, t, i) : i \in DOMAIN trips[t].dep} : t \in DOMAIN trips}

LEMMA SectionsFinite ==
  ASSUME NEW trips, NEW n \in Nat, DOMAIN trips = 1..n,
         \A t \in DOMAIN trips : IsTrip(trips[t])
  PROVE  IsFiniteSet(AllSections(trips))
<1> DEFINE Of(t) == {SectionConnection(trips, t, i) : i \in DOMAIN trips[t].dep}
           fam == [t \in DOMAIN trips |-> Of(t)]
           Fam == {fam[t] : t \in DOMAIN trips}
<1>1. ASSUME NEW t \in DOMAIN trips PROVE IsFiniteSet(Of(t))
  <2>1. Len(trips[t].dep) \in Nat /\ DOMAIN trips[t].dep = 1..Len(trips[t].dep)
    BY DEF IsTrip
  <2>2. IsFiniteSet(DOMAIN trips[t].dep)
    BY <2>1, FiniteInterval
  <2> DEFINE f == [i \in DOMAIN trips[t].dep |-> SectionConnection(trips, t, i)]
  <2>3. DOMAIN f = DOMAIN trips[t].dep /\ Of(t) = {f[i] : i \in DOMAIN trips[t].dep}
    OBVIOUS
  <2> HIDE DEF f, Of
  <2>4. DOMAIN trips[t].dep \subseteq DOMAIN f
    BY <2>3
  <2> QED BY <2>2, <2>3, <2>4, FiniteImage
<1>2. IsFiniteSet(DOMAIN trips)
  BY FiniteInterval
<1>3. DOMAIN fam = DOMAIN trips /\ \A t \in DOMAIN trips : fam[t] = Of(t)
  OBVIOUS
<1> HIDE DEF fam, Of
<1>4. IsFiniteSet(Fam)
  <2>1. DOMAIN trips \subseteq DOMAIN fam
    BY <1>3
  <2> QED BY <1>2, <2>1, FiniteImage
<1>5. \A X \in Fam : IsFiniteSet(X)
  BY <1>1, <1>3
<1>6. AllSections(trips) = UNION Fam
  <2>1. Fam = {Of(t) : t \in DOMAIN trips}
    BY <1>3
  <2> QED BY <2>1 DEF AllSections, Of
<1> HIDE DEF Fam
<1> QED BY <1>4, <1>5, <1>6, FS_UNION

LEMMA SectionsOrdered ==
  ASSUME NEW trips, NEW n \in Nat, DOMAIN trips = 1..n,
         \A t \in DOMAIN trips : IsTrip(trips[t])
  PROVE  /\ \A c \in AllSections(trips) :
              /\ c.trip \in DOMAIN trips /\ c.idx \in DOMAIN trips[c.trip].dep
              /\ c = SectionConnection(trips, c.trip, c.idx)
         /\ Ordered(AllSections(trips))
<1>1. ASSUME NEW c \in AllSections(trips)
      PROVE  /\ c.trip \in DOMAIN trips /\ c.idx \in DOMAIN trips[c.trip].dep
             /\ c = SectionConnection(trips, c.trip, c.idx)
             /\ c.trip \in Int /\ c.idx \in Int /\ c.dep \in Int
  <2>1. PICK t \in DOMAIN trips : c \in {SectionConnection(trips, t, i) : i \in DOMAIN trips[t].dep}
    BY DEF AllSections
  <2>2. PICK i \in DOMAIN trips[t].dep : c = SectionConnection(trips, t, i)
    BY <2>1
  <2>3. IsTrip(trips[t])
    BY <2>1
  <2>4. c.trip = t /\ c.idx = i /\ c.dep \in 0..DayLen - 1
    BY <2>2, <2>3, SectionIs
  <2>5. t \in Int /\ i \in Int /\ c.dep \in Int
    <3>1. DOMAIN trips[t].dep = 1..Len(trips[t].dep) /\ Len(trips[t].dep) \in Nat
      BY <2>3 DEF IsTrip
    <3>2. i \in Int
      BY <3>1
    <3>3. c.dep \in Int
      BY <2>4, NeverIs
    <3> QED BY <3>2, <3>3
  <2> QED BY <2>2, <2>4, <2>5
<1> DEFINE S == AllSections(trips)
<1> HIDE DEF S
<1>2. \A x, y \in S : x = y \/ ScanOrder(x, y) \/ ScanOrder(y, x)
  <2> TAKE x, y \in S
  <2>1. /\ x.trip \in Int /\ x.idx \in Int /\ x.dep \in Int
        /\ y.trip \in Int /\ y.idx \in Int /\ y.dep \in Int
    BY <1>1 DEF S
  <2>2. x.trip = y.trip /\ x.idx = y.idx => x = y
    BY <1>1 DEF S
  <2> QED BY <2>1, <2>2 DEF ScanOrder
<1>3. \A x, y, z \in S : ScanOrder(x, y) /\ ScanOrder(y, z) => ScanOrder(x, z)
  <2> TAKE x, y, z \in S
  <2>1. /\ x.trip \in Int /\ x.idx \in Int /\ x.dep \in Int
        /\ y.trip \in Int /\ y.idx \in Int /\ y.dep \in Int
        /\ z.trip \in Int /\ z.idx \in Int /\ z.dep \in Int
    BY <1>1 DEF S
  <2> QED BY <2>1 DEF ScanOrder
<1>4. \A x \in S : ~ScanOrder(x, x)
  <2> TAKE x \in S
  <2>1. x.trip \in Int /\ x.idx \in Int /\ x.dep \in Int
    BY <1>1 DEF S
  <2> QED BY <2>1 DEF ScanOrder
<1> QED BY <1>1, <1>2, <1>3, <1>4 DEF Ordered, S

LEMMA ConnectionsAre ==
  ASSUME NEW trips, NEW n \in Nat \ {0}, DOMAIN trips = 1..n,
         \A t \in DOMAIN trips : IsTrip(trips[t])
  PROVE  LET cons == FwdConnections(trips) IN
         /\ Len(cons) \in Nat \ {0} /\ DOMAIN cons = 1..Len(cons)
         /\ \A i \in DOMAIN cons : cons[i] \in AllSections(trips)
         /\ \A c \in AllSections(trips) : \E i \in DOMAIN cons : cons[i] = c
         /\ InOrder(cons)
<1> DEFINE all == AllSections(trips)
           m == Cardinality(all)
           cons == FwdConnections(trips)
<1>1. IsFiniteSet(all) /\ Ordered(all)
  BY SectionsFinite, SectionsOrdered
<1>2. cons = CHOOSE f \in [1..m -> all] : InOrder(f)
  BY DEF FwdConnections, AllSections, InOrder
<1>3. all # {}
  <2>1. 1 \in DOMAIN trips
    OBVIOUS
  <2>2. 1 \in DOMAIN trips[1].dep
    BY <2>1 DEF IsTrip
  <2>3. SectionConnection(trips, 1, 1) \in {SectionConnection(trips, 1, i) : i \in DOMAIN trips[1].dep}
    BY <2>2
  <2>4. SectionConnection(trips, 1, 1) \in AllSections(trips)
    BY <2>1, <2>3 DEF AllSections
  <2> QED BY <2>4
<1>4. m \in Nat \ {0}
  BY <1>1, <1>3, FS_CardinalityType, FS_EmptySet
<1>5. \E f \in [1..m -> all] : InOrder(f)
  BY <1>1, OrderExists
<1> HIDE DEF all, cons
<1>6. cons \in [1..m -> all] /\ InOrder(cons)
  BY <1>2, <1>5
<1>7. \A x \in all : \E i \in 1..m : cons[i] = x
  BY <1>1, <1>6, InOrderIsAll
<1> HIDE DEF m
<1>8. DOMAIN cons = 1..m /\ Len(cons) = m
  <2>1. cons \in Seq(all)
    BY <1>4, <1>6
  <2>2. DOMAIN cons = 1..m
    BY <1>6
  <2>3. Len(cons) \in Nat /\ DOMAIN cons = 1..Len(cons)
    BY <2>1
  <2> QED BY <1>4, <2>2, <2>3
<1> QED BY <1>4, <1>6, <1>7, <1>8 DEF all, cons

LEMMA TripFacts ==
  ASSUME NEW p, IsTrip(p), NEW j \in DOMAIN p.dep
  PROVE  /\ Len(p.dep) \in Nat /\ j \in 1..Len(p.dep) /\ j \in Nat
         /\ p.dep[j] \in Nat /\ p.arr[j] \in Nat /\ p.dep[j] <= p.arr[j]
         /\ p.in[j] \in BOOLEAN /\ p.out[j] \in BOOLEAN
         /\ p.stops[j] \in Station /\ p.stops[j + 1] \in Station
         /\ \A d \in p.days : d \in Nat
         /\ \A i \in DOMAIN p.dep : j < i => p.arr[j] <= p.dep[i]
<1> DEFINE n == Len(p.dep)
<1>1. /\ n \in Nat /\ DOMAIN p.dep = 1..n
      /\ p.dep \in [1..n -> Nat] /\ p.arr \in [1..n -> Nat]
      /\ p.in \in [1..n -> BOOLEAN] /\ p.out \in [1..n -> BOOLEAN]
      /\ p.stops \in [1..n + 1 -> Station]
      /\ \A i \in 1..n : p.dep[i] <= p.arr[i] /\ \A k \in i + 1..n : p.arr[i] <= p.dep[k]
      /\ \A d \in p.days : d \in Nat
  BY DEF IsTrip
<1> HIDE DEF n
<1>2. j \in 1..n /\ j \in Nat /\ j + 1 \in 1..n + 1
  BY <1>1
<1>3. \A i \in DOMAIN p.dep : j < i => p.arr[j] <= p.dep[i]
  <2> SUFFICES ASSUME NEW i \in DOMAIN p.dep, j < i PROVE p.arr[j] <= p.dep[i]
    OBVIOUS
  <2>1. i \in j + 1..n
    BY <1>1, <1>2
  <2> QED BY <1>1, <1>2, <2>1
<1> QED BY <1>1, <1>2, <1>3 DEF n

LEMMA LastEventIs ==
  ASSUME NEW trips, NEW n \in Nat \ {0}, DOMAIN trips = 1..n,
         \A t \in DOMAIN trips : IsTrip(trips[t])
  PROVE  /\ LastEvent(trips) \in Nat
         /\ \A t \in DOMAIN trips : \A d \in trips[t].days : \A i \in DOMAIN trips[t].dep :
              At(d, trips[t].dep[i]) <= LastEvent(trips)
<1> DEFINE End(t, d) == At(d, trips[t].arr[Len(trips[t].arr)])
           Of(t) == {End(t, d) : d \in trips[t].days}
           ends == UNION {Of(t) : t \in DOMAIN trips}
<1>1. ASSUME NEW t \in DOMAIN trips
      PROVE  /\ trips[t].days # {} /\ IsFiniteSet(trips[t].days)
             /\ \A d \in trips[t].days : End(t, d) \in Nat
  <2>1. /\ trips[t].days # {} /\ IsFiniteSet(trips[t].days)
        /\ \A d \in trips[t].days : d \in Nat
    BY DEF IsTrip
  <2>2. trips[t].arr[Len(trips[t].arr)] \in Nat
    <3>1. Len(trips[t].dep) \in Nat \ {0} /\ trips[t].arr \in [1..Len(trips[t].dep) -> Nat]
      BY DEF IsTrip
    <3>2. trips[t].arr \in Seq(Nat) /\ Len(trips[t].arr) \in 1..Len(trips[t].dep)
      <4>1. trips[t].arr \in Seq(Nat)
        BY <3>1
      <4>2. DOMAIN trips[t].arr = 1..Len(trips[t].arr) /\ Len(trips[t].arr) \in Nat
        BY <4>1
      <4>3. DOMAIN trips[t].arr = 1..Len(trips[t].dep)
        BY <3>1
      <4> QED BY <3>1, <4>1, <4>2, <4>3
    <3> QED BY <3>1, <3>2
  <2>3. \A d \in trips[t].days : End(t, d) \in Nat
    <3> TAKE d \in trips[t].days
    <3> DEFINE m == trips[t].arr[Len(trips[t].arr)]
    <3>1. d \in Int /\ m \in Int /\ d \in Nat /\ m \in Nat
      BY <2>1, <2>2
    <3> HIDE DEF m
    <3>2. At(d, m) \in Nat
      BY <3>1, AtIs
    <3> QED BY <3>2 DEF m
  <2> QED BY <2>1, <2>3
<1>2. LastEvent(trips) = CHOOSE e \in ends : \A f \in ends : f <= e
  BY DEF LastEvent
<1> HIDE DEF End
<1>3. ASSUME NEW t \in DOMAIN trips PROVE IsFiniteSet(Of(t))
  <2> DEFINE f == [d \in trips[t].days |-> End(t, d)]
  <2>1. trips[t].days \subseteq DOMAIN f /\ Of(t) = {f[d] : d \in trips[t].days}
    OBVIOUS
  <2> HIDE DEF f, Of
  <2> QED BY <1>1, <2>1, FiniteImage
<1>4. ends \in SUBSET Nat
  BY <1>1
<1>5. ends # {}
  <2>1. 1 \in DOMAIN trips
    OBVIOUS
  <2>2. PICK d \in trips[1].days : TRUE
    BY <1>1, <2>1
  <2>3. End(1, d) \in Of(1)
    BY <2>2
  <2> HIDE DEF Of
  <2> QED BY <2>1, <2>3
<1>6. IsFiniteSet(ends)
  <2> DEFINE fam == [t \in DOMAIN trips |-> Of(t)]
             Fam == {fam[t] : t \in DOMAIN trips}
  <2>1. DOMAIN fam = DOMAIN trips /\ \A t \in DOMAIN trips : fam[t] = Of(t)
    OBVIOUS
  <2>2. IsFiniteSet(DOMAIN trips)
    BY FiniteInterval
  <2> HIDE DEF fam, Of
  <2>3. IsFiniteSet(Fam)
    <3>1. DOMAIN trips \subseteq DOMAIN fam
      BY <2>1
    <3> QED BY <2>2, <3>1, FiniteImage
  <2>4. \A X \in Fam : IsFiniteSet(X)
    BY <1>3, <2>1
  <2>5. ends = UNION Fam
    <3>1. Fam = {Of(t) : t \in DOMAIN trips}
      BY <2>1
    <3> QED BY <3>1
  <2> HIDE DEF Fam
  <2> QED BY <2>3, <2>4, <2>5, FS_UNION
<1> HIDE DEF ends
<1>7. \E e \in ends : \A f \in ends : f <= e
  <2>1. ends \in SUBSET Int
    BY <1>4
  <2> QED BY <1>5, <1>6, <2>1, GreatestOfFinite
<1>8. LastEvent(trips) \in ends /\ \A e \in ends : e <= LastEvent(trips)
  BY <1>2, <1>7
<1>9. ASSUME NEW t \in DOMAIN trips, NEW d \in trips[t].days, NEW i \in DOMAIN trips[t].dep
      PROVE  At(d, trips[t].dep[i]) <= LastEvent(trips)
  <2> DEFINE len == Len(trips[t].dep)
             dep == trips[t].dep[i]
             arr == trips[t].arr[len]
  <2>1. /\ IsTrip(trips[t]) /\ len \in Nat /\ i \in 1..len /\ len \in DOMAIN trips[t].dep
        /\ trips[t].arr \in [1..len -> Nat] /\ d \in Nat
    BY TripFacts DEF IsTrip
  <2>2. Len(trips[t].arr) = len
    <3>1. trips[t].arr \in Seq(Nat)
      BY <2>1
    <3>2. DOMAIN trips[t].arr = 1..len /\ DOMAIN trips[t].arr = 1..Len(trips[t].arr)
          /\ Len(trips[t].arr) \in Nat
      BY <2>1, <3>1
    <3> HIDE DEF len
    <3> QED BY <2>1, <3>2
  <2>3. dep \in Nat /\ arr \in Nat /\ dep <= arr
    <3>1. dep \in Nat /\ trips[t].arr[i] \in Nat /\ dep <= trips[t].arr[i]
      BY <2>1, TripFacts
    <3>2. arr \in Nat /\ trips[t].dep[len] \in Nat /\ trips[t].dep[len] <= arr
      BY <2>1, TripFacts
    <3>3. i < len => trips[t].arr[i] <= trips[t].dep[len]
      BY <2>1, TripFacts
    <3>4. i = len \/ i < len
      BY <2>1
    <3> HIDE DEF dep, arr
    <3>5. CASE i = len
      BY <3>1, <3>2, <3>5 DEF dep
    <3>6. CASE i < len
      BY <3>1, <3>2, <3>3, <3>6
    <3> QED BY <3>4, <3>5, <3>6, <3>1, <3>2
  <2>4. At(d, arr) \in ends
    <3>1. End(t, d) \in Of(t)
      OBVIOUS
    <3>2. At(d, arr) = End(t, d)
      BY <2>2 DEF End
    <3> QED BY <3>1, <3>2 DEF ends
  <2> HIDE DEF dep, arr
  <2>5. At(d, dep) \in Int /\ At(d, arr) \in Int /\ At(d, dep) - At(d, arr) = dep - arr
    <3>1. d \in Int /\ dep \in Int /\ arr \in Int
      BY <2>1, <2>3
    <3> QED BY <3>1, AtIs
  <2>6. LastEvent(trips) \in Int /\ At(d, arr) <= LastEvent(trips)
    <3>1. LastEvent(trips) \in Nat
      BY <1>4, <1>8
    <3>2. At(d, arr) <= LastEvent(trips)
      BY <1>8, <2>4
    <3> QED BY <3>1, <3>2
  <2>7. At(d, dep) <= LastEvent(trips)
    <3>1. At(d, dep) <= At(d, arr)
      BY <2>3, <2>5
    <3> QED BY <2>5, <2>6, <3>1
  <2> QED BY <2>7 DEF dep
<1> QED BY <1>4, <1>8, <1>9

LEMMA TimetableIs ==
  ASSUME NEW s, IsSchedule(s)
  PROVE  /\ IsTimetable(BuildTimetable(s))
         /\ BuildTimetable(s).trips = s.trips
<1> DEFINE T == BuildTimetable(s)
<1>1. /\ T.trips = s.trips /\ T.cons = FwdConnections(s.trips)
      /\ T.foot = Footpaths(s.transfer, s.walk) /\ T.last = LastEvent(s.trips)
  BY DEF BuildTimetable
<1> HIDE DEF T
<1>2. IsSchedule(s)
  OBVIOUS
<1>3. /\ Len(s.trips) \in Nat \ {0} /\ DOMAIN s.trips = 1..Len(s.trips)
      /\ \A t \in DOMAIN s.trips : IsTrip(s.trips[t])
  BY <1>2 DEF IsSchedule
<1>4. \A t \in DOMAIN T.trips : t \in Nat /\ IsTrip(T.trips[t])
  BY <1>1, <1>3
<1>5. /\ Len(T.cons) \in Nat \ {0} /\ DOMAIN T.cons = 1..Len(T.cons)
      /\ \A i \in DOMAIN T.cons : T.cons[i] \in AllSections(s.trips)
      /\ \A c \in AllSections(s.trips) : \E i \in DOMAIN T.cons : T.cons[i] = c
      /\ InOrder(T.cons)
  BY <1>1, <1>3, ConnectionsAre
<1>6. \A i \in DOMAIN T.cons :
         /\ Section(T, T.cons[i].trip, T.cons[i].idx)
         /\ T.cons[i] = SectionConnection(T.trips, T.cons[i].trip, T.cons[i].idx)
  BY <1>1, <1>3, <1>5, SectionsOrdered DEF Section
<1>7. ASSUME NEW t, NEW j, Section(T, t, j)
      PROVE  \E i \in DOMAIN T.cons : T.cons[i].trip = t /\ T.cons[i].idx = j
  <2> DEFINE c == SectionConnection(s.trips, t, j)
  <2>1. t \in DOMAIN s.trips /\ j \in DOMAIN s.trips[t].dep
    BY <1>1, <1>7 DEF Section
  <2>2. c \in AllSections(s.trips)
    BY <2>1 DEF AllSections
  <2>3. c.trip = t /\ c.idx = j
    BY DEF SectionConnection
  <2> HIDE DEF c
  <2> QED BY <1>5, <2>2, <2>3
<1>8. /\ T.foot \in [Station -> [Station -> Nat]]
      /\ \A a, b, c \in Station : T.foot[a][c] <= T.foot[a][b] + T.foot[b][c]
  BY <1>1, <1>2, FootpathsAre
<1>9. ASSUME NEW t, NEW j, Section(T, t, j), NEW z \in Station
      PROVE  T.trips[t].dep[j] < T.trips[t].arr[j] + T.foot[T.trips[t].stops[j + 1]][z]
  BY <1>1, <1>2, <1>9 DEF IsSchedule, Section
<1>10. T.last \in Nat
  BY <1>1, <1>3, LastEventIs
<1> QED BY <1>1, <1>4, <1>5, <1>6, <1>7, <1>8, <1>9, <1>10 DEF IsTimetable, T

-----------------------------------------------------------------------------
(* The train of trip t that sets out on day d, and its section j.          *)
Runs(T, t, d, j)  == Section(T, t, j) /\ d \in T.trips[t].days
DepOf(T, t, d, j) == At(d, T.trips[t].dep[j])
ArrOf(T, t, d, j) == At(d, T.trips[t].arr[j])
BoardAt(T, t, j)  == T.trips[t].stops[j]
LeaveAt(T, t, j)  == T.trips[t].stops[j + 1]

LEMMA SectionFacts ==
  ASSUME NEW T, IsTimetable(T), NEW t, NEW d, NEW j, Runs(T, t, d, j)
  PROVE  /\ t \in Nat /\ d \in Nat /\ j \in Nat /\ IsTrip(T.trips[t])
         /\ DepOf(T, t, d, j) \in Nat /\ ArrOf(T, t, d, j) \in Nat
         /\ BoardAt(T, t, j) \in Station /\ LeaveAt(T, t, j) \in Station
         /\ T.trips[t].in[j] \in BOOLEAN /\ T.trips[t].out[j] \in BOOLEAN
         /\ \A z \in Station : /\ T.foot[LeaveAt(T, t, j)][z] \in Nat
                               /\ DepOf(T, t, d, j) < ArrOf(T, t, d, j) + T.foot[LeaveAt(T, t, j)][z]
<1> DEFINE dep == T.trips[t].dep[j]
           arr == T.trips[t].arr[j]
<1>1. t \in DOMAIN T.trips /\ j \in DOMAIN T.trips[t].dep /\ d \in T.trips[t].days
  BY DEF Runs, Section
<1>2. t \in Nat /\ IsTrip(T.trips[t])
  BY <1>1 DEF IsTimetable
<1>3. /\ dep \in Nat /\ arr \in Nat /\ d \in Nat /\ j \in Nat
      /\ T.trips[t].in[j] \in BOOLEAN /\ T.trips[t].out[j] \in BOOLEAN
      /\ BoardAt(T, t, j) \in Station /\ LeaveAt(T, t, j) \in Station
  BY <1>1, <1>2, TripFacts DEF BoardAt, LeaveAt
<1>4. \A z \in Station : dep < arr + T.foot[LeaveAt(T, t, j)][z]
  <2>1. Section(T, t, j)
    BY DEF Runs
  <2> QED BY <2>1 DEF LeaveAt, IsTimetable
<1>5. \A y, z \in Station : T.foot[y][z] \in Nat
  <2>1. T.foot \in [Station -> [Station -> Nat]]
    BY DEF IsTimetable
  <2> QED BY <2>1
<1> HIDE DEF dep, arr
<1>6. /\ At(d, dep) \in Nat /\ At(d, arr) \in Nat
      /\ At(d, arr) - At(d, dep) = arr - dep
  <2>1. d \in Int /\ dep \in Int /\ arr \in Int
    BY <1>3
  <2> QED BY <1>3, <2>1, AtIs
<1>7. DepOf(T, t, d, j) = At(d, dep) /\ ArrOf(T, t, d, j) = At(d, arr)
  BY DEF DepOf, ArrOf, dep, arr
<1>8. ASSUME NEW z \in Station
      PROVE  /\ T.foot[LeaveAt(T, t, j)][z] \in Nat
             /\ DepOf(T, t, d, j) < ArrOf(T, t, d, j) + T.foot[LeaveAt(T, t, j)][z]
  <2>1. T.foot[LeaveAt(T, t, j)][z] \in Nat
    BY <1>3, <1>5
  <2> QED BY <1>3, <1>4, <1>6, <1>7, <2>1
<1> QED BY <1>2, <1>3, <1>6, <1>7, <1>8

LEMMA ConnectionFacts ==
  ASSUME NEW T, IsTimetable(T), NEW i \in DOMAIN T.cons,
         NEW c, c = T.cons[i]
  PROVE  /\ Section(T, c.trip, c.idx) /\ i \in Nat
         /\ c.trip \in Nat /\ c.idx \in Nat
         /\ c.from = BoardAt(T, c.trip, c.idx) /\ c.from \in Station
         /\ c.to = LeaveAt(T, c.trip, c.idx) /\ c.to \in Station
         /\ c.in = T.trips[c.trip].in[c.idx] /\ c.out = T.trips[c.trip].out[c.idx]
         /\ c.in \in BOOLEAN /\ c.out \in BOOLEAN
         /\ c.dep \in 0..DayLen - 1 /\ c.dep \in Int /\ c.arr \in Nat /\ c.offset \in Nat
         /\ c.days = {d + c.offset : d \in T.trips[c.trip].days}
         /\ \A d \in T.trips[c.trip].days :
              /\ Runs(T, c.trip, d, c.idx) /\ d \in Nat
              /\ At(d + c.offset, c.dep) = DepOf(T, c.trip, d, c.idx)
              /\ At(d + c.offset, c.arr) = ArrOf(T, c.trip, d, c.idx)
<1>0. PICK t, j : t = c.trip /\ j = c.idx
  OBVIOUS
<1>1. Section(T, t, j) /\ c = SectionConnection(T.trips, t, j) /\ i \in Nat
  <2>1. Section(T, t, j) /\ c = SectionConnection(T.trips, t, j)
    BY <1>0 DEF IsTimetable
  <2>2. DOMAIN T.cons = 1..Len(T.cons) /\ Len(T.cons) \in Nat
    BY DEF IsTimetable
  <2> QED BY <2>1, <2>2
<1>2. t \in DOMAIN T.trips /\ j \in DOMAIN T.trips[t].dep
  BY <1>1 DEF Section
<1>3. t \in Nat /\ IsTrip(T.trips[t])
  BY <1>2 DEF IsTimetable
<1>4. j \in Nat
  <2>1. DOMAIN T.trips[t].dep = 1..Len(T.trips[t].dep) /\ Len(T.trips[t].dep) \in Nat
    BY <1>3 DEF IsTrip
  <2> QED BY <1>2, <2>1
<1>5. /\ c.from = T.trips[t].stops[j] /\ c.from \in Station
      /\ c.to = T.trips[t].stops[j + 1] /\ c.to \in Station
      /\ c.dep \in 0..DayLen - 1 /\ c.arr \in Nat /\ c.offset \in Nat
      /\ c.in = T.trips[t].in[j] /\ c.out = T.trips[t].out[j]
      /\ c.in \in BOOLEAN /\ c.out \in BOOLEAN
      /\ c.days = {d + c.offset : d \in T.trips[t].days}
      /\ \A d \in Int : /\ At(d + c.offset, c.dep) = At(d, T.trips[t].dep[j])
                        /\ At(d + c.offset, c.arr) = At(d, T.trips[t].arr[j])
  BY <1>1, <1>2, <1>3, SectionIs
<1>6. c.dep \in Int
  <2>1. c.dep \in 0..DayLen - 1
    BY <1>5
  <2> QED BY <2>1, NeverIs
<1>7. \A d \in T.trips[t].days : d \in Nat /\ Runs(T, t, d, j)
  BY <1>1, <1>2, <1>3, TripFacts DEF Runs
<1>8. c.from = BoardAt(T, t, j) /\ c.to = LeaveAt(T, t, j)
  BY <1>5 DEF BoardAt, LeaveAt
<1>9. \A d \in T.trips[t].days :
         /\ At(d + c.offset, c.dep) = DepOf(T, t, d, j)
         /\ At(d + c.offset, c.arr) = ArrOf(T, t, d, j)
  <2> TAKE d \in T.trips[t].days
  <2>1. d \in Int
    BY <1>7
  <2> QED BY <1>5, <2>1 DEF DepOf, ArrOf
<1> QED BY <1>0, <1>1, <1>3, <1>4, <1>5, <1>6, <1>7, <1>8, <1>9

LEMMA ConnectionTimes ==
  ASSUME NEW T, IsTimetable(T), NEW i \in DOMAIN T.cons,
         NEW d \in T.trips[T.cons[i].trip].days
  PROVE  /\ Runs(T, T.cons[i].trip, d, T.cons[i].idx) /\ d \in Nat
         /\ At(d + T.cons[i].offset, T.cons[i].dep) = DepOf(T, T.cons[i].trip, d, T.cons[i].idx)
         /\ At(d + T.cons[i].offset, T.cons[i].arr) = ArrOf(T, T.cons[i].trip, d, T.cons[i].idx)
<1> DEFINE c == T.cons[i]
<1>1. \A x \in T.trips[c.trip].days :
              /\ Runs(T, c.trip, x, c.idx) /\ x \in Nat
              /\ At(x + c.offset, c.dep) = DepOf(T, c.trip, x, c.idx)
              /\ At(x + c.offset, c.arr) = ArrOf(T, c.trip, x, c.idx)
  <2>1. c = T.cons[i]
    OBVIOUS
  <2> HIDE DEF c
  <2> QED BY <2>1, ConnectionFacts, SMTT(30)
<1>2. d \in T.trips[c.trip].days
  OBVIOUS
<1> HIDE DEF c
<1>3. /\ Runs(T, c.trip, d, c.idx) /\ d \in Nat
      /\ At(d + c.offset, c.dep) = DepOf(T, c.trip, d, c.idx)
      /\ At(d + c.offset, c.arr) = ArrOf(T, c.trip, d, c.idx)
  BY <1>1, <1>2
<1> QED BY <1>3 DEF c

LEMMA SectionsInOrder ==
  ASSUME NEW T, IsTimetable(T), NEW t, NEW d, NEW e, NEW j,
         Runs(T, t, d, e), Runs(T, t, d, j), e <= j
  PROVE  DepOf(T, t, d, e) <= DepOf(T, t, d, j)
<1> DEFINE ed == T.trips[t].dep[e]
           jd == T.trips[t].dep[j]
<1>1. d \in Nat /\ e \in Nat /\ j \in Nat /\ IsTrip(T.trips[t])
  BY SectionFacts
<1>2. e \in DOMAIN T.trips[t].dep /\ j \in DOMAIN T.trips[t].dep
  BY DEF Runs, Section
<1>3. /\ ed \in Nat /\ jd \in Nat /\ T.trips[t].arr[e] \in Nat
      /\ ed <= T.trips[t].arr[e] /\ (e < j => T.trips[t].arr[e] <= jd)
  BY <1>1, <1>2, TripFacts
<1>4. ed <= jd
  <2>1. e = j \/ e < j
    BY <1>1
  <2> QED BY <1>3, <2>1
<1> HIDE DEF ed, jd
<1>5. /\ At(d, ed) - At(d, jd) = ed - jd
      /\ At(d, ed) \in Int /\ At(d, jd) \in Int
  <2>1. d \in Int /\ ed \in Int /\ jd \in Int
    BY <1>1, <1>3
  <2>2. At(d, ed) \in Int /\ \A n \in Int : At(d, ed) - At(d, n) = ed - n
    BY <2>1, AtIs
  <2>3. At(d, jd) \in Int
    BY <2>1, AtIs
  <2> QED BY <2>1, <2>2, <2>3
<1> QED BY <1>3, <1>4, <1>5 DEF DepOf, ed, jd

LEMMA ConnectionDays ==
  ASSUME NEW T, IsTimetable(T), NEW i \in DOMAIN T.cons, NEW sd
  PROVE  sd \in T.cons[i].days <=>
           \E d \in T.trips[T.cons[i].trip].days : sd = d + T.cons[i].offset
<1> DEFINE c == T.cons[i]
           t == T.cons[i].trip
           j == T.cons[i].idx
<1>1. Section(T, t, j) /\ c = SectionConnection(T.trips, t, j)
  BY DEF IsTimetable
<1> HIDE DEF c, t, j
<1>2. t \in DOMAIN T.trips /\ j \in DOMAIN T.trips[t].dep
  BY <1>1 DEF Section
<1>3. t \in Nat /\ IsTrip(T.trips[t])
  BY <1>2 DEF IsTimetable
<1>4. c.days = {d + c.offset : d \in T.trips[t].days}
  BY <1>1, <1>2, <1>3, SectionIs
<1> QED BY <1>4 DEF c, t

-----------------------------------------------------------------------------
(* The scan, at connection it of day sd, is past section j of the train.   *)
Passed(T, it0, sd, t, d, j) ==
  \E i \in DOMAIN T.cons :
    /\ T.cons[i].trip = t /\ T.cons[i].idx = j
    /\ d + T.cons[i].offset < sd \/ (d + T.cons[i].offset = sd /\ i < it0)

LEMMA ConnectionOf ==
  ASSUME NEW T, IsTimetable(T), NEW t, NEW d, NEW j, Runs(T, t, d, j)
  PROVE  \E i \in DOMAIN T.cons :
           /\ T.cons[i].trip = t /\ T.cons[i].idx = j /\ i \in Nat
           /\ T.cons[i].offset \in Nat /\ T.cons[i].dep \in 0..DayLen - 1 /\ T.cons[i].dep \in Int
           /\ At(d + T.cons[i].offset, T.cons[i].dep) = DepOf(T, t, d, j)
<1>1. Section(T, t, j) /\ d \in T.trips[t].days
  BY DEF Runs
<1>2. PICK i \in DOMAIN T.cons : T.cons[i].trip = t /\ T.cons[i].idx = j
  BY <1>1 DEF IsTimetable
<1> DEFINE c == T.cons[i]
<1>3. i \in Nat /\ c.offset \in Nat /\ c.dep \in 0..DayLen - 1 /\ c.dep \in Int
  BY ConnectionFacts
<1>4. d \in T.trips[c.trip].days
  BY <1>1, <1>2
<1>5. At(d + c.offset, c.dep) = DepOf(T, c.trip, d, c.idx)
  BY <1>4, ConnectionTimes
<1> QED BY <1>2, <1>3, <1>5

LEMMA OneConnection ==
  ASSUME NEW T, IsTimetable(T), NEW i \in DOMAIN T.cons, NEW j \in DOMAIN T.cons,
         T.cons[i].trip = T.cons[j].trip, T.cons[i].idx = T.cons[j].idx
  PROVE  i = j
<1> SUFFICES ASSUME i # j PROVE FALSE
  OBVIOUS
<1>1. T.cons[i] = T.cons[j]
  BY DEF IsTimetable
<1>2. i \in Nat /\ j \in Nat
  BY ConnectionFacts
<1>3. ScanOrder(T.cons[i], T.cons[i])
  <2>1. i < j \/ j < i
    BY <1>2
  <2> QED BY <1>1, <2>1 DEF IsTimetable, InOrder
<1> DEFINE c == T.cons[i]
<1>4. c.dep \in Int /\ c.trip \in Nat /\ c.idx \in Nat
  BY ConnectionFacts
<1> HIDE DEF c
<1>5. ScanOrder(c, c)
  BY <1>3 DEF c
<1> QED BY <1>4, <1>5 DEF ScanOrder

LEMMA EarlierConnection ==
  ASSUME NEW T, IsTimetable(T), NEW i \in DOMAIN T.cons, NEW j \in DOMAIN T.cons
  PROVE  /\ T.cons[i].dep < T.cons[j].dep => i < j
         /\ i < j => T.cons[i].dep <= T.cons[j].dep
         /\ T.cons[i].dep = T.cons[j].dep /\ T.cons[i].trip = T.cons[j].trip
              /\ T.cons[i].idx < T.cons[j].idx => i < j
<1> PICK b, c : b = T.cons[i] /\ c = T.cons[j]
  OBVIOUS
<1>1. i \in Nat /\ j \in Nat /\ b.dep \in Int /\ c.dep \in Int /\ b.trip \in Nat /\ c.trip \in Nat
      /\ b.idx \in Nat /\ c.idx \in Nat
  <2>1. i \in Nat /\ b.dep \in Int /\ b.trip \in Nat /\ b.idx \in Nat
    BY ConnectionFacts
  <2>2. j \in Nat /\ c.dep \in Int /\ c.trip \in Nat /\ c.idx \in Nat
    BY ConnectionFacts
  <2> QED BY <2>1, <2>2
<1>2. i < j => ScanOrder(b, c)
  BY DEF IsTimetable, InOrder
<1>3. j < i => ScanOrder(c, b)
  BY DEF IsTimetable, InOrder
<1>4. i = j => b = c
  OBVIOUS
<1> QED BY <1>1, <1>2, <1>3, <1>4 DEF ScanOrder

LEMMA TimeOrder ==
  ASSUME NEW d \in Int, NEW e \in Int, NEW m \in 0..DayLen - 1, NEW n \in 0..DayLen - 1
  PROVE  /\ At(d, m) \in Int /\ At(e, n) \in Int
         /\ At(d, m) < At(e, n) <=> d < e \/ (d = e /\ m < n)
         /\ At(d, m) = At(e, n) <=> (d = e /\ m = n)
<1>1. DayLen \in Nat \ {0} /\ m \in Int /\ n \in Int
  BY NeverIs
<1>2. /\ At(d, m) \in Int /\ At(d, n) \in Int /\ At(e, n) \in Int
      /\ At(d, m) - At(d, n) = m - n
  BY <1>1, AtIs
<1>3. d < e => At(d, n) + DayLen <= At(e, n)
  BY <1>1, AtIs
<1>4. e < d => At(e, n) + DayLen <= At(d, n)
  BY <1>1, AtIs
<1>5. CASE d < e
  BY <1>1, <1>2, <1>3, <1>5
<1>6. CASE e < d
  BY <1>1, <1>2, <1>4, <1>6
<1>7. CASE d = e
  BY <1>1, <1>2, <1>7
<1> QED BY <1>5, <1>6, <1>7

(* What departs before the connection to be scanned has been passed, and   *)
(* what has been passed departs no later.                                  *)
LEMMA EarlierIsPassed ==
  ASSUME NEW T, IsTimetable(T), NEW t, NEW d, NEW j, Runs(T, t, d, j),
         NEW i \in DOMAIN T.cons, NEW sd \in Nat
  PROVE  /\ DepOf(T, t, d, j) < At(sd, T.cons[i].dep) => Passed(T, i, sd, t, d, j)
         /\ Passed(T, i, sd, t, d, j) => DepOf(T, t, d, j) <= At(sd, T.cons[i].dep)
<1>1. PICK h \in DOMAIN T.cons :
        /\ T.cons[h].trip = t /\ T.cons[h].idx = j /\ h \in Nat
        /\ T.cons[h].offset \in Nat /\ T.cons[h].dep \in 0..DayLen - 1 /\ T.cons[h].dep \in Int
        /\ At(d + T.cons[h].offset, T.cons[h].dep) = DepOf(T, t, d, j)
  BY ConnectionOf
<1>2. T.cons[i].dep \in 0..DayLen - 1 /\ T.cons[i].dep \in Int /\ i \in Nat
  BY ConnectionFacts
<1>3. d \in Nat
  BY SectionFacts
<1>4. Passed(T, i, sd, t, d, j) <=>
        (d + T.cons[h].offset < sd \/ (d + T.cons[h].offset = sd /\ h < i))
  BY <1>1, OneConnection DEF Passed
<1>5. /\ T.cons[h].dep < T.cons[i].dep => h < i
      /\ h < i => T.cons[h].dep <= T.cons[i].dep
  BY <1>1, EarlierConnection
<1>6. d + T.cons[h].offset \in Int /\ sd \in Int /\ T.cons[h].dep \in Int
  BY <1>1, <1>3
<1>7. /\ At(d + T.cons[h].offset, T.cons[h].dep) \in Int /\ At(sd, T.cons[i].dep) \in Int
      /\ At(d + T.cons[h].offset, T.cons[h].dep) < At(sd, T.cons[i].dep)
           <=> d + T.cons[h].offset < sd
                 \/ (d + T.cons[h].offset = sd /\ T.cons[h].dep < T.cons[i].dep)
      /\ At(d + T.cons[h].offset, T.cons[h].dep) = At(sd, T.cons[i].dep)
           <=> (d + T.cons[h].offset = sd /\ T.cons[h].dep = T.cons[i].dep)
  <2> DEFINE dd == d + T.cons[h].offset
             m == T.cons[h].dep
             n == T.cons[i].dep
  <2>1. dd \in Int /\ sd \in Int /\ m \in 0..DayLen - 1 /\ n \in 0..DayLen - 1
    BY <1>1, <1>2, <1>6
  <2> HIDE DEF dd, m, n
  <2>2. /\ At(dd, m) \in Int /\ At(sd, n) \in Int
        /\ At(dd, m) < At(sd, n) <=> dd < sd \/ (dd = sd /\ m < n)
        /\ At(dd, m) = At(sd, n) <=> (dd = sd /\ m = n)
    BY <2>1, TimeOrder
  <2> QED BY <2>2 DEF dd, m, n
<1>8. ASSUME DepOf(T, t, d, j) < At(sd, T.cons[i].dep) PROVE Passed(T, i, sd, t, d, j)
  <2>1. At(d + T.cons[h].offset, T.cons[h].dep) < At(sd, T.cons[i].dep)
    BY <1>1, <1>8
  <2>2. d + T.cons[h].offset < sd
          \/ (d + T.cons[h].offset = sd /\ T.cons[h].dep < T.cons[i].dep)
    BY <1>7, <2>1
  <2> QED BY <1>4, <1>5, <2>2
<1>9. ASSUME Passed(T, i, sd, t, d, j) PROVE DepOf(T, t, d, j) <= At(sd, T.cons[i].dep)
  <2>1. CASE d + T.cons[h].offset < sd
    BY <1>1, <1>7, <2>1
  <2>2. CASE d + T.cons[h].offset = sd /\ h < i
    <3>1. T.cons[h].dep < T.cons[i].dep \/ T.cons[h].dep = T.cons[i].dep
      BY <1>2, <1>5, <1>6, <2>2
    <3> QED BY <1>1, <1>7, <2>2, <3>1
  <2> QED BY <1>4, <1>9, <2>1, <2>2
<1> QED BY <1>8, <1>9

LEMMA SameTrainPassed ==
  ASSUME NEW T, IsTimetable(T), NEW t, NEW d, NEW e, NEW i \in DOMAIN T.cons,
         t = T.cons[i].trip, Runs(T, t, d, e), Runs(T, t, d, T.cons[i].idx),
         e < T.cons[i].idx, NEW sd \in Nat, d + T.cons[i].offset = sd
  PROVE  Passed(T, i, sd, t, d, e)
<1>1. d \in T.trips[T.cons[i].trip].days
  BY DEF Runs
<1>2. At(sd, T.cons[i].dep) = DepOf(T, t, d, T.cons[i].idx)
  BY <1>1, ConnectionTimes
<1>3. PICK h \in DOMAIN T.cons :
        /\ T.cons[h].trip = t /\ T.cons[h].idx = e /\ h \in Nat
        /\ T.cons[h].offset \in Nat /\ T.cons[h].dep \in 0..DayLen - 1 /\ T.cons[h].dep \in Int
        /\ At(d + T.cons[h].offset, T.cons[h].dep) = DepOf(T, t, d, e)
  BY ConnectionOf
<1>4. /\ d \in Nat /\ e \in Nat /\ T.cons[i].idx \in Nat
      /\ DepOf(T, t, d, e) \in Nat /\ DepOf(T, t, d, T.cons[i].idx) \in Nat
  BY SectionFacts
<1>5. DepOf(T, t, d, e) <= DepOf(T, t, d, T.cons[i].idx)
  <2>1. e <= T.cons[i].idx
    BY <1>4
  <2> QED BY <2>1, SectionsInOrder
<1>6. CASE DepOf(T, t, d, e) < DepOf(T, t, d, T.cons[i].idx)
  BY <1>2, <1>6, EarlierIsPassed
<1>7. CASE DepOf(T, t, d, e) = DepOf(T, t, d, T.cons[i].idx)
  <2> DEFINE dd == d + T.cons[h].offset
             m == T.cons[h].dep
             n == T.cons[i].dep
  <2>1. n \in 0..DayLen - 1
    BY ConnectionFacts
  <2>2. dd \in Int /\ sd \in Int /\ m \in 0..DayLen - 1 /\ At(dd, m) = At(sd, n)
    BY <1>2, <1>3, <1>4, <1>7
  <2> HIDE DEF dd, m, n
  <2>3. dd = sd /\ m = n
    BY <2>1, <2>2, TimeOrder
  <2>4. h < i
    BY <1>3, <2>3, EarlierConnection DEF m, n
  <2> QED BY <1>3, <2>3, <2>4 DEF Passed, dd
<1> QED BY <1>4, <1>5, <1>6, <1>7

LEMMA PassedStep ==
  ASSUME NEW T, IsTimetable(T), NEW t, NEW d, NEW j, Runs(T, t, d, j),
         NEW i \in DOMAIN T.cons, NEW sd \in Nat
  PROVE  Passed(T, i + 1, sd, t, d, j) <=>
           \/ Passed(T, i, sd, t, d, j)
           \/ T.cons[i].trip = t /\ T.cons[i].idx = j /\ d + T.cons[i].offset = sd
<1>1. PICK h \in DOMAIN T.cons :
        /\ T.cons[h].trip = t /\ T.cons[h].idx = j /\ h \in Nat /\ T.cons[h].offset \in Nat
  BY ConnectionOf
<1>2. i \in Nat /\ d \in Nat
  BY ConnectionFacts, SectionFacts
<1>3. \A n : Passed(T, n, sd, t, d, j) <=>
        (d + T.cons[h].offset < sd \/ (d + T.cons[h].offset = sd /\ h < n))
  BY <1>1, OneConnection DEF Passed
<1>4. T.cons[i].trip = t /\ T.cons[i].idx = j <=> i = h
  BY <1>1, OneConnection
<1>5. h < i + 1 <=> h < i \/ h = i
  BY <1>1, <1>2
<1>6. /\ Passed(T, i + 1, sd, t, d, j) <=>
        (d + T.cons[h].offset < sd \/ (d + T.cons[h].offset = sd /\ h < i + 1))
      /\ Passed(T, i, sd, t, d, j) <=>
        (d + T.cons[h].offset < sd \/ (d + T.cons[h].offset = sd /\ h < i))
  BY <1>3
<1>7. CASE h = i
  BY <1>1, <1>4, <1>5, <1>6, <1>7
<1>8. CASE h # i
  BY <1>1, <1>4, <1>5, <1>6, <1>8
<1> QED BY <1>7, <1>8

LEMMA PassedWrap ==
  ASSUME NEW T, IsTimetable(T), NEW t, NEW d, NEW j, Runs(T, t, d, j), NEW sd \in Nat,
         NEW n \in Nat, n > Len(T.cons)
  PROVE  Passed(T, 1, sd + 1, t, d, j) <=> Passed(T, n, sd, t, d, j)
<1>1. PICK h \in DOMAIN T.cons :
        /\ T.cons[h].trip = t /\ T.cons[h].idx = j /\ h \in Nat /\ T.cons[h].offset \in Nat
  BY ConnectionOf
<1>2. d \in Nat
  BY SectionFacts
<1>3. \A m, x : Passed(T, m, x, t, d, j) <=>
        (d + T.cons[h].offset < x \/ (d + T.cons[h].offset = x /\ h < m))
  BY <1>1, OneConnection DEF Passed
<1>4. h < n /\ ~(h < 1)
  <2>1. Len(T.cons) \in Nat /\ DOMAIN T.cons = 1..Len(T.cons)
    BY DEF IsTimetable
  <2>2. h \in 1..Len(T.cons)
    BY <2>1
  <2> QED BY <2>1, <2>2
<1>5. /\ Passed(T, 1, sd + 1, t, d, j) <=> d + T.cons[h].offset < sd + 1
      /\ Passed(T, n, sd, t, d, j) <=>
           (d + T.cons[h].offset < sd \/ d + T.cons[h].offset = sd)
  BY <1>3, <1>4
<1>6. d + T.cons[h].offset < sd + 1 <=>
        (d + T.cons[h].offset < sd \/ d + T.cons[h].offset = sd)
  BY <1>1, <1>2
<1> QED BY <1>5, <1>6

(* The scan starts at the first connection that departs no earlier in the  *)
(* day than the query: what it does not scan departs before the query.     *)
LEMMA SkippedDepartEarlier ==
  ASSUME NEW T, IsTimetable(T), NEW start \in Nat,
         NEW n, n = 1 + Cardinality({i \in DOMAIN T.cons : T.cons[i].dep < Mam(start)})
  PROVE  /\ n \in 1..Len(T.cons) + 1
         /\ \A t, d, j : Runs(T, t, d, j) /\ Passed(T, n, DayIdx(start), t, d, j)
                           => DepOf(T, t, d, j) < start
<1> DEFINE E == {i \in DOMAIN T.cons : T.cons[i].dep < Mam(start)}
           L == Len(T.cons)
<1>1. L \in Nat \ {0} /\ DOMAIN T.cons = 1..L
  BY DEF IsTimetable
<1>2. IsFiniteSet(1..L) /\ Cardinality(1..L) = L
  <2>1. 1 \in Int /\ L \in Int
    BY <1>1
  <2> HIDE DEF L
  <2>2. Cardinality(1..L) = IF 1 > L THEN 0 ELSE L - 1 + 1
    BY <2>1, FS_Interval
  <2>3. Cardinality(1..L) = L
    BY <1>1, <2>1, <2>2
  <2>4. IsFiniteSet(1..L)
    BY <2>1, FS_Interval
  <2> QED BY <2>3, <2>4
<1>3. E \subseteq 1..L
  BY <1>1
<1> HIDE DEF E
<1>4. IsFiniteSet(E) /\ Cardinality(E) \in Nat /\ Cardinality(E) <= L
  BY <1>2, <1>3, FS_Subset, FS_CardinalityType
<1>5. n \in 1..L + 1
  <2>1. n = 1 + Cardinality(E)
    BY DEF E
  <2> QED BY <1>1, <1>4, <2>1
<1>6. ASSUME NEW h \in DOMAIN T.cons, h < n PROVE T.cons[h].dep < Mam(start)
  <2> SUFFICES ASSUME ~(T.cons[h].dep < Mam(start)) PROVE FALSE
    OBVIOUS
  <2>1. h \in 1..L /\ h \in Nat
    BY <1>1
  <2>2. E \subseteq 1..h - 1
    <3> SUFFICES ASSUME NEW i \in E PROVE i \in 1..h - 1
      OBVIOUS
    <3>1. i \in DOMAIN T.cons /\ T.cons[i].dep < Mam(start)
      BY DEF E
    <3>2. T.cons[i].dep \in Int /\ T.cons[h].dep \in Int
      BY <3>1, ConnectionFacts
    <3>3. Mam(start) \in Int
      <4>1. Mam(start) \in 0..DayLen - 1
        BY DayAndMinute
      <4> QED BY <4>1, NeverIs
    <3>4. T.cons[i].dep < T.cons[h].dep
      BY <3>1, <3>2, <3>3
    <3>5. i < h
      BY <3>1, <3>4, EarlierConnection
    <3> QED BY <1>1, <2>1, <3>1, <3>5
  <2>3. IsFiniteSet(1..h - 1) /\ Cardinality(1..h - 1) = h - 1
    <3>1. 1 \in Int /\ h - 1 \in Int
      BY <2>1
    <3>2. Cardinality(1..h - 1) = IF 1 > h - 1 THEN 0 ELSE h - 1 - 1 + 1
      BY <3>1, FS_Interval
    <3> QED BY <2>1, <3>1, <3>2, FS_Interval
  <2>4. Cardinality(E) <= h - 1
    BY <2>2, <2>3, FS_Subset
  <2>5. n = 1 + Cardinality(E)
    BY DEF E
  <2> QED BY <1>4, <1>6, <2>1, <2>4, <2>5
<1>7. ASSUME NEW t, NEW d, NEW j, Runs(T, t, d, j), Passed(T, n, DayIdx(start), t, d, j)
      PROVE  DepOf(T, t, d, j) < start
  <2>1. PICK h \in DOMAIN T.cons :
        /\ T.cons[h].trip = t /\ T.cons[h].idx = j /\ h \in Nat
        /\ T.cons[h].offset \in Nat /\ T.cons[h].dep \in 0..DayLen - 1 /\ T.cons[h].dep \in Int
        /\ At(d + T.cons[h].offset, T.cons[h].dep) = DepOf(T, t, d, j)
    BY <1>7, ConnectionOf
  <2>2. d \in Nat
    BY <1>7, SectionFacts
  <2>3. d + T.cons[h].offset < DayIdx(start)
          \/ (d + T.cons[h].offset = DayIdx(start) /\ h < n)
    BY <1>7, <2>1, OneConnection DEF Passed
  <2>4. DayIdx(start) \in Nat /\ Mam(start) \in 0..DayLen - 1 /\ At(DayIdx(start), Mam(start)) = start
    BY DayAndMinute
  <2>5. h < n => T.cons[h].dep < Mam(start)
    BY <1>6
  <2> DEFINE dd == d + T.cons[h].offset
             m == T.cons[h].dep
             e == DayIdx(start)
             k == Mam(start)
  <2>6. dd \in Int /\ e \in Int /\ m \in 0..DayLen - 1 /\ k \in 0..DayLen - 1
    BY <2>1, <2>2, <2>4
  <2>7. dd < e \/ (dd = e /\ m < k)
    BY <2>3, <2>5
  <2>8. At(dd, m) = DepOf(T, t, d, j) /\ At(e, k) = start
    BY <2>1, <2>4
  <2> HIDE DEF dd, m, e, k
  <2>9. At(dd, m) < At(e, k)
    BY <2>6, <2>7, TimeOrder
  <2> QED BY <2>8, <2>9
<1> QED BY <1>5, <1>7

-----------------------------------------------------------------------------
(* The best labels, round by round.                                        *)
CanRide(T, limit, b, t, d, e, j) ==
  /\ Runs(T, t, d, e) /\ Runs(T, t, d, j) /\ e <= j
  /\ T.trips[t].in[e] /\ T.trips[t].out[j]
  /\ DepOf(T, t, d, j) <= limit
  /\ b[BoardAt(T, t, e)] <= DepOf(T, t, d, e)

RideEnd(T, t, d, j, s) == ArrOf(T, t, d, j) + T.foot[LeaveAt(T, t, j)][s]

FirstBest(T, sources, start) ==
  [s \in Station |->
     IF s \in sources THEN start
     ELSE Min({Never} \cup {start + T.foot[f][s] : f \in sources})]

NextBest(T, limit, b) ==
  [s \in Station |->
     Min({Never} \cup {RideArr(T, r) + T.foot[RideTo(T, r)][s] :
            r \in {q \in Rides(T, limit) : b[RideFrom(T, q)] <= RideDep(T, q)}})]

LEMMA RideIs ==
  ASSUME NEW T, NEW limit, NEW b, NEW r \in Rides(T, limit)
  PROVE  /\ b[RideFrom(T, r)] <= RideDep(T, r) =>
              CanRide(T, limit, b, r.trip, r.day, r.enter, r.exit)
         /\ \A s : RideArr(T, r) + T.foot[RideTo(T, r)][s] = RideEnd(T, r.trip, r.day, r.exit, s)
<1>1. PICK t \in DOMAIN T.trips : r \in RidesOf(T, t)
  BY DEF Rides
<1>2. /\ r.trip = t /\ r.day \in T.trips[t].days
      /\ r.enter \in DOMAIN T.trips[t].dep /\ r.exit \in DOMAIN T.trips[t].dep
      /\ r.enter <= r.exit /\ T.trips[t].in[r.enter] /\ T.trips[t].out[r.exit]
  BY <1>1 DEF RidesOf
<1>3. At(r.day, T.trips[r.trip].dep[r.exit]) <= limit
  BY DEF Rides
<1>4. /\ RideFrom(T, r) = BoardAt(T, r.trip, r.enter)
      /\ RideDep(T, r) = DepOf(T, r.trip, r.day, r.enter)
      /\ RideArr(T, r) = ArrOf(T, r.trip, r.day, r.exit)
      /\ RideTo(T, r) = LeaveAt(T, r.trip, r.exit)
  BY DEF RideFrom, RideDep, RideArr, RideTo, BoardAt, DepOf, ArrOf, LeaveAt
<1>5. Runs(T, r.trip, r.day, r.enter) /\ Runs(T, r.trip, r.day, r.exit)
  BY <1>1, <1>2 DEF Runs, Section
<1>6. DepOf(T, r.trip, r.day, r.exit) <= limit
  BY <1>3 DEF DepOf
<1> QED BY <1>2, <1>4, <1>5, <1>6 DEF CanRide, RideEnd

LEMMA RideExists ==
  ASSUME NEW T, NEW limit, NEW b, NEW t, NEW d, NEW e, NEW j, CanRide(T, limit, b, t, d, e, j)
  PROVE  \E r \in Rides(T, limit) :
           /\ b[RideFrom(T, r)] <= RideDep(T, r)
           /\ \A s : RideArr(T, r) + T.foot[RideTo(T, r)][s] = RideEnd(T, t, d, j, s)
<1>1. PICK r : r = [trip |-> t, day |-> d, enter |-> e, exit |-> j]
  OBVIOUS
<1>2. r.trip = t /\ r.day = d /\ r.enter = e /\ r.exit = j
  BY <1>1
<1>3. /\ Runs(T, t, d, e) /\ Runs(T, t, d, j) /\ e <= j
      /\ T.trips[t].in[e] /\ T.trips[t].out[j]
      /\ DepOf(T, t, d, j) <= limit
      /\ b[BoardAt(T, t, e)] <= DepOf(T, t, d, e)
  BY DEF CanRide
<1>4. /\ t \in DOMAIN T.trips /\ d \in T.trips[t].days
      /\ e \in DOMAIN T.trips[t].dep /\ j \in DOMAIN T.trips[t].dep
  BY <1>3 DEF Runs, Section
<1>5. r \in [trip : {t}, day : T.trips[t].days,
             enter : DOMAIN T.trips[t].dep, exit : DOMAIN T.trips[t].dep]
  BY <1>1, <1>4
<1>6. r \in RidesOf(T, t)
  BY <1>2, <1>3, <1>5 DEF RidesOf
<1>7. At(r.day, T.trips[r.trip].dep[r.exit]) <= limit
  BY <1>2, <1>3 DEF DepOf
<1>8. r \in Rides(T, limit)
  BY <1>4, <1>6, <1>7 DEF Rides
<1>9. /\ RideFrom(T, r) = BoardAt(T, t, e)
      /\ RideDep(T, r) = DepOf(T, t, d, e)
      /\ RideArr(T, r) = ArrOf(T, t, d, j)
      /\ RideTo(T, r) = LeaveAt(T, t, j)
  BY <1>2 DEF RideFrom, RideDep, RideArr, RideTo, BoardAt, DepOf, ArrOf, LeaveAt
<1>10. /\ b[RideFrom(T, r)] <= RideDep(T, r)
       /\ \A s : RideArr(T, r) + T.foot[RideTo(T, r)][s] = RideEnd(T, t, d, j, s)
  BY <1>3, <1>9 DEF RideEnd
<1> QED BY <1>8, <1>10

LEMMA RideEndIs ==
  ASSUME NEW T, IsTimetable(T), NEW limit, NEW b, NEW t, NEW d, NEW e, NEW j,
         CanRide(T, limit, b, t, d, e, j), NEW s \in Station
  PROVE  /\ RideEnd(T, t, d, j, s) \in Nat
         /\ DepOf(T, t, d, e) \in Nat /\ DepOf(T, t, d, j) \in Nat
         /\ DepOf(T, t, d, e) <= DepOf(T, t, d, j)
         /\ DepOf(T, t, d, j) < RideEnd(T, t, d, j, s)
<1>1. Runs(T, t, d, e) /\ Runs(T, t, d, j) /\ e <= j
  BY DEF CanRide
<1>2. DepOf(T, t, d, e) \in Nat /\ DepOf(T, t, d, e) <= DepOf(T, t, d, j)
  BY <1>1, SectionFacts, SectionsInOrder
<1>3. /\ DepOf(T, t, d, j) \in Nat /\ ArrOf(T, t, d, j) \in Nat
      /\ T.foot[LeaveAt(T, t, j)][s] \in Nat
      /\ DepOf(T, t, d, j) < ArrOf(T, t, d, j) + T.foot[LeaveAt(T, t, j)][s]
  BY <1>1, SectionFacts
<1> QED BY <1>2, <1>3 DEF RideEnd

LEMMA NextBestIs ==
  ASSUME NEW T, IsTimetable(T), NEW limit, NEW b, NEW s \in Station
  PROVE  LET n == NextBest(T, limit, b)[s] IN
         /\ n \in 0..Never
         /\ \A t, d, e, j : CanRide(T, limit, b, t, d, e, j) => n <= RideEnd(T, t, d, j, s)
         /\ n = Never \/ \E t, d, e, j : CanRide(T, limit, b, t, d, e, j) /\ n = RideEnd(T, t, d, j, s)
<1> DEFINE R == {q \in Rides(T, limit) : b[RideFrom(T, q)] <= RideDep(T, q)}
           E == {RideArr(T, r) + T.foot[RideTo(T, r)][s] : r \in R}
           S == {Never} \cup E
           n == NextBest(T, limit, b)[s]
<1>1. n = Min(S)
  BY DEF NextBest
<1>2. ASSUME NEW x \in E
      PROVE  \E t, d, e, j : CanRide(T, limit, b, t, d, e, j) /\ x = RideEnd(T, t, d, j, s)
  <2>1. PICK r \in R : x = RideArr(T, r) + T.foot[RideTo(T, r)][s]
    BY <1>2
  <2>2. CanRide(T, limit, b, r.trip, r.day, r.enter, r.exit)
        /\ x = RideEnd(T, r.trip, r.day, r.exit, s)
    BY <2>1, RideIs
  <2> QED BY <2>2
<1>3. ASSUME NEW t, NEW d, NEW e, NEW j, CanRide(T, limit, b, t, d, e, j)
      PROVE  RideEnd(T, t, d, j, s) \in E
  <2>1. PICK r \in Rides(T, limit) :
                /\ b[RideFrom(T, r)] <= RideDep(T, r)
                /\ \A z : RideArr(T, r) + T.foot[RideTo(T, r)][z] = RideEnd(T, t, d, j, z)
    BY <1>3, RideExists
  <2>2. r \in R /\ RideArr(T, r) + T.foot[RideTo(T, r)][s] = RideEnd(T, t, d, j, s)
    BY <2>1
  <2> QED BY <2>2
<1> HIDE DEF E, n
<1>4. S \in SUBSET Nat /\ S # {}
  <2>1. E \subseteq Nat
    BY <1>2, RideEndIs
  <2> QED BY <2>1, NeverIs
<1>5. n \in S /\ \A y \in S : n <= y
  BY <1>1, <1>4, MinIs
<1>6. n \in 0..Never
  <2>1. n \in Nat /\ n <= Never /\ Never \in Nat
    BY <1>4, <1>5, NeverIs
  <2> QED BY <2>1
<1>7. \A t, d, e, j : CanRide(T, limit, b, t, d, e, j) => n <= RideEnd(T, t, d, j, s)
  BY <1>3, <1>5
<1>8. n = Never \/ \E t, d, e, j : CanRide(T, limit, b, t, d, e, j) /\ n = RideEnd(T, t, d, j, s)
  BY <1>2, <1>5
<1> QED BY <1>6, <1>7, <1>8 DEF n

FirstLike(T, sources, start, s, n) ==
  /\ n \in 0..Never /\ start <= n
  /\ s \in sources => n = start
  /\ \A f \in sources : n <= start + T.foot[f][s]
  /\ n = Never \/ n = start \/ \E f \in sources : n = start + T.foot[f][s]
  /\ s \notin sources => n = Never \/ \E f \in sources : n = start + T.foot[f][s]

LEMMA FirstBestLike ==
  ASSUME NEW T, IsTimetable(T), NEW sources \in SUBSET Station, NEW start \in 0..Never - 1,
         NEW s \in Station
  PROVE  FirstLike(T, sources, start, s, FirstBest(T, sources, start)[s])
<1> DEFINE E == {start + T.foot[f][s] : f \in sources}
           S == {Never} \cup E
           n == FirstBest(T, sources, start)[s]
<1>1. Never \in Nat /\ start \in Nat /\ start < Never
  BY NeverIs
<1>2. \A f \in sources : T.foot[f][s] \in Nat
  BY DEF IsTimetable
<1>3. ASSUME s \in sources PROVE FirstLike(T, sources, start, s, n)
  <2>1. n = start
    BY <1>3 DEF FirstBest
  <2>2. \A f \in sources : start <= start + T.foot[f][s]
    BY <1>1, <1>2
  <2> HIDE DEF n
  <2>3. n \in 0..Never /\ start <= n /\ \A f \in sources : n <= start + T.foot[f][s]
    BY <1>1, <2>1, <2>2
  <2> QED BY <1>3, <2>1, <2>3 DEF n, FirstLike
<1>4. ASSUME s \notin sources PROVE FirstLike(T, sources, start, s, n)
  <2>1. n = Min(S)
    BY <1>4 DEF FirstBest
  <2>2. S \in SUBSET Nat /\ S # {}
    BY <1>1, <1>2
  <2>3. n \in S /\ \A y \in S : n <= y
    BY <2>1, <2>2, MinIs
  <2>4. \A y \in S : start <= y
    BY <1>1, <1>2
  <2>5. n \in 0..Never /\ start <= n
    <3>1. n \in Nat /\ n <= Never /\ start <= n
      BY <2>2, <2>3, <2>4
    <3> HIDE DEF n
    <3> QED BY <1>1, <3>1
  <2>6. \A f \in sources : n <= start + T.foot[f][s]
    BY <2>3
  <2>7. n = Never \/ \E f \in sources : n = start + T.foot[f][s]
    BY <2>3
  <2> QED BY <1>4, <2>5, <2>6, <2>7 DEF FirstLike
<1> QED BY <1>3, <1>4

LEMMA FirstBestIs ==
  ASSUME NEW T, IsTimetable(T), NEW sources \in SUBSET Station, NEW start \in 0..Never - 1,
         NEW s \in Station
  PROVE  LET n == FirstBest(T, sources, start)[s] IN
         /\ n \in 0..Never /\ start <= n
         /\ s \in sources => n = start
         /\ \A f \in sources : n <= start + T.foot[f][s]
         /\ n = Never \/ n = start \/ \E f \in sources : n = start + T.foot[f][s]
         /\ s \notin sources => n = Never \/ \E f \in sources : n = start + T.foot[f][s]
<1> DEFINE n == FirstBest(T, sources, start)[s]
<1>1. FirstLike(T, sources, start, s, n)
  BY FirstBestLike
<1> HIDE DEF n
<1>2. /\ n \in 0..Never /\ start <= n
      /\ s \in sources => n = start
      /\ \A f \in sources : n <= start + T.foot[f][s]
      /\ n = Never \/ n = start \/ \E f \in sources : n = start + T.foot[f][s]
      /\ s \notin sources => n = Never \/ \E f \in sources : n = start + T.foot[f][s]
  BY <1>1 DEF FirstLike
<1> QED BY <1>2 DEF n

IsBest(B, T, sources, start, limit) ==
  /\ B[0] = FirstBest(T, sources, start)
  /\ \A k \in 1..MaxTransfers : B[k] = NextBest(T, limit, B[k - 1])
  /\ \A k \in Round, s \in Station : B[k][s] \in 0..Never /\ start <= B[k][s]

IsRounds(B, T, first, limit, n) ==
  /\ DOMAIN B = 0..n
  /\ B[0] = first
  /\ \A k \in 1..n : B[k] = NextBest(T, limit, B[k - 1])

LEMMA RoundsExist ==
  ASSUME NEW T, NEW first, NEW limit, NEW n \in Nat
  PROVE  \E B : IsRounds(B, T, first, limit, n)
<1> DEFINE Is(B, m) == IsRounds(B, T, first, limit, m)
           bad == {m \in Nat : ~\E B : Is(B, m)}
<1>1. SUFFICES ASSUME bad # {} PROVE FALSE
  OBVIOUS
<1>2. PICK m \in bad : \A y \in bad : m <= y
  <2>1. bad \in SUBSET Nat
    OBVIOUS
  <2> HIDE DEF bad
  <2> QED BY <1>1, <2>1, Least
<1>3. m \in Nat /\ ~\E B : Is(B, m)
  OBVIOUS
<1>4. m # 0
  <2> SUFFICES ASSUME m = 0 PROVE Is([k \in {0} |-> first], m)
    BY <1>3
  <2>1. 0..m = {0} /\ 1..m = {}
    OBVIOUS
  <2> QED BY <2>1 DEF IsRounds
<1>5. m - 1 \in Nat /\ ~(m <= m - 1)
  BY <1>3, <1>4
<1>6. PICK B : Is(B, m - 1)
  <2>1. m - 1 \notin bad
    BY <1>2, <1>5
  <2> HIDE DEF Is
  <2> QED BY <1>5, <2>1
<1> DEFINE w == [k \in 0..m |-> IF k = m THEN NextBest(T, limit, B[m - 1]) ELSE B[k]]
<1>7. Is(w, m)
  <2>1. DOMAIN w = 0..m
    OBVIOUS
  <2>2. w[0] = first
    <3>1. 0 \in 0..m /\ 0 # m
      BY <1>3, <1>4
    <3> QED BY <1>6, <3>1 DEF IsRounds
  <2>3. ASSUME NEW k \in 1..m PROVE w[k] = NextBest(T, limit, w[k - 1])
    <3>1. k \in 0..m /\ k - 1 \in 0..m /\ k - 1 # m /\ k \in Nat
      BY <1>3
    <3>2. w[k - 1] = B[k - 1]
      BY <3>1
    <3>3. CASE k = m
      BY <3>1, <3>2, <3>3
    <3>4. CASE k # m
      <4>1. k \in 1..m - 1
        BY <1>3, <3>1, <3>4
      <4>2. w[k] = B[k]
        BY <3>1, <3>4
      <4> QED BY <1>6, <3>2, <4>1, <4>2 DEF IsRounds
    <3> QED BY <3>3, <3>4
  <2> HIDE DEF w
  <2> QED BY <2>1, <2>2, <2>3 DEF IsRounds
<1> HIDE DEF Is
<1> QED BY <1>3, <1>7

LEMMA BestIs ==
  ASSUME NEW T, IsTimetable(T), NEW sources \in SUBSET Station, NEW start \in 0..Never - 1,
         NEW limit
  PROVE  IsBest(Best(T, sources, start, limit, MaxTransfers), T, sources, start, limit)
<1> DEFINE V(f) == f = [k \in 0..MaxTransfers |->
                         IF k = 0 THEN FirstBest(T, sources, start)
                         ELSE NextBest(T, limit, f[k - 1])]
           B == CHOOSE f : V(f)
<1>1. Best(T, sources, start, limit, MaxTransfers) = B
  <2> DEFINE W(f) == f = [k \in 0..MaxTransfers |->
                      [s \in Station |->
          IF k = 0
          THEN IF s \in sources THEN start
               ELSE Min({Never} \cup {start + T.foot[f0][s] : f0 \in sources})
          ELSE Min({Never} \cup
                 {RideArr(T, r) + T.foot[RideTo(T, r)][s] :
                    r \in {q \in Rides(T, limit) : f[k-1][RideFrom(T, q)] <= RideDep(T, q)}})]]
  <2>1. Best(T, sources, start, limit, MaxTransfers) = CHOOSE f : W(f)
    BY DEF Best
  <2>2. ASSUME NEW f PROVE V(f) <=> W(f)
    <3> DEFINE v == [k \in 0..MaxTransfers |->
                         IF k = 0 THEN FirstBest(T, sources, start)
                         ELSE NextBest(T, limit, f[k - 1])]
               w == [k \in 0..MaxTransfers |->
                      [s \in Station |->
          IF k = 0
          THEN IF s \in sources THEN start
               ELSE Min({Never} \cup {start + T.foot[f0][s] : f0 \in sources})
          ELSE Min({Never} \cup
                 {RideArr(T, r) + T.foot[RideTo(T, r)][s] :
                    r \in {q \in Rides(T, limit) : f[k-1][RideFrom(T, q)] <= RideDep(T, q)}})]]
    <3>1. ASSUME NEW k \in 0..MaxTransfers PROVE v[k] = w[k]
      <4>1. CASE k = 0
        BY <4>1 DEF FirstBest
      <4>2. CASE k # 0
        BY <4>2 DEF NextBest
      <4> QED BY <4>1, <4>2
    <3>2. v = w
      <4>1. v = [k \in 0..MaxTransfers |-> v[k]] /\ w = [k \in 0..MaxTransfers |-> w[k]]
        OBVIOUS
      <4> HIDE DEF v, w
      <4> QED BY <3>1, <4>1
    <3> QED BY <3>2
  <2> HIDE DEF V, W
  <2>3. (CHOOSE f : V(f)) = (CHOOSE f : W(f))
    BY <2>2
  <2> QED BY <2>1, <2>3
<1>2. MaxTransfers \in Nat \ {0} /\ 0 \in Round
  BY SearchAssumption DEF Round
<1>3. \E f : V(f)
  <2>1. PICK f : IsRounds(f, T, FirstBest(T, sources, start), limit, MaxTransfers)
    BY <1>2, RoundsExist
  <2>2. PICK g : g = [k \in 0..MaxTransfers |-> f[k]]
    OBVIOUS
  <2>3. ASSUME NEW k \in 0..MaxTransfers
        PROVE  g[k] = IF k = 0 THEN FirstBest(T, sources, start) ELSE NextBest(T, limit, g[k - 1])
    <3>1. CASE k = 0
      BY <2>1, <2>2, <3>1 DEF IsRounds
    <3>2. CASE k # 0
      <4>1. k \in 1..MaxTransfers /\ k - 1 \in 0..MaxTransfers
        BY <1>2, <3>2
      <4>2. g[k] = f[k] /\ g[k - 1] = f[k - 1]
        BY <2>2, <4>1
      <4> QED BY <2>1, <3>2, <4>1, <4>2 DEF IsRounds
    <3> QED BY <3>1, <3>2
  <2>4. V(g)
    BY <2>2, <2>3
  <2> QED BY <2>4
<1>4. V(B)
  BY <1>3
<1> HIDE DEF B
<1>5. B[0] = FirstBest(T, sources, start)
  <2>1. 0 \in 0..MaxTransfers
    BY <1>2
  <2> QED BY <1>4, <2>1
<1>6. ASSUME NEW k \in 1..MaxTransfers PROVE B[k] = NextBest(T, limit, B[k - 1])
  <2>1. k \in 0..MaxTransfers /\ k # 0
    BY <1>2
  <2> QED BY <1>4, <2>1
<1> HIDE DEF V
<1> DEFINE Good(k) == \A s \in Station : B[k][s] \in 0..Never /\ start <= B[k][s]
           bad == {k \in Round : ~Good(k)}
<1>7. bad = {}
  <2> SUFFICES ASSUME bad # {} PROVE FALSE
    OBVIOUS
  <2>1. PICK k \in bad : \A y \in bad : k <= y
    <3>1. bad \in SUBSET Nat
      BY <1>2 DEF Round
    <3> HIDE DEF bad
    <3> QED BY <3>1, Least
  <2>2. k \in Round /\ ~Good(k) /\ k \in Nat
    BY <1>2 DEF Round
  <2>3. k # 0
    <3> SUFFICES Good(0)
      BY <2>2
    <3> SUFFICES ASSUME NEW s \in Station PROVE B[0][s] \in 0..Never /\ start <= B[0][s]
      OBVIOUS
    <3>1. LET n == FirstBest(T, sources, start)[s] IN n \in 0..Never /\ start <= n
      BY FirstBestIs
    <3> QED BY <1>5, <3>1
  <2>4. k \in 1..MaxTransfers /\ k - 1 \in Round /\ ~(k <= k - 1)
    BY <1>2, <2>2, <2>3 DEF Round
  <2>5. Good(k - 1)
    <3>1. k - 1 \notin bad
      BY <2>1, <2>4
    <3> HIDE DEF Good
    <3> QED BY <2>4, <3>1
  <2>6. ASSUME NEW s \in Station PROVE B[k][s] \in 0..Never /\ start <= B[k][s]
    <3>1. /\ B[k][s] \in 0..Never
          /\ B[k][s] = Never \/ \E t, d, e, j : CanRide(T, limit, B[k - 1], t, d, e, j)
                                                 /\ B[k][s] = RideEnd(T, t, d, j, s)
      <4>1. B[k] = NextBest(T, limit, B[k - 1])
        BY <1>6, <2>4
      <4>2. LET n == NextBest(T, limit, B[k - 1])[s] IN
            /\ n \in 0..Never
            /\ n = Never \/ \E t, d, e, j : CanRide(T, limit, B[k - 1], t, d, e, j) /\ n = RideEnd(T, t, d, j, s)
        BY NextBestIs
      <4> QED BY <4>1, <4>2
    <3>2. CASE B[k][s] = Never
      BY <3>1, <3>2, NeverIs
    <3>3. ASSUME NEW t, NEW d, NEW e, NEW j, CanRide(T, limit, B[k - 1], t, d, e, j),
                 B[k][s] = RideEnd(T, t, d, j, s)
          PROVE  start <= B[k][s]
      <4>1. /\ RideEnd(T, t, d, j, s) \in Nat
            /\ DepOf(T, t, d, e) \in Nat /\ DepOf(T, t, d, j) \in Nat
            /\ DepOf(T, t, d, e) <= DepOf(T, t, d, j)
            /\ DepOf(T, t, d, j) < RideEnd(T, t, d, j, s)
        BY <3>3, RideEndIs
      <4>2. BoardAt(T, t, e) \in Station /\ B[k - 1][BoardAt(T, t, e)] <= DepOf(T, t, d, e)
        BY <3>3, SectionFacts DEF CanRide
      <4>3. start <= B[k - 1][BoardAt(T, t, e)] /\ B[k - 1][BoardAt(T, t, e)] \in Int /\ start \in Int
        BY <2>5, <4>2, NeverIs
      <4> QED BY <3>3, <4>1, <4>2, <4>3
    <3> QED BY <3>1, <3>2, <3>3
  <2> QED BY <2>2, <2>6
<1>8. \A k \in Round : Good(k)
  BY <1>7
<1>9. IsBest(B, T, sources, start, limit)
  BY <1>5, <1>6, <1>8 DEF IsBest
<1> QED BY <1>1, <1>9

-----------------------------------------------------------------------------
(* What the relaxation of one connection does to labels and marks: every   *)
(* number of transfers is treated with the labels and marks from before.   *)
Labels(a)   == a \in [Station -> [Round -> 0..Never]]
Marks(T, r) == r \in [DOMAIN T.trips -> [Round -> Nat]]

Reached(T, i, sd, a, r, k) ==
  \/ r[T.cons[i].trip][k] <= T.cons[i].idx
  \/ a[T.cons[i].from][k] <= At(sd, T.cons[i].dep) /\ T.cons[i].in

Lowers(T, i, sd, a, r, k) ==
  /\ Reached(T, i, sd, a, r, k)
  /\ At(sd, T.cons[i].arr) < a[T.cons[i].to][k + 1]
  /\ T.cons[i].out

NewLabel(T, i, sd, a, r, z, k) ==
  IF k > 0 /\ Lowers(T, i, sd, a, r, k - 1)
  THEN Min({a[z][k], At(sd, T.cons[i].arr) + T.foot[T.cons[i].to][z]})
  ELSE a[z][k]

NewMark(T, i, sd, a, r, t, k) ==
  IF t = T.cons[i].trip /\ k < MaxTransfers /\ Reached(T, i, sd, a, r, k)
       /\ ~(r[t][k] <= T.cons[i].idx)
  THEN T.cons[i].idx
  ELSE r[t][k]

NewLabels(T, i, sd, a, r) == [z \in Station |-> [k \in Round |-> NewLabel(T, i, sd, a, r, z, k)]]
NewMarks(T, i, sd, a, r) ==
  [t \in DOMAIN T.trips |-> [k \in Round |-> NewMark(T, i, sd, a, r, t, k)]]

(* The first n numbers of transfers treated.                               *)
After(T, i, sd, a, r, n) ==
  [arrival |-> [z \in Station |-> [k \in Round |->
                  IF k <= n THEN NewLabel(T, i, sd, a, r, z, k) ELSE a[z][k]]],
   reachable |-> [t \in DOMAIN T.trips |-> [k \in Round |->
                  IF k < n THEN NewMark(T, i, sd, a, r, t, k) ELSE r[t][k]]]]

RelaxBy(T, i, sd, l, k) ==
  LET viaTrip    == l.reachable[T.cons[i].trip][k] <= T.cons[i].idx
      viaStation == l.arrival[T.cons[i].from][k] <= At(sd, T.cons[i].dep) /\ T.cons[i].in
  IN IF ~viaTrip /\ ~viaStation THEN l
     ELSE [reachable |-> IF viaTrip THEN l.reachable
                         ELSE [l.reachable EXCEPT ![T.cons[i].trip][k] = T.cons[i].idx],
           arrival   |-> IF At(sd, T.cons[i].arr) < l.arrival[T.cons[i].to][k+1] /\ T.cons[i].out
                         THEN [z \in Station |-> [l.arrival[z] EXCEPT ![k+1] =
                                 Min({@, At(sd, T.cons[i].arr) + T.foot[T.cons[i].to][z]})]]
                         ELSE l.arrival]

(* The connection scanned, as the section of a train.                      *)
LEMMA ScannedIs ==
  ASSUME NEW T, IsTimetable(T), NEW i \in DOMAIN T.cons,
         NEW d \in T.trips[T.cons[i].trip].days, NEW sd, sd = d + T.cons[i].offset
  PROVE  LET c == T.cons[i] IN
         /\ sd \in Nat /\ c.trip \in DOMAIN T.trips /\ c.idx \in Nat
         /\ c.from \in Station /\ c.to \in Station /\ c.in \in BOOLEAN /\ c.out \in BOOLEAN
         /\ At(sd, c.dep) = DepOf(T, c.trip, d, c.idx) /\ At(sd, c.arr) = ArrOf(T, c.trip, d, c.idx)
         /\ At(sd, c.dep) \in Nat /\ At(sd, c.arr) \in Nat
         /\ c.from = BoardAt(T, c.trip, c.idx) /\ c.to = LeaveAt(T, c.trip, c.idx)
         /\ c.in = T.trips[c.trip].in[c.idx] /\ c.out = T.trips[c.trip].out[c.idx]
         /\ Runs(T, c.trip, d, c.idx)
         /\ \A z \in Station : /\ T.foot[c.to][z] \in Nat
                               /\ At(sd, c.dep) < At(sd, c.arr) + T.foot[c.to][z]
<1> DEFINE c == T.cons[i]
<1>1. /\ Runs(T, c.trip, d, c.idx) /\ d \in Nat
      /\ At(sd, c.dep) = DepOf(T, c.trip, d, c.idx) /\ At(sd, c.arr) = ArrOf(T, c.trip, d, c.idx)
  BY ConnectionTimes
<1>2. /\ c.offset \in Nat /\ c.idx \in Nat /\ c.from \in Station /\ c.to \in Station
      /\ c.in \in BOOLEAN /\ c.out \in BOOLEAN
  BY ConnectionFacts
<1>3. /\ c.from = BoardAt(T, c.trip, c.idx) /\ c.to = LeaveAt(T, c.trip, c.idx)
      /\ c.in = T.trips[c.trip].in[c.idx] /\ c.out = T.trips[c.trip].out[c.idx]
  BY ConnectionFacts
<1>4. sd \in Nat /\ c.trip \in DOMAIN T.trips
  BY <1>1, <1>2 DEF Runs, Section
<1>5. /\ DepOf(T, c.trip, d, c.idx) \in Nat /\ ArrOf(T, c.trip, d, c.idx) \in Nat
      /\ \A z \in Station : /\ T.foot[LeaveAt(T, c.trip, c.idx)][z] \in Nat
                            /\ DepOf(T, c.trip, d, c.idx) < ArrOf(T, c.trip, d, c.idx) + T.foot[LeaveAt(T, c.trip, c.idx)][z]
  BY <1>1, SectionFacts
<1> HIDE DEF c
<1>6. \A z \in Station : /\ T.foot[c.to][z] \in Nat
                         /\ At(sd, c.dep) < At(sd, c.arr) + T.foot[c.to][z]
  BY <1>1, <1>3, <1>5
<1> QED BY <1>1, <1>2, <1>3, <1>4, <1>5, <1>6 DEF c

LEMMA NewLabelIs ==
  ASSUME NEW T, IsTimetable(T), NEW i \in DOMAIN T.cons,
         NEW d \in T.trips[T.cons[i].trip].days, NEW sd, sd = d + T.cons[i].offset,
         NEW a, Labels(a), NEW r, NEW z \in Station, NEW k \in Round
  PROVE  LET n == NewLabel(T, i, sd, a, r, z, k)
             e == At(sd, T.cons[i].arr) + T.foot[T.cons[i].to][z]
         IN
         /\ a[z][k] \in 0..Never /\ n \in 0..Never /\ n <= a[z][k]
         /\ e \in Nat /\ At(sd, T.cons[i].dep) < e /\ At(sd, T.cons[i].dep) \in Nat
         /\ n = a[z][k] \/ (n = e /\ n < a[z][k] /\ k > 0 /\ Lowers(T, i, sd, a, r, k - 1))
         /\ k > 0 /\ Lowers(T, i, sd, a, r, k - 1) => n <= e
         /\ n <= At(sd, T.cons[i].dep) <=> a[z][k] <= At(sd, T.cons[i].dep)
<1> DEFINE n == NewLabel(T, i, sd, a, r, z, k)
           e == At(sd, T.cons[i].arr) + T.foot[T.cons[i].to][z]
           o == a[z][k]
           dep == At(sd, T.cons[i].dep)
<1>1. o \in 0..Never /\ Never \in Nat
  BY NeverIs DEF Labels
<1>2. e \in Nat /\ dep < e /\ dep \in Nat
  <2>1. /\ At(sd, T.cons[i].dep) \in Nat /\ At(sd, T.cons[i].arr) \in Nat
        /\ T.foot[T.cons[i].to][z] \in Nat
        /\ At(sd, T.cons[i].dep) < At(sd, T.cons[i].arr) + T.foot[T.cons[i].to][z]
    BY ScannedIs
  <2> QED BY <2>1
<1>3. n = IF k > 0 /\ Lowers(T, i, sd, a, r, k - 1) THEN Min({o, e}) ELSE o
  BY DEF NewLabel
<1>4. Min({o, e}) \in {o, e} /\ Min({o, e}) <= o /\ Min({o, e}) <= e
  <2> HIDE DEF o, e
  <2>1. {o, e} \in SUBSET Nat /\ {o, e} # {}
    BY <1>1, <1>2
  <2>2. Min({o, e}) \in {o, e} /\ \A y \in {o, e} : Min({o, e}) <= y
    BY <2>1, MinIs
  <2> QED BY <2>2
<1>5. CASE k > 0 /\ Lowers(T, i, sd, a, r, k - 1)
  <2>1. n = Min({o, e})
    BY <1>3, <1>5
  <2> HIDE DEF n, e, o, dep
  <2>2. n \in 0..Never /\ n <= o /\ n <= e /\ (n = o \/ (n = e /\ n < o))
    BY <1>1, <1>2, <1>4, <2>1
  <2>3. n <= dep <=> o <= dep
    BY <1>1, <1>2, <2>2
  <2> QED BY <1>1, <1>2, <1>5, <2>2, <2>3 DEF n, e, o, dep
<1>6. CASE ~(k > 0 /\ Lowers(T, i, sd, a, r, k - 1))
  <2>1. n = o
    BY <1>3, <1>6
  <2> HIDE DEF n, e, o, dep
  <2>2. n \in 0..Never /\ n <= o /\ (n <= dep <=> o <= dep)
    BY <1>1, <2>1
  <2> QED BY <1>1, <1>2, <1>6, <2>1, <2>2 DEF n, e, o, dep
<1> QED BY <1>5, <1>6

LEMMA GridExcept ==
  ASSUME NEW D, NEW E, NEW f, f = [t \in D |-> f[t]],
         \A t \in D : f[t] = [n \in E |-> f[t][n]], NEW x \in D, NEW y \in E, NEW v
  PROVE  [f EXCEPT ![x][y] = v]
           = [t \in D |-> [n \in E |-> IF t = x /\ n = y THEN v ELSE f[t][n]]]
<1> DEFINE g == [f EXCEPT ![x][y] = v]
<1>1. g = [f EXCEPT ![x] = [f[x] EXCEPT ![y] = v]]
  OBVIOUS
<1>2. g = [t \in D |-> IF t = x THEN [f[x] EXCEPT ![y] = v] ELSE f[t]]
  BY <1>1
<1>3. [f[x] EXCEPT ![y] = v] = [n \in E |-> IF n = y THEN v ELSE f[x][n]]
  OBVIOUS
<1> HIDE DEF g
<1>4. ASSUME NEW t \in D
      PROVE  (IF t = x THEN [f[x] EXCEPT ![y] = v] ELSE f[t])
               = [n \in E |-> IF t = x /\ n = y THEN v ELSE f[t][n]]
  <2>1. CASE t = x
    BY <1>3, <2>1
  <2>2. CASE t # x
    <3>1. f[t] = [n \in E |-> f[t][n]]
      OBVIOUS
    <3>2. \A n \in E : (IF t = x /\ n = y THEN v ELSE f[t][n]) = f[t][n]
      BY <2>2
    <3>3. [n \in E |-> IF t = x /\ n = y THEN v ELSE f[t][n]] = [n \in E |-> f[t][n]]
      BY <3>2
    <3> QED BY <2>2, <3>1, <3>3
  <2> QED BY <2>1, <2>2
<1> QED BY <1>2, <1>4 DEF g

LEMMA RelaxStep ==
  ASSUME NEW T, IsTimetable(T), NEW i \in DOMAIN T.cons,
         NEW d \in T.trips[T.cons[i].trip].days, NEW sd, sd = d + T.cons[i].offset,
         NEW a, Labels(a), NEW r, Marks(T, r), NEW k \in 0..MaxTransfers - 1
  PROVE  RelaxBy(T, i, sd, After(T, i, sd, a, r, k), k) = After(T, i, sd, a, r, k + 1)
<1> DEFINE c == T.cons[i]
           l == After(T, i, sd, a, r, k)
           m == After(T, i, sd, a, r, k + 1)
           X(z, n) == NewLabel(T, i, sd, a, r, z, n)
           Y(t, n) == NewMark(T, i, sd, a, r, t, n)
<1>1. /\ k \in Round /\ k + 1 \in Round /\ k \in Nat /\ k < MaxTransfers
      /\ \A n \in Round : /\ n \in Nat /\ (n <= k + 1 <=> n <= k \/ n = k + 1)
                          /\ (n < k + 1 <=> n < k \/ n = k) /\ ~(k + 1 <= k)
                          /\ (n = k + 1 => ~(n <= k)) /\ (n = k => ~(n < k))
  BY SearchAssumption DEF Round
<1>2. /\ c.from \in Station /\ c.to \in Station /\ c.trip \in DOMAIN T.trips
      /\ c.in \in BOOLEAN /\ c.out \in BOOLEAN
  BY ScannedIs
<1>3. /\ \A z \in Station, n \in Round : l.arrival[z][n] = IF n <= k THEN X(z, n) ELSE a[z][n]
      /\ \A t \in DOMAIN T.trips, n \in Round : l.reachable[t][n] = IF n < k THEN Y(t, n) ELSE r[t][n]
  BY DEF After
<1>4. l.arrival[c.from][k] = X(c.from, k) /\ l.arrival[c.to][k + 1] = a[c.to][k + 1]
      /\ l.reachable[c.trip][k] = r[c.trip][k]
  BY <1>1, <1>2, <1>3
<1>5. X(c.from, k) <= At(sd, c.dep) <=> a[c.from][k] <= At(sd, c.dep)
  BY <1>1, <1>2, NewLabelIs
<1> DEFINE viaTrip == l.reachable[c.trip][k] <= c.idx
           viaStation == l.arrival[c.from][k] <= At(sd, c.dep) /\ c.in
           lower == At(sd, c.arr) < l.arrival[c.to][k+1] /\ c.out
<1>6. viaTrip \/ viaStation <=> Reached(T, i, sd, a, r, k)
  BY <1>4, <1>5 DEF Reached
<1>7. viaTrip <=> r[c.trip][k] <= c.idx
  BY <1>4
<1>8. Reached(T, i, sd, a, r, k) => (lower <=> Lowers(T, i, sd, a, r, k))
  BY <1>4 DEF Lowers
<1>9. RelaxBy(T, i, sd, l, k) =
        IF ~viaTrip /\ ~viaStation THEN l
        ELSE [reachable |-> IF viaTrip THEN l.reachable
                            ELSE [l.reachable EXCEPT ![c.trip][k] = c.idx],
              arrival   |-> IF lower
                            THEN [z \in Station |-> [l.arrival[z] EXCEPT ![k+1] =
                                    Min({@, At(sd, c.arr) + T.foot[c.to][z]})]]
                            ELSE l.arrival]
  BY DEF RelaxBy
<1>10. /\ l = [arrival |-> l.arrival, reachable |-> l.reachable]
       /\ m = [arrival |-> m.arrival, reachable |-> m.reachable]
       /\ l.arrival = [z \in Station |-> [n \in Round |-> IF n <= k THEN X(z, n) ELSE a[z][n]]]
       /\ m.arrival = [z \in Station |-> [n \in Round |-> IF n <= k + 1 THEN X(z, n) ELSE a[z][n]]]
       /\ l.reachable = [t \in DOMAIN T.trips |-> [n \in Round |-> IF n < k THEN Y(t, n) ELSE r[t][n]]]
       /\ m.reachable = [t \in DOMAIN T.trips |-> [n \in Round |-> IF n < k + 1 THEN Y(t, n) ELSE r[t][n]]]
  BY DEF After
<1>11. \A z \in Station :
         X(z, k + 1) = IF Lowers(T, i, sd, a, r, k)
                       THEN Min({a[z][k + 1], At(sd, c.arr) + T.foot[c.to][z]}) ELSE a[z][k + 1]
  <2>1. k + 1 > 0 /\ k + 1 - 1 = k
    BY <1>1
  <2> QED BY <2>1 DEF NewLabel
<1>12. \A t \in DOMAIN T.trips :
         Y(t, k) = IF t = c.trip /\ Reached(T, i, sd, a, r, k) /\ ~(r[t][k] <= c.idx)
                   THEN c.idx ELSE r[t][k]
  BY <1>1 DEF NewMark
<1> DEFINE new == IF ~viaTrip /\ ~viaStation THEN l
        ELSE [reachable |-> IF viaTrip THEN l.reachable
                            ELSE [l.reachable EXCEPT ![c.trip][k] = c.idx],
              arrival   |-> IF lower
                            THEN [z \in Station |-> [l.arrival[z] EXCEPT ![k+1] =
                                    Min({@, At(sd, c.arr) + T.foot[c.to][z]})]]
                            ELSE l.arrival]
<1> HIDE DEF l, m, X, Y, viaTrip, viaStation, lower
<1>13. new.arrival = m.arrival
  <2>1. CASE Lowers(T, i, sd, a, r, k)
    <3>1. new.arrival = [z \in Station |-> [l.arrival[z] EXCEPT ![k+1] =
                                    Min({@, At(sd, c.arr) + T.foot[c.to][z]})]]
      BY <1>6, <1>8, <2>1 DEF Lowers
    <3> HIDE DEF new
    <3>2. ASSUME NEW z \in Station
          PROVE  [l.arrival[z] EXCEPT ![k+1] = Min({@, At(sd, c.arr) + T.foot[c.to][z]})]
                   = [n \in Round |-> IF n <= k + 1 THEN X(z, n) ELSE a[z][n]]
      <4>1. l.arrival[z] = [n \in Round |-> IF n <= k THEN X(z, n) ELSE a[z][n]]
        BY <1>10
      <4>2. [l.arrival[z] EXCEPT ![k+1] = Min({@, At(sd, c.arr) + T.foot[c.to][z]})]
              = [n \in Round |-> IF n = k + 1 THEN Min({l.arrival[z][n], At(sd, c.arr) + T.foot[c.to][z]})
                                 ELSE l.arrival[z][n]]
        BY <1>1, <4>1
      <4>3. ASSUME NEW n \in Round
            PROVE  (IF n = k + 1 THEN Min({l.arrival[z][n], At(sd, c.arr) + T.foot[c.to][z]})
                                 ELSE l.arrival[z][n])
                     = IF n <= k + 1 THEN X(z, n) ELSE a[z][n]
        <5>1. CASE n = k + 1
          <6>1. l.arrival[z][k + 1] = a[z][k + 1]
            BY <1>1, <1>3
          <6>2. k + 1 <= k + 1
            BY <1>1
          <6> QED BY <1>11, <2>1, <5>1, <6>1, <6>2
        <5>2. CASE n # k + 1
          BY <1>1, <1>3, <5>2
        <5> QED BY <5>1, <5>2
      <4> QED BY <4>2, <4>3
    <3>3. [z \in Station |-> [l.arrival[z] EXCEPT ![k+1] =
                                    Min({@, At(sd, c.arr) + T.foot[c.to][z]})]]
          = [z \in Station |-> [n \in Round |-> IF n <= k + 1 THEN X(z, n) ELSE a[z][n]]]
      BY <3>2
    <3> QED BY <1>10, <3>1, <3>3
  <2>2. CASE ~Lowers(T, i, sd, a, r, k)
    <3>1. new.arrival = l.arrival
      BY <1>6, <1>8, <2>2
    <3> HIDE DEF new
    <3>2. ASSUME NEW z \in Station, NEW n \in Round
          PROVE  (IF n <= k THEN X(z, n) ELSE a[z][n]) = IF n <= k + 1 THEN X(z, n) ELSE a[z][n]
      <4>1. CASE n = k + 1
        <5>1. X(z, n) = a[z][n]
          BY <1>11, <2>2, <4>1
        <5> QED BY <5>1
      <4>2. CASE n # k + 1
        BY <1>1, <4>2
      <4> QED BY <4>1, <4>2
    <3>3. l.arrival = m.arrival
      BY <1>10, <3>2
    <3> QED BY <3>1, <3>3
  <2> QED BY <2>1, <2>2
<1>14. new.reachable = m.reachable
  <2>1. CASE Reached(T, i, sd, a, r, k) /\ ~(r[c.trip][k] <= c.idx)
    <3>1. new.reachable = [l.reachable EXCEPT ![c.trip][k] = c.idx]
      BY <1>6, <1>7, <2>1
    <3> HIDE DEF new
    <3>2. [l.reachable EXCEPT ![c.trip][k] = c.idx]
            = [t \in DOMAIN T.trips |-> [n \in Round |->
                 IF t = c.trip /\ n = k THEN c.idx ELSE l.reachable[t][n]]]
      <4> DEFINE f == l.reachable
      <4>1. f = [t \in DOMAIN T.trips |-> f[t]]
        BY <1>10
      <4>2. \A t \in DOMAIN T.trips : f[t] = [n \in Round |-> f[t][n]]
        BY <1>10
      <4> HIDE DEF f, c
      <4>3. [f EXCEPT ![c.trip][k] = c.idx]
            = [t \in DOMAIN T.trips |-> [n \in Round |->
                 IF t = c.trip /\ n = k THEN c.idx ELSE f[t][n]]]
        BY <1>1, <1>2, <4>1, <4>2, GridExcept
      <4> QED BY <4>3 DEF f
    <3>3. ASSUME NEW t \in DOMAIN T.trips, NEW n \in Round
          PROVE  (IF t = c.trip /\ n = k THEN c.idx ELSE l.reachable[t][n])
                   = IF n < k + 1 THEN Y(t, n) ELSE r[t][n]
      <4>1. CASE n = k
        <5>1. l.reachable[t][k] = r[t][k] /\ k < k + 1
          BY <1>1, <1>3
        <5> QED BY <1>12, <2>1, <4>1, <5>1
      <4>2. CASE n # k
        BY <1>1, <1>3, <4>2
      <4> QED BY <4>1, <4>2
    <3>4. [t \in DOMAIN T.trips |-> [n \in Round |->
                 IF t = c.trip /\ n = k THEN c.idx ELSE l.reachable[t][n]]]
          = [t \in DOMAIN T.trips |-> [n \in Round |-> IF n < k + 1 THEN Y(t, n) ELSE r[t][n]]]
      BY <3>3
    <3> QED BY <1>10, <3>1, <3>2, <3>4
  <2>2. CASE ~(Reached(T, i, sd, a, r, k) /\ ~(r[c.trip][k] <= c.idx))
    <3>1. new.reachable = l.reachable
      BY <1>6, <1>7, <2>2
    <3> HIDE DEF new
    <3>2. ASSUME NEW t \in DOMAIN T.trips, NEW n \in Round
          PROVE  (IF n < k THEN Y(t, n) ELSE r[t][n]) = IF n < k + 1 THEN Y(t, n) ELSE r[t][n]
      <4>1. CASE n = k
        <5>1. Y(t, k) = r[t][k]
          BY <1>12, <2>2
        <5> QED BY <4>1, <5>1
      <4>2. CASE n # k
        BY <1>1, <4>2
      <4> QED BY <4>1, <4>2
    <3> QED BY <1>10, <3>1, <3>2
  <2> QED BY <2>1, <2>2
<1>15. new = [arrival |-> new.arrival, reachable |-> new.reachable]
  BY <1>10
<1> HIDE DEF new
<1>16. new = m
  BY <1>10, <1>13, <1>14, <1>15
<1> QED BY <1>9, <1>16 DEF new, l, m

LEMMA AfterNone ==
  ASSUME NEW T, NEW i, NEW sd, NEW a, Labels(a), NEW r, Marks(T, r)
  PROVE  After(T, i, sd, a, r, 0) = [arrival |-> a, reachable |-> r]
<1>1. a = [z \in Station |-> [k \in Round |-> a[z][k]]]
  BY DEF Labels
<1>2. r = [t \in DOMAIN T.trips |-> [k \in Round |-> r[t][k]]]
  BY DEF Marks
<1>3. ASSUME NEW z \in Station, NEW k \in Round
      PROVE  (IF k <= 0 THEN NewLabel(T, i, sd, a, r, z, k) ELSE a[z][k]) = a[z][k]
  <2>1. k \in Nat
    BY SearchAssumption DEF Round
  <2>2. k <= 0 => ~(k > 0)
    BY <2>1
  <2> QED BY <2>2 DEF NewLabel
<1>4. [z \in Station |-> [k \in Round |->
          IF k <= 0 THEN NewLabel(T, i, sd, a, r, z, k) ELSE a[z][k]]]
        = [z \in Station |-> [k \in Round |-> a[z][k]]]
  BY <1>3
<1>5. ASSUME NEW t \in DOMAIN T.trips, NEW k \in Round
      PROVE  (IF k < 0 THEN NewMark(T, i, sd, a, r, t, k) ELSE r[t][k]) = r[t][k]
  <2>1. k \in Nat
    BY SearchAssumption DEF Round
  <2> QED BY <2>1
<1>6. [t \in DOMAIN T.trips |-> [k \in Round |->
          IF k < 0 THEN NewMark(T, i, sd, a, r, t, k) ELSE r[t][k]]]
        = [t \in DOMAIN T.trips |-> [k \in Round |-> r[t][k]]]
  BY <1>5
<1> QED BY <1>1, <1>2, <1>4, <1>6 DEF After

LEMMA AfterAll ==
  ASSUME NEW T, NEW i, NEW sd, NEW a, NEW r
  PROVE  /\ After(T, i, sd, a, r, MaxTransfers).arrival = NewLabels(T, i, sd, a, r)
         /\ After(T, i, sd, a, r, MaxTransfers).reachable = NewMarks(T, i, sd, a, r)
<1>1. \A k \in Round : k <= MaxTransfers
  BY SearchAssumption DEF Round
<1>2. [z \in Station |-> [k \in Round |->
          IF k <= MaxTransfers THEN NewLabel(T, i, sd, a, r, z, k) ELSE a[z][k]]]
        = NewLabels(T, i, sd, a, r)
  BY <1>1 DEF NewLabels
<1>3. ASSUME NEW t \in DOMAIN T.trips, NEW k \in Round
      PROVE  (IF k < MaxTransfers THEN NewMark(T, i, sd, a, r, t, k) ELSE r[t][k])
                = NewMark(T, i, sd, a, r, t, k)
  BY DEF NewMark
<1>4. [t \in DOMAIN T.trips |-> [k \in Round |->
          IF k < MaxTransfers THEN NewMark(T, i, sd, a, r, t, k) ELSE r[t][k]]]
        = NewMarks(T, i, sd, a, r)
  BY <1>3 DEF NewMarks
<1> QED BY <1>2, <1>4 DEF After

LEMMA RelaxedIs ==
  ASSUME IsTimetable(tt), Position.con \in DOMAIN tt.cons,
         NEW d \in tt.trips[tt.cons[Position.con].trip].days,
         Position.day = d + tt.cons[Position.con].offset,
         Labels(arrival), Marks(tt, reachable)
  PROVE  /\ Relaxed.arrival = NewLabels(tt, Position.con, Position.day, arrival, reachable)
         /\ Relaxed.reachable = NewMarks(tt, Position.con, Position.day, arrival, reachable)
<1> DEFINE V(f) == f = [k \in Round |-> IF k = 0 THEN [arrival |-> arrival, reachable |-> reachable]
                                        ELSE Relax(f[k - 1], k - 1)]
           after == CHOOSE f : V(f)
           A(n) == After(tt, Position.con, Position.day, arrival, reachable, n)
           g == [n \in Round |-> A(n)]
<1>1. Relaxed = after[MaxTransfers]
  BY DEF Relaxed
<1>2. \A l, k : Relax(l, k) = RelaxBy(tt, Position.con, Position.day, l, k)
  BY DEF Relax, RelaxBy, Con, Expanded
<1>3. A(0) = [arrival |-> arrival, reachable |-> reachable]
  BY AfterNone
<1>4. ASSUME NEW k \in 1..MaxTransfers PROVE A(k) = Relax(A(k - 1), k - 1)
  <2>1. k - 1 \in 0..MaxTransfers - 1 /\ k - 1 + 1 = k
    BY SearchAssumption
  <2>2. RelaxBy(tt, Position.con, Position.day, A(k - 1), k - 1) = A(k - 1 + 1)
    BY <2>1, RelaxStep
  <2> QED BY <1>2, <2>1, <2>2
<1>5. MaxTransfers \in Nat /\ \A k \in Round : k = 0 \/ (k \in 1..MaxTransfers /\ k - 1 \in Round)
  BY SearchAssumption DEF Round
<1> HIDE DEF A
<1>6. V(g)
  <2>1. ASSUME NEW k \in Round
        PROVE  A(k) = IF k = 0 THEN [arrival |-> arrival, reachable |-> reachable]
                                        ELSE Relax(g[k - 1], k - 1)
    <3>1. CASE k = 0
      BY <1>3, <3>1
    <3>2. CASE k # 0
      <4>1. k \in 1..MaxTransfers /\ k - 1 \in Round
        BY <1>5, <3>2
      <4>2. g[k - 1] = A(k - 1)
        BY <4>1
      <4> HIDE DEF g
      <4> QED BY <1>4, <3>2, <4>1, <4>2
    <3> QED BY <3>1, <3>2
  <2> QED BY <2>1
<1>7. V(after)
  <2> HIDE DEF V, g
  <2> QED BY <1>6
<1> HIDE DEF after, g
<1> DEFINE bad == {n \in Round : after[n] # A(n)}
<1>8. bad = {}
  <2> SUFFICES ASSUME bad # {} PROVE FALSE
    OBVIOUS
  <2>1. PICK k \in bad : \A y \in bad : k <= y
    <3>1. bad \in SUBSET Nat
      BY <1>5 DEF Round
    <3> HIDE DEF bad
    <3> QED BY <3>1, Least
  <2>2. k \in Round /\ after[k] # A(k) /\ k \in Nat
    BY <1>5 DEF Round
  <2>3. k # 0
    BY <1>3, <1>7, <2>2
  <2>4. k \in 1..MaxTransfers /\ k - 1 \in Round /\ ~(k <= k - 1)
    BY <1>5, <2>2, <2>3
  <2>5. after[k - 1] = A(k - 1)
    BY <2>1, <2>4
  <2>6. after[k] = Relax(after[k - 1], k - 1)
    BY <1>7, <2>2, <2>3
  <2> QED BY <1>4, <2>2, <2>4, <2>5, <2>6
<1>9. Relaxed = A(MaxTransfers)
  <2>1. MaxTransfers \in Round
    BY <1>5 DEF Round
  <2> QED BY <1>1, <1>8, <2>1
<1> QED BY <1>9, AfterAll DEF A

(* A new label is the old one, or the end of the ride with the connection. *)
LEMMA NewLabelCases ==
  ASSUME NEW T, IsTimetable(T), NEW i \in DOMAIN T.cons,
         NEW d \in T.trips[T.cons[i].trip].days, NEW sd, sd = d + T.cons[i].offset,
         NEW a, Labels(a), NEW r, NEW z \in Station, NEW k \in Round,
         NewLabel(T, i, sd, a, r, z, k) # a[z][k]
  PROVE  /\ NewLabel(T, i, sd, a, r, z, k) = At(sd, T.cons[i].arr) + T.foot[T.cons[i].to][z]
         /\ NewLabel(T, i, sd, a, r, z, k) < a[z][k]
         /\ k \in 1..MaxTransfers /\ Lowers(T, i, sd, a, r, k - 1)
<1> DEFINE n == NewLabel(T, i, sd, a, r, z, k)
           e == At(sd, T.cons[i].arr) + T.foot[T.cons[i].to][z]
<1>1. n # a[z][k] /\ n \in 0..Never /\ n <= a[z][k] /\ a[z][k] \in 0..Never /\ e \in Nat
  BY NewLabelIs
<1>2. k > 0 /\ Lowers(T, i, sd, a, r, k - 1) /\ n = Min({a[z][k], e})
  BY <1>1 DEF NewLabel
<1>3. n < a[z][k]
  BY <1>1, NeverIs
<1>4. n = e
  <2> DEFINE o == a[z][k]
  <2>1. {o, e} \in SUBSET Nat /\ {o, e} # {}
    BY <1>1, NeverIs
  <2> HIDE DEF o, e
  <2>2. Min({o, e}) \in {o, e}
    BY <2>1, MinIs
  <2> QED BY <1>1, <1>2, <2>2 DEF o
<1>5. k \in 1..MaxTransfers
  BY <1>2, SearchAssumption DEF Round
<1> QED BY <1>2, <1>3, <1>4, <1>5

LEMMA NewLabelBounds ==
  ASSUME NEW T, IsTimetable(T), NEW i \in DOMAIN T.cons,
         NEW d \in T.trips[T.cons[i].trip].days, NEW sd, sd = d + T.cons[i].offset,
         NEW a, Labels(a), NEW r, NEW z \in Station, NEW k \in Round
  PROVE  /\ a[z][k] \in 0..Never /\ NewLabel(T, i, sd, a, r, z, k) \in 0..Never
         /\ NewLabel(T, i, sd, a, r, z, k) <= a[z][k]
         /\ At(sd, T.cons[i].arr) + T.foot[T.cons[i].to][z] \in Nat
         /\ At(sd, T.cons[i].dep) < At(sd, T.cons[i].arr) + T.foot[T.cons[i].to][z]
         /\ k \in 1..MaxTransfers /\ Lowers(T, i, sd, a, r, k - 1)
              => NewLabel(T, i, sd, a, r, z, k) <= At(sd, T.cons[i].arr) + T.foot[T.cons[i].to][z]
<1>1. k \in 1..MaxTransfers => k > 0
  BY SearchAssumption
<1> QED BY <1>1, NewLabelIs

-----------------------------------------------------------------------------
(* What is known when the scan stands before connection i of day sd.  B    *)
(* are the best labels; trips must be under way for less than a day.       *)
Boardable(T, b, t, d, e) ==
  Runs(T, t, d, e) /\ T.trips[t].in[e] /\ b[BoardAt(T, t, e)] <= DepOf(T, t, d, e)

At0(a, k) == [s \in Station |-> a[s][k]]

(* Labels of round 0 are final, and no label is too early.                 *)
FirstKept(B, a) == \A s \in Station : a[s][0] = B[0][s]
Sound(B, a)     == \A s \in Station, k \in Round : B[k][s] <= a[s][k]

(* A mark is a section already passed where the train of some day could be *)
(* boarded.                                                                *)
Earned(T, a, r, i, sd, t, k) ==
  r[t][k] # NoIdx =>
    \E d : /\ Boardable(T, At0(a, k), t, d, r[t][k])
           /\ Passed(T, i, sd, t, d, r[t][k])

MarksEarned(T, a, r, i, sd) ==
  \A t \in DOMAIN T.trips, k \in Round : Earned(T, a, r, i, sd, t, k)

(* Trains passed that can be boarded are marked, and rides on them taken.  *)
MarksComplete(T, B, r, i, sd) ==
  \A k \in 0..MaxTransfers - 1 : \A t, d, e :
    Boardable(T, B[k], t, d, e) /\ Passed(T, i, sd, t, d, e) => r[t][k] <= e

Taken(T, B, a, i, sd, k, z) ==
  \A t, d, e, j :
    Boardable(T, B[k], t, d, e) /\ Runs(T, t, d, j) /\ e <= j /\ T.trips[t].out[j]
      /\ Passed(T, i, sd, t, d, j)
    => a[z][k + 1] <= RideEnd(T, t, d, j, z)

RidesTaken(T, B, a, i, sd) ==
  \A k \in 0..MaxTransfers - 1, z \in Station : Taken(T, B, a, i, sd, k, z)

(* A label was set from some station, together with those of all others.   *)
RootedAt(T, a, y, k, v, x) ==
  a[y][k] = v + T.foot[x][y] /\ \A z \in Station : a[z][k] <= v + T.foot[x][z]

Rooted(T, a) ==
  \A k \in 1..MaxTransfers, y \in Station :
    a[y][k] = Never \/ \E v \in Nat, x \in Station : RootedAt(T, a, y, k, v, x)

ScanInv(T, B, a, r, i, sd) ==
  /\ Labels(a) /\ Marks(T, r)
  /\ FirstKept(B, a) /\ Sound(B, a) /\ MarksEarned(T, a, r, i, sd)
  /\ MarksComplete(T, B, r, i, sd) /\ RidesTaken(T, B, a, i, sd) /\ Rooted(T, a)

(* The trips are shorter than a day and than NoIdx sections.               *)
IsDaily(T) ==
  TripsWithinDay(T.trips) /\ \A t \in DOMAIN T.trips : Len(T.trips[t].dep) < NoIdx

(* Where nothing more was passed, nothing has to be done.                  *)
LEMMA NothingPassed ==
  ASSUME NEW T, NEW B, NEW a, NEW r, NEW i, NEW sd, ScanInv(T, B, a, r, i, sd),
         NEW h, NEW sh,
         \A t, d, j : Runs(T, t, d, j) => (Passed(T, h, sh, t, d, j) <=> Passed(T, i, sd, t, d, j))
  PROVE  ScanInv(T, B, a, r, h, sh)
<1>1. /\ Labels(a) /\ Marks(T, r) /\ FirstKept(B, a) /\ Sound(B, a) /\ Rooted(T, a)
      /\ MarksEarned(T, a, r, i, sd) /\ MarksComplete(T, B, r, i, sd) /\ RidesTaken(T, B, a, i, sd)
  BY DEF ScanInv
<1>2. MarksEarned(T, a, r, h, sh)
  BY <1>1 DEF MarksEarned, Earned, Boardable
<1>3. MarksComplete(T, B, r, h, sh)
  BY <1>1 DEF MarksComplete, Boardable
<1>4. RidesTaken(T, B, a, h, sh)
  BY <1>1 DEF RidesTaken, Taken
<1> QED BY <1>1, <1>2, <1>3, <1>4 DEF ScanInv

(* A best label that is due has been reached.                              *)
LEMMA DueIsReached ==
  ASSUME NEW T, IsTimetable(T), NEW sources, NEW start, NEW limit,
         NEW B, IsBest(B, T, sources, start, limit), NEW a, Labels(a),
         NEW i \in DOMAIN T.cons, NEW sd \in Nat,
         FirstKept(B, a), RidesTaken(T, B, a, i, sd),
         NEW k \in Round, NEW s \in Station, B[k][s] <= At(sd, T.cons[i].dep)
  PROVE  a[s][k] <= B[k][s]
<1>1. /\ a[s][k] \in Nat /\ a[s][k] <= Never /\ B[k][s] \in Nat /\ k \in Nat
  BY NeverIs, SearchAssumption DEF Labels, IsBest, Round
<1>2. CASE k = 0
  BY <1>1, <1>2 DEF FirstKept
<1>3. CASE B[k][s] = Never
  BY <1>1, <1>3
<1>4. CASE k # 0 /\ B[k][s] # Never
  <2> DEFINE n == NextBest(T, limit, B[k - 1])[s]
  <2>1. k \in 1..MaxTransfers /\ k - 1 \in 0..MaxTransfers - 1 /\ k - 1 + 1 = k
    BY <1>1, <1>4, SearchAssumption DEF Round
  <2>2. B[k][s] = n
    BY <2>1 DEF IsBest
  <2>3. n = Never \/ \E t, d, e, j : CanRide(T, limit, B[k - 1], t, d, e, j) /\ n = RideEnd(T, t, d, j, s)
    BY NextBestIs
  <2> HIDE DEF n
  <2>4. PICK t, d, e, j : CanRide(T, limit, B[k - 1], t, d, e, j) /\ B[k][s] = RideEnd(T, t, d, j, s)
    BY <1>4, <2>2, <2>3
  <2>5. /\ RideEnd(T, t, d, j, s) \in Nat /\ DepOf(T, t, d, j) \in Nat
        /\ DepOf(T, t, d, j) < RideEnd(T, t, d, j, s)
    BY <2>4, RideEndIs
  <2>6. Runs(T, t, d, j) /\ Runs(T, t, d, e) /\ e <= j /\ T.trips[t].out[j]
        /\ Boardable(T, B[k - 1], t, d, e)
    BY <2>4 DEF CanRide, Boardable
  <2>7. At(sd, T.cons[i].dep) \in Int
    <3>1. sd \in Int /\ T.cons[i].dep \in Int
      BY ConnectionFacts
    <3> QED BY <3>1, AtIs
  <2>8. DepOf(T, t, d, j) < At(sd, T.cons[i].dep)
    BY <2>4, <2>5, <2>7
  <2>9. Passed(T, i, sd, t, d, j)
    BY <2>6, <2>8, EarlierIsPassed
  <2>10. Taken(T, B, a, i, sd, k - 1, s)
    BY <2>1 DEF RidesTaken
  <2>11. a[s][k - 1 + 1] <= RideEnd(T, t, d, j, s)
    BY <2>6, <2>9, <2>10 DEF Taken
  <2> QED BY <2>1, <2>4, <2>11
<1> QED BY <1>2, <1>3, <1>4

(* Who reaches the connection could really board its train before.         *)
LEMMA ReachedMeansBoardable ==
  ASSUME NEW T, IsTimetable(T), IsDaily(T), NEW i \in DOMAIN T.cons,
         NEW d \in T.trips[T.cons[i].trip].days, NEW sd, sd = d + T.cons[i].offset,
         NEW a, Labels(a), NEW r, Marks(T, r), MarksEarned(T, a, r, i, sd),
         NEW k \in Round, Reached(T, i, sd, a, r, k)
  PROVE  \E e : /\ Boardable(T, At0(a, k), T.cons[i].trip, d, e)
                /\ e \in Nat /\ e <= T.cons[i].idx
<1> DEFINE t == T.cons[i].trip
           n == T.cons[i].idx
           m == r[t][k]
<1>1. /\ sd \in Nat /\ t \in DOMAIN T.trips /\ n \in Nat
      /\ T.cons[i].from = BoardAt(T, t, n) /\ BoardAt(T, t, n) \in Station
      /\ At(sd, T.cons[i].dep) = DepOf(T, t, d, n)
      /\ T.cons[i].in = T.trips[t].in[n] /\ Runs(T, t, d, n)
  BY ScannedIs, SMTT(30)
<1>2. CASE a[T.cons[i].from][k] <= At(sd, T.cons[i].dep) /\ T.cons[i].in
  <2>1. Boardable(T, At0(a, k), t, d, n)
    BY <1>1, <1>2 DEF Boardable, At0
  <2>2. n <= n
    BY <1>1
  <2> QED BY <1>1, <2>1, <2>2
<1>3. CASE m <= n
  <2>1. m \in Nat
    BY <1>1 DEF Marks
  <2>2. m # NoIdx
    <3>1. Len(T.trips[t].dep) < NoIdx
      BY <1>1 DEF IsDaily
    <3>2. n \in DOMAIN T.trips[t].dep /\ IsTrip(T.trips[t])
      BY <1>1 DEF Runs, Section, IsTimetable
    <3>3. n <= Len(T.trips[t].dep) /\ Len(T.trips[t].dep) \in Nat
      BY <3>2, TripFacts
    <3> QED BY <1>1, <1>3, <2>1, <3>1, <3>3 DEF NoIdx
  <2>3. PICK b : Boardable(T, At0(a, k), t, b, m) /\ Passed(T, i, sd, t, b, m)
    BY <1>1, <2>2 DEF MarksEarned, Earned
  <2> HIDE DEF t, n, m
  <2>4. Runs(T, t, b, m) /\ T.trips[t].in[m] /\ At0(a, k)[BoardAt(T, t, m)] <= DepOf(T, t, b, m)
    BY <2>3 DEF Boardable
  <2>5. Runs(T, t, d, m)
    BY <1>1, <2>4 DEF Runs
  <2>6. /\ b \in Int /\ d \in Int /\ BoardAt(T, t, m) \in Station
        /\ T.trips[t].dep[m] \in Int /\ T.trips[t].dep[n] \in Int
        /\ DepOf(T, t, b, m) \in Int /\ DepOf(T, t, d, m) \in Int
    <3>1. /\ b \in Nat /\ BoardAt(T, t, m) \in Station /\ IsTrip(T.trips[t])
          /\ DepOf(T, t, b, m) \in Nat
      BY <2>4, SectionFacts
    <3>2. d \in Nat /\ DepOf(T, t, d, m) \in Nat
      BY <2>5, SectionFacts
    <3>3. m \in DOMAIN T.trips[t].dep /\ n \in DOMAIN T.trips[t].dep
      BY <1>1, <2>4 DEF Runs, Section
    <3>4. T.trips[t].dep[m] \in Nat /\ T.trips[t].dep[n] \in Nat
      BY <3>1, <3>3, TripFacts
    <3> QED BY <3>1, <3>2, <3>4
  <2>7. DepOf(T, t, b, m) <= DepOf(T, t, d, n)
    BY <1>1, <2>3, <2>4, EarlierIsPassed
  <2>8. b <= d
    <3> SUFFICES ASSUME d < b PROVE FALSE
      BY <2>6
    <3>1. T.trips[t].dep[n] - T.trips[t].dep[m] < DayLen
      BY <1>1, <2>4 DEF IsDaily, TripsWithinDay, Runs, Section
    <3> DEFINE td == T.trips[t].dep
    <3>2. td[m] \in Int /\ td[n] \in Int /\ b \in Int /\ d \in Int
      BY <2>6
    <3> HIDE DEF td
    <3>3. At(d, td[n]) - At(d, td[m]) = td[n] - td[m]
      BY <3>2, AtIs
    <3>4. At(d, td[m]) + DayLen <= At(b, td[m])
      BY <3>2, AtIs
    <3>5. At(d, td[n]) \in Int /\ At(d, td[m]) \in Int /\ At(b, td[m]) \in Int
      BY <3>2, AtIs
    <3>6. At(b, td[m]) <= At(d, td[n])
      BY <2>7 DEF DepOf, td
    <3>7. td[n] - td[m] < DayLen
      BY <3>1 DEF td
    <3> QED BY <3>2, <3>3, <3>4, <3>5, <3>6, <3>7, NeverIs
  <2>9. DepOf(T, t, b, m) <= DepOf(T, t, d, m)
    <3>1. CASE b = d
      BY <2>6, <3>1
    <3>2. CASE b < d
      <4>1. At(b, T.trips[t].dep[m]) + DayLen <= At(d, T.trips[t].dep[m])
        BY <2>6, <3>2, AtIs
      <4> QED BY <2>6, <4>1, NeverIs DEF DepOf
    <3> QED BY <2>6, <2>8, <3>1, <3>2
  <2>10. At0(a, k)[BoardAt(T, t, m)] \in Nat
    BY <2>6, NeverIs DEF At0, Labels
  <2>11. At0(a, k)[BoardAt(T, t, m)] <= DepOf(T, t, d, m)
    BY <2>4, <2>6, <2>9, <2>10
  <2>12. Boardable(T, At0(a, k), t, d, m)
    BY <2>4, <2>5, <2>11 DEF Boardable
  <2> QED BY <1>3, <2>1, <2>12 DEF t, n
<1> QED BY <1>2, <1>3 DEF Reached

(* Sound labels stay sound.                                                *)
LEMMA SoundStep ==
  ASSUME NEW T, IsTimetable(T), IsDaily(T), NEW i \in DOMAIN T.cons,
         NEW d \in T.trips[T.cons[i].trip].days, NEW sd, sd = d + T.cons[i].offset,
         NEW sources, NEW start, NEW limit, At(sd, T.cons[i].dep) <= limit,
         NEW B, IsBest(B, T, sources, start, limit),
         NEW a, NEW r, ScanInv(T, B, a, r, i, sd)
  PROVE  Sound(B, NewLabels(T, i, sd, a, r))
<1>1. Labels(a) /\ Marks(T, r) /\ Sound(B, a) /\ MarksEarned(T, a, r, i, sd)
  BY DEF ScanInv
<1> SUFFICES ASSUME NEW z \in Station, NEW k \in Round
             PROVE  B[k][z] <= NewLabel(T, i, sd, a, r, z, k)
  BY DEF Sound, NewLabels
<1> DEFINE t == T.cons[i].trip
           n == T.cons[i].idx
           new == NewLabel(T, i, sd, a, r, z, k)
           e == At(sd, T.cons[i].arr) + T.foot[T.cons[i].to][z]
<1>2. CASE new # a[z][k]
  <2>0. new = e /\ k \in 1..MaxTransfers /\ Lowers(T, i, sd, a, r, k - 1)
    <3>0. Labels(a) /\ NewLabel(T, i, sd, a, r, z, k) # a[z][k]
      BY <1>1, <1>2
    <3> HIDE DEF new, e, t, n
    <3>2. Lowers(T, i, sd, a, r, k - 1)
      BY <3>0, NewLabelCases
    <3>3. NewLabel(T, i, sd, a, r, z, k) = At(sd, T.cons[i].arr) + T.foot[T.cons[i].to][z]
      BY <3>0, NewLabelCases
    <3>4. k \in 1..MaxTransfers
      BY <3>0, SearchAssumption DEF NewLabel, Round
    <3> QED BY <3>2, <3>3, <3>4 DEF new, e
  <2>1. k \in 1..MaxTransfers /\ k - 1 \in Round
    <3>1. k \in 1..MaxTransfers
      BY <2>0
    <3> QED BY <3>1, SearchAssumption DEF Round
  <2>2. Reached(T, i, sd, a, r, k - 1) /\ T.cons[i].out
    BY <2>0 DEF Lowers
  <2>3. PICK b : Boardable(T, At0(a, k - 1), t, d, b) /\ b \in Nat /\ b <= n
    BY <1>1, <2>1, <2>2, ReachedMeansBoardable
  <2>4. /\ At(sd, T.cons[i].dep) = DepOf(T, t, d, n) /\ At(sd, T.cons[i].arr) = ArrOf(T, t, d, n)
        /\ T.cons[i].to = LeaveAt(T, t, n) /\ T.cons[i].out = T.trips[t].out[n] /\ Runs(T, t, d, n)
    BY ScannedIs, SMTT(30)
  <2>5. Runs(T, t, d, b) /\ T.trips[t].in[b] /\ a[BoardAt(T, t, b)][k - 1] <= DepOf(T, t, d, b)
    <3>1. Runs(T, t, d, b) /\ T.trips[t].in[b] /\ At0(a, k - 1)[BoardAt(T, t, b)] <= DepOf(T, t, d, b)
      BY <2>3 DEF Boardable
    <3>2. BoardAt(T, t, b) \in Station
      BY <3>1, SectionFacts
    <3> QED BY <3>1, <3>2 DEF At0
  <2>6. BoardAt(T, t, b) \in Station /\ DepOf(T, t, d, b) \in Nat
    BY <2>5, SectionFacts
  <2>7. B[k - 1][BoardAt(T, t, b)] \in Nat /\ a[BoardAt(T, t, b)][k - 1] \in Nat
        /\ B[k - 1][BoardAt(T, t, b)] <= a[BoardAt(T, t, b)][k - 1]
    BY <1>1, <2>1, <2>6, NeverIs DEF IsBest, Labels, Sound
  <2>8. B[k - 1][BoardAt(T, t, b)] <= DepOf(T, t, d, b)
    BY <2>5, <2>6, <2>7
  <2>9. CanRide(T, limit, B[k - 1], t, d, b, n)
    BY <2>2, <2>3, <2>4, <2>5, <2>8 DEF CanRide
  <2>10. B[k] = NextBest(T, limit, B[k - 1])
    BY <2>1 DEF IsBest
  <2>11. NextBest(T, limit, B[k - 1])[z] <= RideEnd(T, t, d, n, z)
    BY <2>9, NextBestIs
  <2> QED BY <2>0, <2>4, <2>10, <2>11 DEF RideEnd
<1>3. CASE new = a[z][k]
  BY <1>1, <1>3 DEF Sound
<1> QED BY <1>2, <1>3

(* Rounds 0 labels do not change.                                          *)
LEMMA FirstStep ==
  ASSUME NEW T, NEW B, NEW a, NEW r, NEW i, NEW sd, FirstKept(B, a)
  PROVE  FirstKept(B, NewLabels(T, i, sd, a, r))
<1>1. 0 \in Round
  BY SearchAssumption DEF Round
<1> SUFFICES ASSUME NEW z \in Station PROVE NewLabel(T, i, sd, a, r, z, 0) = B[0][z]
  BY <1>1 DEF FirstKept, NewLabels
<1> QED BY DEF NewLabel, FirstKept

(* The new marks: not above the old ones, new ones only where boarded.     *)
LEMMA NewMarkIs ==
  ASSUME NEW T, IsTimetable(T), NEW i \in DOMAIN T.cons, NEW sd, NEW a, NEW r, Marks(T, r),
         NEW t \in DOMAIN T.trips, NEW k \in Round
  PROVE  /\ r[t][k] \in Nat /\ NewMark(T, i, sd, a, r, t, k) \in Nat
         /\ NewMark(T, i, sd, a, r, t, k) <= r[t][k]
<1> DEFINE n == T.cons[i].idx
           m == r[t][k]
<1>1. n \in Nat /\ m \in Nat
  BY ConnectionFacts DEF Marks
<1> HIDE DEF m, n
<1>2. CASE m <= n
  <2>1. NewMark(T, i, sd, a, r, t, k) = m
    BY <1>2 DEF NewMark, m, n
  <2> QED BY <1>1, <2>1 DEF m
<1>3. CASE n < m
  <2>1. NewMark(T, i, sd, a, r, t, k) \in {m, n}
    BY DEF NewMark, m, n
  <2> QED BY <1>1, <1>3, <2>1 DEF m
<1>4. m <= n \/ n < m
  BY <1>1
<1> QED BY <1>2, <1>3, <1>4

LEMMA MarksEarnedStep ==
  ASSUME NEW T, IsTimetable(T), NEW i \in DOMAIN T.cons,
         NEW d \in T.trips[T.cons[i].trip].days, NEW sd, sd = d + T.cons[i].offset,
         NEW a, Labels(a), NEW r, Marks(T, r), MarksEarned(T, a, r, i, sd)
  PROVE  MarksEarned(T, NewLabels(T, i, sd, a, r), NewMarks(T, i, sd, a, r), i + 1, sd)
<1> DEFINE A == NewLabels(T, i, sd, a, r)
           M == NewMarks(T, i, sd, a, r)
           c == T.cons[i]
<1>1. /\ sd \in Nat /\ c.idx \in Nat /\ c.from \in Station
      /\ At(sd, c.dep) = DepOf(T, c.trip, d, c.idx) /\ At(sd, c.dep) \in Nat
      /\ c.from = BoardAt(T, c.trip, c.idx)
      /\ c.in = T.trips[c.trip].in[c.idx] /\ Runs(T, c.trip, d, c.idx)
  BY ScannedIs
<1>2. ASSUME NEW z \in Station, NEW k \in Round, NEW x \in Nat, a[z][k] <= x
      PROVE  At0(A, k)[z] <= x
  <2>1. a[z][k] \in Nat /\ NewLabel(T, i, sd, a, r, z, k) \in Nat
        /\ NewLabel(T, i, sd, a, r, z, k) <= a[z][k]
    <3>1. a[z][k] \in 0..Never /\ NewLabel(T, i, sd, a, r, z, k) \in 0..Never
          /\ NewLabel(T, i, sd, a, r, z, k) <= a[z][k]
      BY NewLabelBounds
    <3> QED BY <3>1, NeverIs
  <2>2. At0(A, k)[z] = NewLabel(T, i, sd, a, r, z, k)
    BY DEF At0, NewLabels
  <2> QED BY <1>2, <2>1, <2>2
<1> SUFFICES ASSUME NEW t \in DOMAIN T.trips, NEW k \in Round
             PROVE  Earned(T, A, M, i + 1, sd, t, k)
  BY DEF MarksEarned
<1>3. M[t][k] = NewMark(T, i, sd, a, r, t, k)
  BY DEF NewMarks
<1> HIDE DEF A, M
<1> SUFFICES ASSUME M[t][k] # NoIdx
             PROVE  \E b : Boardable(T, At0(A, k), t, b, M[t][k]) /\ Passed(T, i + 1, sd, t, b, M[t][k])
  BY DEF Earned
<1>4. CASE M[t][k] = r[t][k]
  <2>1. PICK b : Boardable(T, At0(a, k), t, b, r[t][k]) /\ Passed(T, i, sd, t, b, r[t][k])
    BY <1>4 DEF MarksEarned, Earned
  <2>2. Runs(T, t, b, r[t][k]) /\ T.trips[t].in[r[t][k]]
        /\ At0(a, k)[BoardAt(T, t, r[t][k])] <= DepOf(T, t, b, r[t][k])
    BY <2>1 DEF Boardable
  <2>3. BoardAt(T, t, r[t][k]) \in Station /\ DepOf(T, t, b, r[t][k]) \in Nat
    BY <2>2, SectionFacts
  <2>4. a[BoardAt(T, t, r[t][k])][k] <= DepOf(T, t, b, r[t][k])
    BY <2>2, <2>3 DEF At0
  <2>5. At0(A, k)[BoardAt(T, t, r[t][k])] <= DepOf(T, t, b, r[t][k])
    BY <1>2, <2>3, <2>4
  <2>6. Passed(T, i + 1, sd, t, b, r[t][k])
    BY <1>1, <2>1, <2>2, PassedStep
  <2> QED BY <1>4, <2>2, <2>5, <2>6 DEF Boardable
<1>5. CASE M[t][k] # r[t][k]
  <2>1. /\ M[t][k] = c.idx /\ t = c.trip
        /\ Reached(T, i, sd, a, r, k) /\ ~(r[t][k] <= c.idx)
    BY <1>3, <1>5 DEF NewMark
  <2>2. a[c.from][k] <= At(sd, c.dep) /\ c.in
    BY <2>1 DEF Reached
  <2>3. At0(A, k)[c.from] <= At(sd, c.dep)
    BY <1>1, <1>2, <2>2
  <2>4. Boardable(T, At0(A, k), t, d, c.idx)
    BY <1>1, <2>1, <2>2, <2>3 DEF Boardable
  <2>5. Passed(T, i + 1, sd, t, d, c.idx)
    BY <1>1, <2>1, PassedStep
  <2> QED BY <2>1, <2>4, <2>5
<1> QED BY <1>4, <1>5

(* A train that can be boarded with its best label and gets passed is      *)
(* marked.                                                                 *)
LEMMA MarksCompleteStep ==
  ASSUME NEW T, IsTimetable(T), NEW i \in DOMAIN T.cons,
         NEW d \in T.trips[T.cons[i].trip].days, NEW sd, sd = d + T.cons[i].offset,
         NEW sources, NEW start, NEW limit,
         NEW B, IsBest(B, T, sources, start, limit),
         NEW a, NEW r, ScanInv(T, B, a, r, i, sd)
  PROVE  MarksComplete(T, B, NewMarks(T, i, sd, a, r), i + 1, sd)
<1> DEFINE c == T.cons[i]
<1>1. Labels(a) /\ Marks(T, r) /\ FirstKept(B, a) /\ MarksComplete(T, B, r, i, sd)
      /\ RidesTaken(T, B, a, i, sd)
  BY DEF ScanInv
<1>2. /\ sd \in Nat /\ c.idx \in Nat /\ c.from \in Station /\ c.offset \in Nat
      /\ At(sd, c.dep) = DepOf(T, c.trip, d, c.idx) /\ At(sd, c.dep) \in Nat
      /\ c.from = BoardAt(T, c.trip, c.idx) /\ d \in Nat
      /\ c.in = T.trips[c.trip].in[c.idx] /\ Runs(T, c.trip, d, c.idx)
  BY ScannedIs, ConnectionFacts, ConnectionTimes, SMTT(30)
<1> SUFFICES ASSUME NEW k \in 0..MaxTransfers - 1, NEW t, NEW b, NEW e,
                    Boardable(T, B[k], t, b, e), Passed(T, i + 1, sd, t, b, e)
             PROVE  NewMark(T, i, sd, a, r, t, k) <= e
  <2>1. ASSUME NEW k \in 0..MaxTransfers - 1, NEW t, NEW b, NEW e, Boardable(T, B[k], t, b, e)
        PROVE  NewMarks(T, i, sd, a, r)[t][k] = NewMark(T, i, sd, a, r, t, k)
    <3>1. k \in Round /\ t \in DOMAIN T.trips
      BY <2>1, SearchAssumption DEF Round, Boardable, Runs, Section
    <3> QED BY <3>1 DEF NewMarks
  <2> QED BY <2>1 DEF MarksComplete
<1>3. /\ k \in Round /\ k < MaxTransfers /\ t \in DOMAIN T.trips /\ Runs(T, t, b, e) /\ T.trips[t].in[e]
      /\ B[k][BoardAt(T, t, e)] <= DepOf(T, t, b, e)
  BY SearchAssumption DEF Round, Boardable, Runs, Section
<1>4. /\ e \in Nat /\ b \in Nat
  BY <1>3, SectionFacts
<1>5. /\ r[t][k] \in Nat /\ NewMark(T, i, sd, a, r, t, k) \in Nat
      /\ NewMark(T, i, sd, a, r, t, k) <= r[t][k]
  BY <1>1, <1>3, NewMarkIs
<1>6. CASE Passed(T, i, sd, t, b, e)
  <2>1. r[t][k] <= e
    BY <1>1, <1>6 DEF MarksComplete
  <2> QED BY <1>4, <1>5, <2>1
<1>7. CASE c.trip = t /\ c.idx = e /\ b + c.offset = sd
  <2>1. b = d
    BY <1>2, <1>4, <1>7
  <2>2. a[c.from][k] <= B[k][c.from]
    BY <1>1, <1>2, <1>3, <1>7, <2>1, DueIsReached
  <2>3. a[c.from][k] \in Nat /\ B[k][c.from] \in Nat
    BY <1>1, <1>2, <1>3, NeverIs DEF Labels, IsBest
  <2>4. a[c.from][k] <= At(sd, c.dep) /\ c.in
    BY <1>2, <1>3, <1>7, <2>1, <2>2, <2>3
  <2>5. Reached(T, i, sd, a, r, k)
    BY <2>4 DEF Reached
  <2>6. r[t][k] <= c.idx \/ NewMark(T, i, sd, a, r, t, k) = c.idx
    BY <1>3, <1>7, <2>5 DEF NewMark
  <2> QED BY <1>2, <1>4, <1>5, <1>7, <2>6
<1> QED BY <1>2, <1>3, <1>6, <1>7, PassedStep

(* Labels remain rooted.                                                   *)
LEMMA RootedStep ==
  ASSUME NEW T, IsTimetable(T), NEW i \in DOMAIN T.cons,
         NEW d \in T.trips[T.cons[i].trip].days, NEW sd, sd = d + T.cons[i].offset,
         NEW a, Labels(a), NEW r, Rooted(T, a)
  PROVE  Rooted(T, NewLabels(T, i, sd, a, r))
<1> DEFINE A == NewLabels(T, i, sd, a, r)
           arr == At(sd, T.cons[i].arr)
           to == T.cons[i].to
<1>1. \A z \in Station, k \in Round : A[z][k] = NewLabel(T, i, sd, a, r, z, k)
  BY DEF NewLabels
<1>2. arr \in Nat /\ to \in Station
  BY ScannedIs
<1> SUFFICES ASSUME NEW k \in 1..MaxTransfers, NEW y \in Station, A[y][k] # Never
             PROVE  \E v \in Nat, x \in Station : RootedAt(T, A, y, k, v, x)
  BY DEF Rooted
<1>3. k \in Round
  BY SearchAssumption DEF Round
<1>4. ASSUME NEW z \in Station
      PROVE  /\ a[z][k] \in Nat /\ A[z][k] \in Nat /\ A[z][k] <= a[z][k]
             /\ arr + T.foot[to][z] \in Nat
             /\ Lowers(T, i, sd, a, r, k - 1) => A[z][k] <= arr + T.foot[to][z]
  <2>1. /\ a[z][k] \in 0..Never /\ NewLabel(T, i, sd, a, r, z, k) \in 0..Never
        /\ NewLabel(T, i, sd, a, r, z, k) <= a[z][k]
        /\ arr + T.foot[to][z] \in Nat
        /\ Lowers(T, i, sd, a, r, k - 1) => NewLabel(T, i, sd, a, r, z, k) <= arr + T.foot[to][z]
    BY <1>3, NewLabelBounds
  <2> QED BY <1>1, <1>3, <2>1, NeverIs
<1>5. CASE A[y][k] # a[y][k]
  <2>1. NewLabel(T, i, sd, a, r, y, k) # a[y][k]
    BY <1>1, <1>3, <1>5
  <2>2. /\ NewLabel(T, i, sd, a, r, y, k) = At(sd, T.cons[i].arr) + T.foot[T.cons[i].to][y]
        /\ Lowers(T, i, sd, a, r, k - 1)
    BY <1>3, <2>1, NewLabelCases
  <2>3. A[y][k] = arr + T.foot[to][y]
    BY <1>1, <1>3, <2>2
  <2> HIDE DEF A
  <2>4. RootedAt(T, A, y, k, arr, to)
    BY <1>4, <2>2, <2>3 DEF RootedAt
  <2> QED BY <1>2, <2>4
<1>6. CASE A[y][k] = a[y][k]
  <2> HIDE DEF A
  <2>1. PICK v \in Nat, x \in Station : RootedAt(T, a, y, k, v, x)
    BY <1>6 DEF Rooted
  <2>2. A[y][k] = v + T.foot[x][y]
    BY <1>6, <2>1 DEF RootedAt
  <2>3. ASSUME NEW z \in Station PROVE A[z][k] <= v + T.foot[x][z]
    <3>1. a[z][k] <= v + T.foot[x][z] /\ T.foot[x][z] \in Nat
      BY <2>1 DEF RootedAt, IsTimetable
    <3> QED BY <1>4, <3>1
  <2>4. RootedAt(T, A, y, k, v, x)
    BY <2>2, <2>3 DEF RootedAt
  <2> QED BY <2>4
<1> QED BY <1>5, <1>6

(* A ride with the connection, on a train that can be boarded, is taken:   *)
(* or its end was not above the label, and so neither beyond a walk.       *)
LEMMA TakenWhereReached ==
  ASSUME NEW T, IsTimetable(T), NEW i \in DOMAIN T.cons,
         NEW d \in T.trips[T.cons[i].trip].days, NEW sd, sd = d + T.cons[i].offset,
         NEW a, Labels(a), NEW r, Rooted(T, a),
         NEW k \in 0..MaxTransfers - 1, Reached(T, i, sd, a, r, k), T.cons[i].out,
         NEW z \in Station
  PROVE  NewLabel(T, i, sd, a, r, z, k + 1) <= At(sd, T.cons[i].arr) + T.foot[T.cons[i].to][z]
<1> DEFINE arr == At(sd, T.cons[i].arr)
           to == T.cons[i].to
<1>1. PICK m \in Round : m = k + 1 /\ m \in 1..MaxTransfers /\ m - 1 = k
  <2>1. k + 1 \in Round /\ k + 1 \in 1..MaxTransfers /\ k + 1 - 1 = k
    BY SearchAssumption DEF Round
  <2> QED BY <2>1
<1> DEFINE l == a[to][m]
           n == NewLabel(T, i, sd, a, r, z, m)
<1> SUFFICES n <= arr + T.foot[to][z]
  BY <1>1
<1>2. /\ a[z][m] \in 0..Never /\ n \in 0..Never /\ n <= a[z][m]
      /\ arr + T.foot[to][z] \in Nat
  BY NewLabelBounds
<1>9. Lowers(T, i, sd, a, r, m - 1) => n <= arr + T.foot[to][z]
  BY <1>1, NewLabelBounds
<1>3. arr \in Nat /\ to \in Station /\ T.foot[to][z] \in Nat
  BY ScannedIs
<1>4. l \in 0..Never
  BY <1>1, <1>3 DEF Labels
<1>5. CASE arr < l
  <2>1. Lowers(T, i, sd, a, r, k)
    BY <1>1, <1>5 DEF Lowers
  <2> QED BY <1>1, <1>9, <2>1
<1>6. CASE l <= arr /\ l = Never
  <2> HIDE DEF arr, to, l, n
  <2> QED BY <1>2, <1>3, <1>6, NeverIs
<1>7. CASE l <= arr /\ l # Never
  <2>1. PICK v \in Nat, x \in Station : RootedAt(T, a, to, m, v, x)
    BY <1>1, <1>3, <1>7 DEF Rooted
  <2>2. l = v + T.foot[x][to] /\ a[z][m] <= v + T.foot[x][z]
    BY <2>1 DEF RootedAt
  <2>3. T.foot[x][z] \in Nat /\ T.foot[x][to] \in Nat
        /\ T.foot[x][z] <= T.foot[x][to] + T.foot[to][z]
    <3> HIDE DEF to, arr, l, n
    <3> QED BY <1>3 DEF IsTimetable
  <2> DEFINE o == a[z][m]
             f == T.foot[to][z]
             g == T.foot[x][z]
             h == T.foot[x][to]
  <2>4. l = v + h /\ o <= v + g /\ g \in Nat /\ h \in Nat /\ f \in Nat /\ g <= h + f
        /\ n \in 0..Never /\ o \in 0..Never /\ n <= o /\ l <= arr /\ arr \in Nat /\ l \in 0..Never
    BY <1>2, <1>3, <1>4, <1>7, <2>2, <2>3
  <2> HIDE DEF arr, l, n, o, f, g, h
  <2>5. n <= arr + f
    BY <2>4, NeverIs
  <2> QED BY <2>5 DEF arr, n, f
<1>8. arr < l \/ l <= arr
  BY <1>3, <1>4, NeverIs
<1> QED BY <1>1, <1>5, <1>6, <1>7, <1>8

LEMMA RidesTakenStep ==
  ASSUME NEW T, IsTimetable(T), NEW i \in DOMAIN T.cons,
         NEW d \in T.trips[T.cons[i].trip].days, NEW sd, sd = d + T.cons[i].offset,
         NEW sources, NEW start, NEW limit,
         NEW B, IsBest(B, T, sources, start, limit),
         NEW a, NEW r, ScanInv(T, B, a, r, i, sd)
  PROVE  RidesTaken(T, B, NewLabels(T, i, sd, a, r), i + 1, sd)
<1> DEFINE c == T.cons[i]
<1>1. Labels(a) /\ Marks(T, r) /\ FirstKept(B, a) /\ MarksComplete(T, B, r, i, sd)
      /\ RidesTaken(T, B, a, i, sd) /\ Rooted(T, a)
  BY DEF ScanInv
<1>2. /\ sd \in Nat /\ c.idx \in Nat /\ c.from \in Station /\ c.offset \in Nat
      /\ At(sd, c.dep) = DepOf(T, c.trip, d, c.idx) /\ At(sd, c.dep) \in Nat
      /\ At(sd, c.arr) = ArrOf(T, c.trip, d, c.idx)
      /\ c.from = BoardAt(T, c.trip, c.idx) /\ c.to = LeaveAt(T, c.trip, c.idx) /\ d \in Nat
      /\ c.in = T.trips[c.trip].in[c.idx] /\ c.out = T.trips[c.trip].out[c.idx]
      /\ Runs(T, c.trip, d, c.idx)
  <2>1. c.offset \in Nat
    BY ConnectionFacts
  <2>2. d \in Nat
    BY ConnectionTimes
  <2> QED BY <2>1, <2>2, ScannedIs
<1> SUFFICES ASSUME NEW k \in 0..MaxTransfers - 1, NEW z \in Station, NEW t, NEW b, NEW e, NEW j,
                    Boardable(T, B[k], t, b, e), Runs(T, t, b, j), e <= j, T.trips[t].out[j],
                    Passed(T, i + 1, sd, t, b, j)
             PROVE  NewLabel(T, i, sd, a, r, z, k + 1) <= RideEnd(T, t, b, j, z)
  <2>1. ASSUME NEW k \in 0..MaxTransfers - 1, NEW z \in Station
        PROVE  NewLabels(T, i, sd, a, r)[z][k + 1] = NewLabel(T, i, sd, a, r, z, k + 1)
    <3>1. k + 1 \in Round
      BY <2>1, SearchAssumption DEF Round
    <3> QED BY <3>1 DEF NewLabels
  <2> QED BY <2>1 DEF RidesTaken, Taken
<1>3. /\ k \in Round /\ k + 1 \in Round /\ Runs(T, t, b, e) /\ T.trips[t].in[e]
      /\ B[k][BoardAt(T, t, e)] <= DepOf(T, t, b, e)
  BY SearchAssumption DEF Round, Boardable
<1>4. /\ e \in Nat /\ b \in Nat /\ j \in Nat /\ RideEnd(T, t, b, j, z) \in Nat
  <2>1. ArrOf(T, t, b, j) \in Nat /\ T.foot[LeaveAt(T, t, j)][z] \in Nat /\ e \in Nat /\ b \in Nat /\ j \in Nat
    BY <1>3, SectionFacts
  <2> QED BY <2>1 DEF RideEnd
<1>5. CASE Passed(T, i, sd, t, b, j)
  <2>1. a[z][k + 1] <= RideEnd(T, t, b, j, z)
    BY <1>1, <1>5 DEF RidesTaken, Taken
  <2>2. /\ a[z][k + 1] \in 0..Never /\ NewLabel(T, i, sd, a, r, z, k + 1) \in 0..Never
        /\ NewLabel(T, i, sd, a, r, z, k + 1) <= a[z][k + 1]
    BY <1>1, <1>3, NewLabelBounds
  <2> QED BY <1>4, <2>1, <2>2, NeverIs
<1>6. CASE c.trip = t /\ c.idx = j /\ b + c.offset = sd
  <2>1. b = d
    BY <1>2, <1>4, <1>6
  <2>2. Reached(T, i, sd, a, r, k)
    <3>1. CASE e = j
      <4>1. a[c.from][k] <= B[k][c.from]
        BY <1>1, <1>2, <1>3, <1>6, <2>1, <3>1, DueIsReached
      <4>2. a[c.from][k] \in Nat /\ B[k][c.from] \in Nat
        <5>1. c.from \in Station /\ k \in Round
          BY <1>2, <1>3
        <5>2. a[c.from][k] \in Nat
          BY <1>1, <5>1, NeverIs DEF Labels
        <5>3. B[k][c.from] \in Nat
          BY <5>1, NeverIs DEF IsBest
        <5> QED BY <5>2, <5>3
      <4>3. a[c.from][k] <= At(sd, c.dep) /\ c.in
        BY <1>2, <1>3, <1>6, <2>1, <3>1, <4>1, <4>2
      <4> QED BY <4>3 DEF Reached
    <3>2. CASE e < j
      <4>1. Passed(T, i, sd, t, d, e)
        BY <1>2, <1>3, <1>6, <2>1, <3>2, SameTrainPassed
      <4>2. r[t][k] <= e
        BY <1>1, <2>1, <4>1 DEF MarksComplete
      <4>3. r[t][k] \in Nat
        BY <1>1, <1>3 DEF Marks, Runs, Section
      <4>4. r[t][k] <= c.idx
        BY <1>4, <1>6, <3>2, <4>2, <4>3
      <4> QED BY <1>6, <4>4 DEF Reached
    <3> QED BY <1>4, <3>1, <3>2
  <2>3. c.out
    BY <1>2, <1>6
  <2>4. NewLabel(T, i, sd, a, r, z, k + 1) <= At(sd, c.arr) + T.foot[c.to][z]
    BY <1>1, <2>2, <2>3, TakenWhereReached
  <2> QED BY <1>2, <1>6, <2>1, <2>4 DEF RideEnd
<1> QED BY <1>2, <1>5, <1>6, PassedStep

(* The relaxation of a connection that runs keeps the invariant, before    *)
(* the next position.                                                      *)
LEMMA NewTyped ==
  ASSUME NEW T, IsTimetable(T), NEW i \in DOMAIN T.cons,
         NEW d \in T.trips[T.cons[i].trip].days, NEW sd, sd = d + T.cons[i].offset,
         NEW a, Labels(a), NEW r, Marks(T, r)
  PROVE  Labels(NewLabels(T, i, sd, a, r)) /\ Marks(T, NewMarks(T, i, sd, a, r))
<1>1. ASSUME NEW z \in Station, NEW k \in Round
      PROVE  NewLabel(T, i, sd, a, r, z, k) \in 0..Never
  BY NewLabelBounds
<1>2. ASSUME NEW t \in DOMAIN T.trips, NEW k \in Round
      PROVE  NewMark(T, i, sd, a, r, t, k) \in Nat
  BY NewMarkIs
<1>3. Labels(NewLabels(T, i, sd, a, r))
  BY <1>1 DEF NewLabels, Labels
<1>4. Marks(T, NewMarks(T, i, sd, a, r))
  BY <1>2 DEF NewMarks, Marks
<1> QED BY <1>3, <1>4

LEMMA ScanStep ==
  ASSUME NEW T, IsTimetable(T), IsDaily(T), NEW i \in DOMAIN T.cons,
         NEW d \in T.trips[T.cons[i].trip].days, NEW sd, sd = d + T.cons[i].offset,
         NEW sources, NEW start, NEW limit, At(sd, T.cons[i].dep) <= limit,
         NEW B, IsBest(B, T, sources, start, limit),
         NEW a, NEW r, ScanInv(T, B, a, r, i, sd)
  PROVE  ScanInv(T, B, NewLabels(T, i, sd, a, r), NewMarks(T, i, sd, a, r), i + 1, sd)
<1>1. /\ Labels(a) /\ Marks(T, r) /\ FirstKept(B, a) /\ Rooted(T, a)
      /\ MarksEarned(T, a, r, i, sd)
  BY DEF ScanInv
<1>2. Labels(NewLabels(T, i, sd, a, r)) /\ Marks(T, NewMarks(T, i, sd, a, r))
  BY <1>1, NewTyped
<1>3. FirstKept(B, NewLabels(T, i, sd, a, r))
  BY <1>1, FirstStep
<1>4. Sound(B, NewLabels(T, i, sd, a, r))
  BY SoundStep
<1>5. MarksEarned(T, NewLabels(T, i, sd, a, r), NewMarks(T, i, sd, a, r), i + 1, sd)
  BY <1>1, MarksEarnedStep
<1>6. MarksComplete(T, B, NewMarks(T, i, sd, a, r), i + 1, sd)
  BY MarksCompleteStep
<1>7. RidesTaken(T, B, NewLabels(T, i, sd, a, r), i + 1, sd)
  BY RidesTakenStep
<1>8. Rooted(T, NewLabels(T, i, sd, a, r))
  BY <1>1, RootedStep
<1> QED BY <1>2, <1>3, <1>4, <1>5, <1>6, <1>7, <1>8 DEF ScanInv

(* A connection that does not run today passes no train.                   *)
LEMMA NotToday ==
  ASSUME NEW T, IsTimetable(T), NEW i \in DOMAIN T.cons, NEW sd \in Nat,
         sd \notin T.cons[i].days, NEW B, NEW a, NEW r, ScanInv(T, B, a, r, i, sd)
  PROVE  ScanInv(T, B, a, r, i + 1, sd)
<1>1. ASSUME NEW t, NEW d, NEW j, Runs(T, t, d, j)
      PROVE  Passed(T, i + 1, sd, t, d, j) <=> Passed(T, i, sd, t, d, j)
  <2>1. ASSUME T.cons[i].trip = t, T.cons[i].idx = j, d + T.cons[i].offset = sd PROVE FALSE
    <3>1. d \in T.trips[T.cons[i].trip].days /\ sd = d + T.cons[i].offset
      BY <1>1, <2>1 DEF Runs
    <3> QED BY <3>1, ConnectionDays
  <2> QED BY <1>1, <2>1, PassedStep
<1> QED BY <1>1, NothingPassed

LEMMA NextDay ==
  ASSUME NEW T, IsTimetable(T), NEW i \in Nat, i > Len(T.cons), NEW sd \in Nat,
         NEW B, NEW a, NEW r, ScanInv(T, B, a, r, i, sd)
  PROVE  ScanInv(T, B, a, r, 1, sd + 1)
<1>1. ASSUME NEW t, NEW d, NEW j, Runs(T, t, d, j)
      PROVE  Passed(T, 1, sd + 1, t, d, j) <=> Passed(T, i, sd, t, d, j)
  BY <1>1, PassedWrap
<1> QED BY <1>1, NothingPassed

(* Past the limit the labels are the best.                                 *)
LEMMA EndIsBest ==
  ASSUME NEW T, IsTimetable(T), NEW i \in DOMAIN T.cons, NEW sd \in Nat,
         NEW sources, NEW start, NEW limit \in Int, limit < At(sd, T.cons[i].dep),
         NEW B, IsBest(B, T, sources, start, limit),
         NEW a, NEW r, ScanInv(T, B, a, r, i, sd), NEW s \in Station, NEW k \in Round
  PROVE  a[s][k] = B[k][s]
<1>1. Labels(a) /\ FirstKept(B, a) /\ Sound(B, a) /\ RidesTaken(T, B, a, i, sd)
  BY DEF ScanInv
<1>2. a[s][k] \in 0..Never /\ B[k][s] \in 0..Never /\ B[k][s] <= a[s][k] /\ k \in Nat
  BY <1>1, SearchAssumption DEF Labels, IsBest, Sound, Round
<1> SUFFICES ASSUME k # 0, B[k][s] # Never PROVE a[s][k] <= B[k][s]
  BY <1>1, <1>2, NeverIs DEF FirstKept
<1>3. k \in 1..MaxTransfers /\ k - 1 \in 0..MaxTransfers - 1 /\ k - 1 + 1 = k
  BY <1>2, SearchAssumption DEF Round
<1> DEFINE n == NextBest(T, limit, B[k - 1])[s]
<1>4. B[k][s] = n
  BY <1>3 DEF IsBest
<1>5. n = Never \/ \E t, d, e, j : CanRide(T, limit, B[k - 1], t, d, e, j) /\ n = RideEnd(T, t, d, j, s)
  BY NextBestIs
<1> HIDE DEF n
<1>6. PICK t, d, e, j : CanRide(T, limit, B[k - 1], t, d, e, j) /\ B[k][s] = RideEnd(T, t, d, j, s)
  BY <1>4, <1>5
<1>7. Runs(T, t, d, j) /\ Runs(T, t, d, e) /\ e <= j /\ T.trips[t].out[j]
      /\ Boardable(T, B[k - 1], t, d, e) /\ DepOf(T, t, d, j) <= limit
  BY <1>6 DEF CanRide, Boardable
<1>8. DepOf(T, t, d, j) < At(sd, T.cons[i].dep)
  <2>1. DepOf(T, t, d, j) \in Nat
    BY <1>7, SectionFacts
  <2>2. At(sd, T.cons[i].dep) \in Int
    <3>1. sd \in Int /\ T.cons[i].dep \in Int
      BY ConnectionFacts
    <3> QED BY <3>1, AtIs
  <2> QED BY <1>7, <2>1, <2>2
<1>9. Passed(T, i, sd, t, d, j)
  BY <1>7, <1>8, EarlierIsPassed
<1>10. Taken(T, B, a, i, sd, k - 1, s)
  BY <1>1, <1>3 DEF RidesTaken
<1>11. a[s][k - 1 + 1] <= RideEnd(T, t, d, j, s)
  BY <1>7, <1>9, <1>10 DEF Taken
<1> QED BY <1>3, <1>6, <1>11

-----------------------------------------------------------------------------
(* The starts.  done are the sources already added.                        *)
StartInv(T, done, start, a) ==
  /\ Labels(a)
  /\ \A z \in Station : \A k \in 1..MaxTransfers : a[z][k] = Never
  /\ \A z \in done : a[z][0] = start
  /\ \A z \in Station \ done :
       /\ \A f \in done : a[z][0] <= start + T.foot[f][z]
       /\ a[z][0] = Never \/ \E f \in done : a[z][0] = start + T.foot[f][z]

Added(T, start, s, a) ==
  [z \in Station |-> [k \in Round |->
     IF k = 0 THEN (IF z = s THEN start ELSE Min({a[z][0], start + T.foot[s][z]}))
     ELSE a[z][k]]]

(* add_start, as one assignment per station.                               *)
LEMMA AddedIs ==
  ASSUME IsTimetable(tt), Labels(arrival), NEW start \in 0..Never - 1, NEW s \in Station
  PROVE  Expanded([arrival EXCEPT ![s][0] = start], s, start, 0) = Added(tt, start, s, arrival)
<1> DEFINE l == [arrival EXCEPT ![s][0] = start]
<1>1. 0 \in Round /\ Never \in Nat
  BY NeverIs, SearchAssumption DEF Round
<1>2. arrival = [z \in Station |-> arrival[z]]
      /\ \A z \in Station : arrival[z] = [k \in Round |-> arrival[z][k]]
  BY DEF Labels
<1>3. l = [z \in Station |-> [k \in Round |-> IF z = s /\ k = 0 THEN start ELSE arrival[z][k]]]
  BY <1>1, <1>2, GridExcept
<1> HIDE DEF l
<1>4. ASSUME NEW z \in Station
      PROVE  [l[z] EXCEPT ![0] = Min({@, start + tt.foot[s][z]})] = Added(tt, start, s, arrival)[z]
  <2> DEFINE e == start + tt.foot[s][z]
             x == IF z = s THEN start ELSE arrival[z][0]
  <2>1. l[z] = [k \in Round |-> IF z = s /\ k = 0 THEN start ELSE arrival[z][k]]
    BY <1>3
  <2>2. l[z][0] = x
    BY <1>1, <2>1
  <2>3. tt.foot[s][z] \in Nat
    BY DEF IsTimetable
  <2>4. Min({x, e}) = IF z = s THEN start ELSE Min({arrival[z][0], e})
    <3>1. CASE z = s
      <4>1. x = start /\ start \in Nat /\ e \in Nat /\ start <= e
        BY <1>1, <2>3, <3>1
      <4> HIDE DEF x, e
      <4>2. {x, e} \in SUBSET Nat /\ {x, e} # {}
        BY <4>1
      <4>3. Min({x, e}) \in {x, e} /\ \A y \in {x, e} : Min({x, e}) <= y
        BY <4>2, MinIs
      <4>4. Min({x, e}) = start
        BY <4>1, <4>3
      <4> QED BY <3>1, <4>4
    <3>2. CASE z # s
      BY <3>2
    <3> QED BY <3>1, <3>2
  <2>5. [l[z] EXCEPT ![0] = Min({@, e})] = [l[z] EXCEPT ![0] = Min({x, e})]
    BY <2>2
  <2> DEFINE m == Min({x, e})
  <2>6. m = IF z = s THEN start ELSE Min({arrival[z][0], e})
    BY <2>4
  <2> HIDE DEF m
  <2>7. [l[z] EXCEPT ![0] = m] = [k \in Round |-> IF k = 0 THEN m ELSE arrival[z][k]]
    BY <2>1
  <2>8. Added(tt, start, s, arrival)[z] = [k \in Round |-> IF k = 0 THEN m ELSE arrival[z][k]]
    BY <2>6 DEF Added
  <2> QED BY <2>5, <2>7, <2>8 DEF m
<1>5. Expanded(l, s, start, 0) = [z \in Station |-> Added(tt, start, s, arrival)[z]]
  BY <1>4 DEF Expanded
<1>6. Added(tt, start, s, arrival) = [z \in Station |-> Added(tt, start, s, arrival)[z]]
  BY DEF Added
<1> QED BY <1>5, <1>6 DEF l

LEMMA StartStep ==
  ASSUME NEW T, IsTimetable(T), NEW start \in 0..Never - 1, NEW done \in SUBSET Station,
         NEW s \in Station, NEW a, StartInv(T, done, start, a)
  PROVE  StartInv(T, done \cup {s}, start, Added(T, start, s, a))
<1> DEFINE A == Added(T, start, s, a)
           to(z) == start + T.foot[s][z]
<1>1. 0 \in Round /\ Never \in Nat /\ start \in 0..Never /\ start \in Nat
      /\ \A k \in 1..MaxTransfers : k \in Round /\ k # 0
  BY NeverIs, SearchAssumption DEF Round
<1>2. /\ Labels(a) /\ \A z \in Station : \A k \in 1..MaxTransfers : a[z][k] = Never
      /\ \A z \in done : a[z][0] = start
  BY DEF StartInv
<1>3. A[s][0] = start
  BY <1>1 DEF Added
<1>4. ASSUME NEW z \in Station
      PROVE  a[z][0] \in 0..Never /\ T.foot[s][z] \in Nat /\ to(z) \in Nat /\ start <= to(z)
  <2>1. a[z][0] \in 0..Never
    BY <1>1, <1>2 DEF Labels
  <2>2. T.foot[s][z] \in Nat
    BY DEF IsTimetable
  <2> QED BY <1>1, <2>1, <2>2
<1>5. ASSUME NEW z \in Station, z # s
      PROVE  A[z][0] \in {a[z][0], to(z)} /\ A[z][0] <= a[z][0] /\ A[z][0] <= to(z)
             /\ A[z][0] \in 0..Never
  <2> DEFINE o == a[z][0]
             e == to(z)
  <2>1. A[z][0] = Min({o, e})
    BY <1>1, <1>5 DEF Added
  <2>2. o \in 0..Never /\ e \in Nat
    BY <1>4
  <2> HIDE DEF o, e, A
  <2>3. {o, e} \in SUBSET Nat /\ {o, e} # {}
    BY <1>1, <2>2
  <2>4. Min({o, e}) \in {o, e} /\ \A y \in {o, e} : Min({o, e}) <= y
    BY <2>3, MinIs
  <2>5. A[z][0] \in {o, e} /\ A[z][0] <= o /\ A[z][0] <= e /\ A[z][0] \in 0..Never
    BY <1>1, <2>1, <2>2, <2>4
  <2> QED BY <2>5 DEF o, e
<1>6. ASSUME NEW z \in Station, NEW k \in Round, k # 0 PROVE A[z][k] = a[z][k]
  BY <1>6 DEF Added
<1>7. Labels(A)
  <2>1. ASSUME NEW z \in Station, NEW k \in Round PROVE A[z][k] \in 0..Never
    <3>1. CASE k # 0
      BY <1>2, <1>6, <3>1 DEF Labels
    <3>2. CASE k = 0 /\ z = s
      BY <1>1, <1>3, <3>2
    <3>3. CASE k = 0 /\ z # s
      BY <1>5, <3>3
    <3> QED BY <3>1, <3>2, <3>3
  <2>2. A = [z \in Station |-> [k \in Round |-> A[z][k]]]
    BY DEF Added
  <2> HIDE DEF A
  <2> QED BY <2>1, <2>2 DEF Labels
<1>8. ASSUME NEW z \in Station, NEW k \in 1..MaxTransfers PROVE A[z][k] = Never
  BY <1>1, <1>2, <1>6
<1>9. ASSUME NEW z \in done \cup {s} PROVE A[z][0] = start
  <2>1. CASE z = s
    BY <1>3, <2>1
  <2>2. CASE z # s
    <3>1. z \in Station /\ a[z][0] = start
      BY <1>2, <2>2
    <3>2. A[z][0] \in {start, to(z)} /\ A[z][0] <= start /\ start <= to(z) /\ to(z) \in Nat
      BY <1>4, <1>5, <2>2, <3>1
    <3> HIDE DEF A, to
    <3> QED BY <1>1, <3>2
  <2> QED BY <2>1, <2>2
<1>10. ASSUME NEW z \in Station \ (done \cup {s})
       PROVE  /\ \A f \in done \cup {s} : A[z][0] <= start + T.foot[f][z]
              /\ A[z][0] = Never \/ \E f \in done \cup {s} : A[z][0] = start + T.foot[f][z]
  <2>1. /\ \A f \in done : a[z][0] <= start + T.foot[f][z]
        /\ a[z][0] = Never \/ \E f \in done : a[z][0] = start + T.foot[f][z]
    BY DEF StartInv
  <2>2. /\ A[z][0] = a[z][0] \/ A[z][0] = start + T.foot[s][z]
        /\ A[z][0] <= a[z][0] /\ A[z][0] <= start + T.foot[s][z] /\ A[z][0] \in 0..Never
        /\ a[z][0] \in 0..Never
    BY <1>4, <1>5
  <2> HIDE DEF A
  <2>3. ASSUME NEW f \in done \cup {s} PROVE A[z][0] <= start + T.foot[f][z]
    <3>1. CASE f = s
      BY <2>2, <3>1
    <3>2. CASE f \in done
      <4>1. T.foot[f][z] \in Nat /\ a[z][0] <= start + T.foot[f][z]
        BY <2>1, <3>2 DEF IsTimetable
      <4> QED BY <1>1, <2>2, <4>1
    <3> QED BY <3>1, <3>2
  <2> QED BY <2>1, <2>2, <2>3
<1> HIDE DEF A
<1> QED BY <1>7, <1>8, <1>9, <1>10 DEF StartInv, A

(* When all starts are added, the labels of round 0 are the best.          *)
LEMMA StartsAreFirst ==
  ASSUME NEW T, IsTimetable(T), NEW start \in 0..Never - 1, NEW sources \in SUBSET Station,
         NEW a, StartInv(T, sources, start, a), NEW z \in Station
  PROVE  a[z][0] = FirstBest(T, sources, start)[z]
<1> DEFINE n == FirstBest(T, sources, start)[z]
           o == a[z][0]
<1>1. /\ n \in 0..Never /\ (z \in sources => n = start)
      /\ \A f \in sources : n <= start + T.foot[f][z]
  BY FirstBestIs
<1>2. CASE z \in sources
  BY <1>1, <1>2 DEF StartInv
<1>3. CASE z \notin sources
  <2>1. n = Never \/ \E f \in sources : n = start + T.foot[f][z]
    BY <1>3, FirstBestIs
  <2>2. /\ \A f \in sources : o <= start + T.foot[f][z]
        /\ o = Never \/ \E f \in sources : o = start + T.foot[f][z]
    BY <1>3 DEF StartInv
  <2>3. o \in 0..Never
    BY SearchAssumption DEF StartInv, Labels, Round
  <2> HIDE DEF n, o
  <2>4. n <= o
    BY <1>1, <2>2, <2>3, NeverIs
  <2>5. o <= n
    BY <1>1, <2>1, <2>2, <2>3, NeverIs
  <2>6. n = o
    BY <1>1, <2>3, <2>4, <2>5, NeverIs
  <2> QED BY <2>6 DEF n, o
<1> QED BY <1>2, <1>3

(* The scan begins behind nothing that can be boarded.                     *)
LEMMA ScanBegins ==
  ASSUME NEW T, IsTimetable(T), NEW start \in 0..Never - 1, NEW sources \in SUBSET Station,
         NEW limit, NEW B, IsBest(B, T, sources, start, limit),
         NEW a, StartInv(T, sources, start, a),
         NEW r, r = [t \in DOMAIN T.trips |-> [k \in Round |-> NoIdx]],
         NEW n, n = 1 + Cardinality({i \in DOMAIN T.cons : T.cons[i].dep < Mam(start)})
  PROVE  n \in 1..Len(T.cons) + 1 /\ ScanInv(T, B, a, r, n, DayIdx(start))
<1> DEFINE sd == DayIdx(start)
<1>1. /\ Labels(a) /\ \A z \in Station : \A k \in 1..MaxTransfers : a[z][k] = Never
  BY DEF StartInv
<1>2. n \in 1..Len(T.cons) + 1
      /\ \A t, d, j : Runs(T, t, d, j) /\ Passed(T, n, sd, t, d, j) => DepOf(T, t, d, j) < start
  <2>1. start \in Nat
    BY NeverIs
  <2> QED BY <2>1, SkippedDepartEarlier
<1> HIDE DEF sd
<1>3. Marks(T, r)
  BY DEF Marks, NoIdx
<1>4. FirstKept(B, a)
  BY StartsAreFirst DEF FirstKept, IsBest
<1>5. Sound(B, a)
  <2> SUFFICES ASSUME NEW s \in Station, NEW k \in Round PROVE B[k][s] <= a[s][k]
    BY DEF Sound
  <2>1. B[k][s] \in 0..Never /\ a[s][k] \in 0..Never
    BY <1>1 DEF IsBest, Labels
  <2>2. CASE k = 0
    BY <1>4, <2>1, <2>2, NeverIs DEF FirstKept
  <2>3. CASE k # 0
    <3>1. k \in 1..MaxTransfers
      BY <2>3, SearchAssumption DEF Round
    <3> QED BY <1>1, <2>1, <3>1, NeverIs
  <2> QED BY <2>2, <2>3
<1>6. MarksEarned(T, a, r, n, sd)
  BY DEF MarksEarned, Earned
<1>7. ASSUME NEW k \in Round, NEW t, NEW d, NEW e, NEW j, Boardable(T, B[k], t, d, e),
             Runs(T, t, d, j), e <= j, Passed(T, n, sd, t, d, j)
      PROVE  FALSE
  <2>1. Runs(T, t, d, e) /\ B[k][BoardAt(T, t, e)] <= DepOf(T, t, d, e)
    BY <1>7 DEF Boardable
  <2>2. BoardAt(T, t, e) \in Station /\ DepOf(T, t, d, e) \in Nat /\ DepOf(T, t, d, j) \in Nat
    BY <1>7, <2>1, SectionFacts
  <2>3. DepOf(T, t, d, e) <= DepOf(T, t, d, j)
    BY <1>7, <2>1, SectionsInOrder
  <2>4. DepOf(T, t, d, j) < start
    BY <1>2, <1>7
  <2>5. B[k][BoardAt(T, t, e)] \in Nat /\ start \in Nat /\ start <= B[k][BoardAt(T, t, e)]
    BY <2>2, NeverIs DEF IsBest
  <2> QED BY <2>1, <2>2, <2>3, <2>4, <2>5
<1>8. MarksComplete(T, B, r, n, sd)
  <2> SUFFICES ASSUME NEW k \in 0..MaxTransfers - 1, NEW t, NEW d, NEW e,
                      Boardable(T, B[k], t, d, e), Passed(T, n, sd, t, d, e)
               PROVE  FALSE
    BY DEF MarksComplete
  <2>1. k \in Round
    BY SearchAssumption DEF Round
  <2>2. Runs(T, t, d, e)
    BY DEF Boardable
  <2>3. e <= e
    BY <2>2, SectionFacts
  <2> QED BY <1>7, <2>1, <2>2, <2>3
<1>9. RidesTaken(T, B, a, n, sd)
  <2> SUFFICES ASSUME NEW k \in 0..MaxTransfers - 1, NEW t, NEW d, NEW e, NEW j,
                      Boardable(T, B[k], t, d, e), Runs(T, t, d, j), e <= j,
                      Passed(T, n, sd, t, d, j)
               PROVE  FALSE
    BY DEF RidesTaken, Taken
  <2>1. k \in Round
    BY SearchAssumption DEF Round
  <2> QED BY <1>7, <2>1
<1>10. Rooted(T, a)
  BY <1>1 DEF Rooted
<1> QED BY <1>1, <1>2, <1>3, <1>4, <1>5, <1>6, <1>8, <1>9, <1>10 DEF ScanInv, sd

(* No ride can begin when the limit is over.                               *)
LEMMA NothingLeaves ==
  ASSUME NEW T, IsTimetable(T), NEW sources, NEW start \in Nat, NEW limit \in Int, limit < start,
         NEW B, IsBest(B, T, sources, start, limit),
         NEW k \in 1..MaxTransfers, NEW s \in Station
  PROVE  B[k][s] = Never
<1>1. k - 1 \in Round
  BY SearchAssumption DEF Round
<1> DEFINE n == NextBest(T, limit, B[k - 1])[s]
<1>2. B[k][s] = n
  BY DEF IsBest
<1>3. n = Never \/ \E t, d, e, j : CanRide(T, limit, B[k - 1], t, d, e, j) /\ n = RideEnd(T, t, d, j, s)
  BY NextBestIs
<1> HIDE DEF n
<1> SUFFICES ASSUME NEW t, NEW d, NEW e, NEW j, CanRide(T, limit, B[k - 1], t, d, e, j)
             PROVE  FALSE
  BY <1>2, <1>3
<1>4. Runs(T, t, d, e) /\ B[k - 1][BoardAt(T, t, e)] <= DepOf(T, t, d, e) /\ DepOf(T, t, d, j) <= limit
  BY DEF CanRide
<1>5. DepOf(T, t, d, e) \in Nat /\ DepOf(T, t, d, j) \in Nat /\ DepOf(T, t, d, e) <= DepOf(T, t, d, j)
  BY RideEndIs
<1>6. BoardAt(T, t, e) \in Station
  BY <1>4, SectionFacts
<1>7. B[k - 1][BoardAt(T, t, e)] \in Nat /\ start <= B[k - 1][BoardAt(T, t, e)]
  BY <1>1, <1>6, NeverIs DEF IsBest
<1> QED BY <1>4, <1>5, <1>7

-----------------------------------------------------------------------------
(* The states of the search.                                               *)
LimitOf(T, q) == Min({q.start + MaxTravel, T.last})
BestFor(T, q) == Best(T, q.sources, q.start, LimitOf(T, q), MaxTransfers)

NoMarks(T) == [t \in DOMAIN T.trips |-> [k \in Round |-> NoIdx]]

SearchTyped ==
  /\ tt \in {BuildTimetable(s) : s \in Schedules} /\ query \in Queries
  /\ phase \in {"start", "scan", "results", "extract", "done"}
  /\ Labels(arrival) /\ Marks(tt, reachable)
  /\ phase = "start" =>
       /\ pending \subseteq query.sources /\ reachable = NoMarks(tt)
       /\ StartInv(tt, query.sources \ pending, query.start, arrival)
  /\ phase = "scan" => it \in 1..Len(tt.cons) + 1 /\ searchDay \in Nat

LEMMA Loaded ==
  ASSUME NEW T \in {BuildTimetable(s) : s \in Schedules}
  PROVE  /\ IsTimetable(T)
         /\ (\A s \in Schedules : TripsWithinDay(s.trips)) => IsDaily(T)
<1>1. PICK s \in Schedules : T = BuildTimetable(s)
  OBVIOUS
<1>2. IsTimetable(T) /\ T.trips = s.trips
  BY <1>1, ScheduleAssumption, TimetableIs
<1>3. \A t \in DOMAIN T.trips : Len(T.trips[t].dep) < NoIdx
  BY <1>2, ScheduleAssumption
<1>4. ASSUME \A x \in Schedules : TripsWithinDay(x.trips) PROVE IsDaily(T)
  BY <1>2, <1>3, <1>4 DEF IsDaily
<1> QED BY <1>2, <1>4

LEMMA QueryIs ==
  ASSUME NEW T, IsTimetable(T), NEW q \in Queries
  PROVE  /\ q.start \in 0..Never - 1 /\ q.start \in Nat /\ q.sources \in SUBSET Station
         /\ LimitOf(T, q) \in Int /\ LimitOf(T, q) <= T.last /\ T.last \in Nat
         /\ IsBest(BestFor(T, q), T, q.sources, q.start, LimitOf(T, q))
<1>1. q.start \in 0..Never - 1 /\ q.start \in Nat /\ q.sources \in SUBSET Station
  BY QueryAssumption, NeverIs
<1>2. T.last \in Nat
  BY DEF IsTimetable
<1>3. LimitOf(T, q) \in Int /\ LimitOf(T, q) <= T.last
  <2> DEFINE x == q.start + MaxTravel
             S == {x, T.last}
  <2>1. S \in SUBSET Nat /\ S # {}
    BY <1>1, <1>2, SearchAssumption
  <2> HIDE DEF x
  <2>2. Min(S) \in S /\ \A y \in S : Min(S) <= y
    <3> HIDE DEF S
    <3> QED BY <2>1, MinIs
  <2>3. LimitOf(T, q) = Min(S)
    BY DEF LimitOf, x
  <2> QED BY <2>1, <2>2, <2>3
<1>4. IsBest(BestFor(T, q), T, q.sources, q.start, LimitOf(T, q))
  BY <1>1, BestIs DEF BestFor
<1> QED BY <1>1, <1>2, <1>3, <1>4

(* The connection the scan stands before, past midnight the next day's.    *)
LEMMA PositionIs ==
  ASSUME NEW T, IsTimetable(T), T = tt, it \in 1..Len(T.cons) + 1, searchDay \in Nat
  PROVE  /\ Position.con \in DOMAIN T.cons /\ Position.day \in Nat
         /\ Position.con + 1 \in 1..Len(T.cons) + 1
         /\ (Position.con = it /\ Position.day = searchDay)
              \/ (it > Len(T.cons) /\ Position.con = 1 /\ Position.day = searchDay + 1)
<1>1. Len(T.cons) \in Nat \ {0} /\ DOMAIN T.cons = 1..Len(T.cons)
  BY DEF IsTimetable
<1>2. CASE it > Len(T.cons)
  <2>1. Position = [con |-> 1, day |-> searchDay + 1]
    BY <1>2 DEF Position
  <2> QED BY <1>1, <1>2, <2>1
<1>3. CASE ~(it > Len(T.cons))
  <2>1. Position = [con |-> it, day |-> searchDay]
    BY <1>3 DEF Position
  <2> QED BY <1>1, <1>3, <2>1
<1> QED BY <1>2, <1>3

(* The scan of a connection that runs, on today's day of its train.        *)
LEMMA ScannedTrain ==
  ASSUME IsTimetable(tt), Position.con \in DOMAIN tt.cons, Position.day \in Con.days,
         Labels(arrival), Marks(tt, reachable)
  PROVE  \E d \in tt.trips[tt.cons[Position.con].trip].days :
           /\ Position.day = d + tt.cons[Position.con].offset
           /\ Relaxed.arrival = NewLabels(tt, Position.con, Position.day, arrival, reachable)
           /\ Relaxed.reachable = NewMarks(tt, Position.con, Position.day, arrival, reachable)
<1> DEFINE i == Position.con
           sd == Position.day
<1>1. i \in DOMAIN tt.cons /\ sd \in tt.cons[i].days
  BY DEF Con
<1>2. PICK d \in tt.trips[tt.cons[i].trip].days : sd = d + tt.cons[i].offset
  <2> HIDE DEF i, sd
  <2> QED BY <1>1, ConnectionDays
<1>3. /\ Relaxed.arrival = NewLabels(tt, Position.con, Position.day, arrival, reachable)
      /\ Relaxed.reachable = NewMarks(tt, Position.con, Position.day, arrival, reachable)
  BY <1>2, RelaxedIs
<1> QED BY <1>2, <1>3

(* Labels, marks and the position keep their ranges, and the starts are    *)
(* added one by one.                                                       *)
LEMMA SearchTypedInvariant == Spec => []SearchTyped
<1>1. Init => SearchTyped
  <2> SUFFICES ASSUME Init PROVE SearchTyped
    OBVIOUS
  <2>1. /\ tt \in {BuildTimetable(s) : s \in Schedules} /\ query \in Queries /\ phase = "start"
        /\ pending = query.sources
        /\ arrival = [s \in Station |-> [k \in Round |-> Never]]
        /\ reachable = NoMarks(tt)
    BY DEF Init, NoMarks
  <2>2. Labels(arrival)
    BY <2>1, NeverIs DEF Labels
  <2>3. Marks(tt, reachable)
    BY <2>1 DEF Marks, NoMarks, NoIdx
  <2>4. query.sources \ pending = {}
    BY <2>1
  <2>5. StartInv(tt, {}, query.start, arrival)
    <3>1. \A z \in Station : \A k \in Round : arrival[z][k] = Never
      BY <2>1
    <3>2. 0 \in Round /\ \A k \in 1..MaxTransfers : k \in Round
      BY SearchAssumption DEF Round
    <3> QED BY <2>2, <3>1, <3>2 DEF StartInv
  <2> QED BY <2>1, <2>2, <2>3, <2>4, <2>5 DEF SearchTyped
<1>2. SearchTyped /\ [Next]_vars => SearchTyped'
  <2> SUFFICES ASSUME SearchTyped, [Next]_vars PROVE SearchTyped'
    OBVIOUS
  <2>0. /\ tt \in {BuildTimetable(s) : s \in Schedules} /\ query \in Queries
        /\ phase \in {"start", "scan", "results", "extract", "done"}
        /\ Labels(arrival) /\ Marks(tt, reachable)
        /\ IsTimetable(tt)
    BY Loaded DEF SearchTyped
  <2>1. ASSUME NEW s \in Station, AddStart(s) PROVE SearchTyped'
    <3>1. /\ phase = "start" /\ s \in pending /\ pending' = pending \ {s}
          /\ arrival' = Expanded([arrival EXCEPT ![s][0] = query.start], s, query.start, 0)
          /\ UNCHANGED <<tt, query, phase, reachable>>
      BY <2>1 DEF AddStart
    <3> DEFINE done == query.sources \ pending
    <3>2. /\ pending \subseteq query.sources /\ reachable = NoMarks(tt)
          /\ StartInv(tt, done, query.start, arrival)
      BY <3>1 DEF SearchTyped
    <3>3. query.start \in 0..Never - 1 /\ query.sources \in SUBSET Station
      BY <2>0, QueryIs
    <3>4. arrival' = Added(tt, query.start, s, arrival)
      BY <2>0, <3>1, <3>3, AddedIs
    <3>5. done \in SUBSET Station /\ query.sources \ (pending \ {s}) = done \cup {s}
      BY <3>1, <3>2, <3>3
    <3> HIDE DEF done
    <3>6. StartInv(tt, done \cup {s}, query.start, arrival')
      BY <2>0, <3>2, <3>3, <3>4, <3>5, StartStep
    <3>7. Labels(arrival')
      BY <3>6 DEF StartInv
    <3>8. pending' \subseteq query.sources
      BY <3>1, <3>2
    <3>9. StartInv(tt, query.sources \ pending', query.start, arrival')
      BY <3>1, <3>5, <3>6
    <3> QED BY <2>0, <3>1, <3>2, <3>7, <3>8, <3>9 DEF SearchTyped
  <2>2. CASE Search
    <3>1. /\ phase = "start" /\ UNCHANGED <<tt, query, arrival, reachable>>
          /\ \/ phase' = "results"
             \/ /\ phase' = "scan" /\ searchDay' = DayIdx(query.start)
                /\ it' = 1 + Cardinality({i \in DOMAIN tt.cons : tt.cons[i].dep < Mam(query.start)})
      BY <2>2 DEF Search
    <3>2. CASE phase' = "results"
      BY <2>0, <3>1, <3>2 DEF SearchTyped
    <3>3. CASE /\ phase' = "scan" /\ searchDay' = DayIdx(query.start)
               /\ it' = 1 + Cardinality({i \in DOMAIN tt.cons : tt.cons[i].dep < Mam(query.start)})
      <4>1. query.start \in Nat
        BY <2>0, QueryIs
      <4>2. it' \in 1..Len(tt.cons) + 1
        BY <2>0, <3>3, <4>1, SkippedDepartEarlier
      <4>3. searchDay' \in Nat
        BY <3>3, <4>1, DayAndMinute
      <4> QED BY <2>0, <3>1, <3>3, <4>2, <4>3 DEF SearchTyped
    <3> QED BY <3>1, <3>2, <3>3
  <2>3. CASE Scan
    <3>1. /\ phase = "scan" /\ it' = Position.con + 1 /\ searchDay' = Position.day
          /\ UNCHANGED <<tt, query, phase>>
          /\ IF Position.day \in Con.days
             THEN arrival' = Relaxed.arrival /\ reachable' = Relaxed.reachable
             ELSE UNCHANGED <<arrival, reachable>>
      BY <2>3 DEF Scan
    <3>2. it \in 1..Len(tt.cons) + 1 /\ searchDay \in Nat
      BY <3>1 DEF SearchTyped
    <3>3. /\ Position.con \in DOMAIN tt.cons /\ Position.day \in Nat
          /\ Position.con + 1 \in 1..Len(tt.cons) + 1
      BY <2>0, <3>2, PositionIs
    <3>4. Labels(arrival') /\ Marks(tt, reachable')
      <4>1. CASE Position.day \notin Con.days
        BY <2>0, <3>1, <4>1
      <4>2. CASE Position.day \in Con.days
        <5>1. PICK d \in tt.trips[tt.cons[Position.con].trip].days :
                /\ Position.day = d + tt.cons[Position.con].offset
                /\ Relaxed.arrival = NewLabels(tt, Position.con, Position.day, arrival, reachable)
                /\ Relaxed.reachable = NewMarks(tt, Position.con, Position.day, arrival, reachable)
          BY <2>0, <3>3, <4>2, ScannedTrain
        <5>2. /\ Labels(NewLabels(tt, Position.con, Position.day, arrival, reachable))
              /\ Marks(tt, NewMarks(tt, Position.con, Position.day, arrival, reachable))
          BY <2>0, <3>3, <5>1, NewTyped
        <5> QED BY <3>1, <4>2, <5>1, <5>2
      <4> QED BY <4>1, <4>2
    <3> QED BY <2>0, <3>1, <3>3, <3>4 DEF SearchTyped
  <2>4. ASSUME phase # "start", phase' \in {"results", "extract", "done"},
               UNCHANGED <<tt, query, arrival, reachable>>
        PROVE  SearchTyped'
    BY <2>0, <2>4 DEF SearchTyped
  <2>5. CASE EndScan
    BY <2>4, <2>5 DEF EndScan, searchVars
  <2>6. CASE GetResult
    BY <2>4, <2>6 DEF GetResult, searchVars
  <2>7. CASE Leg
    BY <2>4, <2>7 DEF Leg, searchVars
  <2>8. CASE EndJourney
    BY <2>4, <2>8 DEF EndJourney, searchVars
  <2>9. CASE EndResults
    BY <2>4, <2>9 DEF EndResults, searchVars
  <2>10. CASE UNCHANGED vars
    BY <2>10 DEF SearchTyped, vars, searchVars
  <2> QED BY <2>1, <2>2, <2>3, <2>5, <2>6, <2>7, <2>8, <2>9, <2>10 DEF Next
<1> QED BY <1>1, <1>2, PTL DEF Spec

(* The labels of the scan lie between the best and what was passed; after  *)
(* it they are the best.                                                   *)
Finished(T, q) == [s \in Station |-> [k \in Round |-> BestFor(T, q)[k][s]]]

LabelInv ==
  /\ phase = "scan" =>
       ScanInv(tt, BestFor(tt, query), arrival, reachable, it, searchDay)
  /\ phase \notin {"start", "scan"} => arrival = Finished(tt, query)

LEMMA FinishedIs ==
  ASSUME NEW T, NEW q, NEW a, Labels(a),
         \A s \in Station, k \in Round : a[s][k] = BestFor(T, q)[k][s]
  PROVE  a = Finished(T, q)
<1>1. a = [s \in Station |-> [k \in Round |-> a[s][k]]]
  BY DEF Labels
<1>2. [s \in Station |-> [k \in Round |-> a[s][k]]] = Finished(T, q)
  BY DEF Finished
<1> QED BY <1>1, <1>2

(* ScanInv, where the connection to be scanned stands.                     *)
LEMMA AtPosition ==
  ASSUME IsTimetable(tt), it \in 1..Len(tt.cons) + 1, searchDay \in Nat, NEW B,
         ScanInv(tt, B, arrival, reachable, it, searchDay)
  PROVE  ScanInv(tt, B, arrival, reachable, Position.con, Position.day)
<1>1. \/ Position.con = it /\ Position.day = searchDay
      \/ it > Len(tt.cons) /\ Position.con = 1 /\ Position.day = searchDay + 1
  BY PositionIs
<1>2. it \in Nat /\ Len(tt.cons) \in Nat
  BY DEF IsTimetable
<1>3. CASE Position.con = it /\ Position.day = searchDay
  BY <1>3
<1>4. CASE it > Len(tt.cons) /\ Position.con = 1 /\ Position.day = searchDay + 1
  <2>1. ScanInv(tt, B, arrival, reachable, 1, searchDay + 1)
    BY <1>2, <1>4, NextDay
  <2> QED BY <1>4, <2>1
<1> QED BY <1>1, <1>3, <1>4

(* search: the scan begins, or there is no train left.                     *)
LEMMA LabelsAtStart ==
  ASSUME SearchTyped, Search PROVE LabelInv'
<1> DEFINE B == BestFor(tt, query)
           limit == LimitOf(tt, query)
<1>1. /\ phase = "start" /\ pending = {} /\ UNCHANGED <<tt, query, arrival, reachable>>
  BY DEF Search
<1>2. /\ tt \in {BuildTimetable(s) : s \in Schedules} /\ query \in Queries /\ Labels(arrival)
      /\ IsTimetable(tt) /\ reachable = NoMarks(tt)
      /\ StartInv(tt, query.sources \ pending, query.start, arrival)
  BY <1>1, Loaded DEF SearchTyped
<1>3. /\ query.start \in 0..Never - 1 /\ query.start \in Nat /\ query.sources \in SUBSET Station
      /\ limit \in Int /\ limit <= tt.last /\ tt.last \in Nat
      /\ IsBest(B, tt, query.sources, query.start, limit)
  BY <1>2, QueryIs
<1> HIDE DEF B, limit
<1>4. StartInv(tt, query.sources, query.start, arrival)
  <2>1. query.sources \ pending = query.sources
    BY <1>1
  <2> QED BY <1>2, <2>1
<1>5. CASE query.start > tt.last
  <2>1. phase' = "results"
    BY <1>5 DEF Search
  <2>2. limit < query.start
    BY <1>3, <1>5
  <2>3. ASSUME NEW s \in Station, NEW k \in Round PROVE arrival[s][k] = B[k][s]
    <3>1. CASE k = 0
      <4>1. arrival[s][0] = FirstBest(tt, query.sources, query.start)[s]
        BY <1>2, <1>3, <1>4, StartsAreFirst
      <4> QED BY <1>3, <3>1, <4>1 DEF IsBest
    <3>2. CASE k # 0
      <4>1. k \in 1..MaxTransfers
        BY <3>2, SearchAssumption DEF Round
      <4>2. B[k][s] = Never
        BY <1>2, <1>3, <2>2, <4>1, NothingLeaves
      <4>3. arrival[s][k] = Never
        BY <1>4, <4>1 DEF StartInv
      <4> QED BY <4>2, <4>3
    <3> QED BY <3>1, <3>2
  <2>4. arrival = Finished(tt, query)
    BY <1>2, <2>3, FinishedIs DEF B
  <2> QED BY <1>1, <2>1, <2>4 DEF LabelInv
<1>6. CASE ~(query.start > tt.last)
  <2> DEFINE n == 1 + Cardinality({i \in DOMAIN tt.cons : tt.cons[i].dep < Mam(query.start)})
  <2>1. phase' = "scan" /\ searchDay' = DayIdx(query.start) /\ it' = n
    BY <1>6 DEF Search
  <2>2. reachable = [t \in DOMAIN tt.trips |-> [k \in Round |-> NoIdx]]
    BY <1>2 DEF NoMarks
  <2>3. n = 1 + Cardinality({i \in DOMAIN tt.cons : tt.cons[i].dep < Mam(query.start)})
    OBVIOUS
  <2> HIDE DEF n
  <2>4. ScanInv(tt, B, arrival, reachable, n, DayIdx(query.start))
    BY <1>2, <1>3, <1>4, <2>2, <2>3, ScanBegins
  <2>5. ScanInv(tt', BestFor(tt', query'), arrival', reachable', it', searchDay')
    BY <1>1, <2>1, <2>4 DEF B
  <2> QED BY <2>1, <2>5 DEF LabelInv
<1> QED BY <1>5, <1>6

LEMMA LabelsInScan ==
  ASSUME SearchTyped, LabelInv, Scan, \A s \in Schedules : TripsWithinDay(s.trips)
  PROVE  LabelInv'
<1> DEFINE B == BestFor(tt, query)
           limit == LimitOf(tt, query)
           i == Position.con
           sd == Position.day
<1>1. /\ phase = "scan" /\ ~LimitReached /\ it' = i + 1 /\ searchDay' = sd
      /\ UNCHANGED <<tt, query, phase>>
      /\ IF sd \in Con.days
         THEN arrival' = Relaxed.arrival /\ reachable' = Relaxed.reachable
         ELSE UNCHANGED <<arrival, reachable>>
  BY DEF Scan
<1>2. /\ IsTimetable(tt) /\ IsDaily(tt) /\ query \in Queries
      /\ Labels(arrival) /\ Marks(tt, reachable)
      /\ it \in 1..Len(tt.cons) + 1 /\ searchDay \in Nat
  BY <1>1, Loaded DEF SearchTyped
<1>3. limit \in Int /\ IsBest(B, tt, query.sources, query.start, limit)
  BY <1>2, QueryIs
<1>4. i \in DOMAIN tt.cons /\ sd \in Nat
  BY <1>2, PositionIs
<1>5. ScanInv(tt, B, arrival, reachable, i, sd)
  BY <1>1, <1>2, AtPosition DEF LabelInv
<1>6. At(sd, tt.cons[i].dep) <= limit
  <2>1. ~(At(sd, tt.cons[i].dep) > limit)
    BY <1>1 DEF LimitReached, Con, TimeLimit, LimitOf
  <2>2. At(sd, tt.cons[i].dep) \in Int
    <3> HIDE DEF i, sd
    <3>1. sd \in Int /\ tt.cons[i].dep \in Int
      BY <1>2, <1>4, ConnectionFacts
    <3> QED BY <3>1, AtIs
  <2> HIDE DEF limit, i, sd
  <2> QED BY <1>3, <2>1, <2>2
<1>7. ScanInv(tt, B, arrival', reachable', i + 1, sd)
  <2>1. CASE sd \in Con.days
    <3>1. PICK d \in tt.trips[tt.cons[i].trip].days :
            /\ sd = d + tt.cons[i].offset
            /\ Relaxed.arrival = NewLabels(tt, i, sd, arrival, reachable)
            /\ Relaxed.reachable = NewMarks(tt, i, sd, arrival, reachable)
      BY <1>2, <1>4, <2>1, ScannedTrain
    <3>2. arrival' = NewLabels(tt, i, sd, arrival, reachable)
          /\ reachable' = NewMarks(tt, i, sd, arrival, reachable)
      BY <1>1, <2>1, <3>1
    <3> HIDE DEF B, limit, i, sd
    <3>3. ScanInv(tt, B, NewLabels(tt, i, sd, arrival, reachable),
                  NewMarks(tt, i, sd, arrival, reachable), i + 1, sd)
      BY <1>2, <1>3, <1>4, <1>5, <1>6, <3>1, ScanStep
    <3> QED BY <3>2, <3>3
  <2>2. CASE sd \notin Con.days
    <3>1. sd \notin tt.cons[i].days
      BY <2>2 DEF Con
    <3>2. arrival' = arrival /\ reachable' = reachable
      BY <1>1, <2>2
    <3> HIDE DEF B, limit, i, sd
    <3>3. ScanInv(tt, B, arrival, reachable, i + 1, sd)
      BY <1>2, <1>4, <1>5, <3>1, NotToday
    <3> QED BY <3>2, <3>3
  <2> QED BY <2>1, <2>2
<1>8. ScanInv(tt', BestFor(tt', query'), arrival', reachable', it', searchDay')
  BY <1>1, <1>7
<1> QED BY <1>1, <1>8 DEF LabelInv

LEMMA LabelsAtEnd ==
  ASSUME SearchTyped, LabelInv, EndScan PROVE LabelInv'
<1> DEFINE B == BestFor(tt, query)
           limit == LimitOf(tt, query)
           i == Position.con
           sd == Position.day
<1>1. /\ phase = "scan" /\ LimitReached /\ phase' = "results"
      /\ UNCHANGED <<tt, query, arrival>>
  BY DEF EndScan, searchVars
<1>2. /\ IsTimetable(tt) /\ query \in Queries /\ Labels(arrival)
      /\ it \in 1..Len(tt.cons) + 1 /\ searchDay \in Nat
  BY <1>1, Loaded DEF SearchTyped
<1>3. limit \in Int /\ IsBest(B, tt, query.sources, query.start, limit)
  BY <1>2, QueryIs
<1>4. i \in DOMAIN tt.cons /\ sd \in Nat
  BY <1>2, PositionIs
<1>5. ScanInv(tt, B, arrival, reachable, i, sd)
  BY <1>1, <1>2, AtPosition DEF LabelInv
<1>6. limit < At(sd, tt.cons[i].dep)
  BY <1>1 DEF LimitReached, Con, TimeLimit, LimitOf
<1>7. ASSUME NEW s \in Station, NEW k \in Round PROVE arrival[s][k] = B[k][s]
  <2> HIDE DEF B, limit, i, sd
  <2> QED BY <1>2, <1>3, <1>4, <1>5, <1>6, EndIsBest
<1>8. arrival = Finished(tt, query)
  BY <1>2, <1>7, FinishedIs
<1> QED BY <1>1, <1>8 DEF LabelInv

(* Both hold in every reachable state.                                     *)
LEMMA LabelInvariant ==
  ASSUME \A s \in Schedules : TripsWithinDay(s.trips)
  PROVE  Spec => []LabelInv
<1>1. Init => LabelInv
  BY DEF Init, LabelInv
<1>2. SearchTyped /\ LabelInv /\ [Next]_vars => LabelInv'
  <2> SUFFICES ASSUME SearchTyped, LabelInv, [Next]_vars PROVE LabelInv'
    OBVIOUS
  <2>1. ASSUME NEW s \in Station, AddStart(s) PROVE LabelInv'
    BY <2>1 DEF AddStart, LabelInv
  <2>2. CASE Search
    BY <2>2, LabelsAtStart
  <2>3. CASE Scan
    BY <2>3, LabelsInScan
  <2>4. CASE EndScan
    BY <2>4, LabelsAtEnd
  <2>5. ASSUME phase \notin {"start", "scan"}, phase' \notin {"start", "scan"},
               UNCHANGED <<tt, query, arrival>>
        PROVE  LabelInv'
    BY <2>5 DEF LabelInv
  <2>6. CASE GetResult
    BY <2>5, <2>6 DEF GetResult, searchVars
  <2>7. CASE Leg
    BY <2>5, <2>7 DEF Leg, searchVars
  <2>8. CASE EndJourney
    BY <2>5, <2>8 DEF EndJourney, searchVars
  <2>9. CASE EndResults
    BY <2>5, <2>9 DEF EndResults, searchVars
  <2>10. CASE UNCHANGED vars
    BY <2>10 DEF LabelInv, vars, searchVars
  <2> QED BY <2>1, <2>2, <2>3, <2>4, <2>6, <2>7, <2>8, <2>9, <2>10 DEF Next
<1> QED BY <1>1, <1>2, SearchTypedInvariant, PTL DEF Spec

(* The one pass over the connections, circular over midnight, pruned by    *)
(* labels and marks, ends with the earliest time at which each station can *)
(* be reached with each number of rides: for every timetable whose trips   *)
(* are under way for less than a day, and every query.                     *)
THEOREM LabelsAreBest ==
  ASSUME \A s \in Schedules : TripsWithinDay(s.trips)
  PROVE  Spec => []LabelsBest
<1>1. LabelInv => LabelsBest
  BY DEF LabelInv, LabelsBest, Finished, BestFor, LimitOf, TimeLimit
<1> QED BY <1>1, LabelInvariant, PTL

(* Where the scan stays on a train by the trip's mark, this day's train    *)
(* could be boarded at an earlier section: trip_reachable_ only remembers  *)
(* the trip, and that is enough for trips of less than a day.              *)
THEOREM MarkedTrainIsCaught ==
  ASSUME \A s \in Schedules : TripsWithinDay(s.trips)
  PROVE  Spec => []TrainCaught
<1>1. SearchTyped /\ LabelInv => TrainCaught
  <2> SUFFICES ASSUME SearchTyped, LabelInv, phase = "scan", Position.day \in Con.days,
                      NEW k \in 0..MaxTransfers - 1, reachable[Con.trip][k] <= Con.idx
               PROVE  \E e \in 1..Con.idx :
                        LET c == SectionConnection(tt.trips, Con.trip, e) IN
                        /\ c.in
                        /\ arrival[c.from][k] <= At(Position.day - (Con.offset - c.offset), c.dep)
    BY DEF TrainCaught
  <2> DEFINE i == Position.con
             sd == Position.day
             t == tt.cons[i].trip
  <2>1. /\ IsTimetable(tt) /\ IsDaily(tt) /\ Labels(arrival) /\ Marks(tt, reachable)
        /\ it \in 1..Len(tt.cons) + 1 /\ searchDay \in Nat
    BY Loaded DEF SearchTyped
  <2>2. i \in DOMAIN tt.cons /\ sd \in Nat
    BY <2>1, PositionIs
  <2>3. ScanInv(tt, BestFor(tt, query), arrival, reachable, i, sd)
    BY <2>1, AtPosition DEF LabelInv
  <2>4. sd \in tt.cons[i].days /\ Con = tt.cons[i]
    BY DEF Con
  <2> HIDE DEF i, sd
  <2>5. PICK d \in tt.trips[t].days : sd = d + tt.cons[i].offset
    BY <2>1, <2>2, <2>4, ConnectionDays
  <2>6. MarksEarned(tt, arrival, reachable, i, sd) /\ Reached(tt, i, sd, arrival, reachable, k)
    BY <2>3, <2>4 DEF ScanInv, Reached
  <2>7. k \in Round
    BY SearchAssumption DEF Round
  <2>8. PICK e : /\ Boardable(tt, At0(arrival, k), t, d, e)
                 /\ e \in Nat /\ e <= tt.cons[i].idx
    BY <2>1, <2>2, <2>5, <2>6, <2>7, ReachedMeansBoardable
  <2>9. /\ Runs(tt, t, d, e) /\ tt.trips[t].in[e]
        /\ At0(arrival, k)[BoardAt(tt, t, e)] <= DepOf(tt, t, d, e)
    BY <2>8 DEF Boardable
  <2>10. t \in DOMAIN tt.trips /\ e \in DOMAIN tt.trips[t].dep /\ IsTrip(tt.trips[t]) /\ t \in Nat
         /\ d \in Nat /\ BoardAt(tt, t, e) \in Station
    BY <2>1, <2>9, SectionFacts DEF Runs, Section
  <2>11. e \in 1..Len(tt.trips[t].dep)
    BY <2>10, TripFacts
  <2>12. tt.cons[i].idx \in Nat /\ tt.cons[i].offset \in Nat
    BY <2>1, <2>2, ConnectionFacts
  <2>13. e \in 1..tt.cons[i].idx
    BY <2>8, <2>11, <2>12
  <2> DEFINE c == SectionConnection(tt.trips, t, e)
  <2>14. c.in = tt.trips[t].in[e] /\ c.from = tt.trips[t].stops[e] /\ c.offset \in Nat
         /\ \A b \in Int : At(b + c.offset, c.dep) = At(b, tt.trips[t].dep[e])
    BY <2>10, SectionIs
  <2> HIDE DEF c, t
  <2>15. sd - (tt.cons[i].offset - c.offset) = d + c.offset
    BY <2>5, <2>10, <2>12, <2>14
  <2>16. At(sd - (tt.cons[i].offset - c.offset), c.dep) = DepOf(tt, t, d, e)
    BY <2>10, <2>14, <2>15 DEF DepOf
  <2>17. arrival[c.from][k] <= At(sd - (tt.cons[i].offset - c.offset), c.dep)
    BY <2>9, <2>10, <2>14, <2>16 DEF At0, BoardAt
  <2>18. c.in
    BY <2>9, <2>14
  <2> QED BY <2>4, <2>13, <2>17, <2>18 DEF c, t, sd
<1> QED BY <1>1, LabelInvariant, SearchTypedInvariant, PTL

(* No label is lowered to a time at which a connection passed over before  *)
(* could have been boarded, so that one pass suffices: whatever the trips. *)
THEOREM SettledStay == Spec => SettledLabelsStay
<1> DEFINE A == phase = "scan" /\ it > 1 =>
                  \A s \in Station, k \in Round :
                    arrival'[s][k] # arrival[s][k] =>
                      arrival'[s][k] > At(searchDay, tt.cons[it - 1].dep)
<1>1. SearchTyped /\ [Next]_vars => [A]_vars
  <2> SUFFICES ASSUME SearchTyped, Next, phase = "scan", it > 1, arrival' # arrival,
                      NEW s \in Station, NEW k \in Round, arrival'[s][k] # arrival[s][k]
               PROVE  arrival'[s][k] > At(searchDay, tt.cons[it - 1].dep)
    OBVIOUS
  <2>1. Scan
    BY DEF Next, AddStart, Search, EndScan, GetResult, Leg, EndJourney, EndResults, searchVars
  <2> DEFINE i == Position.con
             sd == Position.day
             dep == At(sd, tt.cons[i].dep)
  <2>2. sd \in Con.days /\ arrival' = Relaxed.arrival
    BY <2>1 DEF Scan
  <2>3. /\ IsTimetable(tt) /\ Labels(arrival) /\ Marks(tt, reachable)
        /\ it \in 1..Len(tt.cons) + 1 /\ searchDay \in Nat
    BY Loaded DEF SearchTyped
  <2>4. /\ i \in DOMAIN tt.cons /\ sd \in Nat
        /\ \/ i = it /\ sd = searchDay
           \/ it > Len(tt.cons) /\ i = 1 /\ sd = searchDay + 1
    BY <2>3, PositionIs
  <2>5. PICK d \in tt.trips[tt.cons[i].trip].days :
          /\ sd = d + tt.cons[i].offset
          /\ Relaxed.arrival = NewLabels(tt, i, sd, arrival, reachable)
    BY <2>2, <2>3, <2>4, ScannedTrain
  <2>6. arrival'[s][k] = NewLabel(tt, i, sd, arrival, reachable, s, k)
    BY <2>2, <2>5 DEF NewLabels
  <2> HIDE DEF i, sd, dep
  <2>7. NewLabel(tt, i, sd, arrival, reachable, s, k)
          = At(sd, tt.cons[i].arr) + tt.foot[tt.cons[i].to][s]
    <3>1. NewLabel(tt, i, sd, arrival, reachable, s, k) # arrival[s][k]
      BY <2>6
    <3>2. IsTimetable(tt) /\ Labels(arrival)
      BY <2>3
    <3>3. sd = d + tt.cons[i].offset
      BY <2>5
    <3>4. i \in DOMAIN tt.cons
      BY <2>4
    <3> QED BY <3>1, <3>2, <3>3, <3>4, NewLabelCases, Zenon
  <2>8. /\ At(sd, tt.cons[i].arr) + tt.foot[tt.cons[i].to][s] \in Nat
        /\ dep < At(sd, tt.cons[i].arr) + tt.foot[tt.cons[i].to][s]
    BY <2>3, <2>4, <2>5, NewLabelBounds DEF dep
  <2> DEFINE h == it - 1
  <2>9. h \in DOMAIN tt.cons /\ h \in Nat /\ (i = it => h < i)
    <3>1. DOMAIN tt.cons = 1..Len(tt.cons) /\ Len(tt.cons) \in Nat
      BY <2>3 DEF IsTimetable
    <3> QED BY <2>3, <3>1
  <2> HIDE DEF h
  <2>10. /\ tt.cons[h].dep \in 0..DayLen - 1 /\ tt.cons[i].dep \in 0..DayLen - 1
         /\ tt.cons[h].dep \in Int /\ tt.cons[i].dep \in Int
    BY <2>3, <2>4, <2>9, ConnectionFacts
  <2>11. searchDay \in Int /\ sd \in Int
    BY <2>3, <2>4
  <2>12. tt.cons[h].dep <= tt.cons[i].dep \/ sd = searchDay + 1
    BY <2>3, <2>4, <2>9, EarlierConnection
  <2>13. sd = searchDay \/ sd = searchDay + 1
    BY <2>4
  <2> DEFINE m == tt.cons[h].dep
             n == tt.cons[i].dep
             e == At(searchDay, m)
  <2>14. m \in 0..DayLen - 1 /\ n \in 0..DayLen - 1 /\ m \in Int /\ n \in Int
         /\ (m <= n \/ sd = searchDay + 1) /\ dep = At(sd, n)
    BY <2>10, <2>12 DEF dep
  <2> HIDE DEF m, n
  <2>15. e \in Int /\ At(sd, n) \in Int
    BY <2>11, <2>14, TimeOrder
  <2>16. At(sd, n) < e <=> sd < searchDay \/ (sd = searchDay /\ n < m)
    BY <2>11, <2>14, TimeOrder
  <2> HIDE DEF e
  <2>17. ~(At(sd, n) < e)
    BY <2>11, <2>13, <2>14, <2>16
  <2>18. e <= dep /\ dep \in Int
    BY <2>14, <2>15, <2>17
  <2>19. e < arrival'[s][k]
    BY <2>6, <2>7, <2>8, <2>15, <2>18
  <2> QED BY <2>19 DEF h, e, m
<1> QED BY <1>1, SearchTypedInvariant, PTL DEF Spec, SettledLabelsStay

-----------------------------------------------------------------------------
(* Trains that can be boarded before the limit are marked when the scan    *)
(* has ended.                                                              *)
MarksSettled(T, B, limit, r) ==
  \A k \in 0..MaxTransfers - 1 : \A t, d, e :
    Boardable(T, B[k], t, d, e) /\ DepOf(T, t, d, e) <= limit => r[t][k] <= e

SettledInv ==
  phase \notin {"start", "scan"} =>
    MarksSettled(tt, BestFor(tt, query), LimitOf(tt, query), reachable)

LEMMA SettledAtStart ==
  ASSUME SearchTyped, Search PROVE SettledInv'
<1> DEFINE B == BestFor(tt, query)
           limit == LimitOf(tt, query)
<1>1. /\ phase = "start" /\ UNCHANGED <<tt, query, reachable>>
      /\ phase' = "scan" \/ query.start > tt.last
  BY DEF Search
<1>2. /\ query \in Queries /\ IsTimetable(tt)
  BY Loaded DEF SearchTyped
<1>3. /\ query.start \in Nat /\ limit \in Int /\ limit <= tt.last /\ tt.last \in Nat
      /\ IsBest(B, tt, query.sources, query.start, limit)
  BY <1>2, QueryIs
<1> HIDE DEF B, limit
<1>4. CASE phase' = "scan"
  BY <1>4 DEF SettledInv
<1>5. CASE query.start > tt.last
  <2>1. ASSUME NEW k \in 0..MaxTransfers - 1, NEW t, NEW d, NEW e,
               Boardable(tt, B[k], t, d, e), DepOf(tt, t, d, e) <= limit
        PROVE  FALSE
    <3>1. Runs(tt, t, d, e) /\ B[k][BoardAt(tt, t, e)] <= DepOf(tt, t, d, e)
      BY <2>1 DEF Boardable
    <3>2. BoardAt(tt, t, e) \in Station /\ DepOf(tt, t, d, e) \in Nat
      BY <1>2, <3>1, SectionFacts
    <3>3. k \in Round
      BY SearchAssumption DEF Round
    <3>4. B[k][BoardAt(tt, t, e)] \in Nat /\ query.start <= B[k][BoardAt(tt, t, e)]
      BY <1>3, <3>2, <3>3, NeverIs DEF IsBest
    <3> QED BY <1>3, <1>5, <2>1, <3>1, <3>2, <3>4
  <2>2. MarksSettled(tt, B, limit, reachable)
    BY <2>1 DEF MarksSettled
  <2>3. MarksSettled(tt', BestFor(tt', query'), LimitOf(tt', query'), reachable')
    BY <1>1, <2>2 DEF B, limit
  <2> QED BY <2>3 DEF SettledInv
<1> QED BY <1>1, <1>4, <1>5

LEMMA SettledAtEnd ==
  ASSUME SearchTyped, LabelInv, EndScan PROVE SettledInv'
<1> DEFINE B == BestFor(tt, query)
           limit == LimitOf(tt, query)
           i == Position.con
           sd == Position.day
<1>1. /\ phase = "scan" /\ LimitReached
      /\ UNCHANGED <<tt, query, reachable>>
  BY DEF EndScan, searchVars
<1>2. /\ IsTimetable(tt) /\ query \in Queries
      /\ it \in 1..Len(tt.cons) + 1 /\ searchDay \in Nat
  BY <1>1, Loaded DEF SearchTyped
<1>3. limit \in Int
  BY <1>2, QueryIs
<1>4. i \in DOMAIN tt.cons /\ sd \in Nat
  BY <1>2, PositionIs
<1>5. ScanInv(tt, B, arrival, reachable, i, sd)
  BY <1>1, <1>2, AtPosition DEF LabelInv
<1>6. limit < At(sd, tt.cons[i].dep)
  BY <1>1 DEF LimitReached, Con, TimeLimit, LimitOf
<1> HIDE DEF B, limit, i, sd
<1>7. At(sd, tt.cons[i].dep) \in Int
  <2>1. sd \in Int /\ tt.cons[i].dep \in Int
    BY <1>2, <1>4, ConnectionFacts
  <2> QED BY <2>1, AtIs
<1>8. ASSUME NEW k \in 0..MaxTransfers - 1, NEW t, NEW d, NEW e,
             Boardable(tt, B[k], t, d, e), DepOf(tt, t, d, e) <= limit
      PROVE  reachable[t][k] <= e
  <2>1. Runs(tt, t, d, e)
    BY <1>8 DEF Boardable
  <2>2. DepOf(tt, t, d, e) \in Nat
    BY <1>2, <2>1, SectionFacts
  <2>3. DepOf(tt, t, d, e) < At(sd, tt.cons[i].dep)
    BY <1>3, <1>6, <1>7, <1>8, <2>2
  <2>4. Passed(tt, i, sd, t, d, e)
    BY <1>2, <1>4, <2>1, <2>3, EarlierIsPassed
  <2>5. MarksComplete(tt, B, reachable, i, sd)
    BY <1>5 DEF ScanInv
  <2> QED BY <1>8, <2>4, <2>5 DEF MarksComplete
<1>9. MarksSettled(tt, B, limit, reachable)
  BY <1>8 DEF MarksSettled
<1>10. MarksSettled(tt', BestFor(tt', query'), LimitOf(tt', query'), reachable')
  BY <1>1, <1>9 DEF B, limit
<1> QED BY <1>10 DEF SettledInv

LEMMA SettledInvariant ==
  ASSUME \A s \in Schedules : TripsWithinDay(s.trips)
  PROVE  Spec => []SettledInv
<1>1. Init => SettledInv
  BY DEF Init, SettledInv
<1>2. SearchTyped /\ LabelInv /\ SettledInv /\ [Next]_vars => SettledInv'
  <2> SUFFICES ASSUME SearchTyped, LabelInv, SettledInv, [Next]_vars PROVE SettledInv'
    OBVIOUS
  <2>1. ASSUME phase \in {"start", "scan"}, phase' = phase PROVE SettledInv'
    BY <2>1 DEF SettledInv
  <2>2. ASSUME NEW s \in Station, AddStart(s) PROVE SettledInv'
    BY <2>1, <2>2 DEF AddStart
  <2>3. CASE Search
    BY <2>3, SettledAtStart
  <2>4. CASE Scan
    BY <2>1, <2>4 DEF Scan
  <2>5. CASE EndScan
    BY <2>5, SettledAtEnd
  <2>6. ASSUME phase \notin {"start", "scan"}, UNCHANGED <<tt, query, reachable>>
        PROVE  SettledInv'
    BY <2>6 DEF SettledInv
  <2>7. CASE GetResult
    BY <2>6, <2>7 DEF GetResult, searchVars
  <2>8. CASE Leg
    BY <2>6, <2>8 DEF Leg, searchVars
  <2>9. CASE EndJourney
    BY <2>6, <2>9 DEF EndJourney, searchVars
  <2>10. CASE EndResults
    BY <2>6, <2>10 DEF EndResults, searchVars
  <2>11. CASE UNCHANGED vars
    BY <2>11 DEF SettledInv, vars, searchVars
  <2> QED BY <2>2, <2>3, <2>4, <2>5, <2>7, <2>8, <2>9, <2>10, <2>11 DEF Next
<1> QED BY <1>1, <1>2, SearchTypedInvariant, LabelInvariant, PTL DEF Spec

-----------------------------------------------------------------------------
(* A pointer stands for a train.                                           *)
LEMMA DayAndMinuteOf ==
  ASSUME NEW t \in Int
  PROVE  /\ DayIdx(t) \in Int /\ Mam(t) \in 0..DayLen - 1 /\ Mam(t) \in Int
         /\ At(DayIdx(t), Mam(t)) = t
<1>1. DayLen \in Nat \ {0}
  BY TimetableAssumption
<1>2. t \div DayLen \in Int /\ t % DayLen \in 0..DayLen - 1
      /\ t = DayLen * (t \div DayLen) + (t % DayLen)
  BY <1>1
<1> DEFINE q == t \div DayLen
<1>3. DayLen * q = q * DayLen
  BY <1>1, <1>2
<1> QED BY <1>1, <1>2, <1>3 DEF At, DayIdx, Mam

LEMMA DaysLater ==
  ASSUME NEW n \in Int, NEW m \in Int
  PROVE  DayIdx(At(n, m)) = n + DayIdx(m) /\ Mam(At(n, m)) = Mam(m)
<1> DEFINE q == DayIdx(m)
           r == Mam(m)
           t == At(n, m)
           q1 == DayIdx(t)
           r1 == Mam(t)
<1>1. q \in Int /\ r \in 0..DayLen - 1 /\ r \in Int /\ At(q, r) = m
  BY DayAndMinuteOf
<1>2. t \in Int
  BY AtIs
<1>3. q1 \in Int /\ r1 \in 0..DayLen - 1 /\ r1 \in Int /\ At(q1, r1) = t
  BY <1>2, DayAndMinuteOf
<1>4. At(n + q, r) = t
  <2>1. \A e \in Int : At(n + e, r) = At(n, At(e, r))
    BY <1>1, AtIs
  <2> QED BY <1>1, <2>1
<1> HIDE DEF q, r, t, q1, r1
<1>5. n + q \in Int
  BY <1>1
<1>6. q1 = n + q
  BY <1>1, <1>3, <1>4, <1>5, TimeOrder
<1>7. r1 = r
  BY <1>1, <1>3, <1>4, <1>5, TimeOrder
<1> QED BY <1>6, <1>7 DEF q, r, t, q1, r1

LEMMA TransferIs ==
  ASSUME NEW T \in {BuildTimetable(s) : s \in Schedules}, NEW z \in Station
  PROVE  T.foot[z][z] = T.transfer[z] /\ T.transfer[z] \in Nat /\ T.transfer[z] < Never
<1>1. PICK s \in Schedules : T = BuildTimetable(s)
  OBVIOUS
<1>2. T.foot = Footpaths(s.transfer, s.walk) /\ T.transfer = s.transfer
  BY <1>1 DEF BuildTimetable
<1>3. s.transfer \in [Station -> Nat] /\ s.transfer[z] < Never
  BY ScheduleAssumption DEF IsSchedule
<1> QED BY <1>2, <1>3 DEF Footpaths

(* The train of day d, with connection i: when it ends, and its section e. *)
EndAt(i, d)       == ArrOf(tt, tt.cons[i].trip, d, tt.cons[i].idx)
SectionOf(i, e)  == SectionConnection(tt.trips, tt.cons[i].trip, e)

TimesOf(i, d, e) ==
  /\ EndAt(i, d) \in Int /\ Mam(tt.cons[i].arr) = Mam(EndAt(i, d))
  /\ EndAt(i, d) = At(d + tt.cons[i].offset, tt.cons[i].arr)
  /\ DayIdx(EndAt(i, d)) - DayIdx(tt.cons[i].arr) = d + tt.cons[i].offset
  /\ EnterDep(tt.cons[i], e, EndAt(i, d)) = DepOf(tt, tt.cons[i].trip, d, e)
  /\ DayIdx(EnterDep(tt.cons[i], e, EndAt(i, d))) = d + SectionOf(i, e).offset
  /\ SectionOf(i, e).from = BoardAt(tt, tt.cons[i].trip, e)
  /\ SectionOf(i, e).in = tt.trips[tt.cons[i].trip].in[e]

LEMMA TrainTimes ==
  ASSUME IsTimetable(tt), NEW i \in DOMAIN tt.cons, NEW d \in tt.trips[tt.cons[i].trip].days,
         NEW e, Runs(tt, tt.cons[i].trip, d, e)
  PROVE  TimesOf(i, d, e)
<1> PICK x : x = tt.cons[i]
  OBVIOUS
<1> PICK t : t = EndAt(i, d)
  OBVIOUS
<1> PICK c : c = SectionOf(i, e)
  OBVIOUS
<1>1. /\ x.arr \in Int /\ x.offset \in Int /\ d \in Int /\ t = At(d + x.offset, x.arr)
  <2>1. x.arr \in Nat /\ x.offset \in Nat
    BY ConnectionFacts
  <2>2. d \in Nat /\ ArrOf(tt, x.trip, d, x.idx) = At(d + x.offset, x.arr)
    BY ConnectionFacts
  <2> QED BY <2>1, <2>2 DEF EndAt
<1>2. x.trip \in DOMAIN tt.trips /\ e \in DOMAIN tt.trips[x.trip].dep /\ IsTrip(tt.trips[x.trip])
  <2>1. IsTrip(tt.trips[x.trip])
    BY SectionFacts
  <2> QED BY <2>1 DEF Runs, Section
<1>3. /\ c.from = tt.trips[x.trip].stops[e] /\ c.in = tt.trips[x.trip].in[e]
      /\ c.dep \in 0..DayLen - 1 /\ c.offset \in Nat
      /\ \A b \in Int : At(b + c.offset, c.dep) = At(b, tt.trips[x.trip].dep[e])
  <2>1. c = SectionConnection(tt.trips, x.trip, e)
    BY DEF SectionOf
  <2> QED BY <1>2, <2>1, SectionIs, SMTT(30)
<1>4. EnterDep(x, e, t) = At(DayIdx(t) - DayIdx(x.arr) - (x.offset - c.offset), c.dep)
  BY DEF EnterDep, SectionOf
<1>5. PICK sd \in Int : sd = d + x.offset
  BY <1>1
<1>6. DayIdx(t) = sd + DayIdx(x.arr) /\ Mam(t) = Mam(x.arr)
  BY <1>1, <1>5, DaysLater
<1>7. t \in Int /\ DayIdx(x.arr) \in Int
  <2>1. t \in Int
    <3>1. t = At(sd, x.arr)
      BY <1>1, <1>5
    <3> QED BY <1>1, <3>1, AtIs
  <2>2. DayIdx(x.arr) \in Int
    BY <1>1, DayAndMinuteOf
  <2> QED BY <2>1, <2>2
<1>8. DayIdx(t) - DayIdx(x.arr) = d + x.offset
  BY <1>1, <1>5, <1>6, <1>7
<1>9. DayIdx(t) - DayIdx(x.arr) - (x.offset - c.offset) = d + c.offset
  BY <1>1, <1>3, <1>8
<1>10. EnterDep(x, e, t) = At(d + c.offset, c.dep)
  BY <1>4, <1>9
<1>11. EnterDep(x, e, t) = DepOf(tt, x.trip, d, e)
  BY <1>1, <1>3, <1>10 DEF DepOf
<1>12. DayIdx(At(d + c.offset, c.dep)) = d + c.offset
  <2>1. d + c.offset \in Int /\ c.dep \in Int /\ DayLen \in Nat \ {0}
    BY <1>1, <1>3, NeverIs
  <2>2. DayIdx(At(d + c.offset, c.dep)) = d + c.offset + DayIdx(c.dep)
    BY <2>1, DaysLater
  <2>3. DayIdx(c.dep) = 0
    <3>1. /\ DayIdx(c.dep) \in Int /\ Mam(c.dep) \in 0..DayLen - 1 /\ Mam(c.dep) \in Int
          /\ At(DayIdx(c.dep), Mam(c.dep)) = c.dep
      BY <2>1, DayAndMinuteOf
    <3>2. At(0, c.dep) = c.dep
      BY <2>1 DEF At
    <3> QED BY <1>3, <3>1, <3>2, TimeOrder
  <2> QED BY <2>1, <2>2, <2>3
<1>13. c.from = BoardAt(tt, x.trip, e)
  BY <1>3 DEF BoardAt
<1>14. /\ t \in Int /\ Mam(x.arr) = Mam(t) /\ t = At(d + x.offset, x.arr)
       /\ DayIdx(t) - DayIdx(x.arr) = d + x.offset
       /\ EnterDep(x, e, t) = DepOf(tt, x.trip, d, e)
       /\ DayIdx(EnterDep(x, e, t)) = d + c.offset
       /\ c.from = BoardAt(tt, x.trip, e) /\ c.in = tt.trips[x.trip].in[e]
  BY <1>1, <1>3, <1>6, <1>7, <1>8, <1>10, <1>11, <1>12, <1>13
<1> QED BY <1>14 DEF TimesOf

(* Day d's train of connection p.exit can be boarded at p.enter after      *)
(* k - 1 rides and, with the walk to s, arrives there at t.                *)
Carries(T, a, p, s, k, t, d) ==
  LET x == T.cons[p.exit] IN
  /\ p.exit \in DOMAIN T.cons /\ d \in T.trips[x.trip].days
  /\ Runs(T, x.trip, d, p.enter) /\ Runs(T, x.trip, d, x.idx) /\ p.enter <= x.idx
  /\ T.trips[x.trip].in[p.enter] /\ T.trips[x.trip].out[x.idx]
  /\ p.from \in Station /\ LeaveAt(T, x.trip, x.idx) = p.from
  /\ ArrOf(T, x.trip, d, x.idx) = t - T.foot[p.from][s]
  /\ a[BoardAt(T, x.trip, p.enter)][k - 1] <= DepOf(T, x.trip, d, p.enter)

LEMMA PointerShape ==
  ASSUME NEW s, NEW k, NEW t, NEW o, NEW p \in Pointers(s, k, t, o)
  PROVE  LET x == tt.cons[p.exit]
             at == t - tt.foot[p.from][s]
             c == SectionConnection(tt.trips, x.trip, p.enter)
         IN /\ p.from \in Station /\ tt.foot[p.from][s] # Never /\ (o = TRUE => p.from = s)
            /\ p.exit \in ExitCandidates(p.from, at, k) /\ p.enter \in 1..x.idx
            /\ arrival[c.from][k - 1] <= EnterDep(x, p.enter, at) /\ c.in
<1> DEFINE F == {g \in Station : tt.foot[g][s] # Never /\ (o => g = s)}
           W(f) == UNION {{[from |-> f, exit |-> i, enter |-> e] : e \in 1..tt.cons[i].idx}
                           : i \in ExitCandidates(f, t - tt.foot[f][s], k)}
<1>1. PICK f \in F : p \in W(f)
  BY DEF Pointers
<1>2. PICK i \in ExitCandidates(f, t - tt.foot[f][s], k) :
        p \in {[from |-> f, exit |-> i, enter |-> e] : e \in 1..tt.cons[i].idx}
  BY <1>1
<1>3. PICK e \in 1..tt.cons[i].idx : p = [from |-> f, exit |-> i, enter |-> e]
  BY <1>2
<1>4. p.from = f /\ p.exit = i /\ p.enter = e
  BY <1>3
<1>5. LET c == SectionConnection(tt.trips, tt.cons[p.exit].trip, p.enter) IN
        /\ arrival[c.from][k - 1] <= EnterDep(tt.cons[p.exit], p.enter, t - tt.foot[p.from][s])
        /\ c.in
  BY DEF Pointers
<1> QED BY <1>1, <1>2, <1>3, <1>4, <1>5

LEMMA PointerIs ==
  ASSUME IsTimetable(tt), NEW s \in Station, NEW k, NEW t \in Int, NEW o, NEW p \in Pointers(s, k, t, o)
  PROVE  /\ p.from \in Nat /\ p.exit \in Nat /\ p.enter \in Nat
         /\ tt.foot[p.from][s] # Never
         /\ \E d : Carries(tt, arrival, p, s, k, t, d)
<1> DEFINE x == tt.cons[p.exit]
           at == t - tt.foot[p.from][s]
           c == SectionConnection(tt.trips, x.trip, p.enter)
<1>1. /\ p.from \in Station /\ tt.foot[p.from][s] # Never /\ (o = TRUE => p.from = s)
      /\ p.exit \in ExitCandidates(p.from, at, k) /\ p.enter \in 1..x.idx
      /\ arrival[c.from][k - 1] <= EnterDep(x, p.enter, at) /\ c.in
  BY PointerShape
<1>2. /\ p.exit \in DOMAIN tt.cons /\ x.to = p.from /\ x.out /\ Mam(x.arr) = Mam(at)
      /\ DayIdx(at) - DayIdx(x.arr) \in x.days
  BY <1>1 DEF ExitCandidates
<1>3. PICK d \in tt.trips[x.trip].days : DayIdx(at) - DayIdx(x.arr) = d + x.offset
  BY <1>2, ConnectionDays
<1>4. /\ x.idx \in Nat /\ x.arr \in Int /\ x.offset \in Int /\ x.to = LeaveAt(tt, x.trip, x.idx)
      /\ x.out = tt.trips[x.trip].out[x.idx] /\ p.exit \in Nat
  <2>1. p.exit \in DOMAIN tt.cons /\ x = tt.cons[p.exit]
    BY <1>2
  <2> HIDE DEF x
  <2>2. /\ x.idx \in Nat /\ x.arr \in Nat /\ x.offset \in Nat /\ x.to = LeaveAt(tt, x.trip, x.idx)
        /\ x.out = tt.trips[x.trip].out[x.idx] /\ p.exit \in Nat
    BY <2>1, ConnectionFacts
  <2> QED BY <2>2
<1>5. /\ Runs(tt, x.trip, d, x.idx) /\ d \in Int
      /\ ArrOf(tt, x.trip, d, x.idx) = At(d + x.offset, x.arr)
  BY <1>2, ConnectionTimes
<1>6. at \in Int
  <2>1. tt.foot[p.from][s] \in Nat
    BY <1>1 DEF IsTimetable
  <2> QED BY <2>1
<1>7. p.enter \in Nat /\ p.enter <= x.idx /\ p.from \in Nat
  BY <1>1, <1>4, NeverIs DEF Station
<1>8. Runs(tt, x.trip, d, p.enter)
  <2>1. x.trip \in DOMAIN tt.trips /\ IsTrip(tt.trips[x.trip]) /\ x.idx \in DOMAIN tt.trips[x.trip].dep
    BY <1>5, SectionFacts DEF Runs, Section
  <2>2. /\ DOMAIN tt.trips[x.trip].dep = 1..Len(tt.trips[x.trip].dep)
        /\ Len(tt.trips[x.trip].dep) \in Nat
    BY <2>1 DEF IsTrip
  <2>3. p.enter \in DOMAIN tt.trips[x.trip].dep
    <3>1. p.enter \in 1..x.idx /\ x.idx \in Nat
      BY <1>1, <1>4
    <3> HIDE DEF x
    <3> QED BY <2>1, <2>2, <3>1
  <2> QED BY <1>5, <2>1, <2>3 DEF Runs, Section
<1> HIDE DEF at, x, c
<1>9. At(d + x.offset, x.arr) = at
  <2> DEFINE q == DayIdx(x.arr)
             r == Mam(x.arr)
  <2>1. q \in Int /\ r \in Int /\ At(q, r) = x.arr
    BY <1>4, DayAndMinuteOf
  <2>2. DayIdx(at) \in Int /\ At(DayIdx(at), Mam(at)) = at
    BY <1>6, DayAndMinuteOf
  <2> HIDE DEF q, r
  <2>3. d + x.offset \in Int /\ DayIdx(at) = d + x.offset + q
    BY <1>3, <1>4, <1>5, <2>1, <2>2 DEF q
  <2>4. At(d + x.offset + q, r) = At(d + x.offset, At(q, r))
    BY <2>1, <2>3, AtIs
  <2> QED BY <1>2, <2>1, <2>2, <2>3, <2>4 DEF r
<1>10. ArrOf(tt, x.trip, d, x.idx) = at
  BY <1>5, <1>9
<1>11. /\ EnterDep(x, p.enter, at) = DepOf(tt, x.trip, d, p.enter)
       /\ c.from = BoardAt(tt, x.trip, p.enter) /\ c.in = tt.trips[x.trip].in[p.enter]
  <2>1. at = EndAt(p.exit, d)
    BY <1>10 DEF EndAt, x
  <2>2. c = SectionOf(p.exit, p.enter)
    BY DEF SectionOf, c, x
  <2>3. /\ p.exit \in DOMAIN tt.cons /\ d \in tt.trips[tt.cons[p.exit].trip].days
        /\ Runs(tt, tt.cons[p.exit].trip, d, p.enter)
    BY <1>2, <1>8 DEF x
  <2>4. /\ EnterDep(tt.cons[p.exit], p.enter, EndAt(p.exit, d))
             = DepOf(tt, tt.cons[p.exit].trip, d, p.enter)
        /\ SectionOf(p.exit, p.enter).from = BoardAt(tt, tt.cons[p.exit].trip, p.enter)
        /\ SectionOf(p.exit, p.enter).in = tt.trips[tt.cons[p.exit].trip].in[p.enter]
    <3>1. TimesOf(p.exit, d, p.enter)
      BY <2>3, TrainTimes
    <3> QED BY <3>1 DEF TimesOf
  <2> QED BY <2>1, <2>2, <2>4 DEF x
<1>12. Carries(tt, arrival, p, s, k, t, d)
  BY <1>1, <1>2, <1>4, <1>5, <1>7, <1>8, <1>10, <1>11 DEF Carries, x, at
<1> QED BY <1>1, <1>4, <1>7, <1>12

(* ... and every train that can be boarded and is marked has its pointer.  *)
LEMMA PointerExists ==
  ASSUME IsTimetable(tt), NEW s \in Station, NEW k, NEW t \in Int, NEW o, NEW p, NEW d,
         Carries(tt, arrival, p, s, k, t, d),
         p = [from |-> p.from, exit |-> p.exit, enter |-> p.enter],
         tt.foot[p.from][s] # Never, o = TRUE => p.from = s,
         reachable[tt.cons[p.exit].trip][k - 1] <= tt.cons[p.exit].idx
  PROVE  p \in Pointers(s, k, t, o)
<1> DEFINE x == tt.cons[p.exit]
           at == t - tt.foot[p.from][s]
           c == SectionConnection(tt.trips, x.trip, p.enter)
<1>1. /\ p.exit \in DOMAIN tt.cons /\ d \in tt.trips[x.trip].days
      /\ Runs(tt, x.trip, d, p.enter) /\ Runs(tt, x.trip, d, x.idx) /\ p.enter <= x.idx
      /\ tt.trips[x.trip].in[p.enter] /\ tt.trips[x.trip].out[x.idx]
      /\ p.from \in Station /\ LeaveAt(tt, x.trip, x.idx) = p.from
      /\ ArrOf(tt, x.trip, d, x.idx) = at
      /\ arrival[BoardAt(tt, x.trip, p.enter)][k - 1] <= DepOf(tt, x.trip, d, p.enter)
  BY DEF Carries
<1>2. at = EndAt(p.exit, d) /\ c = SectionOf(p.exit, p.enter)
  BY <1>1 DEF EndAt, SectionOf
<1>3. /\ Mam(x.arr) = Mam(at) /\ DayIdx(at) - DayIdx(x.arr) = d + x.offset
      /\ EnterDep(x, p.enter, at) = DepOf(tt, x.trip, d, p.enter)
      /\ c.from = BoardAt(tt, x.trip, p.enter) /\ c.in = tt.trips[x.trip].in[p.enter]
  <2>1. /\ p.exit \in DOMAIN tt.cons /\ d \in tt.trips[tt.cons[p.exit].trip].days
        /\ Runs(tt, tt.cons[p.exit].trip, d, p.enter)
    BY <1>1
  <2>2. /\ Mam(tt.cons[p.exit].arr) = Mam(EndAt(p.exit, d))
        /\ DayIdx(EndAt(p.exit, d)) - DayIdx(tt.cons[p.exit].arr) = d + tt.cons[p.exit].offset
        /\ EnterDep(tt.cons[p.exit], p.enter, EndAt(p.exit, d))
             = DepOf(tt, tt.cons[p.exit].trip, d, p.enter)
        /\ SectionOf(p.exit, p.enter).from = BoardAt(tt, tt.cons[p.exit].trip, p.enter)
        /\ SectionOf(p.exit, p.enter).in = tt.trips[tt.cons[p.exit].trip].in[p.enter]
    <3>1. TimesOf(p.exit, d, p.enter)
      BY <2>1, TrainTimes
    <3> QED BY <3>1 DEF TimesOf
  <2>3. x = tt.cons[p.exit]
    OBVIOUS
  <2> HIDE DEF x, at, c
  <2> QED BY <1>2, <2>2, <2>3
<1>4. d + x.offset \in x.days
  BY <1>1, ConnectionDays
<1>5. x.to = LeaveAt(tt, x.trip, x.idx) /\ x.out = tt.trips[x.trip].out[x.idx]
  <2>1. p.exit \in DOMAIN tt.cons /\ x = tt.cons[p.exit]
    BY <1>1
  <2> HIDE DEF x
  <2> QED BY <2>1, ConnectionFacts
<1>6. p.exit \in ExitCandidates(p.from, at, k)
  BY <1>1, <1>3, <1>4, <1>5 DEF ExitCandidates
<1>7. p.enter \in 1..x.idx
  <2> HIDE DEF x, at, c
  <2>1. IsTrip(tt.trips[x.trip]) /\ p.enter \in DOMAIN tt.trips[x.trip].dep /\ x.idx \in Nat
    BY <1>1, SectionFacts DEF Runs, Section
  <2>2. p.enter \in 1..Len(tt.trips[x.trip].dep) /\ Len(tt.trips[x.trip].dep) \in Nat
    BY <2>1, TripFacts
  <2> QED BY <1>1, <2>1, <2>2
<1>8. arrival[c.from][k - 1] <= EnterDep(x, p.enter, at) /\ c.in
  BY <1>1, <1>3
<1> DEFINE F == {g \in Station : tt.foot[g][s] # Never /\ (o => g = s)}
           V(f, i) == {[from |-> f, exit |-> i, enter |-> e] : e \in 1..tt.cons[i].idx}
           W(f) == UNION {V(f, i) : i \in ExitCandidates(f, t - tt.foot[f][s], k)}
<1>9. p \in V(p.from, p.exit)
  BY <1>7
<1>10. p \in UNION {W(f) : f \in F}
  <2>1. p.from \in F
    BY <1>1
  <2> HIDE DEF V, F
  <2>2. p \in W(p.from)
    BY <1>6, <1>9
  <2> HIDE DEF W
  <2> QED BY <2>1, <2>2
<1> QED BY <1>8, <1>10 DEF Pointers

(* The best rides have pointers when the scan is over.                     *)
LEMMA RidePoints ==
  ASSUME IsTimetable(tt), NEW s \in Station, NEW k \in 1..MaxTransfers, NEW o, NEW limit \in Int,
         NEW B, \A z \in Station : arrival[z][k - 1] = B[k - 1][z],
         Marks(tt, reachable), MarksSettled(tt, B, limit, reachable),
         NEW t, NEW d, NEW e, NEW j, CanRide(tt, limit, B[k - 1], t, d, e, j),
         tt.foot[LeaveAt(tt, t, j)][s] # Never, o = TRUE => LeaveAt(tt, t, j) = s
  PROVE  Pointers(s, k, RideEnd(tt, t, d, j, s), o) # {}
<1>1. /\ Runs(tt, t, d, e) /\ Runs(tt, t, d, j) /\ e <= j
      /\ tt.trips[t].in[e] /\ tt.trips[t].out[j]
      /\ DepOf(tt, t, d, j) <= limit
      /\ B[k - 1][BoardAt(tt, t, e)] <= DepOf(tt, t, d, e)
  BY DEF CanRide
<1>2. /\ DepOf(tt, t, d, e) \in Nat /\ DepOf(tt, t, d, j) \in Nat
      /\ DepOf(tt, t, d, e) <= DepOf(tt, t, d, j) /\ RideEnd(tt, t, d, j, s) \in Nat
  BY RideEndIs
<1>3. PICK i \in DOMAIN tt.cons : tt.cons[i].trip = t /\ tt.cons[i].idx = j
  BY <1>1 DEF Runs, IsTimetable
<1>4. reachable[t][k - 1] <= j
  <2>1. Boardable(tt, B[k - 1], t, d, e) /\ DepOf(tt, t, d, e) <= limit
    BY <1>1, <1>2 DEF Boardable
  <2>2. k - 1 \in 0..MaxTransfers - 1 /\ k - 1 \in Round
    BY SearchAssumption DEF Round
  <2>3. reachable[t][k - 1] <= e
    BY <2>1, <2>2 DEF MarksSettled
  <2>4. reachable[t][k - 1] \in Nat
    BY <1>1, <2>2 DEF Marks, Runs, Section
  <2>5. e \in Nat /\ j \in Nat
    BY <1>1, SectionFacts
  <2> QED BY <1>1, <2>3, <2>4, <2>5
<1>5. /\ BoardAt(tt, t, e) \in Station /\ LeaveAt(tt, t, j) \in Station
      /\ ArrOf(tt, t, d, j) \in Nat /\ tt.foot[LeaveAt(tt, t, j)][s] \in Nat
  BY <1>1, SectionFacts
<1> DEFINE p == [from |-> LeaveAt(tt, t, j), exit |-> i, enter |-> e]
           at == RideEnd(tt, t, d, j, s)
<1>6. /\ p.from = LeaveAt(tt, t, j) /\ p.exit = i /\ p.enter = e
      /\ p = [from |-> p.from, exit |-> p.exit, enter |-> p.enter]
  OBVIOUS
<1>7. at \in Int /\ ArrOf(tt, t, d, j) = at - tt.foot[LeaveAt(tt, t, j)][s]
  BY <1>2, <1>5 DEF RideEnd
<1> HIDE DEF p, at
<1>8. d \in tt.trips[t].days
  BY <1>1 DEF Runs
<1>9. Carries(tt, arrival, p, s, k, at, d)
  BY <1>1, <1>3, <1>5, <1>6, <1>7, <1>8 DEF Carries
<1>10. p \in Pointers(s, k, at, o)
  BY <1>3, <1>4, <1>6, <1>7, <1>9, PointerExists
<1> QED BY <1>10 DEF at

(* What is tried first is there.                                           *)
LEMMA FirstPointerIs ==
  ASSUME NEW s \in Station, NEW P, P # {},
         \A p \in P : p.from \in Nat /\ p.exit \in Nat /\ p.enter \in Nat
  PROVE  FirstPointer(s, P) \in P
<1> DEFINE rank(r) == IF r.from = s THEN 0 ELSE r.from
           R == {rank(p) : p \in P}
<1>1. \A p \in P : rank(p) \in Nat
  OBVIOUS
<1>2. PICK p1 \in P : \A q \in P : rank(p1) <= rank(q)
  <2>1. R \in SUBSET Nat /\ R # {}
    BY <1>1
  <2>2. PICK r \in R : \A y \in R : r <= y
    BY <2>1, Least
  <2> QED BY <2>2
<1> DEFINE P2 == {p \in P : rank(p) = rank(p1)}
           X == {p.exit : p \in P2}
<1>3. PICK p2 \in P2 : \A q \in P2 : p2.exit <= q.exit
  <2>1. X \in SUBSET Nat /\ X # {}
    BY <1>2
  <2>2. PICK r \in X : \A y \in X : r <= y
    <3> HIDE DEF X
    <3> QED BY <2>1, Least
  <2> QED BY <2>2
<1> DEFINE P3 == {p \in P2 : p.exit = p2.exit}
           N == {p.enter : p \in P3}
<1>4. PICK p3 \in P3 : \A q \in P3 : p3.enter <= q.enter
  <2>1. N \in SUBSET Nat /\ N # {}
    BY <1>3
  <2>2. PICK r \in N : \A y \in N : r <= y
    <3> HIDE DEF N
    <3> QED BY <2>1, Least
  <2> QED BY <2>2
<1>5. p3 \in P /\ rank(p3) = rank(p1) /\ p3.exit = p2.exit
  BY <1>3, <1>4
<1>6. ASSUME NEW q \in P PROVE TriedBefore(s, p3, q)
  <2>1. rank(p3) <= rank(q) /\ rank(p3) \in Nat /\ rank(q) \in Nat
    BY <1>1, <1>2, <1>5
  <2>2. rank(q) = rank(p3) => p3.exit <= q.exit
    BY <1>3, <1>5
  <2>3. rank(q) = rank(p3) /\ q.exit = p3.exit => p3.enter <= q.enter
    BY <1>4, <1>5
  <2>4. p3.exit \in Nat /\ q.exit \in Nat
    BY <1>5
  <2>5. TriedBefore(s, p3, q) <=>
          (\/ rank(p3) < rank(q)
           \/ rank(p3) = rank(q) /\ p3.exit < q.exit
           \/ rank(p3) = rank(q) /\ p3.exit = q.exit /\ p3.enter <= q.enter)
    BY DEF TriedBefore
  <2> HIDE DEF rank
  <2> QED BY <2>1, <2>2, <2>3, <2>4, <2>5
<1> HIDE DEF rank
<1>7. \E p \in P : \A q \in P : TriedBefore(s, p, q)
  BY <1>5, <1>6
<1> QED BY <1>7 DEF FirstPointer

(* The ride of a pointer, and its walk, as extract_journey writes them.    *)
TrainLeg(T, p, d) ==
  LET x == T.cons[p.exit] IN
  [trip |-> x.trip, enter |-> p.enter, exit |-> x.idx,
   from |-> BoardAt(T, x.trip, p.enter), to |-> p.from,
   dep |-> DepOf(T, x.trip, d, p.enter), arr |-> ArrOf(T, x.trip, d, x.idx)]

LEMMA RideEdgeIs ==
  ASSUME IsTimetable(tt), NEW s \in Station, NEW k, NEW t \in Int, NEW p, NEW d,
         Carries(tt, arrival, p, s, k, t, d)
  PROVE  RideEdge(p, t - tt.foot[p.from][s]) = TrainLeg(tt, p, d)
<1> DEFINE x == tt.cons[p.exit]
           at == t - tt.foot[p.from][s]
           c == SectionConnection(tt.trips, x.trip, p.enter)
           dep == EnterDep(x, p.enter, at)
<1>1. /\ p.exit \in DOMAIN tt.cons /\ d \in tt.trips[x.trip].days
      /\ Runs(tt, x.trip, d, p.enter) /\ ArrOf(tt, x.trip, d, x.idx) = at
      /\ LeaveAt(tt, x.trip, x.idx) = p.from
  BY DEF Carries
<1>2. at = EndAt(p.exit, d) /\ c = SectionOf(p.exit, p.enter)
  BY <1>1 DEF EndAt, SectionOf
<1>3. /\ dep = DepOf(tt, x.trip, d, p.enter) /\ DayIdx(dep) = d + c.offset
      /\ c.from = BoardAt(tt, x.trip, p.enter)
  <2>1. /\ p.exit \in DOMAIN tt.cons /\ d \in tt.trips[tt.cons[p.exit].trip].days
        /\ Runs(tt, tt.cons[p.exit].trip, d, p.enter)
    BY <1>1
  <2>2. /\ EnterDep(tt.cons[p.exit], p.enter, EndAt(p.exit, d))
             = DepOf(tt, tt.cons[p.exit].trip, d, p.enter)
        /\ DayIdx(EnterDep(tt.cons[p.exit], p.enter, EndAt(p.exit, d)))
             = d + SectionOf(p.exit, p.enter).offset
        /\ SectionOf(p.exit, p.enter).from = BoardAt(tt, tt.cons[p.exit].trip, p.enter)
    <3>1. TimesOf(p.exit, d, p.enter)
      BY <2>1, TrainTimes
    <3> QED BY <3>1 DEF TimesOf
  <2>3. x = tt.cons[p.exit] /\ dep = EnterDep(x, p.enter, at)
    OBVIOUS
  <2> HIDE DEF x, at, c, dep
  <2> QED BY <1>2, <2>2, <2>3
<1>4. /\ x.to = LeaveAt(tt, x.trip, x.idx) /\ x.arr \in Int /\ x.offset \in Int /\ d \in Int
      /\ ArrOf(tt, x.trip, d, x.idx) = At(d + x.offset, x.arr)
  <2>1. p.exit \in DOMAIN tt.cons /\ x = tt.cons[p.exit] /\ d \in tt.trips[x.trip].days
    BY <1>1
  <2>0. TimesOf(p.exit, d, p.enter)
    BY <1>1, TrainTimes
  <2> HIDE DEF x
  <2>2. x.to = LeaveAt(tt, x.trip, x.idx) /\ x.arr \in Nat /\ x.offset \in Nat
    BY <2>1, ConnectionFacts
  <2>3. d \in Nat
    BY <1>1, SectionFacts
  <2>4. ArrOf(tt, x.trip, d, x.idx) = At(d + x.offset, x.arr)
    BY <2>0, <2>1 DEF TimesOf, EndAt
  <2> QED BY <2>2, <2>3, <2>4
<1>5. c.offset \in Int
  <2>1. x.trip \in DOMAIN tt.trips /\ p.enter \in DOMAIN tt.trips[x.trip].dep
        /\ IsTrip(tt.trips[x.trip])
    BY <1>1, SectionFacts DEF Runs, Section
  <2>2. c.offset \in Nat
    BY <2>1, SectionIs
  <2> QED BY <2>2
<1>6. RideEdge(p, at) =
        [trip |-> x.trip, enter |-> p.enter, exit |-> x.idx, from |-> c.from, to |-> x.to,
         dep |-> dep, arr |-> At(DayIdx(dep) + x.offset - c.offset + DayIdx(x.arr), Mam(x.arr))]
  BY DEF RideEdge
<1> HIDE DEF x, at, c, dep
<1> DEFINE q == DayIdx(x.arr)
           r == Mam(x.arr)
<1>7. q \in Int /\ r \in Int /\ At(q, r) = x.arr
  BY <1>4, DayAndMinuteOf
<1> HIDE DEF q, r
<1>8. At(DayIdx(dep) + x.offset - c.offset + q, r) = ArrOf(tt, x.trip, d, x.idx)
  <2>1. PICK b \in Int : b = d + x.offset
    BY <1>4
  <2>2. DayIdx(dep) + x.offset - c.offset + q = b + q
    BY <1>3, <1>4, <1>5, <1>7, <2>1
  <2>3. At(b + q, r) = At(b, At(q, r))
    BY <1>7, <2>1, AtIs
  <2> QED BY <1>4, <1>7, <2>1, <2>2, <2>3
<1>9. RideEdge(p, at) =
        [trip |-> x.trip, enter |-> p.enter, exit |-> x.idx,
         from |-> BoardAt(tt, x.trip, p.enter), to |-> p.from,
         dep |-> DepOf(tt, x.trip, d, p.enter), arr |-> ArrOf(tt, x.trip, d, x.idx)]
  BY <1>1, <1>3, <1>4, <1>6, <1>8 DEF q, r
<1> QED BY <1>9 DEF TrainLeg, x, at

(* Such a ride is one: see IsRide.                                         *)
RideLeg(T, e) ==
  LET r == [trip |-> e.trip, enter |-> e.enter, exit |-> e.exit,
            day |-> DayIdx(e.dep - T.trips[e.trip].dep[e.enter])] IN
  /\ r \in RidesOf(T, e.trip)
  /\ e.from = RideFrom(T, r) /\ e.dep = RideDep(T, r)
  /\ e.to = RideTo(T, r)     /\ e.arr = RideArr(T, r)

LEMMA TrainLegIs ==
  ASSUME NEW T, IsTimetable(T), NEW a, NEW s \in Station, NEW k, NEW t, NEW p, NEW d,
         Carries(T, a, p, s, k, t, d)
  PROVE  RideLeg(T, TrainLeg(T, p, d)) /\ TrainLeg(T, p, d).trip \in Nat
<1> DEFINE x == T.cons[p.exit]
           e == TrainLeg(T, p, d)
           r == [trip |-> e.trip, enter |-> e.enter, exit |-> e.exit,
                 day |-> DayIdx(e.dep - T.trips[e.trip].dep[e.enter])]
<1>1. /\ d \in T.trips[x.trip].days
      /\ Runs(T, x.trip, d, p.enter) /\ Runs(T, x.trip, d, x.idx) /\ p.enter <= x.idx
      /\ T.trips[x.trip].in[p.enter] /\ T.trips[x.trip].out[x.idx]
      /\ LeaveAt(T, x.trip, x.idx) = p.from
  BY DEF Carries
<1>2. /\ e.trip = x.trip /\ e.enter = p.enter /\ e.exit = x.idx
      /\ e.from = BoardAt(T, x.trip, p.enter) /\ e.to = p.from
      /\ e.dep = DepOf(T, x.trip, d, p.enter) /\ e.arr = ArrOf(T, x.trip, d, x.idx)
  BY DEF TrainLeg
<1>3. /\ p.enter \in DOMAIN T.trips[x.trip].dep /\ x.idx \in DOMAIN T.trips[x.trip].dep
      /\ IsTrip(T.trips[x.trip]) /\ d \in Int /\ x.trip \in Nat
  <2> HIDE DEF x
  <2>1. d \in Nat /\ IsTrip(T.trips[x.trip]) /\ x.trip \in Nat
    BY <1>1, SectionFacts
  <2> QED BY <1>1, <2>1 DEF Runs, Section
<1>4. T.trips[x.trip].dep[p.enter] \in Int
  <2>1. T.trips[x.trip].dep[p.enter] \in Nat
    BY <1>3, TripFacts
  <2> QED BY <2>1
<1> HIDE DEF x, e
<1>5. DayIdx(e.dep - T.trips[e.trip].dep[e.enter]) = d
  <2> DEFINE m == T.trips[x.trip].dep[p.enter]
             n == At(d, m) - m
  <2>1. m \in Int /\ DayLen \in Nat \ {0}
    BY <1>4, NeverIs
  <2> HIDE DEF m
  <2>2. n = At(d, 0)
    BY <1>3, <2>1 DEF At
  <2>3. DayIdx(At(d, 0)) = d + DayIdx(0)
    BY <1>3, DaysLater
  <2>4. DayIdx(0) = 0
    BY <2>1 DEF DayIdx
  <2>5. e.dep - T.trips[e.trip].dep[e.enter] = n
    BY <1>2 DEF DepOf, m
  <2> HIDE DEF n
  <2> QED BY <1>3, <2>2, <2>3, <2>4, <2>5
<1>6. r = [trip |-> x.trip, enter |-> p.enter, exit |-> x.idx, day |-> d]
  BY <1>2, <1>5
<1>7. r.trip = x.trip /\ r.enter = p.enter /\ r.exit = x.idx /\ r.day = d
  BY <1>6
<1>8. r \in [trip : {x.trip}, day : T.trips[x.trip].days,
             enter : DOMAIN T.trips[x.trip].dep, exit : DOMAIN T.trips[x.trip].dep]
  BY <1>1, <1>3, <1>6
<1> HIDE DEF r
<1>9. r \in RidesOf(T, x.trip)
  BY <1>1, <1>7, <1>8 DEF RidesOf
<1>10. /\ e.from = RideFrom(T, r) /\ e.dep = RideDep(T, r)
       /\ e.to = RideTo(T, r)     /\ e.arr = RideArr(T, r)
  BY <1>1, <1>2, <1>7 DEF RideFrom, RideDep, RideTo, RideArr, BoardAt, LeaveAt, DepOf, ArrOf
<1>11. e.trip \in Nat
  BY <1>2, <1>3
<1> QED BY <1>2, <1>9, <1>10, <1>11 DEF RideLeg, r, e

(* Pointers by any walk, and by none.                                      *)
LEMMA AnyPointerIs ==
  ASSUME IsTimetable(tt), NEW s \in Station, NEW k, NEW t \in Int,
         NEW p \in Pointers(s, k, t, FALSE)
  PROVE  /\ p.from \in Nat /\ p.exit \in Nat /\ p.enter \in Nat
         /\ tt.foot[p.from][s] # Never
         /\ \E d : Carries(tt, arrival, p, s, k, t, d)
<1>1. PICK o : o = FALSE
  OBVIOUS
<1>2. p \in Pointers(s, k, t, o)
  BY <1>1
<1> QED BY <1>2, PointerIs

LEMMA OwnPointerIs ==
  ASSUME IsTimetable(tt), NEW s \in Station, NEW k, NEW t \in Int,
         NEW p \in Pointers(s, k, t, TRUE)
  PROVE  /\ p.from \in Nat /\ p.exit \in Nat /\ p.enter \in Nat
         /\ tt.foot[p.from][s] # Never /\ p.from = s
         /\ \E d : Carries(tt, arrival, p, s, k, t, d)
<1>1. PICK o : o = TRUE
  OBVIOUS
<1>2. p \in Pointers(s, k, t, o)
  BY <1>1
<1>3. p.from = s
  <2> DEFINE F == {g \in Station : tt.foot[g][s] # Never /\ (TRUE => g = s)}
             W(f) == UNION {{[from |-> f, exit |-> i, enter |-> e] : e \in 1..tt.cons[i].idx}
                             : i \in ExitCandidates(f, t - tt.foot[f][s], k)}
  <2>1. PICK f \in F : p \in W(f)
    BY DEF Pointers
  <2>2. PICK i \in ExitCandidates(f, t - tt.foot[f][s], k) :
          p \in {[from |-> f, exit |-> i, enter |-> e] : e \in 1..tt.cons[i].idx}
    BY <2>1
  <2>3. PICK e \in 1..tt.cons[i].idx : p = [from |-> f, exit |-> i, enter |-> e]
    BY <2>2
  <2> QED BY <2>1, <2>3
<1> QED BY <1>1, <1>2, <1>3, PointerIs

(* What extract_journey chooses: a train for the label, or, for the last   *)
(* leg, one that arrives at the station itself no later.                   *)
Arrived(at, p, s) == at - (IF p.from = s THEN tt.foot[s][s] ELSE 0)

LEMMA ChoiceIs ==
  ASSUME IsTimetable(tt), Labels(arrival), stop \in Station, transfers \in Round,
         tt.foot[stop][stop] = tt.transfer[stop],
         Pointers(stop, transfers, arrival[stop][transfers], FALSE) # {}
  PROVE  /\ Choice.at \in Int
         /\ tt.foot[Choice.p.from][stop] # Never
         /\ \E d : Carries(tt, arrival, Choice.p, stop, transfers, Choice.at, d)
         /\ \/ Choice.at = arrival[stop][transfers]
            \/ edges = <<>> /\ Choice.p.from = stop
         /\ Arrived(Choice.at, Choice.p, stop) <= arrival[stop][transfers]
         /\ edges = <<>> =>
              \A w \in DirectTimes(stop, transfers) :
                Arrived(Choice.at, Choice.p, stop)
                  <= arrival[stop][transfers] + w - tt.transfer[stop]
<1> DEFINE label  == arrival[stop][transfers]
           P      == Pointers(stop, transfers, label, FALSE)
           p      == FirstPointer(stop, P)
           direct == DirectTimes(stop, transfers)
           later  == label + Min(direct)
           D      == Pointers(stop, transfers, later, TRUE)
           tr     == tt.transfer[stop]
<1>1. label \in Int /\ tr \in Nat
  <2>1. label \in 0..Never
    BY DEF Labels
  <2>2. tt.foot[stop][stop] \in Nat
    BY DEF IsTimetable
  <2> QED BY <2>1, <2>2, NeverIs
<1>2. p \in P
  <2>1. \A x \in P : x.from \in Nat /\ x.exit \in Nat /\ x.enter \in Nat
    BY <1>1, AnyPointerIs
  <2> HIDE DEF P
  <2>2. P # {}
    BY DEF P
  <2> QED BY <2>1, <2>2, FirstPointerIs
<1>3. /\ tt.foot[p.from][stop] # Never
      /\ \E d : Carries(tt, arrival, p, stop, transfers, label, d)
  <2>1. p \in Pointers(stop, transfers, label, FALSE)
    BY <1>2 DEF P
  <2> HIDE DEF label, p, P
  <2> QED BY <1>1, <2>1, AnyPointerIs
<1>4. p.from = stop => Arrived(label, p, stop) = label - tr
  BY DEF Arrived
<1>5. p.from # stop => Arrived(label, p, stop) = label
  BY <1>1 DEF Arrived
<1>6. direct \in SUBSET Nat /\ \A w \in direct : w <= tr
  <2>1. direct \subseteq 0..tr
    BY DEF DirectTimes
  <2> HIDE DEF direct, tr
  <2> QED BY <1>1, <2>1
<1>7. CASE ~(edges = <<>> /\ p.from # stop /\ direct # {})
  <2>1. Choice.at = label /\ Choice.p = p
    BY <1>7 DEF Choice
  <2>2. ASSUME edges = <<>>, NEW w \in direct
        PROVE  Arrived(label, p, stop) <= label + w - tr
    <3>1. p.from = stop
      BY <1>7, <2>2
    <3>2. w \in Nat
      BY <1>6, <2>2
    <3> HIDE DEF label, p, tr, direct
    <3> QED BY <1>1, <1>4, <3>1, <3>2
  <2>3. Arrived(label, p, stop) <= label
    <3> HIDE DEF label, p, tr
    <3> QED BY <1>1, <1>4, <1>5
  <2> HIDE DEF p
  <2> QED BY <1>1, <1>3, <2>1, <2>2, <2>3
<1>8. CASE edges = <<>> /\ p.from # stop /\ direct # {}
  <2> DEFINE o == FirstPointer(stop, D)
  <2>1. Choice.at = later /\ Choice.p = o
    BY <1>8 DEF Choice
  <2>2. Min(direct) \in direct /\ \A w \in direct : Min(direct) <= w
    BY <1>6, <1>8, MinIs
  <2>3. Min(direct) \in Nat /\ Min(direct) <= tr
    BY <1>6, <2>2
  <2>4. later \in Int
    BY <1>1, <2>3
  <2>5. D # {}
    BY <2>2 DEF DirectTimes
  <2>6. o \in D
    <3>1. \A x \in D : x.from \in Nat /\ x.exit \in Nat /\ x.enter \in Nat
      <4> HIDE DEF later
      <4> QED BY <2>4, OwnPointerIs
    <3> HIDE DEF D
    <3> QED BY <2>5, <3>1, FirstPointerIs
  <2>7. /\ tt.foot[o.from][stop] # Never /\ o.from = stop
        /\ \E d : Carries(tt, arrival, o, stop, transfers, later, d)
    <3>1. o \in Pointers(stop, transfers, later, TRUE)
      BY <2>6 DEF D
    <3> HIDE DEF o, later, D
    <3> QED BY <2>4, <3>1, OwnPointerIs
  <2>8. Arrived(later, o, stop) = label + Min(direct) - tr
    <3>1. Arrived(later, o, stop) = later - tr
      <4> HIDE DEF o, later
      <4> QED BY <2>7 DEF Arrived
    <3>2. later = label + Min(direct)
      OBVIOUS
    <3> HIDE DEF o, later, label, tr, direct
    <3> QED BY <1>1, <2>3, <3>1, <3>2
  <2>9. Arrived(later, o, stop) <= label /\ \A w \in direct : Arrived(later, o, stop) <= label + w - tr
    <3>1. ASSUME NEW w \in direct PROVE Arrived(later, o, stop) <= label + w - tr
      <4>1. w \in Nat /\ Min(direct) <= w
        BY <1>6, <2>2
      <4> HIDE DEF label, o, tr, direct, later
      <4> QED BY <1>1, <2>3, <2>8, <4>1
    <3>2. Arrived(later, o, stop) <= label
      <4> HIDE DEF label, o, tr, direct, later
      <4> QED BY <1>1, <2>3, <2>8
    <3> QED BY <3>1, <3>2
  <2> HIDE DEF o, later
  <2> QED BY <1>8, <2>1, <2>4, <2>7, <2>9
<1> QED BY <1>7, <1>8

-----------------------------------------------------------------------------
(* Sequences of legs.                                                      *)
RidesIn(es) == Cardinality({i \in DOMAIN es : es[i].trip # 0})

LegType == [trip : Nat, enter : Nat, exit : Nat, from : Station, to : Station, dep : Int, arr : Int]

GoodLeg(T, e) == IF e.trip = 0 THEN e.arr - e.dep = T.foot[e.from][e.to] ELSE RideLeg(T, e)

Changed(T, e, f) ==
  e.to = f.from /\ f.dep >= e.arr + (IF e.trip # 0 /\ f.trip # 0 THEN T.transfer[e.to] ELSE 0)

Chained(T, es) ==
  /\ es \in Seq(LegType)
  /\ \A i \in DOMAIN es : GoodLeg(T, es[i])
  /\ \A i \in 1..Len(es) - 1 : Changed(T, es[i], es[i + 1])

LEMMA NoLegs ==
  ASSUME NEW T
  PROVE  Chained(T, <<>>) /\ RidesIn(<<>>) = 0
<1>1. {i \in DOMAIN <<>> : <<>>[i].trip # 0} = {}
  OBVIOUS
<1>2. Cardinality({}) = 0
  BY FS_EmptySet
<1> QED BY <1>1, <1>2 DEF Chained, RidesIn

LEMMA RidesAreCounted ==
  ASSUME NEW es \in Seq(LegType)
  PROVE  RidesIn(es) \in Nat
<1> DEFINE S == {i \in DOMAIN es : es[i].trip # 0}
<1>1. DOMAIN es = 1..Len(es) /\ Len(es) \in Nat
  OBVIOUS
<1>2. IsFiniteSet(S)
  <2>1. IsFiniteSet(1..Len(es))
    BY <1>1, FiniteInterval
  <2>2. S \subseteq 1..Len(es)
    BY <1>1
  <2> QED BY <2>1, <2>2, FS_Subset
<1> QED BY <1>2, FS_CardinalityType DEF RidesIn

Prepended(T, e, es, fs) ==
  /\ Chained(T, fs) /\ fs # <<>> /\ fs[1] = e
  /\ fs[Len(fs)] = IF es = <<>> THEN e ELSE es[Len(es)]
  /\ RidesIn(fs) = RidesIn(es) + (IF e.trip # 0 THEN 1 ELSE 0)

LEMMA LegPrepended ==
  ASSUME NEW T, NEW e \in LegType, NEW es, Chained(T, es), GoodLeg(T, e),
         es # <<>> => Changed(T, e, es[1]), NEW fs, fs = <<e>> \o es
  PROVE  Prepended(T, e, es, fs)
<1>1. /\ es \in Seq(LegType) /\ Len(es) \in Nat
      /\ \A i \in 1..Len(es) : GoodLeg(T, es[i])
      /\ \A i \in 1..Len(es) - 1 : Changed(T, es[i], es[i + 1])
      /\ DOMAIN es = 1..Len(es)
  BY DEF Chained
<1>2. fs \in Seq(LegType) /\ Len(fs) = Len(es) + 1 /\ DOMAIN fs = 1..Len(es) + 1
  BY <1>1
<1>3. fs[1] = e /\ \A i \in 1..Len(es) : fs[i + 1] = es[i]
  BY <1>1
<1>4. \A i \in 2..Len(es) + 1 : fs[i] = es[i - 1]
  <2> TAKE i \in 2..Len(es) + 1
  <2>1. i - 1 \in 1..Len(es) /\ i - 1 + 1 = i
    BY <1>1
  <2> QED BY <1>3, <2>1
<1> HIDE DEF LegType
<1>5. es = <<>> <=> Len(es) = 0
  BY <1>1
<1>6. Chained(T, fs)
  <2>1. ASSUME NEW i \in 1..Len(es) + 1 PROVE GoodLeg(T, fs[i])
    <3>1. i = 1 \/ (i \in 2..Len(es) + 1 /\ i - 1 \in 1..Len(es))
      BY <1>1
    <3> QED BY <1>1, <1>3, <1>4, <3>1
  <2>2. ASSUME NEW i \in 1..Len(es) PROVE Changed(T, fs[i], fs[i + 1])
    <3>1. CASE i = 1
      <4>1. fs[i] = e /\ fs[i + 1] = es[1] /\ es # <<>>
        BY <1>1, <1>3, <1>5, <3>1
      <4> QED BY <4>1
    <3>2. CASE i # 1
      <4>1. i \in 2..Len(es) + 1 /\ i - 1 \in 1..Len(es) - 1 /\ i - 1 + 1 = i
        BY <1>1, <3>2
      <4>2. fs[i] = es[i - 1] /\ fs[i + 1] = es[i] /\ Changed(T, es[i - 1], es[i])
        BY <1>1, <1>3, <1>4, <4>1
      <4> QED BY <4>2
    <3> QED BY <3>1, <3>2
  <2>3. Len(fs) - 1 = Len(es)
    BY <1>1, <1>2
  <2> QED BY <1>2, <2>1, <2>2, <2>3 DEF Chained
<1>7. fs[Len(fs)] = IF es = <<>> THEN e ELSE es[Len(es)]
  <2>1. CASE Len(es) = 0
    BY <1>2, <1>3, <1>5, <2>1
  <2>2. CASE Len(es) # 0
    <3>1. Len(es) \in 1..Len(es)
      BY <1>1, <2>2
    <3> QED BY <1>2, <1>3, <1>5, <2>2, <3>1
  <2> QED BY <2>1, <2>2
<1>8. RidesIn(fs) = RidesIn(es) + (IF e.trip # 0 THEN 1 ELSE 0)
  <2> DEFINE S == {i \in DOMAIN es : es[i].trip # 0}
             U == {i + 1 : i \in S}
             F == {i \in DOMAIN fs : fs[i].trip # 0}
             g == [i \in S |-> i + 1]
  <2>1. IsFiniteSet(S) /\ S \subseteq 1..Len(es)
    <3>1. S \subseteq 1..Len(es)
      BY <1>1
    <3>2. IsFiniteSet(1..Len(es))
      BY <1>1, FiniteInterval
    <3> QED BY <3>1, <3>2, FS_Subset
  <2>2. g \in Bijection(S, U)
    <3>1. \A i \in S : i \in Int
      BY <2>1
    <3> HIDE DEF S
    <3>2. \A i, j \in S : g[i] = g[j] => i = j
      BY <3>1
    <3>3. g \in Surjection(S, U)
      BY DEF Surjection
    <3> QED BY <3>2, <3>3 DEF Bijection, Injection, IsInjective, Surjection
  <2>3. IsFiniteSet(U) /\ Cardinality(U) = Cardinality(S)
    <3> HIDE DEF g, S, U
    <3>1. ExistsBijection(S, U)
      BY <2>2 DEF ExistsBijection
    <3> QED BY <2>1, <3>1, FS_Bijection
  <2>4. \A i \in 1..Len(es) + 1 : i \in U <=> (i # 1 /\ fs[i].trip # 0)
    <3> TAKE i \in 1..Len(es) + 1
    <3>1. CASE i = 1
      <4>1. \A h \in S : h + 1 # 1
        BY <2>1
      <4> QED BY <3>1, <4>1
    <3>2. CASE i # 1
      <4>1. i \in 2..Len(es) + 1 /\ i - 1 \in 1..Len(es) /\ i - 1 + 1 = i
        BY <1>1, <3>2
      <4>2. fs[i] = es[i - 1]
        BY <1>4, <4>1
      <4>3. i \in U <=> i - 1 \in S
        <5>1. \A h \in S : h + 1 = i => h = i - 1
          BY <2>1
        <5> HIDE DEF S
        <5> QED BY <4>1, <5>1
      <4>4. i - 1 \in S <=> es[i - 1].trip # 0
        BY <1>1, <4>1
      <4> QED BY <3>2, <4>2, <4>3, <4>4
    <3> QED BY <3>1, <3>2
  <2>5. U \subseteq 2..Len(es) + 1
    BY <1>1, <2>1
  <2>6. 1 \notin U
    BY <2>1
  <2> HIDE DEF U, S, g
  <2>7. CASE e.trip = 0
    <3>1. F = U
      <4>1. ASSUME NEW i \in 1..Len(es) + 1 PROVE i \in F <=> i \in U
        BY <1>2, <1>3, <2>4, <2>7
      <4>2. F \subseteq 1..Len(es) + 1
        BY <1>2
      <4>3. U \subseteq 1..Len(es) + 1
        BY <1>1, <2>5
      <4> HIDE DEF F
      <4> QED BY <4>1, <4>2, <4>3
    <3>2. Cardinality(S) \in Nat
      BY <2>1, FS_CardinalityType
    <3>3. RidesIn(fs) = Cardinality(F) /\ RidesIn(es) = Cardinality(S)
      BY DEF RidesIn, S
    <3> HIDE DEF F
    <3> QED BY <2>3, <2>7, <3>1, <3>2, <3>3
  <2>8. CASE e.trip # 0
    <3>1. F = U \cup {1}
      <4>1. ASSUME NEW i \in 1..Len(es) + 1 PROVE i \in F <=> i \in U \/ i = 1
        BY <1>2, <1>3, <2>4, <2>8
      <4>2. F \subseteq 1..Len(es) + 1
        BY <1>2
      <4>3. U \subseteq 1..Len(es) + 1 /\ 1 \in 1..Len(es) + 1
        BY <1>1, <2>5
      <4> HIDE DEF F
      <4> QED BY <4>1, <4>2, <4>3
    <3>2. Cardinality(U \cup {1}) = Cardinality(U) + 1
      BY <2>3, <2>6, FS_AddElement
    <3> HIDE DEF F
    <3> QED BY <2>3, <2>8, <3>1, <3>2 DEF RidesIn, S, F
  <2> QED BY <2>7, <2>8
<1>9. fs # <<>>
  BY <1>1, <1>2
<1> QED BY <1>3, <1>6, <1>7, <1>8, <1>9 DEF Prepended

-----------------------------------------------------------------------------
(* Journeys as extract_journey builds them, from the last leg to the first.*)
LEMMA TripNumber ==
  ASSUME NEW T \in {BuildTimetable(s) : s \in Schedules}, NEW t \in DOMAIN T.trips
  PROVE  t # 0
<1>1. PICK s \in Schedules : T = BuildTimetable(s)
  OBVIOUS
<1>2. T.trips = s.trips /\ DOMAIN s.trips = 1..Len(s.trips) /\ Len(s.trips) \in Nat
  BY <1>1, ScheduleAssumption DEF BuildTimetable, IsSchedule
<1> QED BY <1>2

LEMMA PrependedOne ==
  ASSUME NEW S, NEW e \in S, NEW es \in Seq(S)
  PROVE  (<<e>> \o <<>>) \o es = <<e>> \o es
OBVIOUS

LEMMA PrependedTwo ==
  ASSUME NEW S, NEW e \in S, NEW w \in S, NEW es \in Seq(S)
  PROVE  (<<e>> \o <<w>>) \o es = <<e>> \o (<<w>> \o es)
OBVIOUS

(* What no ride undercuts is no later than the earliest end.               *)
LEMMA EndIsLeast ==
  ASSUME NEW T, IsTimetable(T), NEW limit, NEW B, NEW dest \in Station, NEW k, k # 0,
         NEW v \in Int, v <= Never,
         \A t, d, e, j : CanRide(T, limit, B[k - 1], t, d, e, j) =>
           v <= ArrOf(T, t, d, j) + (IF LeaveAt(T, t, j) = dest THEN 0 ELSE T.foot[LeaveAt(T, t, j)][dest])
  PROVE  v <= EarliestEnd(T, B, limit, dest, k)
<1> DEFINE R == {q \in Rides(T, limit) : B[k - 1][RideFrom(T, q)] <= RideDep(T, q)}
           E == {RideArr(T, r) + (IF RideTo(T, r) = dest THEN 0 ELSE T.foot[RideTo(T, r)][dest]) : r \in R}
           S == {Never} \cup E
<1>1. EarliestEnd(T, B, limit, dest, k) = Min(S)
  BY DEF EarliestEnd
<1>2. ASSUME NEW r \in R
      PROVE  LET x == RideArr(T, r) + (IF RideTo(T, r) = dest THEN 0 ELSE T.foot[RideTo(T, r)][dest])
             IN x \in Nat /\ v <= x
  <2>1. CanRide(T, limit, B[k - 1], r.trip, r.day, r.enter, r.exit)
    BY RideIs
  <2>2. Runs(T, r.trip, r.day, r.exit)
    BY <2>1 DEF CanRide
  <2>3. RideArr(T, r) = ArrOf(T, r.trip, r.day, r.exit) /\ RideTo(T, r) = LeaveAt(T, r.trip, r.exit)
    BY DEF RideArr, RideTo, ArrOf, LeaveAt
  <2>4. ArrOf(T, r.trip, r.day, r.exit) \in Nat /\ T.foot[LeaveAt(T, r.trip, r.exit)][dest] \in Nat
    BY <2>2, SectionFacts
  <2> QED BY <2>1, <2>3, <2>4
<1>3. \A x \in E : x \in Nat /\ v <= x
  BY <1>2
<1> HIDE DEF E
<1>4. S \in SUBSET Nat /\ S # {}
  BY <1>3, NeverIs
<1>5. Min(S) \in S
  <2> HIDE DEF S
  <2> QED BY <1>4, MinIs
<1> QED BY <1>1, <1>3, <1>5

(* RidePoints for a walk and for none.                                     *)
LEMMA AnyRidePoints ==
  ASSUME IsTimetable(tt), NEW s \in Station, NEW k \in 1..MaxTransfers, NEW limit \in Int,
         NEW B, \A z \in Station : arrival[z][k - 1] = B[k - 1][z],
         Marks(tt, reachable), MarksSettled(tt, B, limit, reachable),
         NEW t, NEW d, NEW e, NEW j, CanRide(tt, limit, B[k - 1], t, d, e, j),
         tt.foot[LeaveAt(tt, t, j)][s] # Never
  PROVE  Pointers(s, k, RideEnd(tt, t, d, j, s), FALSE) # {}
<1>1. PICK o : o = FALSE
  OBVIOUS
<1>2. o = TRUE => LeaveAt(tt, t, j) = s
  BY <1>1
<1>3. Pointers(s, k, RideEnd(tt, t, d, j, s), o) # {}
  BY <1>2, RidePoints
<1> QED BY <1>1, <1>3

LEMMA OwnRidePoints ==
  ASSUME IsTimetable(tt), NEW s \in Station, NEW k \in 1..MaxTransfers, NEW limit \in Int,
         NEW B, \A z \in Station : arrival[z][k - 1] = B[k - 1][z],
         Marks(tt, reachable), MarksSettled(tt, B, limit, reachable),
         NEW t, NEW d, NEW e, NEW j, CanRide(tt, limit, B[k - 1], t, d, e, j),
         tt.foot[LeaveAt(tt, t, j)][s] # Never, LeaveAt(tt, t, j) = s
  PROVE  Pointers(s, k, RideEnd(tt, t, d, j, s), TRUE) # {}
<1>1. PICK o : o = TRUE
  OBVIOUS
<1>2. o = TRUE => LeaveAt(tt, t, j) = s
  OBVIOUS
<1>3. Pointers(s, k, RideEnd(tt, t, d, j, s), o) # {}
  BY <1>2, RidePoints
<1> QED BY <1>1, <1>3

(* When the scan is over, the labels are the best and the marks complete.  *)
Over(T, q, a, r) ==
  /\ T \in {BuildTimetable(s) : s \in Schedules} /\ q \in Queries
  /\ Labels(a) /\ Marks(T, r)
  /\ a = Finished(T, q) /\ MarksSettled(T, BestFor(T, q), LimitOf(T, q), r)

LEMMA OverIs ==
  ASSUME NEW T, NEW q, NEW a, NEW r, Over(T, q, a, r)
  PROVE  /\ IsTimetable(T) /\ q.dest \in Station /\ LimitOf(T, q) \in Int
         /\ q.start \in Nat /\ q.start \in 0..Never - 1 /\ q.sources \in SUBSET Station
         /\ IsBest(BestFor(T, q), T, q.sources, q.start, LimitOf(T, q))
         /\ \A s \in Station, k \in Round :
              a[s][k] = BestFor(T, q)[k][s] /\ a[s][k] \in 0..Never /\ a[s][k] \in Nat
<1>1. IsTimetable(T) /\ q \in Queries /\ q.dest \in Station
  BY Loaded, QueryAssumption DEF Over
<1>2. \A s \in Station, k \in Round : a[s][k] = BestFor(T, q)[k][s]
  BY DEF Over, Finished
<1>3. \A s \in Station, k \in Round : a[s][k] \in 0..Never /\ a[s][k] \in Nat
  BY NeverIs DEF Over, Labels
<1> QED BY <1>1, <1>2, <1>3, QueryIs

(* The chosen last leg ends as early as a journey with so many rides can.  *)
LEMMA EndsInTime ==
  ASSUME Over(tt, query, arrival, reachable), stop = query.dest, edges = <<>>,
         transfers \in 1..MaxTransfers,
         Pointers(stop, transfers, arrival[stop][transfers], FALSE) # {}
  PROVE  Arrived(Choice.at, Choice.p, stop)
           <= EarliestEnd(tt, BestFor(tt, query), LimitOf(tt, query), query.dest, transfers)
<1> DEFINE B     == BestFor(tt, query)
           limit == LimitOf(tt, query)
           label == arrival[stop][transfers]
           tr    == tt.transfer[stop]
           v     == Arrived(Choice.at, Choice.p, stop)
<1>1. /\ IsTimetable(tt) /\ stop \in Station /\ limit \in Int
      /\ IsBest(B, tt, query.sources, query.start, limit)
      /\ \A s \in Station, k \in Round : arrival[s][k] = B[k][s] /\ arrival[s][k] \in 0..Never
      /\ \A s \in Station, k \in Round : arrival[s][k] \in Nat
  BY OverIs
<1>2. Labels(arrival) /\ Marks(tt, reachable) /\ MarksSettled(tt, B, limit, reachable)
  BY DEF Over
<1>3. transfers \in Round /\ transfers - 1 \in Round /\ transfers # 0
  BY SearchAssumption DEF Round
<1>4. tt.foot[stop][stop] = tr /\ tr \in Nat /\ tr < Never
  BY <1>1, TransferIs DEF Over
<1>5. /\ Choice.at \in Int /\ tt.foot[Choice.p.from][stop] # Never
      /\ v <= label
      /\ \A w \in DirectTimes(stop, transfers) : v <= label + w - tr
  BY <1>1, <1>2, <1>3, <1>4, ChoiceIs
<1>6. v \in Int
  BY <1>4, <1>5 DEF Arrived
<1> HIDE DEF v
<1>7. label \in 0..Never /\ label \in Nat
  BY <1>1, <1>3
<1>8. B[transfers] = NextBest(tt, limit, B[transfers - 1])
  BY <1>1 DEF IsBest
<1>9. label = NextBest(tt, limit, B[transfers - 1])[stop]
  BY <1>1, <1>3, <1>8
<1>10. ASSUME NEW t, NEW d, NEW e, NEW j, CanRide(tt, limit, B[transfers - 1], t, d, e, j)
       PROVE  v <= ArrOf(tt, t, d, j)
                     + (IF LeaveAt(tt, t, j) = stop THEN 0 ELSE tt.foot[LeaveAt(tt, t, j)][stop])
  <2> DEFINE arr == ArrOf(tt, t, d, j)
  <2>1. label <= RideEnd(tt, t, d, j, stop)
    BY <1>1, <1>9, <1>10, NextBestIs
  <2>2. Runs(tt, t, d, j)
    BY <1>10 DEF CanRide
  <2>3. arr \in Nat /\ tt.foot[LeaveAt(tt, t, j)][stop] \in Nat
    BY <1>1, <2>2, SectionFacts
  <2>4. CASE LeaveAt(tt, t, j) # stop
    <3>1. RideEnd(tt, t, d, j, stop) = arr + tt.foot[LeaveAt(tt, t, j)][stop]
      BY DEF RideEnd
    <3> HIDE DEF arr, label
    <3> QED BY <1>5, <1>6, <1>7, <2>1, <2>3, <2>4, <3>1 DEF arr
  <2>5. CASE LeaveAt(tt, t, j) = stop
    <3>1. RideEnd(tt, t, d, j, stop) = arr + tr
      BY <1>4, <2>5 DEF RideEnd
    <3>2. CASE label < arr
      <4> HIDE DEF arr, label
      <4> QED BY <1>5, <1>6, <1>7, <2>3, <2>5, <3>2 DEF arr
    <3>3. CASE ~(label < arr)
      <4>1. PICK w : w = arr + tr - label
        OBVIOUS
      <4>2. w \in 0..tr /\ label + w = RideEnd(tt, t, d, j, stop) /\ label + w - tr = arr
        <5>1. PICK z : z = RideEnd(tt, t, d, j, stop)
          OBVIOUS
        <5> HIDE DEF arr, label, tr
        <5>2. z = arr + tr /\ label <= z
          BY <2>1, <3>1, <5>1
        <5>3. w \in 0..tr /\ label + w = z /\ label + w - tr = arr
          BY <1>4, <1>7, <2>3, <3>3, <4>1, <5>2
        <5> QED BY <5>1, <5>3
      <4>3. tt.foot[LeaveAt(tt, t, j)][stop] # Never
        BY <1>4, <2>5, NeverIs
      <4>4. Pointers(stop, transfers, RideEnd(tt, t, d, j, stop), TRUE) # {}
        <5>1. \A z \in Station : arrival[z][transfers - 1] = B[transfers - 1][z]
          BY <1>1, <1>3
        <5>2. /\ IsTimetable(tt) /\ stop \in Station /\ limit \in Int /\ Marks(tt, reachable)
              /\ MarksSettled(tt, B, limit, reachable)
          BY <1>1, <1>2
        <5> HIDE DEF B, limit
        <5> QED BY <1>10, <2>5, <4>3, <5>1, <5>2, OwnRidePoints, Zenon
      <4>5. w \in DirectTimes(stop, transfers)
        BY <4>2, <4>4 DEF DirectTimes
      <4>6. v <= arr
        BY <1>5, <4>2, <4>5
      <4> QED BY <2>3, <2>5, <4>6
    <3> QED BY <3>2, <3>3
  <2> QED BY <2>4, <2>5
<1>11. v <= Never
  <2> HIDE DEF label
  <2> QED BY <1>5, <1>6, <1>7, NeverIs
<1> HIDE DEF B, limit
<1>12. v <= EarliestEnd(tt, B, limit, stop, transfers)
  BY <1>1, <1>3, <1>6, <1>10, <1>11, EndIsLeast
<1> QED BY <1>12 DEF v, B, limit

(* The legs an iteration of extract_journey puts in front.                 *)
LegRide == RideEdge(Choice.p, Choice.at - tt.foot[Choice.p.from][stop])
LegWalk == WalkEdge(Choice.p.from, stop, Choice.at - tt.foot[Choice.p.from][stop], Choice.at)

LegEdges ==
  <<LegRide>> \o (IF Choice.p.from = stop THEN <<>> ELSE <<LegWalk>>) \o edges

LEMMA ChosenRide ==
  ASSUME Over(tt, query, arrival, reachable), stop \in Station, transfers \in 1..MaxTransfers,
         Pointers(stop, transfers, arrival[stop][transfers], FALSE) # {}
  PROVE  /\ LegRide \in LegType /\ LegRide.trip # 0 /\ GoodLeg(tt, LegRide)
         /\ LegRide.to = Choice.p.from /\ LegRide.from \in Station
         /\ LegRide.arr = Choice.at - tt.foot[Choice.p.from][stop]
         /\ LegRide.dep \in Nat /\ LegRide.arr \in Nat /\ LegRide.dep <= LegRide.arr
         /\ arrival[LegRide.from][transfers - 1] <= LegRide.dep
         /\ Choice.at \in Int /\ Choice.p.from \in Station
         /\ tt.foot[Choice.p.from][stop] \in Nat
<1>1. /\ IsTimetable(tt)
      /\ \A s \in Station, k \in Round : arrival[s][k] \in Nat
  BY OverIs
<1>2. transfers \in Round /\ Labels(arrival) /\ tt.foot[stop][stop] = tt.transfer[stop]
  BY SearchAssumption, TransferIs DEF Round, Over
<1>3. Choice.at \in Int /\ \E d : Carries(tt, arrival, Choice.p, stop, transfers, Choice.at, d)
  BY <1>1, <1>2, ChoiceIs
<1> PICK p : p = Choice.p
  OBVIOUS
<1> PICK at : at = Choice.at
  OBVIOUS
<1>4. PICK d : Carries(tt, arrival, p, stop, transfers, at, d)
  BY <1>3
<1> PICK x : x = tt.cons[p.exit]
  OBVIOUS
<1>5. /\ p.exit \in DOMAIN tt.cons
      /\ Runs(tt, x.trip, d, p.enter) /\ Runs(tt, x.trip, d, x.idx) /\ p.enter <= x.idx
      /\ p.from \in Station /\ ArrOf(tt, x.trip, d, x.idx) = at - tt.foot[p.from][stop]
      /\ arrival[BoardAt(tt, x.trip, p.enter)][transfers - 1] <= DepOf(tt, x.trip, d, p.enter)
  BY <1>4 DEF Carries
<1>6. LegRide = TrainLeg(tt, p, d)
  <2>1. RideEdge(p, at - tt.foot[p.from][stop]) = TrainLeg(tt, p, d)
    BY <1>1, <1>3, <1>4, RideEdgeIs
  <2> QED BY <2>1 DEF LegRide
<1>7. TrainLeg(tt, p, d) =
        [trip |-> x.trip, enter |-> p.enter, exit |-> x.idx,
         from |-> BoardAt(tt, x.trip, p.enter), to |-> p.from,
         dep |-> DepOf(tt, x.trip, d, p.enter), arr |-> ArrOf(tt, x.trip, d, x.idx)]
  BY DEF TrainLeg
<1>8. /\ x.trip \in Nat /\ p.enter \in Nat /\ x.idx \in Nat
      /\ BoardAt(tt, x.trip, p.enter) \in Station
      /\ DepOf(tt, x.trip, d, p.enter) \in Nat /\ ArrOf(tt, x.trip, d, x.idx) \in Nat
      /\ DepOf(tt, x.trip, d, p.enter) <= ArrOf(tt, x.trip, d, x.idx)
  <2>1. DepOf(tt, x.trip, d, p.enter) <= DepOf(tt, x.trip, d, x.idx)
    BY <1>1, <1>5, SectionsInOrder
  <2>2. /\ x.trip \in Nat /\ p.enter \in Nat /\ x.idx \in Nat
        /\ BoardAt(tt, x.trip, p.enter) \in Station /\ d \in Nat
        /\ DepOf(tt, x.trip, d, p.enter) \in Nat /\ DepOf(tt, x.trip, d, x.idx) \in Nat
        /\ ArrOf(tt, x.trip, d, x.idx) \in Nat /\ IsTrip(tt.trips[x.trip])
    BY <1>1, <1>5, SectionFacts
  <2>3. DepOf(tt, x.trip, d, x.idx) <= ArrOf(tt, x.trip, d, x.idx)
    <3>1. x.idx \in DOMAIN tt.trips[x.trip].dep
      BY <1>5 DEF Runs, Section
    <3>2. /\ tt.trips[x.trip].dep[x.idx] \in Nat /\ tt.trips[x.trip].arr[x.idx] \in Nat
          /\ tt.trips[x.trip].dep[x.idx] <= tt.trips[x.trip].arr[x.idx]
      BY <2>2, <3>1, TripFacts
    <3>3. PICK m, n \in Nat : m = tt.trips[x.trip].dep[x.idx] /\ n = tt.trips[x.trip].arr[x.idx]
      BY <3>2
    <3>4. DepOf(tt, x.trip, d, x.idx) = At(d, m) /\ ArrOf(tt, x.trip, d, x.idx) = At(d, n)
      BY <3>3 DEF DepOf, ArrOf
    <3>5. d \in Int /\ m \in Int /\ n \in Int
      BY <2>2
    <3>9. m <= n
      BY <3>2, <3>3
    <3>6. At(d, m) - At(d, n) = m - n
      BY <3>5, AtIs
    <3>7. At(d, m) \in Nat /\ At(d, n) \in Nat
      BY <2>2, <3>4
    <3>8. At(d, m) <= At(d, n)
      BY <3>9, <3>6, <3>7
    <3> QED BY <3>4, <3>8
  <2>4. DepOf(tt, x.trip, d, p.enter) <= ArrOf(tt, x.trip, d, x.idx)
    <3> PICK u, v, w \in Nat : /\ u = DepOf(tt, x.trip, d, p.enter)
                               /\ v = DepOf(tt, x.trip, d, x.idx)
                               /\ w = ArrOf(tt, x.trip, d, x.idx)
      BY <2>2
    <3>1. u <= v /\ v <= w
      BY <2>1, <2>3
    <3>2. u <= w
      BY <3>1
    <3> QED BY <3>2
  <2> QED BY <2>2, <2>4
<1>9. x.trip # 0
  BY <1>5, TripNumber DEF Over, Runs, Section
<1>10. tt.foot[p.from][stop] \in Nat
  <2>1. tt.foot \in [Station -> [Station -> Nat]]
    BY <1>1 DEF IsTimetable
  <2>2. p.from \in Station
    BY <1>5
  <2> QED BY <2>1, <2>2
<1>11. TrainLeg(tt, p, d) \in LegType
  BY <1>5, <1>7, <1>8, SMTT(30) DEF LegType
<1>12. GoodLeg(tt, TrainLeg(tt, p, d))
  <2>1. RideLeg(tt, TrainLeg(tt, p, d))
    BY <1>1, <1>4, TrainLegIs
  <2> QED BY <1>7, <1>9, <2>1 DEF GoodLeg
<1>13. /\ LegRide.trip = x.trip /\ LegRide.from = BoardAt(tt, x.trip, p.enter)
       /\ LegRide.to = p.from /\ LegRide.dep = DepOf(tt, x.trip, d, p.enter)
       /\ LegRide.arr = ArrOf(tt, x.trip, d, x.idx)
       /\ LegRide \in LegType /\ GoodLeg(tt, LegRide)
  BY <1>6, <1>7, <1>11, <1>12
<1> HIDE DEF LegRide
<1>14. LegRide.arr = Choice.at - tt.foot[Choice.p.from][stop]
  BY <1>5, <1>13
<1> QED BY <1>3, <1>5, <1>8, <1>9, <1>10, <1>13, <1>14

(* The legs es, from station s with k rides left.                          *)
EndOf(T, q, n, e) ==
  e.to = q.dest /\ e.arr <= EarliestEnd(T, BestFor(T, q), LimitOf(T, q), q.dest, n)

PathTo(T, q, a, s, k, es) ==
  /\ s \in Station /\ k \in Round /\ a[s][k] # Never /\ Chained(T, es)
  /\ k + RidesIn(es) \in Round /\ a[q.dest][k + RidesIn(es)] # Never
  /\ es = <<>> => s = q.dest
  /\ es # <<>> => /\ es[1].trip # 0 /\ es[1].from = s /\ a[s][k] <= es[1].dep
                  /\ EndOf(T, q, k + RidesIn(es), es[Len(es)])

LEMMA LegExtends ==
  ASSUME Over(tt, query, arrival, reachable), HasPointer,
         PathTo(tt, query, arrival, stop, transfers, edges)
  PROVE  /\ PathTo(tt, query, arrival, LegRide.from, transfers - 1, LegEdges)
         /\ transfers - 1 + RidesIn(LegEdges) = transfers + RidesIn(edges)
<1> DEFINE label == arrival[stop][transfers]
<1>1. /\ IsTimetable(tt)
      /\ \A s \in Station, k \in Round : arrival[s][k] \in 0..Never /\ arrival[s][k] \in Nat
  BY OverIs
<1>2. /\ stop \in Station /\ transfers \in Round /\ label # Never /\ Chained(tt, edges)
      /\ transfers + RidesIn(edges) \in Round
      /\ arrival[query.dest][transfers + RidesIn(edges)] # Never
      /\ edges = <<>> => stop = query.dest
      /\ edges # <<>> => /\ edges[1].trip # 0 /\ edges[1].from = stop /\ label <= edges[1].dep
                         /\ EndOf(tt, query, transfers + RidesIn(edges), edges[Len(edges)])
  BY DEF PathTo
<1>3. /\ transfers \in 1..MaxTransfers /\ transfers - 1 \in Round /\ transfers \in Nat
      /\ Pointers(stop, transfers, label, FALSE) # {}
  <2>1. transfers > 0 /\ Pointers(stop, transfers, label, FALSE) # {}
    BY DEF HasPointer
  <2>2. transfers \in 0..MaxTransfers
    BY <1>2 DEF Round
  <2>3. transfers \in 1..MaxTransfers /\ transfers - 1 \in 0..MaxTransfers /\ transfers \in Nat
    BY <2>1, <2>2, SearchAssumption
  <2> QED BY <2>1, <2>3 DEF Round
<1>4. edges \in Seq(LegType) /\ RidesIn(edges) \in Nat
  BY <1>2, RidesAreCounted DEF Chained
<1> PICK e : e = LegRide
  OBVIOUS
<1> PICK f : f = Choice.p.from
  OBVIOUS
<1> PICK at : at = Choice.at
  OBVIOUS
<1> PICK wt : wt = tt.foot[f][stop]
  OBVIOUS
<1>5. /\ e \in LegType /\ e.trip # 0 /\ GoodLeg(tt, e) /\ e.to = f /\ e.from \in Station
      /\ e.arr = at - wt /\ e.dep \in Nat /\ e.arr \in Nat /\ e.dep <= e.arr
      /\ arrival[e.from][transfers - 1] <= e.dep /\ at \in Int /\ f \in Station /\ wt \in Nat
  BY <1>2, <1>3, ChosenRide
<1>6. tt.foot[stop][stop] = tt.transfer[stop] /\ tt.transfer[stop] \in Nat
  BY <1>2, TransferIs DEF Over
<1>7. /\ at = label \/ edges = <<>>
      /\ Arrived(at, Choice.p, stop) <= label
  BY <1>1, <1>2, <1>3, <1>6, ChoiceIs DEF Over
<1>8. Arrived(at, Choice.p, stop) = IF f = stop THEN e.arr ELSE at
  BY <1>5 DEF Arrived
<1>9. label \in Nat /\ label < Never
  BY <1>1, <1>2, NeverIs
<1>10. arrival[e.from][transfers - 1] # Never
  <2>1. e.arr <= label
    <3> HIDE DEF label
    <3> QED BY <1>5, <1>7, <1>8, <1>9
  <2>2. arrival[e.from][transfers - 1] \in Nat
    BY <1>1, <1>3, <1>5
  <2> HIDE DEF label
  <2> QED BY <1>5, <1>9, <2>1, <2>2, NeverIs
<1>11. edges = <<>> =>
         (IF f = stop THEN e.arr ELSE at)
           <= EarliestEnd(tt, BestFor(tt, query), LimitOf(tt, query), query.dest, transfers)
  BY <1>2, <1>3, <1>8, EndsInTime
<1>12. LegEdges = <<e>> \o (IF f = stop THEN <<>> ELSE <<LegWalk>>) \o edges
  BY DEF LegEdges
<1>13. edges = <<>> => RidesIn(edges) = 0
  BY NoLegs
<1>14. SUFFICES ASSUME NEW fs, fs = LegEdges
                PROVE  /\ Chained(tt, fs) /\ fs # <<>> /\ fs[1] = e
                       /\ RidesIn(fs) = RidesIn(edges) + 1
                       /\ EndOf(tt, query, transfers + RidesIn(edges), fs[Len(fs)])
  <2>1. ASSUME NEW fs, fs = LegEdges, Chained(tt, fs) /\ fs # <<>> /\ fs[1] = e,
               RidesIn(fs) = RidesIn(edges) + 1,
               EndOf(tt, query, transfers + RidesIn(edges), fs[Len(fs)])
        PROVE  /\ PathTo(tt, query, arrival, e.from, transfers - 1, fs)
               /\ transfers - 1 + RidesIn(fs) = transfers + RidesIn(edges)
    <3>1. transfers - 1 + RidesIn(fs) = transfers + RidesIn(edges)
      BY <1>3, <1>4, <2>1
    <3> QED BY <1>2, <1>3, <1>5, <1>10, <2>1, <3>1 DEF PathTo
  <2> QED BY <2>1
<1>15. CASE f = stop
  <2>1. fs = <<e>> \o edges
    <3>1. fs = (<<e>> \o <<>>) \o edges
      BY <1>12, <1>14, <1>15
    <3> QED BY <1>4, <1>5, <3>1, PrependedOne
  <2>2. edges # <<>> => Changed(tt, e, edges[1])
    <3>1. SUFFICES ASSUME edges # <<>> PROVE Changed(tt, e, edges[1])
      OBVIOUS
    <3>2. edges[1].dep \in Int
      <4>1. edges[1] \in LegType
        BY <1>4, <3>1
      <4> QED BY <4>1 DEF LegType
    <3>3. edges[1].dep >= e.arr + tt.transfer[e.to]
      <4>1. wt = tt.transfer[e.to] /\ at = label /\ label <= edges[1].dep
        BY <1>2, <1>5, <1>6, <1>7, <1>15, <3>1
      <4> HIDE DEF label
      <4> QED BY <1>5, <1>9, <3>2, <4>1
    <3> QED BY <1>2, <1>5, <1>15, <3>1, <3>3 DEF Changed
  <2>3. /\ Chained(tt, fs) /\ fs # <<>> /\ fs[1] = e
        /\ fs[Len(fs)] = IF edges = <<>> THEN e ELSE edges[Len(edges)]
        /\ RidesIn(fs) = RidesIn(edges) + 1
    <3>1. /\ Chained(tt, fs) /\ fs # <<>> /\ fs[1] = e
          /\ fs[Len(fs)] = IF edges = <<>> THEN e ELSE edges[Len(edges)]
          /\ RidesIn(fs) = RidesIn(edges) + (IF e.trip # 0 THEN 1 ELSE 0)
      <4>1. Prepended(tt, e, edges, fs)
        <5>1. e \in LegType /\ GoodLeg(tt, e) /\ Chained(tt, edges)
          BY <1>2, <1>5
        <5> QED BY <5>1, <2>1, <2>2, LegPrepended
      <4> QED BY <4>1 DEF Prepended
    <3> QED BY <1>5, <3>1
  <2>4. EndOf(tt, query, transfers + RidesIn(edges), fs[Len(fs)])
    <3>1. CASE edges = <<>>
      <4>1. transfers + RidesIn(edges) = transfers
        BY <1>3, <1>13, <3>1
      <4> QED BY <1>2, <1>5, <1>11, <1>15, <2>3, <3>1, <4>1 DEF EndOf
    <3>2. CASE edges # <<>>
      BY <1>2, <2>3, <3>2
    <3> QED BY <3>1, <3>2
  <2> QED BY <2>3, <2>4
<1>16. CASE f # stop
  <2> PICK w : w = LegWalk
    OBVIOUS
  <2>1. w = [trip |-> 0, enter |-> 0, exit |-> 0, from |-> f, to |-> stop, dep |-> at - wt, arr |-> at]
    BY DEF LegWalk, WalkEdge
  <2>2. w \in LegType
    BY <1>2, <1>5, <2>1 DEF LegType
  <2>3. GoodLeg(tt, w) /\ w.trip = 0
    BY <1>5, <2>1 DEF GoodLeg
  <2> DEFINE mid == <<w>> \o edges
  <2>4. fs = <<e>> \o mid
    <3>1. fs = (<<e>> \o <<w>>) \o edges
      BY <1>12, <1>14, <1>16
    <3> QED BY <1>4, <1>5, <2>2, <3>1, PrependedTwo
  <2>5. edges # <<>> => Changed(tt, w, edges[1])
    <3>1. SUFFICES ASSUME edges # <<>> PROVE Changed(tt, w, edges[1])
      OBVIOUS
    <3>2. edges[1].dep >= w.arr + 0
      <4>1. w.arr = label /\ label <= edges[1].dep
        BY <1>2, <1>7, <2>1, <3>1
      <4> HIDE DEF label
      <4> QED BY <1>9, <4>1
    <3> QED BY <1>2, <2>1, <3>1, <3>2 DEF Changed
  <2>6. /\ Chained(tt, mid) /\ mid # <<>> /\ mid[1] = w
        /\ mid[Len(mid)] = IF edges = <<>> THEN w ELSE edges[Len(edges)]
        /\ RidesIn(mid) = RidesIn(edges)
    <3>1. mid = <<w>> \o edges
      OBVIOUS
    <3> HIDE DEF mid
    <3>2. /\ Chained(tt, mid) /\ mid # <<>> /\ mid[1] = w
          /\ mid[Len(mid)] = IF edges = <<>> THEN w ELSE edges[Len(edges)]
          /\ RidesIn(mid) = RidesIn(edges) + (IF w.trip # 0 THEN 1 ELSE 0)
      <4>1. Prepended(tt, w, edges, mid)
        <5>1. w \in LegType /\ GoodLeg(tt, w) /\ Chained(tt, edges)
          BY <1>2, <2>2, <2>3
        <5> QED BY <5>1, <2>5, <3>1, LegPrepended
      <4> QED BY <4>1 DEF Prepended
    <3> QED BY <1>4, <2>3, <3>2
  <2> HIDE DEF mid
  <2>7. Changed(tt, e, mid[1])
    BY <1>5, <2>1, <2>6 DEF Changed
  <2>8. /\ Chained(tt, fs) /\ fs # <<>> /\ fs[1] = e
        /\ fs[Len(fs)] = mid[Len(mid)]
        /\ RidesIn(fs) = RidesIn(mid) + 1
    <3>1. /\ Chained(tt, fs) /\ fs # <<>> /\ fs[1] = e
          /\ fs[Len(fs)] = IF mid = <<>> THEN e ELSE mid[Len(mid)]
          /\ RidesIn(fs) = RidesIn(mid) + (IF e.trip # 0 THEN 1 ELSE 0)
      <4>1. Prepended(tt, e, mid, fs)
        <5>1. e \in LegType /\ GoodLeg(tt, e) /\ Chained(tt, mid)
          BY <1>5, <2>6
        <5> QED BY <5>1, <2>4, <2>7, LegPrepended
      <4> QED BY <4>1 DEF Prepended
    <3> QED BY <1>5, <2>6, <3>1
  <2>9. EndOf(tt, query, transfers + RidesIn(edges), fs[Len(fs)])
    <3>1. CASE edges = <<>>
      <4>1. transfers + RidesIn(edges) = transfers
        BY <1>3, <1>13, <3>1
      <4> QED BY <1>2, <1>11, <1>16, <2>1, <2>6, <2>8, <3>1, <4>1 DEF EndOf
    <3>2. CASE edges # <<>>
      BY <1>2, <2>6, <2>8, <3>2
    <3> QED BY <3>1, <3>2
  <2> QED BY <1>4, <2>6, <2>8, <2>9
<1> QED BY <1>15, <1>16

(* A label that is not from the start has a pointer.                       *)
LEMMA NoPointerNoRides ==
  ASSUME Over(tt, query, arrival, reachable), ~HasPointer,
         PathTo(tt, query, arrival, stop, transfers, edges)
  PROVE  transfers = 0
<1> DEFINE B     == BestFor(tt, query)
           limit == LimitOf(tt, query)
           label == arrival[stop][transfers]
<1>1. /\ IsTimetable(tt) /\ limit \in Int
      /\ IsBest(B, tt, query.sources, query.start, limit)
      /\ \A s \in Station, k \in Round : arrival[s][k] = B[k][s] /\ arrival[s][k] \in 0..Never
      /\ \A s \in Station, k \in Round : arrival[s][k] \in Nat
  BY OverIs
<1>2. Marks(tt, reachable) /\ MarksSettled(tt, B, limit, reachable)
  BY DEF Over
<1>3. stop \in Station /\ transfers \in Round /\ label # Never
  BY DEF PathTo
<1>4. SUFFICES ASSUME transfers # 0 PROVE FALSE
  OBVIOUS
<1>5. /\ transfers \in 1..MaxTransfers /\ transfers - 1 \in Round /\ transfers > 0
  <2>1. transfers \in 0..MaxTransfers
    BY <1>3 DEF Round
  <2>2. transfers \in 1..MaxTransfers /\ transfers - 1 \in 0..MaxTransfers /\ transfers > 0
    BY <1>4, <2>1, SearchAssumption
  <2> QED BY <2>2 DEF Round
<1>6. B[transfers] = NextBest(tt, limit, B[transfers - 1])
  BY <1>1, <1>5 DEF IsBest
<1>7. label = NextBest(tt, limit, B[transfers - 1])[stop]
  BY <1>1, <1>3, <1>6
<1>8. label \in Nat /\ label < Never
  <2>1. label \in 0..Never
    BY <1>1, <1>3
  <2> HIDE DEF label
  <2> QED BY <1>3, <2>1, NeverIs
<1>9. PICK t, d, e, j : /\ CanRide(tt, limit, B[transfers - 1], t, d, e, j)
                        /\ label = RideEnd(tt, t, d, j, stop)
  BY <1>1, <1>3, <1>7, NextBestIs
<1>10. tt.foot[LeaveAt(tt, t, j)][stop] # Never
  <2>1. Runs(tt, t, d, j)
    BY <1>9 DEF CanRide
  <2>2. ArrOf(tt, t, d, j) \in Nat /\ tt.foot[LeaveAt(tt, t, j)][stop] \in Nat
    BY <1>1, <1>3, <2>1, SectionFacts
  <2>3. label = ArrOf(tt, t, d, j) + tt.foot[LeaveAt(tt, t, j)][stop]
    BY <1>9 DEF RideEnd
  <2> HIDE DEF label
  <2> QED BY <1>8, <2>2, <2>3, NeverIs
<1>11. Pointers(stop, transfers, RideEnd(tt, t, d, j, stop), FALSE) # {}
  <2>1. \A z \in Station : arrival[z][transfers - 1] = B[transfers - 1][z]
    BY <1>1, <1>5
  <2>2. /\ IsTimetable(tt) /\ stop \in Station /\ limit \in Int /\ Marks(tt, reachable)
        /\ MarksSettled(tt, B, limit, reachable)
    BY <1>1, <1>2, <1>3
  <2>3. CanRide(tt, limit, B[transfers - 1], t, d, e, j)
    BY <1>9
  <2> HIDE DEF B, limit
  <2> QED BY <1>5, <1>10, <2>1, <2>2, <2>3, AnyRidePoints, Zenon
<1>12. Pointers(stop, transfers, label, FALSE) # {}
  BY <1>9, <1>11
<1> QED BY <1>5, <1>12 DEF HasPointer

(* What get_results may return.                                            *)
GoodPath(T, q, n, es) ==
  /\ es = <<>> => n = 0 /\ q.dest \in q.sources
  /\ es # <<>> => /\ Chained(T, es) /\ RidesIn(es) = n
                  /\ es[1].from \in q.sources /\ es[1].dep >= q.start
                  /\ EndOf(T, q, n, es[Len(es)])

LEMMA JourneyEnds ==
  ASSUME Over(tt, query, arrival, reachable), ~HasPointer,
         PathTo(tt, query, arrival, stop, transfers, edges)
  PROVE  /\ Label = transfers + RidesIn(edges)
         /\ GoodPath(tt, query, Label, WithFinalWalk)
<1> DEFINE label == arrival[stop][transfers]
           start == query.start
<1>1. /\ IsTimetable(tt) /\ start \in Nat /\ start \in 0..Never - 1
      /\ query.sources \in SUBSET Station
      /\ IsBest(BestFor(tt, query), tt, query.sources, start, LimitOf(tt, query))
      /\ \A s \in Station, k \in Round :
           arrival[s][k] = BestFor(tt, query)[k][s] /\ arrival[s][k] \in 0..Never
  BY OverIs
<1>2. /\ stop \in Station /\ transfers \in Round /\ label # Never /\ Chained(tt, edges)
      /\ edges = <<>> => stop = query.dest
      /\ edges # <<>> => /\ edges[1].trip # 0 /\ edges[1].from = stop /\ label <= edges[1].dep
                         /\ EndOf(tt, query, transfers + RidesIn(edges), edges[Len(edges)])
  BY DEF PathTo
<1>3. transfers = 0
  BY NoPointerNoRides
<1>4. edges \in Seq(LegType) /\ RidesIn(edges) \in Nat
  BY <1>2, RidesAreCounted DEF Chained
<1>5. Label = RidesIn(edges) /\ transfers + RidesIn(edges) = RidesIn(edges)
  <2>1. Label = transfers + RidesIn(edges)
    BY DEF Label, RidesIn
  <2> QED BY <1>3, <1>4, <2>1
<1>6. /\ label = FirstBest(tt, query.sources, start)[stop]
      /\ label = BestFor(tt, query)[0][stop] /\ label \in 0..Never
  <2>1. /\ label = BestFor(tt, query)[0][stop] /\ label \in 0..Never
    BY <1>1, <1>2, <1>3
  <2>2. BestFor(tt, query)[0] = FirstBest(tt, query.sources, start)
    BY <1>1 DEF IsBest
  <2> QED BY <2>1, <2>2
<1>7. /\ start <= label /\ label \in Nat /\ label < Never /\ Never \in Nat
  <2>1. start <= label
    BY <1>1, <1>2, <1>6, <1>3 DEF IsBest
  <2> HIDE DEF label
  <2> QED BY <1>2, <1>6, <2>1, NeverIs
<1>8. edges # <<>> => edges[1].dep \in Int
  <2>1. edges # <<>> => edges[1] \in LegType
    BY <1>4
  <2> QED BY <2>1 DEF LegType
<1> PICK n : n = RidesIn(edges)
  OBVIOUS
<1>9. GoodPath(tt, query, n, WithFinalWalk)
  <2>1. CASE stop \in query.sources
    <3>1. WithFinalWalk = edges
      BY <2>1 DEF WithFinalWalk
    <3>2. edges = <<>> => n = 0 /\ query.dest \in query.sources
      BY <1>2, <2>1, NoLegs
    <3>3. edges # <<>> => edges[1].dep >= start
      <4> HIDE DEF label, start
      <4> QED BY <1>1, <1>2, <1>7, <1>8
    <3> QED BY <1>2, <1>5, <2>1, <3>1, <3>2, <3>3 DEF GoodPath
  <2>2. CASE stop \notin query.sources
    <3>1. PICK g \in query.sources : label = start + tt.foot[g][stop]
      <4> PICK v : v = FirstBest(tt, query.sources, start)[stop]
        OBVIOUS
      <4>1. v = Never \/ \E g \in query.sources : v = start + tt.foot[g][stop]
        <5>1. /\ IsTimetable(tt) /\ query.sources \in SUBSET Station /\ start \in 0..Never - 1
              /\ stop \in Station
          BY <1>1, <1>2
        <5> HIDE DEF start
        <5> QED BY <2>2, <5>1, FirstBestIs
      <4>2. v = label
        BY <1>6
      <4> QED BY <1>2, <4>1, <4>2
    <3>2. g \in FinalWalks
      <4>1. tt.foot[g][stop] \in Nat
        BY <1>1, <1>2 DEF IsTimetable
      <4>2. tt.foot[g][stop] # Never /\ label - tt.foot[g][stop] >= start
        <5> HIDE DEF label, start
        <5> QED BY <1>1, <1>7, <3>1, <4>1
      <4> QED BY <2>2, <4>2 DEF FinalWalks
    <3>3. FinalWalks \in SUBSET Nat /\ FinalWalks \subseteq Station
      <4>1. Station \subseteq Nat
        BY NeverIs DEF Station
      <4>2. FinalWalks \subseteq Station
        BY <1>1 DEF FinalWalks
      <4> QED BY <4>1, <4>2
    <3>4. PICK f \in FinalWalks : f = Min(FinalWalks)
      BY <3>2, <3>3, MinIs
    <3>5. f \in query.sources /\ f \in Station /\ label - tt.foot[f][stop] >= start
      BY <3>3, <3>4 DEF FinalWalks
    <3>6. tt.foot[f][stop] \in Nat
      BY <1>1, <1>2, <3>5 DEF IsTimetable
    <3> PICK w : w = WalkEdge(f, stop, label - tt.foot[f][stop], label)
      OBVIOUS
    <3>7. w = [trip |-> 0, enter |-> 0, exit |-> 0, from |-> f, to |-> stop,
               dep |-> label - tt.foot[f][stop], arr |-> label]
      BY DEF WalkEdge
    <3>8. PICK ws : ws = <<w>> \o edges
      OBVIOUS
    <3>9. WithFinalWalk = ws
      BY <2>2, <3>2, <3>4, <3>8 DEF WithFinalWalk
    <3>10. w \in LegType /\ GoodLeg(tt, w) /\ Chained(tt, edges)
      <4>1. w \in LegType
        <5>1. label - tt.foot[f][stop] \in Int /\ label \in Int
          <6> HIDE DEF label
          <6> QED BY <1>7, <3>6
        <5> HIDE DEF label
        <5> QED BY <1>2, <3>5, <3>7, <5>1 DEF LegType
      <4>2. w.arr - w.dep = tt.foot[f][stop]
        <5>1. w.arr = label /\ w.dep = label - tt.foot[f][stop]
          BY <3>7
        <5> HIDE DEF label
        <5> QED BY <1>7, <3>6, <5>1
      <4> QED BY <1>2, <3>7, <4>1, <4>2 DEF GoodLeg
    <3>11. edges # <<>> => Changed(tt, w, edges[1])
      <4>1. SUFFICES ASSUME edges # <<>> PROVE Changed(tt, w, edges[1])
        OBVIOUS
      <4>2. edges[1].dep >= w.arr + 0
        <5>1. w.arr = label /\ label <= edges[1].dep /\ edges[1].dep \in Int
          BY <1>2, <1>8, <3>7, <4>1
        <5> HIDE DEF label
        <5> QED BY <1>7, <5>1
      <4> QED BY <1>2, <3>7, <4>1, <4>2 DEF Changed
    <3>12. Prepended(tt, w, edges, ws)
      BY <3>8, <3>10, <3>11, LegPrepended
    <3>13. /\ Chained(tt, ws) /\ ws # <<>> /\ ws[1] = w /\ RidesIn(ws) = n
           /\ ws[Len(ws)] = IF edges = <<>> THEN w ELSE edges[Len(edges)]
      <4>1. w.trip = 0
        BY <3>7
      <4> QED BY <1>4, <3>12, <4>1 DEF Prepended
    <3>14. EndOf(tt, query, n, ws[Len(ws)])
      <4>1. CASE edges = <<>>
        <5>1. n = 0 /\ ws[Len(ws)] = w /\ stop = query.dest
          BY <1>2, <3>13, <4>1, NoLegs
        <5>2. EarliestEnd(tt, BestFor(tt, query), LimitOf(tt, query), query.dest, n)
                = BestFor(tt, query)[0][query.dest]
          BY <5>1 DEF EarliestEnd
        <5>3. w.to = stop /\ w.arr = label /\ label = BestFor(tt, query)[0][query.dest]
          BY <1>6, <3>7, <5>1
        <5> HIDE DEF label
        <5> QED BY <1>7, <5>1, <5>2, <5>3 DEF EndOf
      <4>2. CASE edges # <<>>
        BY <1>2, <1>5, <3>13, <4>2
      <4> QED BY <4>1, <4>2
    <3>15. ws[1].from \in query.sources /\ ws[1].dep >= start
      BY <3>5, <3>7, <3>13
    <3> QED BY <3>9, <3>13, <3>14, <3>15 DEF GoodPath
  <2> QED BY <2>1, <2>2
<1> QED BY <1>5, <1>9

-----------------------------------------------------------------------------
(* The reconstruction, journey by journey.                                 *)
JourneysGood == \A j \in journeys : GoodPath(tt, query, j.transfers, j.edges)

PathGood == phase = "extract" => PathTo(tt, query, arrival, stop, transfers, edges)

Explained(k) ==
  \/ k \in todo
  \/ \E j \in journeys : j.transfers = k
  \/ phase = "extract" /\ k = transfers + RidesIn(edges)

TodoInv ==
  /\ phase \notin {"start", "scan"} =>
       todo \subseteq LabelsAt(query.dest) /\ \A k \in LabelsAt(query.dest) : Explained(k)
  /\ phase = "done" => todo = {}

JourneyInv == JourneysGood /\ PathGood /\ TodoInv

LEMMA ScanIsOver ==
  ASSUME SearchTyped, LabelInv, SettledInv, phase \notin {"start", "scan"}
  PROVE  Over(tt, query, arrival, reachable)
BY DEF SearchTyped, LabelInv, SettledInv, Over

LEMMA ResultTaken ==
  ASSUME SearchTyped, LabelInv, SettledInv, JourneyInv, GetResult
  PROVE  JourneyInv'
<1> PICK k : k = Min(todo)
  OBVIOUS
<1>1. /\ phase = "results" /\ todo # {} /\ phase' = "extract" /\ todo' = todo \ {k}
      /\ transfers' = k /\ stop' = query.dest /\ edges' = <<>>
      /\ UNCHANGED <<tt, query, arrival, journeys>>
  BY DEF GetResult, searchVars
<1>2. /\ todo \subseteq LabelsAt(query.dest) /\ \A n \in LabelsAt(query.dest) : Explained(n)
      /\ JourneysGood
  BY <1>1 DEF JourneyInv, TodoInv
<1>3. Round \subseteq Nat
  BY SearchAssumption DEF Round
<1>4. k \in todo /\ k \in Round /\ arrival[query.dest][k] # Never
  <2>1. todo \in SUBSET Nat
    BY <1>2, <1>3 DEF LabelsAt
  <2>2. k \in todo
    BY <1>1, <2>1, MinIs
  <2> QED BY <1>2, <2>2 DEF LabelsAt
<1>5. query.dest \in Station
  BY QueryAssumption DEF SearchTyped
<1>6. k + RidesIn(<<>>) = k /\ Chained(tt, <<>>)
  <2>1. RidesIn(<<>>) = 0 /\ Chained(tt, <<>>)
    BY NoLegs
  <2>2. k \in Nat
    BY <1>3, <1>4
  <2>3. k + 0 = k
    BY <2>2
  <2> QED BY <2>1, <2>3
<1>7. PathTo(tt, query, arrival, query.dest, k, <<>>)
  BY <1>4, <1>5, <1>6 DEF PathTo
<1>8. PathGood'
  BY <1>1, <1>7 DEF PathGood
<1>9. JourneysGood'
  BY <1>1, <1>2 DEF JourneysGood
<1>10. TodoInv'
  <2>1. LabelsAt(query.dest)' = LabelsAt(query.dest)
    BY <1>1 DEF LabelsAt
  <2>2. ASSUME NEW n \in LabelsAt(query.dest) PROVE Explained(n)'
    <3>1. n \in todo \/ \E j \in journeys : j.transfers = n
      BY <1>1, <1>2 DEF Explained
    <3>2. n = k => n = transfers' + RidesIn(edges')
      BY <1>1, <1>6
    <3> QED BY <1>1, <3>1, <3>2 DEF Explained
  <2> QED BY <1>1, <1>2, <2>1, <2>2 DEF TodoInv
<1> QED BY <1>8, <1>9, <1>10 DEF JourneyInv

LEMMA LegTaken ==
  ASSUME SearchTyped, LabelInv, SettledInv, JourneyInv, Leg
  PROVE  JourneyInv'
<1>1. /\ phase = "extract" /\ HasPointer
      /\ UNCHANGED <<tt, query, phase, arrival, todo, journeys>>
      /\ transfers' = transfers - 1
  BY DEF Leg, searchVars
<1>2. edges' = LegEdges /\ stop' = LegRide.from
  BY DEF Leg, LegEdges, LegRide, LegWalk
<1>3. Over(tt, query, arrival, reachable)
  BY <1>1, ScanIsOver
<1>4. PathTo(tt, query, arrival, stop, transfers, edges) /\ JourneysGood /\ TodoInv
  BY <1>1 DEF JourneyInv, PathGood
<1>5. /\ PathTo(tt, query, arrival, LegRide.from, transfers - 1, LegEdges)
      /\ transfers - 1 + RidesIn(LegEdges) = transfers + RidesIn(edges)
  BY <1>1, <1>3, <1>4, LegExtends
<1> HIDE DEF LegRide, LegEdges
<1>6. PathGood'
  BY <1>1, <1>2, <1>5 DEF PathGood
<1>7. JourneysGood'
  BY <1>1, <1>4 DEF JourneysGood
<1>8. TodoInv'
  <2>1. LabelsAt(query.dest)' = LabelsAt(query.dest)
    BY <1>1 DEF LabelsAt
  <2>2. transfers' + RidesIn(edges') = transfers + RidesIn(edges)
    BY <1>1, <1>2, <1>5
  <2>3. ASSUME NEW n, Explained(n) PROVE Explained(n)'
    BY <1>1, <2>2, <2>3 DEF Explained
  <2> QED BY <1>1, <1>4, <2>1, <2>3 DEF TodoInv
<1> QED BY <1>6, <1>7, <1>8 DEF JourneyInv

LEMMA JourneyTaken ==
  ASSUME SearchTyped, LabelInv, SettledInv, JourneyInv, EndJourney
  PROVE  JourneyInv'
<1> PICK j : j = [transfers |-> Label, edges |-> WithFinalWalk]
  OBVIOUS
<1>1. /\ phase = "extract" /\ ~HasPointer /\ phase' = "results"
      /\ journeys' = journeys \cup {j}
      /\ UNCHANGED <<tt, query, arrival, todo>>
  BY DEF EndJourney, searchVars
<1>2. Over(tt, query, arrival, reachable)
  BY <1>1, ScanIsOver
<1>3. PathTo(tt, query, arrival, stop, transfers, edges) /\ JourneysGood /\ TodoInv
  BY <1>1 DEF JourneyInv, PathGood
<1>4. /\ j.transfers = transfers + RidesIn(edges)
      /\ GoodPath(tt, query, j.transfers, j.edges)
  BY <1>1, <1>2, <1>3, JourneyEnds
<1>5. PathGood'
  BY <1>1 DEF PathGood
<1>6. JourneysGood'
  BY <1>1, <1>3, <1>4 DEF JourneysGood
<1>7. TodoInv'
  <2>1. LabelsAt(query.dest)' = LabelsAt(query.dest)
    BY <1>1 DEF LabelsAt
  <2>2. ASSUME NEW n, Explained(n) PROVE Explained(n)'
    BY <1>1, <1>4, <2>2 DEF Explained
  <2> QED BY <1>1, <1>3, <2>1, <2>2 DEF TodoInv
<1> QED BY <1>5, <1>6, <1>7 DEF JourneyInv

LEMMA JourneyInvariant ==
  ASSUME \A s \in Schedules : TripsWithinDay(s.trips)
  PROVE  Spec => []JourneyInv
<1>1. Init => JourneyInv
  BY DEF Init, JourneyInv, JourneysGood, PathGood, TodoInv
<1>2. SearchTyped /\ LabelInv /\ SettledInv /\ JourneyInv /\ [Next]_vars => JourneyInv'
  <2> SUFFICES ASSUME SearchTyped, LabelInv, SettledInv, JourneyInv, [Next]_vars
               PROVE  JourneyInv'
    OBVIOUS
  <2>1. ASSUME UNCHANGED <<tt, query, journeys>>, phase' \in {"start", "scan"}
        PROVE  JourneyInv'
    BY <2>1 DEF JourneyInv, JourneysGood, PathGood, TodoInv
  <2>2. ASSUME UNCHANGED <<tt, query, journeys, arrival>>, phase' = "results",
               todo' = LabelsAt(query.dest)
        PROVE  JourneyInv'
    <3>1. JourneysGood' /\ PathGood'
      BY <2>2 DEF JourneyInv, JourneysGood, PathGood
    <3>2. LabelsAt(query.dest)' = LabelsAt(query.dest)
      BY <2>2 DEF LabelsAt
    <3>3. TodoInv'
      BY <2>2, <3>2 DEF TodoInv, Explained
    <3> QED BY <3>1, <3>3 DEF JourneyInv
  <2>3. ASSUME UNCHANGED <<tt, query, journeys, arrival, todo, stop, transfers, edges>>,
               phase \notin {"start", "scan"},
               phase' = phase \/ (phase = "results" /\ phase' = "done" /\ todo = {})
        PROVE  JourneyInv'
    <3>1. JourneysGood'
      BY <2>3 DEF JourneyInv, JourneysGood
    <3>2. PathGood'
      BY <2>3 DEF JourneyInv, PathGood
    <3>3. TodoInv'
      <4>1. LabelsAt(query.dest)' = LabelsAt(query.dest)
        BY <2>3 DEF LabelsAt
      <4>2. ASSUME NEW n, Explained(n) PROVE Explained(n)'
        BY <2>3, <4>2 DEF Explained
      <4> QED BY <2>3, <4>1, <4>2 DEF JourneyInv, TodoInv
    <3> QED BY <3>1, <3>2, <3>3 DEF JourneyInv
  <2>4. ASSUME NEW s \in Station, AddStart(s) PROVE JourneyInv'
    BY <2>1, <2>4 DEF AddStart, extractVars
  <2>5. CASE Search
    BY <2>1, <2>2, <2>5 DEF Search
  <2>6. CASE Scan
    BY <2>1, <2>6 DEF Scan, extractVars
  <2>7. CASE EndScan
    BY <2>2, <2>7 DEF EndScan, searchVars
  <2>8. CASE GetResult
    BY <2>8, ResultTaken
  <2>9. CASE Leg
    BY <2>9, LegTaken
  <2>10. CASE EndJourney
    BY <2>10, JourneyTaken
  <2>11. CASE EndResults
    BY <2>3, <2>11 DEF EndResults, searchVars, extractVars
  <2>12. CASE UNCHANGED vars
    BY <2>1, <2>3, <2>12 DEF vars, searchVars, extractVars
  <2> QED BY <2>4, <2>5, <2>6, <2>7, <2>8, <2>9, <2>10, <2>11, <2>12 DEF Next
<1> QED BY <1>1, <1>2, SearchTypedInvariant, LabelInvariant, SettledInvariant, PTL DEF Spec

(* Every journey extracted can be travelled: it starts at a source, rides  *)
(* trains that run, leaves time for each change and has as many rides as   *)
(* get_results says.                                                       *)
THEOREM JourneysCanBeTravelled ==
  ASSUME \A s \in Schedules : TripsWithinDay(s.trips)
  PROVE  Spec => []JourneysFeasible
<1>1. JourneyInv => JourneysFeasible
  <2> SUFFICES ASSUME JourneyInv, NEW j \in journeys, NEW es, es = j.edges, es # <<>>
               PROVE  /\ es[1].from \in query.sources /\ es[1].dep >= query.start
                      /\ es[Len(es)].to = query.dest
                      /\ \A i \in DOMAIN es : IF es[i].trip = 0 THEN IsWalk(es[i]) ELSE IsRide(es[i])
                      /\ \A i \in 1..Len(es) - 1 :
                           /\ es[i].to = es[i+1].from
                           /\ es[i+1].dep >= es[i].arr
                                + (IF es[i].trip # 0 /\ es[i+1].trip # 0
                                   THEN tt.transfer[es[i].to] ELSE 0)
                      /\ Cardinality({i \in DOMAIN es : es[i].trip # 0}) = j.transfers
    BY DEF JourneysFeasible
  <2>1. /\ Chained(tt, es) /\ RidesIn(es) = j.transfers
        /\ es[1].from \in query.sources /\ es[1].dep >= query.start
        /\ EndOf(tt, query, j.transfers, es[Len(es)])
    BY DEF JourneyInv, JourneysGood, GoodPath
  <2>2. ASSUME NEW e, GoodLeg(tt, e) PROVE IF e.trip = 0 THEN IsWalk(e) ELSE IsRide(e)
    BY <2>2 DEF GoodLeg, RideLeg, IsWalk, IsRide, Ride
  <2>3. \A i \in DOMAIN es : IF es[i].trip = 0 THEN IsWalk(es[i]) ELSE IsRide(es[i])
    BY <2>1, <2>2 DEF Chained
  <2>4. \A i \in 1..Len(es) - 1 :
          /\ es[i].to = es[i+1].from
          /\ es[i+1].dep >= es[i].arr
               + (IF es[i].trip # 0 /\ es[i+1].trip # 0 THEN tt.transfer[es[i].to] ELSE 0)
    BY <2>1 DEF Chained, Changed
  <2> QED BY <2>1, <2>3, <2>4 DEF EndOf, RidesIn
<1> QED BY <1>1, JourneyInvariant, PTL

(* ... and it ends no later than any journey with that many rides.         *)
THEOREM JourneysEndEarliest ==
  ASSUME \A s \in Schedules : TripsWithinDay(s.trips)
  PROVE  Spec => []JourneysEarliest
<1>1. JourneyInv => JourneysEarliest
  <2> SUFFICES ASSUME JourneyInv, NEW j \in journeys, j.edges # <<>>
               PROVE  j.edges[Len(j.edges)].arr <=
                        EarliestEnd(tt, Best(tt, query.sources, query.start, TimeLimit, MaxTransfers),
                                    TimeLimit, query.dest, j.transfers)
    BY DEF JourneysEarliest
  <2>1. EndOf(tt, query, j.transfers, j.edges[Len(j.edges)])
    BY DEF JourneyInv, JourneysGood, GoodPath
  <2> QED BY <2>1 DEF EndOf, BestFor, LimitOf, TimeLimit
<1> QED BY <1>1, JourneyInvariant, PTL

(* ... and in the end there is one for every label of the destination.     *)
THEOREM LabelsAreExplained ==
  ASSUME \A s \in Schedules : TripsWithinDay(s.trips)
  PROVE  Spec => []EveryLabelExplained
<1>1. JourneyInv => EveryLabelExplained
  <2> SUFFICES ASSUME JourneyInv, phase = "done", NEW k \in LabelsAt(query.dest)
               PROVE  \E j \in journeys :
                        /\ j.transfers = k
                        /\ j.edges = <<>> => k = 0 /\ query.dest \in query.sources
    BY DEF EveryLabelExplained
  <2>1. Explained(k) /\ todo = {}
    BY DEF JourneyInv, TodoInv
  <2>2. PICK j \in journeys : j.transfers = k
    BY <2>1 DEF Explained
  <2>3. j.edges = <<>> => k = 0 /\ query.dest \in query.sources
    BY <2>2 DEF JourneyInv, JourneysGood, GoodPath
  <2> QED BY <2>2, <2>3
<1> QED BY <1>1, JourneyInvariant, PTL

-----------------------------------------------------------------------------
(* Searches from one start after the other (pretrip.h): what they find is  *)
(* in step, on any schedule.                                               *)
LEMMA DepartsByLast ==
  ASSUME NEW s, IsSchedule(s), NEW T, T = BuildTimetable(s),
         NEW t, NEW d, NEW j, Runs(T, t, d, j)
  PROVE  IsTimetable(T) /\ DepOf(T, t, d, j) <= T.last
<1>1. IsTimetable(T) /\ T.trips = s.trips
  BY TimetableIs
<1>2. T.last = LastEvent(s.trips)
  BY DEF BuildTimetable
<1>3. /\ Len(s.trips) \in Nat \ {0} /\ DOMAIN s.trips = 1..Len(s.trips)
      /\ \A p \in DOMAIN s.trips : IsTrip(s.trips[p])
  BY DEF IsSchedule
<1>4. t \in DOMAIN s.trips /\ j \in DOMAIN s.trips[t].dep /\ d \in s.trips[t].days
  BY <1>1 DEF Runs, Section
<1>5. At(d, s.trips[t].dep[j]) <= LastEvent(s.trips)
  BY <1>3, <1>4, LastEventIs
<1> QED BY <1>1, <1>2, <1>5 DEF DepOf

(* Every connection departs inside its day, and none behind the last event *)
(* of the timetable (build_csa_timetable.cc: fwd_connections_ and          *)
(* schedule_end_), so that the start times collected lie before it.        *)
THEOREM ConnectionsDepartInTime ==
  ASSUME NEW s, IsSchedule(s)
  PROVE  DepartInTime(BuildTimetable(s))
<1> DEFINE T == BuildTimetable(s)
<1>1. IsTimetable(T)
  BY TimetableIs
<1>2. T = BuildTimetable(s)
  OBVIOUS
<1> HIDE DEF T
<1>3. T.foot \in [Station -> [Station -> Nat]] /\ T.last \in Nat
  BY <1>1 DEF IsTimetable
<1>4. ASSUME NEW i \in DOMAIN T.cons
      PROVE  /\ T.cons[i].from \in Station /\ T.cons[i].dep \in 0..DayLen - 1
             /\ \A x \in T.cons[i].days : x \in Nat /\ At(x, T.cons[i].dep) <= T.last
  <2>1. /\ T.cons[i].from \in Station /\ T.cons[i].dep \in 0..DayLen - 1
        /\ T.cons[i].offset \in Nat
    BY <1>1, ConnectionFacts
  <2>2. ASSUME NEW x \in T.cons[i].days
        PROVE  x \in Nat /\ At(x, T.cons[i].dep) <= T.last
    <3>1. PICK d \in T.trips[T.cons[i].trip].days : x = d + T.cons[i].offset
      BY <1>1, <2>2, ConnectionDays
    <3>2. /\ Runs(T, T.cons[i].trip, d, T.cons[i].idx) /\ d \in Nat
          /\ At(d + T.cons[i].offset, T.cons[i].dep) = DepOf(T, T.cons[i].trip, d, T.cons[i].idx)
      BY <1>1, ConnectionTimes
    <3>3. DepOf(T, T.cons[i].trip, d, T.cons[i].idx) <= T.last
      BY <1>2, <3>2, DepartsByLast
    <3> QED BY <2>1, <3>1, <3>2, <3>3
  <2> QED BY <2>1, <2>2
<1> QED BY <1>3, <1>4 DEF DepartInTime, T

(* When a last ride ends at a destination.                                 *)
LegEnd(T, t, d, j, s) ==
  ArrOf(T, t, d, j) + (IF LeaveAt(T, t, j) = s THEN 0 ELSE T.foot[LeaveAt(T, t, j)][s])

LEMMA LegEndIs ==
  ASSUME NEW T, IsTimetable(T), NEW limit, NEW b, NEW t, NEW d, NEW e, NEW j,
         CanRide(T, limit, b, t, d, e, j), NEW s \in Station
  PROVE  /\ LegEnd(T, t, d, j, s) \in Nat
         /\ DepOf(T, t, d, e) \in Nat /\ DepOf(T, t, d, j) \in Nat
         /\ DepOf(T, t, d, e) <= DepOf(T, t, d, j)
         /\ DepOf(T, t, d, j) <= LegEnd(T, t, d, j, s)
<1>1. Runs(T, t, d, e) /\ Runs(T, t, d, j) /\ e <= j
  BY DEF CanRide
<1>2. DepOf(T, t, d, e) \in Nat /\ DepOf(T, t, d, e) <= DepOf(T, t, d, j)
  BY <1>1, SectionFacts, SectionsInOrder
<1>3. /\ DepOf(T, t, d, j) \in Nat /\ ArrOf(T, t, d, j) \in Nat
      /\ T.foot[LeaveAt(T, t, j)][s] \in Nat /\ d \in Nat /\ IsTrip(T.trips[t])
  BY <1>1, SectionFacts
<1> DEFINE dep == T.trips[t].dep[j]
           arr == T.trips[t].arr[j]
<1>4. dep \in Nat /\ arr \in Nat /\ dep <= arr
  <2>1. j \in DOMAIN T.trips[t].dep
    BY <1>1 DEF Runs, Section
  <2> QED BY <1>3, <2>1, TripFacts
<1> HIDE DEF dep, arr
<1>5. At(d, dep) - At(d, arr) = dep - arr
  <2>1. d \in Int /\ dep \in Int /\ arr \in Int
    BY <1>3, <1>4
  <2> QED BY <2>1, AtIs
<1>6. DepOf(T, t, d, j) = At(d, dep) /\ ArrOf(T, t, d, j) = At(d, arr)
  BY DEF DepOf, ArrOf, dep, arr
<1>7. DepOf(T, t, d, j) <= ArrOf(T, t, d, j)
  BY <1>3, <1>4, <1>5, <1>6
<1>8. LegEnd(T, t, d, j, s) \in Nat /\ DepOf(T, t, d, j) <= LegEnd(T, t, d, j, s)
  <2>1. CASE LeaveAt(T, t, j) = s
    BY <1>3, <1>7, <2>1 DEF LegEnd
  <2>2. CASE LeaveAt(T, t, j) # s
    BY <1>3, <1>7, <2>2 DEF LegEnd
  <2> QED BY <2>1, <2>2
<1> QED BY <1>2, <1>3, <1>8

EndLike(T, limit, b, s, n) ==
  /\ n \in 0..Never
  /\ \A t, d, e, j : CanRide(T, limit, b, t, d, e, j) => n <= LegEnd(T, t, d, j, s)
  /\ n = Never \/ \E t, d, e, j : CanRide(T, limit, b, t, d, e, j) /\ n = LegEnd(T, t, d, j, s)

LEMMA EarliestEndIs ==
  ASSUME NEW T, IsTimetable(T), NEW limit, NEW B, NEW s \in Station, NEW k, k # 0
  PROVE  EndLike(T, limit, B[k - 1], s, EarliestEnd(T, B, limit, s, k))
<1> DEFINE R == {q \in Rides(T, limit) : B[k - 1][RideFrom(T, q)] <= RideDep(T, q)}
           E == {RideArr(T, r) + (IF RideTo(T, r) = s THEN 0 ELSE T.foot[RideTo(T, r)][s]) : r \in R}
           S == {Never} \cup E
           n == EarliestEnd(T, B, limit, s, k)
<1>1. n = Min(S)
  BY DEF EarliestEnd
<1>2. ASSUME NEW x \in E
      PROVE  \E t, d, e, j : CanRide(T, limit, B[k - 1], t, d, e, j) /\ x = LegEnd(T, t, d, j, s)
  <2>1. PICK r \in R : x = RideArr(T, r) + (IF RideTo(T, r) = s THEN 0 ELSE T.foot[RideTo(T, r)][s])
    BY <1>2
  <2>2. CanRide(T, limit, B[k - 1], r.trip, r.day, r.enter, r.exit)
    BY RideIs
  <2>3. RideArr(T, r) = ArrOf(T, r.trip, r.day, r.exit) /\ RideTo(T, r) = LeaveAt(T, r.trip, r.exit)
    BY DEF RideArr, RideTo, ArrOf, LeaveAt
  <2>4. x = LegEnd(T, r.trip, r.day, r.exit, s)
    BY <2>1, <2>3 DEF LegEnd
  <2> QED BY <2>2, <2>4
<1>3. ASSUME NEW t, NEW d, NEW e, NEW j, CanRide(T, limit, B[k - 1], t, d, e, j)
      PROVE  LegEnd(T, t, d, j, s) \in E
  <2>1. PICK r : r = [trip |-> t, day |-> d, enter |-> e, exit |-> j]
    OBVIOUS
  <2>2. r.trip = t /\ r.day = d /\ r.enter = e /\ r.exit = j
    BY <2>1
  <2>3. r \in Rides(T, limit) /\ B[k - 1][RideFrom(T, r)] <= RideDep(T, r)
    <3>1. /\ t \in DOMAIN T.trips /\ d \in T.trips[t].days
          /\ e \in DOMAIN T.trips[t].dep /\ j \in DOMAIN T.trips[t].dep
          /\ e <= j /\ T.trips[t].in[e] /\ T.trips[t].out[j]
          /\ At(d, T.trips[t].dep[j]) <= limit
          /\ B[k - 1][T.trips[t].stops[e]] <= At(d, T.trips[t].dep[e])
      BY <1>3 DEF CanRide, Runs, Section, DepOf, BoardAt
    <3>2. r \in [trip : {t}, day : T.trips[t].days,
                 enter : DOMAIN T.trips[t].dep, exit : DOMAIN T.trips[t].dep]
      BY <2>1, <3>1
    <3>3. r \in RidesOf(T, t)
      BY <2>2, <3>1, <3>2 DEF RidesOf
    <3>4. B[k - 1][RideFrom(T, r)] <= RideDep(T, r)
      BY <2>2, <3>1 DEF RideFrom, RideDep
    <3> QED BY <2>2, <3>1, <3>3, <3>4 DEF Rides
  <2>4. RideArr(T, r) = ArrOf(T, t, d, j) /\ RideTo(T, r) = LeaveAt(T, t, j)
    BY <2>2 DEF RideArr, RideTo, ArrOf, LeaveAt
  <2>5. LegEnd(T, t, d, j, s) = RideArr(T, r) + (IF RideTo(T, r) = s THEN 0 ELSE T.foot[RideTo(T, r)][s])
    BY <2>4 DEF LegEnd
  <2>6. r \in R
    BY <2>3
  <2> QED BY <2>5, <2>6
<1> HIDE DEF E, n
<1>4. S \in SUBSET Nat /\ S # {}
  <2>1. E \subseteq Nat
    BY <1>2, LegEndIs
  <2> QED BY <2>1, NeverIs
<1>5. n \in S /\ \A y \in S : n <= y
  BY <1>1, <1>4, MinIs
<1>6. n \in 0..Never
  <2>1. n \in Nat /\ n <= Never /\ Never \in Nat
    BY <1>4, <1>5, NeverIs
  <2> QED BY <2>1
<1>7. \A t, d, e, j : CanRide(T, limit, B[k - 1], t, d, e, j) => n <= LegEnd(T, t, d, j, s)
  BY <1>3, <1>5
<1>8. n = Never \/ \E t, d, e, j : CanRide(T, limit, B[k - 1], t, d, e, j) /\ n = LegEnd(T, t, d, j, s)
  BY <1>2, <1>5
<1> QED BY <1>6, <1>7, <1>8 DEF n, EndLike

(* The time limit of a search, and its best labels.                        *)
LimitFrom(T, start, travel) == Min({start + travel, T.last})
BestFrom(T, sources, start, travel) ==
  Best(T, sources, start, LimitFrom(T, start, travel), MaxTransfers)

LEMMA LimitIs ==
  ASSUME NEW T, T.last \in Nat, NEW start \in Nat, NEW travel \in Nat
  PROVE  /\ LimitFrom(T, start, travel) \in Nat
         /\ \A x \in Nat : x <= LimitFrom(T, start, travel) <=> x <= start + travel /\ x <= T.last
<1> DEFINE a == start + travel
           m == LimitFrom(T, start, travel)
<1>1. {a, T.last} \in SUBSET Nat /\ {a, T.last} # {}
  OBVIOUS
<1> HIDE DEF a
<1>2. Min({a, T.last}) \in {a, T.last} /\ \A y \in {a, T.last} : Min({a, T.last}) <= y
  BY <1>1, MinIs
<1>3. m = Min({a, T.last})
  BY DEF LimitFrom, a
<1> HIDE DEF m
<1>4. m \in Nat /\ m <= a /\ m <= T.last /\ (m = a \/ m = T.last) /\ a \in Nat
  BY <1>1, <1>2, <1>3
<1>5. m \in Nat /\ \A x \in Nat : x <= m <=> x <= a /\ x <= T.last
  BY <1>4
<1> QED BY <1>5 DEF a, m

LEMMA BestFromIs ==
  ASSUME NEW T, IsTimetable(T), NEW sources \in SUBSET Station, NEW start \in 0..Never - 1,
         NEW travel \in Nat
  PROVE  LET B == BestFrom(T, sources, start, travel) IN
         /\ B[0] = FirstBest(T, sources, start)
         /\ \A k \in 1..MaxTransfers : B[k] = NextBest(T, LimitFrom(T, start, travel), B[k - 1])
         /\ \A k \in Round, s \in Station : B[k][s] \in 0..Never /\ start <= B[k][s]
<1>1. IsBest(BestFrom(T, sources, start, travel), T, sources, start, LimitFrom(T, start, travel))
  BY BestIs DEF BestFrom
<1> QED BY <1>1 DEF IsBest

(* What can be ridden before some minute can be ridden with any limit that *)
(* lies behind it.                                                         *)
LEMMA CanRideToo ==
  ASSUME NEW T, NEW limit, NEW lim, NEW b, NEW c, NEW t, NEW d, NEW e, NEW j,
         CanRide(T, limit, b, t, d, e, j),
         DepOf(T, t, d, j) <= lim, c[BoardAt(T, t, e)] <= DepOf(T, t, d, e)
  PROVE  CanRide(T, lim, c, t, d, e, j)
BY DEF CanRide

(* Every property of rounds that holds of the first and is handed on.      *)
LEMMA RoundsInduction ==
  ASSUME NEW G \in [Round -> BOOLEAN], G[0],
         \A k \in 1..MaxTransfers : G[k - 1] => G[k]
  PROVE  \A k \in Round : G[k]
<1> DEFINE bad == {k \in Round : ~G[k]}
<1>1. SUFFICES ASSUME bad # {} PROVE FALSE
  OBVIOUS
<1>2. MaxTransfers \in Nat
  BY SearchAssumption
<1>3. PICK k \in bad : \A y \in bad : k <= y
  <2>1. bad \in SUBSET Nat
    BY <1>2 DEF Round
  <2> HIDE DEF bad
  <2> QED BY <1>1, <2>1, Least
<1>4. k \in Round /\ k # 0 /\ ~G[k]
  OBVIOUS
<1>5. k \in 1..MaxTransfers /\ k - 1 \in Round /\ ~(k <= k - 1)
  BY <1>2, <1>4 DEF Round
<1>6. k - 1 \notin bad
  BY <1>3, <1>5
<1> QED BY <1>4, <1>5, <1>6

LEMMA FirstLabelsFollow ==
  ASSUME NEW T, IsTimetable(T), NEW sources \in SUBSET Station,
         NEW u \in 0..Never - 1, NEW t \in 0..Never - 1, u <= t, NEW s \in Station
  PROVE  /\ FirstBest(T, sources, u)[s] <= FirstBest(T, sources, t)[s]
         /\ FirstBest(T, sources, t)[s] < Never =>
              FirstBest(T, sources, u)[s] = FirstBest(T, sources, t)[s] - (t - u)
         /\ FirstBest(T, sources, u)[s] < Never =>
              FirstBest(T, sources, t)[s] <= FirstBest(T, sources, u)[s] + (t - u)
<1> DEFINE n(x) == FirstBest(T, sources, x)[s]
<1>1. Never \in Nat /\ u \in Nat /\ t \in Nat /\ u < Never /\ t < Never
  BY NeverIs
<1>2. \A f \in sources : T.foot[f][s] \in Nat
  BY DEF IsTimetable
<1>3. ASSUME NEW x \in {u, t}
      PROVE  /\ n(x) \in 0..Never /\ x <= n(x)
             /\ s \in sources => n(x) = x
             /\ \A f \in sources : n(x) <= x + T.foot[f][s]
             /\ s \notin sources => n(x) = Never \/ \E f \in sources : n(x) = x + T.foot[f][s]
  <2>1. FirstLike(T, sources, u, s, n(u)) /\ FirstLike(T, sources, t, s, n(t))
    BY FirstBestLike
  <2>2. x = u \/ x = t
    OBVIOUS
  <2> HIDE DEF n
  <2> QED BY <2>1, <2>2 DEF FirstLike
<1> HIDE DEF n
<1>4. CASE s \in sources
  <2>1. n(u) = u /\ n(t) = t
    BY <1>3, <1>4
  <2> QED BY <1>1, <2>1 DEF n
<1>5. CASE s \notin sources
  <2>1. n(t) < Never => n(u) <= n(t) - (t - u)
    <3> SUFFICES ASSUME n(t) < Never PROVE n(u) <= n(t) - (t - u)
      OBVIOUS
    <3>1. PICK f \in sources : n(t) = t + T.foot[f][s]
      BY <1>1, <1>3, <1>5
    <3>2. n(u) <= u + T.foot[f][s] /\ n(u) \in Int
      BY <1>3, <1>1
    <3> QED BY <1>1, <1>2, <3>1, <3>2
  <2>2. n(u) < Never => n(t) <= n(u) + (t - u)
    <3> SUFFICES ASSUME n(u) < Never PROVE n(t) <= n(u) + (t - u)
      OBVIOUS
    <3>1. PICK f \in sources : n(u) = u + T.foot[f][s]
      BY <1>1, <1>3, <1>5
    <3>2. n(t) <= t + T.foot[f][s] /\ n(t) \in Int
      BY <1>3, <1>1
    <3> QED BY <1>1, <1>2, <3>1, <3>2
  <2>3. n(u) \in Nat /\ n(t) \in Nat /\ n(u) <= Never /\ n(t) <= Never
    BY <1>1, <1>3
  <2>4. n(u) <= n(t) /\ (n(t) < Never => n(u) = n(t) - (t - u))
    BY <1>1, <2>1, <2>2, <2>3
  <2> QED BY <2>2, <2>4 DEF n
<1> QED BY <1>4, <1>5

(* Who starts earlier is everywhere no later, up to his time limit.        *)
LEMMA EarlierStartFinds ==
  ASSUME NEW T, IsTimetable(T), NEW sources \in SUBSET Station,
         NEW u \in 0..Never - 1, NEW t \in 0..Never - 1, u <= t, NEW travel \in Nat
  PROVE  \A k \in Round, s \in Station :
           LET x == BestFrom(T, sources, t, travel)[k][s] IN
           x < Never /\ x <= u + travel => BestFrom(T, sources, u, travel)[k][s] <= x
<1> DEFINE A == BestFrom(T, sources, u, travel)
           B == BestFrom(T, sources, t, travel)
           la == LimitFrom(T, u, travel)
           lb == LimitFrom(T, t, travel)
           Good(k) == \A s \in Station : B[k][s] < Never /\ B[k][s] <= u + travel => A[k][s] <= B[k][s]
           G == [k \in Round |-> Good(k)]
<1>0. Never \in Nat /\ u \in Nat /\ t \in Nat /\ T.last \in Nat /\ 0 \in Round
      /\ MaxTransfers \in Nat
  BY NeverIs, SearchAssumption DEF IsTimetable, Round
<1>1. /\ A[0] = FirstBest(T, sources, u)
      /\ \A k \in 1..MaxTransfers : A[k] = NextBest(T, la, A[k - 1])
      /\ \A k \in Round, s \in Station : A[k][s] \in 0..Never
  BY BestFromIs
<1>2. /\ B[0] = FirstBest(T, sources, t)
      /\ \A k \in 1..MaxTransfers : B[k] = NextBest(T, lb, B[k - 1])
      /\ \A k \in Round, s \in Station : B[k][s] \in 0..Never
  BY BestFromIs
<1>3. /\ \A x \in Nat : x <= la <=> x <= u + travel /\ x <= T.last
      /\ \A x \in Nat : x <= lb <=> x <= t + travel /\ x <= T.last
  BY <1>0, LimitIs
<1> HIDE DEF A, B, la, lb
<1>4. Good(0)
  BY <1>1, <1>2, FirstLabelsFollow
<1>5. ASSUME NEW k \in 1..MaxTransfers, Good(k - 1) PROVE Good(k)
  <2> SUFFICES ASSUME NEW s \in Station, B[k][s] < Never, B[k][s] <= u + travel
               PROVE  A[k][s] <= B[k][s]
    OBVIOUS
  <2>1. k \in Round /\ k - 1 \in Round
    BY <1>0 DEF Round
  <2>2. PICK tr, d, e, j : CanRide(T, lb, B[k - 1], tr, d, e, j) /\ B[k][s] = RideEnd(T, tr, d, j, s)
    <3>1. NextBest(T, lb, B[k - 1])[s] = Never \/ \E tr, d, e, j :
             CanRide(T, lb, B[k - 1], tr, d, e, j) /\ NextBest(T, lb, B[k - 1])[s] = RideEnd(T, tr, d, j, s)
      BY NextBestIs
    <3> QED BY <1>0, <1>2, <2>1, <3>1
  <2>3. /\ RideEnd(T, tr, d, j, s) \in Nat
        /\ DepOf(T, tr, d, e) \in Nat /\ DepOf(T, tr, d, j) \in Nat
        /\ DepOf(T, tr, d, e) <= DepOf(T, tr, d, j)
        /\ DepOf(T, tr, d, j) < RideEnd(T, tr, d, j, s)
    BY <2>2, RideEndIs
  <2>4. /\ BoardAt(T, tr, e) \in Station /\ DepOf(T, tr, d, j) <= lb
        /\ B[k - 1][BoardAt(T, tr, e)] <= DepOf(T, tr, d, e)
    BY <2>2, SectionFacts DEF CanRide
  <2>5. DepOf(T, tr, d, j) <= la
    BY <1>0, <1>3, <2>2, <2>3, <2>4
  <2>6. A[k - 1][BoardAt(T, tr, e)] <= B[k - 1][BoardAt(T, tr, e)]
    <3>1. /\ B[k - 1][BoardAt(T, tr, e)] \in Nat
          /\ B[k - 1][BoardAt(T, tr, e)] < Never
          /\ B[k - 1][BoardAt(T, tr, e)] <= u + travel
      BY <1>0, <1>2, <2>1, <2>2, <2>3, <2>4
    <3> QED BY <1>5, <2>4, <3>1
  <2>7. A[k - 1][BoardAt(T, tr, e)] <= DepOf(T, tr, d, e)
    <3>1. A[k - 1][BoardAt(T, tr, e)] \in Nat /\ B[k - 1][BoardAt(T, tr, e)] \in Nat
      BY <1>0, <1>1, <1>2, <2>1, <2>4
    <3> QED BY <2>3, <2>4, <2>6, <3>1
  <2>8. CanRide(T, la, A[k - 1], tr, d, e, j)
    BY <2>2, <2>5, <2>7, CanRideToo
  <2>9. NextBest(T, la, A[k - 1])[s] <= RideEnd(T, tr, d, j, s)
    BY <2>8, NextBestIs
  <2> QED BY <1>1, <2>2, <2>9
<1> HIDE DEF Good
<1>6. \A k \in Round : G[k]
  <2>1. G \in [Round -> BOOLEAN]
    BY DEF Good
  <2>2. \A k \in Round : G[k] <=> Good(k)
    OBVIOUS
  <2>3. \A k \in 1..MaxTransfers : k \in Round /\ k - 1 \in Round
    BY <1>0 DEF Round
  <2> HIDE DEF G
  <2>4. G[0] /\ \A k \in 1..MaxTransfers : G[k - 1] => G[k]
    BY <1>0, <1>4, <1>5, <2>2, <2>3
  <2> QED BY <2>1, <2>4, RoundsInduction
<1> QED BY <1>6 DEF Good, A, B

(* The section ridden first is a connection of the station it leaves.      *)
LEMMA SetsOutForTrain ==
  ASSUME NEW T, IsTimetable(T), NEW t, NEW d, NEW j, Runs(T, t, d, j)
  PROVE  \E i \in DOMAIN T.cons :
           /\ T.cons[i].from = BoardAt(T, t, j)
           /\ \E x \in T.cons[i].days : At(x, T.cons[i].dep) = DepOf(T, t, d, j)
<1>1. PICK i \in DOMAIN T.cons :
         /\ T.cons[i].trip = t /\ T.cons[i].idx = j
         /\ At(d + T.cons[i].offset, T.cons[i].dep) = DepOf(T, t, d, j)
  BY ConnectionOf
<1>2. T.cons[i].from = BoardAt(T, t, j)
  BY <1>1, ConnectionFacts
<1>3. d \in T.trips[T.cons[i].trip].days
  BY <1>1 DEF Runs
<1>4. d + T.cons[i].offset \in T.cons[i].days
  BY <1>3, ConnectionDays
<1> QED BY <1>1, <1>2, <1>4

(* What the argument about the next minute needs of a timetable.           *)
InTime(T) ==
  /\ IsTimetable(T) /\ T.last < Never
  /\ \A z \in Station : T.foot[z][z] # Never
  /\ \A t, d, j : Runs(T, t, d, j) => DepOf(T, t, d, j) <= T.last

LEMMA InTimeIs ==
  ASSUME NEW s, IsSchedule(s), BuildTimetable(s).last < Never
  PROVE  InTime(BuildTimetable(s))
<1> DEFINE T == BuildTimetable(s)
<1>1. IsTimetable(T)
  BY TimetableIs
<1>2. ASSUME NEW t, NEW d, NEW j, Runs(T, t, d, j) PROVE DepOf(T, t, d, j) <= T.last
  <2>1. T = BuildTimetable(s)
    OBVIOUS
  <2> HIDE DEF T
  <2> QED BY <1>2, <2>1, DepartsByLast
<1>3. ASSUME NEW z \in Station PROVE T.foot[z][z] # Never
  <2>1. T.foot = Footpaths(s.transfer, s.walk)
    BY DEF BuildTimetable
  <2>2. s.transfer[z] \in Nat /\ s.transfer[z] < Never
    BY DEF IsSchedule
  <2>3. T.foot[z][z] = s.transfer[z]
    BY <2>1 DEF Footpaths
  <2> QED BY <2>2, <2>3, NeverIs
<1>4. T.last < Never
  OBVIOUS
<1> HIDE DEF T
<1>5. InTime(T)
  BY <1>1, <1>2, <1>3, <1>4 DEF InTime
<1> QED BY <1>5 DEF T

(* Unless a train is reached just in time, setting out a minute later      *)
(* is no worse, from the first ride on.                                    *)
LEMMA MinuteLaterFinds ==
  ASSUME NEW T, InTime(T), NEW sources \in SUBSET Station,
         NEW t \in 0..Never - 1, NEW u \in 0..Never - 1, t < u, u <= t + 1, NEW travel \in Nat, ~SetsOut(T, sources, t)
  PROVE  /\ \A tr, d, e, j : CanRide(T, LimitFrom(T, t, travel), FirstBest(T, sources, t), tr, d, e, j)
              => CanRide(T, LimitFrom(T, u, travel), FirstBest(T, sources, u), tr, d, e, j)
         /\ \A k \in 1..MaxTransfers, z \in Station :
              BestFrom(T, sources, u, travel)[k][z] <= BestFrom(T, sources, t, travel)[k][z]
<1> DEFINE A == BestFrom(T, sources, u, travel)
           B == BestFrom(T, sources, t, travel)
           la == LimitFrom(T, u, travel)
           lb == LimitFrom(T, t, travel)
           fa == FirstBest(T, sources, u)
           fb == FirstBest(T, sources, t)
<1>t. IsTimetable(T)
  BY DEF InTime
<1>0. /\ Never \in Nat /\ t \in Nat /\ T.last \in Nat /\ MaxTransfers \in Nat
      /\ u \in Nat /\ t <= u
  BY <1>t, NeverIs, SearchAssumption DEF IsTimetable
<1>1. /\ A[0] = fa
      /\ \A k \in 1..MaxTransfers : A[k] = NextBest(T, la, A[k - 1])
      /\ \A k \in Round, s \in Station : A[k][s] \in 0..Never /\ u <= A[k][s]
  BY <1>t, BestFromIs
<1>2. /\ B[0] = fb
      /\ \A k \in 1..MaxTransfers : B[k] = NextBest(T, lb, B[k - 1])
      /\ \A k \in Round, s \in Station : B[k][s] \in 0..Never /\ t <= B[k][s]
  BY <1>t, BestFromIs
<1>3. /\ \A x \in Nat : x <= la <=> x <= u + travel /\ x <= T.last
      /\ \A x \in Nat : x <= lb <=> x <= t + travel /\ x <= T.last
  BY <1>0, LimitIs
<1>4. \A x \in Nat : x <= lb => x <= la
  BY <1>0, <1>3
<1> HIDE DEF A, B, la, lb, fa, fb
<1>5. ASSUME NEW z \in Station, fb[z] < Never
      PROVE  /\ fa[z] <= fb[z] + 1 /\ fa[z] \in Nat /\ fb[z] \in Nat
             /\ z \in sources => fb[z] = t
             /\ z \notin sources => \E f \in sources : fb[z] = t + T.foot[f][z] /\ T.foot[f][z] # Never
  <2>1. fa[z] <= fb[z] + (u - t)
    BY <1>t, <1>0, <1>5, FirstLabelsFollow DEF fa, fb
  <2>2. /\ fb[z] \in 0..Never
        /\ z \in sources => fb[z] = t
        /\ z \notin sources => fb[z] = Never \/ \E f \in sources : fb[z] = t + T.foot[f][z]
    <3>1. \A s \in Station : LET n == FirstBest(T, sources, t)[s] IN
          /\ n \in 0..Never
          /\ s \in sources => n = t
          /\ s \notin sources => n = Never \/ \E f \in sources : n = t + T.foot[f][s]
      <4> TAKE s \in Station
      <4> QED BY <1>t, FirstBestIs
    <3> QED BY <3>1 DEF fb
  <2>3. fa[z] \in 0..Never
    BY <1>t, FirstBestIs DEF fa
  <2>4. fa[z] \in Nat /\ fb[z] \in Nat /\ fb[z] # Never
    BY <1>0, <1>5, <2>2, <2>3
  <2>5. fa[z] <= fb[z] + 1
    BY <1>0, <2>1, <2>4
  <2>6. CASE z \in sources
    BY <2>2, <2>4, <2>5, <2>6
  <2>7. CASE z \notin sources
    <3>1. PICK f \in sources : fb[z] = t + T.foot[f][z]
      BY <2>2, <2>4, <2>7
    <3>2. T.foot[f][z] \in Nat
      BY <1>t DEF IsTimetable
    <3>3. T.foot[f][z] # Never
      BY <1>0, <1>5, <3>1, <3>2
    <3> QED BY <2>4, <2>5, <2>7, <3>1, <3>3
  <2> QED BY <2>6, <2>7
<1>6. ASSUME NEW tr, NEW d, NEW e, NEW j, CanRide(T, lb, fb, tr, d, e, j)
      PROVE  CanRide(T, la, fa, tr, d, e, j)
  <2> DEFINE z == BoardAt(T, tr, e)
             dep == DepOf(T, tr, d, e)
  <2>1. /\ Runs(T, tr, d, e) /\ Runs(T, tr, d, j) /\ e <= j
        /\ DepOf(T, tr, d, j) <= lb /\ fb[z] <= dep
    BY <1>6 DEF CanRide
  <2>2. z \in Station /\ dep \in Nat /\ DepOf(T, tr, d, j) \in Nat /\ dep <= T.last
    BY <1>t, <2>1, SectionFacts DEF InTime
  <2>3. DepOf(T, tr, d, j) <= la
    BY <1>4, <2>1, <2>2
  <2>4. fb[z] < Never /\ fb[z] \in Nat
    <3>1. fb[z] \in 0..Never
      BY <1>t, <2>2, FirstBestIs DEF fb
    <3>2. fb[z] \in Nat
      BY <1>0, <3>1
    <3> HIDE DEF z, dep
    <3> QED BY <1>0, <2>1, <2>2, <3>2 DEF InTime
  <2>5. PICK i \in DOMAIN T.cons :
           T.cons[i].from = z /\ \E x \in T.cons[i].days : At(x, T.cons[i].dep) = dep
    BY <1>t, <2>1, SetsOutForTrain
  <2>6. fb[z] # dep
    <3> SUFFICES ASSUME fb[z] = dep PROVE FALSE
      OBVIOUS
    <3>1. CASE z \in sources
      <4>1. dep = t
        BY <1>5, <2>2, <2>4, <3>1
      <4>2. T.foot[z][z] # Never
        BY <2>2 DEF InTime
      <4>3. t + 0 = dep
        BY <1>0, <4>1
      <4> HIDE DEF z, dep
      <4> QED BY <2>5, <3>1, <4>2, <4>3 DEF SetsOut
    <3>2. CASE z \notin sources
      <4>1. PICK f \in sources : fb[z] = t + T.foot[f][z] /\ T.foot[f][z] # Never
        BY <1>5, <2>2, <2>4, <3>2
      <4>2. z # f
        BY <3>2
      <4>3. t + T.foot[f][z] = dep
        BY <4>1
      <4> HIDE DEF z, dep
      <4> QED BY <2>5, <4>1, <4>2, <4>3 DEF SetsOut
    <3> QED BY <3>1, <3>2
  <2>7. fa[z] <= dep
    <3>1. fa[z] <= fb[z] + 1 /\ fa[z] \in Nat
      BY <1>5, <2>2, <2>4
    <3> HIDE DEF z, dep
    <3> QED BY <2>1, <2>2, <2>4, <2>6, <3>1
  <2> QED BY <1>6, <2>3, <2>7, CanRideToo
<1>7. ASSUME NEW k \in 1..MaxTransfers, NEW z \in Station,
             \A tr, d, e, j : CanRide(T, lb, B[k - 1], tr, d, e, j) => CanRide(T, la, A[k - 1], tr, d, e, j)
      PROVE  A[k][z] <= B[k][z]
  <2>1. /\ A[k] = NextBest(T, la, A[k - 1]) /\ B[k] = NextBest(T, lb, B[k - 1])
    BY <1>1, <1>2
  <2>2. /\ A[k][z] \in 0..Never
        /\ \A tr, d, e, j : CanRide(T, la, A[k - 1], tr, d, e, j) => A[k][z] <= RideEnd(T, tr, d, j, z)
    BY <1>t, <2>1, NextBestIs
  <2>3. B[k][z] = Never \/ \E tr, d, e, j : CanRide(T, lb, B[k - 1], tr, d, e, j) /\ B[k][z] = RideEnd(T, tr, d, j, z)
    BY <1>t, <2>1, NextBestIs
  <2>4. CASE B[k][z] = Never
    BY <1>0, <2>2, <2>4
  <2>5. CASE B[k][z] # Never
    <3>1. PICK tr, d, e, j : CanRide(T, lb, B[k - 1], tr, d, e, j) /\ B[k][z] = RideEnd(T, tr, d, j, z)
      BY <2>3, <2>5
    <3>2. CanRide(T, la, A[k - 1], tr, d, e, j)
      BY <1>7, <3>1
    <3> QED BY <2>2, <3>1, <3>2
  <2> QED BY <2>4, <2>5
<1> DEFINE Good(k) == k > 0 => \A z \in Station : A[k][z] <= B[k][z]
           G == [k \in Round |-> Good(k)]
<1>8. \A k \in Round : G[k]
  <2>1. G \in [Round -> BOOLEAN]
    BY DEF Good
  <2>2. G[0]
    <3>1. 0 \in Round /\ Good(0)
      BY <1>0 DEF Round
    <3> QED BY <3>1
  <2>3. ASSUME NEW k \in 1..MaxTransfers, G[k - 1] PROVE G[k]
    <3>1. k \in Round /\ k - 1 \in Round /\ k \in Nat
      BY <1>0 DEF Round
    <3>2. \A tr, d, e, j : CanRide(T, lb, B[k - 1], tr, d, e, j) => CanRide(T, la, A[k - 1], tr, d, e, j)
      <4>1. CASE k = 1
        <5>1. k - 1 = 0
          BY <4>1
        <5>2. A[k - 1] = fa /\ B[k - 1] = fb
          BY <1>1, <1>2, <5>1
        <5> QED BY <1>6, <5>2
      <4>2. CASE k # 1
        <5>1. k - 1 > 0
          BY <3>1, <4>2
        <5>2. \A z \in Station : A[k - 1][z] <= B[k - 1][z]
          BY <2>3, <3>1, <5>1
        <5> SUFFICES ASSUME NEW tr, NEW d, NEW e, NEW j, CanRide(T, lb, B[k - 1], tr, d, e, j)
                     PROVE  CanRide(T, la, A[k - 1], tr, d, e, j)
          OBVIOUS
        <5>3. /\ Runs(T, tr, d, e) /\ Runs(T, tr, d, j)
              /\ DepOf(T, tr, d, j) <= lb /\ B[k - 1][BoardAt(T, tr, e)] <= DepOf(T, tr, d, e)
          BY DEF CanRide
        <5>4. BoardAt(T, tr, e) \in Station /\ DepOf(T, tr, d, e) \in Nat /\ DepOf(T, tr, d, j) \in Nat
          BY <1>t, <5>3, SectionFacts
        <5>5. DepOf(T, tr, d, j) <= la
          BY <1>4, <5>3, <5>4
        <5>6. A[k - 1][BoardAt(T, tr, e)] <= DepOf(T, tr, d, e)
          <6>1. A[k - 1][BoardAt(T, tr, e)] \in Nat /\ B[k - 1][BoardAt(T, tr, e)] \in Nat
            BY <1>0, <1>1, <1>2, <3>1, <5>4
          <6> QED BY <5>2, <5>3, <5>4, <6>1
        <5> QED BY <5>5, <5>6, CanRideToo
      <4> QED BY <4>1, <4>2
    <3>3. \A z \in Station : A[k][z] <= B[k][z]
      BY <1>7, <3>2
    <3> QED BY <3>1, <3>3
  <2> HIDE DEF G
  <2> QED BY <2>1, <2>2, <2>3, RoundsInduction
<1>9. \A k \in 1..MaxTransfers, z \in Station : A[k][z] <= B[k][z]
  <2> TAKE k \in 1..MaxTransfers, z \in Station
  <2>1. k \in Round /\ k > 0
    BY <1>0 DEF Round
  <2> QED BY <1>8, <2>1
<1>10. \A tr, d, e, j : CanRide(T, lb, fb, tr, d, e, j) => CanRide(T, la, fa, tr, d, e, j)
  BY <1>6
<1> QED BY <1>9, <1>10 DEF A, B, la, lb, fa, fb

(* The end of the search from t at d with k rides.                         *)
EndFrom(T, sources, travel, t, d, k) ==
  EarliestEnd(T, BestFrom(T, sources, t, travel), LimitFrom(T, t, travel), d, k)

LEMMA EndFromIs ==
  ASSUME NEW T, IsTimetable(T), NEW sources \in SUBSET Station, NEW travel \in Nat,
         NEW t \in 0..Never - 1, NEW x \in Station, NEW k \in Round
  PROVE  /\ EndFrom(T, sources, travel, t, x, k) \in t..Never
         /\ k = 0 => EndFrom(T, sources, travel, t, x, k) = FirstBest(T, sources, t)[x]
<1> DEFINE B == BestFrom(T, sources, t, travel)
           lim == LimitFrom(T, t, travel)
           n == EndFrom(T, sources, travel, t, x, k)
<1>0. t \in Nat /\ t < Never /\ Never \in Nat /\ k \in Nat /\ MaxTransfers \in Nat
  BY NeverIs, SearchAssumption DEF Round
<1>1. /\ B[0] = FirstBest(T, sources, t)
      /\ \A i \in Round, s \in Station : B[i][s] \in 0..Never /\ t <= B[i][s]
  BY BestFromIs
<1>2. n = EarliestEnd(T, B, lim, x, k)
  BY DEF EndFrom
<1> HIDE DEF B, lim, n
<1>3. CASE k = 0
  <2>1. n = FirstBest(T, sources, t)[x]
    BY <1>1, <1>2, <1>3 DEF EarliestEnd
  <2>2. n \in 0..Never /\ t <= n
    BY <1>1, <1>3, <2>1
  <2>3. n \in t..Never
    BY <1>0, <2>2
  <2> QED BY <2>1, <2>3 DEF n
<1>4. CASE k # 0
  <2>1. /\ n \in 0..Never
        /\ n = Never \/ \E tr, d, e, j : CanRide(T, lim, B[k - 1], tr, d, e, j) /\ n = LegEnd(T, tr, d, j, x)
    <3>1. EndLike(T, lim, B[k - 1], x, n)
      BY <1>2, <1>4, EarliestEndIs
    <3> QED BY <3>1 DEF EndLike
  <2>2. CASE n = Never
    <3>1. n \in t..Never
      BY <1>0, <2>2
    <3> QED BY <1>4, <3>1 DEF n
  <2>3. CASE n # Never
    <3>1. PICK tr, d, e, j : CanRide(T, lim, B[k - 1], tr, d, e, j) /\ n = LegEnd(T, tr, d, j, x)
      BY <2>1, <2>3
    <3>2. /\ LegEnd(T, tr, d, j, x) \in Nat
          /\ DepOf(T, tr, d, e) \in Nat /\ DepOf(T, tr, d, j) \in Nat
          /\ DepOf(T, tr, d, e) <= DepOf(T, tr, d, j)
          /\ DepOf(T, tr, d, j) <= LegEnd(T, tr, d, j, x)
      BY <3>1, LegEndIs
    <3>3. BoardAt(T, tr, e) \in Station /\ B[k - 1][BoardAt(T, tr, e)] <= DepOf(T, tr, d, e)
      BY <3>1, SectionFacts DEF CanRide
    <3>4. B[k - 1][BoardAt(T, tr, e)] \in 0..Never /\ t <= B[k - 1][BoardAt(T, tr, e)]
      <4>1. k - 1 \in Round
        BY <1>0, <1>4 DEF Round
      <4> QED BY <1>1, <3>3, <4>1
    <3>5. n \in t..Never
      <4>1. B[k - 1][BoardAt(T, tr, e)] \in Nat
        BY <1>0, <3>4
      <4> QED BY <1>0, <2>1, <3>1, <3>2, <3>3, <3>4, <4>1
    <3> QED BY <1>4, <3>5 DEF n
  <2> QED BY <2>2, <2>3
<1> QED BY <1>3, <1>4

(* A journey with rides found from t that ends inside the travel time of   *)
(* an earlier start is found from there too.                               *)
LEMMA EndFromEarlier ==
  ASSUME NEW T, IsTimetable(T), NEW sources \in SUBSET Station, NEW travel \in Nat,
         NEW t \in 0..Never - 1, NEW u \in 0..Never - 1, u <= t,
         NEW x \in Station, NEW k \in Round, k # 0,
         EndFrom(T, sources, travel, t, x, k) < Never,
         EndFrom(T, sources, travel, t, x, k) <= u + travel
  PROVE  EndFrom(T, sources, travel, u, x, k) <= EndFrom(T, sources, travel, t, x, k)
<1> DEFINE A == BestFrom(T, sources, u, travel)
           B == BestFrom(T, sources, t, travel)
           la == LimitFrom(T, u, travel)
           lb == LimitFrom(T, t, travel)
           m == EndFrom(T, sources, travel, u, x, k)
           n == EndFrom(T, sources, travel, t, x, k)
<1>0. /\ t \in Nat /\ u \in Nat /\ Never \in Nat /\ k - 1 \in Round /\ T.last \in Nat
  BY NeverIs, SearchAssumption DEF Round, IsTimetable
<1>1. \A i \in Round, s \in Station : A[i][s] \in 0..Never /\ u <= A[i][s]
  BY BestFromIs
<1>2. \A i \in Round, s \in Station : B[i][s] \in 0..Never /\ t <= B[i][s]
  BY BestFromIs
<1>3. \A i \in Round, s \in Station :
        LET y == B[i][s] IN y < Never /\ y <= u + travel => A[i][s] <= y
  BY EarlierStartFinds
<1>4. /\ \A y \in Nat : y <= la <=> y <= u + travel /\ y <= T.last
      /\ \A y \in Nat : y <= lb <=> y <= t + travel /\ y <= T.last
  BY <1>0, LimitIs
<1>5. m = EarliestEnd(T, A, la, x, k) /\ n = EarliestEnd(T, B, lb, x, k)
  BY DEF EndFrom
<1>6. n < Never /\ n <= u + travel
  OBVIOUS
<1> HIDE DEF A, B, la, lb, m, n
<1>7. PICK tr, d, e, j : CanRide(T, lb, B[k - 1], tr, d, e, j) /\ n = LegEnd(T, tr, d, j, x)
  <2>1. EndLike(T, lb, B[k - 1], x, n)
    BY <1>5, EarliestEndIs
  <2> QED BY <1>0, <1>6, <2>1 DEF EndLike
<1>8. /\ LegEnd(T, tr, d, j, x) \in Nat
      /\ DepOf(T, tr, d, e) \in Nat /\ DepOf(T, tr, d, j) \in Nat
      /\ DepOf(T, tr, d, e) <= DepOf(T, tr, d, j)
      /\ DepOf(T, tr, d, j) <= LegEnd(T, tr, d, j, x)
  BY <1>7, LegEndIs
<1>9. /\ BoardAt(T, tr, e) \in Station /\ DepOf(T, tr, d, j) <= lb
      /\ B[k - 1][BoardAt(T, tr, e)] <= DepOf(T, tr, d, e)
  BY <1>7, SectionFacts DEF CanRide
<1>10. DepOf(T, tr, d, j) <= la
  BY <1>0, <1>4, <1>6, <1>7, <1>8, <1>9
<1>11. A[k - 1][BoardAt(T, tr, e)] <= DepOf(T, tr, d, e)
  <2>1. A[k - 1][BoardAt(T, tr, e)] \in Nat /\ B[k - 1][BoardAt(T, tr, e)] \in Nat
    BY <1>0, <1>1, <1>2, <1>9
  <2>2. B[k - 1][BoardAt(T, tr, e)] < Never /\ B[k - 1][BoardAt(T, tr, e)] <= u + travel
    BY <1>0, <1>6, <1>7, <1>8, <1>9, <2>1
  <2>3. A[k - 1][BoardAt(T, tr, e)] <= B[k - 1][BoardAt(T, tr, e)]
    BY <1>0, <1>3, <1>9, <2>2
  <2> QED BY <1>8, <1>9, <2>1, <2>3
<1>12. CanRide(T, la, A[k - 1], tr, d, e, j)
  BY <1>7, <1>10, <1>11, CanRideToo
<1>13. m <= LegEnd(T, tr, d, j, x)
  <2>1. EndLike(T, la, A[k - 1], x, m)
    BY <1>5, EarliestEndIs
  <2> QED BY <1>12, <2>1 DEF EndLike
<1> QED BY <1>7, <1>13 DEF m, n

LEMMA EndFromMinuteLater ==
  ASSUME NEW T, InTime(T), NEW sources \in SUBSET Station, NEW travel \in Nat,
         NEW t \in 0..Never - 1, NEW u \in 0..Never - 1, t < u, u <= t + 1,
         NEW x \in Station, NEW k \in Round, k # 0, ~SetsOut(T, sources, t)
  PROVE  EndFrom(T, sources, travel, u, x, k) <= EndFrom(T, sources, travel, t, x, k)
<1> DEFINE A == BestFrom(T, sources, u, travel)
           B == BestFrom(T, sources, t, travel)
           la == LimitFrom(T, u, travel)
           lb == LimitFrom(T, t, travel)
           m == EndFrom(T, sources, travel, u, x, k)
           n == EndFrom(T, sources, travel, t, x, k)
<1>t. IsTimetable(T)
  BY DEF InTime
<1>0. /\ t \in Nat /\ u \in Nat /\ Never \in Nat /\ k - 1 \in Round /\ T.last \in Nat
      /\ k \in Nat /\ MaxTransfers \in Nat
  BY <1>t, NeverIs, SearchAssumption DEF Round, IsTimetable
<1>1. A[0] = FirstBest(T, sources, u) /\ \A i \in Round, s \in Station : A[i][s] \in 0..Never /\ u <= A[i][s]
  BY <1>t, BestFromIs
<1>2. B[0] = FirstBest(T, sources, t) /\ \A i \in Round, s \in Station : B[i][s] \in 0..Never /\ t <= B[i][s]
  BY <1>t, BestFromIs
<1>3. /\ \A tr, d, e, j : CanRide(T, lb, FirstBest(T, sources, t), tr, d, e, j)
              => CanRide(T, la, FirstBest(T, sources, u), tr, d, e, j)
      /\ \A i \in 1..MaxTransfers, z \in Station : A[i][z] <= B[i][z]
  BY MinuteLaterFinds
<1>4. /\ \A y \in Nat : y <= la <=> y <= u + travel /\ y <= T.last
      /\ \A y \in Nat : y <= lb <=> y <= t + travel /\ y <= T.last
  BY <1>0, LimitIs
<1>5. m = EarliestEnd(T, A, la, x, k) /\ n = EarliestEnd(T, B, lb, x, k)
  BY DEF EndFrom
<1> HIDE DEF A, B, la, lb, m, n
<1>6. ASSUME NEW tr, NEW d, NEW e, NEW j, CanRide(T, lb, B[k - 1], tr, d, e, j)
      PROVE  CanRide(T, la, A[k - 1], tr, d, e, j)
  <2>1. CASE k = 1
    <3>1. k - 1 = 0
      BY <2>1
    <3> QED BY <1>1, <1>2, <1>3, <1>6, <3>1
  <2>2. CASE k # 1
    <3>1. k - 1 \in 1..MaxTransfers
      BY <1>0, <2>2 DEF Round
    <3>2. /\ Runs(T, tr, d, e) /\ Runs(T, tr, d, j)
          /\ DepOf(T, tr, d, j) <= lb /\ B[k - 1][BoardAt(T, tr, e)] <= DepOf(T, tr, d, e)
      BY <1>6 DEF CanRide
    <3>3. BoardAt(T, tr, e) \in Station /\ DepOf(T, tr, d, e) \in Nat /\ DepOf(T, tr, d, j) \in Nat
      BY <1>t, <3>2, SectionFacts
    <3>4. DepOf(T, tr, d, j) <= la
      BY <1>0, <1>4, <3>2, <3>3
    <3>5. A[k - 1][BoardAt(T, tr, e)] <= DepOf(T, tr, d, e)
      <4>1. A[k - 1][BoardAt(T, tr, e)] \in Nat /\ B[k - 1][BoardAt(T, tr, e)] \in Nat
        BY <1>0, <1>1, <1>2, <3>3
      <4> QED BY <1>3, <3>1, <3>2, <3>3, <4>1
    <3> QED BY <1>6, <3>4, <3>5, CanRideToo
  <2> QED BY <2>1, <2>2
<1>7. EndLike(T, la, A[k - 1], x, m) /\ EndLike(T, lb, B[k - 1], x, n)
  BY <1>t, <1>5, EarliestEndIs
<1>8. m <= n
  <2>1. m \in Nat /\ m <= Never
    BY <1>0, <1>7 DEF EndLike
  <2>2. CASE n = Never
    BY <2>1, <2>2
  <2>3. CASE n # Never
    <3>1. PICK tr, d, e, j : CanRide(T, lb, B[k - 1], tr, d, e, j) /\ n = LegEnd(T, tr, d, j, x)
      BY <1>7, <2>3 DEF EndLike
    <3>2. CanRide(T, la, A[k - 1], tr, d, e, j)
      BY <1>6, <3>1
    <3> QED BY <1>7, <3>1, <3>2 DEF EndLike
  <2> QED BY <2>2, <2>3
<1> QED BY <1>8 DEF m, n

(* The searches of one query, one from each minute, are in step, on every  *)
(* schedule: a walk takes as long whenever it begins; who sets out earlier *)
(* has at his time limit missed nothing a later start finds; and between   *)
(* the minutes at which a train is reached just in time, waiting loses     *)
(* nothing.  This is what collect_start_times relies on when it tries      *)
(* these minutes only.                                                     *)
THEOREM SearchesInStep ==
  ASSUME NEW s, IsSchedule(s), BuildTimetable(s).last < Never,
         NEW sources \in SUBSET Station, NEW dests \in SUBSET Station,
         NEW travel \in Nat, NEW h \in 0..Never - 1
  PROVE  SearchesAgree(BuildTimetable(s), sources,
           [t \in 0..h |-> Ends(BuildTimetable(s), sources, dests, t, travel, MaxTransfers)], travel)
<1> DEFINE T == BuildTimetable(s)
           ends == [t \in 0..h |-> Ends(T, sources, dests, t, travel, MaxTransfers)]
           end(t, d, k) == EndFrom(T, sources, travel, t, d, k)
<1>1. InTime(T) /\ IsTimetable(T)
  BY InTimeIs DEF InTime
<1> HIDE DEF T
<1>2. \A t \in 0..h : t \in 0..Never - 1 /\ t \in Nat
  BY NeverIs
<1>3. /\ DOMAIN ends = 0..h
      /\ \A t \in 0..h : DOMAIN ends[t] = dests
      /\ \A t \in 0..h : \A d \in dests : DOMAIN ends[t][d] = Round
      /\ \A t \in 0..h : \A d \in dests : \A k \in Round : ends[t][d][k] = end(t, d, k)
  BY DEF Ends, EndFrom, BestFrom, LimitFrom, Round
<1> HIDE DEF ends, end
<1>4. ASSUME NEW t \in 0..h, NEW d \in dests, NEW k \in Round
      PROVE  /\ end(t, d, k) \in t..Never
             /\ \A u \in 0..h : u <= t /\ end(t, d, k) < Never =>
                  IF k = 0 THEN end(u, d, 0) = end(t, d, k) - (t - u)
                  ELSE end(t, d, k) <= u + travel => end(u, d, k) <= end(t, d, k)
             /\ k > 0 /\ t + 1 \in 0..h /\ ~SetsOut(T, sources, t) => end(t + 1, d, k) <= end(t, d, k)
  <2>0. t \in 0..Never - 1 /\ d \in Station /\ 0 \in Round
    BY <1>2, SearchAssumption DEF Round
  <2>1. end(t, d, k) \in t..Never /\ (k = 0 => end(t, d, k) = FirstBest(T, sources, t)[d])
    BY <1>1, <2>0, EndFromIs DEF end
  <2>2. ASSUME NEW u \in 0..h, u <= t, end(t, d, k) < Never, k = 0
        PROVE  end(u, d, 0) = end(t, d, k) - (t - u)
    <3>1. u \in 0..Never - 1
      BY <1>2
    <3>2. end(u, d, 0) = FirstBest(T, sources, u)[d]
      BY <1>1, <2>0, <3>1, EndFromIs DEF end
    <3>3. FirstBest(T, sources, t)[d] < Never =>
            FirstBest(T, sources, u)[d] = FirstBest(T, sources, t)[d] - (t - u)
      BY <1>1, <2>0, <2>2, <3>1, FirstLabelsFollow
    <3> QED BY <2>1, <2>2, <3>2, <3>3
  <2>3. ASSUME NEW u \in 0..h, u <= t, end(t, d, k) < Never, k # 0, end(t, d, k) <= u + travel
        PROVE  end(u, d, k) <= end(t, d, k)
    <3>1. u \in 0..Never - 1
      BY <1>2
    <3> QED BY <1>1, <2>0, <2>3, <3>1, EndFromEarlier DEF end
  <2>4. ASSUME k > 0, t + 1 \in 0..h, ~SetsOut(T, sources, t)
        PROVE  end(t + 1, d, k) <= end(t, d, k)
    <3>1. PICK u : u = t + 1
      OBVIOUS
    <3>2. u \in 0..Never - 1 /\ t < u /\ u <= t + 1 /\ k # 0
      BY <1>2, <2>4, <3>1 DEF Round
    <3>3. end(u, d, k) <= end(t, d, k)
      BY <1>1, <2>0, <2>4, <3>2, EndFromMinuteLater DEF end
    <3> QED BY <3>1, <3>3
  <2> QED BY <2>1, <2>2, <2>3, <2>4
<1>5. 0 \in Round
  BY SearchAssumption DEF Round
<1>6. SearchesAgree(T, sources, ends, travel)
  BY <1>3, <1>4, <1>5 DEF SearchesAgree
<1> QED BY <1>6 DEF T, ends

=============================================================================
