--------------------------- MODULE Pretrip_proofs ---------------------------
(***************************************************************************)
(* The answers of the csa module are the best there are, whatever the      *)
(* schedule, the query and the limits.  Of one search of the scan only     *)
(* SearchesAssumption is used, which CsaSearch_proofs proves of every      *)
(* schedule (ConnectionsDepartInTime, SearchesInStep).                     *)
(***************************************************************************)
EXTENDS Pretrip, FiniteSetTheorems, WellFoundedInduction, SequenceTheorems, TLAPS

-----------------------------------------------------------------------------
(* Numbers.                                                                *)
LEMMA LeastOfFinite ==
  ASSUME NEW S \in SUBSET Nat, IsFiniteSet(S), S # {}
  PROVE  \E x \in S : \A y \in S : x <= y
<1> DEFINE bad == {A \in SUBSET S : A # {} /\ ~\E x \in A : \A y \in A : x <= y}
<1>1. SUFFICES bad = {}
  <2>1. S \in SUBSET S
    OBVIOUS
  <2> QED BY <1>1, <2>1
<1>2. SUFFICES ASSUME bad # {} PROVE FALSE
  OBVIOUS
<1>3. PICK A \in bad : \A B \in bad : ~(<<B, A>> \in StrictSubsetOrdering(S))
  <2>1. bad \subseteq FiniteSubsetsOf(S)
    BY FS_Subset DEF FiniteSubsetsOf
  <2> QED BY <1>2, <2>1, FS_StrictSubsetOrderingWellFounded, WFMin
<1>4. PICK a \in A : TRUE
  BY <1>3
<1>5. A \ {a} \notin bad
  BY <1>3, <1>4 DEF StrictSubsetOrdering
<1>6. CASE A = {a}
  BY <1>3, <1>6
<1>7. CASE A # {a}
  <2>1. PICK b \in A \ {a} : \A y \in A \ {a} : b <= y
    BY <1>3, <1>4, <1>5, <1>7
  <2>2. \A y \in A : (IF a <= b THEN a ELSE b) <= y
    BY <1>3, <1>4, <2>1
  <2> QED BY <1>3, <1>4, <2>1, <2>2
<1> QED BY <1>6, <1>7

LEMMA Least ==
  ASSUME NEW S \in SUBSET Nat, S # {}
  PROVE  \E x \in S : \A y \in S : x <= y
<1>1. PICK z \in S : TRUE
  OBVIOUS
<1> DEFINE T == {y \in S : y <= z}
<1>2. IsFiniteSet(T)
  <2>1. T \subseteq 0..z
    <3> SUFFICES ASSUME NEW y \in T PROVE y \in 0..z
      OBVIOUS
    <3>1. z \in Nat /\ y \in Nat /\ y <= z
      BY <1>1
    <3> QED BY <3>1
  <2>2. IsFiniteSet(0..z)
    BY FS_Interval
  <2> QED BY <2>1, <2>2, FS_Subset
<1>3. T \in SUBSET Nat /\ z \in T
  <2>1. z \in Nat /\ z <= z
    BY <1>1
  <2> QED BY <1>1, <2>1
<1> HIDE DEF T
<1>4. PICK x \in T : \A y \in T : x <= y
  BY <1>2, <1>3, LeastOfFinite
<1>5. x \in S /\ \A y \in S : x <= y
  <2>1. x \in Nat /\ x \in S /\ x <= z
    BY <1>3 DEF T
  <2> SUFFICES ASSUME NEW y \in S PROVE x <= y
    BY <2>1
  <2>2. CASE y <= z
    BY <1>4, <2>2 DEF T
  <2>3. CASE ~(y <= z)
    BY <2>1, <2>3
  <2> QED BY <2>2, <2>3
<1> QED BY <1>5

LEMMA MinIs ==
  ASSUME NEW S \in SUBSET Nat, S # {}
  PROVE  Min(S) \in S /\ \A y \in S : Min(S) <= y
<1>1. \E x \in S : \A y \in S : x <= y
  BY Least
<1>2. Min(S) = CHOOSE x \in S : \A y \in S : x <= y
  BY DEF Min
<1> QED BY <1>1, <1>2

LEMMA MaxOfTwo ==
  ASSUME NEW a \in Int, NEW b \in Int
  PROVE  Max({a, b}) \in {a, b} /\ a <= Max({a, b}) /\ b <= Max({a, b})
<1>1. \E x \in {a, b} : \A y \in {a, b} : x >= y
  BY a <= b \/ b <= a
<1>2. Max({a, b}) = CHOOSE x \in {a, b} : \A y \in {a, b} : x >= y
  BY DEF Max
<1>3. Max({a, b}) \in {a, b} /\ \A y \in {a, b} : Max({a, b}) >= y
  BY <1>1, <1>2
<1> QED BY <1>3

LEMMA MinOfTwo ==
  ASSUME NEW a \in Int, NEW b \in Int
  PROVE  Min({a, b}) \in {a, b} /\ Min({a, b}) <= a /\ Min({a, b}) <= b
<1>1. \E x \in {a, b} : \A y \in {a, b} : x <= y
  BY a <= b \/ b <= a
<1>2. Min({a, b}) = CHOOSE x \in {a, b} : \A y \in {a, b} : x <= y
  BY DEF Min
<1>3. Min({a, b}) \in {a, b} /\ \A y \in {a, b} : Min({a, b}) <= y
  BY <1>1, <1>2
<1> QED BY <1>3

(* map_to_interval: into the schedule, and what lies there stays.          *)
LEMMA MapIs ==
  ASSUME NEW t \in Int
  PROVE  /\ MapToInterval(t) \in ScheduleBegin..ScheduleEnd
         /\ t \in ScheduleBegin..ScheduleEnd => MapToInterval(t) = t
         /\ \A u \in ScheduleBegin..ScheduleEnd :
              (t <= u => MapToInterval(t) <= u) /\ (u <= t => u <= MapToInterval(t))
<1>1. ScheduleBegin \in Nat /\ ScheduleEnd \in Nat /\ ScheduleBegin <= ScheduleEnd
  BY PretripAssumption
<1> DEFINE m == Max({ScheduleBegin, t})
           n == Min({ScheduleEnd, m})
<1>2. m \in {ScheduleBegin, t} /\ ScheduleBegin <= m /\ t <= m
  BY <1>1, MaxOfTwo
<1>3. m \in Int
  BY <1>1, <1>2
<1> HIDE DEF m
<1>4. n \in {ScheduleEnd, m} /\ n <= ScheduleEnd /\ n <= m
  BY <1>1, <1>3, MinOfTwo
<1> HIDE DEF n
<1>5. /\ n \in ScheduleBegin..ScheduleEnd
      /\ t \in ScheduleBegin..ScheduleEnd => n = t
      /\ \A u \in ScheduleBegin..ScheduleEnd : (t <= u => n <= u) /\ (u <= t => u <= n)
  BY <1>1, <1>2, <1>3, <1>4
<1> QED BY <1>5 DEF MapToInterval, m, n

(* The day of a minute.                                                    *)
LEMMA DayOf ==
  ASSUME NEW d \in Nat, NEW m \in 0..DayLen - 1
  PROVE  /\ At(d, m) \in Nat
         /\ \A t \in Nat : /\ t <= At(d, m) => DayIdx(t) <= d /\ DayIdx(t) \in Nat
                           /\ At(d, m) <= t => d <= DayIdx(t) /\ DayIdx(t) \in Nat
<1>1. DayLen \in Nat \ {0} /\ m \in Nat /\ m < DayLen
  BY TimetableAssumption
<1>2. d * DayLen \in Nat
  BY <1>1
<1>3. ASSUME NEW t \in Nat
      PROVE  /\ t <= At(d, m) => DayIdx(t) <= d /\ DayIdx(t) \in Nat
             /\ At(d, m) <= t => d <= DayIdx(t) /\ DayIdx(t) \in Nat
  <2> DEFINE q == t \div DayLen
             r == t % DayLen
  <2>1. q \in Nat /\ r \in 0..DayLen - 1 /\ t = DayLen * q + r
    BY <1>1
  <2> HIDE DEF q, r
  <2>2. DayLen * q = q * DayLen /\ q * DayLen \in Nat
    BY <1>1, <2>1
  <2>3. q > d => q * DayLen >= d * DayLen + DayLen
    BY <1>1, <2>1
  <2>4. d > q => d * DayLen >= q * DayLen + DayLen
    BY <1>1, <2>1
  <2>5. /\ t <= d * DayLen + m => q <= d
        /\ d * DayLen + m <= t => d <= q
    BY <1>1, <1>2, <2>1, <2>2, <2>3, <2>4
  <2> QED BY <2>1, <2>5 DEF At, DayIdx, q
<1> QED BY <1>1, <1>2, <1>3 DEF At

-----------------------------------------------------------------------------
(* The invariant.                                                          *)
(* The minutes from which the query has to be answered.                    *)
Must(range) ==
  {t \in range.begin..range.end : SetsOut(tt, query.sources, t)} \cup {range.end + 1}

Due == IF query.ontrip THEN {query.begin} ELSE Must(extended)

(* The journey a label promises, and that results have one as good.        *)
Cand(t, l) == [begin |-> t, end |-> ends[t][l[1]][l[2]], transfers |-> l[2]]

Short(t, l) == query.ontrip \/ ends[t][l[1]][l[2]] - t <= MaxTravel

Covered(x) == \E r \in results : Better(r, x)

(* All labels of a start collected, or all but those still to collect.     *)
Searched(t) == \A l \in LabelsOf(t) : Short(t, l) => Covered(Cand(t, l))

Going(t) == t = now /\ \A l \in LabelsOf(t) \ labels : Short(t, l) => Covered(Cand(t, l))

InRange == [begin : ScheduleBegin..ScheduleEnd, end : ScheduleBegin..ScheduleEnd]

Found(j) ==
  /\ j.begin \in Times(tt)
  /\ \E d \in query.dests :
       <<d, j.transfers>> \in LabelsOf(j.begin) /\ ends[j.begin][d][j.transfers] <= j.end
  /\ query.ontrip \/ j.end - j.begin <= MaxTravel
  /\ j.begin \in Departures \/ Searched(j.begin) \/ Going(j.begin)

Given ==
  /\ tt \in {BuildTimetable(s) : s \in Schedules} /\ query \in Queries
  /\ ends = [t \in Times(tt) |-> EndsFrom(tt, query.sources, query.dests, t)]

Typed ==
  /\ phase \in {"new", "search", "check", "done", "crashed"}
  /\ interval \in InRange /\ extended \in InRange
  /\ pieces \in Seq([range : InRange, ontrip : BOOLEAN])
  /\ starts \subseteq Times(tt) /\ now \in Times(tt) /\ labels \subseteq LabelsOf(now)
  /\ results \subseteq [begin : Nat, end : Nat, transfers : Round]

NoneBetter == \A a, b \in results : Better(a, b) => a = b

(* A start of an interval that the loop has still to search.               *)
ToCome(t) ==
  \E i \in DOMAIN pieces : t \in CollectStartTimes(pieces[i].range, pieces[i].ontrip)

StillDue ==
  /\ labels # {} => Going(now)
  /\ phase = "new" => extended = interval
  /\ phase \in {"new", "check", "done"} => labels = {} /\ starts = {}
  /\ phase \notin {"search", "crashed"} \/ query.ontrip => pieces = <<>>
  /\ phase = "check" => ~query.ontrip /\ extended = interval
  /\ query.ontrip \/ WalksInsideDay =>
       /\ phase = "search" =>
            \A t \in Due : Searched(t) \/ Going(t) \/ t \in starts \/ ToCome(t)
       /\ phase = "check" \/ (phase = "done" /\ query.ontrip) => \A t \in Due : Searched(t)

Inv ==
  /\ Given /\ Typed /\ StillDue
  /\ phase # "done" \/ query.ontrip => NoneBetter /\ \A j \in results : Found(j)
  /\ phase = "done" => BestOfInterval

-----------------------------------------------------------------------------
(* What the assumptions say of the query of a state.                       *)
Horizon == Max({ScheduleEnd + 1, tt.last})

Journey == [begin : Nat, end : Nat, transfers : Round]

Agreeing ==
  \A t \in 0..Horizon : \A d \in query.dests : \A k \in Round :
    /\ ends[t][d][k] \in Nat /\ t <= ends[t][d][k] /\ ends[t][d][k] <= Never
    /\ \A u \in 0..Horizon : u <= t /\ ends[t][d][k] < Never =>
         /\ k = 0 => ends[u][d][k] = ends[t][d][k] - (t - u)
         /\ k # 0 /\ ends[t][d][k] <= u + MaxTravel => ends[u][d][k] <= ends[t][d][k]
    /\ k # 0 /\ t + 1 \in 0..Horizon /\ ~SetsOut(tt, query.sources, t)
         => ends[t + 1][d][k] <= ends[t][d][k]

Grounded ==
  /\ query.ontrip \in BOOLEAN /\ query.sources \subseteq Station /\ query.dests \subseteq Station
  /\ query.begin \in Nat /\ query.end \in Nat /\ (query.ontrip => query.begin <= ScheduleEnd)
  /\ {query.earlier, query.later} \subseteq BOOLEAN
  /\ DepartInTime(tt) /\ \A z \in Station : tt.foot[z][z] # Never
  /\ Horizon \in Nat /\ ScheduleEnd + 1 <= Horizon /\ tt.last <= Horizon
  /\ Times(tt) = 0..Horizon
  /\ Agreeing

LEMMA NeverIs ==
  /\ Never \in Nat /\ Station \subseteq Nat /\ MaxTransfers \in Nat /\ MaxTravel \in Nat
  /\ ScheduleBegin \in Nat /\ ScheduleEnd \in Nat /\ Round \subseteq Nat /\ 0 \in Round
<1>1. DayLen \in Nat /\ NStations \in Nat
  BY TimetableAssumption
<1>2. MaxTransfers \in Nat /\ MaxTravel \in Nat /\ ScheduleBegin \in Nat /\ ScheduleEnd \in Nat
  BY PretripAssumption
<1> QED BY <1>1, <1>2 DEF Never, Station, Round

LEMMA GivenIsGrounded ==
  ASSUME Given
  PROVE  Grounded
<1>1. PICK s \in Schedules : tt = BuildTimetable(s)
  BY DEF Given
<1>2. query \in Queries /\ ends = [t \in Times(tt) |-> EndsFrom(tt, query.sources, query.dests, t)]
  BY DEF Given
<1> DEFINE q == <<query.sources, query.dests>>
<1>3. q \in {<<p.sources, p.dests>> : p \in Queries}
  BY <1>2
<1>4. /\ IsSchedule(s) /\ DepartInTime(tt) /\ tt.last < Never
      /\ SearchesAgree(tt, q[1], [t \in Times(tt) |-> EndsFrom(tt, q[1], q[2], t)], MaxTravel)
  BY <1>1, <1>3, SearchesAssumption
<1>5. SearchesAgree(tt, query.sources, ends, MaxTravel)
  BY <1>2, <1>4
<1>6. /\ query.ontrip \in BOOLEAN /\ query.sources \subseteq Station /\ query.dests \subseteq Station
      /\ query.begin \in Nat /\ query.end \in Nat /\ (query.ontrip => query.begin <= ScheduleEnd)
      /\ {query.earlier, query.later} \subseteq BOOLEAN
  BY <1>2, PretripAssumption
<1>7. \A z \in Station : tt.foot[z][z] # Never
  <2> SUFFICES ASSUME NEW z \in Station PROVE tt.foot[z][z] # Never
    OBVIOUS
  <2>1. s.transfer[z] \in Nat /\ s.transfer[z] < Never
    BY <1>4 DEF IsSchedule
  <2>2. tt.foot = Footpaths(s.transfer, s.walk)
    BY <1>1 DEF BuildTimetable
  <2>3. tt.foot[z][z] = s.transfer[z]
    BY <2>2 DEF Footpaths
  <2> QED BY <2>1, <2>3, NeverIs
<1>8. /\ Horizon \in Nat /\ ScheduleEnd + 1 <= Horizon /\ tt.last <= Horizon
      /\ Times(tt) = 0..Horizon
  <2>1. tt.last \in Nat
    BY <1>4 DEF DepartInTime
  <2>2. ScheduleEnd + 1 \in Nat
    BY NeverIs
  <2>3. Horizon \in {ScheduleEnd + 1, tt.last} /\ ScheduleEnd + 1 <= Horizon /\ tt.last <= Horizon
    <3> DEFINE a == ScheduleEnd + 1
               b == tt.last
    <3>1. a \in Int /\ b \in Int
      BY <2>1, <2>2
    <3> HIDE DEF a, b
    <3>2. Max({a, b}) \in {a, b} /\ a <= Max({a, b}) /\ b <= Max({a, b})
      BY <3>1, MaxOfTwo
    <3> QED BY <3>2 DEF Horizon, a, b
  <2>4. Times(tt) = 0..Horizon
    BY DEF Times, Horizon
  <2> HIDE DEF Horizon
  <2> QED BY <2>1, <2>2, <2>3, <2>4
<1>9. Agreeing
  <2>1. DOMAIN ends = 0..Horizon
    BY <1>2, <1>8
  <2>2. \A t \in 0..Horizon : DOMAIN ends[t] = query.dests
    BY <1>2, <1>8 DEF EndsFrom, Ends
  <2>3. \A t \in 0..Horizon : \A d \in query.dests : DOMAIN ends[t][d] = Round
    BY <1>2, <1>8 DEF EndsFrom, Ends, Round
  <2> HIDE DEF Horizon
  <2> SUFFICES ASSUME NEW t \in 0..Horizon, NEW d \in query.dests, NEW k \in Round
               PROVE
    /\ ends[t][d][k] \in Nat /\ t <= ends[t][d][k] /\ ends[t][d][k] <= Never
    /\ \A u \in 0..Horizon : u <= t /\ ends[t][d][k] < Never =>
         /\ k = 0 => ends[u][d][k] = ends[t][d][k] - (t - u)
         /\ k # 0 /\ ends[t][d][k] <= u + MaxTravel => ends[u][d][k] <= ends[t][d][k]
    /\ k # 0 /\ t + 1 \in 0..Horizon /\ ~SetsOut(tt, query.sources, t)
         => ends[t + 1][d][k] <= ends[t][d][k]
    BY DEF Agreeing
  <2>4. LET end == ends[t][d][k] IN
        /\ end \in t..Never
        /\ \A u \in DOMAIN ends : u <= t /\ end < Never =>
             IF k = 0 THEN ends[u][d][0] = end - (t - u)
             ELSE end <= u + MaxTravel => ends[u][d][k] <= end
        /\ k > 0 /\ t + 1 \in DOMAIN ends /\ ~SetsOut(tt, query.sources, t)
             => ends[t + 1][d][k] <= end
    BY <1>5, <2>1, <2>2, <2>3 DEF SearchesAgree
  <2>5. t \in Nat /\ k \in Nat
    BY <1>8, NeverIs
  <2>6. ends[t][d][k] \in Nat /\ t <= ends[t][d][k] /\ ends[t][d][k] <= Never
    BY <2>4, <2>5, NeverIs
  <2>7. ASSUME NEW u \in 0..Horizon, u <= t, ends[t][d][k] < Never
        PROVE  /\ k = 0 => ends[u][d][k] = ends[t][d][k] - (t - u)
               /\ k # 0 /\ ends[t][d][k] <= u + MaxTravel => ends[u][d][k] <= ends[t][d][k]
    BY <2>1, <2>4, <2>7
  <2>8. k # 0 /\ t + 1 \in 0..Horizon /\ ~SetsOut(tt, query.sources, t)
         => ends[t + 1][d][k] <= ends[t][d][k]
    BY <2>1, <2>4, <2>5
  <2> QED BY <2>6, <2>7, <2>8
<1> QED BY <1>4, <1>6, <1>7, <1>8, <1>9 DEF Grounded

(* The three facts of Agreeing, one by one.                                *)
LEMMA EndIs ==
  ASSUME Grounded, NEW t \in Times(tt), NEW d \in query.dests, NEW k \in Round
  PROVE  ends[t][d][k] \in Nat /\ t <= ends[t][d][k] /\ t \in Nat /\ k \in Nat
<1>1. t \in 0..Horizon /\ Horizon \in Nat
  BY DEF Grounded
<1> QED BY <1>1, NeverIs DEF Grounded, Agreeing

LEMMA WalkShifts ==
  ASSUME Grounded, NEW t \in Times(tt), NEW u \in Times(tt), NEW d \in query.dests,
         u <= t, ends[t][d][0] < Never
  PROVE  ends[u][d][0] = ends[t][d][0] - (t - u)
<1>1. t \in 0..Horizon /\ u \in 0..Horizon
  BY DEF Grounded
<1> QED BY <1>1, NeverIs DEF Grounded, Agreeing

LEMMA EarlierFinds ==
  ASSUME Grounded, NEW t \in Times(tt), NEW u \in Times(tt), NEW d \in query.dests,
         NEW k \in Round, k # 0, u <= t, ends[t][d][k] < Never, ends[t][d][k] <= u + MaxTravel
  PROVE  ends[u][d][k] <= ends[t][d][k]
<1>1. t \in 0..Horizon /\ u \in 0..Horizon
  BY DEF Grounded
<1> QED BY <1>1 DEF Grounded, Agreeing

LEMMA LaterFinds ==
  ASSUME Grounded, NEW t \in Times(tt), NEW d \in query.dests, NEW k \in Round, k # 0,
         t + 1 \in Times(tt), ~SetsOut(tt, query.sources, t)
  PROVE  ends[t + 1][d][k] <= ends[t][d][k]
<1>1. t \in 0..Horizon /\ t + 1 \in 0..Horizon
  BY DEF Grounded
<1> QED BY <1>1 DEF Grounded, Agreeing

LEMMA LabelIs ==
  ASSUME Grounded, NEW t \in Times(tt), NEW l \in LabelsOf(t)
  PROVE  /\ l[1] \in query.dests /\ l[2] \in Round /\ l = <<l[1], l[2]>>
         /\ ends[t][l[1]][l[2]] < Never /\ (query.ontrip \/ l[2] # 0 \/ l[1] \notin query.sources)
         /\ ends[t][l[1]][l[2]] \in Nat /\ t <= ends[t][l[1]][l[2]] /\ t \in Nat
         /\ Cand(t, l) \in Journey
<1>1. /\ l[1] \in query.dests /\ l[2] \in Round /\ l = <<l[1], l[2]>>
      /\ ends[t][l[1]][l[2]] < Never /\ (query.ontrip \/ l[2] # 0 \/ l[1] \notin query.sources)
  BY DEF LabelsOf, Edgeless
<1>2. ends[t][l[1]][l[2]] \in Nat /\ t <= ends[t][l[1]][l[2]] /\ t \in Nat
  BY <1>1, EndIs
<1> QED BY <1>1, <1>2 DEF Cand, Journey

(* Who leaves with a train has set out at a minute of the searches.        *)
LEMMA DepartureIs ==
  ASSUME Grounded, NEW t \in Departures
  PROVE  t \in Times(tt) /\ SetsOut(tt, query.sources, t)
<1>1. PICK i \in DOMAIN tt.cons : tt.cons[i].from \in query.sources
                                 /\ \E d \in tt.cons[i].days : t = At(d, tt.cons[i].dep)
  BY DEF Departures
<1>2. PICK d \in tt.cons[i].days : t = At(d, tt.cons[i].dep)
  BY <1>1
<1> DEFINE c == tt.cons[i]
<1>3. c.dep \in 0..DayLen - 1 /\ d \in Nat /\ At(d, c.dep) <= tt.last /\ c.from \in Station
  BY <1>2 DEF Grounded, DepartInTime
<1>4. At(d, c.dep) \in Nat
  BY <1>3, DayOf
<1>5. t \in Times(tt)
  <2>1. Horizon \in Nat /\ tt.last <= Horizon /\ Times(tt) = 0..Horizon /\ tt.last \in Nat
    BY DEF Grounded, DepartInTime
  <2> HIDE DEF Horizon
  <2> QED BY <1>2, <1>3, <1>4, <2>1
<1>6. SetsOut(tt, query.sources, t)
  <2>1. tt.foot[c.from][c.from] # Never
    BY <1>3 DEF Grounded
  <2>2. t + 0 = At(d, c.dep)
    BY <1>2, <1>4
  <2> QED BY <1>1, <1>2, <2>1, <2>2 DEF SetsOut
<1> QED BY <1>5, <1>6

-----------------------------------------------------------------------------
(* The pareto set.                                                         *)
LEMMA BetterIs ==
  ASSUME Grounded, NEW a \in Journey, NEW b \in Journey
  PROVE  /\ Better(a, b) <=> IF query.ontrip THEN a.end <= b.end /\ a.transfers <= b.transfers
                             ELSE /\ b.begin <= a.begin /\ a.end <= b.end
                                  /\ a.transfers <= b.transfers
         /\ a.begin \in Nat /\ a.end \in Nat /\ a.transfers \in Nat
<1>1. /\ a.begin \in Nat /\ a.end \in Nat /\ a.transfers \in Nat
      /\ b.begin \in Nat /\ b.end \in Nat /\ b.transfers \in Nat
  BY NeverIs DEF Journey
<1> QED BY <1>1 DEF Better, OntripDominates, Dominates

LEMMA BetterOrders ==
  ASSUME Grounded
  PROVE  /\ \A a \in Journey : Better(a, a)
         /\ \A a, b, c \in Journey : Better(a, b) /\ Better(b, c) => Better(a, c)
<1>1. ASSUME NEW a \in Journey PROVE Better(a, a)
  BY BetterIs
<1>2. ASSUME NEW a \in Journey, NEW b \in Journey, NEW c \in Journey, Better(a, b), Better(b, c)
      PROVE  Better(a, c)
  <2>1. /\ a.begin \in Nat /\ a.end \in Nat /\ a.transfers \in Nat
        /\ b.begin \in Nat /\ b.end \in Nat /\ b.transfers \in Nat
        /\ c.begin \in Nat /\ c.end \in Nat /\ c.transfers \in Nat
    BY BetterIs
  <2>2. CASE query.ontrip
    <3>1. a.end <= b.end /\ a.transfers <= b.transfers /\ b.end <= c.end /\ b.transfers <= c.transfers
      BY <1>2, <2>2, BetterIs
    <3>2. a.end <= c.end /\ a.transfers <= c.transfers
      BY <2>1, <3>1
    <3> QED BY <2>2, <3>2, BetterIs
  <2>3. CASE ~query.ontrip
    <3>1. /\ a.end <= b.end /\ a.transfers <= b.transfers /\ b.end <= c.end
          /\ b.transfers <= c.transfers /\ b.begin <= a.begin /\ c.begin <= b.begin
      BY <1>2, <2>3, BetterIs
    <3>2. a.end <= c.end /\ a.transfers <= c.transfers /\ c.begin <= a.begin
      BY <2>1, <3>1
    <3> QED BY <2>3, <3>2, BetterIs
  <2> QED BY <2>2, <2>3
<1> QED BY <1>1, <1>2

LEMMA PushBackIs ==
  ASSUME Grounded, NEW set \in SUBSET Journey, NEW j \in Journey
  PROVE  /\ PushBack(set, j) \subseteq set \cup {j}
         /\ \E r \in PushBack(set, j) : Better(r, j)
         /\ \A x \in Journey : (\E r \in set : Better(r, x)) =>
              \E r \in PushBack(set, j) : Better(r, x)
         /\ (\A a, b \in set : Better(a, b) => a = b) =>
              \A a, b \in PushBack(set, j) : Better(a, b) => a = b
<1>1. CASE \E r \in set : Better(r, j)
  BY <1>1 DEF PushBack
<1>2. CASE ~\E r \in set : Better(r, j)
  <2> DEFINE new == {r \in set : ~Better(j, r)} \cup {j}
  <2>1. PushBack(set, j) = new
    BY <1>2 DEF PushBack
  <2>2. Better(j, j)
    BY BetterOrders
  <2>3. ASSUME NEW x \in Journey, NEW r \in set, Better(r, x)
        PROVE  \E q \in new : Better(q, x)
    <3>1. CASE Better(j, r)
      <4>1. Better(j, x)
        BY <2>3, <3>1, BetterOrders
      <4> QED BY <4>1
    <3>2. CASE ~Better(j, r)
      BY <2>3, <3>2
    <3> QED BY <3>1, <3>2
  <2>4. ASSUME \A a, b \in set : Better(a, b) => a = b,
               NEW a \in new, NEW b \in new, Better(a, b)
        PROVE  a = b
    BY <1>2, <2>4
  <2> QED BY <2>1, <2>2, <2>3, <2>4
<1> QED BY <1>1, <1>2

-----------------------------------------------------------------------------
(* Start times.                                                            *)
(* A minute outside the schedule is not asked for.                         *)
LEMMA StartsAreTimes ==
  ASSUME Grounded, NEW range \in InRange, NEW ontrip \in BOOLEAN
  PROVE  /\ CollectStartTimes(range, ontrip) \subseteq Times(tt)
         /\ Must(range) \subseteq Times(tt)
         /\ range.begin \in Nat /\ range.end \in Nat
<1>1. /\ range.begin \in Nat /\ range.end \in Nat /\ range.end <= ScheduleEnd
      /\ ScheduleEnd \in Nat
  BY NeverIs DEF InRange
<1>2. Horizon \in Nat /\ ScheduleEnd + 1 <= Horizon /\ Times(tt) = 0..Horizon
  BY DEF Grounded
<1> HIDE DEF Horizon
<1>3. (range.begin..range.end) \cup {range.end + 1} \subseteq 0..Horizon
  BY <1>1, <1>2
<1>4. CollectStartTimes(range, ontrip) \subseteq (range.begin..range.end) \cup {range.end + 1}
  BY DEF CollectStartTimes, StartTimes
<1>5. Must(range) \subseteq (range.begin..range.end) \cup {range.end + 1}
  BY DEF Must
<1> QED BY <1>1, <1>2, <1>3, <1>4, <1>5

(* collect_start_times finds every minute to set out at, if no walk to a   *)
(* train begins on the day before.                                         *)
LEMMA StartTimesComplete ==
  ASSUME Grounded, WalksInsideDay, NEW range \in InRange,
         NEW t \in range.begin..range.end, SetsOut(tt, query.sources, t)
  PROVE  t \in StartTimes(range)
<1>1. PICK s \in query.sources, i \in DOMAIN tt.cons :
        LET c == tt.cons[i]
            offset == IF c.from = s THEN 0 ELSE tt.foot[s][c.from]
        IN tt.foot[s][c.from] # Never /\ \E d \in c.days : t + offset = At(d, c.dep)
  BY DEF SetsOut
<1> DEFINE c == tt.cons[i]
           offset == IF c.from = s THEN 0 ELSE tt.foot[s][c.from]
<1>2. PICK d \in c.days : t + offset = At(d, c.dep)
  BY <1>1
<1>3. /\ c.from \in Station /\ c.dep \in 0..DayLen - 1 /\ d \in Nat
      /\ tt.foot \in [Station -> [Station -> Nat]] /\ s \in Station
  BY <1>2 DEF Grounded, DepartInTime
<1>4. /\ range.begin \in Nat /\ range.end \in Nat /\ t \in Nat
      /\ range.begin <= t /\ t <= range.end
  BY NeverIs DEF InRange
<1>5. DayLen \in Nat /\ DayLen <= MinuteRange
  BY TimetableAssumption, PretripAssumption
<1>6. offset \in Nat /\ offset <= c.dep
  <2>1. CASE c.from = s
    BY <1>3, <1>5, <2>1
  <2>2. CASE c.from # s
    <3>1. tt.foot[s][c.from] <= c.dep
      BY <1>1, <2>2 DEF WalksInsideDay
    <3>2. tt.foot[s][c.from] \in Nat
      BY <1>3
    <3> QED BY <2>2, <3>1, <3>2
  <2> QED BY <2>1, <2>2
<1> DEFINE m == c.dep - offset
<1>7. m \in 0..DayLen - 1 /\ m % MinuteRange = m
  <2>1. c.dep \in Nat /\ c.dep <= DayLen - 1
    BY <1>3, <1>5
  <2> HIDE DEF c, offset
  <2>3. MinuteRange = 65536
    BY DEF MinuteRange
  <2>2. m \in Nat /\ m <= DayLen - 1 /\ m < MinuteRange
    BY <1>5, <1>6, <2>1, <2>3
  <2> HIDE DEF m
  <2>4. m % 65536 = m
    BY <2>2, <2>3
  <2> QED BY <1>5, <2>2, <2>3, <2>4
<1>8. t = At(d, m)
  <2>1. c.dep \in Nat /\ DayLen * d \in Nat /\ d * DayLen \in Nat
    BY <1>3, <1>5
  <2> HIDE DEF c, offset
  <2> DEFINE x == d * DayLen
  <2>2. t + offset = x + c.dep
    BY <1>2 DEF At
  <2>3. x \in Nat
    BY <2>1
  <2> HIDE DEF x
  <2>4. t = x + (c.dep - offset)
    BY <1>4, <1>6, <2>1, <2>2, <2>3
  <2> QED BY <2>4 DEF At, x, m
<1> HIDE DEF m
<1>9. DayIdx(range.begin) <= d /\ d <= DayIdx(range.end) /\ DayIdx(range.begin) \in Nat
      /\ DayIdx(range.end) \in Nat
  BY <1>3, <1>4, <1>7, <1>8, DayOf
<1>10. d \in c.days \cap (DayIdx(range.begin)..DayIdx(range.end))
  BY <1>2, <1>3, <1>9
<1>11. t = At(d, (c.dep - offset) % MinuteRange)
  BY <1>7, <1>8 DEF m
<1> QED BY <1>1, <1>10, <1>11 DEF StartTimes

(* The interval grows to both sides, and what is new of it is to search.   *)
LEMMA ExtendedIs ==
  ASSUME Grounded, interval \in InRange
  PROVE  /\ Extended \in InRange
         /\ Pieces(Extended) \in Seq([range : InRange, ontrip : BOOLEAN])
         /\ \A t \in Must(Extended) : WalksInsideDay =>
              \/ t \in Must(interval)
              \/ \E i \in DOMAIN Pieces(Extended) :
                   t \in CollectStartTimes(Pieces(Extended)[i].range, Pieces(Extended)[i].ontrip)
<1>1. /\ interval.begin \in ScheduleBegin..ScheduleEnd /\ interval.end \in ScheduleBegin..ScheduleEnd
      /\ ScheduleBegin \in Nat /\ ScheduleEnd \in Nat /\ Extension \in Nat
      /\ interval.begin \in Nat /\ interval.end \in Nat
  BY NeverIs, PretripAssumption DEF InRange
<1> DEFINE b == IF query.earlier THEN MapToInterval(interval.begin - Extension) ELSE interval.begin
           e == IF query.later THEN MapToInterval(interval.end + Extension) ELSE interval.end
<1>2. b \in ScheduleBegin..ScheduleEnd /\ b <= interval.begin
  <2>1. interval.begin - Extension \in Int /\ interval.begin - Extension <= interval.begin
        /\ interval.begin <= interval.begin
    BY <1>1
  <2> QED BY <1>1, <2>1, MapIs
<1>3. e \in ScheduleBegin..ScheduleEnd /\ interval.end <= e
  <2>1. interval.end + Extension \in Int /\ interval.end <= interval.end + Extension
        /\ interval.end <= interval.end
    BY <1>1
  <2> QED BY <1>1, <2>1, MapIs
<1>4. Extended = [begin |-> b, end |-> e]
  BY DEF Extended, Interval
<1> HIDE DEF b, e
<1> DEFINE left == [range |-> Interval(b, MapToInterval(interval.begin - 1)), ontrip |-> FALSE]
           right == [range |-> Interval(MapToInterval(interval.end + 1), e), ontrip |-> TRUE]
           P == (IF b # interval.begin THEN <<left>> ELSE <<>>)
                  \o (IF e # interval.end THEN <<right>> ELSE <<>>)
<1>5. Pieces(Extended) = P
  BY <1>4 DEF Pieces
<1>6. /\ left \in [range : InRange, ontrip : BOOLEAN]
      /\ right \in [range : InRange, ontrip : BOOLEAN]
  <2>1. interval.begin - 1 \in Int /\ interval.end + 1 \in Int
    BY <1>1
  <2>2. /\ MapToInterval(interval.begin - 1) \in ScheduleBegin..ScheduleEnd
        /\ MapToInterval(interval.end + 1) \in ScheduleBegin..ScheduleEnd
    BY <2>1, MapIs
  <2> QED BY <1>2, <1>3, <2>2 DEF InRange, Interval
<1>7. b # interval.begin =>
        left.range = [begin |-> b, end |-> interval.begin - 1] /\ left.ontrip = FALSE
  <2> SUFFICES ASSUME b # interval.begin PROVE MapToInterval(interval.begin - 1) = interval.begin - 1
    BY DEF Interval
  <2>1. interval.begin - 1 \in ScheduleBegin..ScheduleEnd
    BY <1>1, <1>2
  <2> QED BY <2>1, MapIs
<1>8. e # interval.end =>
        right.range = [begin |-> interval.end + 1, end |-> e] /\ right.ontrip = TRUE
  <2> SUFFICES ASSUME e # interval.end PROVE MapToInterval(interval.end + 1) = interval.end + 1
    BY DEF Interval
  <2>1. interval.end + 1 \in ScheduleBegin..ScheduleEnd
    BY <1>1, <1>3
  <2> QED BY <2>1, MapIs
<1> HIDE DEF left, right
<1>9. /\ P \in Seq([range : InRange, ontrip : BOOLEAN])
      /\ b # interval.begin => 1 \in DOMAIN P /\ P[1] = left
      /\ e # interval.end => \E i \in DOMAIN P : P[i] = right
  <2>1. CASE b # interval.begin /\ e # interval.end
    <3> DEFINE S == [range : InRange, ontrip : BOOLEAN]
    <3>1. P = <<left>> \o <<right>>
      BY <2>1
    <3>2. left \in S /\ right \in S
      BY <1>6
    <3> HIDE DEF S, P
    <3>3. <<left>> \in Seq(S) /\ <<right>> \in Seq(S)
      BY <3>2
    <3>4. P \in Seq(S) /\ Len(P) = 2 /\ P[1] = left /\ P[2] = right
      BY <3>1, <3>3, ConcatProperties
    <3>5. 1 \in DOMAIN P /\ 2 \in DOMAIN P
      BY <3>4
    <3> QED BY <3>4, <3>5 DEF S
  <2>2. CASE b = interval.begin /\ e # interval.end
    <3>1. P = <<right>>
      BY <2>2
    <3> QED BY <1>6, <2>2, <3>1
  <2>3. CASE b # interval.begin /\ e = interval.end
    <3>1. P = <<left>>
      BY <2>3
    <3> QED BY <1>6, <2>3, <3>1
  <2>4. CASE b = interval.begin /\ e = interval.end
    <3>1. P = <<>>
      BY <2>4
    <3> QED BY <2>4, <3>1
  <2> QED BY <2>1, <2>2, <2>3, <2>4
<1> HIDE DEF P
<1>10. Extended \in InRange
  BY <1>2, <1>3, <1>4 DEF InRange
<1>11. ASSUME NEW t \in Must(Extended), WalksInsideDay
       PROVE  \/ t \in Must(interval)
              \/ \E i \in DOMAIN P : t \in CollectStartTimes(P[i].range, P[i].ontrip)
  <2>1. CASE t = e + 1
    <3>1. CASE e = interval.end
      BY <2>1, <3>1 DEF Must
    <3>2. CASE e # interval.end
      <4>1. PICK i \in DOMAIN P : P[i] = right
        BY <1>9, <3>2
      <4>2. t \in CollectStartTimes(right.range, right.ontrip)
        BY <1>8, <2>1, <3>2 DEF CollectStartTimes
      <4> QED BY <4>1, <4>2
    <3> QED BY <3>1, <3>2
  <2>2. CASE t \in b..e /\ SetsOut(tt, query.sources, t)
    <3>1. t \in Int /\ b \in Nat /\ e \in Nat /\ b <= t /\ t <= e
      BY <1>1, <1>2, <1>3, <2>2
    <3>2. CASE t < interval.begin
      <4>1. b # interval.begin
        BY <1>1, <3>1, <3>2
      <4>2. t \in left.range.begin..left.range.end
        BY <1>1, <1>7, <3>1, <3>2, <4>1
      <4>3. left.range \in InRange
        BY <1>6
      <4>4. t \in StartTimes(left.range)
        BY <1>11, <2>2, <4>2, <4>3, StartTimesComplete
      <4> QED BY <1>9, <4>1, <4>4 DEF CollectStartTimes
    <3>3. CASE interval.end < t
      <4>1. e # interval.end
        BY <1>1, <3>1, <3>3
      <4>2. t \in right.range.begin..right.range.end
        BY <1>1, <1>8, <3>1, <3>3, <4>1
      <4>3. right.range \in InRange
        BY <1>6
      <4>4. t \in StartTimes(right.range)
        BY <1>11, <2>2, <4>2, <4>3, StartTimesComplete
      <4> QED BY <1>9, <4>1, <4>4 DEF CollectStartTimes
    <3>4. CASE interval.begin <= t /\ t <= interval.end
      <4>1. t \in interval.begin..interval.end
        BY <1>1, <3>1, <3>4
      <4> QED BY <2>2, <4>1 DEF Must
    <3> QED BY <1>1, <3>1, <3>2, <3>3, <3>4
  <2> QED BY <1>4, <1>11, <2>1, <2>2 DEF Must
<1> QED BY <1>5, <1>9, <1>10, <1>11

-----------------------------------------------------------------------------
(* Journeys.                                                               *)
(* There is a first label to collect.                                      *)
LEMMA FirstLabel ==
  ASSUME Grounded, now \in Times(tt), labels \subseteq LabelsOf(now), labels # {}
  PROVE  (CHOOSE m \in labels : \A n \in labels : LabelBefore(m, n)) \in labels
<1>1. \A l \in labels : l[1] \in Nat /\ l[2] \in Nat
  <2> SUFFICES ASSUME NEW l \in labels PROVE l[1] \in Nat /\ l[2] \in Nat
    OBVIOUS
  <2>1. l[1] \in query.dests /\ l[2] \in Round
    BY LabelIs
  <2> QED BY <2>1, NeverIs DEF Grounded
<1> DEFINE A == {l[1] : l \in labels}
<1>2. A \in SUBSET Nat /\ A # {}
  BY <1>1
<1>3. PICK a \in A : \A y \in A : a <= y
  BY <1>2, Least
<1> DEFINE B == {l[2] : l \in {m \in labels : m[1] = a}}
<1>4. B \in SUBSET Nat /\ B # {}
  BY <1>1, <1>3
<1>5. PICK b \in B : \A y \in B : b <= y
  BY <1>4, Least
<1>6. PICK x \in labels : x[1] = a /\ x[2] = b
  BY <1>5
<1>7. ASSUME NEW n \in labels PROVE LabelBefore(x, n)
  <2>1. a <= n[1] /\ a \in Nat /\ n[1] \in Nat
    BY <1>1, <1>3, <1>2
  <2>2. n[1] = a => b <= n[2]
    BY <1>5
  <2> QED BY <1>6, <2>1, <2>2 DEF LabelBefore
<1> QED BY <1>7

(* What one label adds.                                                    *)
LEMMA CollectedIs ==
  ASSUME Grounded, now \in Times(tt), NEW l \in LabelsOf(now), NEW j \in Journeys(l)
  PROVE  /\ j \in Journey /\ j.begin \in Times(tt) /\ (j.begin = now \/ j.begin \in Departures)
         /\ <<l[1], j.transfers>> \in LabelsOf(j.begin)
         /\ ends[j.begin][l[1]][j.transfers] <= j.end
         /\ Short(now, l) => (query.ontrip \/ j.end - j.begin <= MaxTravel)
         /\ Better(j, Cand(now, l))
<1> DEFINE d == l[1]
           k == l[2]
<1>1. /\ d \in query.dests /\ k \in Round /\ ends[now][d][k] < Never
      /\ (query.ontrip \/ k # 0 \/ d \notin query.sources)
      /\ ends[now][d][k] \in Nat /\ now \in Nat /\ Cand(now, l) \in Journey
  BY LabelIs
<1>2. PICK b \in IF k = 0 THEN {now} ELSE {now} \cup {t \in Departures : t > now} :
        \E e \in ends[b][d][k]..ends[now][d][k] : j = [begin |-> b, end |-> e, transfers |-> k]
  BY DEF Journeys
<1>3. PICK e \in ends[b][d][k]..ends[now][d][k] : j = [begin |-> b, end |-> e, transfers |-> k]
  BY <1>2
<1>4. b \in Times(tt) /\ b \in Nat /\ now <= b /\ (b = now \/ b \in Departures)
  <2>1. CASE b = now
    BY <1>1, <2>1
  <2>2. CASE b \in Departures /\ b > now
    <3>1. b \in Times(tt)
      BY <2>2, DepartureIs
    <3>2. b \in Nat
      BY <3>1 DEF Grounded
    <3> QED BY <1>1, <2>2, <3>1, <3>2
  <2> QED BY <1>2, <2>1, <2>2
<1>5. ends[b][d][k] \in Nat
  BY <1>1, <1>4, EndIs
<1>6. e \in Nat /\ ends[b][d][k] <= e /\ e <= ends[now][d][k] /\ ends[b][d][k] < Never
  BY <1>1, <1>3, <1>5, NeverIs
<1>7. j \in Journey
  BY <1>1, <1>3, <1>4, <1>6 DEF Journey
<1>8. <<d, k>> \in LabelsOf(b)
  BY <1>1, <1>6 DEF LabelsOf, Edgeless
<1>9. ASSUME Short(now, l), ~query.ontrip PROVE j.end - j.begin <= MaxTravel
  <2>1. ends[now][d][k] - now <= MaxTravel
    BY <1>9 DEF Short
  <2> HIDE DEF d, k
  <2>2. e - b <= MaxTravel
    BY <1>1, <1>4, <1>6, <2>1, NeverIs
  <2> QED BY <1>3, <2>2
<1>10. Better(j, Cand(now, l))
  <2>1. /\ Cand(now, l).begin = now /\ Cand(now, l).end = ends[now][d][k]
        /\ Cand(now, l).transfers = k
    BY DEF Cand
  <2>2. j.begin = b /\ j.end = e /\ j.transfers = k
    BY <1>3
  <2>3. k \in Nat
    BY <1>1, NeverIs
  <2>4. k <= k
    BY <2>3
  <2> QED BY <1>1, <1>4, <1>6, <1>7, <2>1, <2>2, <2>4, BetterIs
<1> QED BY <1>3, <1>4, <1>6, <1>7, <1>8, <1>9, <1>10

-----------------------------------------------------------------------------
(* Steps leave the query and what the scan finds alone.                    *)
LEMMA SameQuery ==
  ASSUME UNCHANGED <<tt, query, ends>>
  PROVE  /\ Times(tt)' = Times(tt)
         /\ \A t : LabelsOf(t)' = LabelsOf(t)
         /\ Departures' = Departures
         /\ \A r : Must(r)' = Must(r)
         /\ \A r, o : CollectStartTimes(r, o)' = CollectStartTimes(r, o)
         /\ \A t, l : Cand(t, l)' = Cand(t, l) /\ (Short(t, l)' <=> Short(t, l))
         /\ \A a, b : Better(a, b)' <=> Better(a, b)
         /\ WalksInsideDay' <=> WalksInsideDay
<1>1. Times(tt)' = Times(tt)
  BY DEF Times
<1>2. \A t : LabelsOf(t)' = LabelsOf(t)
  BY DEF LabelsOf, Edgeless
<1>3. Departures' = Departures
  BY DEF Departures
<1>4. \A r : Must(r)' = Must(r)
  BY DEF Must, SetsOut
<1>5. \A r, o : CollectStartTimes(r, o)' = CollectStartTimes(r, o)
  BY DEF CollectStartTimes, StartTimes
<1>6. \A t, l : Cand(t, l)' = Cand(t, l) /\ (Short(t, l)' <=> Short(t, l))
  BY DEF Cand, Short
<1>7. \A a, b : Better(a, b)' <=> Better(a, b)
  BY DEF Better, OntripDominates, Dominates
<1>8. WalksInsideDay' <=> WalksInsideDay
  BY DEF WalksInsideDay
<1> QED BY <1>1, <1>2, <1>3, <1>4, <1>5, <1>6, <1>7, <1>8

LEMMA SameResults ==
  ASSUME UNCHANGED <<tt, query, ends, now, labels, results>>
  PROVE  /\ \A t : (Searched(t)' <=> Searched(t)) /\ (Going(t)' <=> Going(t))
         /\ \A j : Found(j)' <=> Found(j)
         /\ NoneBetter' <=> NoneBetter
<1>1. \A t : Searched(t)' <=> Searched(t)
  BY DEF Searched, Covered, Cand, Short, LabelsOf, Edgeless, Better, OntripDominates, Dominates
<1>2. \A t : Going(t)' <=> Going(t)
  BY DEF Going, Covered, Cand, Short, LabelsOf, Edgeless, Better, OntripDominates, Dominates
<1>3. \A j : Found(j)' <=> Found(j)
  BY <1>1, <1>2, SameQuery DEF Found
<1>4. NoneBetter' <=> NoneBetter
  BY DEF NoneBetter, Better, OntripDominates, Dominates
<1> QED BY <1>1, <1>2, <1>3, <1>4

LEMMA SamePieces ==
  ASSUME UNCHANGED <<tt, query, ends, pieces>>, NEW t, ToCome(t)
  PROVE  ToCome(t)'
<1>1. PICK i \in DOMAIN pieces : t \in CollectStartTimes(pieces[i].range, pieces[i].ontrip)
  BY DEF ToCome
<1>2. \E r, o : r = pieces[i].range /\ o = pieces[i].ontrip
  OBVIOUS
<1>3. PICK r, o : r = pieces[i].range /\ o = pieces[i].ontrip
  BY <1>2
<1>4. t \in CollectStartTimes(r, o)
  BY <1>1, <1>3
<1>5. t \in CollectStartTimes(r, o)'
  BY <1>4, SameQuery
<1>6. (r = pieces[i].range /\ o = pieces[i].ontrip /\ i \in DOMAIN pieces)'
  BY <1>1, <1>3
<1>7. t \in CollectStartTimes(pieces[i].range, pieces[i].ontrip)'
  BY <1>5, <1>6
<1> QED BY <1>6, <1>7 DEF ToCome

-----------------------------------------------------------------------------
(* The steps, one by one.                                                  *)
LEMMA NextKeepsQuery ==
  ASSUME [Next]_vars
  PROVE  UNCHANGED <<tt, query, ends>>
BY DEF Next, vars, Ontrip, FirstPiece, SearchFrom, Collect, Crash, OntripDone, NextPiece,
       PieceDone, Extend, Finish

LEMMA GivenStays ==
  ASSUME Given, UNCHANGED <<tt, query, ends>>
  PROVE  Given'
BY DEF Given, Times

LEMMA OntripStep ==
  ASSUME Inv, Grounded, Ontrip
  PROVE  Inv'
<1>1. /\ phase = "new" /\ query.ontrip /\ phase' = "search" /\ starts' = {query.begin}
      /\ UNCHANGED <<tt, query, ends>> /\ UNCHANGED <<interval, extended, pieces>>
      /\ UNCHANGED <<now, labels, results>>
  BY DEF Ontrip, loopVars
<1>2. Given'
  BY <1>1, GivenStays DEF Inv
<1>3. Typed'
  <2>1. query.begin \in Times(tt)
    <3>1. query.begin \in Nat /\ query.begin <= ScheduleEnd /\ ScheduleEnd + 1 <= Horizon
          /\ Horizon \in Nat /\ Times(tt) = 0..Horizon /\ ScheduleEnd \in Nat
      BY <1>1, NeverIs DEF Grounded
    <3> HIDE DEF Horizon
    <3> QED BY <3>1
  <2> QED BY <1>1, <2>1, SameQuery DEF Inv, Typed
<1>4. StillDue'
  <2>1. Due' = {query.begin}
    BY <1>1 DEF Due
  <2>2. labels' = {} /\ pieces' = <<>>
    BY <1>1 DEF Inv, StillDue
  <2> QED BY <1>1, <2>1, <2>2 DEF StillDue
<1>5. NoneBetter' /\ \A j \in results' : Found(j)'
  BY <1>1, SameResults DEF Inv
<1> QED BY <1>1, <1>2, <1>3, <1>4, <1>5 DEF Inv

LEMMA FirstPieceStep ==
  ASSUME Inv, Grounded, FirstPiece
  PROVE  Inv'
<1>1. /\ phase = "new" /\ ~query.ontrip /\ phase' = "search"
      /\ starts' = CollectStartTimes(interval, TRUE)
      /\ UNCHANGED <<tt, query, ends>> /\ UNCHANGED <<interval, extended, pieces>>
      /\ UNCHANGED <<now, labels, results>>
  BY DEF FirstPiece, loopVars
<1>2. Given'
  BY <1>1, GivenStays DEF Inv
<1>3. interval \in InRange /\ extended = interval /\ labels = {} /\ pieces = <<>>
  BY <1>1 DEF Inv, Typed, StillDue
<1>4. Typed'
  <2>1. starts' \subseteq Times(tt)
    BY <1>1, <1>3, StartsAreTimes
  <2> QED BY <1>1, <2>1, SameQuery DEF Inv, Typed
<1>5. StillDue'
  <2>1. Due' = Must(interval)
    <3>1. Due' = Must(extended')
      BY <1>1 DEF Due, Must, SetsOut
    <3> QED BY <1>1, <1>3, <3>1
  <2>2. ASSUME WalksInsideDay, NEW t \in Must(interval) PROVE t \in starts'
    <3>1. CASE t = interval.end + 1
      BY <1>1, <3>1 DEF CollectStartTimes
    <3>2. CASE t \in interval.begin..interval.end /\ SetsOut(tt, query.sources, t)
      <4>1. t \in StartTimes(interval)
        BY <1>3, <2>2, <3>2, StartTimesComplete
      <4> QED BY <1>1, <4>1 DEF CollectStartTimes
    <3> QED BY <2>2, <3>1, <3>2 DEF Must
  <2>3. WalksInsideDay' => WalksInsideDay
    BY <1>1, SameQuery
  <2> QED BY <1>1, <1>3, <2>1, <2>2, <2>3 DEF StillDue
<1>6. NoneBetter' /\ \A j \in results' : Found(j)'
  BY <1>1, SameResults DEF Inv
<1> QED BY <1>1, <1>2, <1>4, <1>5, <1>6 DEF Inv

LEMMA SearchFromStep ==
  ASSUME Inv, Grounded, SearchFrom
  PROVE  Inv'
<1>1. /\ phase = "search" /\ labels = {} /\ starts # {} /\ now' = Min(starts)
      /\ starts' = starts \ {now'} /\ labels' = LabelsOf(now')
      /\ UNCHANGED <<tt, query, ends>> /\ UNCHANGED <<interval, extended, pieces>>
      /\ UNCHANGED <<phase, results>>
  BY DEF SearchFrom, loopVars
<1>2. Given'
  BY <1>1, GivenStays DEF Inv
<1>3. now' \in starts /\ now' \in Times(tt)
  <2>1. starts \subseteq Times(tt)
    BY DEF Inv, Typed
  <2>2. Times(tt) \subseteq Nat
    BY DEF Grounded
  <2>3. Min(starts) \in starts
    BY <1>1, <2>1, <2>2, MinIs
  <2> QED BY <1>1, <2>1, <2>3
<1>4. Typed'
  <2>1. labels' \subseteq LabelsOf(now)'
    BY <1>1 DEF LabelsOf, Edgeless
  <2> QED BY <1>1, <1>3, <2>1, SameQuery DEF Inv, Typed
<1>5. \A t : t = now' => Going(t)'
  <2> SUFFICES ASSUME NEW t, t = now' PROVE Going(t)'
    OBVIOUS
  <2>1. LabelsOf(t)' = LabelsOf(t)
    BY <1>1, SameQuery
  <2>2. LabelsOf(t)' \ labels' = {}
    BY <1>1, <2>1
  <2> QED BY <2>2 DEF Going
<1>6. \A t : (Searched(t) => Searched(t)') /\ (Going(t) => Searched(t)')
  <2>1. \A t : Searched(t)' <=> Searched(t)
    BY <1>1 DEF Searched, Covered, Cand, Short, LabelsOf, Edgeless, Better, OntripDominates, Dominates
  <2>2. \A t : Going(t) => Searched(t)
    BY <1>1 DEF Going, Searched
  <2> QED BY <2>1, <2>2
<1>7. StillDue'
  <2>1. Due' = Due
    BY <1>1 DEF Due, Must, SetsOut
  <2>2. WalksInsideDay' => WalksInsideDay
    BY <1>1, SameQuery
  <2>3. ASSUME query.ontrip \/ WalksInsideDay, NEW t \in Due
        PROVE  Searched(t)' \/ Going(t)' \/ t \in starts' \/ ToCome(t)
    <3>1. Searched(t) \/ Going(t) \/ t \in starts \/ ToCome(t)
      BY <1>1, <2>3 DEF Inv, StillDue
    <3>2. t = now' => Going(t)'
      BY <1>5
    <3> QED BY <1>1, <1>6, <3>1, <3>2
  <2>4. ASSUME NEW t, ToCome(t) PROVE ToCome(t)'
    BY <1>1, <2>4, SamePieces
  <2>5. labels' # {} => Going(now)'
    BY <1>1 DEF Going, LabelsOf, Edgeless
  <2> QED BY <1>1, <2>1, <2>2, <2>3, <2>4, <2>5 DEF StillDue, Inv
<1>8. NoneBetter' /\ \A j \in results' : Found(j)'
  <2>1. NoneBetter'
    BY <1>1, SameQuery DEF Inv, NoneBetter
  <2>2. ASSUME NEW j \in results PROVE Found(j)'
    <3>1. Found(j)
      BY <1>1 DEF Inv
    <3>2. /\ j.begin \in Times(tt)
          /\ \E d \in query.dests :
               <<d, j.transfers>> \in LabelsOf(j.begin)
                 /\ ends[j.begin][d][j.transfers] <= j.end
          /\ query.ontrip \/ j.end - j.begin <= MaxTravel
          /\ j.begin \in Departures \/ Searched(j.begin)'
      BY <1>6, <3>1 DEF Found
    <3>3. j.begin \in Departures => j.begin \in Departures'
      BY <1>1, SameQuery
    <3>4. /\ (j.begin \in Times(tt))'
          /\ (\E d \in query.dests :
               <<d, j.transfers>> \in LabelsOf(j.begin)
                 /\ ends[j.begin][d][j.transfers] <= j.end)'
          /\ (query.ontrip \/ j.end - j.begin <= MaxTravel)'
      BY <1>1, <3>2 DEF Times, LabelsOf, Edgeless
    <3> QED BY <3>2, <3>3, <3>4 DEF Found
  <2> QED BY <1>1, <2>1, <2>2
<1> QED BY <1>1, <1>2, <1>4, <1>7, <1>8 DEF Inv

LEMMA CollectStep ==
  ASSUME Inv, Grounded, Collect
  PROVE  Inv'
<1> DEFINE first == CHOOSE m \in labels : \A n \in labels : LabelBefore(m, n)
<1>1. /\ phase = "search" /\ labels # {} /\ labels' = labels \ {first}
      /\ \E j \in Journeys(first) :
           results' = IF query.ontrip \/ j.end - j.begin <= MaxTravel
                      THEN PushBack(results, j) ELSE results
      /\ UNCHANGED <<tt, query, ends>> /\ UNCHANGED <<interval, extended, pieces>>
      /\ UNCHANGED <<phase, starts, now>>
  BY DEF Collect, NextLabel, loopVars
<1>2. Given'
  BY <1>1, GivenStays DEF Inv
<1>3. /\ now \in Times(tt) /\ labels \subseteq LabelsOf(now) /\ results \subseteq Journey
      /\ NoneBetter /\ (\A j \in results : Found(j)) /\ Going(now)
  BY <1>1 DEF Inv, Typed, Journey, StillDue
<1>4. first \in labels
  BY <1>1, <1>3, FirstLabel
<1> HIDE DEF first
<1>5. PICK l \in labels : l = first
  BY <1>4
<1>6. /\ phase = "search" /\ labels # {} /\ labels' = labels \ {l}
      /\ \E j \in Journeys(l) :
           results' = IF query.ontrip \/ j.end - j.begin <= MaxTravel
                      THEN PushBack(results, j) ELSE results
      /\ UNCHANGED <<tt, query, ends>> /\ UNCHANGED <<interval, extended, pieces>>
      /\ UNCHANGED <<phase, starts, now>>
  BY <1>1, <1>5
<1>7. l \in labels /\ l \in LabelsOf(now)
  BY <1>3
<1>8. PICK j \in Journeys(l) :
        results' = IF query.ontrip \/ j.end - j.begin <= MaxTravel
                   THEN PushBack(results, j) ELSE results
  BY <1>6
<1>9. /\ j \in Journey /\ j.begin \in Times(tt) /\ (j.begin = now \/ j.begin \in Departures)
      /\ <<l[1], j.transfers>> \in LabelsOf(j.begin)
      /\ ends[j.begin][l[1]][j.transfers] <= j.end
      /\ Short(now, l) => (query.ontrip \/ j.end - j.begin <= MaxTravel)
      /\ Better(j, Cand(now, l))
  BY <1>3, <1>7, CollectedIs
<1>10. /\ results' \subseteq results \cup {j}
       /\ j \in results' /\ j \notin results => query.ontrip \/ j.end - j.begin <= MaxTravel
       /\ query.ontrip \/ j.end - j.begin <= MaxTravel => \E r \in results' : Better(r, j)
       /\ \A x \in Journey : Covered(x) => \E r \in results' : Better(r, x)
       /\ \A a, b \in results' : Better(a, b) => a = b
  <2>1. CASE query.ontrip \/ j.end - j.begin <= MaxTravel
    <3>1. results' = PushBack(results, j)
      BY <1>8, <2>1
    <3> QED BY <1>3, <1>9, <2>1, <3>1, PushBackIs DEF Covered, NoneBetter
  <2>2. CASE ~(query.ontrip \/ j.end - j.begin <= MaxTravel)
    <3>1. results' = results
      BY <1>8, <2>2
    <3> QED BY <1>3, <2>2, <3>1 DEF Covered, NoneBetter
  <2> QED BY <2>1, <2>2
<1>11. results' \subseteq Journey
  BY <1>3, <1>9, <1>10
<1>12. \A x \in Journey : Covered(x) => Covered(x)'
  BY <1>6, <1>10, SameQuery DEF Covered
<1>13. Short(now, l) => Covered(Cand(now, l))'
  <2> SUFFICES ASSUME Short(now, l) PROVE Covered(Cand(now, l))'
    OBVIOUS
  <2>1. PICK r \in results' : Better(r, j)
    BY <1>9, <1>10
  <2>2. Cand(now, l) \in Journey
    BY <1>3, <1>7, LabelIs
  <2>3. Better(r, Cand(now, l))
    BY <1>9, <1>11, <2>1, <2>2, BetterOrders
  <2>4. \E x : x = Cand(now, l)
    OBVIOUS
  <2>5. PICK x : x = Cand(now, l)
    BY <2>4
  <2>6. Covered(x)'
    BY <1>6, <2>3, <2>5, SameQuery DEF Covered
  <2>7. (x = Cand(now, l))'
    BY <1>6, <2>5 DEF Cand
  <2> QED BY <2>6, <2>7
<1>14. \A t \in Times(tt) : Searched(t) => Searched(t)'
  <2> SUFFICES ASSUME NEW t \in Times(tt), Searched(t) PROVE Searched(t)'
    OBVIOUS
  <2>1. ASSUME NEW m \in LabelsOf(t), Short(t, m) PROVE Covered(Cand(t, m))'
    <3>1. Cand(t, m) \in Journey /\ Covered(Cand(t, m))
      BY <2>1, LabelIs DEF Searched
    <3>2. PICK x \in Journey : x = Cand(t, m)
      BY <3>1
    <3>3. Covered(x)'
      BY <1>12, <3>1, <3>2
    <3>4. (x = Cand(t, m))'
      BY <1>6, <3>2, SameQuery
    <3> QED BY <3>3, <3>4
  <2>2. LabelsOf(t)' = LabelsOf(t) /\ \A m : Short(t, m)' <=> Short(t, m)
    BY <1>6, SameQuery
  <2> QED BY <2>1, <2>2 DEF Searched
<1>15. \A t \in Times(tt) : Going(t) => Going(t)'
  <2> SUFFICES ASSUME NEW t \in Times(tt), Going(t) PROVE Going(t)'
    OBVIOUS
  <2>1. ASSUME NEW m \in LabelsOf(t) \ labels', Short(t, m) PROVE Covered(Cand(t, m))'
    <3>1. t = now
      BY DEF Going
    <3>2. CASE m = l
      <4>1. Covered(Cand(now, l))'
        BY <1>13, <2>1, <3>1, <3>2
      <4>2. (Cand(t, m) = Cand(now, l))'
        <5>1. t = now'
          BY <1>6, <3>1
        <5> QED BY <3>2, <5>1 DEF Cand
      <4> QED BY <4>1, <4>2
    <3>3. CASE m # l
      <4>1. m \in LabelsOf(t) \ labels
        BY <1>6, <2>1, <3>3
      <4>2. Cand(t, m) \in Journey /\ Covered(Cand(t, m))
        BY <2>1, <4>1, LabelIs DEF Going
      <4>3. PICK x \in Journey : x = Cand(t, m)
        BY <4>2
      <4>4. Covered(x)'
        BY <1>12, <4>2, <4>3
      <4>5. (x = Cand(t, m))'
        BY <1>6, <4>3, SameQuery
      <4> QED BY <4>4, <4>5
    <3> QED BY <3>2, <3>3
  <2>2. LabelsOf(t)' = LabelsOf(t) /\ (\A m : Short(t, m)' <=> Short(t, m)) /\ t = now'
    BY <1>6, SameQuery DEF Going
  <2> QED BY <2>1, <2>2 DEF Going
<1>16. Going(now)'
  <2>1. PICK t \in Times(tt) : t = now
    BY <1>3
  <2>2. Going(t)'
    BY <1>3, <1>15, <2>1
  <2>3. (t = now)'
    BY <1>6, <2>1
  <2> QED BY <2>2, <2>3
<1>17. Typed'
  <2>1. labels' \subseteq LabelsOf(now)'
    <3>1. LabelsOf(now)' = LabelsOf(now)
      BY <1>6 DEF LabelsOf, Edgeless
    <3> QED BY <1>6, <1>3, <3>1
  <2> QED BY <1>6, <1>11, <2>1, SameQuery DEF Inv, Typed, Journey
<1>18. StillDue'
  <2>1. Due' = Due
    BY <1>6 DEF Due, Must, SetsOut
  <2>2. WalksInsideDay' => WalksInsideDay
    BY <1>6, SameQuery
  <2>3. Due \subseteq Times(tt)
    <3>1. Must(extended) \subseteq Times(tt)
      BY StartsAreTimes DEF Inv, Typed
    <3>2. query.ontrip => query.begin \in Times(tt)
      <4>1. query.begin \in Nat /\ (query.ontrip => query.begin <= ScheduleEnd)
            /\ ScheduleEnd + 1 <= Horizon
            /\ Horizon \in Nat /\ Times(tt) = 0..Horizon /\ ScheduleEnd \in Nat
        BY NeverIs DEF Grounded
      <4> HIDE DEF Horizon
      <4> QED BY <4>1
    <3> QED BY <3>1, <3>2 DEF Due
  <2>4. ASSUME query.ontrip \/ WalksInsideDay, NEW t \in Due
        PROVE  Searched(t)' \/ Going(t)' \/ t \in starts' \/ ToCome(t)'
    <3>1. Searched(t) \/ Going(t) \/ t \in starts \/ ToCome(t)
      BY <1>6, <2>4 DEF Inv, StillDue
    <3> QED BY <1>6, <1>14, <1>15, <2>3, <3>1, SamePieces
  <2>5. query.ontrip => pieces' = <<>>
    BY <1>6 DEF Inv, StillDue
  <2> QED BY <1>6, <1>16, <2>1, <2>2, <2>4, <2>5 DEF StillDue
<1>19. NoneBetter'
  BY <1>6, <1>10, SameQuery DEF NoneBetter
<1>20. ASSUME NEW x \in results' PROVE Found(x)'
  <2>1. x.begin \in Times(tt)
    BY <1>3, <1>9, <1>10 DEF Found
  <2>2. \E d \in query.dests :
          <<d, x.transfers>> \in LabelsOf(x.begin) /\ ends[x.begin][d][x.transfers] <= x.end
    <3>1. CASE x \in results
      BY <1>3, <3>1 DEF Found
    <3>2. CASE x = j
      <4>1. l[1] \in query.dests
        BY <1>3, <1>7, LabelIs
      <4> QED BY <1>9, <3>2, <4>1
    <3> QED BY <1>10, <3>1, <3>2
  <2>3. query.ontrip \/ x.end - x.begin <= MaxTravel
    BY <1>3, <1>10 DEF Found
  <2>4. x.begin \in Departures' \/ Searched(x.begin)' \/ Going(x.begin)'
    <3>1. x.begin \in Departures \/ Searched(x.begin) \/ Going(x.begin)
      BY <1>3, <1>9, <1>10 DEF Found
    <3> QED BY <1>6, <1>14, <1>15, <2>1, <3>1, SameQuery
  <2>5. /\ (x.begin \in Times(tt))'
        /\ (\E d \in query.dests :
             <<d, x.transfers>> \in LabelsOf(x.begin)
               /\ ends[x.begin][d][x.transfers] <= x.end)'
        /\ (query.ontrip \/ x.end - x.begin <= MaxTravel)'
    BY <1>6, <2>1, <2>2, <2>3 DEF Times, LabelsOf, Edgeless
  <2> QED BY <2>4, <2>5 DEF Found
<1> QED BY <1>6, <1>2, <1>17, <1>18, <1>19, <1>20 DEF Inv

LEMMA CrashStep ==
  ASSUME Inv, Grounded, Crash
  PROVE  Inv'
<1>1. /\ phase = "search" /\ labels # {} /\ phase' = "crashed"
      /\ UNCHANGED <<tt, query, ends>> /\ UNCHANGED <<interval, extended, pieces>>
      /\ UNCHANGED <<starts, now, labels, results>>
  BY DEF Crash, loopVars, searchVars
<1>2. Given'
  BY <1>1, GivenStays DEF Inv
<1>3. Typed'
  BY <1>1, SameQuery DEF Inv, Typed
<1>4. StillDue'
  <2>1. labels' # {} => Going(now)'
    BY <1>1 DEF Inv, StillDue, Going, Covered, Cand, Short, LabelsOf, Edgeless, Better,
                OntripDominates, Dominates
  <2>2. query.ontrip' => pieces' = <<>>
    BY <1>1 DEF Inv, StillDue
  <2> QED BY <1>1, <2>1, <2>2 DEF StillDue
<1>5. NoneBetter' /\ \A j \in results' : Found(j)'
  BY <1>1, SameResults DEF Inv
<1> QED BY <1>1, <1>2, <1>3, <1>4, <1>5 DEF Inv

LEMMA OntripDoneStep ==
  ASSUME Inv, Grounded, OntripDone
  PROVE  Inv'
<1>1. /\ phase = "search" /\ labels = {} /\ starts = {} /\ query.ontrip /\ phase' = "done"
      /\ UNCHANGED <<tt, query, ends>> /\ UNCHANGED <<interval, extended, pieces>>
      /\ UNCHANGED <<starts, now, labels, results>>
  BY DEF OntripDone, SearchDone, loopVars, searchVars
<1>2. Given'
  BY <1>1, GivenStays DEF Inv
<1>3. Typed'
  BY <1>1, SameQuery DEF Inv, Typed
<1>4. StillDue'
  <2>1. Due' = Due /\ pieces = <<>>
    BY <1>1 DEF Due, Inv, StillDue
  <2>2. ASSUME NEW t \in Due PROVE Searched(t)'
    <3>1. Searched(t) \/ Going(t)
      BY <1>1, <2>1, <2>2 DEF Inv, StillDue, ToCome
    <3>2. Searched(t)
      BY <1>1, <3>1 DEF Going, Searched
    <3> QED BY <1>1, <3>2, SameResults
  <2> QED BY <1>1, <2>1, <2>2 DEF StillDue
<1>5. NoneBetter' /\ \A j \in results' : Found(j)'
  BY <1>1, SameResults DEF Inv
<1>6. BestOfInterval'
  BY <1>1 DEF BestOfInterval
<1> QED BY <1>1, <1>2, <1>3, <1>4, <1>5, <1>6 DEF Inv

LEMMA NextPieceStep ==
  ASSUME Inv, Grounded, NextPiece
  PROVE  Inv'
<1>1. /\ phase = "search" /\ labels = {} /\ starts = {} /\ ~query.ontrip /\ pieces # <<>>
      /\ starts' = CollectStartTimes(Head(pieces).range, Head(pieces).ontrip)
      /\ pieces' = Tail(pieces)
      /\ UNCHANGED <<tt, query, ends>> /\ UNCHANGED <<interval, extended>>
      /\ UNCHANGED <<phase, now, labels, results>>
  BY DEF NextPiece, SearchDone
<1>2. Given'
  BY <1>1, GivenStays DEF Inv
<1> DEFINE S == [range : InRange, ontrip : BOOLEAN]
<1>3. /\ pieces \in Seq(S) /\ pieces[1] \in S /\ Head(pieces) = pieces[1]
      /\ Tail(pieces) \in Seq(S) /\ Len(Tail(pieces)) = Len(pieces) - 1 /\ Len(pieces) \in Nat
      /\ \A i \in 1..Len(Tail(pieces)) : Tail(pieces)[i] = pieces[i + 1]
  <2>1. pieces \in Seq(S)
    BY DEF Inv, Typed
  <2> HIDE DEF S
  <2>2. /\ Tail(pieces) \in Seq(S) /\ Len(Tail(pieces)) = Len(pieces) - 1
        /\ \A i \in 1..Len(Tail(pieces)) : Tail(pieces)[i] = pieces[i + 1]
    BY <1>1, <2>1, HeadTailProperties
  <2>3. Len(pieces) \in Nat /\ Len(pieces) # 0
    BY <1>1, <2>1, EmptySeq
  <2> QED BY <2>1, <2>2, <2>3
<1>4. Typed'
  <2>1. pieces[1].range \in InRange /\ pieces[1].ontrip \in BOOLEAN
    BY <1>3
  <2>2. starts' \subseteq Times(tt)
    BY <1>1, <1>3, <2>1, StartsAreTimes
  <2> QED BY <1>1, <1>3, <2>2, SameQuery DEF Inv, Typed
<1>5. StillDue'
  <2>1. Due' = Due
    BY <1>1 DEF Due, Must, SetsOut
  <2>2. WalksInsideDay' => WalksInsideDay
    BY <1>1, SameQuery
  <2>3. ASSUME WalksInsideDay, NEW t \in Due
        PROVE  Searched(t)' \/ Going(t)' \/ t \in starts' \/ ToCome(t)'
    <3>1. Searched(t) \/ Going(t) \/ ToCome(t)
      BY <1>1, <2>3 DEF Inv, StillDue
    <3>2. ASSUME ToCome(t) PROVE t \in starts' \/ ToCome(t)'
      <4>1. PICK i \in DOMAIN pieces : t \in CollectStartTimes(pieces[i].range, pieces[i].ontrip)
        BY <3>2 DEF ToCome
      <4>2. CASE i = 1
        BY <1>1, <1>3, <4>1, <4>2
      <4>3. CASE i # 1
        <5> HIDE DEF S
        <5>1. i - 1 \in 1..Len(Tail(pieces)) /\ (i - 1) + 1 = i
          BY <1>3, <4>3
        <5>2. Tail(pieces)[i - 1] = pieces[i]
          BY <1>3, <5>1
        <5>3. PICK n, r, o : n = i - 1 /\ r = pieces[i].range /\ o = pieces[i].ontrip
          OBVIOUS
        <5>4. (n \in DOMAIN pieces /\ pieces[n].range = r /\ pieces[n].ontrip = o)'
          BY <1>1, <1>3, <5>1, <5>2, <5>3
        <5>5. t \in CollectStartTimes(r, o)'
          BY <1>1, <4>1, <5>3, SameQuery
        <5>6. t \in CollectStartTimes(pieces[n].range, pieces[n].ontrip)'
          BY <5>4, <5>5
        <5> QED BY <5>4, <5>6 DEF ToCome
      <4> QED BY <4>2, <4>3
    <3> QED BY <1>1, <3>1, <3>2, SameResults
  <2> QED BY <1>1, <2>1, <2>2, <2>3 DEF StillDue
<1>6. NoneBetter' /\ \A j \in results' : Found(j)'
  BY <1>1, SameResults DEF Inv
<1> QED BY <1>1, <1>2, <1>4, <1>5, <1>6 DEF Inv

LEMMA PieceDoneStep ==
  ASSUME Inv, Grounded, PieceDone
  PROVE  Inv'
<1>1. /\ phase = "search" /\ labels = {} /\ starts = {} /\ ~query.ontrip /\ pieces = <<>>
      /\ phase' = "check" /\ interval' = extended
      /\ UNCHANGED <<tt, query, ends>> /\ UNCHANGED <<extended, pieces>>
      /\ UNCHANGED <<starts, now, labels, results>>
  BY DEF PieceDone, SearchDone, searchVars
<1>2. Given'
  BY <1>1, GivenStays DEF Inv
<1>3. Typed'
  BY <1>1, SameQuery DEF Inv, Typed
<1>4. StillDue'
  <2>1. Due' = Due
    BY <1>1 DEF Due, Must, SetsOut
  <2>2. WalksInsideDay' => WalksInsideDay
    BY <1>1, SameQuery
  <2>3. ASSUME WalksInsideDay, NEW t \in Due PROVE Searched(t)'
    <3>1. Searched(t) \/ Going(t)
      BY <1>1, <2>3 DEF Inv, StillDue, ToCome
    <3>2. Searched(t)
      BY <1>1, <3>1 DEF Going, Searched
    <3> QED BY <1>1, <3>2, SameResults
  <2> QED BY <1>1, <2>1, <2>2, <2>3 DEF StillDue
<1>5. NoneBetter' /\ \A j \in results' : Found(j)'
  BY <1>1, SameResults DEF Inv
<1> QED BY <1>1, <1>2, <1>3, <1>4, <1>5 DEF Inv

LEMMA ExtendStep ==
  ASSUME Inv, Grounded, Extend
  PROVE  Inv'
<1>1. /\ phase = "check" /\ phase' = "search"
      /\ extended' = Extended /\ pieces' = Pieces(Extended)
      /\ UNCHANGED <<tt, query, ends>> /\ UNCHANGED interval
      /\ UNCHANGED <<starts, now, labels, results>>
  BY DEF Extend, searchVars
<1>2. Given'
  BY <1>1, GivenStays DEF Inv
<1>3. interval \in InRange /\ extended = interval /\ ~query.ontrip /\ labels = {}
  BY <1>1 DEF Inv, Typed, StillDue
<1>4. Typed'
  BY <1>1, <1>3, ExtendedIs, SameQuery DEF Inv, Typed
<1>5. StillDue'
  <2>1. Due = Must(interval)
    BY <1>3 DEF Due
  <2>2. WalksInsideDay' => WalksInsideDay
    BY <1>1, SameQuery
  <2>3. ASSUME WalksInsideDay, NEW t \in Must(Extended)
        PROVE  Searched(t)' \/ ToCome(t)'
    <3>1. \/ t \in Must(interval)
          \/ \E i \in DOMAIN Pieces(Extended) :
               t \in CollectStartTimes(Pieces(Extended)[i].range, Pieces(Extended)[i].ontrip)
      BY <1>3, <2>3, ExtendedIs
    <3>2. CASE t \in Must(interval)
      <4>1. Searched(t)
        BY <1>1, <2>1, <2>3, <3>2 DEF Inv, StillDue
      <4> QED BY <1>1, <4>1, SameResults
    <3>3. CASE \E i \in DOMAIN Pieces(Extended) :
                 t \in CollectStartTimes(Pieces(Extended)[i].range, Pieces(Extended)[i].ontrip)
      <4>1. PICK p : p = Pieces(Extended)
        OBVIOUS
      <4>2. PICK i \in DOMAIN p : t \in CollectStartTimes(p[i].range, p[i].ontrip)
        BY <3>3, <4>1
      <4>3. t \in CollectStartTimes(p[i].range, p[i].ontrip)'
        BY <1>1, <4>2, SameQuery
      <4>4. p = pieces'
        BY <1>1, <4>1
      <4>5. (i \in DOMAIN pieces /\ pieces[i].range = p[i].range /\ pieces[i].ontrip = p[i].ontrip)'
        BY <4>2, <4>4
      <4>6. t \in CollectStartTimes(pieces[i].range, pieces[i].ontrip)'
        BY <4>3, <4>5
      <4> QED BY <4>5, <4>6 DEF ToCome
    <3> QED BY <3>1, <3>2, <3>3
  <2>4. Due' = Must(Extended)
    BY <1>1, <1>3 DEF Due, Must, SetsOut
  <2> QED BY <1>1, <1>3, <2>2, <2>3, <2>4 DEF StillDue
<1>6. NoneBetter' /\ \A j \in results' : Found(j)'
  BY <1>1, SameResults DEF Inv
<1> QED BY <1>1, <1>2, <1>4, <1>5, <1>6 DEF Inv

-----------------------------------------------------------------------------
(* When the loop asks whether the journeys suffice.                        *)
Candidate(range, t, d, k) ==
  /\ t \in range.begin..(range.end + 1) /\ d \in query.dests /\ k \in Round
  /\ <<d, k>> \in LabelsOf(t) /\ ends[t][d][k] - t <= MaxTravel

LEMMA CandidatesAre ==
  ASSUME NEW range
  PROVE  /\ \A t, d, k : Candidate(range, t, d, k) => Cand(t, <<d, k>>) \in Candidates(range)
         /\ \A c \in Candidates(range) :
              \E t, d, k : Candidate(range, t, d, k) /\ c = Cand(t, <<d, k>>)
<1> DEFINE T == range.begin..(range.end + 1)
           Y == {y \in T \X query.dests \X Round :
                   /\ <<y[2], y[3]>> \in LabelsOf(y[1])
                   /\ ends[y[1]][y[2]][y[3]] - y[1] <= MaxTravel}
<1>1. Candidates(range) = {[begin |-> x[1], end |-> ends[x[1]][x[2]][x[3]], transfers |-> x[3]]
                             : x \in Y}
  BY DEF Candidates
<1>2. ASSUME NEW x \in Y
      PROVE  /\ Candidate(range, x[1], x[2], x[3])
             /\ [begin |-> x[1], end |-> ends[x[1]][x[2]][x[3]], transfers |-> x[3]]
                  = Cand(x[1], <<x[2], x[3]>>)
  BY DEF Candidate, Cand
<1>3. ASSUME NEW t, NEW d, NEW k, Candidate(range, t, d, k)
      PROVE  Cand(t, <<d, k>>) \in Candidates(range)
  <2>1. <<t, d, k>> \in Y
    BY <1>3 DEF Candidate
  <2>2. Cand(t, <<d, k>>) = [begin |-> t, end |-> ends[t][d][k], transfers |-> k]
    BY DEF Cand
  <2> HIDE DEF Y
  <2>3. \A x \in Y : [begin |-> x[1], end |-> ends[x[1]][x[2]][x[3]], transfers |-> x[3]]
                       \in Candidates(range)
    BY <1>1
  <2> QED BY <2>1, <2>2, <2>3
<1>4. ASSUME NEW c \in Candidates(range)
      PROVE  \E t, d, k : Candidate(range, t, d, k) /\ c = Cand(t, <<d, k>>)
  <2>1. PICK x \in Y : c = [begin |-> x[1], end |-> ends[x[1]][x[2]][x[3]], transfers |-> x[3]]
    BY <1>1
  <2> QED BY <1>2, <2>1
<1> QED BY <1>3, <1>4

LEMMA CandidateIs ==
  ASSUME Grounded, NEW range \in InRange, NEW t, NEW d, NEW k, Candidate(range, t, d, k)
  PROVE  /\ t \in Times(tt) /\ t \in Nat /\ range.begin <= t /\ t <= range.end + 1
         /\ range.begin \in Nat /\ range.end \in Nat
         /\ d \in query.dests /\ k \in Round /\ k \in Nat /\ <<d, k>> \in LabelsOf(t)
         /\ ends[t][d][k] \in Nat /\ ends[t][d][k] < Never /\ t <= ends[t][d][k]
         /\ ends[t][d][k] - t <= MaxTravel /\ ends[t][d][k] <= t + MaxTravel
         /\ (query.ontrip \/ k # 0 \/ d \notin query.sources)
         /\ Cand(t, <<d, k>>) = [begin |-> t, end |-> ends[t][d][k], transfers |-> k]
         /\ Cand(t, <<d, k>>) \in Journey
         /\ Cand(t, <<d, k>>) \in Candidates(range)
<1>1. range.begin \in Nat /\ range.end \in Nat /\ range.end <= ScheduleEnd /\ ScheduleEnd \in Nat
  BY NeverIs DEF InRange
<1>2. t \in Nat /\ range.begin <= t /\ t <= range.end + 1
  BY <1>1 DEF Candidate
<1>3. t \in Times(tt)
  <2>1. Horizon \in Nat /\ ScheduleEnd + 1 <= Horizon /\ Times(tt) = 0..Horizon
    BY DEF Grounded
  <2> HIDE DEF Horizon
  <2> QED BY <1>1, <1>2, <2>1
<1>4. d \in query.dests /\ k \in Round /\ <<d, k>> \in LabelsOf(t) /\ ends[t][d][k] - t <= MaxTravel
  BY DEF Candidate
<1> DEFINE m == <<d, k>>
<1>5. /\ ends[t][m[1]][m[2]] \in Nat /\ ends[t][m[1]][m[2]] < Never /\ t <= ends[t][m[1]][m[2]]
      /\ (query.ontrip \/ m[2] # 0 \/ m[1] \notin query.sources) /\ Cand(t, m) \in Journey
  BY <1>3, <1>4, LabelIs
<1>6. Cand(t, m) = [begin |-> t, end |-> ends[t][d][k], transfers |-> k]
  BY DEF Cand
<1>7. ends[t][d][k] <= t + MaxTravel
  BY <1>2, <1>4, <1>5, NeverIs
<1>8. k \in Nat
  BY <1>4, NeverIs
<1>9. Cand(t, m) \in Candidates(range)
  BY CandidatesAre
<1> QED BY <1>1, <1>2, <1>3, <1>4, <1>5, <1>6, <1>7, <1>8, <1>9

(* The state of the loop when it asks.                                     *)
Asking ==
  /\ Grounded /\ WalksInsideDay /\ ~query.ontrip
  /\ interval \in InRange /\ results \subseteq Journey
  /\ NoneBetter
  /\ \A j \in results : Found(j) /\ (j.begin \in Departures \/ Searched(j.begin))
  /\ \A t \in Must(interval) : Searched(t)

(* Every journey with rides is beaten, searched for or not: if nobody sets *)
(* out at its minute for a train that leaves, one sets out later.          *)
LEMMA RidesCovered ==
  ASSUME Asking, NEW t, NEW d, NEW k, Candidate(interval, t, d, k), k # 0
  PROVE  Covered(Cand(t, <<d, k>>))
<1> DEFINE Open(u) == Candidate(interval, u, d, k) /\ ~Covered(Cand(u, <<d, k>>))
           bad == {n \in Nat : \E u \in Nat : n = interval.end + 1 - u /\ Open(u)}
<1>1. Grounded /\ ~query.ontrip /\ interval \in InRange /\ interval.end \in Nat
      /\ interval.begin \in Nat /\ results \subseteq Journey
  BY NeverIs DEF Asking, InRange
<1>2. ASSUME NEW u, Open(u) PROVE u \in Nat /\ interval.end + 1 - u \in bad
  <2>1. u \in Nat /\ u <= interval.end + 1
    BY <1>1, <1>2, CandidateIs
  <2> QED BY <1>1, <1>2, <2>1
<1>3. SUFFICES ASSUME bad # {} PROVE FALSE
  BY <1>2
<1>4. PICK n \in bad : \A m \in bad : n <= m
  BY <1>3, Least
<1>5. PICK u \in Nat : n = interval.end + 1 - u /\ Open(u)
  BY <1>4
<1>6. /\ u \in Times(tt) /\ interval.begin <= u /\ u <= interval.end + 1
      /\ d \in query.dests /\ k \in Round /\ <<d, k>> \in LabelsOf(u)
      /\ ends[u][d][k] \in Nat /\ ends[u][d][k] < Never /\ ends[u][d][k] <= u + MaxTravel
      /\ Cand(u, <<d, k>>) = [begin |-> u, end |-> ends[u][d][k], transfers |-> k]
      /\ Cand(u, <<d, k>>) \in Journey
  BY <1>1, <1>5, CandidateIs
<1>7. u \notin Must(interval)
  <2> SUFFICES ASSUME Searched(u) PROVE FALSE
    BY DEF Asking
  <2>1. Short(u, <<d, k>>)
    BY <1>5 DEF Short, Candidate
  <2> QED BY <1>5, <1>6, <2>1 DEF Searched
<1>8. u <= interval.end /\ ~SetsOut(tt, query.sources, u)
  BY <1>1, <1>6, <1>7 DEF Must
<1> DEFINE v == u + 1
<1>9. v \in Times(tt) /\ v \in interval.begin..(interval.end + 1) /\ v \in Nat
  <2>1. v \in interval.begin..(interval.end + 1) /\ v \in Nat
    BY <1>1, <1>6, <1>8
  <2>2. interval.end <= ScheduleEnd /\ ScheduleEnd \in Nat
    BY <1>1, NeverIs DEF InRange
  <2>3. Horizon \in Nat /\ ScheduleEnd + 1 <= Horizon /\ Times(tt) = 0..Horizon
    BY <1>1 DEF Grounded
  <2> HIDE DEF Horizon
  <2> QED BY <1>1, <1>8, <2>1, <2>2, <2>3
<1>10. ends[v][d][k] <= ends[u][d][k] /\ ends[v][d][k] \in Nat
  BY <1>1, <1>6, <1>8, <1>9, LaterFinds, EndIs
<1>11. Candidate(interval, v, d, k)
  <2>1. ends[v][d][k] < Never /\ ends[v][d][k] - v <= MaxTravel
    BY <1>6, <1>9, <1>10, NeverIs
  <2>2. <<d, k>> \in LabelsOf(v)
    BY <1>6, <2>1 DEF LabelsOf, Edgeless
  <2> QED BY <1>6, <1>9, <2>1, <2>2 DEF Candidate
<1>12. Covered(Cand(v, <<d, k>>))
  <2> SUFFICES ASSUME Open(v) PROVE FALSE
    BY <1>11
  <2>1. interval.end + 1 - v \in bad
    BY <1>2
  <2>2. n <= interval.end + 1 - v
    BY <1>4, <2>1
  <2> QED BY <1>1, <1>5, <2>2
<1>13. PICK r \in results : Better(r, Cand(v, <<d, k>>))
  BY <1>12 DEF Covered
<1>14. /\ Cand(v, <<d, k>>) = [begin |-> v, end |-> ends[v][d][k], transfers |-> k]
       /\ Cand(v, <<d, k>>) \in Journey
  BY <1>1, <1>11, CandidateIs
<1>15. Better(Cand(v, <<d, k>>), Cand(u, <<d, k>>))
  <2>1. u <= v
    BY <1>6
  <2>2. k <= k
    BY <1>6, NeverIs
  <2> HIDE DEF v
  <2> QED BY <1>1, <1>6, <1>10, <1>14, <2>1, <2>2, BetterIs
<1>16. Better(r, Cand(u, <<d, k>>))
  BY <1>1, <1>6, <1>13, <1>14, <1>15, BetterOrders
<1> QED BY <1>5, <1>16 DEF Covered

(* What is kept of the interval is among the best.                         *)
LEMMA KeptIsBest ==
  ASSUME Asking, NEW j \in results, InInterval(j), j.transfers > 0
  PROVE  j \in ParetoFront(Candidates(interval))
<1>1. Grounded /\ ~query.ontrip /\ interval \in InRange /\ results \subseteq Journey /\ NoneBetter
  BY DEF Asking
<1> DEFINE b == j.begin
           k == j.transfers
<1>2. j \in Journey /\ b \in Nat /\ j.end \in Nat /\ k \in Round /\ k \in Nat /\ k # 0
  <2>1. j \in Journey
    BY <1>1
  <2>2. b \in Nat /\ j.end \in Nat /\ k \in Round
    BY <2>1 DEF Journey
  <2>3. k \in Nat
    BY <2>2, NeverIs
  <2> QED BY <2>1, <2>2, <2>3
<1>3. PICK d \in query.dests : <<d, k>> \in LabelsOf(b) /\ ends[b][d][k] <= j.end
  BY DEF Asking, Found
<1>4. b \in Times(tt) /\ j.end - b <= MaxTravel
  BY <1>1 DEF Asking, Found
<1>5. ends[b][d][k] \in Nat
  BY <1>1, <1>2, <1>4, EndIs
<1>6. interval.begin \in Nat /\ interval.end \in Nat /\ b \in interval.begin..interval.end
      /\ b \in interval.begin..(interval.end + 1)
  BY <1>1, <1>2, NeverIs DEF InRange, InInterval
<1>7. Candidate(interval, b, d, k)
  <2>1. ends[b][d][k] - b <= MaxTravel
    BY <1>2, <1>3, <1>4, <1>5, NeverIs
  <2> QED BY <1>2, <1>3, <1>6, <2>1 DEF Candidate
<1> DEFINE c == Cand(b, <<d, k>>)
<1>8. /\ c = [begin |-> b, end |-> ends[b][d][k], transfers |-> k] /\ c \in Journey
      /\ c \in Candidates(interval)
  BY <1>1, <1>7, CandidateIs
<1>9. Better(c, j)
  <2>1. c.begin = b /\ c.end = ends[b][d][k] /\ c.transfers = k
    BY <1>8
  <2>2. b <= b /\ k <= k
    BY <1>2
  <2> HIDE DEF c
  <2> QED BY <1>1, <1>2, <1>3, <1>8, <2>1, <2>2, BetterIs
<1>10. ASSUME NEW x \in Journey, Better(x, j), Covered(x) PROVE Better(j, x)
  <2>1. PICK r \in results : Better(r, x)
    BY <1>10 DEF Covered
  <2>2. Better(r, j)
    BY <1>1, <1>2, <1>10, <2>1, BetterOrders
  <2> QED BY <1>1, <2>1, <2>2 DEF NoneBetter
<1>11. ASSUME NEW x \in Journey, Better(x, j), Better(j, x) PROVE x = j
  <2>1. x.begin = b /\ x.end = j.end /\ x.transfers = k
    <3>1. x.begin \in Nat /\ x.end \in Nat /\ x.transfers \in Nat
      BY <1>1, BetterIs
    <3>2. b <= x.begin /\ x.end <= j.end /\ x.transfers <= k
      BY <1>1, <1>2, <1>11, BetterIs
    <3>3. x.begin <= b /\ j.end <= x.end /\ k <= x.transfers
      BY <1>1, <1>2, <1>11, BetterIs
    <3> QED BY <1>2, <3>1, <3>2, <3>3
  <2> QED BY <1>2, <2>1 DEF Journey
<1>12. j \in Candidates(interval)
  <2>1. Covered(c)
    BY <1>2, <1>7, RidesCovered
  <2> HIDE DEF c
  <2>2. c = j
    BY <1>8, <1>9, <1>10, <1>11, <2>1
  <2> QED BY <1>8, <2>2
<1>13. ASSUME NEW x \in Candidates(interval), Dominates(x, j) PROVE x = j
  <2>1. PICK t, z, m : Candidate(interval, t, z, m) /\ x = Cand(t, <<z, m>>)
    BY CandidatesAre
  <2>2. /\ t \in Times(tt) /\ t \in Nat /\ z \in query.dests /\ m \in Round /\ m \in Nat
        /\ ends[t][z][m] \in Nat /\ ends[t][z][m] < Never /\ t <= ends[t][z][m]
        /\ ends[t][z][m] - t <= MaxTravel /\ (query.ontrip \/ m # 0 \/ z \notin query.sources)
        /\ x = [begin |-> t, end |-> ends[t][z][m], transfers |-> m] /\ x \in Journey
    BY <1>1, <2>1, CandidateIs
  <2>3. Better(x, j)
    BY <1>1, <1>13 DEF Better
  <2>4. b <= t /\ ends[t][z][m] <= j.end /\ m <= k
    <3>1. x.begin = t /\ x.end = ends[t][z][m] /\ x.transfers = m
      BY <2>2
    <3> QED BY <1>1, <1>2, <2>2, <2>3, <3>1, BetterIs
  <2>5. CASE m # 0
    <3>1. Covered(x)
      BY <2>1, <2>5, RidesCovered
    <3> QED BY <1>10, <1>11, <2>2, <2>3, <3>1
  <2>6. CASE m = 0
    <3>1. Searched(b)
      <4>1. CASE b \in Departures
        <5>1. SetsOut(tt, query.sources, b)
          BY <1>1, <4>1, DepartureIs
        <5>2. b \in Must(interval)
          BY <1>6, <5>1 DEF Must
        <5> QED BY <5>2 DEF Asking
      <4>2. CASE Searched(b)
        BY <4>2
      <4> QED BY <4>1, <4>2 DEF Asking
    <3>2. ends[b][z][0] = ends[t][z][0] - (t - b)
      BY <1>1, <1>4, <2>2, <2>4, <2>6, WalkShifts
    <3>3. ends[b][z][0] \in Nat /\ 0 \in Round
      BY <1>1, <1>4, <2>2, EndIs, NeverIs
    <3>4. ends[b][z][0] <= ends[t][z][0] /\ ends[b][z][0] < Never
          /\ ends[b][z][0] - b <= MaxTravel
      BY <1>2, <2>2, <2>4, <2>6, <3>2, <3>3, NeverIs
    <3>5. Candidate(interval, b, z, 0)
      <4>1. <<z, 0>> \in LabelsOf(b)
        BY <2>2, <2>6, <3>3, <3>4 DEF LabelsOf, Edgeless
      <4> QED BY <1>6, <2>2, <3>3, <3>4, <4>1 DEF Candidate
    <3> DEFINE y == Cand(b, <<z, 0>>)
    <3>6. y = [begin |-> b, end |-> ends[b][z][0], transfers |-> 0] /\ y \in Journey
          /\ <<z, 0>> \in LabelsOf(b)
      BY <1>1, <3>5, CandidateIs
    <3>7. Covered(y)
      <4>1. Short(b, <<z, 0>>)
        BY <3>4 DEF Short
      <4> QED BY <3>1, <3>6, <4>1 DEF Searched
    <3>8. y.begin = b /\ y.end = ends[b][z][0] /\ y.transfers = 0
      BY <3>6
    <3> HIDE DEF y
    <3>9. Better(y, j)
      <4>1. ends[b][z][0] <= j.end /\ 0 <= k /\ b <= b
        BY <1>2, <2>2, <2>4, <2>6, <3>3, <3>4
      <4> QED BY <1>1, <1>2, <3>6, <3>8, <4>1, BetterIs
    <3>10. y = j
      BY <1>10, <1>11, <3>6, <3>7, <3>9
    <3> QED BY <1>2, <3>8, <3>10
  <2> QED BY <2>5, <2>6
<1> QED BY <1>12, <1>13 DEF ParetoFront

(* And the best are kept.                                                  *)
LEMMA BestIsKept ==
  ASSUME Asking, NEW c \in ParetoFront(Candidates(interval)), InInterval(c), c.transfers > 0
  PROVE  c \in results
<1>1. Grounded /\ ~query.ontrip /\ interval \in InRange /\ results \subseteq Journey /\ NoneBetter
  BY DEF Asking
<1>2. c \in Candidates(interval) /\ \A x \in Candidates(interval) : Dominates(x, c) => x = c
  BY DEF ParetoFront
<1>3. PICK t, d, k : Candidate(interval, t, d, k) /\ c = Cand(t, <<d, k>>)
  BY <1>2, CandidatesAre
<1>4. /\ t \in Times(tt) /\ t \in Nat /\ interval.begin <= t
      /\ interval.begin \in Nat /\ interval.end \in Nat
      /\ d \in query.dests /\ k \in Round /\ k \in Nat
      /\ ends[t][d][k] \in Nat /\ ends[t][d][k] <= t + MaxTravel
      /\ c = [begin |-> t, end |-> ends[t][d][k], transfers |-> k] /\ c \in Journey
  BY <1>1, <1>3, CandidateIs
<1> DEFINE e == ends[t][d][k]
<1>5. c.begin = t /\ c.end = e /\ c.transfers = k
  BY <1>4
<1>6. t <= interval.end /\ k # 0
  BY <1>4, <1>5 DEF InInterval
<1>7. PICK r \in results : Better(r, c)
  BY <1>3, <1>6, RidesCovered DEF Covered
<1> DEFINE b == r.begin
           m == r.transfers
<1>8. r \in Journey /\ b \in Nat /\ r.end \in Nat /\ m \in Round /\ m \in Nat
  BY <1>1, NeverIs DEF Journey
<1>9. t <= b /\ r.end <= e /\ m <= k
  BY <1>1, <1>4, <1>5, <1>7, <1>8, BetterIs
<1>10. PICK z \in query.dests : <<z, m>> \in LabelsOf(b) /\ ends[b][z][m] <= r.end
  BY DEF Asking, Found
<1>11. b \in Times(tt) /\ r.end - b <= MaxTravel
  BY <1>1 DEF Asking, Found
<1>12. ends[b][z][m] \in Nat /\ ends[b][z][m] < Never /\ (query.ontrip \/ m # 0 \/ z \notin query.sources)
  BY <1>1, <1>8, <1>10, <1>11, EndIs DEF LabelsOf, Edgeless
<1> HIDE DEF e
<1>13. ASSUME NEW u, Candidate(interval, u, z, m), t <= u, ends[u][z][m] <= e
       PROVE  Cand(u, <<z, m>>) = c
  <2> DEFINE x == Cand(u, <<z, m>>)
  <2>1. x \in Candidates(interval) /\ x = [begin |-> u, end |-> ends[u][z][m], transfers |-> m]
    BY <1>1, <1>13, CandidateIs
  <2>2. x.begin = u /\ x.end = ends[u][z][m] /\ x.transfers = m
    BY <2>1
  <2> HIDE DEF x
  <2>3. u \in Nat /\ ends[u][z][m] \in Nat
    BY <1>1, <1>13, CandidateIs
  <2>4. Dominates(x, c)
    BY <1>4, <1>5, <1>8, <1>9, <1>13, <2>2, <2>3 DEF Dominates, e
  <2> QED BY <1>2, <2>1, <2>4 DEF x
<1>14. CASE b <= interval.end + 1
  <2>1. Candidate(interval, b, z, m)
    <3>1. b \in interval.begin..(interval.end + 1)
      BY <1>4, <1>8, <1>9, <1>14
    <3>2. ends[b][z][m] - b <= MaxTravel
      BY <1>8, <1>10, <1>11, <1>12, NeverIs
    <3> QED BY <1>8, <1>10, <3>1, <3>2 DEF Candidate
  <2>2. ends[b][z][m] <= e
    BY <1>4, <1>8, <1>9, <1>10, <1>12 DEF e
  <2>3. Cand(b, <<z, m>>) = c
    BY <1>9, <1>13, <2>1, <2>2
  <2>4. c = [begin |-> b, end |-> ends[b][z][m], transfers |-> m]
    BY <2>3 DEF Cand
  <2>5. c.begin = b /\ c.end = ends[b][z][m] /\ c.transfers = m
    BY <2>4
  <2>6. r.end = c.end
    BY <1>4, <1>5, <1>8, <1>9, <1>10, <1>12, <2>5 DEF e
  <2>7. r = c
    BY <1>4, <1>8, <2>5, <2>6 DEF Journey
  <2> QED BY <2>7
<1>15. CASE ~(b <= interval.end + 1)
  <2> DEFINE u == interval.end + 1
  <2>1. /\ u \in interval.begin..(interval.end + 1) /\ u \in Nat /\ u <= b /\ t <= u /\ t # u
    BY <1>4, <1>6, <1>8, <1>15
  <2>2. u \in Times(tt)
    <3>1. Must(interval) \subseteq Times(tt)
      BY <1>1, StartsAreTimes
    <3> QED BY <3>1 DEF Must
  <2> HIDE DEF u
  <2>3. ends[u][z][m] \in Nat /\ u <= ends[u][z][m]
    BY <1>1, <1>8, <2>2, EndIs
  <2>4. ends[u][z][m] <= ends[b][z][m] /\ ends[u][z][m] - u <= MaxTravel
    <3>1. CASE m = 0
      <4>1. ends[u][z][0] = ends[b][z][0] - (b - u)
        BY <1>1, <1>11, <1>12, <2>1, <2>2, <3>1, WalkShifts
      <4> QED BY <1>8, <1>10, <1>11, <1>12, <2>1, <2>3, <3>1, <4>1, NeverIs
    <3>2. CASE m # 0
      <4>1. ends[b][z][m] <= u + MaxTravel
        BY <1>4, <1>8, <1>9, <1>10, <1>12, <2>1, NeverIs DEF e
      <4>2. ends[u][z][m] <= ends[b][z][m]
        BY <1>1, <1>8, <1>11, <1>12, <2>1, <2>2, <3>2, <4>1, EarlierFinds
      <4> QED BY <1>12, <2>1, <2>3, <4>1, <4>2, NeverIs
    <3> QED BY <3>1, <3>2
  <2>5. Candidate(interval, u, z, m)
    <3>1. ends[u][z][m] < Never
      BY <1>12, <2>3, <2>4, NeverIs
    <3>2. <<z, m>> \in LabelsOf(u)
      BY <1>8, <1>12, <3>1 DEF LabelsOf, Edgeless
    <3> QED BY <1>8, <2>1, <2>4, <3>2 DEF Candidate
  <2>6. ends[u][z][m] <= e
    BY <1>4, <1>8, <1>9, <1>10, <1>12, <2>3, <2>4 DEF e
  <2>7. Cand(u, <<z, m>>) = c
    BY <1>13, <2>1, <2>5, <2>6
  <2>8. c.begin = u
    BY <2>7 DEF Cand
  <2> QED BY <1>5, <2>1, <2>8
<1> QED BY <1>14, <1>15

LEMMA BestAtCheck ==
  ASSUME Inv, Grounded, phase = "check"
  PROVE  BestOfInterval
<1> SUFFICES ASSUME ~query.ontrip, WalksInsideDay
             PROVE  {j \in results : InInterval(j) /\ j.transfers > 0}
                      = {c \in ParetoFront(Candidates(interval)) :
                           InInterval(c) /\ c.transfers > 0}
  BY DEF BestOfInterval
<1>1. /\ interval \in InRange /\ extended = interval /\ labels = {} /\ results \subseteq Journey
      /\ NoneBetter /\ \A j \in results : Found(j)
  BY DEF Inv, Typed, StillDue, Journey
<1>2. \A t \in Must(interval) : Searched(t)
  BY <1>1 DEF Inv, StillDue, Due
<1>3. \A j \in results : j.begin \in Departures \/ Searched(j.begin)
  BY <1>1 DEF Found, Going, Searched
<1>4. Asking
  BY <1>1, <1>2, <1>3 DEF Asking
<1> QED BY <1>4, KeptIsBest, BestIsKept

LEMMA FinishStep ==
  ASSUME Inv, Grounded, Finish
  PROVE  Inv'
<1>1. /\ phase = "check" /\ phase' = "done"
      /\ results' = {j \in results : InInterval(j)}
      /\ UNCHANGED <<tt, query, ends>> /\ UNCHANGED <<interval, extended, pieces>>
      /\ UNCHANGED <<starts, now, labels>>
  BY DEF Finish, loopVars, searchVars
<1>2. Given'
  BY <1>1, GivenStays DEF Inv
<1>3. ~query.ontrip /\ labels = {} /\ starts = {} /\ pieces = <<>>
  BY <1>1 DEF Inv, StillDue
<1>4. Typed'
  <2>1. results' \subseteq results
    BY <1>1
  <2> QED BY <1>1, <2>1, SameQuery DEF Inv, Typed
<1>5. StillDue'
  BY <1>1, <1>3 DEF StillDue
<1>6. BestOfInterval'
  <2>1. BestOfInterval
    BY <1>1, BestAtCheck
  <2>2. {j \in results' : InInterval(j)' /\ j.transfers > 0}
          = {j \in results : InInterval(j) /\ j.transfers > 0}
    BY <1>1 DEF InInterval
  <2>3. {c \in ParetoFront(Candidates(interval)) : InInterval(c) /\ c.transfers > 0}'
          = {c \in ParetoFront(Candidates(interval)) : InInterval(c) /\ c.transfers > 0}
    BY <1>1 DEF InInterval, ParetoFront, Candidates, LabelsOf, Edgeless, Dominates
  <2>4. WalksInsideDay' => WalksInsideDay
    BY <1>1, SameQuery
  <2> QED BY <1>1, <2>1, <2>2, <2>3, <2>4 DEF BestOfInterval
<1> QED BY <1>1, <1>2, <1>3, <1>4, <1>5, <1>6 DEF Inv

LEMMA InitInv ==
  ASSUME Init
  PROVE  Inv
<1>1. Given
  BY DEF Init, Given
<1>2. Grounded
  BY <1>1, GivenIsGrounded
<1>3. interval \in InRange /\ extended = interval
  <2>1. query.begin \in Int /\ query.end \in Int
    BY <1>2 DEF Grounded
  <2>2. MapToInterval(query.begin) \in ScheduleBegin..ScheduleEnd
        /\ MapToInterval(query.end) \in ScheduleBegin..ScheduleEnd
    BY <2>1, MapIs
  <2> QED BY <2>2 DEF Init, Interval, InRange
<1>4. 0 \in Times(tt)
  <2>1. Horizon \in Nat /\ Times(tt) = 0..Horizon
    BY <1>2 DEF Grounded
  <2> HIDE DEF Horizon
  <2> QED BY <2>1
<1>5. /\ phase = "new" /\ pieces = <<>> /\ starts = {} /\ now = 0 /\ labels = {} /\ results = {}
  BY DEF Init
<1>6. Typed
  <2>1. pieces \in Seq([range : InRange, ontrip : BOOLEAN])
    BY <1>5, EmptySeq
  <2> QED BY <1>3, <1>4, <1>5, <2>1 DEF Typed
<1>7. StillDue
  BY <1>3, <1>5 DEF StillDue
<1> QED BY <1>1, <1>5, <1>6, <1>7 DEF Inv, NoneBetter

-----------------------------------------------------------------------------
(* The inductive invariant: what is asked for is searched or still to      *)
(* search, and each search leaves a journey as good as any it has found.   *)
THEOREM PretripInvariant == Spec => []Inv
<1>1. Init => Inv
  BY InitInv
<1>2. Inv /\ [Next]_vars => Inv'
  <2> SUFFICES ASSUME Inv, [Next]_vars PROVE Inv'
    OBVIOUS
  <2>1. Grounded
    BY GivenIsGrounded DEF Inv
  <2>2. CASE Ontrip
    BY <2>1, <2>2, OntripStep
  <2>3. CASE FirstPiece
    BY <2>1, <2>3, FirstPieceStep
  <2>4. CASE SearchFrom
    BY <2>1, <2>4, SearchFromStep
  <2>5. CASE Collect
    BY <2>1, <2>5, CollectStep
  <2>12. CASE Crash
    BY <2>1, <2>12, CrashStep
  <2>6. CASE OntripDone
    BY <2>1, <2>6, OntripDoneStep
  <2>7. CASE NextPiece
    BY <2>1, <2>7, NextPieceStep
  <2>8. CASE PieceDone
    BY <2>1, <2>8, PieceDoneStep
  <2>9. CASE Extend
    BY <2>1, <2>9, ExtendStep
  <2>10. CASE Finish
    BY <2>1, <2>10, FinishStep
  <2>11. CASE UNCHANGED vars
    <3>1. /\ UNCHANGED <<tt, query, ends>> /\ UNCHANGED <<phase, interval, extended, pieces>>
          /\ UNCHANGED <<starts, now, labels, results>>
      BY <2>11 DEF vars, loopVars, searchVars
    <3>2. Given'
      BY <3>1, GivenStays DEF Inv
    <3>3. Typed'
      BY <3>1, SameQuery DEF Inv, Typed
    <3>4. StillDue'
      <4>1. Due' = Due
        BY <3>1 DEF Due, Must, SetsOut
      <4>2. \A t : ToCome(t) => ToCome(t)'
        BY <3>1, SamePieces
      <4>3. labels # {} => Going(now)'
        BY <3>1 DEF Inv, StillDue, Going, Covered, Cand, Short, LabelsOf, Edgeless, Better,
                    OntripDominates, Dominates
      <4> QED BY <3>1, <4>1, <4>2, <4>3, SameQuery, SameResults DEF Inv, StillDue
    <3>5. /\ NoneBetter => NoneBetter'
          /\ \A j : Found(j) => Found(j)'
      BY <3>1, SameResults
    <3>6. BestOfInterval => BestOfInterval'
      <4>1. {j \in results : InInterval(j) /\ j.transfers > 0}'
              = {j \in results : InInterval(j) /\ j.transfers > 0}
        BY <3>1 DEF InInterval
      <4>2. {c \in ParetoFront(Candidates(interval)) : InInterval(c) /\ c.transfers > 0}'
              = {c \in ParetoFront(Candidates(interval)) : InInterval(c) /\ c.transfers > 0}
        BY <3>1 DEF InInterval, ParetoFront, Candidates, LabelsOf, Edgeless, Dominates
      <4> QED BY <3>1, <4>1, <4>2, SameQuery DEF BestOfInterval
    <3> QED BY <3>1, <3>2, <3>3, <3>4, <3>5, <3>6 DEF Inv
  <2> QED BY <2>2, <2>3, <2>4, <2>5, <2>6, <2>7, <2>8, <2>9, <2>10, <2>11, <2>12 DEF Next
<1> QED BY <1>1, <1>2, PTL DEF Spec

(* An interval query returns the pareto set of all journeys with rides     *)
(* that begin in its interval, however often it was extended; so it does   *)
(* each time it asks whether there are enough.                             *)
THEOREM BestOfIntervalHolds == Spec => []BestOfInterval
<1>1. Inv => BestOfInterval
  <2> SUFFICES ASSUME Inv PROVE BestOfInterval
    OBVIOUS
  <2>1. Grounded
    BY GivenIsGrounded DEF Inv
  <2>2. CASE phase = "check"
    BY <2>1, <2>2, BestAtCheck
  <2>3. CASE phase = "done"
    BY <2>3 DEF Inv
  <2>4. CASE phase \notin {"check", "done"}
    BY <2>4 DEF BestOfInterval
  <2> QED BY <2>2, <2>3, <2>4
<1> QED BY <1>1, PretripInvariant, PTL

(* An on-trip query returns, for every number of rides, a journey that     *)
(* ends as early as any the scan finds, and none that another one beats.   *)
THEOREM BestOntripHolds == Spec => []BestOntrip
<1>1. Inv => BestOntrip
  <2> DEFINE possible == {<<ends[query.begin][l[1]][l[2]], l[2]>> : l \in LabelsOf(query.begin)}
  <2> SUFFICES ASSUME Inv, phase = "done", query.ontrip
               PROVE  /\ \A p \in possible : \E j \in results : j.end <= p[1] /\ j.transfers <= p[2]
                      /\ \A j \in results, p \in possible :
                           p[1] <= j.end /\ p[2] <= j.transfers => p = <<j.end, j.transfers>>
    BY DEF BestOntrip
  <2>1. Grounded
    BY GivenIsGrounded DEF Inv
  <2>2. Searched(query.begin) /\ NoneBetter /\ results \subseteq Journey
    BY DEF Inv, StillDue, Due, Typed, Journey
  <2>3. query.begin \in Times(tt)
    <3>1. query.begin \in Nat /\ query.begin <= ScheduleEnd /\ ScheduleEnd + 1 <= Horizon
          /\ Horizon \in Nat /\ Times(tt) = 0..Horizon /\ ScheduleEnd \in Nat
      BY <2>1, NeverIs DEF Grounded
    <3> HIDE DEF Horizon
    <3> QED BY <3>1
  <2>4. ASSUME NEW p \in possible
        PROVE  \E c \in Journey : c.end = p[1] /\ c.transfers = p[2] /\ Covered(c)
                                  /\ p = <<p[1], p[2]>>
    <3>1. PICK l \in LabelsOf(query.begin) : p = <<ends[query.begin][l[1]][l[2]], l[2]>>
      OBVIOUS
    <3>2. Cand(query.begin, l) \in Journey
      BY <2>1, <2>3, LabelIs
    <3>3. Covered(Cand(query.begin, l))
      BY <2>2 DEF Searched, Short
    <3>4. Cand(query.begin, l).end = p[1] /\ Cand(query.begin, l).transfers = p[2]
      BY <3>1 DEF Cand
    <3> QED BY <3>1, <3>2, <3>3, <3>4
  <2> HIDE DEF possible
  <2>5. ASSUME NEW p \in possible
        PROVE  \E j \in results : j.end <= p[1] /\ j.transfers <= p[2]
    <3>1. PICK c \in Journey : c.end = p[1] /\ c.transfers = p[2] /\ Covered(c)
      BY <2>4
    <3>2. PICK r \in results : Better(r, c)
      BY <3>1 DEF Covered
    <3>3. r.end <= c.end /\ r.transfers <= c.transfers
      BY <2>1, <2>2, <3>2, BetterIs
    <3> QED BY <3>1, <3>3
  <2>6. ASSUME NEW j \in results, NEW p \in possible, p[1] <= j.end, p[2] <= j.transfers
        PROVE  p = <<j.end, j.transfers>>
    <3>1. PICK c \in Journey : c.end = p[1] /\ c.transfers = p[2] /\ Covered(c)
                               /\ p = <<p[1], p[2]>>
      BY <2>4
    <3>2. PICK r \in results : Better(r, c)
      BY <3>1 DEF Covered
    <3>3. j \in Journey /\ r \in Journey
      BY <2>2
    <3>4. Better(c, j)
      BY <2>1, <2>6, <3>1, <3>3, BetterIs
    <3>5. r = j
      BY <2>1, <2>2, <3>2, <3>3, <3>4, BetterOrders DEF NoneBetter
    <3>6. j.end <= c.end /\ j.transfers <= c.transfers
      BY <2>1, <3>2, <3>3, <3>5, BetterIs
    <3>7. /\ j.end \in Nat /\ j.transfers \in Nat /\ c.end \in Nat /\ c.transfers \in Nat
      BY <2>1, <3>3, BetterIs
    <3>8. j.end = c.end /\ j.transfers = c.transfers
      BY <2>6, <3>1, <3>6, <3>7
    <3> QED BY <3>1, <3>8
  <2> QED BY <2>5, <2>6
<1> QED BY <1>1, PretripInvariant, PTL
=============================================================================
