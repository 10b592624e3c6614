------------------------ MODULE RouteLoading_proofs -------------------------
(***************************************************************************)
(* For every set of services: the rows of a route match and the minutes of *)
(* its services are strictly sorted at every event, although a service is  *)
(* compared with two neighbours only; where no service runs past midnight, *)
(* nobody overtakes; and when the graph is built, every trip finds its own *)
(* connection.                                                             *)
(*                                                                         *)
(* What is proved of routes holds for the trains that come out of plans:   *)
(* loading a plan is a behaviour of RouteBuilder on the trains' times,     *)
(* however services are split and their times converted.  And the split    *)
(* keeps the rides: the pieces are the runs of the days, the longest       *)
(* stretches of sections a day runs on without a gap.                      *)
(*                                                                         *)
(* And the trains run as planned: a local time is converted to the first   *)
(* instant the clocks show it, no two days of a service come out alike, so *)
(* that merging those with the same times loses none, and every day of     *)
(* every service has its ride on every section.                            *)
(***************************************************************************)
EXTENDS RouteLoading, FiniteSetTheorems, FunctionTheorems, WellFoundedInduction, TLAPS


(* A row sorted by the minutes of the times t.                             *)
SortedRow(t, row) ==
  \A i, j \in 1..Len(row) :
    i < j => \A e \in Event : t[row[i]][e] % DayLen < t[row[j]][e] % DayLen

RouteRec == [times : Seq(Service), lcons : Seq(Service)]

Inv ==
  /\ times \in Timetables
  /\ next \in 1..NServices + 1
  /\ routes \in Seq(RouteRec)
  /\ \A r \in DOMAIN routes :
       routes[r].times = routes[r].lcons /\ SortedRow(times, routes[r].times)

LEMMA RouteRow ==
  ASSUME routes \in Seq(RouteRec), NEW r \in DOMAIN routes
  PROVE  routes[r].times \in Seq(Service) /\ routes[r].lcons \in Seq(Service)
<1>1. routes[r] \in RouteRec
  OBVIOUS
<1> QED
  BY <1>1 DEF RouteRec

(* Minutes of the day are integers.                                        *)
LEMMA MamInt ==
  ASSUME times \in Timetables, NEW s \in Service, NEW e \in Event
  PROVE  mam(s, e) \in Int
<1>1. times[s][e] \in Nat
  BY DEF Timetables
<1>2. DayLen \in Nat \ {0}
  BY RouteAssumption
<1> QED
  BY <1>1, <1>2 DEF mam

(* Inserting yields a row of services again.                               *)
LEMMA InsertedRow ==
  ASSUME NEW row \in Seq(Service), NEW s \in Service, NEW i \in 1..Len(row) + 1
  PROVE  /\ Inserted(row, s, i) \in Seq(Service)
         /\ Len(Inserted(row, s, i)) = Len(row) + 1
         /\ \A j \in 1..Len(row) + 1 :
              Inserted(row, s, i)[j] = IF j < i THEN row[j] ELSE IF j = i THEN s ELSE row[j - 1]
<1>1. Len(row) \in Nat /\ \A j \in 1..Len(row) : row[j] \in Service
  OBVIOUS
<1>2. \A j \in 1..Len(row) + 1 :
        (IF j < i THEN row[j] ELSE IF j = i THEN s ELSE row[j - 1]) \in Service
  <2> SUFFICES ASSUME NEW j \in 1..Len(row) + 1
               PROVE  (IF j < i THEN row[j] ELSE IF j = i THEN s ELSE row[j - 1]) \in Service
    OBVIOUS
  <2>1. CASE j < i
    <3>1. j \in 1..Len(row)
      BY <1>1, <2>1
    <3> QED
      BY <3>1, <2>1, <1>1
  <2>2. CASE j = i
    BY <2>2
  <2>3. CASE j > i
    <3>1. j - 1 \in 1..Len(row)
      BY <1>1, <2>3
    <3>2. row[j - 1] \in Service
      BY <3>1, <1>1
    <3> QED
      BY <3>2, <2>3
  <2> QED
    BY <2>1, <2>2, <2>3, <1>1
<1>3. Inserted(row, s, i) \in [1..Len(row) + 1 -> Service]
  BY <1>2 DEF Inserted
<1>4. Len(row) + 1 \in Nat
  BY <1>1
<1>5. Inserted(row, s, i) \in Seq(Service) /\ Len(Inserted(row, s, i)) = Len(row) + 1
  BY <1>3, <1>4
<1> QED
  BY <1>5 DEF Inserted

(* A service that overtakes neither neighbour keeps the whole row sorted.  *)
LEMMA InsertedSorted ==
  ASSUME times \in Timetables,
         NEW row \in Seq(Service), SortedRow(times, row),
         NEW s \in Service, NEW i \in 1..Len(row) + 1, ~Overtakes(row, s, i)
  PROVE  SortedRow(times, Inserted(row, s, i))
<1> DEFINE new == Inserted(row, s, i)
<1>1. /\ Len(row) \in Nat
      /\ \A j \in 1..Len(row) : row[j] \in Service
      /\ Len(new) = Len(row) + 1
      /\ \A j \in 1..Len(row) + 1 :
           new[j] = IF j < i THEN row[j] ELSE IF j = i THEN s ELSE row[j - 1]
  <2>1. Len(row) \in Nat /\ \A j \in 1..Len(row) : row[j] \in Service
    OBVIOUS
  <2> QED
    BY <2>1, InsertedRow, Zenon
<1> HIDE DEF new
<1> SUFFICES ASSUME NEW j \in 1..Len(row) + 1, NEW k \in 1..Len(row) + 1, j < k, NEW e \in Event
             PROVE  mam(new[j], e) < mam(new[k], e)
  BY <1>1 DEF SortedRow, mam, new
<1>2. \A t \in Service : mam(t, e) \in Int
  BY MamInt
<1>3. \A a, b \in 1..Len(row) : a < b => mam(row[a], e) < mam(row[b], e)
  BY DEF SortedRow, mam
<1>4. i > 1 => mam(row[i - 1], e) < mam(s, e)
  <2> SUFFICES ASSUME i > 1 PROVE mam(row[i - 1], e) < mam(s, e)
    OBVIOUS
  <2>1. i - 1 \in 1..Len(row)
    BY <1>1
  <2>2. ~(mam(s, e) <= mam(row[i - 1], e))
    BY DEF Overtakes
  <2>3. mam(row[i - 1], e) \in Int /\ mam(s, e) \in Int
    BY <2>1, <1>1, <1>2
  <2> QED
    BY <2>2, <2>3
<1>5. i <= Len(row) => mam(s, e) < mam(row[i], e)
  <2> SUFFICES ASSUME i <= Len(row) PROVE mam(s, e) < mam(row[i], e)
    OBVIOUS
  <2>1. i \in 1..Len(row)
    BY <1>1
  <2>2. ~(mam(s, e) >= mam(row[i], e))
    BY DEF Overtakes
  <2>3. mam(row[i], e) \in Int /\ mam(s, e) \in Int
    BY <2>1, <1>1, <1>2
  <2> QED
    BY <2>2, <2>3
<1>6. CASE k < i
  <2>1. j \in 1..Len(row) /\ k \in 1..Len(row)
    BY <1>1, <1>6
  <2>2. new[j] = row[j] /\ new[k] = row[k]
    BY <1>1, <1>6
  <2> QED
    BY <2>1, <2>2, <1>3
<1>7. CASE k = i
  <2>1. j \in 1..Len(row) /\ i - 1 \in 1..Len(row) /\ j <= i - 1
    BY <1>1, <1>7
  <2>2. new[j] = row[j] /\ new[k] = s
    BY <1>1, <1>7
  <2>3. mam(row[i - 1], e) < mam(s, e)
    BY <1>4, <2>1
  <2>4. /\ mam(row[i - 1], e) \in Int /\ mam(s, e) \in Int /\ mam(row[j], e) \in Int
    BY <2>1, <1>1, <1>2
  <2>5. j = i - 1 \/ mam(row[j], e) < mam(row[i - 1], e)
    BY <2>1, <1>3
  <2> QED
    BY <2>2, <2>3, <2>4, <2>5
<1>8. CASE k > i
  <2>1. k - 1 \in 1..Len(row) /\ i \in 1..Len(row)
    BY <1>1, <1>8
  <2>2. new[k] = row[k - 1]
    BY <1>1, <1>8
  <2>3. mam(s, e) < mam(row[i], e)
    BY <1>5, <2>1
  <2>4. mam(row[k - 1], e) \in Int /\ mam(row[i], e) \in Int /\ mam(s, e) \in Int
    BY <2>1, <1>1, <1>2
  <2>5. k - 1 = i \/ mam(row[i], e) < mam(row[k - 1], e)
    BY <2>1, <1>3, <1>8
  <2>6. mam(s, e) < mam(row[k - 1], e)
    BY <2>3, <2>4, <2>5
  <2>7. CASE j < i
    <3>1. j \in 1..Len(row) /\ j < k - 1
      BY <1>1, <2>7, <1>8, <2>1
    <3>2. new[j] = row[j]
      BY <1>1, <2>7
    <3> QED
      BY <3>1, <3>2, <2>1, <2>2, <1>3
  <2>8. CASE j = i
    <3>1. new[j] = s
      BY <1>1, <2>8
    <3> QED
      BY <3>1, <2>2, <2>6
  <2>9. CASE j > i
    <3>1. j - 1 \in 1..Len(row) /\ j - 1 < k - 1
      BY <1>1, <2>9
    <3>2. new[j] = row[j - 1]
      BY <1>1, <2>9
    <3> QED
      BY <3>1, <3>2, <2>1, <2>2, <1>3
  <2> QED
    BY <2>7, <2>8, <2>9, <1>1
<1> QED
  BY <1>6, <1>7, <1>8, <1>1

THEOREM Initial == Init => Inv
BY RouteAssumption DEF Init, NothingBuilt, Inv, SortedRow

(* The invariant is inductive; only the two ways of adding matter.         *)
LEMMA Step == Inv /\ [Next]_vars => Inv'
<1> SUFFICES ASSUME Inv, [Next]_vars PROVE Inv'
  OBVIOUS
<1>0. /\ times \in Timetables /\ next \in 1..NServices + 1 /\ NServices \in Nat
      /\ routes \in Seq(RouteRec)
      /\ \A r \in DOMAIN routes : routes[r].times = routes[r].lcons /\ SortedRow(times, routes[r].times)
  BY RouteAssumption DEF Inv
<1>1. ASSUME NEW r \in DOMAIN routes, JoinRoute(r) PROVE Inv'
  <2>1. times' = times /\ next' = next + 1 /\ next \in Service
    BY <1>1, <1>0 DEF JoinRoute, Service
  <2>2. PICK i \in 1..Len(routes[r].times) + 1 :
          /\ InsertIdx(routes[r].times, next, i)
          /\ routes' = [routes EXCEPT ![r] =
                          [times |-> Inserted(routes[r].times, next, i),
                           lcons |-> Inserted(routes[r].lcons, next, i)]]
    BY <1>1 DEF JoinRoute
  <2>3. PICK k \in 1..Len(routes[r].times) + 1 :
          InsertIdx(routes[r].times, next, k) /\ ~Overtakes(routes[r].times, next, k)
    BY <1>1 DEF JoinRoute, Fits
  <2> DEFINE row == routes[r].times
  <2>4. row \in Seq(Service) /\ routes[r].lcons = row /\ SortedRow(times, row) /\ Len(row) \in Nat
    BY <1>0, RouteRow
  <2>5. i = k
    <3>1. \A j \in 1..Len(row) : (j < i) = (j < k)
      BY <2>2, <2>3 DEF InsertIdx
    <3>2. ASSUME i < k PROVE FALSE
      <4>1. i \in 1..Len(row) /\ i < k /\ ~(i < i)
        BY <3>2, <2>4
      <4> QED
        BY <3>1, <4>1
    <3>3. ASSUME k < i PROVE FALSE
      <4>1. k \in 1..Len(row) /\ k < i /\ ~(k < k)
        BY <3>3, <2>4
      <4> QED
        BY <3>1, <4>1
    <3> QED
      BY <3>2, <3>3, <2>4
  <2> DEFINE new == Inserted(row, next, i)
  <2>6. new \in Seq(Service)
    BY <2>1, <2>4, InsertedRow
  <2>7. SortedRow(times, new)
    BY <2>1, <2>3, <2>4, <2>5, <1>0, InsertedSorted
  <2>8. routes' = [routes EXCEPT ![r] = [times |-> new, lcons |-> new]]
    BY <2>2, <2>4
  <2> HIDE DEF new, row
  <2>9. [times |-> new, lcons |-> new] \in RouteRec
    BY <2>6 DEF RouteRec
  <2>10. routes' \in Seq(RouteRec) /\ DOMAIN routes' = DOMAIN routes
    BY <2>8, <2>9, <1>0
  <2>11. \A q \in DOMAIN routes' :
           routes'[q] = IF q = r THEN [times |-> new, lcons |-> new] ELSE routes[q]
    BY <2>8, <2>10
  <2>12. \A q \in DOMAIN routes' :
           routes'[q].times = routes'[q].lcons /\ SortedRow(times, routes'[q].times)
    BY <2>7, <2>10, <2>11, <1>0
  <2>13. \A q \in DOMAIN routes' : SortedRow(times', routes'[q].times)
    BY <2>12, <2>1
  <2>14. next' \in 1..NServices + 1
    BY <2>1, <1>0 DEF Service
  <2> QED
    BY <2>1, <2>10, <2>12, <2>13, <2>14, <1>0 DEF Inv
<1>2. CASE OpenRoute
  <2>1. times' = times /\ next' = next + 1 /\ next \in Service
    BY <1>2, <1>0 DEF OpenRoute, Service
  <2> DEFINE rec == [times |-> <<next>>, lcons |-> <<next>>]
  <2>2. routes' = Append(routes, rec)
    BY <1>2 DEF OpenRoute
  <2>3. rec \in RouteRec
    BY <2>1 DEF RouteRec
  <2>4. routes' \in Seq(RouteRec) /\ DOMAIN routes' = 1..Len(routes) + 1
    BY <2>2, <2>3, <1>0
  <2>5. \A q \in DOMAIN routes' : routes'[q] = IF q = Len(routes) + 1 THEN rec ELSE routes[q]
    BY <2>2, <2>4, <1>0
  <2>6. SortedRow(times, rec.times)
    BY DEF SortedRow
  <2>7. \A q \in DOMAIN routes' : q # Len(routes) + 1 => q \in DOMAIN routes
    BY <2>4, <1>0
  <2>8. \A q \in DOMAIN routes' :
          routes'[q].times = routes'[q].lcons /\ SortedRow(times, routes'[q].times)
    BY <2>5, <2>6, <2>7, <1>0
  <2>9. \A q \in DOMAIN routes' : SortedRow(times', routes'[q].times)
    BY <2>8, <2>1
  <2>10. next' \in 1..NServices + 1
    BY <2>1, <1>0 DEF Service
  <2> QED
    BY <2>1, <2>4, <2>8, <2>9, <2>10, <1>0 DEF Inv
<1>3. CASE BuildRoute
  BY <1>3 DEF BuildRoute, Inv
<1>4. CASE UNCHANGED vars
  BY <1>4 DEF vars, Inv
<1> QED
  BY <1>1, <1>2, <1>3, <1>4 DEF Next

LEMMA Invariance == Spec => []Inv
BY Initial, Step, PTL DEF Spec

(* The connections of every edge are strictly sorted by their minutes,     *)
(* what build_graph verifies and get_connection searches by bisection.     *)
THEOREM SortedMinutes == Spec => []MinutesSorted
<1>1. Inv => MinutesSorted
  <2> SUFFICES ASSUME Inv, NEW r \in DOMAIN routes,
                      NEW i \in DOMAIN routes[r].lcons, NEW j \in DOMAIN routes[r].lcons, i < j,
                      NEW e \in Event
               PROVE  mam(routes[r].lcons[i], e) < mam(routes[r].lcons[j], e)
    BY DEF MinutesSorted
  <2>1. routes[r].times = routes[r].lcons /\ SortedRow(times, routes[r].times)
    BY DEF Inv
  <2>2. routes[r].times \in Seq(Service)
    BY RouteRow DEF Inv
  <2> QED
    BY <2>1, <2>2 DEF SortedRow, mam
<1> QED
  BY <1>1, Invariance, PTL

(* Services that stay inside the day keep their order in a route: between  *)
(* them the comparison of minutes is one of times.                         *)
THEOREM DayServicesInOrder == Spec => []DayServicesKeepOrder
<1>1. Inv => DayServicesKeepOrder
  <2> SUFFICES ASSUME Inv, NEW r \in DOMAIN routes,
                      NEW i \in DOMAIN routes[r].lcons, NEW j \in DOMAIN routes[r].lcons, i < j,
                      InsideDay(routes[r].lcons[i]), InsideDay(routes[r].lcons[j]),
                      NEW e \in Event
               PROVE  times[routes[r].lcons[i]][e] < times[routes[r].lcons[j]][e]
    BY DEF DayServicesKeepOrder
  <2>1. routes[r].times = routes[r].lcons /\ SortedRow(times, routes[r].times)
    BY DEF Inv
  <2>2. routes[r].times \in Seq(Service) /\ times \in Timetables
    BY RouteRow DEF Inv
  <2>3. mam(routes[r].lcons[i], e) < mam(routes[r].lcons[j], e)
    BY <2>1, <2>2 DEF SortedRow, mam
  <2>4. ASSUME NEW s \in Service, InsideDay(s) PROVE mam(s, e) = times[s][e]
    <3>1. times[s][e] \in Nat /\ DayLen \in Nat \ {0} /\ times[s][e] < DayLen
      BY <2>2, <2>4, RouteAssumption DEF InsideDay, Timetables
    <3> QED
      BY <3>1 DEF mam
  <2>5. routes[r].lcons[i] \in Service /\ routes[r].lcons[j] \in Service
    BY <2>1, <2>2
  <2> QED
    BY <2>3, <2>4, <2>5
<1> QED
  BY <1>1, Invariance, PTL

-----------------------------------------------------------------------------
(***************************************************************************)
(* Trips find their connections: the services added so far lie in the      *)
(* routes, each in one place, and what BuildRoute has written for a route  *)
(* stays true because routes only grow before the first is built.          *)
(***************************************************************************)
Row(r) == routes[r].lcons

Once(row) == \A i, j \in 1..Len(row) : row[i] = row[j] => i = j

EachOnce ==
  /\ \A r \in DOMAIN routes : Once(Row(r))
  /\ \A r, q \in DOMAIN routes : r # q =>
       \A i \in 1..Len(Row(r)), j \in 1..Len(Row(q)) : Row(r)[i] # Row(q)[j]
  /\ \A r \in DOMAIN routes : \A i \in 1..Len(Row(r)) : Row(r)[i] < next
  /\ \A s \in Service : s < next => \E r \in DOMAIN routes : \E i \in 1..Len(Row(r)) : Row(r)[i] = s

Written ==
  /\ built \in 0..Len(routes)
  /\ built > 0 => next > NServices
  /\ tripRoute \in [Service -> 0..Len(routes)] /\ lconIdx \in [Service -> Nat]
  /\ expanded \in Seq(Seq(Service)) /\ Len(expanded) = built
  /\ \A r \in 1..built : expanded[r] = Row(r)
  /\ \A r \in 1..built : \A i \in 1..Len(Row(r)) :
       tripRoute[Row(r)[i]] = r /\ lconIdx[Row(r)[i]] = i

TripInv == Inv /\ EachOnce /\ Written

(* A new service in a row: nobody is lost or doubled.                      *)
LEMMA InsertedOnce ==
  ASSUME NEW row \in Seq(Service), NEW s \in Service, NEW i \in 1..Len(row) + 1,
         Once(row), \A j \in 1..Len(row) : row[j] # s
  PROVE  /\ Once(Inserted(row, s, i))
         /\ \A j \in 1..Len(row) + 1 :
              Inserted(row, s, i)[j] = s \/ \E k \in 1..Len(row) : Inserted(row, s, i)[j] = row[k]
         /\ \A k \in 1..Len(row) : \E j \in 1..Len(row) + 1 : Inserted(row, s, i)[j] = row[k]
         /\ \E j \in 1..Len(row) + 1 : Inserted(row, s, i)[j] = s
<1> DEFINE new == Inserted(row, s, i)
<1>1. /\ Len(new) = Len(row) + 1 /\ Len(row) \in Nat
      /\ \A j \in 1..Len(row) + 1 :
           new[j] = IF j < i THEN row[j] ELSE IF j = i THEN s ELSE row[j - 1]
  <2>1. Len(row) \in Nat
    OBVIOUS
  <2>2. /\ Len(new) = Len(row) + 1
        /\ \A j \in 1..Len(row) + 1 :
             new[j] = IF j < i THEN row[j] ELSE IF j = i THEN s ELSE row[j - 1]
    BY InsertedRow, Zenon
  <2> QED BY <2>1, <2>2
<1> HIDE DEF new
<1>2. \A j \in 1..Len(row) + 1 :
        /\ j < i => j \in 1..Len(row) /\ new[j] = row[j]
        /\ j = i => new[j] = s
        /\ j > i => j - 1 \in 1..Len(row) /\ new[j] = row[j - 1]
  BY <1>1
<1>3. \A j \in 1..Len(row) + 1 : j = i \/ j < i \/ j > i
  BY <1>1
<1>4. ASSUME NEW j \in 1..Len(row) + 1, NEW k \in 1..Len(row) + 1, new[j] = new[k] PROVE j = k
  <2>1. CASE j = i \/ k = i
    BY <2>1, <1>2, <1>3, <1>4
  <2>2. CASE j < i /\ k < i
    BY <2>2, <1>2, <1>4 DEF Once
  <2>3. CASE j > i /\ k > i
    <3>1. j - 1 = k - 1
      BY <2>3, <1>2, <1>4 DEF Once
    <3> QED BY <3>1, <1>1
  <2>4. CASE (j < i /\ k > i) \/ (k < i /\ j > i)
    <3>1. j = k - 1 \/ k = j - 1
      BY <2>4, <1>2, <1>4 DEF Once
    <3> QED BY <3>1, <2>4, <1>1
  <2> QED BY <2>1, <2>2, <2>3, <2>4, <1>3
<1>5. \A j \in 1..Len(row) + 1 : new[j] = s \/ \E k \in 1..Len(row) : new[j] = row[k]
  BY <1>2, <1>3
<1>6. ASSUME NEW k \in 1..Len(row) PROVE \E j \in 1..Len(row) + 1 : new[j] = row[k]
  <2>1. CASE k < i
    BY <2>1, <1>1, <1>2
  <2>2. CASE ~(k < i)
    <3>1. k + 1 \in 1..Len(row) + 1 /\ k + 1 > i /\ (k + 1) - 1 = k
      BY <2>2, <1>1
    <3>2. new[k + 1] = row[k]
      BY <3>1, <1>2
    <3> QED BY <3>1, <3>2
  <2> QED BY <2>1, <2>2
<1>7. new[i] = s
  BY <1>2
<1>8. Once(new)
  BY <1>1, <1>4 DEF Once
<1> QED BY <1>5, <1>6, <1>7, <1>8 DEF new

LEMMA TripInvInit == Init => TripInv
<1> SUFFICES ASSUME Init PROVE TripInv
  OBVIOUS
<1>1. routes = <<>> /\ next = 1 /\ built = 0 /\ expanded = <<>>
  BY DEF Init, NothingBuilt
<1>2. EachOnce
  BY <1>1 DEF EachOnce, Service
<1>3. Written
  BY <1>1 DEF Init, NothingBuilt, Written
<1> QED BY <1>2, <1>3, Initial DEF TripInv

(* A service that joins a route or opens one gets its place, and as long   *)
(* as services are added nothing has been built.                           *)
LEMMA AddedOnce ==
  ASSUME TripInv, TripInv => Inv', next \in Service, next' = next + 1,
         UNCHANGED <<built, tripRoute, lconIdx, expanded>>,
         NEW r \in DOMAIN routes', DOMAIN routes \subseteq DOMAIN routes',
         DOMAIN routes' = DOMAIN routes \cup {r},
         \A q \in DOMAIN routes : q # r => Row(q)' = Row(q),
         Once(Row(r)'),
         \E j \in 1..Len(Row(r)') : Row(r)'[j] = next,
         \A j \in 1..Len(Row(r)') :
           \/ Row(r)'[j] = next
           \/ r \in DOMAIN routes /\ \E k \in 1..Len(Row(r)) : Row(r)'[j] = Row(r)[k],
         r \in DOMAIN routes =>
           \A k \in 1..Len(Row(r)) : \E j \in 1..Len(Row(r)') : Row(r)'[j] = Row(r)[k]
  PROVE  EachOnce' /\ Written'
<1>1. Inv /\ EachOnce /\ Written
  BY DEF TripInv
<1>2. NServices \in Nat /\ next \in 1..NServices
  BY RouteAssumption DEF Service
<1>3. \A q \in DOMAIN routes : \A i \in 1..Len(Row(q)) : Row(q)[i] < next /\ Row(q)[i] \in Service
  <2>1. \A q \in DOMAIN routes : Row(q) \in Seq(Service)
    BY <1>1, RouteRow DEF Inv, Row
  <2> QED BY <1>1, <2>1 DEF EachOnce
<1>4. \A s \in Service : s < next => s # next /\ s < next + 1
  BY <1>2 DEF Service
<1>5. \A q \in DOMAIN routes' : Once(Row(q)')
  BY <1>1 DEF EachOnce
<1>6. ASSUME NEW p \in DOMAIN routes', NEW q \in DOMAIN routes', p # q,
             NEW i \in 1..Len(Row(p)'), NEW j \in 1..Len(Row(q)')
      PROVE  Row(p)'[i] # Row(q)'[j]
  <2>1. CASE p # r /\ q # r
    BY <2>1, <1>1, <1>6 DEF EachOnce
  <2>2. CASE p = r
    <3>1. q \in DOMAIN routes /\ Row(q)' = Row(q)
      BY <2>2, <1>6
    <3>2. Row(q)[j] # next
      BY <3>1, <1>3, <1>4, <1>6
    <3>3. CASE Row(r)'[i] = next
      BY <3>1, <3>2, <3>3, <2>2
    <3>4. CASE r \in DOMAIN routes /\ \E k \in 1..Len(Row(r)) : Row(r)'[i] = Row(r)[k]
      <4>1. PICK k \in 1..Len(Row(r)) : Row(r)'[i] = Row(r)[k]
        BY <3>4
      <4>2. q \in DOMAIN routes /\ r \in DOMAIN routes /\ r # q /\ j \in 1..Len(Row(q))
        BY <3>1, <3>4, <1>6, <2>2
      <4>3. Row(r)[k] # Row(q)[j]
        BY <4>2, <1>1 DEF EachOnce
      <4> QED BY <4>1, <4>3, <3>1, <2>2
    <3> QED BY <3>3, <3>4, <2>2, <1>6
  <2>3. CASE q = r
    <3>1. p \in DOMAIN routes /\ Row(p)' = Row(p)
      BY <2>3, <1>6
    <3>2. Row(p)[i] # next
      BY <3>1, <1>3, <1>4, <1>6
    <3>3. CASE Row(r)'[j] = next
      BY <3>1, <3>2, <3>3, <2>3
    <3>4. CASE r \in DOMAIN routes /\ \E k \in 1..Len(Row(r)) : Row(r)'[j] = Row(r)[k]
      <4>1. PICK k \in 1..Len(Row(r)) : Row(r)'[j] = Row(r)[k]
        BY <3>4
      <4>2. p \in DOMAIN routes /\ r \in DOMAIN routes /\ p # r /\ i \in 1..Len(Row(p))
        BY <3>1, <3>4, <1>6, <2>3
      <4>3. Row(p)[i] # Row(r)[k]
        BY <4>2, <1>1 DEF EachOnce
      <4> QED BY <4>1, <4>3, <3>1, <2>3
    <3> QED BY <3>3, <3>4, <2>3, <1>6
  <2> QED BY <2>1, <2>2, <2>3
<1>7. ASSUME NEW q \in DOMAIN routes', NEW i \in 1..Len(Row(q)') PROVE Row(q)'[i] < next'
  <2>1. Row(q)'[i] = next \/ (Row(q)'[i] < next /\ Row(q)'[i] \in Service)
    BY <1>3, <1>7
  <2>2. next < next' /\ \A s \in Service : s < next => s < next'
    BY <1>2 DEF Service
  <2> QED BY <2>1, <2>2
<1>8. ASSUME NEW s \in Service, s < next'
      PROVE  \E q \in DOMAIN routes' : \E i \in 1..Len(Row(q)') : Row(q)'[i] = s
  <2>1. CASE s = next
    BY <2>1
  <2>2. CASE s # next
    <3>1. s < next
      BY <2>2, <1>2, <1>8 DEF Service
    <3>2. PICK q \in DOMAIN routes : \E i \in 1..Len(Row(q)) : Row(q)[i] = s
      BY <3>1, <1>1 DEF EachOnce
    <3>3. CASE q = r
      BY <3>2, <3>3
    <3>4. CASE q # r
      BY <3>2, <3>4
    <3> QED BY <3>3, <3>4
  <2> QED BY <2>1, <2>2
<1>9. EachOnce'
  BY <1>5, <1>6, <1>7, <1>8 DEF EachOnce
<1>10. built = 0
  <2>1. built \in 0..Len(routes) /\ ~(next > NServices)
    BY <1>1, <1>2 DEF Written
  <2>2. Len(routes) \in Nat
    BY <1>1 DEF Inv
  <2> QED BY <1>1, <2>1, <2>2 DEF Written
<1>11. Len(routes') \in Nat /\ Len(routes) \in Nat /\ Len(routes) <= Len(routes')
  <2>1. routes' \in Seq(RouteRec) /\ routes \in Seq(RouteRec)
    BY DEF TripInv, Inv
  <2>2. DOMAIN routes = 1..Len(routes) /\ DOMAIN routes' = 1..Len(routes') /\ Len(routes) \in Nat /\ Len(routes') \in Nat
    BY <2>1
  <2>3. Len(routes) = 0 \/ Len(routes) \in 1..Len(routes')
    BY <2>2
  <2> QED BY <2>2, <2>3
<1>12. Written'
  BY <1>1, <1>10, <1>11 DEF Written
<1> QED BY <1>9, <1>12

LEMMA JoinTrips == ASSUME TripInv, NEW r \in DOMAIN routes, JoinRoute(r) PROVE TripInv'
<1>1. Inv /\ EachOnce /\ Written
  BY DEF TripInv
<1>2. Inv'
  BY <1>1, Step DEF Next
<1>3. next \in Service /\ next' = next + 1 /\ UNCHANGED <<built, tripRoute, lconIdx, expanded>>
  BY <1>1, RouteAssumption DEF JoinRoute, Inv, Service
<1>4. PICK i \in 1..Len(routes[r].times) + 1 :
        routes' = [routes EXCEPT ![r] = [times |-> Inserted(routes[r].times, next, i),
                                         lcons |-> Inserted(routes[r].lcons, next, i)]]
  BY DEF JoinRoute
<1>5. routes[r].times = Row(r) /\ Row(r) \in Seq(Service)
  BY <1>1, RouteRow DEF Inv, Row
<1>6. DOMAIN routes' = DOMAIN routes /\ Row(r)' = Inserted(Row(r), next, i)
  BY <1>4 DEF Row
<1>7. \A q \in DOMAIN routes : q # r => Row(q)' = Row(q)
  BY <1>4 DEF Row
<1>8. \A j \in 1..Len(Row(r)) : Row(r)[j] # next
  <2>1. \A j \in 1..Len(Row(r)) : Row(r)[j] < next /\ Row(r)[j] \in Service
    BY <1>1, <1>5 DEF EachOnce
  <2> QED BY <2>1, <1>3 DEF Service
<1>9. Once(Row(r))
  BY <1>1 DEF EachOnce
<1>10. /\ Once(Row(r)') /\ Len(Row(r)') = Len(Row(r)) + 1
       /\ \A j \in 1..Len(Row(r)') :
            Row(r)'[j] = next \/ \E k \in 1..Len(Row(r)) : Row(r)'[j] = Row(r)[k]
       /\ \A k \in 1..Len(Row(r)) : \E j \in 1..Len(Row(r)') : Row(r)'[j] = Row(r)[k]
       /\ \E j \in 1..Len(Row(r)') : Row(r)'[j] = next
  <2> DEFINE row == Row(r)
             new == Inserted(row, next, i)
  <2>1. i \in 1..Len(row) + 1 /\ row \in Seq(Service) /\ next \in Service
    BY <1>3, <1>5
  <2>2. Once(row) /\ \A j \in 1..Len(row) : row[j] # next
    BY <1>8, <1>9
  <2>3. Row(r)' = new
    BY <1>6
  <2> HIDE DEF row
  <2>4. Len(new) = Len(row) + 1
    BY <2>1, InsertedRow
  <2>5. /\ Once(new)
        /\ \A j \in 1..Len(row) + 1 : new[j] = next \/ \E k \in 1..Len(row) : new[j] = row[k]
        /\ \A k \in 1..Len(row) : \E j \in 1..Len(row) + 1 : new[j] = row[k]
        /\ \E j \in 1..Len(row) + 1 : new[j] = next
    BY <2>1, <2>2, InsertedOnce
  <2> HIDE DEF new
  <2>6. Row(r) = row
    BY DEF row
  <2> QED BY <2>3, <2>4, <2>5, <2>6
<1>11. EachOnce' /\ Written'
  BY <1>2, <1>3, <1>6, <1>7, <1>10, AddedOnce
<1> QED BY <1>2, <1>11 DEF TripInv

LEMMA OpenTrips == ASSUME TripInv, OpenRoute PROVE TripInv'
<1>1. Inv /\ EachOnce /\ Written
  BY DEF TripInv
<1>2. Inv'
  BY <1>1, Step DEF Next
<1>3. next \in Service /\ next' = next + 1 /\ UNCHANGED <<built, tripRoute, lconIdx, expanded>>
  BY <1>1, RouteAssumption DEF OpenRoute, Inv, Service
<1> DEFINE r == Len(routes) + 1
           rec == [times |-> <<next>>, lcons |-> <<next>>]
<1>4. /\ routes' = Append(routes, rec) /\ routes \in Seq(RouteRec) /\ rec \in RouteRec
  BY <1>1, <1>3 DEF OpenRoute, Inv, RouteRec
<1>5. /\ DOMAIN routes = 1..Len(routes) /\ DOMAIN routes' = 1..Len(routes) + 1 /\ Len(routes) \in Nat
      /\ \A q \in DOMAIN routes : routes'[q] = routes[q]
      /\ routes'[r] = rec
  BY <1>4
<1>6. r \in DOMAIN routes' /\ r \notin DOMAIN routes /\ DOMAIN routes' = DOMAIN routes \cup {r}
  BY <1>5
<1>7. \A q \in DOMAIN routes : q # r => Row(q)' = Row(q)
  BY <1>5 DEF Row
<1>8. routes'[r].lcons = <<next>>
  BY <1>5
<1>9. /\ Once(<<next>>)
      /\ \E j \in 1..Len(<<next>>) : <<next>>[j] = next
      /\ \A j \in 1..Len(<<next>>) : <<next>>[j] = next
  BY DEF Once
<1> HIDE DEF rec
<1>10. \E q \in DOMAIN routes' : q = r /\ Row(q)' = <<next>>
  BY <1>6, <1>8 DEF Row
<1> HIDE DEF r
<1>11. EachOnce' /\ Written'
  BY <1>2, <1>3, <1>6, <1>7, <1>9, <1>10, AddedOnce
<1> QED BY <1>2, <1>11 DEF TripInv

(* A built route: what earlier routes were given concerns other services.  *)
LEMMA BuildTrips == ASSUME TripInv, BuildRoute PROVE TripInv'
<1>1. Inv /\ EachOnce /\ Written
  BY DEF TripInv
<1>2. Inv'
  BY <1>1, Step DEF Next
<1> DEFINE r == built + 1
           pos(s) == {i \in DOMAIN Row(r) : Row(r)[i] = s}
<1>3. /\ next > NServices /\ built < Len(routes) /\ built' = built + 1
      /\ UNCHANGED <<times, next, routes>>
      /\ tripRoute' = [s \in Service |-> IF pos(s) # {} THEN built + 1 ELSE tripRoute[s]]
      /\ lconIdx' = [s \in Service |-> IF pos(s) # {} THEN CHOOSE i \in pos(s) : TRUE ELSE lconIdx[s]]
      /\ expanded' = Append(expanded, Row(r))
  BY DEF BuildRoute, Row
<1>4. /\ built \in Nat /\ Len(routes) \in Nat /\ routes \in Seq(RouteRec)
      /\ r \in 1..Len(routes) /\ DOMAIN routes = 1..Len(routes)
  BY <1>1, <1>3 DEF Written, Inv
<1>5. \A q \in DOMAIN routes : Row(q) \in Seq(Service) /\ DOMAIN Row(q) = 1..Len(Row(q))
  <2>1. \A q \in DOMAIN routes : Row(q) \in Seq(Service)
    BY <1>1, RouteRow DEF Inv, Row
  <2> QED BY <2>1
<1>6. \A q \in DOMAIN routes : Row(q)' = Row(q)
  BY <1>3 DEF Row
<1>7. EachOnce'
  BY <1>1, <1>3, <1>6 DEF EachOnce
<1>8. ASSUME NEW i \in 1..Len(Row(r)) PROVE tripRoute'[Row(r)[i]] = r /\ lconIdx'[Row(r)[i]] = i
  <2>1. Row(r)[i] \in Service /\ i \in pos(Row(r)[i])
    BY <1>4, <1>5, <1>8
  <2>2. \A k \in pos(Row(r)[i]) : k = i
    BY <1>1, <1>4, <1>5, <1>8 DEF EachOnce, Once
  <2>3. (CHOOSE k \in pos(Row(r)[i]) : TRUE) = i
    BY <2>1, <2>2
  <2> QED BY <1>3, <2>1, <2>3
<1>9. ASSUME NEW q \in 1..built, NEW i \in 1..Len(Row(q))
      PROVE  tripRoute'[Row(q)[i]] = q /\ lconIdx'[Row(q)[i]] = i
  <2>1. q \in DOMAIN routes /\ q # r
    BY <1>4, <1>9
  <2>2. Row(q)[i] \in Service
    BY <2>1, <1>5, <1>9
  <2>3. pos(Row(q)[i]) = {}
    <3>1. r \in DOMAIN routes /\ DOMAIN Row(r) = 1..Len(Row(r))
      BY <1>4, <1>5
    <3>2. \A k \in 1..Len(Row(r)) : Row(r)[k] # Row(q)[i]
      BY <2>1, <3>1, <1>1, <1>9 DEF EachOnce
    <3> QED BY <3>1, <3>2
  <2>4. tripRoute[Row(q)[i]] = q /\ lconIdx[Row(q)[i]] = i
    BY <1>1, <1>9 DEF Written
  <2> QED BY <1>3, <2>2, <2>3, <2>4
<1>10. tripRoute' \in [Service -> 0..Len(routes)] /\ lconIdx' \in [Service -> Nat]
  <2>1. \A s \in Service : pos(s) # {} => (CHOOSE i \in pos(s) : TRUE) \in Nat
    <3>1. \A s \in Service : pos(s) \subseteq Nat
      BY <1>4, <1>5
    <3> QED BY <3>1
  <2>2. tripRoute \in [Service -> 0..Len(routes)] /\ lconIdx \in [Service -> Nat]
    BY <1>1 DEF Written
  <2>3. built + 1 \in 0..Len(routes)
    BY <1>4
  <2> HIDE DEF pos
  <2> QED BY <1>3, <2>1, <2>2, <2>3
<1>11. /\ expanded' \in Seq(Seq(Service)) /\ Len(expanded') = built + 1
       /\ \A q \in 1..built + 1 : expanded'[q] = Row(q)
  <2>1. /\ expanded \in Seq(Seq(Service)) /\ Len(expanded) = built
        /\ \A q \in 1..built : expanded[q] = Row(q)
    BY <1>1 DEF Written
  <2>2. Row(r) \in Seq(Service)
    BY <1>4, <1>5
  <2>3. /\ expanded' \in Seq(Seq(Service)) /\ Len(expanded') = built + 1
        /\ \A q \in 1..built : expanded'[q] = expanded[q]
        /\ expanded'[built + 1] = Row(r)
    BY <1>3, <1>4, <2>1, <2>2
  <2>4. \A q \in 1..built + 1 : q \in 1..built \/ q = built + 1
    BY <1>4
  <2> QED BY <2>1, <2>3, <2>4
<1>12. \A q \in 1..built' : q \in DOMAIN routes /\ (q \in 1..built \/ q = r)
  BY <1>3, <1>4
<1>13. built' \in 0..Len(routes')
  BY <1>3, <1>4
<1> HIDE DEF pos, r
<1>14. \A q \in 1..built' : \A i \in 1..Len(Row(q)') :
         tripRoute'[Row(q)'[i]] = q /\ lconIdx'[Row(q)'[i]] = i
  BY <1>6, <1>8, <1>9, <1>12
<1>15. \A q \in 1..built' : expanded'[q] = Row(q)'
  BY <1>3, <1>6, <1>11, <1>12
<1>16. Written'
  BY <1>3, <1>10, <1>11, <1>13, <1>14, <1>15 DEF Written
<1> QED BY <1>2, <1>7, <1>16 DEF TripInv

LEMMA TripInvStep == TripInv /\ [Next]_vars => TripInv'
<1> SUFFICES ASSUME TripInv, [Next]_vars PROVE TripInv'
  OBVIOUS
<1>1. CASE \E r \in DOMAIN routes : JoinRoute(r)
  BY <1>1, JoinTrips
<1>2. CASE OpenRoute
  BY <1>2, OpenTrips
<1>3. CASE BuildRoute
  BY <1>3, BuildTrips
<1>4. CASE UNCHANGED vars
  <2>1. Inv'
    BY <1>4, Step DEF TripInv
  <2>2. EachOnce /\ Written
    BY DEF TripInv
  <2>3. EachOnce'
    BY <1>4, <2>2 DEF vars, EachOnce, Row
  <2>4. Written'
    BY <1>4, <2>2 DEF vars, Written, Row
  <2> QED BY <2>1, <2>3, <2>4 DEF TripInv
<1> QED BY <1>1, <1>2, <1>3, <1>4 DEF Next

LEMMA TripInvariance == Spec => []TripInv
BY TripInvInit, TripInvStep, PTL DEF Spec

THEOREM TypeCorrect == Spec => []TypeOK
<1>1. TripInv => TypeOK
  BY DEF TripInv, Inv, Written, TypeOK, RouteRec
<1> QED BY <1>1, TripInvariance, PTL

(* When the routes are built, every trip has an edge and a position at     *)
(* which its own connection is, and is expanded once (write_trip_info,     *)
(* add_expanded_trips).                                                    *)
THEOREM TripsFound == Spec => []TripsFindTheirConnections
<1>1. TripInv => TripsFindTheirConnections
  <2> SUFFICES ASSUME TripInv, Done, NEW s \in Service
               PROVE  /\ tripRoute[s] \in DOMAIN routes
                      /\ lconIdx[s] \in DOMAIN routes[tripRoute[s]].lcons
                      /\ routes[tripRoute[s]].lcons[lconIdx[s]] = s
                      /\ \E r \in DOMAIN expanded : \E i \in DOMAIN expanded[r] :
                           \A q \in DOMAIN expanded : \A j \in DOMAIN expanded[q] :
                             (expanded[q][j] = s) = (q = r /\ j = i)
    BY DEF TripsFindTheirConnections
  <2>1. Inv /\ EachOnce /\ Written
    BY DEF TripInv
  <2>2. s < next /\ built = Len(routes) /\ DOMAIN routes = 1..built
    BY <2>1, RouteAssumption DEF Done, Service, Inv
  <2>3. \A q \in DOMAIN routes : DOMAIN Row(q) = 1..Len(Row(q))
    BY <2>1, RouteRow DEF Inv, Row
  <2>4. PICK r \in DOMAIN routes : \E i \in 1..Len(Row(r)) : Row(r)[i] = s
    BY <2>1, <2>2 DEF EachOnce
  <2>5. PICK i \in 1..Len(Row(r)) : Row(r)[i] = s
    BY <2>4
  <2>6. tripRoute[s] = r /\ lconIdx[s] = i
    BY <2>1, <2>2, <2>4, <2>5 DEF Written
  <2>7. DOMAIN expanded = DOMAIN routes /\ \A q \in DOMAIN routes : expanded[q] = Row(q)
    BY <2>1, <2>2 DEF Written
  <2>8. \A q \in DOMAIN routes : \A j \in 1..Len(Row(q)) : (Row(q)[j] = s) = (q = r /\ j = i)
    BY <2>1, <2>4, <2>5 DEF EachOnce, Once
  <2>9. \A q \in DOMAIN expanded : \A j \in DOMAIN expanded[q] :
          (expanded[q][j] = s) = (q = r /\ j = i)
    BY <2>3, <2>7, <2>8
  <2>10. r \in DOMAIN expanded /\ i \in DOMAIN expanded[r]
    BY <2>3, <2>4, <2>5, <2>7
  <2>11. i \in DOMAIN routes[r].lcons /\ routes[r].lcons[i] = s
    BY <2>3, <2>4, <2>5 DEF Row
  <2> QED BY <2>4, <2>6, <2>9, <2>10, <2>11
<1> QED BY <1>1, TripInvariance, PTL

-----------------------------------------------------------------------------
(* Plans.                                                                  *)
(* add_route_services hands the converted times of a service to            *)
(* add_to_routes and nothing else of it: the loader of plans implements    *)
(* the builder of routes.                                                  *)
THEOREM LoadingBuildsRoutes == LoadSpec => Spec
<1>1. LoadInit => Init
  BY TablesAssumption DEF LoadInit, Init
<1>2. [LoadNext]_loadVars => [Next]_vars
  BY DEF LoadNext, loadVars
<1> QED BY <1>1, <1>2, PTL DEF LoadSpec, Spec

(* Also of trains whose times were moved by a change of the clock, the     *)
(* connections of every edge are strictly sorted by their minutes.         *)
THEOREM LoadedMinutesSorted == LoadSpec => []MinutesSorted
BY LoadingBuildsRoutes, SortedMinutes, PTL

(* ... and every train of every piece finds its own connections.           *)
THEOREM LoadedTripsFound == LoadSpec => []TripsFindTheirConnections
BY LoadingBuildsRoutes, TripsFound, PTL

-----------------------------------------------------------------------------
(* Splitting.  The sections from i to j are a run of day d: it runs on all *)
(* of them and on neither neighbour.  What the loop over the starts makes  *)
(* pieces of are the runs of the days.                                     *)
Run(s, d, i, j) ==
  /\ \A m \in i..j : d \in s[m]
  /\ i = 1 \/ d \notin s[i - 1]
  /\ j = Len(s) \/ d \notin s[j + 1]

RunDays(s, i, j) == {d \in s[i] : Run(s, d, i, j)}

RunPieces(s) ==
  UNION {{[from |-> i, to |-> j, days |-> RunDays(s, i, j)] :
            j \in {x \in i..Len(s) : RunDays(s, i, x) # {}}} : i \in DOMAIN s}

(* What is left of the sections when the starts before k are done: the     *)
(* days that have come to a stop between start k - 1 and the section.      *)
LeftAt(s, k) ==
  [j \in DOMAIN s |->
     {d \in s[j] : j >= k /\ (k = 1 \/ \E m \in k - 1..j - 1 : d \notin s[m])}]

(* The least and the greatest element of a finite set of numbers.          *)
LEMMA FiniteExtrema ==
  ASSUME NEW S \in SUBSET Int, IsFiniteSet(S), S # {}
  PROVE  /\ \E x \in S : \A y \in S : x >= y
         /\ \E x \in S : \A y \in S : x <= y
<1> DEFINE Bounded(A) == /\ \E x \in A : \A y \in A : x >= y
                         /\ \E x \in A : \A y \in A : x <= y
           bad == {A \in SUBSET S : A # {} /\ ~Bounded(A)}
<1>1. SUFFICES bad = {}
  <2>1. S \in SUBSET S
    OBVIOUS
  <2> QED BY <1>1, <2>1
<1>2. SUFFICES ASSUME bad # {} PROVE FALSE
  OBVIOUS
<1>3. PICK A \in bad : \A B \in bad : ~(<<B, A>> \in StrictSubsetOrdering(S))
  <2>1. bad \subseteq FiniteSubsetsOf(S)
    BY FS_Subset DEF FiniteSubsetsOf
  <2> QED BY <1>2, <2>1, FS_StrictSubsetOrderingWellFounded, WFMin
<1>4. PICK a \in A : TRUE
  BY <1>3
<1>5. A \ {a} \notin bad
  BY <1>3, <1>4 DEF StrictSubsetOrdering
<1>6. CASE A = {a}
  BY <1>3, <1>6
<1>7. CASE A # {a}
  <2>1. PICK b \in A \ {a} : \A y \in A \ {a} : b >= y
    BY <1>3, <1>4, <1>5, <1>7
  <2>2. PICK c \in A \ {a} : \A y \in A \ {a} : c <= y
    BY <1>3, <1>4, <1>5, <1>7
  <2>3. \A y \in A : (IF a >= b THEN a ELSE b) >= y /\ (IF a <= c THEN a ELSE c) <= y
    BY <1>3, <1>4, <2>1, <2>2
  <2>4. (IF a >= b THEN a ELSE b) \in A /\ (IF a <= c THEN a ELSE c) \in A
    BY <1>4, <2>1, <2>2
  <2> HIDE DEF bad
  <2>5. \E x \in A : \A y \in A : x >= y
    BY <2>3, <2>4
  <2>6. \E x \in A : \A y \in A : x <= y
    BY <2>3, <2>4
  <2> QED BY <1>3, <2>5, <2>6 DEF bad
<1> QED BY <1>6, <1>7

LEMMA IntervalExtrema ==
  ASSUME NEW n \in Nat, NEW S \in SUBSET (1..n), S # {}
  PROVE  /\ \E x \in S : \A y \in S : x >= y
         /\ \E x \in S : \A y \in S : x <= y
<1>1. IsFiniteSet(S)
  <2>1. IsFiniteSet(1..n)
    BY FS_Interval
  <2> QED BY <2>1, FS_Subset
<1>2. S \in SUBSET Int
  OBVIOUS
<1> QED BY <1>1, <1>2, FiniteExtrema

(* A day that runs on the sections from i to j runs on as far as to the    *)
(* end of a run, and has set out at its beginning.                         *)
LEMMA RunEnds ==
  ASSUME NEW s \in Seq(SUBSET Nat), NEW d, NEW i \in DOMAIN s, NEW j \in i..Len(s),
         \A m \in i..j : d \in s[m]
  PROVE  \E t \in j..Len(s) : /\ \A m \in i..t : d \in s[m]
                              /\ t = Len(s) \/ d \notin s[t + 1]
<1>1. Len(s) \in Nat /\ DOMAIN s = 1..Len(s) /\ i \in 1..Len(s) /\ j \in 1..Len(s)
  OBVIOUS
<1> DEFINE S == {t \in j..Len(s) : \A m \in i..t : d \in s[m]}
<1>2. S \in SUBSET (1..Len(s)) /\ j \in S
  BY <1>1
<1>3. PICK t \in S : \A y \in S : t >= y
  <2> HIDE DEF S
  <2> QED BY <1>1, <1>2, IntervalExtrema
<1>4. ASSUME t # Len(s), d \in s[t + 1] PROVE FALSE
  <2> t \in j..Len(s) /\ Len(s) \in Nat /\ j \in Nat /\ i \in Nat
    BY <1>1, <1>3
  <2>1. t + 1 \in j..Len(s) /\ ~(t >= t + 1)
    BY <1>4
  <2>2. \A m \in i..t + 1 : m \in i..t \/ m = t + 1
    BY <1>1, <1>3
  <2>3. t + 1 \in S
    BY <1>3, <1>4, <2>1, <2>2
  <2> QED BY <1>3, <2>1, <2>3
<1> QED BY <1>3, <1>4

LEMMA RunStarts ==
  ASSUME NEW s \in Seq(SUBSET Nat), NEW d, NEW j \in DOMAIN s, d \in s[j]
  PROVE  \E i \in 1..j : /\ \A m \in i..j : d \in s[m]
                         /\ i = 1 \/ d \notin s[i - 1]
<1>1. Len(s) \in Nat /\ DOMAIN s = 1..Len(s) /\ j \in 1..Len(s)
  OBVIOUS
<1> DEFINE S == {i \in 1..j : \A m \in i..j : d \in s[m]}
<1>2. S \in SUBSET (1..Len(s)) /\ j \in S
  BY <1>1
<1>3. PICK i \in S : \A y \in S : i <= y
  <2> HIDE DEF S
  <2> QED BY <1>1, <1>2, IntervalExtrema
<1>4. ASSUME i # 1, d \in s[i - 1] PROVE FALSE
  <2>1. i - 1 \in 1..j /\ ~(i <= i - 1)
    BY <1>1, <1>3, <1>4
  <2>2. \A m \in i - 1..j : m \in i..j \/ m = i - 1
    BY <1>1, <1>3
  <2>3. i - 1 \in S
    BY <1>3, <1>4, <2>1, <2>2
  <2> QED BY <1>3, <2>1, <2>3
<1> QED BY <1>3, <1>4

(* From start k on, only the days that set out there are looked at, and    *)
(* of these nothing was taken away yet.                                    *)
LEMMA LeftFrom ==
  ASSUME NEW s \in Seq(SUBSET Nat), NEW k \in DOMAIN s, NEW j \in k..Len(s), NEW d
  PROVE  /\ d \in LeftAt(s, k)[k] <=> d \in s[k] /\ (k = 1 \/ d \notin s[k - 1])
         /\ d \in LeftAt(s, k)[k] => (d \in LeftAt(s, k)[j] <=> d \in s[j])
<1>1. /\ Len(s) \in Nat /\ DOMAIN s = 1..Len(s) /\ k \in 1..Len(s) /\ j \in 1..Len(s)
      /\ k >= k /\ j >= k /\ k - 1 \in k - 1..j - 1
  OBVIOUS
<1>2. \A m \in k - 1..k - 1 : m = k - 1
  BY <1>1
<1>3. k - 1 \in k - 1..k - 1
  BY <1>1
<1>4. d \in LeftAt(s, k)[k] <=> d \in s[k] /\ (k = 1 \/ \E m \in k - 1..k - 1 : d \notin s[m])
  BY <1>1 DEF LeftAt
<1>5. d \in LeftAt(s, k)[j] <=> d \in s[j] /\ (k = 1 \/ \E m \in k - 1..j - 1 : d \notin s[m])
  BY <1>1 DEF LeftAt
<1> QED BY <1>1, <1>2, <1>3, <1>4, <1>5

(* The pieces from start k are the runs that begin there.                  *)
LEMMA RunsAre ==
  ASSUME NEW s \in Seq(SUBSET Nat), NEW k \in DOMAIN s, NEW t \in k..Len(s)
  PROVE  RunsTo(LeftAt(s, k), k, t) = RunDays(s, k, t)
<1>1. /\ Len(s) \in Nat /\ DOMAIN s = 1..Len(s) /\ k \in 1..Len(s) /\ k \in k..t
      /\ LeftAt(s, k) \in Seq(SUBSET Nat) /\ Len(LeftAt(s, k)) = Len(s)
  <2>1. Len(s) \in Nat /\ DOMAIN s = 1..Len(s) /\ \A j \in 1..Len(s) : s[j] \in SUBSET Nat
    OBVIOUS
  <2>2. LeftAt(s, k) \in [1..Len(s) -> SUBSET Nat]
    BY <2>1 DEF LeftAt
  <2> QED BY <2>1, <2>2
<1>2. \A m \in k..t : m \in k..Len(s)
  BY <1>1
<1>3. t # Len(s) => t + 1 \in k..Len(s)
  <2> t \in k..Len(s) /\ Len(s) \in Nat /\ k \in Nat
    BY <1>1
  <2> QED OBVIOUS
<1>4. \A d : d \in LeftAt(s, k)[k] <=> d \in s[k] /\ (k = 1 \/ d \notin s[k - 1])
  BY <1>1, LeftFrom
<1>5. \A d : \A j \in k..Len(s) :
        d \in LeftAt(s, k)[k] => (d \in LeftAt(s, k)[j] <=> d \in s[j])
  BY LeftFrom
<1>6. \A d : d \in RunsTo(LeftAt(s, k), k, t) <=>
        /\ d \in LeftAt(s, k)[k] /\ \A m \in k..t : d \in LeftAt(s, k)[m]
        /\ t = Len(s) \/ d \notin LeftAt(s, k)[t + 1]
  BY <1>1 DEF RunsTo
<1>7. \A d : d \in RunDays(s, k, t) <=>
        /\ d \in s[k] /\ \A m \in k..t : d \in s[m]
        /\ k = 1 \/ d \notin s[k - 1]
        /\ t = Len(s) \/ d \notin s[t + 1]
  BY DEF RunDays, Run
<1> QED BY <1>1, <1>2, <1>3, <1>4, <1>5, <1>6, <1>7

(* The pieces from start h are taken away from the sections they cover.    *)
LEMMA LeftNext ==
  ASSUME NEW s \in Seq(SUBSET Nat), NEW h \in DOMAIN s, h + 1 \in DOMAIN s
  PROVE  Without(LeftAt(s, h), PiecesFrom(LeftAt(s, h), h)) = LeftAt(s, h + 1)
<1> DEFINE L == LeftAt(s, h)
           P == PiecesFrom(L, h)
<1>1. /\ Len(s) \in Nat /\ DOMAIN s = 1..Len(s) /\ h \in 1..Len(s) /\ h + 1 # 1
      /\ (h + 1) - 1 = h /\ DOMAIN L = DOMAIN s /\ L \in Seq(SUBSET Nat) /\ Len(L) = Len(s)
  <2>1. Len(s) \in Nat /\ DOMAIN s = 1..Len(s) /\ \A j \in 1..Len(s) : s[j] \in SUBSET Nat
    OBVIOUS
  <2>2. L \in [1..Len(s) -> SUBSET Nat]
    BY <2>1 DEF LeftAt
  <2> QED BY <2>1, <2>2
<1>2. \A j \in DOMAIN s : \A d :
        d \in L[j] <=> d \in s[j] /\ j >= h /\ (h = 1 \/ \E m \in h - 1..j - 1 : d \notin s[m])
  BY DEF LeftAt
<1>3. \A j \in DOMAIN s : \A d :
        d \in LeftAt(s, h + 1)[j] <=> d \in s[j] /\ j >= h + 1 /\ \E m \in h..j - 1 : d \notin s[m]
  BY <1>1 DEF LeftAt
<1> HIDE DEF L
<1>4. ASSUME NEW j \in DOMAIN s, NEW d
      PROVE  (\E p \in P : p.from <= j /\ j <= p.to /\ d \in p.days)
               <=> j >= h /\ \A m \in h..j : d \in L[m]
  <2>1. ASSUME NEW p \in P, p.from <= j, j <= p.to, d \in p.days
        PROVE  j >= h /\ \A m \in h..j : d \in L[m]
    <3>1. PICK t \in h..Len(s) : p = [from |-> h, to |-> t, days |-> RunsTo(L, h, t)]
      BY <1>1 DEF PiecesFrom
    <3>2. d \in RunsTo(L, h, t) /\ h <= j /\ j <= t
      BY <2>1, <3>1
    <3>3. \A m \in h..t : d \in L[m]
      BY <3>2 DEF RunsTo
    <3>4. \A m \in h..j : m \in h..t
      BY <1>1, <3>2
    <3> QED BY <1>1, <3>2, <3>3, <3>4
  <2>2. ASSUME j >= h, \A m \in h..j : d \in L[m]
        PROVE  \E p \in P : p.from <= j /\ j <= p.to /\ d \in p.days
    <3>1. j \in h..Len(L) /\ h \in DOMAIN L /\ h \in h..j
      BY <1>1, <2>2
    <3>2. PICK t \in j..Len(L) : /\ \A m \in h..t : d \in L[m]
                                 /\ t = Len(L) \/ d \notin L[t + 1]
      BY <1>1, <2>2, <3>1, RunEnds
    <3>3. d \in RunsTo(L, h, t)
      BY <2>2, <3>1, <3>2 DEF RunsTo
    <3>4. t \in h..Len(L) /\ h <= j /\ j <= t
      BY <1>1, <3>1
    <3> DEFINE p == [from |-> h, to |-> t, days |-> RunsTo(L, h, t)]
    <3>5. p \in P
      BY <3>3, <3>4 DEF PiecesFrom
    <3> QED BY <3>3, <3>4, <3>5
  <2> QED BY <2>1, <2>2
<1>5. ASSUME NEW j \in DOMAIN s, NEW d
      PROVE  d \in Without(L, P)[j] <=> d \in LeftAt(s, h + 1)[j]
  <2>1. d \in Without(L, P)[j] <=> d \in L[j] /\ ~\E p \in P : p.from <= j /\ j <= p.to /\ d \in p.days
    <3> HIDE DEF P
    <3> QED BY <1>1 DEF Without
  <2>2. d \in Without(L, P)[j] <=> d \in L[j] /\ ~(j >= h /\ \A m \in h..j : d \in L[m])
    BY <1>4, <2>1
  <2> HIDE DEF P
  <2>3. ASSUME d \in L[j], j >= h, NEW m \in h..j, d \notin L[m]
        PROVE  d \in LeftAt(s, h + 1)[j]
    <3>1. m # j /\ m \in DOMAIN s /\ j \in 1..Len(s)
      BY <1>1, <2>3
    <3>2. m \in h..j - 1 /\ j >= h + 1 /\ m >= h
      BY <1>1, <2>3, <3>1
    <3>3. CASE d \notin s[m]
      BY <1>3, <1>2, <2>3, <3>2, <3>3
    <3>4. CASE d \in s[m]
      <4>1. h # 1 /\ \A x \in h - 1..m - 1 : d \in s[x]
        BY <1>2, <2>3, <3>1, <3>2, <3>4
      <4>2. PICK x \in h - 1..j - 1 : d \notin s[x]
        BY <1>2, <2>3, <4>1
      <4>3. x \in h..j - 1
        BY <1>1, <3>2, <4>1, <4>2
      <4> QED BY <1>3, <1>2, <2>3, <3>2, <4>2, <4>3
    <3> QED BY <3>3, <3>4
  <2>4. ASSUME d \in LeftAt(s, h + 1)[j]
        PROVE  d \in L[j] /\ \E m \in h..j : d \notin L[m]
    <3>1. PICK m \in h..j - 1 : d \notin s[m]
      BY <1>3, <2>4
    <3>2. d \in s[j] /\ j >= h + 1 /\ j \in 1..Len(s)
      BY <1>1, <1>3, <2>4
    <3>3. m \in h - 1..j - 1 /\ m \in h..j /\ m \in DOMAIN s /\ j >= h
      BY <1>1, <3>2
    <3> QED BY <1>2, <3>1, <3>2, <3>3
  <2>5. d \in L[j] => j >= h
    BY <1>2
  <2> QED BY <2>2, <2>3, <2>4, <2>5
<1>6. /\ Without(L, P) = [j \in DOMAIN s |-> Without(L, P)[j]]
      /\ LeftAt(s, h + 1) = [j \in DOMAIN s |-> LeftAt(s, h + 1)[j]]
  BY <1>1 DEF Without, LeftAt
<1>7. \A j \in DOMAIN s : Without(L, P)[j] = LeftAt(s, h + 1)[j]
  BY <1>5
<1>8. Without(L, P) = LeftAt(s, h + 1)
  <2> HIDE DEF P
  <2> QED BY <1>6, <1>7
<1> QED BY <1>8 DEF L

(* The loop over the starts finds exactly the runs of the days.            *)
LEMMA SplitIs ==
  ASSUME NEW s \in Seq(SUBSET Nat)
  PROVE  Split(s) = IF \A p, q \in RunPieces(s) : p = q \/ p.days \cap q.days = {}
                    THEN RunPieces(s) ELSE {}
<1> DEFINE Turn(f, k) == IF k = 1 THEN s ELSE Without(f[k - 1], PiecesFrom(f[k - 1], k - 1))
           F(f) == [k \in 1..Len(s) |-> Turn(f, k)]
           left == CHOOSE f : f = F(f)
           found(f) == UNION {PiecesFrom(f[k], k) : k \in DOMAIN s}
           G == [k \in 1..Len(s) |-> LeftAt(s, k)]
<1>1. Split(s) = IF \A p, q \in found(left) : p = q \/ p.days \cap q.days = {}
                 THEN found(left) ELSE {}
  BY DEF Split
<1>2. Len(s) \in Nat /\ DOMAIN s = 1..Len(s) /\ \A j \in 1..Len(s) : s[j] \in SUBSET Nat
  OBVIOUS
<1>3. ASSUME 1 \in DOMAIN s PROVE LeftAt(s, 1) = s
  BY <1>2 DEF LeftAt
<1>4. \A k \in 1..Len(s) : k # 1 => k - 1 \in 1..Len(s) /\ (k - 1) + 1 = k
  BY <1>2
<1>5. \A k \in 1..Len(s) : Turn(G, k) = LeftAt(s, k)
  <2> TAKE k \in 1..Len(s)
  <2>1. CASE k = 1
    BY <1>2, <1>3, <2>1
  <2>2. CASE k # 1
    <3>1. k - 1 \in DOMAIN s /\ (k - 1) + 1 \in DOMAIN s /\ (k - 1) + 1 = k
      BY <1>2, <1>4, <2>2
    <3>2. Without(LeftAt(s, k - 1), PiecesFrom(LeftAt(s, k - 1), k - 1)) = LeftAt(s, k)
      BY <3>1, LeftNext
    <3>3. G[k - 1] = LeftAt(s, k - 1)
      BY <1>2, <3>1
    <3> QED BY <2>2, <3>2, <3>3
  <2> QED BY <2>1, <2>2
<1>6. G = F(G)
  <2> HIDE DEF Turn
  <2> QED BY <1>5
<1>7. left = F(left)
  <2> HIDE DEF F, G
  <2> QED BY <1>6
<1>8. \A k \in 1..Len(s) : left[k] = LeftAt(s, k)
  <2> DEFINE B == {k \in 1..Len(s) : left[k] # LeftAt(s, k)}
  <2>1. SUFFICES ASSUME B # {} PROVE FALSE
    OBVIOUS
  <2> HIDE DEF left
  <2>2. PICK k \in B : \A y \in B : k <= y
    <3>1. B \in SUBSET (1..Len(s))
      OBVIOUS
    <3> HIDE DEF B
    <3> QED BY <1>2, <2>1, <3>1, IntervalExtrema
  <2>3. left[k] = Turn(left, k)
    <3> HIDE DEF Turn
    <3>1. k \in 1..Len(s)
      BY <2>2
    <3>2. F(left)[k] = Turn(left, k)
      BY <3>1
    <3> QED BY <1>7, <3>2
  <2>4. Turn(left, k) = Turn(G, k)
    <3>1. CASE k = 1
      BY <3>1
    <3>2. CASE k # 1
      <4>1. k - 1 \in 1..Len(s) /\ ~(k <= k - 1)
        BY <1>2, <1>4, <2>2, <3>2
      <4>2. left[k - 1] = G[k - 1]
        BY <2>2, <4>1
      <4> HIDE DEF G
      <4> QED BY <3>2, <4>2
    <3> QED BY <3>1, <3>2
  <2> QED BY <1>5, <2>2, <2>3, <2>4
<1>9. found(left) = RunPieces(s)
  <2> HIDE DEF left
  <2>1. ASSUME NEW k \in DOMAIN s
        PROVE  PiecesFrom(left[k], k) =
                 {[from |-> k, to |-> j, days |-> RunDays(s, k, j)] :
                    j \in {x \in k..Len(s) : RunDays(s, k, x) # {}}}
    <3>1. left[k] = LeftAt(s, k)
      BY <1>2, <1>8
    <3>2. Len(LeftAt(s, k)) = Len(s)
      <4>1. LeftAt(s, k) \in [1..Len(s) -> SUBSET Nat]
        BY <1>2 DEF LeftAt
      <4> QED BY <1>2, <4>1
    <3>3. \A t \in k..Len(s) : RunsTo(LeftAt(s, k), k, t) = RunDays(s, k, t)
      BY RunsAre
    <3> QED BY <3>1, <3>2, <3>3 DEF PiecesFrom
  <2> QED BY <2>1 DEF RunPieces
<1> HIDE DEF found, left
<1> QED BY <1>1, <1>9

-----------------------------------------------------------------------------
(* The sections a day runs on.                                             *)
On(s, d) == {k \in DOMAIN s : d \in s[k]}

(* Every day of a piece has its run there.                                 *)
LEMMA PieceIsRun ==
  ASSUME NEW s \in Seq(SUBSET Nat), NEW d, NEW p \in RunPieces(s), d \in p.days
  PROVE  \E i \in DOMAIN s : \E j \in i..Len(s) :
           p = [from |-> i, to |-> j, days |-> RunDays(s, i, j)] /\ Run(s, d, i, j)
<1>1. PICK i \in DOMAIN s : p \in {[from |-> i, to |-> j, days |-> RunDays(s, i, j)] :
                                     j \in {x \in i..Len(s) : RunDays(s, i, x) # {}}}
  BY DEF RunPieces
<1>2. PICK j \in i..Len(s) : p = [from |-> i, to |-> j, days |-> RunDays(s, i, j)]
  BY <1>1
<1>3. Run(s, d, i, j)
  BY <1>2 DEF RunDays
<1> QED BY <1>2, <1>3

(* Every section a day runs on lies on a run of it, which makes a piece.   *)
LEMMA RunAround ==
  ASSUME NEW s \in Seq(SUBSET Nat), NEW d, NEW k \in On(s, d)
  PROVE  \E p \in RunPieces(s) : d \in p.days /\ k \in p.from..p.to
<1>1. Len(s) \in Nat /\ DOMAIN s = 1..Len(s) /\ k \in 1..Len(s) /\ d \in s[k]
  BY DEF On
<1>2. PICK i \in 1..k : (\A m \in i..k : d \in s[m]) /\ (i = 1 \/ d \notin s[i - 1])
  BY <1>1, RunStarts
<1>3. i \in DOMAIN s /\ k \in i..Len(s) /\ i \in i..k
  BY <1>1
<1>4. PICK j \in k..Len(s) : (\A m \in i..j : d \in s[m]) /\ (j = Len(s) \/ d \notin s[j + 1])
  BY <1>2, <1>3, RunEnds
<1>5. Run(s, d, i, j) /\ j \in i..Len(s) /\ k \in i..j
  BY <1>1, <1>2, <1>4 DEF Run
<1>6. d \in RunDays(s, i, j)
  BY <1>2, <1>3, <1>5 DEF RunDays
<1> DEFINE p == [from |-> i, to |-> j, days |-> RunDays(s, i, j)]
<1>7. p \in RunPieces(s)
  BY <1>3, <1>5, <1>6 DEF RunPieces
<1> QED BY <1>5, <1>6, <1>7

(* The runs of a day that leaves out no section in the middle are one, and *)
(* are its sections.                                                       *)
LEMMA RunIsAll ==
  ASSUME NEW s \in Seq(SUBSET Nat), NEW d, Connected(s, d),
         NEW i \in DOMAIN s, NEW j \in i..Len(s), Run(s, d, i, j)
  PROVE  On(s, d) = i..j
<1>1. Len(s) \in Nat /\ DOMAIN s = 1..Len(s) /\ i \in 1..Len(s) /\ j \in 1..Len(s) /\ i <= j
  OBVIOUS
<1>2. ASSUME NEW k \in i..j PROVE k \in On(s, d)
  <2>1. k \in DOMAIN s
    BY <1>1
  <2>2. d \in s[k]
    BY DEF Run
  <2> QED BY <2>1, <2>2 DEF On
<1>3. i \in On(s, d) /\ j \in On(s, d)
  BY <1>1, <1>2
<1>4. \A k \in On(s, d), l \in On(s, d) : \A m \in k..l : m \in On(s, d)
  BY DEF On, Connected
<1>5. ASSUME NEW k \in On(s, d) PROVE k \in i..j
  <2>1. k \in 1..Len(s)
    BY <1>1 DEF On
  <2>2. ASSUME k < i PROVE FALSE
    <3>1. i - 1 \in k..i /\ i # 1
      <4> i \in Nat /\ k \in Nat /\ 1 <= k /\ k < i
        BY <1>1, <2>1, <2>2
      <4> QED OBVIOUS
    <3>2. d \in s[i - 1]
      <4>1. i - 1 \in On(s, d)
        BY <1>3, <1>4, <3>1
      <4> QED BY <4>1 DEF On
    <3> QED BY <3>1, <3>2 DEF Run
  <2>3. ASSUME j < k PROVE FALSE
    <3>1. j + 1 \in j..k /\ j # Len(s)
      <4> j \in Nat /\ k \in Nat /\ Len(s) \in Nat /\ k <= Len(s) /\ j < k
        BY <1>1, <2>1, <2>3
      <4> QED OBVIOUS
    <3>2. d \in s[j + 1]
      <4>1. j + 1 \in On(s, d)
        BY <1>3, <1>4, <3>1
      <4> QED BY <4>1 DEF On
    <3> QED BY <3>1, <3>2 DEF Run
  <2> QED BY <1>1, <2>1, <2>2, <2>3
<1> QED BY <1>2, <1>5

LEMMA OneRun ==
  ASSUME NEW s \in Seq(SUBSET Nat), NEW d, Connected(s, d), On(s, d) # {}
  PROVE  /\ \E p \in RunPieces(s) : d \in p.days
         /\ \A p \in RunPieces(s) : d \in p.days => On(s, d) = p.from..p.to
         /\ \A p, q \in RunPieces(s) : d \in p.days /\ d \in q.days => p = q
<1>1. \E p \in RunPieces(s) : d \in p.days
  BY RunAround
<1>2. ASSUME NEW p \in RunPieces(s), d \in p.days
      PROVE  /\ On(s, d) = p.from..p.to
             /\ p = [from |-> p.from, to |-> p.to, days |-> RunDays(s, p.from, p.to)]
             /\ p.from \in Nat /\ p.to \in Nat /\ p.from <= p.to
  <2>1. PICK i \in DOMAIN s : \E j \in i..Len(s) :
               p = [from |-> i, to |-> j, days |-> RunDays(s, i, j)] /\ Run(s, d, i, j)
    BY <1>2, PieceIsRun
  <2>2. PICK j \in i..Len(s) :
               p = [from |-> i, to |-> j, days |-> RunDays(s, i, j)] /\ Run(s, d, i, j)
    BY <2>1
  <2>3. On(s, d) = i..j
    BY <2>2, RunIsAll
  <2>4. p.from = i /\ p.to = j /\ p.days = RunDays(s, i, j)
    BY <2>2
  <2>5. i \in Nat /\ j \in Nat /\ i <= j
    OBVIOUS
  <2> QED BY <2>2, <2>3, <2>4, <2>5
<1>3. ASSUME NEW p \in RunPieces(s), NEW q \in RunPieces(s), d \in p.days, d \in q.days
      PROVE  p = q
  <2>1. p.from..p.to = q.from..q.to
    BY <1>2, <1>3
  <2>2. /\ p.from \in Nat /\ p.to \in Nat /\ p.from <= p.to
        /\ q.from \in Nat /\ q.to \in Nat /\ q.from <= q.to
    BY <1>2, <1>3
  <2>3. p.from = q.from /\ p.to = q.to
    <3>1. p.from \in q.from..q.to /\ q.from \in p.from..p.to
      BY <2>1, <2>2
    <3>2. p.to \in q.from..q.to /\ q.to \in p.from..p.to
      BY <2>1, <2>2
    <3> QED BY <2>2, <3>1, <3>2
  <2> QED BY <1>2, <1>3, <2>3
<1> QED BY <1>1, <1>2, <1>3

(* A day that does has two runs at least: one on either side of the gap.   *)
LEMMA TwoRuns ==
  ASSUME NEW s \in Seq(SUBSET Nat), NEW d, ~Connected(s, d)
  PROVE  \E p, q \in RunPieces(s) : p # q /\ d \in p.days /\ d \in q.days
<1>1. PICK i \in On(s, d), j \in On(s, d) : \E k \in i..j : k \notin On(s, d)
  BY DEF Connected, On
<1>2. PICK k \in i..j : k \notin On(s, d)
  BY <1>1
<1>3. Len(s) \in Nat /\ DOMAIN s = 1..Len(s) /\ i \in 1..Len(s) /\ j \in 1..Len(s)
  BY DEF On
<1>4. k \in 1..Len(s) /\ i <= k /\ k <= j /\ d \notin s[k]
  BY <1>2, <1>3 DEF On
<1>5. PICK p \in RunPieces(s) : d \in p.days /\ i \in p.from..p.to
  BY RunAround
<1>6. PICK q \in RunPieces(s) : d \in q.days /\ j \in q.from..q.to
  BY RunAround
<1>7. ASSUME p = q PROVE FALSE
  <2>1. PICK a \in DOMAIN s : \E b \in a..Len(s) :
               p = [from |-> a, to |-> b, days |-> RunDays(s, a, b)] /\ Run(s, d, a, b)
    BY <1>5, PieceIsRun
  <2>2. PICK b \in a..Len(s) :
               p = [from |-> a, to |-> b, days |-> RunDays(s, a, b)] /\ Run(s, d, a, b)
    BY <2>1
  <2>3. p.from = a /\ p.to = b
    BY <2>2
  <2>4. i \in a..b /\ j \in a..b
    BY <1>5, <1>6, <1>7, <2>3
  <2>5. k \in a..b
    BY <1>3, <1>4, <2>4
  <2> QED BY <1>4, <2>2, <2>5 DEF Run
<1> QED BY <1>5, <1>6, <1>7

(* What SplitKeepsRides says of the sections of one service.               *)
Kept(s) ==
  IF \A d \in UNION {s[k] : k \in DOMAIN s} : Connected(s, d)
  THEN \A d \in UNION {s[k] : k \in DOMAIN s} :
         /\ Cardinality({p \in Split(s) : d \in p.days}) = 1
         /\ \A p \in Split(s) : d \in p.days => On(s, d) = p.from..p.to
  ELSE Split(s) = {}

(* ... which holds of any sections.                                        *)
LEMMA SplitKeeps ==
  ASSUME NEW s \in Seq(SUBSET Nat)
  PROVE  Kept(s)
<1> DEFINE days == UNION {s[k] : k \in DOMAIN s}
           apart == \A p, q \in RunPieces(s) : p = q \/ p.days \cap q.days = {}
<1>1. \A p \in RunPieces(s) : p.days \subseteq days
  BY DEF RunPieces, RunDays
<1>2. CASE \A d \in days : Connected(s, d)
  <2>1. \A d \in days : On(s, d) # {}
    BY DEF On
  <2>2. apart
    <3> SUFFICES ASSUME NEW p \in RunPieces(s), NEW q \in RunPieces(s),
                        NEW d \in p.days \cap q.days
                 PROVE  p = q
      OBVIOUS
    <3>1. d \in days
      BY <1>1
    <3> QED BY <1>2, <2>1, <3>1, OneRun
  <2>3. Split(s) = RunPieces(s)
    BY <2>2, SplitIs
  <2>4. ASSUME NEW d \in days
        PROVE  /\ Cardinality({p \in Split(s) : d \in p.days}) = 1
               /\ \A p \in Split(s) : d \in p.days => On(s, d) = p.from..p.to
    <3>1. PICK p \in RunPieces(s) : d \in p.days
      BY <1>2, <2>1, OneRun
    <3>2. {q \in Split(s) : d \in q.days} = {p}
      <4>1. \A q \in RunPieces(s) : d \in q.days => q = p
        BY <1>2, <2>1, <3>1, OneRun
      <4> QED BY <2>3, <3>1, <4>1
    <3>3. Cardinality({p}) = 1
      BY FS_Singleton
    <3>4. \A q \in Split(s) : d \in q.days => On(s, d) = q.from..q.to
      BY <1>2, <2>1, <2>3, OneRun
    <3> QED BY <3>2, <3>3, <3>4
  <2> QED BY <1>2, <2>4 DEF Kept
<1>3. CASE ~\A d \in days : Connected(s, d)
  <2>1. PICK d \in days : ~Connected(s, d)
    BY <1>3
  <2>2. PICK p \in RunPieces(s), q \in RunPieces(s) : p # q /\ d \in p.days /\ d \in q.days
    BY <2>1, TwoRuns
  <2>3. ~apart
    BY <2>2
  <2>4. Split(s) = {}
    BY <2>3, SplitIs
  <2> QED BY <1>3, <2>4 DEF Kept
<1> QED BY <1>2, <1>3

(* split_service: whatever the days of the sections of a service are, a    *)
(* service whose days leave out no section in the middle runs on each of   *)
(* its days in exactly one piece, which spans the day's sections, and any  *)
(* other service is skipped.                                               *)
THEOREM SplitKept == LoadSpec => []SplitKeepsRides
<1>1. LoadInit => plan \in Plans
  BY DEF LoadInit
<1>2. plan \in Plans /\ [LoadNext]_loadVars => (plan \in Plans)'
  BY DEF LoadNext, loadVars
<1>3. ASSUME plan \in Plans PROVE SplitKeepsRides
  <2>1. \A i \in DOMAIN plan : Kept(plan[i].sections)
    BY <1>3, PlansAssumption, SplitKeeps
  <2> QED BY <2>1 DEF SplitKeepsRides, Kept, On, Quantify
<1> QED BY <1>1, <1>2, <1>3, PTL DEF LoadSpec

-----------------------------------------------------------------------------
(* The offset of a zone that is used to convert the local time t.          *)
OffsetAt(z, t) ==
  LET on == Seasons(CreateTimezone(z), t)
  IN IF on = {} THEN z.general ELSE (CHOOSE x \in on : TRUE).offset

(* The local minutes of the days of the schedule.                          *)
Inside(t) == t \in Int /\ ScheduleOffset * DayLen <= t /\ t < (ScheduleOffset + LastDay + 1) * DayLen

(* More days are at least as many minutes.                                 *)
LEMMA Products ==
  ASSUME NEW a \in Int, NEW b \in Int, NEW n \in Nat, a <= b
  PROVE  a * n <= b * n
OBVIOUS

(* The constants are numbers of hours, days and minutes.                   *)
LEMMA Constants ==
  /\ Hour \in Nat /\ ScheduleOffset \in Nat /\ MaxDays \in Nat /\ LastDay \in Nat
  /\ FromDay \in Nat /\ ToDay \in Nat /\ DayLen \in Nat /\ DayLen > 0 /\ Hour > 0 /\ ScheduleOffset > 0
  /\ ScheduleOffset + LastDay < MaxDays /\ Hour < DayLen
BY PlansAssumption, RouteAssumption

(* The local limits of a season.                                           *)
Begins(x) == (ScheduleOffset + x.first) * DayLen + x.begin
Ends(x)   == (ScheduleOffset + x.last) * DayLen + x.end

(* A season begins and ends within its days, and where these lie outside   *)
(* of the schedule so do its limits.                                       *)
LEMMA SeasonLimits ==
  ASSUME NEW z, RegularZone(z), NEW x \in z.season
  PROVE  /\ Begins(x) \in Int /\ Ends(x) \in Int /\ x.offset \in Int /\ z.general \in Int
         /\ z.general <= x.offset /\ x.offset < ScheduleOffset * DayLen
         /\ Begins(x) + 2 * (x.offset - z.general) <= Ends(x)
         /\ x.first < 0 => Begins(x) < ScheduleOffset * DayLen
         /\ x.last < 0 => Ends(x) < ScheduleOffset * DayLen
         /\ x.first > LastDay => Begins(x) >= (ScheduleOffset + LastDay + 1) * DayLen
         /\ x.last > LastDay => Ends(x) >= (ScheduleOffset + LastDay + 1) * DayLen
         /\ MaxDays * DayLen >= (ScheduleOffset + LastDay + 1) * DayLen
<1>1. /\ x.offset \in Int /\ x.first \in Int /\ x.last \in Int
      /\ x.begin \in 0..DayLen - 1 /\ x.end \in 0..DayLen - 1 /\ z.general \in Int
      /\ z.general <= x.offset
      /\ x.first * DayLen + x.begin + 2 * (x.offset - z.general) <= x.last * DayLen + x.end
  BY DEF RegularZone
<1> DEFINE SD == ScheduleOffset * DayLen
           FD == x.first * DayLen
           LD == x.last * DayLen
           ED == (ScheduleOffset + LastDay + 1) * DayLen
<1>2. /\ SD \in Int /\ FD \in Int /\ LD \in Int /\ ED \in Int
      /\ (ScheduleOffset + x.first) * DayLen = SD + FD
      /\ (ScheduleOffset + x.last) * DayLen = SD + LD
  BY <1>1, Constants
<1>3. x.first < 0 => FD <= -DayLen
  <2>1. x.first < 0 => x.first * DayLen <= (-1) * DayLen
    BY <1>1, Constants, Products
  <2> QED BY <2>1, Constants
<1>4. x.last < 0 => LD <= -DayLen
  <2>1. x.last < 0 => x.last * DayLen <= (-1) * DayLen
    BY <1>1, Constants, Products
  <2> QED BY <2>1, Constants
<1>5. x.first > LastDay => (ScheduleOffset + x.first) * DayLen >= ED
  <2> DEFINE a == ScheduleOffset + LastDay + 1
             b == ScheduleOffset + x.first
  <2>1. a \in Int /\ b \in Int /\ DayLen \in Nat /\ (x.first > LastDay => a <= b)
    BY <1>1, Constants
  <2> HIDE DEF a, b
  <2>2. x.first > LastDay => a * DayLen <= b * DayLen
    BY <2>1, Products
  <2>3. a * DayLen \in Int /\ b * DayLen \in Int
    BY <2>1
  <2> QED BY <2>2, <2>3 DEF a, b
<1>6. x.last > LastDay => (ScheduleOffset + x.last) * DayLen >= ED
  <2> DEFINE a == ScheduleOffset + LastDay + 1
             b == ScheduleOffset + x.last
  <2>1. a \in Int /\ b \in Int /\ DayLen \in Nat /\ (x.last > LastDay => a <= b)
    BY <1>1, Constants
  <2> HIDE DEF a, b
  <2>2. x.last > LastDay => a * DayLen <= b * DayLen
    BY <2>1, Products
  <2>3. a * DayLen \in Int /\ b * DayLen \in Int
    BY <2>1
  <2> QED BY <2>2, <2>3 DEF a, b
<1>7. MaxDays * DayLen >= ED
  <2>1. ScheduleOffset + LastDay + 1 <= MaxDays
    BY Constants
  <2> QED BY <2>1, Constants, Products
<1>16. x.offset < SD
  <2>1. 1 * DayLen <= ScheduleOffset * DayLen
    BY Constants, Products
  <2>2. x.offset < DayLen
    BY DEF RegularZone
  <2> QED BY <1>1, <2>1, <2>2, Constants DEF SD
<1> HIDE DEF SD, FD, LD, ED
<1>8. Begins(x) = SD + FD + x.begin /\ Ends(x) = SD + LD + x.end
  BY <1>2 DEF Begins, Ends
<1>9. x.begin \in Int /\ x.end \in Int /\ 0 <= x.begin /\ x.begin < DayLen /\ 0 <= x.end /\ x.end < DayLen
  BY <1>1, Constants
<1>10. Begins(x) + 2 * (x.offset - z.general) <= Ends(x)
  BY <1>1, <1>2, <1>8, <1>9 DEF FD, LD
<1>11. SD + FD + x.begin >= SD + FD /\ SD + LD + x.end >= SD + LD
  BY <1>2, <1>9
<1>12. x.first < 0 => SD + FD + x.begin < SD
  BY <1>2, <1>3, <1>9, Constants
<1>13. x.last < 0 => SD + LD + x.end < SD
  BY <1>2, <1>4, <1>9, Constants
<1>14. x.first > LastDay => SD + FD + x.begin >= ED
  BY <1>2, <1>5, <1>9, <1>11
<1>15. x.last > LastDay => SD + LD + x.end >= ED
  BY <1>2, <1>6, <1>9, <1>11
<1> QED BY <1>1, <1>2, <1>7, <1>8, <1>9, <1>10, <1>12, <1>13, <1>14, <1>15, <1>16 DEF SD, ED

(* A local time that the clocks show at all is converted to the first      *)
(* instant at which they show it, and is not taken to be impossible.       *)
LEMMA ClockIs ==
  ASSUME NEW z, RegularZone(z), NEW t, Inside(t), Instants(z, t) # {}
  PROVE  /\ t - OffsetAt(z, t) \in Instants(z, t)
         /\ \A u \in Instants(z, t) : t - OffsetAt(z, t) <= u
         /\ \A y \in Seasons(CreateTimezone(z), t) : y.begin <= t - OffsetAt(z, t)
<1>1. /\ t \in Int /\ ScheduleOffset * DayLen <= t /\ t < (ScheduleOffset + LastDay + 1) * DayLen
      /\ z.general \in Int
      /\ ScheduleOffset * DayLen \in Int /\ (ScheduleOffset + LastDay + 1) * DayLen \in Int
      /\ MaxDays * DayLen \in Int /\ LastDay \in Int
  BY Constants DEF Inside, RegularZone
<1>2. CASE z.season = {}
  <2>1. Seasons(CreateTimezone(z), t) = {}
    BY <1>2 DEF Seasons, CreateTimezone
  <2>2. OffsetAt(z, t) = z.general
    BY <2>1 DEF OffsetAt
  <2>3. \A u : Local(z, u) = u + z.general
    BY <1>2 DEF Local
  <2>4. Instants(z, t) = {t - z.general}
    BY <1>1, <1>2, <2>3 DEF Instants
  <2> QED BY <1>1, <2>1, <2>2, <2>4
<1>3. ASSUME NEW x \in z.season
      PROVE  /\ t - OffsetAt(z, t) \in Instants(z, t)
             /\ \A u \in Instants(z, t) : t - OffsetAt(z, t) <= u
             /\ \A y \in Seasons(CreateTimezone(z), t) : y.begin <= t - OffsetAt(z, t)
  <2> DEFINE g == z.general
             o == x.offset
             y == [offset |-> o,
                   begin |-> IF 0 <= x.first THEN Begins(x) - g ELSE 0,
                   end   |-> IF x.last <= LastDay THEN Ends(x) - o ELSE MaxDays * DayLen - o]
             InSeason(u) == Begins(x) - g <= u /\ u <= Ends(x) - o
  <2>1. z.season = {x}
    BY <1>3 DEF RegularZone
  <2>2. /\ Begins(x) \in Int /\ Ends(x) \in Int /\ o \in Int /\ g \in Int
        /\ g <= o /\ o < ScheduleOffset * DayLen
        /\ Begins(x) + 2 * (o - g) <= Ends(x)
        /\ x.first < 0 => Begins(x) < ScheduleOffset * DayLen
        /\ x.last < 0 => Ends(x) < ScheduleOffset * DayLen
        /\ x.first > LastDay => Begins(x) >= (ScheduleOffset + LastDay + 1) * DayLen
        /\ x.last > LastDay => Ends(x) >= (ScheduleOffset + LastDay + 1) * DayLen
        /\ MaxDays * DayLen >= (ScheduleOffset + LastDay + 1) * DayLen
        /\ x.first \in Int /\ x.last \in Int
    BY <1>3, SeasonLimits DEF RegularZone
  <2>0. /\ x.begin \in Int /\ x.end \in Int /\ x.offset \in Int /\ z.general \in Int
        /\ (ScheduleOffset + x.first) * DayLen \in Int /\ (ScheduleOffset + x.last) * DayLen \in Int
    BY <1>3, Constants DEF RegularZone
  <2>3. CreateTimezone(z).season = IF 0 <= x.last /\ x.first <= LastDay THEN {y} ELSE {}
    <3> DEFINE Made(v) == [offset |-> v.offset,
                           begin  |-> IF 0 <= v.first
                                      THEN (ScheduleOffset + v.first) * DayLen + v.begin - z.general ELSE 0,
                           end    |-> IF v.last <= LastDay
                                      THEN (ScheduleOffset + v.last) * DayLen + v.end - v.offset
                                      ELSE MaxDays * DayLen - v.offset]
               those == {v \in z.season : 0 <= v.last /\ v.first <= LastDay}
    <3>1. CreateTimezone(z).season = {Made(v) : v \in those}
      BY DEF CreateTimezone
    <3>2. Made(x) = y
      BY <2>0 DEF Begins, Ends
    <3>3. those = IF 0 <= x.last /\ x.first <= LastDay THEN {x} ELSE {}
      BY <2>1
    <3> HIDE DEF Kept, those, y
    <3> QED BY <3>1, <3>2, <3>3
  <2>4. CreateTimezone(z).general = g
    BY DEF CreateTimezone
  <2>5. \A u : Local(z, u) = u + IF InSeason(u) THEN o ELSE g
    <3> TAKE u
    <3> DEFINE on == {s \in z.season :
                       /\ (ScheduleOffset + s.first) * DayLen + s.begin - z.general <= u
                       /\ u <= (ScheduleOffset + s.last) * DayLen + s.end - s.offset}
    <3>1. on = IF InSeason(u) THEN {x} ELSE {}
      <4>1. x \in on <=> InSeason(u)
        BY <2>0 DEF Begins, Ends
      <4>2. on \in SUBSET {x}
        BY <2>1
      <4> HIDE DEF on
      <4> QED BY <4>1, <4>2
    <3>2. Local(z, u) = u + IF on = {} THEN g ELSE (CHOOSE s \in on : TRUE).offset
      BY DEF Local
    <3> HIDE DEF on
    <3>3. on = {x} => (CHOOSE s \in on : TRUE) = x
      OBVIOUS
    <3> QED BY <3>1, <3>2, <3>3
  <2>6. \A u : u \in Instants(z, t) <=> (u = t - g \/ u = t - o) /\ Local(z, u) = t
    BY <2>1 DEF Instants
  <2> DEFINE kept == 0 <= x.last /\ x.first <= LastDay
             on == kept /\ y.begin + g <= t /\ t <= y.end + o
  <2>7. Seasons(CreateTimezone(z), t) = IF on THEN {y} ELSE {}
    BY <2>3, <2>4 DEF Seasons
  <2>8. OffsetAt(z, t) = IF on THEN o ELSE g
    <3>1. on => (CHOOSE s \in Seasons(CreateTimezone(z), t) : TRUE) = y
      BY <2>7
    <3>2. OffsetAt(z, t) = IF Seasons(CreateTimezone(z), t) = {} THEN g
                           ELSE (CHOOSE s \in Seasons(CreateTimezone(z), t) : TRUE).offset
      BY DEF OffsetAt
    <3>3. y.offset = o
      OBVIOUS
    <3> HIDE DEF on, y
    <3> QED BY <2>7, <3>1, <3>2, <3>3
  <2>9. on <=> kept /\ Begins(x) <= t /\ t <= Ends(x)
    BY <1>1, <2>2
  <2>10. on => y.begin = IF 0 <= x.first THEN Begins(x) - g ELSE 0
    OBVIOUS
  <2>11. /\ y.begin \in Int /\ (kept \/ ~(Begins(x) <= t /\ t <= Ends(x)))
    BY <1>1, <2>2
  <2> HIDE DEF on, y, kept
  <2>12. CASE ~on
    <3>1. ~(Begins(x) <= t /\ t <= Ends(x))
      BY <2>9, <2>11, <2>12
    <3>2. ~InSeason(t - g) /\ Local(z, t - g) = t
      BY <1>1, <2>2, <2>5, <3>1
    <3>3. \A u \in Instants(z, t) : t - g <= u
      <4>1. t - o \in Instants(z, t) => o = g
        <5>1. ~InSeason(t - o)
          BY <1>1, <2>2, <3>1
        <5>2. Local(z, t - o) = (t - o) + g
          BY <2>5, <5>1
        <5>3. t - o \in Instants(z, t) => Local(z, t - o) = t
          BY <2>6
        <5>4. (t - o) + g = t => o = g
          <6>1. \A a, b, c \in Int : (a - b) + c = a => b = c
            OBVIOUS
          <6>2. t \in Int /\ o \in Int /\ g \in Int
            BY <1>1, <2>2
          <6> HIDE DEF o, g
          <6> QED BY <6>1, <6>2
        <5> QED BY <5>2, <5>3, <5>4
      <4> QED BY <1>1, <2>2, <2>6, <4>1
    <3> QED BY <2>6, <2>7, <2>8, <2>12, <3>2, <3>3
  <2>13. CASE on
    <3>1. Begins(x) <= t /\ t <= Ends(x)
      BY <2>9, <2>13
    <3>2. Begins(x) - g <= t - o
      <4> SUFFICES ASSUME ~(Begins(x) - g <= t - o) PROVE FALSE
        OBVIOUS
      <4>1. o # g
        BY <1>1, <2>2, <3>1
      <4>2. ~InSeason(t - o) /\ InSeason(t - g)
        BY <1>1, <2>2, <3>1
      <4>3. Local(z, t - o) # t /\ Local(z, t - g) # t
        BY <1>1, <2>2, <2>5, <4>1, <4>2
      <4> QED BY <2>6, <4>3
    <3>3. InSeason(t - o) /\ Local(z, t - o) = t
      BY <1>1, <2>2, <2>5, <3>1, <3>2
    <3>4. y.begin <= t - o
      BY <1>1, <2>2, <2>10, <2>13, <3>2
    <3>5. \A u \in Instants(z, t) : t - o <= u
      BY <1>1, <2>2, <2>6
    <3> QED BY <2>6, <2>7, <2>8, <2>13, <3>3, <3>4, <3>5
  <2> QED BY <2>12, <2>13
<1> QED BY <1>2, <1>3

-----------------------------------------------------------------------------
(* What is counted up to n from 0.                                         *)
LEMMA CountUp ==
  ASSUME NEW n \in Nat, NEW Q, 0 \in Q, \A k \in 1..n : k - 1 \in Q => k \in Q
  PROVE  \A k \in 0..n : k \in Q
<1> DEFINE bad == {k \in 0..n : k \notin Q}
<1>1. SUFFICES ASSUME bad # {} PROVE FALSE
  OBVIOUS
<1>2. PICK m \in bad : \A y \in bad : m <= y
  <2>1. IsFiniteSet(bad)
    <3>1. IsFiniteSet(0..n)
      BY FS_Interval
    <3> QED BY <3>1, FS_Subset
  <2>2. bad \in SUBSET Int
    OBVIOUS
  <2> HIDE DEF bad
  <2> QED BY <1>1, <2>1, <2>2, FiniteExtrema
<1>3. m \in 1..n
  <2>1. m \in 0..n /\ m # 0
    BY <1>2
  <2> QED BY <2>1
<1>4. m - 1 \in 0..n /\ ~(m <= m - 1)
  BY <1>3
<1>5. m - 1 \in Q
  BY <1>2, <1>4
<1> QED BY <1>2, <1>3, <1>5

(* n steps, the k-th of which is g[k].                                     *)
Steps(f, s0, g, n) == f[0] = s0 /\ \A k \in 1..n : f[k] = g[k][f[k - 1]]

(* What is made in n steps exists.                                         *)
LEMMA StepsExist ==
  ASSUME NEW S, NEW s0 \in S, NEW n \in Nat, NEW g \in [1..n -> [S -> S]]
  PROVE  \E f \in [0..n -> S] : Steps(f, s0, g, n)
<1> DEFINE Is(f, m) == f \in [0..m -> S] /\ Steps(f, s0, g, m)
           Q == {m \in 0..n : \E f : Is(f, m)}
<1>1. 0 \in Q
  <2> DEFINE f == [k \in 0..0 |-> s0]
  <2>1. 0 \in 0..n /\ 0..0 = {0} /\ 1..0 = {}
    OBVIOUS
  <2>2. Is(f, 0)
    BY <2>1 DEF Steps
  <2> HIDE DEF Is, f
  <2> QED BY <2>1, <2>2
<1>2. ASSUME NEW m \in 1..n, m - 1 \in Q PROVE m \in Q
  <2>1. PICK f : Is(f, m - 1)
    BY <1>2
  <2> DEFINE w == [k \in 0..m |-> IF k = m THEN g[m][f[m - 1]] ELSE f[k]]
  <2>2. m \in 0..n /\ m \in Nat /\ m - 1 \in 0..m - 1
    OBVIOUS
  <2>3. ASSUME NEW k \in 0..m PROVE w[k] \in S
    <3>1. k = m \/ k \in 0..m - 1
      BY <2>2
    <3> QED BY <2>1, <2>2, <3>1
  <2>4. w[0] = s0
    <3>1. 0 \in 0..m /\ 0 # m
      BY <1>2
    <3> QED BY <2>1, <3>1 DEF Steps
  <2>5. ASSUME NEW k \in 1..m PROVE w[k] = g[k][w[k - 1]]
    <3>1. k \in 0..m /\ k - 1 \in 0..m /\ k - 1 # m /\ k \in Nat
      BY <2>2
    <3>2. w[k - 1] = f[k - 1]
      BY <3>1
    <3>3. CASE k = m
      BY <3>1, <3>2, <3>3
    <3>4. CASE k # m
      <4>1. k \in 1..m - 1
        BY <2>2, <3>1, <3>4
      <4>2. w[k] = f[k]
        BY <3>1, <3>4
      <4> QED BY <2>1, <3>2, <4>1, <4>2 DEF Steps
    <3> QED BY <3>3, <3>4
  <2>6. w \in [0..m -> S]
    BY <2>3
  <2> HIDE DEF w
  <2>7. Is(w, m)
    BY <2>4, <2>5, <2>6 DEF Steps
  <2> HIDE DEF Is
  <2> QED BY <2>2, <2>7
<1> HIDE DEF Q
<1>3. \A k \in 0..n : k \in Q
  BY <1>1, <1>2, CountUp
<1> QED BY <1>3 DEF Q

-----------------------------------------------------------------------------
(* A local time of a day, in minutes of the schedule, and the UTC day it   *)
(* is put on before its offset is taken off.                               *)
At(day, local) == (day + ScheduleOffset) * DayLen + local
DayOf(day, local) == day + local \div DayLen + ScheduleOffset

(* Offsets and adjustments together are less than a day.                   *)
LEMMA OffsetRange ==
  ASSUME NEW z, RegularZone(z), NEW t
  PROVE  /\ OffsetAt(z, t) \in Int /\ z.general \in Int
         /\ z.general <= OffsetAt(z, t) /\ (OffsetAt(z, t) - z.general) + Hour < DayLen
<1> DEFINE on == Seasons(CreateTimezone(z), t)
<1>1. z.general \in Int /\ z.general - z.general + Hour < DayLen
  BY Constants DEF RegularZone
<1>2. CASE on = {}
  <2>1. OffsetAt(z, t) = z.general
    BY <1>2 DEF OffsetAt
  <2> QED BY <1>1, <2>1
<1>3. CASE on # {}
  <2>1. PICK y \in on : y = CHOOSE x \in on : TRUE
    BY <1>3
  <2>2. OffsetAt(z, t) = y.offset
    BY <1>3, <2>1 DEF OffsetAt
  <2>3. y \in CreateTimezone(z).season
    BY <2>1 DEF Seasons
  <2>4. PICK x \in z.season : y.offset = x.offset
    BY <2>3 DEF CreateTimezone
  <2> QED BY <1>1, <2>2, <2>4 DEF RegularZone
<1> QED BY <1>2, <1>3

(* A local time is a minute of a day.                                      *)
LEMMA DayAndMinute ==
  ASSUME NEW d \in Nat, NEW local \in Nat
  PROVE  /\ DayOf(d, local) * DayLen + (local % DayLen) = At(d, local)
         /\ DayOf(d, local) \in Int /\ At(d, local) \in Int
         /\ local % DayLen \in 0..DayLen - 1
         /\ local \div DayLen \in Nat
<1>1. local = DayLen * (local \div DayLen) + (local % DayLen) /\ local \div DayLen \in Int
      /\ local % DayLen \in 0..DayLen - 1
  BY Constants
<1>2. local \div DayLen \in Nat
  BY <1>1, Constants
<1> DEFINE q == local \div DayLen
           r == local % DayLen
<1> HIDE DEF q, r
<1>3. /\ (d + q + ScheduleOffset) * DayLen + r = (d + ScheduleOffset) * DayLen + DayLen * q + r
      /\ d + q + ScheduleOffset \in Int /\ DayLen * q \in Int /\ (d + ScheduleOffset) * DayLen \in Int
  BY <1>1, Constants DEF q, r
<1> QED BY <1>1, <1>2, <1>3 DEF q, r, DayOf, At

(* A conversion takes the offset off and adds the adjustment.              *)
LEMMA UtcIs ==
  ASSUME NEW zone, RegularZone(zone), NEW d \in Nat, NEW local \in Nat, NEW fix \in Int,
         NEW u, u = Utc(CreateTimezone(zone), d, local, fix)
  PROVE  /\ u.fix = fix
         /\ u.abs = At(d, local) - OffsetAt(zone, At(d, local)) + fix
         /\ u.possible <=> \A y \in Seasons(CreateTimezone(zone), At(d, local)) : y.begin <= u.abs
         /\ u.abs \in Int
         /\ u.day \in {DayOf(d, local) - 1, DayOf(d, local)}
<1> DEFINE z      == CreateTimezone(zone)
           adj    == DayOf(d, local)
           m      == local % DayLen
           season == Seasons(z, adj * DayLen + m)
           offset == IF season = {} THEN z.general ELSE (CHOOSE x \in season : TRUE).offset
           pre    == m - offset + fix
           abs    == adj * DayLen + pre
<1>1. adj * DayLen + m = At(d, local) /\ adj \in Int /\ At(d, local) \in Int /\ m \in Int
      /\ adj * DayLen \in Int
  BY DayAndMinute, Constants
<1>2. offset = OffsetAt(zone, At(d, local))
  <2>1. z.general = zone.general
    BY DEF CreateTimezone
  <2>2. OffsetAt(zone, At(d, local))
          = IF Seasons(z, At(d, local)) = {} THEN zone.general
            ELSE (CHOOSE x \in Seasons(z, At(d, local)) : TRUE).offset
    BY DEF OffsetAt
  <2> HIDE DEF z, adj, m
  <2> QED BY <1>1, <2>1, <2>2
<1>3. offset \in Int
  BY <1>2, OffsetRange
<1>4. u = [fix |-> fix, day |-> IF pre < 0 THEN adj - 1 ELSE adj, abs |-> abs,
           possible |-> \A x \in season : x.begin <= abs]
  BY DEF Utc, DayOf
<1>5. season = Seasons(z, At(d, local))
  BY <1>1
<1>6. abs = At(d, local) - offset + fix /\ abs \in Int
  <2> HIDE DEF offset, adj, m
  <2> QED BY <1>1, <1>3
<1> HIDE DEF offset, adj, m, pre, abs, season
<1>7. u.fix = fix /\ u.abs = abs /\ (u.possible <=> \A x \in season : x.begin <= abs)
      /\ u.day = IF pre < 0 THEN adj - 1 ELSE adj
  BY <1>4
<1>8. u.day \in {adj - 1, adj}
  BY <1>7
<1> QED BY <1>2, <1>5, <1>6, <1>7, <1>8 DEF adj

(* What is known of a traffic day as far as it is converted.               *)
Converting == [ok : BOOLEAN, fix : {0, Hour}, initial : Int, times : Seq(Int)]

(* The event that is converted has its time, but for one of the two        *)
(* adjustments.                                                            *)
Extends(c, b, zone, d, local) ==
  /\ b.ok
  /\ b.times = <<>> => c.initial \in {DayOf(d, local) - 1, DayOf(d, local)}
  /\ b.times # <<>> => c.initial = b.initial
  /\ \E fix \in {0, Hour} :
       c.times = Append(b.times, ((At(d, local) - OffsetAt(zone, At(d, local))) + fix)
                                 - c.initial * DayLen)

(* An event that is converted is shifted by no more than the hour of the   *)
(* adjustment.                                                             *)
LEMMA ExtendedIs ==
  ASSUME NEW b \in Converting, NEW zone, RegularZone(zone), NEW d \in Nat, NEW local \in Nat,
         NEW c, c = Extended(b, zone, d, local)
  PROVE  c \in Converting /\ (c.ok => Extends(c, b, zone, d, local))
<1> DEFINE z       == CreateTimezone(zone)
           first   == b.times = <<>>
           fitting == {u \in {Utc(z, d, local, fix) : fix \in {b.fix, Hour}} :
                         u.possible /\ (first \/ Last(b.times) <= u.abs - b.initial * DayLen)}
           utc     == CHOOSE u \in fitting : \A v \in fitting : u.fix <= v.fix
           initial == IF first THEN utc.day ELSE b.initial
<1>1. c = IF ~b.ok \/ fitting = {} THEN [b EXCEPT !.ok = FALSE]
          ELSE [ok |-> TRUE, fix |-> utc.fix, initial |-> initial,
                times |-> Append(b.times, utc.abs - initial * DayLen)]
  BY DEF Extended
<1>2. b.fix \in Int /\ Hour \in Int
  BY Constants DEF Converting
<1>3. CASE ~b.ok \/ fitting = {}
  <2> HIDE DEF fitting
  <2>1. c = [b EXCEPT !.ok = FALSE]
    BY <1>1, <1>3
  <2> QED BY <2>1 DEF Converting
<1>4. CASE b.ok /\ fitting # {}
  <2>1. \E u \in fitting : \A v \in fitting : u.fix <= v.fix
    <3>1. \A v \in fitting : v.fix \in {b.fix, Hour}
      BY <1>2, UtcIs
    <3> HIDE DEF fitting
    <3> QED BY <1>2, <1>4, <3>1
  <2>2. utc \in fitting
    <3> HIDE DEF fitting
    <3> QED BY <2>1
  <2>3. PICK fix \in {b.fix, Hour} : utc = Utc(z, d, local, fix)
    BY <2>2
  <2> HIDE DEF utc
  <2>4. fix \in {0, Hour} /\ fix \in Int
    BY <1>2 DEF Converting
  <2>5. /\ utc.fix = fix
        /\ utc.abs = At(d, local) - OffsetAt(zone, At(d, local)) + fix
        /\ utc.abs \in Int
        /\ utc.day \in {DayOf(d, local) - 1, DayOf(d, local)}
    BY <2>3, <2>4, UtcIs
  <2>6. DayOf(d, local) \in Int
    BY DayAndMinute
  <2>7. initial \in Int
    BY <2>5, <2>6 DEF Converting
  <2> HIDE DEF initial, fitting
  <2>8. c = [ok |-> TRUE, fix |-> fix, initial |-> initial,
             times |-> Append(b.times, utc.abs - initial * DayLen)]
    BY <1>1, <1>4, <2>5
  <2>9. utc.abs - initial * DayLen \in Int
    BY <2>5, <2>7, Constants
  <2>10. c \in Converting
    BY <2>4, <2>7, <2>8, <2>9 DEF Converting
  <2>11. c.initial = initial /\ c.times = Append(b.times, utc.abs - initial * DayLen)
    BY <2>8
  <2> QED BY <1>4, <2>4, <2>5, <2>10, <2>11 DEF initial, Extends
<1> QED BY <1>3, <1>4

(* An event whose local time is shown by the clock, behind the one before  *)
(* it, is converted to the first instant at which it is shown.             *)
ClearEvent(b, zone, t) ==
  /\ Inside(t) /\ Instants(zone, t) # {} /\ b.ok /\ b.fix = 0
  /\ b.times = <<>> \/ Last(b.times) <= (t - OffsetAt(zone, t)) - b.initial * DayLen

ExtendsClearly(c, b, zone, t) ==
  /\ c.ok /\ c.fix = 0
  /\ c.times = Append(b.times, (t - OffsetAt(zone, t)) - c.initial * DayLen)

(* On a clear day nothing is adjusted.                                     *)
LEMMA ClearStep ==
  ASSUME NEW b \in Converting, NEW zone, RegularZone(zone), NEW d \in Nat, NEW local \in Nat,
         NEW t, t = At(d, local), ClearEvent(b, zone, t),
         NEW c, c = Extended(b, zone, d, local)
  PROVE  ExtendsClearly(c, b, zone, t)
<1> DEFINE o == OffsetAt(zone, t)
<1>0. /\ Inside(t) /\ Instants(zone, t) # {} /\ b.ok /\ b.fix = 0
      /\ b.times = <<>> \/ Last(b.times) <= (t - o) - b.initial * DayLen
  BY DEF ClearEvent
<1> DEFINE z       == CreateTimezone(zone)
           first   == b.times = <<>>
           fitting == {u \in {Utc(z, d, local, fix) : fix \in {b.fix, Hour}} :
                         u.possible /\ (first \/ Last(b.times) <= u.abs - b.initial * DayLen)}
           utc     == CHOOSE u \in fitting : \A v \in fitting : u.fix <= v.fix
           initial == IF first THEN utc.day ELSE b.initial
           u0      == Utc(z, d, local, 0)
<1>1. c = IF ~b.ok \/ fitting = {} THEN [b EXCEPT !.ok = FALSE]
          ELSE [ok |-> TRUE, fix |-> utc.fix, initial |-> initial,
                times |-> Append(b.times, utc.abs - initial * DayLen)]
  BY DEF Extended
<1>2. t \in Int /\ o \in Int /\ Hour \in Int /\ 0 \in Int /\ Hour > 0
  BY Constants, DayAndMinute, OffsetRange
<1>3. /\ u0.fix = 0 /\ u0.abs = (t - o) + 0
      /\ u0.possible <=> \A y \in Seasons(z, t) : y.begin <= u0.abs
  BY <1>2, UtcIs
<1>4. u0.abs = t - o
  BY <1>2, <1>3
<1>5. u0.possible
  BY <1>0, <1>3, <1>4, ClockIs
<1>6. u0 \in fitting
  BY <1>0, <1>4, <1>5
<1>7. \A v \in fitting : v.fix \in {0, Hour} /\ (v.fix = 0 => v = u0)
  <2> TAKE v \in fitting
  <2>1. PICK fix \in {b.fix, Hour} : v = Utc(z, d, local, fix)
    OBVIOUS
  <2>2. v.fix = fix
    BY <1>0, <1>2, <2>1, UtcIs
  <2> QED BY <1>0, <2>1, <2>2
<1> HIDE DEF fitting, u0
<1>8. utc = u0
  <2>1. \A v \in fitting : u0.fix <= v.fix
    BY <1>2, <1>3, <1>7
  <2>2. utc \in fitting /\ \A v \in fitting : utc.fix <= v.fix
    BY <1>6, <2>1
  <2>3. utc.fix <= u0.fix
    BY <1>6, <2>2
  <2>4. utc.fix = 0
    BY <1>2, <1>3, <1>7, <2>2, <2>3
  <2> QED BY <1>7, <2>2, <2>4
<1> HIDE DEF utc
<1>9. c = [ok |-> TRUE, fix |-> utc.fix, initial |-> initial,
           times |-> Append(b.times, utc.abs - initial * DayLen)]
  BY <1>0, <1>1, <1>6
<1> HIDE DEF initial
<1>10. c.ok /\ c.fix = utc.fix /\ c.initial = initial
       /\ c.times = Append(b.times, utc.abs - initial * DayLen)
  BY <1>9
<1> QED BY <1>3, <1>4, <1>8, <1>10 DEF ExtendsClearly

-----------------------------------------------------------------------------
(* The conversion of a traffic day goes from event to event.               *)
NothingConverted == [ok |-> TRUE, fix |-> 0, initial |-> 0, times |-> <<>>]

ZoneOf(s, e) == s.zones[e \div 2 + 1]

Conversion(f, s, d) ==
  /\ f \in [0..Len(s.times) -> Converting]
  /\ f[0] = NothingConverted
  /\ \A e \in 1..Len(s.times) : f[e] = Extended(f[e - 1], ZoneOf(s, e), d, s.times[e])

(* Every event of a regular service has a time and a regular zone.         *)
LEMMA EventZone ==
  ASSUME NEW s, RegularService(s), s.sections \in Seq(SUBSET Nat), NEW e \in 1..Len(s.times)
  PROVE  /\ RegularZone(ZoneOf(s, e)) /\ s.times[e] \in Nat
         /\ s.times[e] - ZoneOf(s, e).general + Hour < (ScheduleOffset - 1) * DayLen
<1>1. Len(s.sections) \in Nat /\ Len(s.times) = 2 * Len(s.sections)
  BY DEF RegularService
<1>2. e \div 2 + 1 \in 1..Len(s.sections) + 1
  BY <1>1
<1>3. e \in DOMAIN s.times /\ s.times[e] \in Nat
  BY DEF RegularService
<1> QED BY <1>2, <1>3 DEF RegularService, ZoneOf

(* The conversion of a day is what its last event leaves.                  *)
LEMMA ConvertedIs ==
  ASSUME NEW s, RegularService(s), s.sections \in Seq(SUBSET Nat), NEW d \in Nat
  PROVE  \E f : Conversion(f, s, d) /\ Converted(s, d) = f[Len(s.times)]
<1> DEFINE N    == Len(s.times)
           V(f) == f = [e \in 0..N |-> IF e = 0 THEN NothingConverted
                                       ELSE Extended(f[e - 1], s.zones[e \div 2 + 1], d, s.times[e])]
           B    == CHOOSE f : V(f)
           g    == [e \in 1..N |-> [b \in Converting |-> Extended(b, ZoneOf(s, e), d, s.times[e])]]
<1>1. N \in Nat
  BY DEF RegularService
<1>2. Converted(s, d) = B[N]
  BY DEF Converted, NothingConverted
<1>3. g \in [1..N -> [Converting -> Converting]]
  <2> SUFFICES ASSUME NEW e \in 1..N, NEW b \in Converting
               PROVE  Extended(b, ZoneOf(s, e), d, s.times[e]) \in Converting
    OBVIOUS
  <2> QED BY EventZone, ExtendedIs
<1>4. NothingConverted \in Converting
  BY DEF NothingConverted, Converting
<1>5. PICK f \in [0..N -> Converting] : Steps(f, NothingConverted, g, N)
  <2> HIDE DEF g, N
  <2> QED BY <1>1, <1>3, <1>4, StepsExist
<1>6. f[0] = NothingConverted
  BY <1>5 DEF Steps
<1>7. ASSUME NEW e \in 1..N PROVE f[e] = Extended(f[e - 1], ZoneOf(s, e), d, s.times[e])
  <2>1. f[e] = g[e][f[e - 1]]
    BY <1>5 DEF Steps
  <2>2. e - 1 \in 0..N
    BY <1>1
  <2>3. f[e - 1] \in Converting
    BY <1>5, <2>2
  <2> QED BY <2>1, <2>3
<1>8. V(f)
  <2>1. f = [e \in 0..N |-> f[e]]
    BY <1>5
  <2>2. ASSUME NEW e \in 0..N
        PROVE  f[e] = IF e = 0 THEN NothingConverted
                      ELSE Extended(f[e - 1], s.zones[e \div 2 + 1], d, s.times[e])
    <3>1. e # 0 => e \in 1..N
      BY <1>1
    <3> QED BY <1>6, <1>7, <3>1 DEF ZoneOf
  <2> HIDE DEF N
  <2> QED BY <2>1, <2>2
<1>9. ASSUME NEW h, V(h) PROVE h = f
  <2> DEFINE Q == {e \in 0..N : h[e] = f[e]}
  <2>1. 0 \in Q
    BY <1>1, <1>6, <1>9
  <2>2. ASSUME NEW e \in 1..N, e - 1 \in Q PROVE e \in Q
    <3>1. e \in 0..N /\ e # 0
      BY <1>1
    <3>2. h[e] = Extended(h[e - 1], s.zones[e \div 2 + 1], d, s.times[e])
      BY <1>9, <3>1
    <3> QED BY <1>7, <2>2, <3>1, <3>2 DEF ZoneOf
  <2>3. \A e \in 0..N : e \in Q
    <3> HIDE DEF Q, N
    <3> QED BY <1>1, <2>1, <2>2, CountUp
  <2>4. h = [e \in 0..N |-> h[e]] /\ f = [e \in 0..N |-> f[e]]
    BY <1>5, <1>9
  <2> HIDE DEF N
  <2> QED BY <2>3, <2>4
<1>10. B = f
  <2> HIDE DEF V
  <2> QED BY <1>8, <1>9
<1> QED BY <1>2, <1>5, <1>6, <1>7, <1>10 DEF Conversion

(* The instant to which an event is converted when nothing is adjusted.    *)
EventAt(s, d, e)   == At(d, s.times[e])
Instant(s, d, e)   == EventAt(s, d, e) - OffsetAt(ZoneOf(s, e), EventAt(s, d, e))
FirstDays(s, d)    == {DayOf(d, s.times[1]) - 1, DayOf(d, s.times[1])}

Dated(b, s, d, e) ==
  \E fix \in {0, Hour} : b.times[e] = (Instant(s, d, e) + fix) - b.initial * DayLen

(* The first k events are converted.                                       *)
Progress(b, k, s, d) ==
  b.ok => /\ Len(b.times) = k
          /\ k > 0 => b.initial \in FirstDays(s, d)
          /\ \A e \in 1..k : Dated(b, s, d, e)

ClearProgress(b, k, s, d) ==
  /\ b.ok /\ b.fix = 0 /\ Len(b.times) = k
  /\ \A e \in 1..k : b.times[e] = Instant(s, d, e) - b.initial * DayLen

RegularPlan(s) == RegularService(s) /\ s.sections \in Seq(SUBSET Nat)

(* Instants are minutes.                                                   *)
LEMMA InstantIs ==
  ASSUME NEW s, RegularPlan(s), NEW d \in Nat, NEW e \in 1..Len(s.times)
  PROVE  Instant(s, d, e) \in Int /\ EventAt(s, d, e) \in Int
<1>1. RegularZone(ZoneOf(s, e)) /\ s.times[e] \in Nat
  BY EventZone DEF RegularPlan
<1>2. EventAt(s, d, e) \in Int
  BY <1>1, DayAndMinute DEF EventAt
<1>3. OffsetAt(ZoneOf(s, e), EventAt(s, d, e)) \in Int
  BY <1>1, OffsetRange
<1> QED BY <1>2, <1>3 DEF Instant

(* The next event is converted as those before it.                         *)
LEMMA ProgressStep ==
  ASSUME NEW s, RegularPlan(s), NEW d \in Nat, NEW k \in 1..Len(s.times),
         NEW b \in Converting, Progress(b, k - 1, s, d),
         NEW c, c = Extended(b, ZoneOf(s, k), d, s.times[k])
  PROVE  Progress(c, k, s, d)
<1>1. SUFFICES ASSUME c.ok
               PROVE  /\ Len(c.times) = k
                      /\ c.initial \in FirstDays(s, d)
                      /\ \A e \in 1..k : Dated(c, s, d, e)
  BY DEF Progress
<1>2. RegularZone(ZoneOf(s, k)) /\ s.times[k] \in Nat
  BY EventZone DEF RegularPlan
<1>3. /\ b.ok
      /\ b.times = <<>> => c.initial \in {DayOf(d, s.times[k]) - 1, DayOf(d, s.times[k])}
      /\ b.times # <<>> => c.initial = b.initial
      /\ c \in Converting
  <2>1. c \in Converting /\ Extends(c, b, ZoneOf(s, k), d, s.times[k])
    BY <1>1, <1>2, ExtendedIs
  <2> QED BY <2>1 DEF Extends
<1>4. PICK fix \in {0, Hour} : c.times = Append(b.times, (Instant(s, d, k) + fix) - c.initial * DayLen)
  <2>1. Extends(c, b, ZoneOf(s, k), d, s.times[k])
    BY <1>1, <1>2, ExtendedIs
  <2> QED BY <2>1 DEF Extends, Instant, EventAt
<1>5. /\ Len(b.times) = k - 1 /\ b.times \in Seq(Int)
      /\ k - 1 > 0 => b.initial \in FirstDays(s, d)
      /\ \A e \in 1..k - 1 : Dated(b, s, d, e)
  BY <1>3 DEF Progress, Converting
<1>6. /\ (Instant(s, d, k) + fix) - c.initial * DayLen \in Int
      /\ Len(s.times) \in Nat /\ k \in Nat /\ c.initial \in Int
  <2>1. fix \in Int
    BY Constants
  <2>2. c.initial \in Int /\ Len(s.times) \in Nat
    BY <1>3 DEF Converting, RegularPlan, RegularService
  <2>3. Instant(s, d, k) \in Int
    BY InstantIs
  <2>4. \A x \in Int, y \in Nat : x * y \in Int
    OBVIOUS
  <2>5. c.initial * DayLen \in Int
    BY <2>2, <2>4, Constants
  <2> QED BY <2>1, <2>2, <2>3, <2>5
<1> DEFINE v == (Instant(s, d, k) + fix) - c.initial * DayLen
<1>7. /\ Len(c.times) = k /\ c.times[k] = v
      /\ \A e \in 1..k - 1 : c.times[e] = b.times[e]
  <2> HIDE DEF v
  <2>1. v \in Int /\ c.times = Append(b.times, v)
    BY <1>4, <1>6 DEF v
  <2> QED BY <1>5, <1>6, <2>1
<1>8. c.initial \in FirstDays(s, d) /\ (k > 1 => c.initial = b.initial)
  <2>1. CASE k = 1
    <3>1. b.times = <<>>
      BY <1>5, <2>1
    <3> QED BY <1>3, <2>1, <3>1 DEF FirstDays
  <2>2. CASE k > 1
    <3>1. b.times # <<>>
      BY <1>5, <2>2
    <3>2. k - 1 > 0
      BY <1>6, <2>2
    <3> QED BY <1>3, <1>5, <3>1, <3>2
  <2> QED BY <1>6, <2>1, <2>2
<1>9. ASSUME NEW e \in 1..k PROVE Dated(c, s, d, e)
  <2>1. CASE e = k
    BY <1>7, <2>1 DEF Dated
  <2>2. CASE e # k
    <3>1. e \in 1..k - 1 /\ k > 1
      BY <1>6, <2>2
    <3>2. Dated(b, s, d, e) /\ c.times[e] = b.times[e] /\ c.initial = b.initial
      BY <1>5, <1>7, <1>8, <3>1
    <3> QED BY <3>2 DEF Dated
  <2> QED BY <2>1, <2>2
<1> QED BY <1>7, <1>8, <1>9

(* A day that is converted has its times but for the adjustments.          *)
LEMMA ConvertedOk ==
  ASSUME NEW s, RegularPlan(s), NEW d \in Nat
  PROVE  /\ Converted(s, d) \in Converting
         /\ Progress(Converted(s, d), Len(s.times), s, d)
<1>1. PICK f : Conversion(f, s, d) /\ Converted(s, d) = f[Len(s.times)]
  BY ConvertedIs DEF RegularPlan
<1>2. Len(s.times) \in Nat
  BY DEF RegularPlan, RegularService
<1> DEFINE Q == {k \in 0..Len(s.times) : Progress(f[k], k, s, d)}
<1>3. 0 \in Q
  <2>1. f[0] = NothingConverted /\ 1..0 = {} /\ ~(0 > 0) /\ Len(<<>>) = 0
    BY <1>1 DEF Conversion
  <2>2. f[0].times = <<>>
    BY <2>1 DEF NothingConverted
  <2> QED BY <1>2, <2>1, <2>2 DEF Progress
<1>4. ASSUME NEW k \in 1..Len(s.times), k - 1 \in Q PROVE k \in Q
  <2>1. k - 1 \in 0..Len(s.times) /\ k \in 0..Len(s.times)
    BY <1>2
  <2>2. f[k - 1] \in Converting /\ f[k] = Extended(f[k - 1], ZoneOf(s, k), d, s.times[k])
    BY <1>1, <2>1 DEF Conversion
  <2> QED BY <1>4, <2>1, <2>2, ProgressStep
<1>5. \A k \in 0..Len(s.times) : k \in Q
  <2> HIDE DEF Q
  <2> QED BY <1>2, <1>3, <1>4, CountUp
<1>6. Len(s.times) \in 0..Len(s.times)
  BY <1>2
<1>7. f[Len(s.times)] \in Converting
  BY <1>1, <1>6 DEF Conversion
<1> QED BY <1>1, <1>5, <1>6, <1>7

-----------------------------------------------------------------------------
(* On a clear day an event is converted to the first instant at which the  *)
(* clock shows its local time.                                             *)
LEMMA LeastIs ==
  ASSUME NEW S \in SUBSET Int, NEW x \in S, \A y \in S : x <= y
  PROVE  Min(S) = x
<1>1. Min(S) \in S /\ \A y \in S : Min(S) <= y
  BY DEF Min
<1>2. Min(S) <= x /\ x <= Min(S) /\ Min(S) \in Int /\ x \in Int
  BY <1>1
<1> QED BY <1>2

(* The events of a clear day lie inside the schedule, and the offset that  *)
(* is taken off leads to the first instant their time is shown at.         *)
LEMMA ClearInstants ==
  ASSUME NEW s, RegularPlan(s), NEW d \in Nat, Clear(s, d), NEW e \in 1..Len(s.times)
  PROVE  /\ Min(Shown(s, d, e)) = Instant(s, d, e)
         /\ Inside(EventAt(s, d, e)) /\ Instants(ZoneOf(s, e), EventAt(s, d, e)) # {}
<1>1. RegularZone(ZoneOf(s, e)) /\ s.times[e] \in Nat /\ e \in DOMAIN s.times
  BY EventZone DEF RegularPlan, RegularService
<1>2. Shown(s, d, e) = Instants(ZoneOf(s, e), EventAt(s, d, e))
  BY DEF Shown, ZoneOf, EventAt, At
<1>3. Shown(s, d, e) # {} /\ d * DayLen + s.times[e] < (LastDay + 1) * DayLen
  BY <1>1 DEF Clear
<1>4. Inside(EventAt(s, d, e))
  <2> DEFINE P == ScheduleOffset * DayLen
             L == (LastDay + 1) * DayLen
             T == d * DayLen
  <2>1. /\ P \in Int /\ L \in Int /\ T \in Nat
        /\ (d + ScheduleOffset) * DayLen = T + P
        /\ (ScheduleOffset + LastDay + 1) * DayLen = P + L
    BY Constants
  <2> HIDE DEF P, L, T
  <2>2. EventAt(s, d, e) = (T + P) + s.times[e]
    BY <2>1 DEF EventAt, At
  <2>3. T + s.times[e] < L
    BY <1>3 DEF T, L
  <2>4. P <= EventAt(s, d, e) /\ EventAt(s, d, e) < P + L /\ EventAt(s, d, e) \in Int
    BY <1>1, <2>1, <2>2, <2>3
  <2> QED BY <2>1, <2>4 DEF Inside, P
<1> DEFINE I == Instants(ZoneOf(s, e), EventAt(s, d, e))
<1>5. Instant(s, d, e) \in I /\ \A u \in I : Instant(s, d, e) <= u
  BY <1>1, <1>2, <1>3, <1>4, ClockIs DEF Instant
<1>6. I \in SUBSET Int
  BY <1>1, <1>4 DEF Instants, Inside, RegularZone
<1>7. Min(I) = Instant(s, d, e)
  <2> HIDE DEF I
  <2> QED BY <1>5, <1>6, LeastIs
<1> QED BY <1>2, <1>3, <1>4, <1>7

(* A clear day is converted without an adjustment.                         *)
LEMMA ConvertedClear ==
  ASSUME NEW s, RegularPlan(s), NEW d \in Nat, Clear(s, d)
  PROVE  ClearProgress(Converted(s, d), Len(s.times), s, d)
<1>1. PICK f : Conversion(f, s, d) /\ Converted(s, d) = f[Len(s.times)]
  BY ConvertedIs DEF RegularPlan
<1>2. Len(s.times) \in Nat /\ DOMAIN s.times = 1..Len(s.times)
  BY DEF RegularPlan, RegularService
<1> DEFINE Q == {k \in 0..Len(s.times) : ClearProgress(f[k], k, s, d)}
<1>3. 0 \in Q
  <2>1. f[0] = NothingConverted /\ 1..0 = {} /\ Len(<<>>) = 0
    BY <1>1 DEF Conversion
  <2>2. f[0].times = <<>> /\ f[0].ok /\ f[0].fix = 0
    BY <2>1 DEF NothingConverted
  <2> QED BY <1>2, <2>1, <2>2 DEF ClearProgress
<1>4. ASSUME NEW k \in 1..Len(s.times), k - 1 \in Q PROVE k \in Q
  <2>1. k - 1 \in 0..Len(s.times) /\ k \in 0..Len(s.times) /\ k \in Nat
    BY <1>2
  <2>2. f[k - 1] \in Converting /\ f[k] = Extended(f[k - 1], ZoneOf(s, k), d, s.times[k])
        /\ f[k] \in Converting
    BY <1>1, <2>1 DEF Conversion
  <2> DEFINE b == f[k - 1]
             c == f[k]
  <2>3. ClearProgress(b, k - 1, s, d)
    BY <1>4
  <2> HIDE DEF b, c
  <2>4. /\ b.ok /\ b.fix = 0 /\ Len(b.times) = k - 1 /\ b.times \in Seq(Int) /\ b.initial \in Int
        /\ \A e \in 1..k - 1 : b.times[e] = Instant(s, d, e) - b.initial * DayLen
    BY <2>2, <2>3 DEF ClearProgress, Converting, b
  <2>5. RegularZone(ZoneOf(s, k)) /\ s.times[k] \in Nat
    BY EventZone DEF RegularPlan
  <2>6. /\ Inside(EventAt(s, d, k)) /\ Instants(ZoneOf(s, k), EventAt(s, d, k)) # {}
        /\ Min(Shown(s, d, k)) = Instant(s, d, k) /\ Instant(s, d, k) \in Int
    BY ClearInstants, InstantIs
  <2>7. b.times = <<>> \/ Last(b.times) <= Instant(s, d, k) - b.initial * DayLen
    <3>1. CASE k = 1
      BY <2>4, <3>1
    <3>2. CASE k # 1
      <4>1. k \in 2..Len(s.times) /\ k - 1 \in 1..k - 1 /\ k - 1 \in 1..Len(s.times)
        BY <2>1, <3>2
      <4>2. Min(Shown(s, d, k - 1)) <= Min(Shown(s, d, k))
        BY <4>1 DEF Clear
      <4>3. Instant(s, d, k - 1) <= Instant(s, d, k) /\ Instant(s, d, k - 1) \in Int
        BY <2>6, <4>1, <4>2, ClearInstants, InstantIs
      <4>4. Last(b.times) = Instant(s, d, k - 1) - b.initial * DayLen
        BY <2>4, <4>1 DEF Last
      <4>5. b.initial * DayLen \in Int
        BY <2>4, Constants
      <4> QED BY <2>6, <4>3, <4>4, <4>5
    <3> QED BY <3>1, <3>2
  <2>8. c.ok /\ c.fix = 0 /\ c.times = Append(b.times, Instant(s, d, k) - c.initial * DayLen)
    <3>1. ClearEvent(b, ZoneOf(s, k), EventAt(s, d, k))
      BY <2>4, <2>6, <2>7 DEF ClearEvent, Instant
    <3>2. ExtendsClearly(c, b, ZoneOf(s, k), EventAt(s, d, k))
      BY <2>2, <2>5, <3>1, ClearStep DEF EventAt, b, c
    <3> QED BY <3>2 DEF ExtendsClearly, Instant
  <2>9. c.initial \in Int /\ (b.times # <<>> => c.initial = b.initial)
    <3>1. c \in Converting /\ Extends(c, b, ZoneOf(s, k), d, s.times[k])
      BY <2>2, <2>5, <2>8, ExtendedIs DEF b, c
    <3> QED BY <3>1 DEF Extends, Converting
  <2>10. Instant(s, d, k) - c.initial * DayLen \in Int
    BY <2>6, <2>9, Constants
  <2>11. /\ Len(c.times) = k /\ c.times[k] = Instant(s, d, k) - c.initial * DayLen
         /\ \A e \in 1..k - 1 : c.times[e] = b.times[e]
    <3> DEFINE v == Instant(s, d, k) - c.initial * DayLen
    <3>1. v \in Int /\ c.times = Append(b.times, v)
      BY <2>8, <2>10
    <3> HIDE DEF v
    <3>2. Len(c.times) = k /\ c.times[k] = v /\ \A e \in 1..k - 1 : c.times[e] = b.times[e]
      BY <2>1, <2>4, <3>1
    <3> QED BY <3>2 DEF v
  <2>12. ASSUME NEW e \in 1..k PROVE c.times[e] = Instant(s, d, e) - c.initial * DayLen
    <3>1. CASE e = k
      BY <2>11, <3>1
    <3>2. CASE e # k
      <4>1. e \in 1..k - 1
        BY <2>1, <3>2
      <4>2. b.times # <<>>
        BY <2>4, <4>1
      <4> QED BY <2>4, <2>9, <2>11, <4>1, <4>2
    <3> QED BY <3>1, <3>2
  <2>13. ClearProgress(c, k, s, d)
    BY <2>8, <2>11, <2>12 DEF ClearProgress
  <2> QED BY <2>1, <2>13 DEF c
<1>5. \A k \in 0..Len(s.times) : k \in Q
  <2> HIDE DEF Q
  <2> QED BY <1>2, <1>3, <1>4, CountUp
<1>6. Len(s.times) \in 0..Len(s.times)
  BY <1>2
<1> QED BY <1>1, <1>5, <1>6

-----------------------------------------------------------------------------
(* Two days of a service never come out alike: a change of the clock and   *)
(* an adjustment make less than a day.                                     *)
LEMMA DaysDiffer ==
  ASSUME NEW s, RegularPlan(s), NEW d1 \in Nat, NEW d2 \in Nat, d1 < d2, Len(s.times) > 0,
         Converted(s, d1).ok, Converted(s, d2).ok,
         Converted(s, d1).times = Converted(s, d2).times
  PROVE  Converted(s, d1).initial # Converted(s, d2).initial
<1> DEFINE z    == ZoneOf(s, 1)
           l    == s.times[1]
           o(d) == OffsetAt(z, At(d, l))
<1>1. 1 \in 1..Len(s.times)
  BY DEF RegularPlan, RegularService
<1>2. RegularZone(z) /\ l \in Nat
  BY <1>1, EventZone DEF RegularPlan
<1>3. ASSUME NEW d \in Nat, Converted(s, d).ok
      PROVE  /\ Converted(s, d).initial \in Int
             /\ \E fix \in {0, Hour} :
                  Converted(s, d).times[1] = ((At(d, l) - o(d)) + fix) - Converted(s, d).initial * DayLen
  <2>1. Converted(s, d) \in Converting /\ Dated(Converted(s, d), s, d, 1)
    BY <1>1, <1>3, ConvertedOk DEF Progress
  <2> QED BY <2>1 DEF Dated, Instant, EventAt, Converting
<1>4. PICK f1 \in {0, Hour} :
        Converted(s, d1).times[1] = ((At(d1, l) - o(d1)) + f1) - Converted(s, d1).initial * DayLen
  BY <1>3
<1>5. PICK f2 \in {0, Hour} :
        Converted(s, d2).times[1] = ((At(d2, l) - o(d2)) + f2) - Converted(s, d2).initial * DayLen
  BY <1>3
<1>6. /\ o(d1) \in Int /\ o(d2) \in Int /\ z.general \in Int
      /\ z.general <= o(d1) /\ (o(d2) - z.general) + Hour < DayLen
      /\ At(d1, l) \in Int /\ At(d2, l) \in Int /\ f1 \in Int /\ f2 \in Int
      /\ 0 <= f2 /\ f1 <= Hour
  <2>1. At(d1, l) \in Int /\ At(d2, l) \in Int
    BY <1>2, DayAndMinute
  <2>2. o(d1) \in Int /\ z.general \in Int /\ z.general <= o(d1)
    BY <1>2, OffsetRange
  <2>3. o(d2) \in Int /\ (o(d2) - z.general) + Hour < DayLen
    BY <1>2, OffsetRange
  <2> HIDE DEF o, z, l
  <2> QED BY <2>1, <2>2, <2>3, Constants
<1>7. At(d1, l) + DayLen <= At(d2, l)
  <2>1. d1 + ScheduleOffset + 1 <= d2 + ScheduleOffset
        /\ d1 + ScheduleOffset + 1 \in Int /\ d2 + ScheduleOffset \in Int
    BY Constants
  <2>2. (d1 + ScheduleOffset + 1) * DayLen <= (d2 + ScheduleOffset) * DayLen
    BY <2>1, Constants, Products
  <2>3. (d1 + ScheduleOffset + 1) * DayLen = (d1 + ScheduleOffset) * DayLen + DayLen
        /\ (d1 + ScheduleOffset) * DayLen \in Int /\ (d2 + ScheduleOffset) * DayLen \in Int
    BY Constants
  <2> DEFINE a == (d1 + ScheduleOffset) * DayLen
             b == (d2 + ScheduleOffset) * DayLen
  <2>4. a \in Int /\ b \in Int /\ a + DayLen <= b
    BY <2>2, <2>3
  <2>5. At(d1, l) = a + l /\ At(d2, l) = b + l
    BY DEF At
  <2> HIDE DEF a, b, l
  <2> QED BY <1>2, <2>4, <2>5, Constants
<1>8. SUFFICES ASSUME Converted(s, d1).initial = Converted(s, d2).initial PROVE FALSE
  OBVIOUS
<1> DEFINE x == Converted(s, d1).initial * DayLen
<1>9. x \in Int
  BY <1>3, Constants
<1> HIDE DEF o, x, z, l
<1>10. ((At(d1, l) - o(d1)) + f1) - x = ((At(d2, l) - o(d2)) + f2) - x
  BY <1>4, <1>5, <1>8 DEF x, l
<1>11. (At(d1, l) - o(d1)) + f1 = (At(d2, l) - o(d2)) + f2
  <2>1. (At(d1, l) - o(d1)) + f1 \in Int /\ (At(d2, l) - o(d2)) + f2 \in Int
    BY <1>6
  <2> HIDE DEF x
  <2> QED BY <1>9, <1>10, <2>1
<1>12. Hour \in Int /\ DayLen \in Int
  BY Constants
<1> QED BY <1>6, <1>7, <1>11, <1>12

(* A train never has more midnights behind it than days before it.         *)
LEMMA MidnightsBehind ==
  ASSUME NEW s, RegularPlan(s), NEW d \in Nat, Converted(s, d).ok, NEW e \in 1..Len(s.times)
  PROVE  Converted(s, d).times[e] < ScheduleOffset * DayLen
         /\ ScheduleOffset - 1 <= Converted(s, d).initial
<1> DEFINE c == Converted(s, d)
           z == ZoneOf(s, e)
           l == s.times[e]
           o == OffsetAt(z, At(d, l))
<1>1. Len(s.times) \in Nat /\ Len(s.times) > 0 /\ 1 \in 1..Len(s.times)
  BY DEF RegularPlan, RegularService
<1>2. RegularZone(z) /\ l \in Nat /\ l - z.general + Hour < (ScheduleOffset - 1) * DayLen
  BY EventZone DEF RegularPlan
<1>3. c \in Converting /\ c.initial \in FirstDays(s, d) /\ Dated(c, s, d, e)
  BY <1>1, ConvertedOk DEF Progress
<1> HIDE DEF c, z, o, l
<1>4. PICK fix \in {0, Hour} : c.times[e] = ((At(d, l) - o) + fix) - c.initial * DayLen
  BY <1>3 DEF Dated, Instant, EventAt, z, l, o
<1>5. d + ScheduleOffset - 1 <= c.initial /\ c.initial \in Int
  <2>1. s.times[1] \in Nat
    BY <1>1, EventZone DEF RegularPlan
  <2>2. s.times[1] \div DayLen \in Nat
    BY <2>1, DayAndMinute
  <2>3. c.initial \in {(d + s.times[1] \div DayLen + ScheduleOffset) - 1,
                       d + s.times[1] \div DayLen + ScheduleOffset}
    BY <1>3 DEF FirstDays, DayOf
  <2> DEFINE q == s.times[1] \div DayLen
  <2> HIDE DEF q
  <2>4. q \in Nat /\ (c.initial = (d + q + ScheduleOffset) - 1 \/ c.initial = d + q + ScheduleOffset)
    BY <2>2, <2>3 DEF q
  <2> QED BY <2>4, Constants
<1>6. /\ o \in Int /\ z.general \in Int /\ z.general <= o /\ At(d, l) \in Int
      /\ fix \in Int /\ fix <= Hour
  <2>1. At(d, l) \in Int
    BY <1>2, DayAndMinute
  <2>2. o \in Int /\ z.general \in Int /\ z.general <= o
    BY <1>2, OffsetRange DEF o
  <2> QED BY <2>1, <2>2, Constants
<1> DEFINE P == (d + ScheduleOffset) * DayLen
           I == c.initial * DayLen
           S == ScheduleOffset * DayLen
<1>7. P \in Int /\ I \in Int /\ S \in Int /\ P - DayLen <= I /\ (ScheduleOffset - 1) * DayLen = S - DayLen
  <2>1. d + ScheduleOffset - 1 \in Int /\ d + ScheduleOffset \in Int
    BY Constants
  <2>2. (d + ScheduleOffset - 1) * DayLen <= c.initial * DayLen
    BY <1>5, <2>1, Constants, Products
  <2>3. (d + ScheduleOffset - 1) * DayLen = (d + ScheduleOffset) * DayLen - DayLen
        /\ (ScheduleOffset - 1) * DayLen = ScheduleOffset * DayLen - DayLen
    BY Constants
  <2> QED BY <1>5, <2>2, <2>3, Constants
<1>8. At(d, l) = P + l /\ c.times[e] = ((At(d, l) - o) + fix) - I
  BY <1>4 DEF At
<1> HIDE DEF P, I, S
<1>9. l - z.general + Hour < S - DayLen
  BY <1>2, <1>7
<1>10. ((P + l - o) + fix) - I < S
  BY <1>2, <1>6, <1>7, <1>9, Constants
<1>11. c.times[e] = ((P + l - o) + fix) - I
  BY <1>2, <1>6, <1>7, <1>8
<1>12. ScheduleOffset - 1 <= c.initial
  BY <1>5, Constants
<1> QED BY <1>10, <1>11, <1>12 DEF S, c

-----------------------------------------------------------------------------
(* The trains made of the days D: no two with the same times, and their    *)
(* days are those on which these times came out.                           *)
TrainRec == [times : Seq(Int), days : SUBSET Int]

ComesOut(s, d, train) ==
  Converted(s, d).times = train.times /\ Converted(s, d).initial \in train.days

Merged(ts, D, s) ==
  /\ ts \in Seq(TrainRec)
  /\ \A i, j \in DOMAIN ts : ts[i].times = ts[j].times => i = j
  /\ \A i \in DOMAIN ts : \A x \in ts[i].days :
       \E d \in D : Converted(s, d).times = ts[i].times /\ Converted(s, d).initial = x
  /\ \A d \in D : \E i \in DOMAIN ts : ComesOut(s, d, ts[i])

(* A day joins the train that has its times or makes a new one.            *)
LEMMA DayAdded ==
  ASSUME NEW ts, NEW D, NEW s, NEW d, Merged(ts, D, s), Converted(s, d) \in Converting,
         NEW us, us = AddDay(ts, Converted(s, d))
  PROVE  Merged(us, D \cup {d}, s)
<1> DEFINE c == Converted(s, d)
<1>1. c.times \in Seq(Int) /\ c.initial \in Int
  BY DEF Converting
<1>2. /\ ts \in Seq(TrainRec) /\ Len(ts) \in Nat /\ DOMAIN ts = 1..Len(ts)
      /\ \A i \in DOMAIN ts : ts[i] \in TrainRec
  BY DEF Merged
<1> HIDE DEF c
<1>3. CASE \E i \in DOMAIN ts : ts[i].times = c.times
  <2>1. us = [i \in DOMAIN ts |->
                IF ts[i].times = c.times
                THEN [ts[i] EXCEPT !.days = @ \cup {c.initial}] ELSE ts[i]]
    BY <1>3 DEF AddDay, c
  <2>2. DOMAIN us = DOMAIN ts
    BY <2>1
  <2>3. ASSUME NEW i \in DOMAIN ts
        PROVE  /\ us[i] \in TrainRec /\ us[i].times = ts[i].times
               /\ ts[i].times = c.times => us[i].days = ts[i].days \cup {c.initial}
               /\ ts[i].times # c.times => us[i].days = ts[i].days
    <3>1. CASE ts[i].times = c.times
      <4>1. us[i] = [ts[i] EXCEPT !.days = @ \cup {c.initial}]
        BY <2>1, <3>1
      <4>2. ts[i].times \in Seq(Int) /\ ts[i].days \cup {c.initial} \in SUBSET Int
        BY <1>1, <1>2 DEF TrainRec
      <4>3. us[i] = [times |-> ts[i].times, days |-> ts[i].days \cup {c.initial}]
        <5>1. ts[i] \in [times : Seq(Int), days : SUBSET Int]
          BY <1>2 DEF TrainRec
        <5> QED BY <4>1, <5>1
      <4>4. us[i].times = ts[i].times /\ us[i].days = ts[i].days \cup {c.initial}
        BY <4>3
      <4>5. us[i] \in TrainRec
        BY <4>2, <4>3 DEF TrainRec
      <4> QED BY <3>1, <4>4, <4>5
    <3>2. CASE ts[i].times # c.times
      BY <1>2, <2>1, <3>2
    <3> QED BY <3>1, <3>2
  <2>4. us \in Seq(TrainRec)
    <3>1. us \in [1..Len(ts) -> TrainRec]
      BY <1>2, <2>1, <2>3
    <3> QED BY <1>2, <3>1
  <2>5. \A i, j \in DOMAIN us : us[i].times = us[j].times => i = j
    BY <2>2, <2>3 DEF Merged
  <2>6. ASSUME NEW i \in DOMAIN us, NEW x \in us[i].days
        PROVE  \E y \in D \cup {d} : Converted(s, y).times = us[i].times /\ Converted(s, y).initial = x
    <3>1. CASE x \in ts[i].days
      BY <2>2, <2>3, <3>1 DEF Merged
    <3>2. CASE x \notin ts[i].days
      BY <2>2, <2>3, <2>6, <3>2 DEF c
    <3> QED BY <3>1, <3>2
  <2>7. ASSUME NEW y \in D \cup {d} PROVE \E i \in DOMAIN us : ComesOut(s, y, us[i])
    <3>1. CASE y = d
      BY <1>3, <2>2, <2>3, <3>1 DEF ComesOut, c
    <3>2. CASE y \in D
      <4>1. PICK i \in DOMAIN ts : ComesOut(s, y, ts[i])
        BY <3>2 DEF Merged
      <4>2. ts[i].days \subseteq us[i].days /\ us[i].times = ts[i].times
        BY <2>3
      <4> QED BY <2>2, <4>1, <4>2 DEF ComesOut
    <3> QED BY <3>1, <3>2
  <2> QED BY <2>4, <2>5, <2>6, <2>7 DEF Merged
<1>4. CASE ~\E i \in DOMAIN ts : ts[i].times = c.times
  <2> DEFINE new == [times |-> c.times, days |-> {c.initial}]
             n   == Len(ts) + 1
  <2>1. us = Append(ts, new)
    BY <1>4 DEF AddDay, c
  <2>2. new \in TrainRec /\ new.times = c.times /\ new.days = {c.initial}
    BY <1>1 DEF TrainRec
  <2> HIDE DEF new
  <2>3. /\ us \in Seq(TrainRec) /\ DOMAIN us = 1..n /\ us[n] = new
        /\ \A i \in 1..Len(ts) : us[i] = ts[i]
    BY <1>2, <2>1, <2>2
  <2>4. \A i \in 1..n : i \in 1..Len(ts) \/ i = n
    BY <1>2
  <2>5. n \in DOMAIN us /\ \A i \in 1..Len(ts) : i \in DOMAIN us
    BY <1>2, <2>3
  <2> HIDE DEF n
  <2>6. \A i, j \in DOMAIN us : us[i].times = us[j].times => i = j
    BY <1>2, <1>4, <2>2, <2>3, <2>4 DEF Merged
  <2>7. ASSUME NEW i \in DOMAIN us, NEW x \in us[i].days
        PROVE  \E y \in D \cup {d} : Converted(s, y).times = us[i].times /\ Converted(s, y).initial = x
    <3>1. CASE i \in 1..Len(ts)
      BY <1>2, <2>3, <2>7, <3>1 DEF Merged
    <3>2. CASE i = n
      BY <2>2, <2>3, <2>7, <3>2 DEF c
    <3> QED BY <2>3, <2>4, <3>1, <3>2
  <2>8. ASSUME NEW y \in D \cup {d} PROVE \E i \in DOMAIN us : ComesOut(s, y, us[i])
    <3>1. CASE y = d
      BY <2>2, <2>3, <2>5, <3>1 DEF ComesOut, c
    <3>2. CASE y \in D
      <4>1. PICK i \in DOMAIN ts : ComesOut(s, y, ts[i])
        BY <3>2 DEF Merged
      <4> QED BY <1>2, <2>3, <2>5, <4>1
    <3> QED BY <3>1, <3>2
  <2> QED BY <2>3, <2>6, <2>7, <2>8 DEF Merged
<1> QED BY <1>3, <1>4

(* There are finitely many days to load.                                   *)
LEMMA LoadedAre ==
  ASSUME NEW s, RegularPlan(s)
  PROVE  LoadedDays(s) \subseteq 0..ToDay - 1 /\ IsFiniteSet(LoadedDays(s))
<1>1. ASSUME NEW d \in LoadedDays(s) PROVE d \in 0..ToDay - 1
  <2>1. d \in TrafficDays(s) /\ d < ToDay
    BY DEF LoadedDays
  <2>2. PICK q \in Split(s.sections) : d \in q.days
    BY <2>1 DEF TrafficDays
  <2>3. q \in RunPieces(s.sections)
    BY <2>2, SplitIs DEF RegularPlan
  <2>4. PICK i \in DOMAIN s.sections : d \in s.sections[i]
    BY <2>2, <2>3 DEF RunPieces, RunDays
  <2>5. d \in Nat
    BY <2>4 DEF RegularPlan
  <2> QED BY <2>1, <2>5, Constants
<1>2. IsFiniteSet(0..ToDay - 1)
  BY Constants, FS_Interval
<1> QED BY <1>1, <1>2, FS_Subset

(* A service is skipped when a day cannot be converted, else its trains    *)
(* are made of all its days.                                               *)
LEMMA TrainsOfIs ==
  ASSUME NEW s, RegularPlan(s)
  PROVE  IF \A d \in LoadedDays(s) : Converted(s, d).ok
         THEN Merged(TrainsOf(s), LoadedDays(s), s) ELSE TrainsOf(s) = <<>>
<1> DEFINE L    == LoadedDays(s)
           V(f) == f = [d \in 0..ToDay |->
                          IF d = 0 THEN <<>>
                          ELSE IF d - 1 \in L THEN AddDay(f[d - 1], Converted(s, d - 1))
                          ELSE f[d - 1]]
           B    == CHOOSE f : V(f)
           S    == Seq(TrainRec)
           Day(d, ts) == IF d - 1 \in L THEN AddDay(ts, Converted(s, d - 1)) ELSE ts
           g    == [d \in 1..ToDay |-> [ts \in S |-> Day(d, ts)]]
<1>1. ToDay \in Nat /\ L \subseteq Nat /\ \A d \in L : d \in Nat /\ d < ToDay
  BY LoadedAre, Constants
<1>2. TrainsOf(s) = IF \A d \in L : Converted(s, d).ok THEN B[ToDay] ELSE <<>>
  BY DEF TrainsOf
<1>3. \A d \in L : Converted(s, d) \in Converting
  BY <1>1, ConvertedOk
<1>4. ASSUME NEW d \in 1..ToDay, NEW ts \in S PROVE Day(d, ts) \in S
  <2>1. CASE d - 1 \in L
    <3> DEFINE c == Converted(s, d - 1)
    <3>1. c.times \in Seq(Int) /\ c.initial \in Int
      BY <1>3, <2>1 DEF Converting
    <3>2. ts \in Seq(TrainRec) /\ Len(ts) \in Nat /\ DOMAIN ts = 1..Len(ts)
          /\ \A i \in DOMAIN ts : ts[i] \in TrainRec
      OBVIOUS
    <3> HIDE DEF c, S
    <3>3. ASSUME NEW i \in DOMAIN ts PROVE [ts[i] EXCEPT !.days = @ \cup {c.initial}] \in TrainRec
      BY <3>1, <3>2 DEF TrainRec
    <3>4. [i \in DOMAIN ts |-> IF ts[i].times = c.times
                               THEN [ts[i] EXCEPT !.days = @ \cup {c.initial}] ELSE ts[i]] \in S
      <4> DEFINE us == [i \in DOMAIN ts |-> IF ts[i].times = c.times
                               THEN [ts[i] EXCEPT !.days = @ \cup {c.initial}] ELSE ts[i]]
      <4>1. us \in [1..Len(ts) -> TrainRec]
        BY <3>2, <3>3
      <4> HIDE DEF us
      <4>2. us \in Seq(TrainRec)
        BY <3>2, <4>1
      <4> QED BY <4>2 DEF us, S
    <3>5. Append(ts, [times |-> c.times, days |-> {c.initial}]) \in S
      <4>1. [times |-> c.times, days |-> {c.initial}] \in TrainRec
        BY <3>1 DEF TrainRec
      <4> QED BY <3>2, <4>1 DEF S
    <3>6. AddDay(ts, c) \in S
      BY <3>4, <3>5 DEF AddDay
    <3> QED BY <2>1, <3>6 DEF c
  <2>2. CASE d - 1 \notin L
    BY <2>2
  <2> QED BY <2>1, <2>2
<1>5. g \in [1..ToDay -> [S -> S]]
  <2> HIDE DEF S, Day
  <2> QED BY <1>4
<1>6. <<>> \in S
  OBVIOUS
<1>7. PICK f \in [0..ToDay -> S] : Steps(f, <<>>, g, ToDay)
  <2> HIDE DEF g, S
  <2> QED BY <1>1, <1>5, <1>6, StepsExist
<1>8. f[0] = <<>>
  BY <1>7 DEF Steps
<1>9. ASSUME NEW d \in 1..ToDay PROVE f[d] = Day(d, f[d - 1]) /\ f[d - 1] \in S
  <2>1. f[d] = g[d][f[d - 1]]
    BY <1>7 DEF Steps
  <2>2. d - 1 \in 0..ToDay
    BY <1>1
  <2>3. f[d - 1] \in S
    BY <1>7, <2>2
  <2> HIDE DEF S, Day
  <2> QED BY <2>1, <2>3
<1> HIDE DEF S, g
<1>10. V(f)
  <2>1. f = [d \in 0..ToDay |-> f[d]]
    BY <1>7
  <2>2. ASSUME NEW d \in 0..ToDay
        PROVE  f[d] = IF d = 0 THEN <<>>
                      ELSE IF d - 1 \in L THEN AddDay(f[d - 1], Converted(s, d - 1)) ELSE f[d - 1]
    <3>1. d # 0 => d \in 1..ToDay
      BY <1>1
    <3> QED BY <1>8, <1>9, <3>1
  <2> HIDE DEF L
  <2> QED BY <2>1, <2>2
<1>11. ASSUME NEW h, V(h) PROVE h = f
  <2> DEFINE Q == {d \in 0..ToDay : h[d] = f[d]}
  <2> HIDE DEF L
  <2>1. 0 \in Q
    BY <1>1, <1>8, <1>11
  <2>2. ASSUME NEW d \in 1..ToDay, d - 1 \in Q PROVE d \in Q
    <3>1. d \in 0..ToDay /\ d # 0
      BY <1>1
    <3>2. h[d] = IF d - 1 \in L THEN AddDay(h[d - 1], Converted(s, d - 1)) ELSE h[d - 1]
      BY <1>11, <3>1
    <3> QED BY <1>9, <2>2, <3>1, <3>2
  <2>3. \A d \in 0..ToDay : d \in Q
    <3> HIDE DEF Q
    <3> QED BY <1>1, <2>1, <2>2, CountUp
  <2>4. h = [d \in 0..ToDay |-> h[d]] /\ f = [d \in 0..ToDay |-> f[d]]
    BY <1>7, <1>11
  <2> QED BY <2>3, <2>4
<1>12. B = f
  <2> HIDE DEF V
  <2> QED BY <1>10, <1>11
<1> HIDE DEF B, V
<1>13. Merged(f[ToDay], L, s)
  <2> DEFINE Upto(d) == {x \in L : x < d}
             Q == {d \in 0..ToDay : Merged(f[d], Upto(d), s)}
  <2>1. 0 \in Q
    <3>1. Upto(0) = {}
      BY <1>1
    <3>2. <<>> \in Seq(TrainRec) /\ DOMAIN <<>> = {}
      OBVIOUS
    <3> HIDE DEF Upto
    <3>3. Merged(f[0], Upto(0), s)
      BY <1>8, <3>1, <3>2 DEF Merged
    <3> QED BY <1>1, <3>3
  <2>2. ASSUME NEW d \in 1..ToDay, d - 1 \in Q PROVE d \in Q
    <3>1. d \in 0..ToDay /\ d \in Nat /\ Merged(f[d - 1], Upto(d - 1), s)
      BY <1>1, <2>2
    <3>2. CASE d - 1 \in L
      <4>1. Upto(d) = Upto(d - 1) \cup {d - 1}
        BY <1>1, <3>1, <3>2
      <4>2. f[d] = AddDay(f[d - 1], Converted(s, d - 1))
        BY <1>9, <3>2
      <4> HIDE DEF Upto
      <4>3. Merged(f[d], Upto(d - 1) \cup {d - 1}, s)
        BY <1>3, <3>1, <3>2, <4>2, DayAdded
      <4> QED BY <3>1, <4>1, <4>3
    <3>3. CASE d - 1 \notin L
      <4>1. Upto(d) = Upto(d - 1)
        <5> SUFFICES ASSUME NEW x \in L PROVE x < d <=> x < d - 1
          OBVIOUS
        <5>1. x \in Nat /\ x # d - 1
          BY <1>1, <3>3
        <5> QED BY <3>1, <5>1
      <4>2. f[d] = f[d - 1]
        BY <1>9, <3>3
      <4> HIDE DEF Upto
      <4> QED BY <3>1, <4>1, <4>2
    <3> QED BY <3>2, <3>3
  <2>3. \A d \in 0..ToDay : d \in Q
    <3> HIDE DEF Q
    <3> QED BY <1>1, <2>1, <2>2, CountUp
  <2>4. ToDay \in 0..ToDay /\ Upto(ToDay) = L
    BY <1>1
  <2> HIDE DEF Upto
  <2> QED BY <2>3, <2>4
<1> QED BY <1>2, <1>12, <1>13

-----------------------------------------------------------------------------
(* The trains of the services stand behind each other.                     *)
LEMMA FlattenIs ==
  ASSUME NEW S, NEW rows \in Seq(Seq(S))
  PROVE  \E f \in [0..Len(rows) -> Seq(S)] :
           /\ f[0] = <<>>
           /\ \A i \in 1..Len(rows) : f[i] = f[i - 1] \o rows[i]
           /\ FlattenSeq(rows) = f[Len(rows)]
<1> DEFINE n    == Len(rows)
           T    == Seq(S)
           V(h) == h = [i \in 1..n |-> IF i = 1 THEN rows[i] ELSE h[i - 1] \o rows[i]]
           B    == CHOOSE h : V(h)
           g    == [i \in 1..n |-> [x \in T |-> x \o rows[i]]]
<1>1. n \in Nat /\ DOMAIN rows = 1..n /\ \A i \in 1..n : rows[i] \in T
  OBVIOUS
<1>2. FlattenSeq(rows) = IF n = 0 THEN rows ELSE B[n]
  BY DEF FlattenSeq
<1>3. g \in [1..n -> [T -> T]]
  <2>1. \A i \in 1..n : \A x \in T : x \o rows[i] \in T
    BY <1>1
  <2> HIDE DEF T
  <2> QED BY <2>1
<1>4. <<>> \in T
  OBVIOUS
<1>5. PICK f \in [0..n -> T] : Steps(f, <<>>, g, n)
  <2> HIDE DEF g, T, n
  <2> QED BY <1>1, <1>3, <1>4, StepsExist
<1>6. f[0] = <<>>
  BY <1>5 DEF Steps
<1>7. ASSUME NEW i \in 1..n PROVE f[i] = f[i - 1] \o rows[i] /\ f[i - 1] \in T
  <2>1. f[i] = g[i][f[i - 1]]
    BY <1>5 DEF Steps
  <2>2. i - 1 \in 0..n
    BY <1>1
  <2>3. f[i - 1] \in T
    BY <1>5, <2>2
  <2> HIDE DEF T
  <2> QED BY <2>1, <2>3
<1>8. n # 0 => B[n] = f[n]
  <2> SUFFICES ASSUME n # 0 PROVE B[n] = f[n]
    OBVIOUS
  <2> DEFINE w == [i \in 1..n |-> f[i]]
  <2>0. \A r \in T : <<>> \o r = r
    OBVIOUS
  <2>1. ASSUME NEW i \in 1..n PROVE w[i] = IF i = 1 THEN rows[i] ELSE w[i - 1] \o rows[i]
    <3>1. CASE i = 1
      <4>1. i - 1 = 0 /\ rows[i] \in T
        BY <1>1, <3>1
      <4> HIDE DEF T
      <4> QED BY <1>6, <1>7, <2>0, <3>1, <4>1
    <3>2. CASE i # 1
      <4>1. i - 1 \in 1..n
        BY <1>1, <3>2
      <4> QED BY <1>7, <3>2, <4>1
    <3> QED BY <3>1, <3>2
  <2> HIDE DEF T, n
  <2>2. V(w)
    BY <2>1
  <2>3. ASSUME NEW h, V(h) PROVE h = w
    <3> DEFINE Q == {0} \cup {i \in 1..n : h[i] = w[i]}
    <3>1. ASSUME NEW i \in 1..n, i - 1 \in Q PROVE i \in Q
      <4>1. h[i] = IF i = 1 THEN rows[i] ELSE h[i - 1] \o rows[i]
        BY <2>3
      <4>2. i # 1 => i - 1 # 0
        OBVIOUS
      <4>3. h[i] = w[i]
        <5> HIDE DEF w
        <5> QED BY <2>1, <3>1, <4>1, <4>2
      <4> QED BY <4>3
    <3>2. \A i \in 0..n : i \in Q
      <4>1. 0 \in Q
        OBVIOUS
      <4> HIDE DEF Q
      <4> QED BY <1>1, <3>1, <4>1, CountUp
    <3>3. \A i \in 1..n : h[i] = w[i]
      <4>1. \A i \in 1..n : i \in 0..n /\ i # 0
        BY <1>1
      <4> HIDE DEF w
      <4> QED BY <3>2, <4>1
    <3>4. h = [i \in 1..n |-> h[i]] /\ w = [i \in 1..n |-> w[i]]
      BY <2>3
    <3> HIDE DEF w
    <3> QED BY <3>3, <3>4
  <2>4. B = w
    <3> HIDE DEF V
    <3> QED BY <2>2, <2>3
  <2>5. n \in 1..n
    BY <1>1
  <2> HIDE DEF B
  <2> QED BY <2>4, <2>5
<1>9. FlattenSeq(rows) = f[n]
  <2>1. CASE n = 0
    <3>1. rows = <<>>
      BY <2>1
    <3> HIDE DEF n, B
    <3> QED BY <1>2, <1>6, <2>1, <3>1
  <2>2. CASE n # 0
    <3> HIDE DEF n, B
    <3> QED BY <1>2, <1>8, <2>2
  <2> QED BY <2>1, <2>2
<1> QED BY <1>5, <1>6, <1>7, <1>9

(* The train as it is handed on, with the service it comes from.           *)
ServiceTrain(i, train) == [service |-> i, times |-> train.times, days |-> train.days]

(* The trains ts of service i stand in flat, and no others of it.          *)
StandsIn(flat, i, ts) ==
  \E offset \in Nat :
    /\ \A j \in DOMAIN ts : offset + j \in DOMAIN flat /\ flat[offset + j] = ServiceTrain(i, ts[j])
    /\ \A t \in DOMAIN flat : flat[t].service = i => t - offset \in DOMAIN ts

(* The trains of other services are put behind those of service i.         *)
LEMMA StandsBehind ==
  ASSUME NEW S, NEW flat \in Seq(S), NEW row \in Seq(S), NEW i, NEW ts \in Seq(TrainRec),
         StandsIn(flat, i, ts), \A j \in DOMAIN row : row[j].service # i
  PROVE  StandsIn(flat \o row, i, ts)
<1>1. PICK offset \in Nat :
        /\ \A j \in DOMAIN ts : offset + j \in DOMAIN flat /\ flat[offset + j] = ServiceTrain(i, ts[j])
        /\ \A t \in DOMAIN flat : flat[t].service = i => t - offset \in DOMAIN ts
  BY DEF StandsIn
<1> DEFINE all == flat \o row
<1>2. /\ Len(flat) \in Nat /\ Len(row) \in Nat /\ DOMAIN flat = 1..Len(flat) /\ DOMAIN row = 1..Len(row)
      /\ DOMAIN all = 1..Len(flat) + Len(row)
      /\ \A t \in 1..Len(flat) : all[t] = flat[t]
      /\ \A t \in Len(flat) + 1..Len(flat) + Len(row) : all[t] = row[t - Len(flat)]
  OBVIOUS
<1> HIDE DEF all
<1>3. \A t \in DOMAIN flat : t \in DOMAIN all
  BY <1>2
<1>4. ASSUME NEW t \in DOMAIN all, all[t].service = i PROVE t - offset \in DOMAIN ts
  <2>1. CASE t \in DOMAIN flat
    BY <1>1, <1>2, <1>4, <2>1
  <2>2. CASE t \notin DOMAIN flat
    <3>1. t \in Len(flat) + 1..Len(flat) + Len(row) /\ t - Len(flat) \in DOMAIN row
      BY <1>2, <2>2
    <3> QED BY <1>2, <1>4, <3>1
  <2> QED BY <2>1, <2>2
<1> QED BY <1>1, <1>2, <1>3, <1>4 DEF StandsIn, all

(* The trains of service i are put behind those of the services before it. *)
LEMMA StandsAtEnd ==
  ASSUME NEW S, NEW flat \in Seq(S), NEW i, NEW ts \in Seq(TrainRec), NEW row \in Seq(S),
         row = [j \in DOMAIN ts |-> ServiceTrain(i, ts[j])],
         \A t \in DOMAIN flat : flat[t].service # i
  PROVE  StandsIn(flat \o row, i, ts)
<1> DEFINE all == flat \o row
<1>1. /\ Len(flat) \in Nat /\ Len(row) \in Nat /\ DOMAIN flat = 1..Len(flat) /\ DOMAIN row = 1..Len(row)
      /\ DOMAIN all = 1..Len(flat) + Len(row)
      /\ \A t \in 1..Len(flat) : all[t] = flat[t]
      /\ \A t \in Len(flat) + 1..Len(flat) + Len(row) : all[t] = row[t - Len(flat)]
  OBVIOUS
<1>2. DOMAIN ts = DOMAIN row
  OBVIOUS
<1> HIDE DEF all
<1>3. ASSUME NEW j \in DOMAIN ts
      PROVE  Len(flat) + j \in DOMAIN all /\ all[Len(flat) + j] = ServiceTrain(i, ts[j])
  <2>1. /\ Len(flat) + j \in Len(flat) + 1..Len(flat) + Len(row)
        /\ Len(flat) + j \in DOMAIN all /\ (Len(flat) + j) - Len(flat) = j
    BY <1>1, <1>2
  <2>2. all[Len(flat) + j] = row[(Len(flat) + j) - Len(flat)]
    BY <1>1, <2>1
  <2> QED BY <2>1, <2>2
<1>4. ASSUME NEW t \in DOMAIN all, all[t].service = i PROVE t - Len(flat) \in DOMAIN ts
  <2>1. t \notin DOMAIN flat
    BY <1>1, <1>4
  <2> QED BY <1>1, <1>2, <2>1
<1> QED BY <1>1, <1>3, <1>4 DEF StandsIn, all

(* The services of a plan are regular and have trains.                     *)
LEMMA PlanServices ==
  ASSUME NEW p \in Plans, NEW i \in DOMAIN p
  PROVE  RegularPlan(p[i]) /\ TrainsOf(p[i]) \in Seq(TrainRec)
<1>1. RegularPlan(p[i])
  BY PlansAssumption, RegularAssumption DEF RegularPlan
<1>2. TrainsOf(p[i]) \in Seq(TrainRec)
  <2>1. CASE \A d \in LoadedDays(p[i]) : Converted(p[i], d).ok
    BY <1>1, <2>1, TrainsOfIs DEF Merged
  <2>2. CASE ~\A d \in LoadedDays(p[i]) : Converted(p[i], d).ok
    <3>1. TrainsOf(p[i]) = <<>>
      BY <1>1, <2>2, TrainsOfIs
    <3> QED BY <3>1
  <2> QED BY <2>1, <2>2
<1> QED BY <1>1, <1>2

(* The trains of a plan are those of its services, one service behind the  *)
(* other.                                                                  *)
LEMMA PlanIs ==
  ASSUME NEW p \in Plans, NEW i \in DOMAIN p
  PROVE  StandsIn(TrainsOfPlan(p), i, TrainsOf(p[i]))
<1> DEFINE S    == [service : Nat, times : Seq(Int), days : SUBSET Int]
           ts(k) == TrainsOf(p[k])
           row(k) == [j \in DOMAIN ts(k) |-> ServiceTrain(k, ts(k)[j])]
           rows == [k \in DOMAIN p |-> row(k)]
           n    == Len(p)
<1>1. n \in Nat /\ DOMAIN p = 1..n
  <2>1. p \in Seq({p[k] : k \in DOMAIN p})
    BY PlansAssumption
  <2> QED BY <2>1
<1>2. TrainsOfPlan(p) = FlattenSeq(rows)
  BY DEF TrainsOfPlan, ServiceTrain
<1>3. \A k \in 1..n : ts(k) \in Seq(TrainRec)
  BY <1>1, PlanServices
<1>4. ASSUME NEW k \in 1..n
      PROVE  /\ row(k) \in Seq(S) /\ DOMAIN row(k) = DOMAIN ts(k)
             /\ \A j \in DOMAIN row(k) : row(k)[j].service = k
  <2> DEFINE t == ts(k)
  <2>1. t \in Seq(TrainRec) /\ Len(t) \in Nat /\ DOMAIN t = 1..Len(t) /\ \A j \in 1..Len(t) : t[j] \in TrainRec
    BY <1>3
  <2> HIDE DEF t
  <2>2. \A j \in 1..Len(t) : ServiceTrain(k, t[j]) \in S /\ ServiceTrain(k, t[j]).service = k
    BY <2>1 DEF ServiceTrain, TrainRec
  <2> DEFINE r == [j \in DOMAIN t |-> ServiceTrain(k, t[j])]
  <2>3. r \in [1..Len(t) -> S] /\ DOMAIN r = 1..Len(t) /\ \A j \in 1..Len(t) : r[j].service = k
    <3> HIDE DEF S
    <3> QED BY <2>1, <2>2
  <2>4. r = row(k)
    BY DEF t
  <2> HIDE DEF r, S
  <2>5. r \in Seq(S)
    BY <2>1, <2>3
  <2>6. DOMAIN row(k) = DOMAIN ts(k)
    OBVIOUS
  <2> HIDE DEF row
  <2> QED BY <2>1, <2>3, <2>4, <2>5, <2>6
<1>5. rows \in Seq(Seq(S)) /\ Len(rows) = n /\ \A k \in 1..n : rows[k] = row(k)
  <2> HIDE DEF S, row, n
  <2>1. rows \in [1..n -> Seq(S)]
    BY <1>1, <1>4
  <2> HIDE DEF rows
  <2>2. rows \in Seq(Seq(S)) /\ Len(rows) = n
    BY <1>1, <2>1
  <2> QED BY <1>1, <2>2 DEF rows
<1>6. PICK f \in [0..n -> Seq(S)] :
        /\ f[0] = <<>>
        /\ \A k \in 1..n : f[k] = f[k - 1] \o rows[k]
        /\ FlattenSeq(rows) = f[n]
  <2> HIDE DEF rows, S, n
  <2> QED BY <1>5, FlattenIs
<1> DEFINE Good(k) == /\ \A m \in 1..k : StandsIn(f[k], m, ts(m))
                      /\ \A t \in DOMAIN f[k] : f[k][t].service \in 1..k
           Q == {k \in 0..n : Good(k)}
<1>7. 0 \in Q
  <2>1. 1..0 = {} /\ DOMAIN <<>> = {} /\ 0 \in 0..n
    BY <1>1
  <2>2. Good(0)
    BY <1>6, <2>1
  <2> QED BY <2>1, <2>2
<1> HIDE DEF rows, S, row, ts
<1>8. ASSUME NEW k \in 1..n, k - 1 \in Q PROVE k \in Q
  <2>1. k \in 0..n /\ k - 1 \in 0..n /\ k \in Nat
    BY <1>1
  <2> DEFINE flat == f[k - 1]
             r    == row(k)
  <2>2. flat \in Seq(S) /\ r \in Seq(S) /\ f[k] = flat \o r /\ \A j \in DOMAIN r : r[j].service = k
    BY <1>4, <1>5, <1>6, <2>1
  <2>3. /\ \A m \in 1..k - 1 : StandsIn(flat, m, ts(m))
        /\ \A t \in DOMAIN flat : flat[t].service \in 1..k - 1
    BY <1>8
  <2>4. r = [j \in DOMAIN ts(k) |-> ServiceTrain(k, ts(k)[j])]
    BY DEF row
  <2> HIDE DEF flat, r
  <2>5. ASSUME NEW m \in 1..k PROVE StandsIn(f[k], m, ts(m))
    <3>1. CASE m = k
      <4>1. \A t \in DOMAIN flat : flat[t].service # k
        BY <2>1, <2>3
      <4>2. StandsIn(flat \o r, k, ts(k))
        BY <1>3, <2>2, <2>4, <4>1, StandsAtEnd
      <4> QED BY <2>2, <3>1, <4>2
    <3>2. CASE m # k
      <4>1. m \in 1..k - 1 /\ m \in 1..n
        BY <2>1, <3>2
      <4>2. \A j \in DOMAIN r : r[j].service # m
        BY <2>2, <3>2
      <4>3. StandsIn(flat \o r, m, ts(m))
        BY <1>3, <2>2, <2>3, <4>1, <4>2, StandsBehind
      <4> QED BY <2>2, <4>3
    <3> QED BY <3>1, <3>2
  <2>6. ASSUME NEW t \in DOMAIN f[k] PROVE f[k][t].service \in 1..k
    <3>1. /\ Len(flat) \in Nat /\ Len(r) \in Nat /\ DOMAIN flat = 1..Len(flat) /\ DOMAIN r = 1..Len(r)
          /\ DOMAIN f[k] = 1..Len(flat) + Len(r)
          /\ \A u \in 1..Len(flat) : f[k][u] = flat[u]
          /\ \A u \in Len(flat) + 1..Len(flat) + Len(r) : f[k][u] = r[u - Len(flat)]
      BY <2>2
    <3>2. CASE t \in DOMAIN flat
      BY <2>1, <2>3, <3>1, <3>2
    <3>3. CASE t \notin DOMAIN flat
      <4>1. t \in Len(flat) + 1..Len(flat) + Len(r) /\ t - Len(flat) \in DOMAIN r
        BY <3>1, <3>3
      <4>2. f[k][t].service = k
        BY <2>2, <3>1, <4>1
      <4> QED BY <2>1, <4>2
    <3> QED BY <3>2, <3>3
  <2>7. Good(k)
    BY <2>5, <2>6
  <2> HIDE DEF Good
  <2> QED BY <2>1, <2>7
<1>9. \A k \in 0..n : k \in Q
  <2> HIDE DEF Q, n
  <2> QED BY <1>1, <1>7, <1>8, CountUp
<1>10. n \in 0..n /\ i \in 1..n
  BY <1>1
<1>11. StandsIn(f[n], i, ts(i))
  BY <1>9, <1>10
<1> QED BY <1>2, <1>6, <1>11 DEF ts

(* The trains of a service that is loaded, one for all days with the same  *)
(* times.                                                                  *)
TrainsServe(flat, i, s) ==
  /\ \A t, u \in DOMAIN flat :
       flat[t].service = i /\ flat[u].service = i /\ flat[t].times = flat[u].times => t = u
  /\ \A t \in DOMAIN flat : flat[t].service = i => \A x \in flat[t].days :
       \E d \in LoadedDays(s) : Converted(s, d).times = flat[t].times /\ Converted(s, d).initial = x
  /\ \A d \in LoadedDays(s) : Converted(s, d).ok
  /\ \A d \in LoadedDays(s) : \E t \in DOMAIN flat : flat[t].service = i /\ ComesOut(s, d, flat[t])

(* Either a service is skipped, for a day that is not clear, or its trains *)
(* serve all of its days.                                                  *)
LEMMA PlanServed ==
  ASSUME NEW p \in Plans, NEW i \in DOMAIN p, NEW flat, flat = TrainsOfPlan(p)
  PROVE  \/ /\ \A t \in DOMAIN flat : flat[t].service # i
            /\ \E d \in LoadedDays(p[i]) : ~Clear(p[i], d)
         \/ TrainsServe(flat, i, p[i])
<1> DEFINE s  == p[i]
           ts == TrainsOf(s)
<1>1. RegularPlan(s) /\ ts \in Seq(TrainRec)
  BY PlanServices
<1>2. PICK offset \in Nat :
        /\ \A j \in DOMAIN ts : offset + j \in DOMAIN flat /\ flat[offset + j] = ServiceTrain(i, ts[j])
        /\ \A t \in DOMAIN flat : flat[t].service = i => t - offset \in DOMAIN ts
  BY PlanIs DEF StandsIn
<1>3. LoadedDays(s) \subseteq Nat
  BY <1>1, LoadedAre, Constants
<1>4. CASE ~\A d \in LoadedDays(s) : Converted(s, d).ok
  <2>1. PICK d \in LoadedDays(s) : ~Converted(s, d).ok
    BY <1>4
  <2>2. ~Clear(s, d)
    BY <1>1, <1>3, <2>1, ConvertedClear DEF ClearProgress
  <2>3. ts = <<>>
    BY <1>1, <1>4, TrainsOfIs
  <2>4. DOMAIN ts = {}
    BY <2>3
  <2>5. \A t \in DOMAIN flat : flat[t].service # i
    BY <1>2, <2>4
  <2> QED BY <2>1, <2>2, <2>5
<1>5. CASE \A d \in LoadedDays(s) : Converted(s, d).ok
  <2>1. Merged(ts, LoadedDays(s), s)
    BY <1>1, <1>5, TrainsOfIs
  <2>2. \A j \in DOMAIN ts : j \in Int /\ (offset + j) - offset = j
    BY <1>1
  <2> HIDE DEF ts, s
  <2>3. \A train : /\ ServiceTrain(i, train).service = i /\ ServiceTrain(i, train).times = train.times
                   /\ ServiceTrain(i, train).days = train.days
    BY DEF ServiceTrain
  <2>4. ASSUME NEW t \in DOMAIN flat, flat[t].service = i
        PROVE  \E j \in DOMAIN ts : t = offset + j /\ flat[t].times = ts[j].times /\ flat[t].days = ts[j].days
    <3>1. t - offset \in DOMAIN ts
      BY <1>2, <2>4
    <3>2. t \in Int
      <4>1. DOMAIN flat = Service
        BY TablesAssumption
      <4> QED BY <4>1, RouteAssumption DEF Service
    <3>3. t = offset + (t - offset)
      BY <3>2
    <3>4. flat[t] = ServiceTrain(i, ts[t - offset])
      BY <1>2, <3>1, <3>3
    <3> QED BY <2>3, <3>1, <3>3, <3>4
  <2>5. ASSUME NEW t \in DOMAIN flat, NEW u \in DOMAIN flat,
               flat[t].service = i, flat[u].service = i, flat[t].times = flat[u].times
        PROVE  t = u
    <3>1. PICK j \in DOMAIN ts : t = offset + j /\ flat[t].times = ts[j].times
      BY <2>4, <2>5
    <3>2. PICK k \in DOMAIN ts : u = offset + k /\ flat[u].times = ts[k].times
      BY <2>4, <2>5
    <3> QED BY <2>1, <2>5, <3>1, <3>2 DEF Merged
  <2>6. ASSUME NEW t \in DOMAIN flat, flat[t].service = i, NEW x \in flat[t].days
        PROVE  \E d \in LoadedDays(s) : Converted(s, d).times = flat[t].times /\ Converted(s, d).initial = x
    <3>1. PICK j \in DOMAIN ts : flat[t].times = ts[j].times /\ flat[t].days = ts[j].days
      BY <2>4, <2>6
    <3> QED BY <2>1, <2>6, <3>1 DEF Merged
  <2>7. ASSUME NEW d \in LoadedDays(s)
        PROVE  \E t \in DOMAIN flat : flat[t].service = i /\ ComesOut(s, d, flat[t])
    <3>1. PICK j \in DOMAIN ts : ComesOut(s, d, ts[j])
      BY <2>1 DEF Merged
    <3>2. offset + j \in DOMAIN flat /\ flat[offset + j] = ServiceTrain(i, ts[j])
      BY <1>2
    <3>3. ComesOut(s, d, flat[offset + j]) /\ flat[offset + j].service = i
      BY <2>3, <3>1, <3>2 DEF ComesOut
    <3> QED BY <3>2, <3>3
  <2>8. TrainsServe(flat, i, s)
    BY <1>5, <2>5, <2>6, <2>7 DEF TrainsServe, s
  <2> QED BY <2>8 DEF s
<1> QED BY <1>4, <1>5

-----------------------------------------------------------------------------
(* The ride of train t on section k on the day x it sets out on.           *)
RideOn(t, x, k) ==
  [dep |-> x * DayLen + trains[t].times[2 * k - 1],
   arr |-> x * DayLen + trains[t].times[2 * k],
   train |-> t]

(* No day of a train is before the midnights behind its departures.        *)
InCalendar(t, k) ==
  \A x \in trains[t].days :
    /\ x \in Int /\ ScheduleOffset - 1 <= x
    /\ trains[t].times[2 * k - 1] \in Int /\ trains[t].times[2 * k] \in Int
    /\ trains[t].times[2 * k - 1] < ScheduleOffset * DayLen

(* Counted by the days of its connection, a train has the rides of its own *)
(* days.                                                                   *)
LEMMA ConnectionRides ==
  ASSUME NEW t, NEW k, InCalendar(t, k), NEW c, c = SectionConnection(trains[t], k)
  PROVE  {[dep |-> d * DayLen + c.dep, arr |-> d * DayLen + c.arr, train |-> t] : d \in c.days}
           = {RideOn(t, x, k) : x \in trains[t].days}
<1> DEFINE v   == trains[t].times[2 * k - 1]
           w   == trains[t].times[2 * k]
           q   == v \div DayLen
           D   == trains[t].days
           R(d) == [dep |-> d * DayLen + c.dep, arr |-> d * DayLen + c.arr, train |-> t]
<1>1. c.days = {x + q : x \in {y \in D : q <= y}}
  BY DEF SectionConnection
<1>2. CASE D = {}
  BY <1>1, <1>2
<1>3. SUFFICES ASSUME D # {}
               PROVE  {R(d) : d \in c.days} = {RideOn(t, x, k) : x \in trains[t].days}
  BY <1>2
<1>4. v \in Int /\ w \in Int /\ v < ScheduleOffset * DayLen /\ \A x \in D : x \in Int /\ ScheduleOffset - 1 <= x
  BY <1>3 DEF InCalendar
<1>5. c.dep = v - q * DayLen /\ c.arr = (v - q * DayLen) + (w - v) /\ c.days = {x + q : x \in {y \in D : q <= y}}
  <2>1. c = [dep |-> v - q * DayLen, arr |-> (v - q * DayLen) + w - v,
             days |-> {d + q : d \in {x \in D : q <= x}}]
    BY DEF SectionConnection
  <2> HIDE DEF v, w, q, D
  <2> QED BY <2>1
<1>6. q \in Int /\ q <= ScheduleOffset - 1
  <2> DEFINE m == v % DayLen
  <2>1. v = DayLen * q + m /\ q \in Int /\ m \in 0..DayLen - 1
    BY <1>4, Constants
  <2> HIDE DEF v, q, m
  <2>2. ASSUME ScheduleOffset <= q PROVE FALSE
    <3>1. ScheduleOffset * DayLen <= q * DayLen
      BY <2>1, <2>2, Constants, Products
    <3>2. q * DayLen = DayLen * q /\ q * DayLen \in Int /\ ScheduleOffset * DayLen \in Int /\ m \in Int /\ 0 <= m
      BY <2>1, Constants
    <3> QED BY <1>4, <2>1, <3>1, <3>2
  <2> QED BY <2>1, <2>2, Constants
<1> HIDE DEF v, w, q, D
<1>7. \A x \in D : q <= x
  BY <1>4, <1>6, Constants
<1>8. c.days = {x + q : x \in D}
  BY <1>5, <1>7
<1>9. ASSUME NEW x \in D PROVE R(x + q) = RideOn(t, x, k)
  <2>1. x \in Int /\ q * DayLen \in Int /\ x * DayLen \in Int /\ (x + q) * DayLen = x * DayLen + q * DayLen
    BY <1>4, <1>6, Constants
  <2>2. (x + q) * DayLen + c.dep = x * DayLen + v
    BY <1>4, <1>5, <2>1
  <2>3. (x + q) * DayLen + c.arr = x * DayLen + w
    BY <1>4, <1>5, <2>1
  <2> QED BY <2>2, <2>3 DEF RideOn, v, w
<1> HIDE DEF R
<1>10. {R(d) : d \in c.days} = {RideOn(t, x, k) : x \in D}
  BY <1>8, <1>9
<1> QED BY <1>10 DEF R, D

(* What the trains are, as long as the plan is loaded.                     *)
PlanInv ==
  /\ plan \in Plans /\ trains = TrainsOfPlan(plan)

(* The days of a service and the rides on a section are as many, for no    *)
(* two days come out alike.                                                *)
LEMMA DayRides ==
  ASSUME PlanInv, NEW i \in DOMAIN plan, TrainsServe(trains, i, plan[i]),
         NEW k \in DOMAIN plan[i].sections,
         NEW R, \A r : r \in R <=> \E t \in Service : trains[t].service = i
                                      /\ \E x \in trains[t].days : r = RideOn(t, x, k)
  PROVE  /\ Cardinality(R) = Cardinality(LoadedDays(plan[i]))
         /\ \A d \in LoadedDays(plan[i]) : Clear(plan[i], d) =>
              \E r \in R : /\ r.dep = Min(Shown(plan[i], d, 2 * k - 1))
                           /\ r.arr = Min(Shown(plan[i], d, 2 * k))
<1> DEFINE s    == plan[i]
           L    == LoadedDays(s)
           c(d) == Converted(s, d)
           of(d) == CHOOSE t \in Service : trains[t].service = i /\ ComesOut(s, d, trains[t])
           ride(d) == RideOn(of(d), c(d).initial, k)
           F    == [d \in L |-> ride(d)]
<1>1. /\ RegularPlan(s) /\ DOMAIN trains = Service /\ IsFiniteSet(L) /\ \A d \in L : d \in Nat
  BY PlanServices, TablesAssumption, LoadedAre, Constants DEF PlanInv
<1>2. 2 * k - 1 \in 1..Len(s.times) /\ 2 * k \in 1..Len(s.times) /\ Len(s.times) \in Nat /\ Len(s.times) > 0
  <2>1. Len(s.sections) \in Nat /\ k \in 1..Len(s.sections) /\ Len(s.times) = 2 * Len(s.sections)
    BY <1>1 DEF RegularPlan, RegularService
  <2> HIDE DEF s
  <2> QED BY <2>1
<1>3. \A d \in L : of(d) \in Service /\ trains[of(d)].service = i /\ ComesOut(s, d, trains[of(d)])
  BY <1>1 DEF TrainsServe
<1> HIDE DEF s, of
<1>4. \A d \in L : c(d).ok /\ c(d) \in Converting /\ c(d).initial \in Int
                   /\ \A e \in 1..Len(s.times) : c(d).times[e] \in Int
  <2> TAKE d \in L
  <2>1. c(d).ok
    BY DEF TrainsServe, s
  <2>2. c(d) \in Converting /\ Len(c(d).times) = Len(s.times)
    BY <1>1, <2>1, ConvertedOk DEF Progress
  <2>3. c(d).times \in Seq(Int) /\ c(d).initial \in Int
    BY <2>2 DEF Converting
  <2> QED BY <2>1, <2>2, <2>3
<1>5. \A d \in L : ride(d) \in R
  BY <1>3 DEF ComesOut
<1>6. \A d \in L : /\ ride(d).dep = c(d).initial * DayLen + c(d).times[2 * k - 1]
                   /\ ride(d).arr = c(d).initial * DayLen + c(d).times[2 * k]
                   /\ ride(d).train = of(d)
  BY <1>3 DEF ComesOut, RideOn
<1>7. ASSUME NEW d1 \in L, NEW d2 \in L, ride(d1) = ride(d2) PROVE d1 = d2
  <2>1. of(d1) = of(d2) /\ c(d1).initial * DayLen + c(d1).times[2 * k - 1]
                           = c(d2).initial * DayLen + c(d2).times[2 * k - 1]
    <3> HIDE DEF ride, c
    <3> QED BY <1>6, <1>7
  <2>2. c(d1).times = c(d2).times
    BY <1>3, <2>1 DEF ComesOut
  <2>3. c(d1).initial = c(d2).initial
    <3> DEFINE a == c(d1).initial
               b == c(d2).initial
               v == c(d1).times[2 * k - 1]
    <3>1. a \in Int /\ b \in Int /\ v \in Int /\ a * DayLen + v = b * DayLen + v
      BY <1>2, <1>4, <2>1, <2>2
    <3> HIDE DEF a, b, v
    <3>2. a * DayLen = b * DayLen
      <4>1. a * DayLen \in Int /\ b * DayLen \in Int
        BY <3>1, Constants
      <4>2. \A x, y, z \in Int : x + z = y + z => x = y
        OBVIOUS
      <4> QED BY <3>1, <4>1, <4>2
    <3>3. a + 1 <= b => a * DayLen + DayLen <= b * DayLen
      <4>1. a + 1 <= b => (a + 1) * DayLen <= b * DayLen
        BY <3>1, Constants, Products
      <4> QED BY <3>1, <4>1, Constants
    <3>4. b + 1 <= a => b * DayLen + DayLen <= a * DayLen
      <4>1. b + 1 <= a => (b + 1) * DayLen <= a * DayLen
        BY <3>1, Constants, Products
      <4> QED BY <3>1, <4>1, Constants
    <3>5. a * DayLen \in Int /\ b * DayLen \in Int
      BY <3>1, Constants
    <3> QED BY <3>1, <3>2, <3>3, <3>4, <3>5, Constants DEF a, b
  <2>4. d1 \in Nat /\ d2 \in Nat
    BY <1>1
  <2>5. ~(d1 < d2) /\ ~(d2 < d1)
    BY <1>1, <1>2, <1>4, <2>2, <2>3, <2>4, DaysDiffer
  <2> QED BY <2>4, <2>5
<1>8. ASSUME NEW r \in R PROVE \E d \in L : r = ride(d)
  <2>1. PICK t \in Service : trains[t].service = i /\ \E x \in trains[t].days : r = RideOn(t, x, k)
    BY <1>8
  <2>2. PICK x \in trains[t].days : r = RideOn(t, x, k)
    BY <2>1
  <2>3. PICK d \in L : c(d).times = trains[t].times /\ c(d).initial = x
    BY <1>1, <2>1 DEF TrainsServe, s
  <2>4. trains[of(d)].times = trains[t].times
    BY <1>3, <2>3 DEF ComesOut
  <2>5. of(d) = t
    BY <1>1, <1>3, <2>1, <2>4 DEF TrainsServe
  <2> QED BY <2>2, <2>3, <2>5
<1>9. F \in Bijection(L, R)
  <2> HIDE DEF ride
  <2>1. F \in [L -> R] /\ \A d \in L : F[d] = ride(d)
    BY <1>5
  <2>2. F \in Injection(L, R)
    BY <1>7, <2>1, Fun_IsInj
  <2>3. F \in Surjection(L, R)
    BY <1>8, <2>1, Fun_IsSurj
  <2> QED BY <2>2, <2>3, Fun_IsBij
<1>10. Cardinality(R) = Cardinality(L)
  BY <1>1, <1>9, FS_Bijection DEF ExistsBijection
<1>11. ASSUME NEW d \in L, Clear(s, d)
       PROVE  /\ ride(d).dep = Min(Shown(s, d, 2 * k - 1))
              /\ ride(d).arr = Min(Shown(s, d, 2 * k))
  <2> DEFINE I == c(d).initial * DayLen
  <2>1. \A e \in 1..Len(s.times) : c(d).times[e] = Instant(s, d, e) - I
    BY <1>1, <1>11, ConvertedClear DEF ClearProgress
  <2>2. \A e \in 1..Len(s.times) : Min(Shown(s, d, e)) = Instant(s, d, e) /\ Instant(s, d, e) \in Int
    BY <1>1, <1>11, ClearInstants, InstantIs
  <2>3. I \in Int
    BY <1>4, Constants
  <2>4. \A e \in 1..Len(s.times) : I + c(d).times[e] = Min(Shown(s, d, e))
    <3> HIDE DEF I
    <3> QED BY <2>1, <2>2, <2>3
  <2> QED BY <1>2, <1>6, <2>4
<1> QED BY <1>5, <1>10, <1>11 DEF s

(* Where every trip finds its own connection, the rides of a section are   *)
(* those of its trains.                                                    *)
LEMMA PlannedRides ==
  ASSUME PlanInv, TripsFindTheirConnections
  PROVE  TrainsRunAsPlanned
<1>1. SUFFICES ASSUME Done, NEW i \in DOMAIN plan
               PROVE  \/ /\ \A t \in Service : trains[t].service # i
                         /\ \E d \in LoadedDays(plan[i]) : ~Clear(plan[i], d)
                      \/ \A k \in DOMAIN plan[i].sections :
                           /\ Cardinality(Rides(i, k)) = Cardinality(LoadedDays(plan[i]))
                           /\ \A d \in LoadedDays(plan[i]) : Clear(plan[i], d) =>
                                \E r \in Rides(i, k) :
                                  /\ r.dep = Min(Shown(plan[i], d, 2 * k - 1))
                                  /\ r.arr = Min(Shown(plan[i], d, 2 * k))
  BY DEF TrainsRunAsPlanned
<1>2. DOMAIN trains = Service /\ RegularPlan(plan[i])
  BY PlanServices, TablesAssumption DEF PlanInv
<1>3. \/ /\ \A t \in Service : trains[t].service # i
         /\ \E d \in LoadedDays(plan[i]) : ~Clear(plan[i], d)
      \/ TrainsServe(trains, i, plan[i])
  BY <1>2, PlanServed DEF PlanInv
<1>4. ASSUME TrainsServe(trains, i, plan[i]), NEW k \in DOMAIN plan[i].sections
      PROVE  \A r : r \in Rides(i, k) <=> \E t \in Service : trains[t].service = i
                                            /\ \E x \in trains[t].days : r = RideOn(t, x, k)
  <2> DEFINE con(t) == SectionConnection(trains[routes[tripRoute[t]].lcons[lconIdx[t]]], k)
             own(t) == SectionConnection(trains[t], k)
             those  == {u \in Service : trains[u].service = i}
             of(t)  == {[dep |-> d * DayLen + con(t).dep, arr |-> d * DayLen + con(t).arr,
                         train |-> t] : d \in con(t).days}
  <2>1. Rides(i, k) = UNION {of(t) : t \in those}
    BY DEF Rides
  <2>2. \A t \in those : con(t) = own(t)
    BY <1>1 DEF TripsFindTheirConnections
  <2>3. ASSUME NEW t \in those PROVE InCalendar(t, k)
    <3>1. 2 * k - 1 \in 1..Len(plan[i].times) /\ 2 * k \in 1..Len(plan[i].times)
      <4>1. Len(plan[i].sections) \in Nat /\ k \in 1..Len(plan[i].sections)
            /\ Len(plan[i].times) = 2 * Len(plan[i].sections)
        BY <1>2 DEF RegularPlan, RegularService
      <4> QED BY <4>1
    <3>2. ASSUME NEW x \in trains[t].days
          PROVE  /\ x \in Int /\ ScheduleOffset - 1 <= x
                 /\ trains[t].times[2 * k - 1] \in Int /\ trains[t].times[2 * k] \in Int
                 /\ trains[t].times[2 * k - 1] < ScheduleOffset * DayLen
      <4>1. PICK d \in LoadedDays(plan[i]) : Converted(plan[i], d).times = trains[t].times
                                             /\ Converted(plan[i], d).initial = x
        BY <1>2, <1>4 DEF TrainsServe
      <4>2. d \in Nat /\ Converted(plan[i], d).ok
        BY <1>2, <1>4, LoadedAre, Constants DEF TrainsServe
      <4>3. /\ trains[t].times \in Seq(Int) /\ x \in Int
            /\ Len(trains[t].times) = Len(plan[i].times)
        BY <1>2, <4>1, <4>2, ConvertedOk DEF Converting, Progress
      <4>4. trains[t].times[2 * k - 1] < ScheduleOffset * DayLen /\ ScheduleOffset - 1 <= x
        BY <1>2, <3>1, <4>1, <4>2, MidnightsBehind
      <4>5. trains[t].times[2 * k - 1] \in Int /\ trains[t].times[2 * k] \in Int
        BY <3>1, <4>3
      <4> QED BY <4>3, <4>4, <4>5
    <3> QED BY <3>2 DEF InCalendar
  <2>4. ASSUME NEW t \in those PROVE of(t) = {RideOn(t, x, k) : x \in trains[t].days}
    <3>1. {[dep |-> d * DayLen + own(t).dep, arr |-> d * DayLen + own(t).arr, train |-> t] :
             d \in own(t).days} = {RideOn(t, x, k) : x \in trains[t].days}
      BY <2>3, ConnectionRides
    <3> HIDE DEF con, own
    <3> QED BY <2>2, <3>1
  <2>5. Rides(i, k) = UNION {{RideOn(t, x, k) : x \in trains[t].days} : t \in those}
    <3> HIDE DEF of, those
    <3> QED BY <2>1, <2>4
  <2> QED BY <2>5
<1>5. ASSUME TrainsServe(trains, i, plan[i]), NEW k \in DOMAIN plan[i].sections
      PROVE  /\ Cardinality(Rides(i, k)) = Cardinality(LoadedDays(plan[i]))
             /\ \A d \in LoadedDays(plan[i]) : Clear(plan[i], d) =>
                  \E r \in Rides(i, k) : /\ r.dep = Min(Shown(plan[i], d, 2 * k - 1))
                                         /\ r.arr = Min(Shown(plan[i], d, 2 * k))
  <2> DEFINE R == Rides(i, k)
  <2>1. \A r : r \in R <=> \E t \in Service : trains[t].service = i
                              /\ \E x \in trains[t].days : r = RideOn(t, x, k)
    BY <1>4, <1>5
  <2> HIDE DEF R
  <2>2. /\ Cardinality(R) = Cardinality(LoadedDays(plan[i]))
        /\ \A d \in LoadedDays(plan[i]) : Clear(plan[i], d) =>
             \E r \in R : /\ r.dep = Min(Shown(plan[i], d, 2 * k - 1))
                          /\ r.arr = Min(Shown(plan[i], d, 2 * k))
    BY <1>5, <2>1, DayRides
  <2> QED BY <2>2 DEF R
<1> QED BY <1>3, <1>5

(* The plan and its trains do not change while routes are built.           *)
LEMMA PlanInvariance == LoadSpec => []PlanInv
<1>1. LoadInit => PlanInv
  BY DEF LoadInit, PlanInv
<1>2. PlanInv /\ [LoadNext]_loadVars => PlanInv'
  BY DEF PlanInv, LoadNext, loadVars
<1> QED BY <1>1, <1>2, PTL DEF LoadSpec

(* Whatever the services, their days and the zones of their stops: every   *)
(* day of a service that is loaded has one ride on every section, at the   *)
(* first instants at which the clocks show the local times of the plan,    *)
(* and there are no other rides; a service is skipped only for a day on    *)
(* which the clocks leave a doubt.                                         *)
THEOREM TrainsAsPlanned == LoadSpec => []TrainsRunAsPlanned
<1>1. PlanInv /\ TripsFindTheirConnections => TrainsRunAsPlanned
  BY PlannedRides
<1> QED BY <1>1, PlanInvariance, LoadedTripsFound, PTL
=============================================================================
