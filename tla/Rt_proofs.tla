------------------------------ MODULE Rt_proofs ------------------------------
(***************************************************************************)
(* The safety of realtime updates, for any timetable of a route, any        *)
(* reports and any number of them.  The edges stay sorted because a time is *)
(* written in place only if it fits strictly between its neighbours, and    *)
(* because a trip whose times are rewritten wholesale by trip_corrector is  *)
(* alone on its route by then (WrongAlone): the visit that found it wrong   *)
(* separated it.  Schedule times survive because every event that is        *)
(* written has its delay info stored by then, and a stored one is never     *)
(* given another schedule time.                                             *)
(*                                                                         *)
(* What a flush shows rests on a second invariant, DInv: each delay info is *)
(* pushed by the one before it or waits in the queue, the graph shows every *)
(* delay info but those still to be visited, and neighbours visited are in  *)
(* order unless their trip waits to be corrected.                           *)
(***************************************************************************)
EXTENDS Rt, FiniteSetTheorems, WellFoundedInduction, TLAPS

Fields    == {"sched", "is", "forecast", "propagation", "repair"}
InfoType  == [DOMAIN None -> Nat]
RowType   == [trip : Trip, time : [Event -> Nat], valid : SUBSET Section]
GraphType == Seq(Seq(RowType))
In(at, g) == at.route \in DOMAIN g /\ at.row \in DOMAIN g[at.route]

(* h is g with other times, and no more valid connections, in one row.      *)
Rewritten(g, h, at, time) ==
  /\ h \in GraphType /\ DOMAIN h = DOMAIN g
  /\ \A r \in DOMAIN g :
       /\ Len(h[r]) = Len(g[r]) /\ DOMAIN h[r] = DOMAIN g[r]
       /\ \A i \in DOMAIN g[r] :
            /\ h[r][i].trip = g[r][i].trip /\ h[r][i].valid \subseteq g[r][i].valid
            /\ h[r][i].time = IF r = at.route /\ i = at.row THEN time ELSE g[r][i].time

(* h is g with a route of its own for the row at.                           *)
Copied(g, h, at, own) ==
  /\ h \in GraphType /\ In(own, h)
  /\ DOMAIN h = DOMAIN g \cup {own.route}
  /\ own.route \notin DOMAIN g /\ own = [route |-> own.route, row |-> 1]
  /\ own.route \in Nat \ {0}
  /\ DOMAIN h[own.route] = {1} /\ Len(h[own.route]) = 1
  /\ h[own.route][1] = g[at.route][at.row]
  /\ \A r \in DOMAIN g :
       /\ Len(h[r]) = Len(g[r]) /\ DOMAIN h[r] = DOMAIN g[r]
       /\ \A i \in DOMAIN g[r] :
            /\ h[r][i].trip = g[r][i].trip /\ h[r][i].time = g[r][i].time
            /\ h[r][i].valid = IF r = at.route /\ i = at.row THEN {} ELSE g[r][i].valid

(* A trip that must be corrected is alone on its route, as the assertion in *)
(* rt_handler::propagate says.                                              *)
WrongAlone == \A t \in wrong : Len(graph[loc[t].route]) = 1

IInv ==
  /\ TypeOK
  /\ \A k \in pq : k[2] > 1
  /\ \A k \in events : Stored(k) # None
  /\ ScheduleRemembered
  /\ OneValidCopy
  /\ WrongAlone
  /\ EdgesSorted

-----------------------------------------------------------------------------
(* Bounds of finite sets of numbers.                                        *)
LEMMA NoneDomain == DOMAIN None = Fields
  BY DEF None, Fields

LEMMA MaxOfThree ==
  ASSUME NEW a \in Nat, NEW b \in Nat, NEW c \in Nat
  PROVE  Max({a, b, c}) \in Nat
  BY DEF Max

LEMMA FiniteExtrema ==
  ASSUME NEW S \in SUBSET Int, IsFiniteSet(S), S # {}
  PROVE  /\ \E x \in S : \A y \in S : x >= y
         /\ \E x \in S : \A y \in S : x <= y
<1> DEFINE Bounded(A) == /\ \E x \in A : \A y \in A : x >= y
                         /\ \E x \in A : \A y \in A : x <= y
           bad == {A \in SUBSET S : A # {} /\ ~Bounded(A)}
<1>1. SUFFICES bad = {}
  <2>1. S \in SUBSET S
    OBVIOUS
  <2> QED
    BY <1>1, <2>1
<1>2. SUFFICES ASSUME bad # {} PROVE FALSE
  OBVIOUS
<1>3. PICK A \in bad : \A B \in bad : ~(<<B, A>> \in StrictSubsetOrdering(S))
  <2>1. bad \subseteq FiniteSubsetsOf(S)
    BY FS_Subset DEF FiniteSubsetsOf
  <2> QED
    BY <1>2, <2>1, FS_StrictSubsetOrderingWellFounded, WFMin
<1>4. PICK a \in A : TRUE
  BY <1>3
<1>5. A \ {a} \notin bad
  BY <1>3, <1>4 DEF StrictSubsetOrdering
<1>6. CASE A = {a}
  BY <1>3, <1>6
<1>7. CASE A # {a}
  <2>1. PICK b \in A \ {a} : \A y \in A \ {a} : b >= y
    BY <1>3, <1>4, <1>5, <1>7
  <2>2. PICK c \in A \ {a} : \A y \in A \ {a} : c <= y
    BY <1>3, <1>4, <1>5, <1>7
  <2>3. \A y \in A : (IF a >= b THEN a ELSE b) >= y /\ (IF a <= c THEN a ELSE c) <= y
    BY <1>3, <1>4, <2>1, <2>2
  <2> QED
    BY <1>3, <1>4, <2>1, <2>2, <2>3
<1> QED
  BY <1>6, <1>7

LEMMA MaxIn ==
  ASSUME NEW S \in SUBSET Nat, IsFiniteSet(S), S # {}
  PROVE  Max(S) \in S
<1>1. \E x \in S : \A y \in S : x >= y
  BY FiniteExtrema, Nat \subseteq Int
<1> QED
  BY <1>1 DEF Max

LEMMA MinIn ==
  ASSUME NEW S \in SUBSET Nat, IsFiniteSet(S), S # {}
  PROVE  Min(S) \in S
<1>1. \E x \in S : \A y \in S : x <= y
  BY FiniteExtrema, Nat \subseteq Int
<1> QED
  BY <1>1 DEF Min

-----------------------------------------------------------------------------
(* Delay infos.                                                             *)
LEMMA CurrentNat ==
  ASSUME NEW d \in InfoType
  PROVE  Original(d) \in Nat /\ Current(d) \in Nat
  BY NoneDomain, MaxOfThree DEF InfoType, Fields, Original, Current

LEMMA SetTyped ==
  ASSUME NEW d \in InfoType, NEW reason \in Fields \ {"sched"}, NEW minute \in Nat
  PROVE  /\ Set(d, reason, minute) \in InfoType
         /\ Set(d, reason, minute).sched = d.sched
  BY NoneDomain DEF InfoType, Fields, Set

LEMMA NewTyped ==
  ASSUME NEW minute \in Nat
  PROVE  NewInfo(minute) \in InfoType /\ NewInfo(minute).sched = minute
  BY DEF InfoType, NewInfo, None

LEMMA FixedTyped ==
  ASSUME NEW d \in InfoType, NEW earliest \in Nat,
         NEW latest \in SUBSET Nat, IsFiniteSet(latest)
  PROVE  /\ Fixed(d, earliest, latest) \in InfoType
         /\ Fixed(d, earliest, latest).sched = d.sched
<1> DEFINE capped == IF \E l \in latest : l < Current(d)
                     THEN Set(d, "repair", Min(latest)) ELSE d
           raised == IF Current(capped) < earliest
                     THEN Set(capped, "repair", earliest) ELSE capped
<1>1. capped \in InfoType /\ capped.sched = d.sched
  BY MinIn, SetTyped DEF Fields
<1>2. raised \in InfoType /\ raised.sched = d.sched
  <2> HIDE DEF capped
  <2> QED
    BY <1>1, SetTyped DEF Fields
<1>3. Fixed(d, earliest, latest)
        = IF Current(raised) = Original(raised) THEN Set(raised, "repair", 0) ELSE raised
  BY DEF Fixed
<1> HIDE DEF raised
<1>4. Set(raised, "repair", 0) \in InfoType /\ Set(raised, "repair", 0).sched = d.sched
  BY <1>2, SetTyped DEF Fields
<1> QED
  BY <1>2, <1>3, <1>4

LEMMA Shape ==
  ASSUME TypeOK, NEW t \in Trip
  PROVE  /\ graph \in GraphType
         /\ In(loc[t], graph)
         /\ graph[loc[t].route][loc[t].row] \in RowType
<1>1. graph \in GraphType
  BY DEF TypeOK, GraphType, RowType, Minute
<1>2. In(loc[t], graph)
  BY DEF TypeOK, In
<1>3. graph[loc[t].route] \in Seq(RowType)
  BY <1>1, <1>2 DEF GraphType, In
<1> QED
  BY <1>1, <1>2, <1>3 DEF In

LEMMA InfoFacts ==
  ASSUME IInv, NEW t \in Trip, NEW e \in Event
  PROVE  /\ info[t][e] \in InfoType
         /\ TimeOf(t, e) \in Nat
         /\ Timetable[t][e] \in Nat /\ Timetable[t][e] # 0
         /\ Info(<<t, e>>) \in InfoType
         /\ Info(<<t, e>>).sched = Timetable[t][e]
         /\ Current(Info(<<t, e>>)) \in Nat
<1>1. info[t][e] \in InfoType
  BY DEF IInv, TypeOK, InfoType
<1>2. graph[loc[t].route][loc[t].row] \in RowType
  BY Shape DEF IInv
<1>3. TimeOf(t, e) \in Nat
  BY <1>2 DEF TimeOf, Row, RowType
<1>4. Timetable[t][e] \in Nat /\ Timetable[t][e] # 0
  BY RtAssumption
<1>5. (IF Stored(<<t, e>>) = None THEN TimeOf(t, e) ELSE Stored(<<t, e>>).sched)
        = Timetable[t][e]
  BY DEF IInv, ScheduleRemembered, Key
<1>6. Info(<<t, e>>) \in InfoType /\ Info(<<t, e>>).sched = Timetable[t][e]
  BY <1>1, <1>3, <1>5, NewTyped DEF Info, Stored
<1> QED
  BY <1>1, <1>3, <1>4, <1>6, CurrentNat

-----------------------------------------------------------------------------
(* The graph with one row replaced, and with one more route.                *)
LEMMA Replaced ==
  ASSUME NEW g \in GraphType, NEW at, In(at, g), NEW row \in RowType,
         NEW h, h = [g EXCEPT ![at.route][at.row] = row]
  PROVE  /\ h \in GraphType /\ DOMAIN h = DOMAIN g
         /\ \A r \in DOMAIN g :
              /\ h[r] \in Seq(RowType) /\ Len(h[r]) = Len(g[r]) /\ DOMAIN h[r] = DOMAIN g[r]
              /\ \A i \in DOMAIN g[r] :
                   h[r][i] = IF r = at.route /\ i = at.row THEN row ELSE g[r][i]
<1>1. \A r \in DOMAIN g : g[r] \in Seq(RowType)
  BY DEF GraphType
<1>2. [g[at.route] EXCEPT ![at.row] = row] \in Seq(RowType)
  BY <1>1 DEF In
<1> DEFINE new == [g[at.route] EXCEPT ![at.row] = row]
<1>3. h = [g EXCEPT ![at.route] = new]
  OBVIOUS
<1>4. /\ new \in Seq(RowType) /\ Len(new) = Len(g[at.route])
      /\ DOMAIN new = DOMAIN g[at.route]
      /\ \A i \in DOMAIN g[at.route] : new[i] = IF i = at.row THEN row ELSE g[at.route][i]
  BY <1>1, <1>2 DEF In
<1> HIDE DEF new
<1>5. h \in GraphType /\ DOMAIN h = DOMAIN g
  BY <1>1, <1>3, <1>4 DEF GraphType, In
<1>6. \A r \in DOMAIN g : h[r] = IF r = at.route THEN new ELSE g[r]
  BY <1>3 DEF GraphType, In
<1> QED
  BY <1>1, <1>4, <1>5, <1>6

LEMMA TimeWritten ==
  ASSUME NEW g \in GraphType, NEW at, In(at, g), NEW time \in [Event -> Nat]
  PROVE  Rewritten(g, [g EXCEPT ![at.route][at.row].time = time], at, time)
<1> DEFINE row == [g[at.route][at.row] EXCEPT !.time = time]
           h == [g EXCEPT ![at.route][at.row].time = time]
           new == [g EXCEPT ![at.route][at.row] = row]
<1>1. g[at.route][at.row] \in RowType
  BY DEF GraphType, In
<1>2. /\ row \in RowType /\ row.time = time
      /\ row.trip = g[at.route][at.row].trip /\ row.valid = g[at.route][at.row].valid
  BY <1>1 DEF RowType
<1>3. h = new
  OBVIOUS
<1> HIDE DEF row, h
<1>4. /\ new \in GraphType /\ DOMAIN new = DOMAIN g
      /\ \A r \in DOMAIN g :
           /\ Len(new[r]) = Len(g[r]) /\ DOMAIN new[r] = DOMAIN g[r]
           /\ \A i \in DOMAIN g[r] :
                new[r][i] = IF r = at.route /\ i = at.row THEN row ELSE g[r][i]
  BY <1>2, Replaced
<1> HIDE DEF new
<1>5. Rewritten(g, h, at, time)
  BY <1>2, <1>3, <1>4 DEF Rewritten
<1> QED
  BY <1>5 DEF h

LEMMA SeparatedFacts ==
  ASSUME NEW g \in GraphType, NEW at, In(at, g)
  PROVE  Copied(g, Separated(g, at), at, OwnRoute(g))
<1> DEFINE row == Invalid(g[at.route][at.row], Section)
           old == [g EXCEPT ![at.route][at.row] = row]
<1>1. g[at.route][at.row] \in RowType
  BY DEF GraphType, In
<1>2. /\ row \in RowType /\ row.valid = {}
      /\ row.trip = g[at.route][at.row].trip /\ row.time = g[at.route][at.row].time
  BY <1>1 DEF RowType, Invalid
<1>3. old = [g EXCEPT ![at.route][at.row] = Invalid(@, Section)]
  OBVIOUS
<1> HIDE DEF row
<1>4. /\ old \in GraphType /\ DOMAIN old = DOMAIN g
      /\ \A r \in DOMAIN g :
           /\ Len(old[r]) = Len(g[r]) /\ DOMAIN old[r] = DOMAIN g[r]
           /\ \A i \in DOMAIN g[r] :
                old[r][i] = IF r = at.route /\ i = at.row THEN row ELSE g[r][i]
  BY <1>2, Replaced
<1> HIDE DEF old
<1>5. Separated(g, at) = Append(old, <<g[at.route][at.row]>>)
  BY <1>3 DEF Separated, Row
<1>6. <<g[at.route][at.row]>> \in Seq(RowType)
  BY <1>1
<1>7. Len(old) = Len(g)
  BY <1>4 DEF GraphType
<1>8. /\ Separated(g, at) \in GraphType
      /\ DOMAIN Separated(g, at) = DOMAIN g \cup {Len(g) + 1}
      /\ Separated(g, at)[Len(g) + 1] = <<g[at.route][at.row]>>
      /\ \A r \in DOMAIN g : Separated(g, at)[r] = old[r]
      /\ Len(g) + 1 \notin DOMAIN g
  BY <1>4, <1>5, <1>6, <1>7 DEF GraphType
<1>9. /\ OwnRoute(g) = [route |-> Len(g) + 1, row |-> 1]
      /\ OwnRoute(g).route = Len(g) + 1 /\ OwnRoute(g).row = 1
      /\ Len(g) + 1 \in Nat \ {0}
  BY DEF OwnRoute, GraphType
<1>10. In(OwnRoute(g), Separated(g, at))
  BY <1>1, <1>8, <1>9 DEF In
<1>11. \A r \in DOMAIN g : \A i \in DOMAIN g[r] :
         /\ old[r][i].trip = g[r][i].trip /\ old[r][i].time = g[r][i].time
         /\ old[r][i].valid = IF r = at.route /\ i = at.row THEN {} ELSE g[r][i].valid
  BY <1>2, <1>4
<1>12. /\ DOMAIN <<g[at.route][at.row]>> = {1} /\ Len(<<g[at.route][at.row]>>) = 1
       /\ <<g[at.route][at.row]>>[1] = g[at.route][at.row]
  OBVIOUS
<1>13. /\ DOMAIN Separated(g, at)[OwnRoute(g).route] = {1}
       /\ Len(Separated(g, at)[OwnRoute(g).route]) = 1
       /\ Separated(g, at)[OwnRoute(g).route][1] = g[at.route][at.row]
  BY <1>8, <1>9, <1>12
<1>14. /\ DOMAIN Separated(g, at) = DOMAIN g \cup {OwnRoute(g).route}
       /\ OwnRoute(g).route \notin DOMAIN g /\ OwnRoute(g).route \in Nat \ {0}
       /\ OwnRoute(g) = [route |-> OwnRoute(g).route, row |-> 1]
  BY <1>8, <1>9
<1>15. \A r \in DOMAIN g :
         /\ Len(Separated(g, at)[r]) = Len(g[r]) /\ DOMAIN Separated(g, at)[r] = DOMAIN g[r]
         /\ \A i \in DOMAIN g[r] : Separated(g, at)[r][i] = old[r][i]
  BY <1>4, <1>8
<1>16. \A r \in DOMAIN g :
         /\ Len(Separated(g, at)[r]) = Len(g[r]) /\ DOMAIN Separated(g, at)[r] = DOMAIN g[r]
         /\ \A i \in DOMAIN g[r] :
              /\ Separated(g, at)[r][i].trip = g[r][i].trip
              /\ Separated(g, at)[r][i].time = g[r][i].time
              /\ Separated(g, at)[r][i].valid = IF r = at.route /\ i = at.row
                                                 THEN {} ELSE g[r][i].valid
  BY <1>11, <1>15
<1>17. Separated(g, at) \in GraphType
  BY <1>8
<1> QED
  BY <1>10, <1>13, <1>14, <1>16, <1>17, Zenon DEF Copied
-----------------------------------------------------------------------------
(* Delay infos that are set and fetched: they keep their schedule times.    *)
LEMMA Neighbours ==
  ASSUME NEW k \in Key
  PROVE  /\ After(k) \subseteq Key /\ \A j \in After(k) : j[2] > 1
         /\ Before(k) \subseteq Key
         /\ k[2] > 1 => Before(k) = {<<k[1], k[2] - 1>>}
  BY RtAssumption DEF After, Before, Key, Event

LEMMA SetKeeps ==
  ASSUME IInv, NEW k \in Key, NEW reason \in {"is", "forecast", "propagation"},
         NEW minute \in Nat, NEW touched \in SUBSET Key, NEW queue \in SUBSET pq,
         SetAndExpand(k, reason, minute, touched, queue), graph' = graph, loc' = loc
  PROVE  /\ info' \in [Trip -> [Event -> InfoType]]
         /\ pq' \subseteq events' /\ events \subseteq events' /\ events' \subseteq Key
         /\ \A j \in pq' : j[2] > 1
         /\ \A j \in events' : Stored(j)' # None
         /\ ScheduleRemembered'
         /\ \A t \in Trip, e \in Event :
              /\ TimeOf(t, e)' = TimeOf(t, e)
              /\ <<t, e>> = k => Info(<<t, e>>)' = Set(Info(k), reason, minute)
              /\ <<t, e>> # k => Info(<<t, e>>)' = Info(<<t, e>>)
              /\ <<t, e>> # k => info'[t][e].is = info[t][e].is
<1> DEFINE d == Set(Info(k), reason, minute)
           pushed == IF Current(d) # Current(Info(k)) THEN After(k) ELSE {}
           fetched == pushed \cup touched
<1>1. /\ info' = [GetOrCreate(fetched) EXCEPT ![k[1]][k[2]] = d]
      /\ pq' = queue \cup pushed
      /\ events' = events \cup {k} \cup pushed \cup touched
  BY DEF SetAndExpand
<1>2. /\ pushed \subseteq Key /\ \A j \in pushed : j[2] > 1
  BY Neighbours
<1>3. \A t \in Trip, e \in Event :
        /\ info[t][e] \in InfoType
        /\ Info(<<t, e>>) \in InfoType /\ Info(<<t, e>>).sched = Timetable[t][e]
        /\ Timetable[t][e] # 0
  BY InfoFacts
<1>4. PICK kt \in Trip, ke \in Event : k = <<kt, ke>>
  BY DEF Key
<1>5. d \in InfoType /\ d.sched = Timetable[kt][ke]
  BY <1>3, <1>4, SetTyped DEF Fields
<1> HIDE DEF d, pushed
<1>6. GetOrCreate(fetched) \in [Trip -> [Event -> InfoType]]
  BY <1>3 DEF GetOrCreate
<1>7. \A t \in Trip, e \in Event :
        info'[t][e] = IF <<t, e>> = k THEN d
                      ELSE IF <<t, e>> \in fetched THEN Info(<<t, e>>) ELSE info[t][e]
  BY <1>1, <1>4, <1>6 DEF GetOrCreate
<1>8. info' \in [Trip -> [Event -> InfoType]]
  BY <1>1, <1>4, <1>5, <1>6
<1>9. \A t \in Trip, e \in Event :
        <<t, e>> \in events' => info'[t][e] # None
  <2> SUFFICES ASSUME NEW t \in Trip, NEW e \in Event, <<t, e>> \in events'
               PROVE  info'[t][e] # None
    OBVIOUS
  <2>1. CASE <<t, e>> = k \/ <<t, e>> \in fetched
    <3>1. info'[t][e].sched # 0
      BY <1>3, <1>4, <1>5, <1>7, <2>1
    <3> QED
      BY <3>1 DEF None
  <2>2. CASE ~(<<t, e>> = k \/ <<t, e>> \in fetched)
    <3>1. <<t, e>> \in events /\ info'[t][e] = info[t][e]
      BY <1>1, <1>7, <2>2
    <3> QED
      BY <3>1 DEF IInv, Stored
  <2> QED
    BY <2>1, <2>2
<1>10. \A t \in Trip, e \in Event :
         (IF info'[t][e] = None THEN TimeOf(t, e) ELSE info'[t][e].sched) = Timetable[t][e]
  <2> SUFFICES ASSUME NEW t \in Trip, NEW e \in Event
               PROVE  (IF info'[t][e] = None THEN TimeOf(t, e) ELSE info'[t][e].sched)
                        = Timetable[t][e]
    OBVIOUS
  <2>1. CASE <<t, e>> = k \/ <<t, e>> \in fetched
    <3>1. info'[t][e].sched = Timetable[t][e] /\ Timetable[t][e] # 0
      BY <1>3, <1>4, <1>5, <1>7, <2>1
    <3> QED
      BY <3>1 DEF None
  <2>2. CASE ~(<<t, e>> = k \/ <<t, e>> \in fetched)
    <3>1. info'[t][e] = info[t][e]
      BY <1>7, <2>2
    <3>2. (IF Stored(<<t, e>>) = None THEN TimeOf(t, e) ELSE Stored(<<t, e>>).sched)
            = Timetable[t][e]
      BY DEF IInv, ScheduleRemembered, Key
    <3> QED
      BY <3>1, <3>2 DEF Stored
  <2> QED
    BY <2>1, <2>2
<1>11. \A t \in Trip, e \in Event : TimeOf(t, e)' = TimeOf(t, e)
  BY DEF TimeOf, Row
<1>12. pq' \subseteq events' /\ events \subseteq events' /\ events' \subseteq Key
  BY <1>1, <1>2 DEF IInv, TypeOK
<1>13. \A j \in pq' : j[2] > 1
  BY <1>1, <1>2 DEF IInv
<1>14. \A j \in events' : Stored(j)' # None
  BY <1>9, <1>12 DEF Stored, Key
<1>15. ScheduleRemembered'
  BY <1>10, <1>11 DEF ScheduleRemembered, Key, Stored
<1>16. \A t \in Trip, e \in Event :
         Info(<<t, e>>)' = IF <<t, e>> = k THEN d ELSE Info(<<t, e>>)
  <2> SUFFICES ASSUME NEW t \in Trip, NEW e \in Event
               PROVE  Info(<<t, e>>)' = IF <<t, e>> = k THEN d ELSE Info(<<t, e>>)
    OBVIOUS
  <2>1. Info(<<t, e>>)' = IF info'[t][e] = None THEN NewInfo(TimeOf(t, e)) ELSE info'[t][e]
    BY <1>11 DEF Info, Stored
  <2>2. Info(<<t, e>>) = IF info[t][e] = None THEN NewInfo(TimeOf(t, e)) ELSE info[t][e]
    BY DEF Info, Stored
  <2>3. d # None /\ Info(<<t, e>>) # None
    BY <1>3, <1>4, <1>5 DEF None
  <2> QED
    BY <1>7, <2>1, <2>2, <2>3
<1>17. \A t \in Trip, e \in Event : <<t, e>> # k => info'[t][e].is = info[t][e].is
  <2>1. \A t \in Trip, e \in Event : Info(<<t, e>>).is = info[t][e].is
    BY DEF Info, Stored, NewInfo, None
  <2> QED
    BY <1>7, <2>1
<1> QED
  BY <1>8, <1>11, <1>12, <1>13, <1>14, <1>15, <1>16, <1>17 DEF d

LEMMA PropagatedNat ==
  ASSUME IInv, NEW k \in pq
  PROVE  k \in Key /\ Propagated(k) \in Nat
<1>1. k \in Key /\ k[2] > 1
  BY DEF IInv, TypeOK
<1>2. PICK t \in Trip, e \in Event : k = <<t, e>>
  BY <1>1 DEF Key
<1>3. e - 1 \in Event
  BY <1>1, <1>2, RtAssumption DEF Event
<1>4. (CHOOSE b \in Before(k) : TRUE) = <<t, e - 1>>
  BY <1>1, <1>2, Neighbours
<1>5. /\ Timetable[t][e] \in Nat /\ Timetable[t][e - 1] \in Nat
      /\ Timetable[t][e - 1] <= Timetable[t][e]
  BY <1>3, RtAssumption DEF Event
<1> DEFINE gap == Info(k).sched - Info(<<t, e - 1>>).sched
<1>6. gap \in Nat /\ Current(Info(<<t, e - 1>>)) \in Nat
  BY <1>2, <1>3, <1>5, InfoFacts
<1> HIDE DEF gap
<1>7. Min({2, gap}) \in Nat
  BY <1>6 DEF Min
<1>8. Propagated(k) = Current(Info(<<t, e - 1>>))
                        + (IF IsDeparture(k[2]) THEN Min({2, gap}) ELSE gap)
  <2> DEFINE p == CHOOSE b \in Before(k) : TRUE
  <2>1. Propagated(k) = Current(Info(p))
          + (IF IsDeparture(k[2]) THEN Min({2, Info(k).sched - Info(p).sched})
             ELSE Info(k).sched - Info(p).sched)
    BY DEF Propagated
  <2> QED
    BY <1>4, <2>1 DEF gap
<1> QED
  BY <1>1, <1>6, <1>7, <1>8
-----------------------------------------------------------------------------
(* The actions, one by one.                                                 *)
LEMMA TypedByParts ==
  ASSUME graph \in GraphType,
         loc \in [Trip -> [route : Nat \ {0}, row : Nat \ {0}]],
         \A t \in Trip : In(loc[t], graph),
         info \in [Trip -> [Event -> InfoType]],
         pq \subseteq events, events \subseteq Key, todo \subseteq events,
         phase \in {"update", "propagate", "visit"}, wrong \subseteq Trip,
         reports \in 0..MaxReports, corrections \in [Trip -> Nat],
         contradicted \subseteq Trip
  PROVE  TypeOK
  BY DEF TypeOK, GraphType, RowType, InfoType, Minute, In

LEMMA PartsTyped ==
  ASSUME TypeOK
  PROVE  /\ graph \in GraphType
         /\ loc \in [Trip -> [route : Nat \ {0}, row : Nat \ {0}]]
         /\ \A t \in Trip : In(loc[t], graph)
         /\ info \in [Trip -> [Event -> InfoType]]
         /\ pq \subseteq events /\ events \subseteq Key /\ todo \subseteq events
         /\ phase \in {"update", "propagate", "visit"} /\ wrong \subseteq Trip
         /\ reports \in 0..MaxReports /\ corrections \in [Trip -> Nat]
         /\ contradicted \subseteq Trip
  BY DEF TypeOK, GraphType, RowType, InfoType, Minute, In

LEMMA Initially == Init => IInv
<1> SUFFICES ASSUME Init PROVE IInv
  OBVIOUS
<1>1. /\ graph = <<[t \in Trip |-> [trip |-> t, time |-> Timetable[t], valid |-> Section]]>>
      /\ loc = [t \in Trip |-> [route |-> 1, row |-> t]]
      /\ info = [t \in Trip |-> [e \in Event |-> None]]
      /\ pq = {} /\ events = {} /\ todo = {} /\ wrong = {} /\ phase = "update"
      /\ reports = 0 /\ corrections = [t \in Trip |-> 0] /\ contradicted = {}
  BY DEF Init
<1>2. [t \in Trip |-> [trip |-> t, time |-> Timetable[t], valid |-> Section]] \in Seq(RowType)
  <2>1. \A t \in Trip : Timetable[t] \in [Event -> Nat]
    BY RtAssumption
  <2>2. \A t \in Trip :
          [trip |-> t, time |-> Timetable[t], valid |-> Section] \in RowType
    BY <2>1 DEF RowType
  <2> QED
    BY <2>2, RtAssumption DEF Trip
<1>3. graph \in GraphType /\ DOMAIN graph = {1} /\ DOMAIN graph[1] = Trip
  BY <1>1, <1>2 DEF GraphType
<1>4. \A t \in Trip : /\ graph[1][t].trip = t /\ graph[1][t].time = Timetable[t]
                     /\ loc[t].route = 1 /\ loc[t].row = t
  BY <1>1
<1>5. None \in InfoType
  BY NoneDomain DEF InfoType, None
<1>6. TypeOK
  <2>1. loc \in [Trip -> [route : Nat \ {0}, row : Nat \ {0}]]
    BY <1>1 DEF Trip
  <2>2. \A t \in Trip : In(loc[t], graph)
    BY <1>3, <1>4 DEF In
  <2>3. info \in [Trip -> [Event -> InfoType]] /\ corrections \in [Trip -> Nat]
    BY <1>1, <1>5
  <2> QED
    BY <1>1, <1>3, <2>1, <2>2, <2>3, TypedByParts, RtAssumption
<1>7. ScheduleRemembered
  BY <1>1, <1>4 DEF ScheduleRemembered, Stored, TimeOf, Row, Key
<1>8. OneValidCopy
  BY <1>1, <1>3, <1>4 DEF OneValidCopy, Row
<1>9. EdgesSorted
  BY <1>3, <1>4, RtAssumption DEF EdgesSorted, Trip
<1> QED
  BY <1>1, <1>6, <1>7, <1>8, <1>9 DEF IInv, WrongAlone

(* The times of the trip t are replaced where it is.                        *)
LEMMA Stays ==
  ASSUME IInv, NEW t \in Trip, NEW time, Rewritten(graph, graph', loc[t], time), loc' = loc
  PROVE  /\ graph' \in GraphType /\ OneValidCopy'
         /\ \A s \in Trip : In(loc'[s], graph')
         /\ \A s \in Trip : Row(graph', loc'[s]).time
                             = IF s = t THEN time ELSE Row(graph, loc[s]).time
         /\ \A s \in Trip : Len(graph'[loc'[s].route]) = Len(graph[loc[s].route])
<1>1. \A s \in Trip : In(loc[s], graph) /\ graph[loc[s].route][loc[s].row].trip = s
  BY PartsTyped DEF IInv, OneValidCopy, Row
<1>2. /\ graph' \in GraphType /\ \A s \in Trip : In(loc'[s], graph')
      /\ \A s \in Trip : Len(graph'[loc'[s].route]) = Len(graph[loc[s].route])
  BY <1>1 DEF Rewritten, In
<1>3. \A s \in Trip : Row(graph', loc'[s]).time
                     = IF s = t THEN time ELSE Row(graph, loc[s]).time
  BY <1>1 DEF Rewritten, In, Row
<1>4. OneValidCopy'
  <2>1. \A s \in Trip : Row(graph', loc'[s]).trip = s
    BY <1>1 DEF Rewritten, In, Row
  <2>2. ASSUME NEW r \in DOMAIN graph', NEW i \in DOMAIN graph'[r], graph'[r][i].valid # {}
        PROVE  loc'[graph'[r][i].trip] = [route |-> r, row |-> i]
    <3>1. /\ r \in DOMAIN graph /\ i \in DOMAIN graph[r]
          /\ graph'[r][i].trip = graph[r][i].trip /\ graph[r][i].valid # {}
      BY <2>2 DEF Rewritten
    <3> QED
      BY <3>1 DEF IInv, OneValidCopy
  <2> QED
    BY <2>1, <2>2 DEF OneValidCopy, Row
<1> QED
  BY <1>2, <1>3, <1>4

(* The trip t moves to a route of its own, and its times are replaced.      *)
LEMMA Moves ==
  ASSUME IInv, NEW t \in Trip, NEW g, NEW own, NEW time,
         Copied(graph, g, loc[t], own), Rewritten(g, graph', own, time),
         loc' = [loc EXCEPT ![t] = own]
  PROVE  /\ graph' \in GraphType /\ OneValidCopy'
         /\ loc' \in [Trip -> [route : Nat \ {0}, row : Nat \ {0}]]
         /\ \A s \in Trip : In(loc'[s], graph')
         /\ \A s \in Trip : Row(graph', loc'[s]).time
                             = IF s = t THEN time ELSE Row(graph, loc[s]).time
         /\ \A s \in Trip : Len(graph'[loc'[s].route])
                             = IF s = t THEN 1 ELSE Len(graph[loc[s].route])
         /\ EdgesSorted'
<1>1. /\ graph \in GraphType /\ loc \in [Trip -> [route : Nat \ {0}, row : Nat \ {0}]]
      /\ \A s \in Trip : In(loc[s], graph) /\ graph[loc[s].route][loc[s].row].trip = s
  BY PartsTyped DEF IInv, OneValidCopy, Row
<1>2. own \in [route : Nat \ {0}, row : Nat \ {0}]
  BY DEF Copied
<1>3. /\ loc' \in [Trip -> [route : Nat \ {0}, row : Nat \ {0}]]
      /\ \A s \in Trip : loc'[s] = IF s = t THEN own ELSE loc[s]
  BY <1>1, <1>2
<1>4. graph' \in GraphType /\ DOMAIN graph' = DOMAIN graph \cup {own.route}
  BY DEF Copied, Rewritten
<1>5. \A r \in DOMAIN graph :
        /\ r # own.route /\ Len(graph'[r]) = Len(graph[r]) /\ DOMAIN graph'[r] = DOMAIN graph[r]
        /\ \A i \in DOMAIN graph[r] :
             graph'[r][i].trip = graph[r][i].trip /\ graph'[r][i].time = graph[r][i].time
  BY DEF Copied, Rewritten
<1>14. \A r \in DOMAIN graph : \A i \in DOMAIN graph[r] :
        graph'[r][i].valid \subseteq IF r = loc[t].route /\ i = loc[t].row
                                     THEN {} ELSE graph[r][i].valid
  <2> SUFFICES ASSUME NEW r \in DOMAIN graph, NEW i \in DOMAIN graph[r]
               PROVE  graph'[r][i].valid \subseteq IF r = loc[t].route /\ i = loc[t].row
                                                   THEN {} ELSE graph[r][i].valid
    OBVIOUS
  <2>1. /\ r \in DOMAIN g /\ i \in DOMAIN g[r]
        /\ g[r][i].valid = IF r = loc[t].route /\ i = loc[t].row THEN {} ELSE graph[r][i].valid
    BY DEF Copied
  <2>2. graph'[r][i].valid \subseteq g[r][i].valid
    BY <2>1 DEF Rewritten
  <2> QED
    BY <2>1, <2>2
<1>6. /\ own.row = 1 /\ Len(graph'[own.route]) = 1 /\ DOMAIN graph'[own.route] = {1}
      /\ graph'[own.route][1].trip = t /\ graph'[own.route][1].time = time
  <2>1. own.row = 1 /\ own.route \in DOMAIN g /\ DOMAIN g[own.route] = {1} /\ Len(g[own.route]) = 1
    BY DEF Copied
  <2>2. g[own.route][1].trip = t
    BY <1>1 DEF Copied
  <2> QED
    BY <2>1, <2>2 DEF Rewritten
<1>7. \A s \in Trip : In(loc'[s], graph')
  BY <1>1, <1>3, <1>4, <1>5, <1>6 DEF In
<1>8. \A s \in Trip : Row(graph', loc'[s]).time
                     = IF s = t THEN time ELSE Row(graph, loc[s]).time
  BY <1>1, <1>3, <1>5, <1>6 DEF In, Row
<1>9. \A s \in Trip : Len(graph'[loc'[s].route])
                     = IF s = t THEN 1 ELSE Len(graph[loc[s].route])
  BY <1>1, <1>3, <1>5, <1>6 DEF In
<1>10. \A s \in Trip : Row(graph', loc'[s]).trip = s
  BY <1>1, <1>3, <1>5, <1>6 DEF In, Row
<1>11. ASSUME NEW r \in DOMAIN graph', NEW i \in DOMAIN graph'[r], graph'[r][i].valid # {}
       PROVE  loc'[graph'[r][i].trip] = [route |-> r, row |-> i]
  <2>1. CASE r = own.route
    <3>1. i = 1 /\ graph'[r][i].trip = t /\ own = [route |-> r, row |-> i]
      BY <1>6, <1>11, <2>1 DEF Copied
    <3> QED
      BY <1>3, <3>1
  <2>2. CASE r # own.route
    <3>1. /\ r \in DOMAIN graph /\ i \in DOMAIN graph[r]
          /\ graph'[r][i].trip = graph[r][i].trip
          /\ graph[r][i].valid # {} /\ ~(r = loc[t].route /\ i = loc[t].row)
      BY <1>4, <1>5, <1>14, <1>11, <2>2
    <3>2. graph[r][i].trip \in Trip
      <4>1. graph[r] \in Seq(RowType)
        BY <1>1, <3>1 DEF GraphType
      <4>2. graph[r][i] \in RowType
        BY <3>1, <4>1
      <4> QED
        BY <4>2 DEF RowType
    <3>3. loc[graph[r][i].trip] = [route |-> r, row |-> i]
      BY <3>1 DEF IInv, OneValidCopy
    <3>4. graph[r][i].trip # t
      BY <3>1, <3>3
    <3> QED
      BY <1>3, <3>1, <3>2, <3>3, <3>4
  <2> QED
    BY <2>1, <2>2
<1>12. OneValidCopy'
  BY <1>10, <1>11 DEF OneValidCopy
<1>13. EdgesSorted'
  <2>1. \A i, j \in DOMAIN graph'[own.route] : ~(i < j)
    BY <1>6
  <2>2. \A r \in DOMAIN graph : \A i, j \in DOMAIN graph[r] :
          i < j => \A e \in Event : graph'[r][i].time[e] < graph'[r][j].time[e]
    <3>1. EdgesSorted
      BY DEF IInv
    <3> QED
      BY <1>5, <3>1 DEF EdgesSorted
  <2>3. ASSUME NEW r \in DOMAIN graph', NEW i \in DOMAIN graph'[r], NEW j \in DOMAIN graph'[r],
               i < j, NEW e \in Event
        PROVE  graph'[r][i].time[e] < graph'[r][j].time[e]
    <3>1. r \in DOMAIN graph
      BY <1>4, <2>1, <2>3
    <3>2. DOMAIN graph'[r] = DOMAIN graph[r]
      BY <1>5, <3>1
    <3> QED
      BY <2>2, <2>3, <3>1, <3>2
  <2> QED
    BY <2>3 DEF EdgesSorted
<1> QED
  BY <1>3, <1>4, <1>7, <1>8, <1>9, <1>12, <1>13

LEMMA ReportKeeps ==
  ASSUME IInv, NEW k \in Key, NEW reason \in {"is", "forecast"}, NEW minute \in Nat,
         ReportDelay(k, reason, minute)
  PROVE  IInv'
<1>1. /\ SetAndExpand(k, reason, minute, {}, pq) /\ reports < MaxReports /\ reports' = reports + 1
      /\ graph' = graph /\ loc' = loc /\ phase' = phase /\ todo' = todo /\ wrong' = wrong
      /\ corrections' = corrections /\ contradicted' = contradicted
  BY DEF ReportDelay
<1>2. /\ info' \in [Trip -> [Event -> InfoType]]
      /\ pq' \subseteq events' /\ events \subseteq events' /\ events' \subseteq Key
      /\ \A j \in pq' : j[2] > 1
      /\ \A j \in events' : Stored(j)' # None
      /\ ScheduleRemembered'
  BY <1>1, SetKeeps
<1>3. TypeOK'
  <2>1. TypeOK
    BY DEF IInv
  <2>2. reports' \in 0..MaxReports
    BY <1>1, <2>1, RtAssumption DEF TypeOK
  <2> QED
    BY <1>1, <1>2, <2>1, <2>2 DEF TypeOK, InfoType
<1>4. OneValidCopy' /\ WrongAlone' /\ EdgesSorted'
  BY <1>1 DEF IInv, OneValidCopy, Row, WrongAlone, EdgesSorted
<1> QED
  BY <1>2, <1>3, <1>4 DEF IInv

LEMMA PropagateKeeps ==
  ASSUME IInv, NEW k \in pq, Propagate(k)
  PROVE  IInv'
<1>1. /\ SetAndExpand(k, "propagation", Propagated(k), Before(k), pq \ {k})
      /\ graph' = graph /\ loc' = loc /\ phase' = phase /\ todo' = todo /\ wrong' = wrong
      /\ reports' = reports /\ corrections' = corrections /\ contradicted' = contradicted
  BY DEF Propagate
<1>2. k \in Key /\ Propagated(k) \in Nat /\ Before(k) \subseteq Key
  BY PropagatedNat, Neighbours
<1>3. /\ info' \in [Trip -> [Event -> InfoType]]
      /\ pq' \subseteq events' /\ events \subseteq events' /\ events' \subseteq Key
      /\ \A j \in pq' : j[2] > 1
      /\ \A j \in events' : Stored(j)' # None
      /\ ScheduleRemembered'
  BY <1>1, <1>2, SetKeeps
<1>4. TypeOK'
  <2>1. TypeOK
    BY DEF IInv
  <2> QED
    BY <1>1, <1>3, <2>1 DEF TypeOK, InfoType
<1>5. OneValidCopy' /\ WrongAlone' /\ EdgesSorted'
  BY <1>1 DEF IInv, OneValidCopy, Row, WrongAlone, EdgesSorted
<1> QED
  BY <1>3, <1>4, <1>5 DEF IInv

(* Steps that touch neither the graph nor the delay infos.                  *)
LEMMA PhaseKeeps ==
  ASSUME IInv, Flush \/ StartVisits \/ Reset \/ UNCHANGED vars
  PROVE  IInv'
<1>1. TypeOK
  BY DEF IInv
<1>2. TypeOK'
  <2>1. CASE Flush
    BY <1>1, <2>1 DEF TypeOK, Flush
  <2>2. CASE StartVisits
    BY <1>1, <2>2 DEF TypeOK, StartVisits
  <2>3. CASE Reset
    BY <1>1, <2>3 DEF TypeOK, Reset
  <2>4. CASE UNCHANGED vars
    BY <1>1, <2>4 DEF TypeOK, vars
  <2> QED
    BY <2>1, <2>2, <2>3, <2>4
<1>3. /\ graph' = graph /\ loc' = loc /\ info' = info /\ wrong' = wrong
      /\ pq' \subseteq pq /\ events' \subseteq events
  BY DEF Flush, StartVisits, Reset, vars
<1>4. OneValidCopy' /\ WrongAlone' /\ EdgesSorted' /\ ScheduleRemembered'
  BY <1>3 DEF IInv, OneValidCopy, Row, WrongAlone, EdgesSorted, ScheduleRemembered, Stored, TimeOf
<1>5. (\A k \in pq' : k[2] > 1) /\ (\A k \in events' : Stored(k)' # None)
  BY <1>3 DEF IInv, Stored
<1> QED
  BY <1>2, <1>4, <1>5 DEF IInv

(* A cancellation changes the validity of the copy only.                    *)
LEMMA CancelKeeps ==
  ASSUME IInv, NEW t \in Trip, NEW sections \in SUBSET Section, Cancel(t, sections)
  PROVE  IInv' /\ \A s \in Trip, e \in Event : TimeOf(s, e)' = TimeOf(s, e)
<1> DEFINE g == Separated(graph, loc[t])
           own == OwnRoute(graph)
           time == Row(graph, loc[t]).time
           row == Invalid(g[own.route][own.row], sections)
           new == [g EXCEPT ![own.route][own.row] = row]
<1>1. /\ graph' = [g EXCEPT ![own.route][own.row] = Invalid(@, sections)]
      /\ loc' = [loc EXCEPT ![t] = own]
      /\ info' = info /\ pq' = pq /\ events' = events /\ phase' = phase /\ todo' = todo
      /\ wrong' = wrong /\ corrections' = corrections /\ contradicted' = contradicted
      /\ reports < MaxReports /\ reports' = reports + 1
  BY DEF Cancel
<1>2. /\ TypeOK /\ graph \in GraphType /\ In(loc[t], graph)
      /\ reports \in 0..MaxReports /\ wrong \subseteq Trip
  BY PartsTyped DEF IInv
<1>3. Copied(graph, g, loc[t], own)
  BY <1>2, SeparatedFacts
<1>4. graph' = new
  BY <1>1
<1> HIDE DEF g, own
<1>5. Rewritten(g, graph', own, time)
  <2>1. g \in GraphType /\ In(own, g) /\ g[own.route][own.row].time = time
    BY <1>3 DEF Copied, Row
  <2>2. g[own.route][own.row] \in RowType
    BY <2>1 DEF GraphType, In
  <2>3. /\ row \in RowType /\ row.time = time /\ row.trip = g[own.route][own.row].trip
        /\ row.valid \subseteq g[own.route][own.row].valid
    BY <2>1, <2>2 DEF RowType, Invalid
  <2> HIDE DEF row, time
  <2>4. /\ new \in GraphType /\ DOMAIN new = DOMAIN g
        /\ \A r \in DOMAIN g :
             /\ Len(new[r]) = Len(g[r]) /\ DOMAIN new[r] = DOMAIN g[r]
             /\ \A i \in DOMAIN g[r] :
                  new[r][i] = IF r = own.route /\ i = own.row THEN row ELSE g[r][i]
    BY <2>1, <2>3, Replaced
  <2> HIDE DEF new
  <2> QED
    BY <1>4, <2>1, <2>3, <2>4 DEF Rewritten
<1> HIDE DEF time, row, new
<1>6. /\ graph' \in GraphType /\ OneValidCopy' /\ EdgesSorted'
      /\ loc' \in [Trip -> [route : Nat \ {0}, row : Nat \ {0}]]
      /\ \A s \in Trip : In(loc'[s], graph')
      /\ \A s \in Trip : Row(graph', loc'[s]).time
                          = IF s = t THEN time ELSE Row(graph, loc[s]).time
      /\ \A s \in Trip : Len(graph'[loc'[s].route])
                          = IF s = t THEN 1 ELSE Len(graph[loc[s].route])
  BY <1>1, <1>3, <1>5, Moves
<1>7. TypeOK'
  <2>1. reports' \in 0..MaxReports
    BY <1>1, <1>2, RtAssumption
  <2> QED
    BY <1>1, <1>2, <1>6, <2>1, PartsTyped DEF TypeOK, GraphType, RowType, Minute, In
<1>10. \A s \in Trip, e \in Event : TimeOf(s, e)' = TimeOf(s, e)
  BY <1>6 DEF TimeOf, time
<1>8. ScheduleRemembered'
  BY <1>1, <1>10 DEF IInv, ScheduleRemembered, Stored, Key
<1>9. WrongAlone' /\ (\A k \in pq' : k[2] > 1) /\ (\A k \in events' : Stored(k)' # None)
  BY <1>1, <1>2, <1>6 DEF IInv, WrongAlone, TypeOK, Stored
<1> QED
  BY <1>6, <1>7, <1>8, <1>9, <1>10 DEF IInv

LEMMA VisitKeeps ==
  ASSUME IInv, NEW k \in todo, Visit(k)
  PROVE  /\ IInv'
         /\ \A s \in Trip, f \in Event :
              TimeOf(s, f)' = IF <<s, f>> = k THEN Current(Info(k)) ELSE TimeOf(s, f)
<1>1. /\ TypeOK /\ graph \in GraphType /\ todo \subseteq events /\ events \subseteq Key
      /\ wrong \subseteq Trip
  BY PartsTyped DEF IInv
<1>2. PICK t \in Trip, e \in Event : k = <<t, e>>
  BY <1>1 DEF Key
<1> DEFINE minute == Current(Info(k))
           stays == FitsEdge(loc[t], e, minute) /\ FitsTrip(k, minute)
           g  == IF stays THEN graph ELSE Separated(graph, loc[t])
           at == IF stays THEN loc[t] ELSE OwnRoute(graph)
           old == Row(graph, loc[t]).time
           time == [old EXCEPT ![e] = minute]
<1>3. /\ graph' = [g EXCEPT ![at.route][at.row].time[e] = minute]
      /\ loc' = [loc EXCEPT ![t] = at]
      /\ todo' = todo \ {k} /\ wrong' = wrong \cup {x \in {t} : ~FitsTrip(k, minute)}
      /\ info' = info /\ pq' = pq /\ events' = events /\ phase' = phase
      /\ reports' = reports /\ corrections' = corrections /\ contradicted' = contradicted
  BY <1>2 DEF Visit
<1>4. minute \in Nat /\ In(loc[t], graph) /\ Row(graph, loc[t]) \in RowType
  BY <1>1, <1>2, InfoFacts, Shape DEF Row
<1>5. old \in [Event -> Nat] /\ time \in [Event -> Nat]
  BY <1>4 DEF RowType
<1>6. stays => g = graph /\ at = loc[t]
  OBVIOUS
<1>7. ~stays => g = Separated(graph, loc[t]) /\ at = OwnRoute(graph)
  OBVIOUS
<1>8. stays => FitsEdge(loc[t], e, minute) /\ FitsTrip(k, minute)
  OBVIOUS
<1> HIDE DEF minute, stays, g, at
<1>9. ~stays => Copied(graph, g, loc[t], at)
  BY <1>1, <1>4, <1>7, SeparatedFacts
<1>10. /\ g \in GraphType /\ In(at, g) /\ g[at.route][at.row].time = old
  BY <1>1, <1>4, <1>6, <1>9 DEF Copied, Row
<1>11. Rewritten(g, graph', at, time)
  <2>1. graph' = [g EXCEPT ![at.route][at.row].time = time]
    BY <1>3, <1>10
  <2> HIDE DEF time
  <2> QED
    BY <1>5, <1>10, <2>1, TimeWritten
<1>19. time[e] = minute /\ \A f \in Event : f # e => time[f] = old[f]
  BY <1>5
<1> HIDE DEF time, old
<1>12. /\ graph' \in GraphType /\ OneValidCopy'
       /\ loc' \in [Trip -> [route : Nat \ {0}, row : Nat \ {0}]]
       /\ \A s \in Trip : In(loc'[s], graph')
       /\ \A s \in Trip : Row(graph', loc'[s]).time
                           = IF s = t THEN time ELSE Row(graph, loc[s]).time
       /\ \A s \in Trip : Len(graph'[loc'[s].route])
                           = IF s = t /\ ~stays THEN 1 ELSE Len(graph[loc[s].route])
  <2>1. CASE stays
    <3>1. loc' = loc /\ loc \in [Trip -> [route : Nat \ {0}, row : Nat \ {0}]]
      BY <1>1, <1>3, <1>6, <2>1, PartsTyped
    <3>2. Rewritten(graph, graph', loc[t], time)
      BY <1>6, <1>11, <2>1
    <3> QED
      BY <2>1, <3>1, <3>2, Stays
  <2>2. CASE ~stays
    BY <1>3, <1>9, <1>11, <2>2, Moves
  <2> QED
    BY <2>1, <2>2
<1>13. EdgesSorted'
  <2>1. CASE ~stays
    BY <1>3, <1>9, <1>11, <2>1, Moves
  <2>2. CASE stays
    <3> DEFINE r == loc[t].route
               m == loc[t].row
    <3>1. Rewritten(graph, graph', loc[t], time)
      BY <1>6, <1>11, <2>2
    <3>2. /\ graph[r] \in Seq(RowType) /\ m \in DOMAIN graph[r]
          /\ DOMAIN graph[r] = 1..Len(graph[r]) /\ r \in DOMAIN graph
      BY <1>1, <1>4 DEF GraphType, In
    <3>3. \A i \in DOMAIN graph[r] : \A f \in Event : graph[r][i].time[f] \in Nat
      <4>1. \A i \in DOMAIN graph[r] : graph[r][i] \in RowType
        BY <3>2
      <4> QED
        BY <4>1 DEF RowType
    <3>4. /\ m > 1 => graph[r][m - 1].time[e] < minute
          /\ m < Len(graph[r]) => minute < graph[r][m + 1].time[e]
      BY <1>8, <2>2 DEF FitsEdge
    <3>5. \A i, j \in DOMAIN graph[r] :
            i < j => \A f \in Event : graph[r][i].time[f] < graph[r][j].time[f]
      BY <3>2 DEF IInv, EdgesSorted
    <3>6. /\ \A i \in DOMAIN graph[r] : i < m => graph[r][i].time[e] < minute
          /\ \A i \in DOMAIN graph[r] : m < i => minute < graph[r][i].time[e]
      <4> DEFINE n == Len(graph[r])
                 x == [i \in 1..n |-> graph[r][i].time[e]]
      <4>1. n \in Nat /\ m \in 1..n /\ x \in [1..n -> Nat]
        BY <3>2, <3>3
      <4>2. \A i, j \in 1..n : i < j => x[i] < x[j]
        BY <3>2, <3>5
      <4>3. (m > 1 => x[m - 1] < minute) /\ (m < n => minute < x[m + 1])
        BY <3>4, <4>1
      <4>4. \A i \in DOMAIN graph[r] : i \in 1..n /\ x[i] = graph[r][i].time[e]
        BY <3>2
      <4> HIDE DEF x, n, m, r
      <4>5. ASSUME NEW i \in 1..n
            PROVE  (i < m => x[i] < minute) /\ (m < i => minute < x[i])
        <5>1. CASE i < m
          <6>1. i = m - 1 \/ (i < m - 1 /\ x[i] < x[m - 1])
            BY <4>1, <4>2, <5>1
          <6> QED
            BY <1>4, <4>1, <4>3, <5>1, <6>1
        <5>2. CASE m < i
          <6>1. i = m + 1 \/ (m + 1 < i /\ x[m + 1] < x[i])
            BY <4>1, <4>2, <5>2
          <6> QED
            BY <1>4, <4>1, <4>3, <5>2, <6>1
        <5> QED
          BY <4>1, <5>1, <5>2
      <4> QED
        BY <4>4, <4>5
    <3>7. \A f \in Event : time[f] = IF f = e THEN minute ELSE graph[r][m].time[f]
      BY <1>5 DEF time, old, Row
    <3>8. ASSUME NEW q \in DOMAIN graph', NEW i \in DOMAIN graph'[q],
                 NEW j \in DOMAIN graph'[q], i < j, NEW f \in Event
          PROVE  graph'[q][i].time[f] < graph'[q][j].time[f]
      <4>1. /\ q \in DOMAIN graph /\ i \in DOMAIN graph[q] /\ j \in DOMAIN graph[q]
            /\ graph'[q][i].time = IF q = r /\ i = m THEN time ELSE graph[q][i].time
            /\ graph'[q][j].time = IF q = r /\ j = m THEN time ELSE graph[q][j].time
        BY <3>1, <3>8 DEF Rewritten
      <4>2. graph[q][i].time[f] < graph[q][j].time[f]
        BY <3>8, <4>1 DEF IInv, EdgesSorted
      <4> HIDE DEF r, m
      <4> QED
        BY <1>4, <3>2, <3>6, <3>7, <3>8, <4>1, <4>2
    <3> QED
      BY <3>8 DEF EdgesSorted
  <2> QED
    BY <2>1, <2>2
<1>15. TypeOK'
  <2>1. wrong' \subseteq Trip /\ todo' \subseteq events'
    BY <1>1, <1>3
  <2> QED
    BY <1>1, <1>3, <1>12, <2>1, PartsTyped DEF TypeOK, GraphType, RowType, Minute, In, InfoType
<1>16. ScheduleRemembered'
  <2>1. \A s \in Trip, f \in Event :
          <<s, f>> # k => TimeOf(s, f)' = TimeOf(s, f)
    BY <1>2, <1>5, <1>12 DEF TimeOf, time, old
  <2>2. Stored(k) # None
    BY <1>1 DEF IInv
  <2> QED
    BY <1>2, <1>3, <2>1, <2>2 DEF IInv, ScheduleRemembered, Stored, Key
<1>17. WrongAlone'
  <2>1. \A s \in wrong' : s \in wrong \/ (s = t /\ ~stays)
    BY <1>3, <1>8
  <2> QED
    BY <1>1, <1>12, <2>1 DEF IInv, WrongAlone
<1>18. (\A j \in pq' : j[2] > 1) /\ (\A j \in events' : Stored(j)' # None)
  BY <1>3 DEF IInv, Stored
<1>20. \A s \in Trip, f \in Event :
         TimeOf(s, f)' = IF <<s, f>> = k THEN minute ELSE TimeOf(s, f)
  BY <1>2, <1>12, <1>19 DEF TimeOf, old
<1> QED
  BY <1>12, <1>13, <1>15, <1>16, <1>17, <1>18, <1>20 DEF IInv, minute

-----------------------------------------------------------------------------
(* What was measured about a trip is a finite set of minutes.               *)
LEMMA MeasuredFinite ==
  ASSUME IInv, NEW t \in Trip, NEW A \in SUBSET Measured(t)
  PROVE  /\ IsFiniteSet({info[t][m].is : m \in A})
         /\ {info[t][m].is : m \in A} \subseteq Nat
<1> DEFINE T == {info[t][m].is : m \in A}
           f == [m \in A |-> info[t][m].is]
<1>1. IsFiniteSet(A)
  <2>1. IsFiniteSet(Event)
    BY FS_Interval, RtAssumption DEF Event
  <2> QED
    BY <2>1, FS_Subset DEF Measured
<1>2. f \in Surjection(A, T)
  BY DEF Surjection
<1>3. IsFiniteSet(T)
  BY <1>1, <1>2, FS_Surjection
<1>4. \A m \in A : info[t][m] \in InfoType
  BY InfoFacts DEF Measured
<1>5. \A m \in A : info[t][m].is \in Nat
  BY <1>4, NoneDomain DEF InfoType, Fields
<1> QED
  BY <1>3, <1>5

LEMMA Bounds ==
  ASSUME IInv, NEW t \in Trip, NEW e \in Event
  PROVE  /\ Earliest(t, e) \in Nat
         /\ AtLatest(t, e) \in SUBSET Nat /\ IsFiniteSet(AtLatest(t, e))
<1> DEFINE A == {x \in Measured(t) : x <= e}
           S == {0} \cup {info[t][m].is : m \in A}
<1>1. IsFiniteSet({info[t][m].is : m \in A}) /\ {info[t][m].is : m \in A} \subseteq Nat
  BY MeasuredFinite
<1>2. IsFiniteSet(S) /\ S \in SUBSET Nat /\ S # {}
  <2>1. IsFiniteSet({0}) /\ {0} \subseteq Nat
    <3>1. IsFiniteSet({0})
      BY FS_Singleton, Zenon
    <3> QED
      BY <3>1
  <2> HIDE DEF A
  <2> QED
    <3>1. {0} \cup {info[t][m].is : m \in A} \in SUBSET Nat
      BY <1>1, <2>1
    <3>2. IsFiniteSet({0} \cup {info[t][m].is : m \in A})
      BY <1>1, <2>1, FS_Union, Zenon
    <3> QED
      BY <3>1, <3>2
<1>3. Earliest(t, e) \in Nat
  BY <1>2, MaxIn DEF Earliest
<1>4. {x \in Measured(t) : x >= e} \in SUBSET Measured(t)
  OBVIOUS
<1> QED
  BY <1>3, <1>4, MeasuredFinite DEF AtLatest

(* A repaired trip keeps its schedule times, and no other row is touched.   *)
Entry(t, e)    == Fixed(Info(<<t, e>>), Earliest(t, e), AtLatest(t, e))
Repaired(t, e) ==
  Measured(t) # {} /\ Entry(t, e).repair # 0 /\ Entry(t, e).repair # TimeOf(t, e)

LEMMA RepairKeeps ==
  ASSUME IInv, NEW t \in wrong, Repair(t)
  PROVE  /\ IInv'
         /\ \A s \in Trip \ {t}, e \in Event :
              info'[s][e] = info[s][e] /\ TimeOf(s, e)' = TimeOf(s, e)
         /\ \A e \in Event :
              IF Repaired(t, e)
              THEN /\ info'[t][e] = Set(Info(<<t, e>>), "repair", Entry(t, e).repair)
                   /\ TimeOf(t, e)' = Entry(t, e).repair
              ELSE info'[t][e] = info[t][e] /\ TimeOf(t, e)' = TimeOf(t, e)
<1> DEFINE entries == [e \in Event |->
                        Fixed(Info(<<t, e>>), Earliest(t, e), AtLatest(t, e))]
           changed == Changed(t, entries)
<1>1. /\ info' = [info EXCEPT ![t] = [e \in Event |->
             IF e \in changed THEN Set(Info(<<t, e>>), "repair", entries[e].repair)
             ELSE @[e]]]
        /\ graph' = [graph EXCEPT ![loc[t].route][loc[t].row].time = [e \in Event |->
             IF e \in changed THEN entries[e].repair ELSE @[e]]]
  <2> HIDE DEF Changed
  <2>1. \E x \in {entries} : \E c \in {Changed(t, x)} :
          /\ info' = [info EXCEPT ![t] = [e \in Event |->
               IF e \in c THEN Set(Info(<<t, e>>), "repair", x[e].repair) ELSE @[e]]]
          /\ graph' = [graph EXCEPT ![loc[t].route][loc[t].row].time = [e \in Event |->
               IF e \in c THEN x[e].repair ELSE @[e]]]
    BY DEF Repair
  <2> HIDE DEF entries
  <2> QED
    BY <2>1
<1>2. /\ loc' = loc /\ pq' = pq /\ events' = events /\ phase' = phase /\ todo' = todo
      /\ reports' = reports /\ wrong' = wrong \ {t}
      /\ corrections' = [corrections EXCEPT ![t] = @ + 1]
      /\ contradicted' = contradicted \cup {x \in {t} : Contradicting(t)}
  BY DEF Repair
<1>3. /\ TypeOK /\ t \in Trip /\ graph \in GraphType /\ events \subseteq Key
      /\ info \in [Trip -> [Event -> InfoType]] /\ In(loc[t], graph)
      /\ Row(graph, loc[t]) \in RowType
  BY PartsTyped, Shape DEF IInv, Row
<1>4. \A e \in Event : entries[e] \in InfoType
  BY <1>3, Bounds, FixedTyped, InfoFacts
<1>18. \A e \in Event : /\ entries[e] = Entry(t, e)
                        /\ e \in changed <=> Repaired(t, e)
  BY DEF Entry, Repaired, Changed
<1> HIDE DEF entries, changed
<1>5. \A e \in Event : entries[e].repair \in Nat
  BY <1>4, NoneDomain DEF InfoType, Fields
<1> DEFINE time == [e \in Event |-> IF e \in changed THEN entries[e].repair
                                    ELSE graph[loc[t].route][loc[t].row].time[e]]
           infos == [e \in Event |-> IF e \in changed
                       THEN Set(Info(<<t, e>>), "repair", entries[e].repair)
                       ELSE info[t][e]]
<1>6. time \in [Event -> Nat]
  BY <1>3, <1>5 DEF RowType, Row
<1>7. graph' = [graph EXCEPT ![loc[t].route][loc[t].row].time = time]
  BY <1>1
<1>8. info' = [info EXCEPT ![t] = infos]
  BY <1>1
<1>9. \A e \in Event : /\ infos[e] \in InfoType
                       /\ \/ infos[e] = info[t][e] /\ e \notin changed
                          \/ infos[e].sched = Timetable[t][e] /\ infos[e] # None
  <2> SUFFICES ASSUME NEW e \in Event
               PROVE  /\ infos[e] \in InfoType
                      /\ \/ infos[e] = info[t][e] /\ e \notin changed
                         \/ infos[e].sched = Timetable[t][e] /\ infos[e] # None
    OBVIOUS
  <2>1. CASE e \in changed
    <3>1. /\ Info(<<t, e>>) \in InfoType /\ Info(<<t, e>>).sched = Timetable[t][e]
          /\ Timetable[t][e] # 0
      BY <1>3, InfoFacts
    <3>2. infos[e] \in InfoType /\ infos[e].sched = Timetable[t][e]
      BY <1>5, <2>1, <3>1, SetTyped DEF Fields
    <3> QED
      BY <3>1, <3>2 DEF None
  <2>2. CASE e \notin changed
    BY <1>3, <2>2
  <2> QED
    BY <2>1, <2>2
<1>19. \A e \in Event :
         /\ time[e] = IF e \in changed THEN entries[e].repair ELSE TimeOf(t, e)
         /\ infos[e] = IF e \in changed
                        THEN Set(Info(<<t, e>>), "repair", entries[e].repair)
                        ELSE info[t][e]
  BY DEF TimeOf, Row
<1> HIDE DEF time, infos
<1>10. Rewritten(graph, graph', loc[t], time)
  BY <1>3, <1>6, <1>7, TimeWritten
<1>11. /\ graph' \in GraphType /\ OneValidCopy'
       /\ \A s \in Trip : In(loc'[s], graph')
       /\ \A s \in Trip : Row(graph', loc'[s]).time
                           = IF s = t THEN time ELSE Row(graph, loc[s]).time
       /\ \A s \in Trip : Len(graph'[loc'[s].route]) = Len(graph[loc[s].route])
  BY <1>2, <1>3, <1>10, Stays
<1>12. infos \in [Event -> InfoType]
  BY <1>9 DEF infos
<1>13. TypeOK'
  <2>1. info' \in [Trip -> [Event -> InfoType]]
    BY <1>3, <1>8, <1>12
  <2>2. corrections' \in [Trip -> Nat] /\ contradicted' \subseteq Trip
    BY <1>2, <1>3, PartsTyped
  <2> QED
    BY <1>2, <1>3, <1>11, <2>1, <2>2, PartsTyped DEF TypeOK, GraphType, RowType, Minute, In, InfoType
<1>14. ScheduleRemembered'
  <2>1. \A s \in Trip, e \in Event : ~(s = t /\ e \in changed) =>
          TimeOf(s, e)' = TimeOf(s, e)
    <3>1. \A s \in Trip : s # t => Row(graph', loc'[s]).time = Row(graph, loc[s]).time
      BY <1>11
    <3>2. Row(graph', loc'[t]).time = time
      BY <1>3, <1>11
    <3>3. \A e \in Event : e \notin changed => time[e] = Row(graph, loc[t]).time[e]
      BY DEF time, Row
    <3> QED
      BY <1>3, <3>1, <3>2, <3>3 DEF TimeOf
  <2>2. \A s \in Trip, e \in Event :
          info'[s][e] = IF s = t THEN infos[e] ELSE info[s][e]
    BY <1>3, <1>8
  <2> SUFFICES ASSUME NEW s \in Trip, NEW e \in Event
               PROVE  (IF info'[s][e] = None THEN TimeOf(s, e)' ELSE info'[s][e].sched)
                        = Timetable[s][e]
    <3>1. \A s \in Trip, e \in Event :
            Stored(<<s, e>>)' = info'[s][e] /\ Stored(<<s, e>>) = info[s][e]
      BY DEF Stored
    <3>2. SUFFICES ASSUME NEW k \in Key
          PROVE (IF Stored(k)' = None THEN TimeOf(k[1], k[2])' ELSE Stored(k)'.sched)
                   = Timetable[k[1]][k[2]]
      BY DEF ScheduleRemembered
    <3>3. PICK s \in Trip, e \in Event : k = <<s, e>>
      BY DEF Key
    <3> QED
      BY <3>1, <3>3
  <2>3. (IF info[s][e] = None THEN TimeOf(s, e) ELSE info[s][e].sched) = Timetable[s][e]
    <3>1. <<s, e>> \in Key /\ Stored(<<s, e>>) = info[s][e]
      BY DEF Key, Stored
    <3>2. (IF Stored(<<s, e>>) = None THEN TimeOf(s, e) ELSE Stored(<<s, e>>).sched)
            = Timetable[s][e]
      BY <3>1 DEF IInv, ScheduleRemembered
    <3> QED
      BY <3>1, <3>2
  <2> QED
    BY <1>9, <2>1, <2>2, <2>3
<1>15. WrongAlone'
  BY <1>2, <1>3, <1>11, PartsTyped DEF IInv, WrongAlone
<1>16. (\A j \in pq' : j[2] > 1) /\ (\A j \in events' : Stored(j)' # None)
  <2>1. ASSUME NEW s \in Trip, NEW e \in Event, <<s, e>> \in events
        PROVE  info'[s][e] # None
    <3>1. info[s][e] # None
      BY <2>1 DEF IInv, Stored
    <3> QED
      BY <1>3, <1>8, <1>9, <3>1
  <2> QED
    BY <1>2, <1>3, <2>1 DEF IInv, Stored, Key
<1>17. EdgesSorted'
  <2>1. Len(graph[loc[t].route]) = 1
    BY DEF IInv, WrongAlone
  <2>2. DOMAIN graph[loc[t].route] = {1}
    <3>1. graph[loc[t].route] \in Seq(RowType)
      BY <1>3 DEF GraphType, In
    <3> QED
      BY <2>1, <3>1
  <2>3. ASSUME NEW r \in DOMAIN graph', NEW i \in DOMAIN graph'[r], NEW j \in DOMAIN graph'[r],
               i < j, NEW e \in Event
        PROVE  graph'[r][i].time[e] < graph'[r][j].time[e]
    <3>1. /\ r \in DOMAIN graph /\ i \in DOMAIN graph[r] /\ j \in DOMAIN graph[r]
      BY <1>10 DEF Rewritten
    <3>2. r # loc[t].route
      BY <2>2, <2>3, <3>1
    <3>3. graph'[r][i].time = graph[r][i].time /\ graph'[r][j].time = graph[r][j].time
      BY <1>10, <3>1, <3>2 DEF Rewritten
    <3> QED
      BY <2>3, <3>1, <3>3 DEF IInv, EdgesSorted
  <2> QED
    BY <2>3 DEF EdgesSorted
<1>20. ASSUME NEW s \in Trip \ {t}, NEW e \in Event
       PROVE  info'[s][e] = info[s][e] /\ TimeOf(s, e)' = TimeOf(s, e)
  BY <1>3, <1>8, <1>11 DEF TimeOf
<1>21. ASSUME NEW e \in Event
       PROVE  IF Repaired(t, e)
              THEN /\ info'[t][e] = Set(Info(<<t, e>>), "repair", Entry(t, e).repair)
                   /\ TimeOf(t, e)' = Entry(t, e).repair
              ELSE info'[t][e] = info[t][e] /\ TimeOf(t, e)' = TimeOf(t, e)
  <2>1. info'[t][e] = infos[e] /\ TimeOf(t, e)' = time[e]
    BY <1>3, <1>8, <1>11, <1>12 DEF TimeOf
  <2> QED
    BY <1>18, <1>19, <2>1
<1> QED
  BY <1>11, <1>13, <1>14, <1>15, <1>16, <1>17, <1>20, <1>21 DEF IInv

-----------------------------------------------------------------------------
LEMMA StepKeeps ==
  ASSUME IInv, [Next]_vars
  PROVE  IInv'
<1>1. ASSUME NEW r \in Reports, ReportDelay(<<r[1], r[2]>>, r[3], r[4])
      PROVE  IInv'
  <2>1. <<r[1], r[2]>> \in Key /\ r[3] \in {"is", "forecast"} /\ r[4] \in Nat
    BY RtAssumption DEF Key
  <2> QED
    BY <1>1, <2>1, ReportKeeps
<1>2. ASSUME NEW t \in Cancelled, NEW sections \in SUBSET Section, Cancel(t, sections)
      PROVE  IInv'
  BY <1>2, RtAssumption, CancelKeeps
<1>3. ASSUME NEW k \in pq, Propagate(k) PROVE IInv'
  BY <1>3, PropagateKeeps
<1>4. ASSUME NEW k \in todo, Visit(k) PROVE IInv'
  BY <1>4, VisitKeeps
<1>5. ASSUME NEW t \in wrong, Repair(t) PROVE IInv'
  BY <1>5, RepairKeeps
<1> QED
  BY <1>1, <1>2, <1>3, <1>4, <1>5, PhaseKeeps DEF Next, Receive, Handle

(* The inductive invariant holds whatever is reported and however a flush   *)
(* orders its visits.                                                       *)
THEOREM Invariant == Spec => []IInv
<1>1. Init => IInv
  BY Initially
<1>2. IInv /\ [Next]_vars => IInv'
  BY StepKeeps
<1> QED
  BY <1>1, <1>2, PTL DEF Spec

(* Every variable keeps its type: in particular a trip always refers to a   *)
(* row that exists, and only registered events are queued or visited.       *)
THEOREM TypeCorrect == Spec => []TypeOK
<1>1. IInv => TypeOK
  BY DEF IInv
<1> QED
  BY <1>1, Invariant, PTL

(* Whatever the delays and the order in which flush visits them, the        *)
(* connections on every edge stay strictly sorted by departure and arrival, *)
(* which the lookups in an edge rely on.                                    *)
THEOREM SortedEdges == Spec => []EdgesSorted
<1>1. IInv => EdgesSorted
  BY DEF IInv
<1> QED
  BY <1>1, Invariant, PTL

(* However often a trip is separated or cancelled in part, only the row it  *)
(* refers to has valid connections.                                         *)
THEOREM OneCopy == Spec => []OneValidCopy
<1>1. IInv => OneValidCopy
  BY DEF IInv
<1> QED
  BY <1>1, Invariant, PTL

(* The schedule time of an event is never replaced by a delayed one.        *)
THEOREM SchedulesKept == Spec => []ScheduleRemembered
<1>1. IInv => ScheduleRemembered
  BY DEF IInv
<1> QED
  BY <1>1, Invariant, PTL

-----------------------------------------------------------------------------
(* What a flush makes of the reports.  A trip whose delay infos were never  *)
(* repaired follows them: each event is pushed by the one before it, or     *)
(* still waits in the queue for it (Followed).  The graph shows what a      *)
(* delay info says, except for events the flush has not visited yet         *)
(* (Shown), and neighbours it has visited are in order unless the trip      *)
(* waits to be corrected (Ordered).                                         *)
Open       == IF phase = "visit" THEN todo ELSE events
Time(t, e) == Current(Info(<<t, e>>))

Pushes(p, d, departure) ==
  Current(p) + (IF departure THEN Min({2, d.sched - p.sched}) ELSE d.sched - p.sched)

Follows(p, d, departure) ==
  \/ d.propagation = Pushes(p, d, departure)
  \/ d.propagation <= d.sched /\ Pushes(p, d, departure) <= d.sched

Shown == \A t \in Trip, e \in Event : <<t, e>> \notin Open => TimeOf(t, e) = Time(t, e)

Unrepaired ==
  /\ \A t \in Trip : corrections[t] = 0 => \A e \in Event : Info(<<t, e>>).repair = 0
  /\ \A t \in Trip \ contradicted : \A m \in Measured(t) : Info(<<t, m>>).repair = 0

Followed ==
  /\ phase = "visit" => pq = {}
  /\ \A t \in Trip : corrections[t] = 0 =>
       \A e \in Event : <<t, e>> \notin pq =>
         IF e = 1 THEN Info(<<t, e>>).propagation = 0
         ELSE Follows(Info(<<t, e - 1>>), Info(<<t, e>>), IsDeparture(e))

Ordered ==
  \A t \in Trip : corrections[t] <= 1 /\ (phase = "visit" => t \notin wrong) =>
    \A e \in Event \ {1} :
      <<t, e - 1>> \notin Open /\ <<t, e>> \notin Open => Time(t, e - 1) <= Time(t, e)

DInv == IInv /\ Shown /\ Unrepaired /\ Followed /\ Ordered

LEMMA EventBefore ==
  ASSUME NEW e \in Event \ {1}
  PROVE  e \in Int /\ e > 1 /\ e - 1 \in Event
  BY RtAssumption DEF Event

LEMMA OneEvent == 1 \in Event
  BY RtAssumption DEF Event

LEMMA SetFields ==
  ASSUME NEW d \in InfoType, NEW reason \in Fields \ {"sched"}, NEW minute \in Nat
  PROVE  /\ Set(d, reason, minute).sched = d.sched
         /\ reason # "repair" => Set(d, reason, minute).repair = 0
         /\ Set(d, reason, minute).is = IF reason = "is" THEN minute ELSE d.is
         /\ Set(d, reason, minute).forecast
              = IF reason = "forecast" THEN minute ELSE d.forecast
         /\ Set(d, reason, minute).propagation
              = IF reason = "propagation" THEN minute ELSE d.propagation
         /\ reason = "repair" => Set(d, reason, minute).repair = minute
  BY NoneDomain DEF InfoType, Fields, Set

LEMMA NewFields ==
  ASSUME NEW minute
  PROVE  /\ NewInfo(minute).is = 0 /\ NewInfo(minute).repair = 0
         /\ NewInfo(minute).propagation = 0 /\ NewInfo(minute).forecast = 0
         /\ NewInfo(minute).sched = minute
         /\ minute \in Nat => Current(NewInfo(minute)) = minute
  BY DEF NewInfo, None, Current, Original, Max

LEMMA FewLeast ==
  ASSUME NEW a \in Int, NEW b \in Int
  PROVE  Min({a, b}) = IF a <= b THEN a ELSE b
  BY DEF Min

LEMMA MaxFacts ==
  ASSUME NEW a \in Nat, NEW b \in Nat, NEW c \in Nat
  PROVE  /\ Max({a, b, c}) \in {a, b, c}
         /\ Max({a, b, c}) >= a /\ Max({a, b, c}) >= b /\ Max({a, b, c}) >= c
  BY DEF Max

(* Nothing but the current time of the event before is pushed on.           *)
LEMMA FollowsSame ==
  ASSUME NEW p, NEW q, NEW d, NEW x, NEW departure,
         Current(q) = Current(p), q.sched = p.sched,
         x.sched = d.sched, x.propagation = d.propagation,
         Follows(p, d, departure)
  PROVE  Follows(q, x, departure)
  BY DEF Follows, Pushes

LEMMA PropagatedPushes ==
  ASSUME NEW t \in Trip, NEW e \in Event \ {1}
  PROVE  Propagated(<<t, e>>) = Pushes(Info(<<t, e - 1>>), Info(<<t, e>>), IsDeparture(e))
<1>1. (CHOOSE b \in Before(<<t, e>>) : TRUE) = <<t, e - 1>>
  BY EventBefore, Neighbours DEF Key
<1> DEFINE b == CHOOSE b \in Before(<<t, e>>) : TRUE
<1>2. Propagated(<<t, e>>) = Pushes(Info(b), Info(<<t, e>>), IsDeparture(e))
  BY DEF Propagated, Pushes
<1> QED
  BY <1>1, <1>2

LEMMA InitiallyShown == Init => DInv
<1> SUFFICES ASSUME Init PROVE DInv
  OBVIOUS
<1>1. /\ IInv /\ pq = {} /\ events = {} /\ phase = "update"
      /\ info = [t \in Trip |-> [e \in Event |-> None]]
  BY Initially DEF Init
<1>2. \A t \in Trip, e \in Event :
        /\ Timetable[t][e] \in Nat /\ TimeOf(t, e) = Timetable[t][e]
        /\ Info(<<t, e>>) = NewInfo(Timetable[t][e])
        /\ Time(t, e) = Timetable[t][e]
  <2> SUFFICES ASSUME NEW t \in Trip, NEW e \in Event
               PROVE  /\ Timetable[t][e] \in Nat /\ TimeOf(t, e) = Timetable[t][e]
                      /\ Info(<<t, e>>) = NewInfo(Timetable[t][e])
                      /\ Time(t, e) = Timetable[t][e]
    OBVIOUS
  <2>1. Info(<<t, e>>) = NewInfo(TimeOf(t, e))
    BY <1>1 DEF Info, Stored
  <2> QED
    BY <1>1, <2>1, InfoFacts, NewFields DEF Time
<1>3. Shown /\ Unrepaired
  BY <1>1, <1>2, NewFields DEF Shown, Unrepaired, Measured
<1>4. ASSUME NEW t \in Trip, NEW e \in Event \ {1}
      PROVE  /\ Timetable[t][e - 1] <= Timetable[t][e]
             /\ Follows(Info(<<t, e - 1>>), Info(<<t, e>>), IsDeparture(e))
  <2>1. /\ e - 1 \in Event /\ Timetable[t][e - 1] <= Timetable[t][e]
        /\ Timetable[t][e - 1] \in Nat /\ Timetable[t][e] \in Nat
    BY <1>2, EventBefore, RtAssumption
  <2>2. /\ Current(Info(<<t, e - 1>>)) = Timetable[t][e - 1]
        /\ Info(<<t, e - 1>>).sched = Timetable[t][e - 1]
        /\ Info(<<t, e>>).sched = Timetable[t][e] /\ Info(<<t, e>>).propagation = 0
    BY <1>2, <2>1, NewFields DEF Time
  <2>3. Pushes(Info(<<t, e - 1>>), Info(<<t, e>>), IsDeparture(e)) <= Timetable[t][e]
    BY <2>1, <2>2, FewLeast DEF Pushes
  <2> QED
    BY <2>1, <2>2, <2>3 DEF Follows
<1>5. Followed
  BY <1>1, <1>2, <1>4, NewFields DEF Followed
<1>6. Ordered
  BY <1>2, <1>4, EventBefore DEF Ordered
<1> QED
  BY <1>1, <1>3, <1>5, <1>6 DEF DInv

(* One event gets a new time by a report or by propagation; the event after *)
(* it waits in the queue if that changed anything.                          *)
LEMMA SetShows ==
  ASSUME DInv, NEW k \in Key, NEW reason \in {"is", "forecast", "propagation"},
         NEW minute \in Nat, NEW touched \in SUBSET Key, NEW queue \in SUBSET pq,
         SetAndExpand(k, reason, minute, touched, queue), IInv',
         graph' = graph, loc' = loc, phase' = phase, phase # "visit",
         corrections' = corrections, contradicted' = contradicted,
         pq \ {k} \subseteq queue,
         IF reason = "propagation"
         THEN k[2] # 1 /\ minute = Propagated(k) ELSE queue = pq
  PROVE  DInv'
<1> DEFINE d == Set(Info(k), reason, minute)
           pushed == IF Current(d) # Current(Info(k)) THEN After(k) ELSE {}
<1>1. PICK kt \in Trip, ke \in Event : k = <<kt, ke>>
  BY DEF Key
<1>2. /\ IInv /\ Shown /\ Unrepaired /\ Followed /\ Ordered
      /\ Open = events /\ Open' = events'
  BY DEF DInv, Open
<1>3. \A t \in Trip, e \in Event :
        /\ TimeOf(t, e)' = TimeOf(t, e)
        /\ <<t, e>> = k => Info(<<t, e>>)' = d
        /\ <<t, e>> # k => Info(<<t, e>>)' = Info(<<t, e>>)
        /\ <<t, e>> # k => info'[t][e].is = info[t][e].is
  BY <1>2, SetKeeps, Zenon
<1>4. /\ Info(k) \in InfoType /\ reason \in Fields \ {"sched"} /\ reason # "repair"
      /\ \A t \in Trip, e \in Event : Info(<<t, e>>) \in InfoType
  BY <1>1, <1>2, InfoFacts DEF Fields
<1>5. /\ d.sched = Info(k).sched /\ d.repair = 0
      /\ reason = "propagation" => d.propagation = minute
      /\ reason # "propagation" => d.propagation = Info(k).propagation
  BY <1>4, SetFields
<1>6. /\ events' = events \cup {k} \cup pushed \cup touched /\ pq' = queue \cup pushed
  BY DEF SetAndExpand
<1> HIDE DEF d
<1>7. Shown'
  <2> SUFFICES ASSUME NEW t \in Trip, NEW e \in Event, <<t, e>> \notin events'
               PROVE  TimeOf(t, e)' = Current(Info(<<t, e>>)')
    BY <1>2 DEF Shown, Time
  <2>1. <<t, e>> # k /\ <<t, e>> \notin events
    BY <1>6
  <2> QED
    BY <1>2, <1>3, <2>1 DEF Shown, Time
<1>8. Unrepaired'
  <2>1. \A t \in Trip, e \in Event : Info(<<t, e>>).repair = 0 => Info(<<t, e>>)'.repair = 0
    BY <1>3, <1>5
  <2>2. ASSUME NEW t \in Trip \ contradicted, NEW m \in Measured(t)'
        PROVE  Info(<<t, m>>)'.repair = 0
    <3>1. m \in Event /\ info'[t][m].is # 0
      BY DEF Measured
    <3>2. CASE <<t, m>> = k
      BY <1>3, <1>5, <3>1, <3>2
    <3>3. CASE <<t, m>> # k
      <4>1. m \in Measured(t)
        BY <1>3, <3>1, <3>3 DEF Measured
      <4> QED
        BY <1>2, <2>1, <3>1, <4>1 DEF Unrepaired
    <3> QED
      BY <3>2, <3>3
  <2> QED
    BY <1>2, <2>1, <2>2 DEF Unrepaired
<1>9. ASSUME NEW t \in Trip, corrections[t] = 0, NEW e \in Event, <<t, e>> \notin pq'
      PROVE  IF e = 1 THEN Info(<<t, e>>)'.propagation = 0
             ELSE Follows(Info(<<t, e - 1>>)', Info(<<t, e>>)', IsDeparture(e))
  <2>1. CASE e = 1
    <3>1. <<t, e>> \notin pq
      BY <1>2, <2>1 DEF IInv
    <3>2. Info(<<t, e>>).propagation = 0
      BY <1>2, <1>9, <2>1, <3>1 DEF Followed
    <3> QED
      BY <1>1, <1>3, <1>5, <2>1, <3>2
  <2>2. CASE e # 1
    <3> DEFINE p == Info(<<t, e - 1>>)
               x == Info(<<t, e>>)
    <3>1. e \in Event \ {1} /\ e - 1 \in Event /\ e > 1 /\ e \in Int
      BY <2>2, EventBefore
    <3>2. Current(p') = Current(p) /\ p'.sched = p.sched
      <4>1. CASE <<t, e - 1>> = k
        <5>1. After(k) = {<<t, e>>}
          BY <3>1, <4>1, RtAssumption DEF After, Event
        <5>2. Current(d) = Current(Info(k))
          BY <1>6, <1>9, <5>1
        <5> QED
          <6>1. p' = d /\ p = Info(k)
            BY <1>3, <3>1, <4>1
          <6> QED
            BY <1>5, <5>2, <6>1
      <4>2. CASE <<t, e - 1>> # k
        BY <1>3, <3>1, <4>2
      <4> QED
        BY <4>1, <4>2
    <3>3. x'.sched = x.sched
      BY <1>3, <1>5
    <3>4. CASE <<t, e>> = k /\ reason = "propagation"
      <4>1. x'.propagation = Propagated(<<t, e>>)
        BY <1>3, <1>5, <3>4
      <4>2. x'.propagation = Pushes(p, x, IsDeparture(e))
        BY <3>1, <4>1, PropagatedPushes
      <4>3. Pushes(p', x', IsDeparture(e)) = Pushes(p, x, IsDeparture(e))
        BY <3>2, <3>3 DEF Pushes
      <4> QED
        BY <2>2, <4>2, <4>3 DEF Follows
    <3>5. CASE ~(<<t, e>> = k /\ reason = "propagation")
      <4>1. <<t, e>> \notin pq
        BY <1>6, <1>9, <3>5
      <4>2. Follows(p, x, IsDeparture(e))
        BY <1>2, <1>9, <2>2, <4>1 DEF Followed
      <4>3. x'.propagation = x.propagation
        BY <1>3, <1>5, <3>5
      <4> HIDE DEF p, x
      <4>4. Follows(p', x', IsDeparture(e))
        BY <3>2, <3>3, <4>2, <4>3, FollowsSame
      <4> QED
        BY <2>2, <4>4 DEF p, x
    <3> QED
      BY <3>4, <3>5
  <2> QED
    BY <2>1, <2>2
<1>10. Followed'
  BY <1>9 DEF Followed
<1>11. Ordered'
  <2> SUFFICES ASSUME NEW t \in Trip, corrections[t] <= 1, NEW e \in Event \ {1},
                      <<t, e - 1>> \notin events', <<t, e>> \notin events'
               PROVE  Current(Info(<<t, e - 1>>)') <= Current(Info(<<t, e>>)')
    BY <1>2 DEF Ordered, Time
  <2>1. /\ <<t, e - 1>> # k /\ <<t, e>> # k
        /\ <<t, e - 1>> \notin events /\ <<t, e>> \notin events
    BY <1>6
  <2>2. Current(Info(<<t, e - 1>>)) <= Current(Info(<<t, e>>))
    BY <1>2, <2>1 DEF Ordered, Time
  <2> QED
    BY <1>3, <2>1, <2>2, EventBefore
<1> QED
  BY <1>7, <1>8, <1>10, <1>11 DEF DInv

(* Steps that change neither a delay info nor a time shown.                 *)
LEMMA QuietShows ==
  ASSUME DInv, IInv',
         \A t \in Trip, e \in Event :
           info'[t][e] = info[t][e] /\ TimeOf(t, e)' = TimeOf(t, e),
         corrections' = corrections, contradicted' = contradicted,
         pq' = pq, Open \subseteq Open',
         phase' = "visit" => pq = {} /\ (phase = "visit" => wrong' = wrong),
         phase = "visit" /\ phase' # "visit" => wrong = {}
  PROVE  DInv'
<1>1. \A t \in Trip, e \in Event : Info(<<t, e>>)' = Info(<<t, e>>)
  BY DEF Info, Stored
<1>2. \A t \in Trip : Measured(t)' = Measured(t)
  BY DEF Measured
<1>3. Shown'
  BY <1>1 DEF DInv, Shown, Time
<1>4. Unrepaired'
  BY <1>1, <1>2 DEF DInv, Unrepaired, Measured
<1>5. Followed'
  BY <1>1, EventBefore DEF DInv, Followed
<1>6. Ordered'
  BY <1>1, EventBefore DEF DInv, Ordered, Time
<1> QED
  BY <1>3, <1>4, <1>5, <1>6 DEF DInv

(* A visit shows the current time of the event, and finds out whether it is *)
(* in order with its neighbours.                                            *)
LEMMA VisitShows ==
  ASSUME DInv, NEW k \in todo, Visit(k)
  PROVE  DInv'
<1>1. /\ IInv /\ Shown /\ Unrepaired /\ Followed /\ Ordered
      /\ k \in Key /\ Stored(k) # None
  BY PartsTyped DEF DInv, IInv
<1>2. PICK kt \in Trip, ke \in Event : k = <<kt, ke>>
  BY <1>1 DEF Key
<1>3. /\ IInv'
      /\ \A s \in Trip, f \in Event :
           TimeOf(s, f)' = IF <<s, f>> = k THEN Current(Info(k)) ELSE TimeOf(s, f)
  BY <1>1, VisitKeeps
<1>4. /\ info' = info /\ pq' = pq /\ events' = events /\ phase' = phase /\ phase = "visit"
      /\ corrections' = corrections /\ contradicted' = contradicted
      /\ todo' = todo \ {k}
      /\ wrong' = wrong \cup {x \in {kt} : ~FitsTrip(k, Current(Info(k)))}
  BY <1>2 DEF Visit
<1>5. \A t \in Trip, e \in Event : Info(<<t, e>>)' = Info(<<t, e>>)
  BY <1>1, <1>3, <1>4 DEF Info, Stored
<1>6. \A t \in Trip : Measured(t)' = Measured(t)
  BY <1>4 DEF Measured
<1>7. Shown'
  BY <1>1, <1>3, <1>4, <1>5 DEF Shown, Time, Open
<1>8. Unrepaired'
  BY <1>1, <1>4, <1>5, <1>6 DEF Unrepaired, Measured
<1>9. Followed'
  BY <1>1, <1>4, <1>5, EventBefore DEF Followed
<1>10. Ordered'
  <2> SUFFICES ASSUME NEW t \in Trip, corrections[t] <= 1, t \notin wrong', NEW e \in Event \ {1},
                      <<t, e - 1>> \notin todo', <<t, e>> \notin todo'
               PROVE  Current(Info(<<t, e - 1>>)) <= Current(Info(<<t, e>>))
    BY <1>4, <1>5, EventBefore DEF Ordered, Time, Open
  <2>1. /\ e \in Event /\ e - 1 \in Event /\ e > 1 /\ e \in Int
        /\ t \notin wrong /\ (t = kt => FitsTrip(k, Current(Info(k))))
    BY <1>4, EventBefore
  <2>2. CASE <<t, e>> = k
    <3>1. Before(k) = {<<t, e - 1>>}
      BY <1>1, <2>1, <2>2, Neighbours
    <3>2. FitsTrip(k, Current(Info(k)))
      BY <1>2, <2>1, <2>2
    <3>3. Current(Info(<<t, e - 1>>)) <= Current(Info(k))
      BY <3>1, <3>2 DEF FitsTrip
    <3> QED
      BY <2>2, <3>3
  <2>3. CASE <<t, e - 1>> = k
    <3>1. After(k) = {<<t, e>>}
      BY <2>1, <2>3, RtAssumption DEF After, Event
    <3>2. FitsTrip(k, Current(Info(k)))
      BY <1>2, <2>1, <2>3
    <3>3. Current(Info(k)) <= Current(Info(<<t, e>>))
      BY <3>1, <3>2 DEF FitsTrip
    <3> QED
      BY <2>3, <3>3
  <2>4. CASE <<t, e>> # k /\ <<t, e - 1>> # k
    <3>1. <<t, e - 1>> \notin Open /\ <<t, e>> \notin Open
      BY <1>4, <2>4 DEF Open
    <3>2. t \notin wrong
      BY <1>4
    <3> QED
      BY <1>1, <3>1, <3>2 DEF Ordered, Time
  <2> QED
    BY <2>2, <2>3, <2>4
<1> QED
  BY <1>3, <1>7, <1>8, <1>9, <1>10 DEF DInv

-----------------------------------------------------------------------------
(* A correction: every entry becomes the nearest time between what was      *)
(* measured before it and what was measured after it.                       *)
LEMMA MaxBounds ==
  ASSUME NEW S \in SUBSET Nat, IsFiniteSet(S), S # {}
  PROVE  \A x \in S : x <= Max(S)
<1>1. \E x \in S : \A y \in S : x >= y
  BY FiniteExtrema, Nat \subseteq Int
<1> QED
  BY <1>1 DEF Max

LEMMA MinBounds ==
  ASSUME NEW S \in SUBSET Nat, IsFiniteSet(S), S # {}
  PROVE  \A x \in S : Min(S) <= x
<1>1. \E x \in S : \A y \in S : x <= y
  BY FiniteExtrema, Nat \subseteq Int
<1> QED
  BY <1>1 DEF Min

Capped(minute, latest)   == IF \E l \in latest : l < minute THEN Min(latest) ELSE minute
Raised(minute, earliest) == IF minute < earliest THEN earliest ELSE minute
Between(minute, earliest, latest) == Raised(Capped(minute, latest), earliest)

LEMMA RepairedInfo ==
  ASSUME NEW d \in InfoType, NEW minute \in Nat
  PROVE  /\ Set(d, "repair", minute) \in InfoType
         /\ Set(d, "repair", minute).repair = minute
         /\ minute # 0 => Current(Set(d, "repair", minute)) = minute
         /\ minute = 0 => Current(Set(d, "repair", minute)) = Original(d)
         /\ Original(Set(d, "repair", minute)) = Original(d)
<1> DEFINE x == Set(d, "repair", minute)
<1>1. "repair" \in Fields \ {"sched"}
  BY DEF Fields
<1>2. /\ x \in InfoType /\ x.repair = minute /\ x.sched = d.sched /\ x.is = d.is
      /\ x.forecast = d.forecast /\ x.propagation = d.propagation
  BY <1>1, SetTyped, SetFields
<1> HIDE DEF x
<1>3. Original(x) = Original(d)
  BY <1>2 DEF Original
<1>4. (minute # 0 => Current(x) = minute) /\ (minute = 0 => Current(x) = Original(d))
  BY <1>2, <1>3 DEF Current
<1> QED
  BY <1>2, <1>3, <1>4 DEF x

LEMMA FixedBetween ==
  ASSUME NEW d \in InfoType, d.repair = 0, NEW earliest \in Nat,
         NEW latest \in SUBSET (Nat \ {0}), IsFiniteSet(latest)
  PROVE  /\ Between(Current(d), earliest, latest) \in Nat
         /\ Fixed(d, earliest, latest).repair
              = IF Between(Current(d), earliest, latest) = Current(d) THEN 0
                ELSE Between(Current(d), earliest, latest)
         /\ Between(Current(d), earliest, latest) # Current(d)
              => Between(Current(d), earliest, latest) # 0
<1> DEFINE capped == IF \E l \in latest : l < Current(d)
                     THEN Set(d, "repair", Min(latest)) ELSE d
           raised == IF Current(capped) < earliest
                     THEN Set(capped, "repair", earliest) ELSE capped
           c == Capped(Current(d), latest)
           b == Raised(c, earliest)
<1>1. Current(d) \in Nat /\ Current(d) = Original(d)
  BY CurrentNat DEF Current
<1>2. /\ capped \in InfoType /\ c \in Nat /\ Current(capped) = c
      /\ Original(capped) = Current(d)
  <2>1. CASE \E l \in latest : l < Current(d)
    <3>1. Min(latest) \in Nat \ {0}
      BY <2>1, MinIn
    <3> QED
      BY <1>1, <2>1, <3>1, RepairedInfo DEF Capped
  <2>2. CASE ~ \E l \in latest : l < Current(d)
    BY <1>1, <2>2 DEF Capped
  <2> QED
    BY <2>1, <2>2
<1> HIDE DEF capped, c
<1>3. /\ raised \in InfoType /\ b \in Nat /\ Current(raised) = b
      /\ Original(raised) = Current(d)
  <2>1. CASE c < earliest
    <3>1. earliest \in Nat \ {0}
      BY <1>2, <2>1
    <3> QED
      BY <1>2, <2>1, <3>1, RepairedInfo DEF Raised
  <2>2. CASE ~(c < earliest)
    BY <1>2, <2>2 DEF Raised
  <2> QED
    BY <2>1, <2>2
<1>4. Fixed(d, earliest, latest)
        = IF Current(raised) = Original(raised) THEN Set(raised, "repair", 0) ELSE raised
  BY DEF Fixed, capped
<1>5. Current(raised) # Original(raised)
        => raised.repair = Current(raised) /\ Current(raised) # 0
  BY DEF Current
<1>6. Set(raised, "repair", 0).repair = 0
  BY <1>3, RepairedInfo
<1>7. b = Between(Current(d), earliest, latest)
  BY DEF Between, c
<1> HIDE DEF raised, b
<1> QED
  BY <1>3, <1>4, <1>5, <1>6, <1>7

(* The bounds of an event: every measured time before it and after it.      *)
LEMMA BoundFacts ==
  ASSUME IInv, NEW t \in Trip, NEW e \in Event
  PROVE  /\ Earliest(t, e) \in Nat
         /\ AtLatest(t, e) \in SUBSET (Nat \ {0}) /\ IsFiniteSet(AtLatest(t, e))
         /\ \A m \in Measured(t) : /\ info[t][m].is \in Nat \ {0}
                                   /\ m <= e => info[t][m].is <= Earliest(t, e)
                                   /\ e <= m => info[t][m].is \in AtLatest(t, e)
         /\ \/ Earliest(t, e) = 0
            \/ \E m \in Measured(t) : m <= e /\ Earliest(t, e) = info[t][m].is
<1> DEFINE A == {x \in Measured(t) : x <= e}
           T == {info[t][m].is : m \in A}
           S == {0} \cup T
<1>1. IsFiniteSet(T) /\ T \subseteq Nat
  BY MeasuredFinite
<1>2. IsFiniteSet(S) /\ S \in SUBSET Nat /\ S # {}
  <2> HIDE DEF T
  <2>1. IsFiniteSet({0})
    BY FS_Singleton, Zenon
  <2>2. IsFiniteSet(S)
    BY <1>1, <2>1, FS_Union, Zenon
  <2> QED
    BY <1>1, <2>2
<1>3. Earliest(t, e) = Max(S)
  BY DEF Earliest
<1>4. Max(S) \in S /\ \A x \in S : x <= Max(S)
  <2> HIDE DEF S
  <2> QED
    BY <1>2, MaxIn, MaxBounds
<1>5. \A m \in Measured(t) : info[t][m].is \in Nat \ {0}
  <2> SUFFICES ASSUME NEW m \in Measured(t) PROVE info[t][m].is \in Nat \ {0}
    OBVIOUS
  <2>1. info[t][m] \in InfoType /\ info[t][m].is # 0
    BY InfoFacts DEF Measured
  <2> QED
    BY <2>1, NoneDomain DEF InfoType, Fields
<1>6. AtLatest(t, e) \in SUBSET (Nat \ {0})
  BY <1>5 DEF AtLatest
<1>7. Earliest(t, e) \in Nat /\ IsFiniteSet(AtLatest(t, e))
  BY Bounds
<1>8. \A m \in Measured(t) : /\ m <= e => info[t][m].is \in S
                             /\ e <= m => info[t][m].is \in AtLatest(t, e)
  BY RtAssumption DEF AtLatest, Measured, Event
<1>9. \/ Earliest(t, e) = 0
      \/ \E m \in Measured(t) : m <= e /\ Earliest(t, e) = info[t][m].is
  BY <1>3, <1>4
<1> HIDE DEF S
<1> QED
  BY <1>3, <1>4, <1>5, <1>6, <1>7, <1>8, <1>9

LEMMA BetweenOrdered ==
  ASSUME NEW a \in Nat, NEW b \in Nat, NEW low \in Nat, NEW high \in Nat, low <= high,
         NEW first \in SUBSET (Nat \ {0}), NEW second \in SUBSET first,
         IsFiniteSet(first),
         a <= b \/ \E l \in first : l <= high
  PROVE  Between(a, low, first) <= Between(b, high, second)
<1> DEFINE c == Capped(a, first)
           d == Capped(b, second)
<1>1. IsFiniteSet(second)
  BY FS_Subset
<1>2. c \in Nat /\ c <= a /\ \A l \in first : c <= l
  <2>1. CASE \E l \in first : l < a
    <3>1. c = Min(first) /\ first # {} /\ first \in SUBSET Nat
      BY <2>1 DEF Capped
    <3>2. c \in first /\ \A l \in first : c <= l
      BY <3>1, MinIn, MinBounds
    <3>3. PICK l \in first : l < a
      BY <2>1
    <3> HIDE DEF c
    <3> QED
      BY <3>2, <3>3
  <2>2. CASE ~ \E l \in first : l < a
    BY <2>2 DEF Capped
  <2> QED
    BY <2>1, <2>2
<1>3. d \in Nat /\ (d = b \/ d \in first)
  BY <1>1, MinIn DEF Capped
<1> HIDE DEF c, d
<1>4. c <= d \/ c <= high
  BY <1>2, <1>3
<1>5. Raised(c, low) <= Raised(d, high)
  BY <1>2, <1>3, <1>4 DEF Raised
<1> QED
  BY <1>5 DEF Between, c, d

(* An event that was not measured is not before the event that pushes it.   *)
LEMMA PushedLater ==
  ASSUME IInv, NEW t \in Trip, NEW e \in Event \ {1},
         Info(<<t, e>>).repair = 0, info[t][e].is = 0,
         Follows(Info(<<t, e - 1>>), Info(<<t, e>>), IsDeparture(e))
  PROVE  Time(t, e - 1) <= Time(t, e)
<1> DEFINE p == Info(<<t, e - 1>>)
           d == Info(<<t, e>>)
<1>1. e \in Event /\ e - 1 \in Event /\ e > 1 /\ e \in Int
  BY EventBefore
<1>2. /\ p \in InfoType /\ d \in InfoType /\ Current(p) \in Nat
      /\ p.sched = Timetable[t][e - 1] /\ d.sched = Timetable[t][e]
      /\ p.sched \in Nat /\ d.sched \in Nat
  BY <1>1, InfoFacts
<1>3. p.sched <= d.sched
  BY <1>1, <1>2, RtAssumption
<1>4. d.is = 0
  BY DEF Info, Stored, NewInfo, None
<1> HIDE DEF p, d
<1>5. Current(p) <= Pushes(p, d, IsDeparture(e)) /\ Pushes(p, d, IsDeparture(e)) \in Nat
  <2> DEFINE gap == d.sched - p.sched
  <2>1. gap \in Nat
    BY <1>2, <1>3
  <2>2. Pushes(p, d, IsDeparture(e))
          = Current(p) + (IF IsDeparture(e) THEN Min({2, gap}) ELSE gap)
    BY DEF Pushes
  <2> HIDE DEF gap
  <2>3. Min({2, gap}) \in Nat
    BY <2>1, FewLeast
  <2> QED
    BY <1>2, <2>1, <2>2, <2>3
<1>6. d.sched \in Nat /\ d.forecast \in Nat /\ d.propagation \in Nat
  BY <1>2, NoneDomain DEF InfoType, Fields
<1>7. Current(d) = Max({d.sched, d.forecast, d.propagation})
  BY <1>4 DEF Current, Original, d
<1>8. d.sched <= Current(d) /\ d.propagation <= Current(d) /\ Current(d) \in Nat
  BY <1>6, <1>7, MaxFacts, MaxOfThree
<1>9. Follows(p, d, IsDeparture(e))
  BY DEF p, d
<1> QED
  BY <1>2, <1>5, <1>6, <1>8, <1>9 DEF Follows, Time, p, d

(* What a repair makes of the delay infos.                                  *)
LEMMA RepairedInfos ==
  ASSUME IInv, NEW t \in wrong, Repair(t)
  PROVE  /\ \A s \in Trip \ {t}, e \in Event :
              /\ Info(<<s, e>>)' = Info(<<s, e>>) /\ TimeOf(s, e)' = TimeOf(s, e)
              /\ info'[s][e] = info[s][e]
         /\ \A e \in Event :
              /\ info'[t][e].is = info[t][e].is
              /\ Repaired(t, e) => /\ TimeOf(t, e)' = Entry(t, e).repair
                                   /\ Time(t, e)' = Entry(t, e).repair
              /\ ~Repaired(t, e) => /\ TimeOf(t, e)' = TimeOf(t, e)
                                    /\ Info(<<t, e>>)' = Info(<<t, e>>)
<1>1. t \in Trip
  BY PartsTyped DEF IInv
<1>2. /\ \A s \in Trip \ {t}, e \in Event :
           info'[s][e] = info[s][e] /\ TimeOf(s, e)' = TimeOf(s, e)
      /\ \A e \in Event :
           IF Repaired(t, e)
           THEN /\ info'[t][e] = Set(Info(<<t, e>>), "repair", Entry(t, e).repair)
                /\ TimeOf(t, e)' = Entry(t, e).repair
           ELSE info'[t][e] = info[t][e] /\ TimeOf(t, e)' = TimeOf(t, e)
  BY RepairKeeps
<1>3. \A s \in Trip \ {t}, e \in Event : Info(<<s, e>>)' = Info(<<s, e>>)
  BY <1>2 DEF Info, Stored
<1>4. ASSUME NEW e \in Event
      PROVE  /\ info'[t][e].is = info[t][e].is
             /\ Repaired(t, e) => /\ TimeOf(t, e)' = Entry(t, e).repair
                                  /\ Time(t, e)' = Entry(t, e).repair
             /\ ~Repaired(t, e) => /\ TimeOf(t, e)' = TimeOf(t, e)
                                   /\ Info(<<t, e>>)' = Info(<<t, e>>)
  <2> DEFINE d == Info(<<t, e>>)
  <2>1. d \in InfoType /\ d.sched # 0 /\ d.is = info[t][e].is
    BY <1>1, InfoFacts DEF Info, Stored, NewInfo, None
  <2>2. Entry(t, e).repair \in Nat
    <3>1. Entry(t, e) \in InfoType
      BY <1>1, <2>1, Bounds, FixedTyped DEF Entry
    <3> QED
      BY <3>1, NoneDomain DEF InfoType, Fields
  <2>3. CASE Repaired(t, e)
    <3> DEFINE x == Set(d, "repair", Entry(t, e).repair)
    <3>1. Entry(t, e).repair # 0
      BY <2>3 DEF Repaired
    <3>5. "repair" \in Fields \ {"sched"} /\ "repair" # "is"
      BY DEF Fields
    <3>6. x.is = d.is /\ x.sched = d.sched
      BY <2>1, <2>2, <3>5, SetFields
    <3>7. Current(x) = Entry(t, e).repair
      BY <2>1, <2>2, <3>1, RepairedInfo
    <3>2. x.is = d.is /\ x.sched = d.sched /\ Current(x) = Entry(t, e).repair
      BY <3>6, <3>7
    <3>3. info'[t][e] = x /\ x # None
      BY <1>2, <2>1, <2>3, <3>2 DEF None
    <3> HIDE DEF x
    <3>4. Info(<<t, e>>)' = x
      BY <3>3 DEF Info, Stored
    <3> QED
      BY <1>2, <2>1, <2>3, <3>2, <3>3, <3>4 DEF Time
  <2>4. CASE ~Repaired(t, e)
    <3>1. info'[t][e] = info[t][e] /\ TimeOf(t, e)' = TimeOf(t, e)
      BY <1>2, <2>4
    <3> QED
      BY <2>4, <3>1 DEF Info, Stored
  <2> QED
    BY <2>3, <2>4
<1> QED
  BY <1>2, <1>3, <1>4

(* The first repair of a trip leaves its events in order.                   *)
LEMMA RepairOrders ==
  ASSUME DInv, NEW t \in wrong, Repair(t), corrections[t] = 0, NEW e \in Event \ {1}
  PROVE  Time(t, e - 1)' <= Time(t, e)'
<1>1. /\ IInv /\ Shown /\ Unrepaired /\ Followed /\ t \in Trip
      /\ phase = "visit" /\ todo = {} /\ pq = {}
  BY PartsTyped DEF DInv, IInv, Repair, Followed
<1>2. e \in Event /\ e - 1 \in Event /\ e > 1 /\ e \in Int
  BY EventBefore
<1>3. \A f \in Event : /\ TimeOf(t, f) = Time(t, f) /\ Time(t, f) \in Nat
                       /\ Info(<<t, f>>).repair = 0 /\ Info(<<t, f>>) \in InfoType
  BY <1>1, InfoFacts DEF Shown, Unrepaired, Open, Time
<1>4. \A f \in Event :
        /\ ~Repaired(t, f) => Time(t, f)' = Time(t, f)
        /\ Repaired(t, f) => Time(t, f)' = Entry(t, f).repair
  BY <1>1, RepairedInfos DEF Time
<1>5. info[t][e].is = 0 => Time(t, e - 1) <= Time(t, e)
  <2>1. Follows(Info(<<t, e - 1>>), Info(<<t, e>>), IsDeparture(e))
    BY <1>1, <1>2 DEF Followed
  <2> QED
    BY <1>1, <1>3, <2>1, PushedLater
<1>6. CASE Measured(t) = {}
  <2>1. ~Repaired(t, e) /\ ~Repaired(t, e - 1) /\ info[t][e].is = 0
    BY <1>2, <1>6 DEF Repaired, Measured
  <2> QED
    BY <1>2, <1>4, <1>5, <2>1
<1>7. CASE Measured(t) # {}
  <2> DEFINE V(f) == Between(Time(t, f), Earliest(t, f), AtLatest(t, f))
  <2>1. ASSUME NEW f \in Event PROVE Time(t, f)' = V(f)
    <3>1. /\ V(f) \in Nat
          /\ Entry(t, f).repair = IF V(f) = Time(t, f) THEN 0 ELSE V(f)
          /\ V(f) # Time(t, f) => V(f) # 0
      BY <1>1, <1>3, BoundFacts, FixedBetween DEF Entry, Time
    <3> HIDE DEF V
    <3>2. CASE Repaired(t, f)
      BY <1>4, <3>1, <3>2 DEF Repaired
    <3>3. CASE ~Repaired(t, f)
      <4>1. Entry(t, f).repair = 0 \/ Entry(t, f).repair = Time(t, f)
        BY <1>3, <1>7, <3>3 DEF Repaired
      <4>2. V(f) = Time(t, f)
        BY <3>1, <4>1
      <4> QED
        BY <1>4, <3>3, <4>2
    <3> QED
      BY <3>2, <3>3
  <2>2. /\ Earliest(t, e - 1) \in Nat /\ Earliest(t, e) \in Nat
        /\ AtLatest(t, e - 1) \in SUBSET (Nat \ {0}) /\ IsFiniteSet(AtLatest(t, e - 1))
        /\ \A m \in Measured(t) : m \in Int
    BY <1>1, <1>2, BoundFacts DEF Measured, Event
  <2>3. Earliest(t, e - 1) <= Earliest(t, e)
    <3>1. CASE Earliest(t, e - 1) = 0
      BY <2>2, <3>1
    <3>2. CASE \E m \in Measured(t) : m <= e - 1 /\ Earliest(t, e - 1) = info[t][m].is
      <4>1. PICK m \in Measured(t) : m <= e - 1 /\ Earliest(t, e - 1) = info[t][m].is
        BY <3>2
      <4>2. m <= e
        BY <1>2, <2>2, <4>1
      <4> QED
        BY <1>1, <1>2, <4>1, <4>2, BoundFacts
    <3> QED
      BY <1>1, <1>2, <3>1, <3>2, BoundFacts
  <2>4. AtLatest(t, e) \subseteq AtLatest(t, e - 1)
    BY <1>2, <2>2 DEF AtLatest
  <2>5. Time(t, e - 1) <= Time(t, e)
          \/ \E l \in AtLatest(t, e - 1) : l <= Earliest(t, e)
    <3>1. CASE info[t][e].is = 0
      BY <1>5, <3>1
    <3>2. CASE info[t][e].is # 0
      <4>1. e \in Measured(t) /\ e - 1 <= e /\ e <= e
        BY <1>2, <3>2 DEF Measured
      <4>2. info[t][e].is <= Earliest(t, e) /\ info[t][e].is \in AtLatest(t, e - 1)
        BY <1>1, <1>2, <4>1, BoundFacts
      <4> QED
        BY <4>2
    <3> QED
      BY <3>1, <3>2
  <2>6. V(e - 1) <= V(e)
    BY <1>2, <1>3, <2>2, <2>3, <2>4, <2>5, BetweenOrdered
  <2> HIDE DEF V
  <2> QED
    BY <1>2, <2>1, <2>6
<1> QED
  BY <1>6, <1>7

LEMMA RepairShows ==
  ASSUME DInv, NEW t \in wrong, Repair(t)
  PROVE  DInv'
<1>1. /\ IInv /\ Shown /\ Unrepaired /\ Followed /\ Ordered /\ t \in Trip
      /\ corrections \in [Trip -> Nat]
  BY PartsTyped DEF DInv, IInv
<1>2. /\ IInv' /\ phase = "visit" /\ phase' = "visit" /\ todo = {} /\ todo' = {}
      /\ pq = {} /\ pq' = {} /\ wrong' = wrong \ {t}
      /\ corrections' = [corrections EXCEPT ![t] = @ + 1]
      /\ contradicted' = contradicted \cup {x \in {t} : Contradicting(t)}
  <2>1. IInv'
    BY <1>1, RepairKeeps
  <2> QED
    BY <1>1, <2>1 DEF Repair, Followed
<1>3. \A s \in Trip \ {t}, e \in Event :
        /\ Info(<<s, e>>)' = Info(<<s, e>>) /\ TimeOf(s, e)' = TimeOf(s, e)
        /\ info'[s][e] = info[s][e]
  BY <1>1, RepairedInfos
<1>4. \A e \in Event :
        /\ info'[t][e].is = info[t][e].is
        /\ Repaired(t, e) => /\ TimeOf(t, e)' = Entry(t, e).repair
                             /\ Time(t, e)' = Entry(t, e).repair
        /\ ~Repaired(t, e) => /\ TimeOf(t, e)' = TimeOf(t, e)
                              /\ Info(<<t, e>>)' = Info(<<t, e>>)
  BY <1>1, RepairedInfos
<1>5. \A s \in Trip : corrections'[s] = IF s = t THEN corrections[t] + 1 ELSE corrections[s]
  BY <1>1, <1>2
<1>6. Shown'
  <2> SUFFICES ASSUME NEW s \in Trip, NEW e \in Event PROVE TimeOf(s, e)' = Time(s, e)'
    BY DEF Shown
  <2>1. TimeOf(s, e) = Time(s, e)
    BY <1>1, <1>2 DEF Shown, Open
  <2> QED
    BY <1>3, <1>4, <2>1 DEF Time
<1>7. Unrepaired'
  <2>1. ASSUME NEW s \in Trip, corrections'[s] = 0, NEW e \in Event
        PROVE  Info(<<s, e>>)'.repair = 0
    <3>1. s # t /\ corrections[s] = 0
      BY <1>1, <1>5, <2>1
    <3> QED
      BY <1>1, <1>3, <3>1 DEF Unrepaired
  <2>2. ASSUME NEW s \in Trip \ contradicted', NEW m \in Measured(s)'
        PROVE  Info(<<s, m>>)'.repair = 0
    <3>1. m \in Event /\ m \in Measured(s) /\ s \notin contradicted
      BY <1>2, <1>3, <1>4 DEF Measured
    <3>2. Info(<<s, m>>).repair = 0
      BY <1>1, <3>1 DEF Unrepaired
    <3>3. CASE s # t
      BY <1>3, <3>1, <3>2, <3>3
    <3>4. CASE s = t
      <4>1. \A x, y \in Measured(t) : x < y => ~(info[t][x].is > info[t][y].is)
        BY <1>2, <2>2, <3>4 DEF Contradicting
      <4>2. \A x \in Measured(t) : info[t][x].is \in Nat \ {0} /\ x \in Int
        BY <1>1, <3>1, <3>4, BoundFacts DEF Measured, Event
      <4>3. \A x, y \in Measured(t) : x <= y => info[t][x].is <= info[t][y].is
        <5> SUFFICES ASSUME NEW x \in Measured(t), NEW y \in Measured(t), x <= y
                     PROVE  info[t][x].is <= info[t][y].is
          OBVIOUS
        <5> QED
          BY <4>1, <4>2
      <4> DEFINE minute == info[t][m].is
                 d == Info(<<t, m>>)
      <4>4. Current(d) = minute /\ d.repair = 0 /\ d \in InfoType /\ minute \in Nat
        <5>1. d = info[t][m] /\ d.is # 0
          BY <3>1, <3>4 DEF Measured, Info, Stored, None
        <5> QED
          BY <1>1, <3>1, <3>2, <3>4, <4>2, <5>1, InfoFacts DEF Current, Original
      <4>5. /\ Earliest(t, m) \in Nat /\ Earliest(t, m) <= minute
            /\ AtLatest(t, m) \in SUBSET (Nat \ {0}) /\ IsFiniteSet(AtLatest(t, m))
        <5>1. /\ Earliest(t, m) \in Nat
              /\ AtLatest(t, m) \in SUBSET (Nat \ {0}) /\ IsFiniteSet(AtLatest(t, m))
              /\ \/ Earliest(t, m) = 0
                 \/ \E x \in Measured(t) : x <= m /\ Earliest(t, m) = info[t][x].is
          BY <1>1, <3>1, BoundFacts
        <5> QED
          BY <3>1, <3>4, <4>2, <4>3, <4>4, <5>1
      <4>6. \A l \in AtLatest(t, m) : minute <= l
        BY <3>1, <3>4, <4>2, <4>3 DEF AtLatest
      <4>7. Between(minute, Earliest(t, m), AtLatest(t, m)) = minute
        <5>1. Capped(minute, AtLatest(t, m)) = minute
          BY <4>4, <4>5, <4>6 DEF Capped
        <5> QED
          BY <4>4, <4>5, <5>1 DEF Between, Raised
      <4>8. Entry(t, m).repair = 0
        <5> HIDE DEF minute, d
        <5>1. Fixed(d, Earliest(t, m), AtLatest(t, m)).repair = 0
          BY <4>4, <4>5, <4>7, FixedBetween
        <5> QED
          BY <5>1 DEF Entry, d
      <4>9. Info(<<t, m>>)' = Info(<<t, m>>)
        BY <1>4, <3>1, <4>8 DEF Repaired
      <4> QED
        BY <3>2, <3>4, <4>9
    <3> QED
      BY <3>3, <3>4
  <2> QED
    BY <2>1, <2>2 DEF Unrepaired
<1>8. Followed'
  <2>1. ASSUME NEW s \in Trip, corrections'[s] = 0, NEW e \in Event, <<s, e>> \notin pq'
        PROVE  IF e = 1 THEN Info(<<s, e>>)'.propagation = 0
               ELSE Follows(Info(<<s, e - 1>>)', Info(<<s, e>>)', IsDeparture(e))
    <3>1. s # t /\ corrections[s] = 0
      BY <1>1, <1>5, <2>1
    <3>2. IF e = 1 THEN Info(<<s, e>>).propagation = 0
          ELSE Follows(Info(<<s, e - 1>>), Info(<<s, e>>), IsDeparture(e))
      BY <1>1, <1>2, <2>1, <3>1 DEF Followed
    <3> QED
      BY <1>3, <3>1, <3>2, EventBefore
  <2> QED
    BY <1>2, <2>1 DEF Followed
<1>9. Ordered'
  <2> SUFFICES ASSUME NEW s \in Trip, corrections'[s] <= 1, s \notin wrong',
                      NEW e \in Event \ {1}
               PROVE  Time(s, e - 1)' <= Time(s, e)'
    BY <1>2 DEF Ordered
  <2>1. CASE s = t
    <3>1. corrections[t] = 0
      BY <1>1, <1>5, <2>1
    <3> QED
      BY <2>1, <3>1, RepairOrders
  <2>2. CASE s # t
    <3>1. s \notin wrong /\ corrections[s] <= 1
      BY <1>2, <1>5, <2>2
    <3>2. Time(s, e - 1) <= Time(s, e)
      BY <1>1, <1>2, <3>1 DEF Ordered, Open
    <3> QED
      BY <1>3, <2>2, <3>2, EventBefore DEF Time
  <2> QED
    BY <2>1, <2>2
<1> QED
  BY <1>2, <1>6, <1>7, <1>8, <1>9 DEF DInv

LEMMA StepShows ==
  ASSUME DInv, [Next]_vars
  PROVE  DInv'
<1>1. IInv /\ IInv'
  BY StepKeeps DEF DInv
<1>2. ASSUME NEW r \in Reports, ReportDelay(<<r[1], r[2]>>, r[3], r[4])
      PROVE  DInv'
  <2> DEFINE k == <<r[1], r[2]>>
  <2>1. /\ k \in Key /\ r[3] \in {"is", "forecast", "propagation"} /\ r[3] # "propagation"
        /\ r[4] \in Nat /\ {} \in SUBSET Key /\ pq \in SUBSET pq /\ pq \ {k} \subseteq pq
    BY RtAssumption DEF Key
  <2>2. /\ SetAndExpand(k, r[3], r[4], {}, pq) /\ phase # "visit" /\ phase' = phase
        /\ graph' = graph /\ loc' = loc
        /\ corrections' = corrections /\ contradicted' = contradicted
    BY <1>2 DEF ReportDelay
  <2> HIDE DEF k
  <2> QED
    BY <1>1, <2>1, <2>2, SetShows
<1>3. ASSUME NEW k \in pq, Propagate(k) PROVE DInv'
  <2>1. /\ k \in Key /\ Propagated(k) \in Nat /\ Before(k) \in SUBSET Key
        /\ pq \ {k} \in SUBSET pq /\ k[2] # 1
        /\ "propagation" \in {"is", "forecast", "propagation"}
    BY <1>1, PropagatedNat, Neighbours, RtAssumption DEF IInv
  <2>2. /\ SetAndExpand(k, "propagation", Propagated(k), Before(k), pq \ {k})
        /\ phase # "visit" /\ phase' = phase /\ graph' = graph /\ loc' = loc
        /\ corrections' = corrections /\ contradicted' = contradicted
    BY <1>3 DEF Propagate
  <2> QED
    BY <1>1, <2>1, <2>2, SetShows
<1>4. ASSUME NEW t \in Cancelled, NEW sections \in SUBSET Section, Cancel(t, sections)
      PROVE  DInv'
  <2>1. \A s \in Trip, e \in Event : TimeOf(s, e)' = TimeOf(s, e)
    BY <1>1, <1>4, RtAssumption, CancelKeeps
  <2>2. /\ info' = info /\ pq' = pq /\ events' = events /\ phase' = phase /\ todo' = todo
        /\ wrong' = wrong /\ corrections' = corrections /\ contradicted' = contradicted
        /\ phase # "visit"
    BY <1>4 DEF Cancel
  <2> QED
    BY <1>1, <2>1, <2>2, QuietShows DEF Open
<1>5. ASSUME Flush \/ StartVisits \/ Reset \/ UNCHANGED vars PROVE DInv'
  <2>1. /\ graph' = graph /\ loc' = loc /\ info' = info /\ wrong' = wrong
        /\ corrections' = corrections /\ contradicted' = contradicted
    BY <1>5 DEF Flush, StartVisits, Reset, vars
  <2>2. \A t \in Trip, e \in Event :
          info'[t][e] = info[t][e] /\ TimeOf(t, e)' = TimeOf(t, e)
    BY <2>1 DEF TimeOf, Row
  <2>3. phase = "visit" => pq = {}
    BY DEF DInv, Followed
  <2>4. /\ pq' = pq /\ Open \subseteq Open'
        /\ phase' = "visit" => pq = {}
        /\ phase = "visit" /\ phase' # "visit" => wrong = {}
    BY <1>5, <2>3 DEF Flush, StartVisits, Reset, vars, Open
  <2> QED
    BY <1>1, <2>1, <2>2, <2>4, QuietShows
<1>6. ASSUME NEW k \in todo, Visit(k) PROVE DInv'
  BY <1>6, VisitShows
<1>7. ASSUME NEW t \in wrong, Repair(t) PROVE DInv'
  BY <1>7, RepairShows
<1> QED
  BY <1>2, <1>3, <1>4, <1>5, <1>6, <1>7 DEF Next, Receive, Handle

(* The graph follows the delay infos, and they follow the reports.          *)
THEOREM DelayInvariant == Spec => []DInv
<1>1. Init => DInv
  BY InitiallyShown
<1>2. DInv /\ [Next]_vars => DInv'
  BY StepShows
<1> QED
  BY <1>1, <1>2, PTL DEF Spec

LEMMA SettledShown ==
  ASSUME DInv, Settled, NEW t \in Trip, NEW e \in Event
  PROVE  TimeOf(t, e) = Time(t, e)
  BY DEF DInv, Shown, Settled, Open

(* After a flush the graph shows every measured time, unless the trip was   *)
(* corrected while its measured times contradicted each other: nothing else *)
(* in a flush writes over what was measured.                                *)
THEOREM MeasuredShown == Spec => []MeasuredTimesShown
<1>1. DInv => MeasuredTimesShown
  <2> SUFFICES ASSUME DInv, Settled, NEW t \in Trip \ contradicted, NEW m \in Measured(t)
               PROVE  TimeOf(t, m) = info[t][m].is
    BY DEF MeasuredTimesShown
  <2>1. Info(<<t, m>>) = info[t][m] /\ info[t][m].is # 0 /\ m \in Event
    BY DEF Measured, Info, Stored, None
  <2>2. Info(<<t, m>>).repair = 0
    BY DEF DInv, Unrepaired
  <2> QED
    BY <2>1, <2>2, SettledShown DEF Time, Current, Original
<1> QED
  BY <1>1, DelayInvariant, PTL

(* After a flush the events of a trip that was corrected at most once are   *)
(* in order, however its reports contradict each other.                     *)
THEOREM RepairedInOrder == Spec => []FirstRepairInOrder
<1>1. DInv => FirstRepairInOrder
  <2> SUFFICES ASSUME DInv, Settled, NEW t \in Trip, corrections[t] <= 1
               PROVE  InOrder(t)
    BY DEF FirstRepairInOrder
  <2> DEFINE x == [e \in Event |-> TimeOf(t, e)]
  <2>1. \A e \in Event : x[e] \in Nat
    BY InfoFacts DEF DInv
  <2>2. \A e \in Event \ {1} : x[e - 1] <= x[e]
    BY EventBefore, SettledShown DEF DInv, Ordered, Settled, Open
  <2> HIDE DEF x
  <2>3. ASSUME NEW e \in Event, NEW f \in Event, e < f, ~(x[e] <= x[f])
        PROVE  FALSE
    <3> DEFINE later == {n \in Event : e < n /\ ~(x[e] <= x[n])}
    <3>1. later \in SUBSET Int /\ IsFiniteSet(later) /\ later # {}
      <4>1. IsFiniteSet(Event) /\ Event \subseteq Int
        BY FS_Interval, RtAssumption DEF Event
      <4> QED
        BY <2>3, <4>1, FS_Subset
    <3>2. PICK n \in later : \A m \in later : n <= m
      BY <3>1, FiniteExtrema
    <3>3. n \in Event /\ n \in Int /\ e \in Int /\ e < n /\ ~(x[e] <= x[n]) /\ 1 <= e
      BY <3>1, <3>2, RtAssumption DEF Event
    <3>4. n \in Event \ {1} /\ n - 1 \in Event
      BY <3>3, EventBefore
    <3>5. n - 1 = e \/ (e < n - 1 /\ n - 1 \notin later)
      BY <3>2, <3>3
    <3>6. x[e] <= x[n - 1]
      BY <2>1, <3>4, <3>5
    <3> QED
      BY <2>1, <2>2, <3>3, <3>4, <3>6
  <2> QED
    BY <2>3 DEF InOrder, x
<1> QED
  BY <1>1, DelayInvariant, PTL

(* A pass over the trip that gives each event its time from its reports and *)
(* the time of the event before.                                            *)
Gap(t, e) == Timetable[t][e] - Timetable[t][e - 1]

Passed(t, time, e) ==
  LET d == Info(<<t, e>>)
      pushed == time[e - 1] + (IF IsDeparture(e) THEN Min({2, Gap(t, e)}) ELSE Gap(t, e))
  IN IF d.is # 0 THEN d.is
     ELSE IF e = 1 THEN Max({d.sched, d.forecast})
     ELSE Max({d.sched, d.forecast, pushed})

LEMMA AfreshPasses ==
  ASSUME NEW t \in Trip, NEW time, time = [e \in Event |-> Passed(t, time, e)]
  PROVE  Afresh(t) = [e \in Event |-> Passed(t, Afresh(t), e)]
<1>1. Afresh(t) = CHOOSE f : f = [e \in Event |-> Passed(t, f, e)]
  BY DEF Afresh, Passed, Gap
<1> QED
  BY <1>1

LEMMA LateEnough ==
  ASSUME NEW a \in Nat, NEW b \in Nat, NEW c \in Nat, NEW d \in Nat,
         c = d \/ (c <= a /\ d <= a)
  PROVE  Max({a, b, c}) = Max({a, b, d})
  BY MaxFacts

LEMMA LatestOfTwo ==
  ASSUME NEW a \in Nat, NEW b \in Nat
  PROVE  Max({a, b}) = Max({a, b, 0})
<1>1. Max({a, b}) = IF a <= b THEN b ELSE a
  BY DEF Max
<1> QED
  BY <1>1, MaxFacts

LEMMA PassedShown ==
  ASSUME DInv, Settled, NEW t \in Trip, corrections[t] = 0, NEW time, NEW e \in Event,
         e # 1 => time[e - 1] = Time(t, e - 1)
  PROVE  Passed(t, time, e) = Time(t, e)
<1> DEFINE d == Info(<<t, e>>)
           pushed == time[e - 1] + (IF IsDeparture(e) THEN Min({2, Gap(t, e)}) ELSE Gap(t, e))
<1>1. /\ IInv /\ d \in InfoType /\ d.repair = 0 /\ d.sched = Timetable[t][e] /\ pq = {}
      /\ IF e = 1 THEN d.propagation = 0
         ELSE Follows(Info(<<t, e - 1>>), d, IsDeparture(e))
  BY InfoFacts, PartsTyped DEF DInv, IInv, Unrepaired, Followed, Settled
<1>2. d.sched \in Nat /\ d.forecast \in Nat /\ d.propagation \in Nat
  BY <1>1, NoneDomain DEF InfoType, Fields
<1>3. Time(t, e) = IF d.is # 0 THEN d.is ELSE Max({d.sched, d.forecast, d.propagation})
  BY <1>1 DEF Time, Current, Original
<1>4. Passed(t, time, e) = IF d.is # 0 THEN d.is
                           ELSE IF e = 1 THEN Max({d.sched, d.forecast})
                           ELSE Max({d.sched, d.forecast, pushed})
  BY DEF Passed
<1>5. CASE e = 1
  <2>1. d.propagation = 0
    BY <1>1, <1>5
  <2> HIDE DEF d, pushed
  <2> QED
    BY <1>2, <1>3, <1>4, <1>5, <2>1, LatestOfTwo
<1>6. CASE e # 1
  <2> DEFINE p == Info(<<t, e - 1>>)
  <2>1. e \in Event \ {1} /\ e - 1 \in Event /\ e > 1 /\ e \in Int
    BY <1>6, EventBefore
  <2>2. /\ Current(p) \in Nat /\ p.sched = Timetable[t][e - 1] /\ p.sched \in Nat
        /\ time[e - 1] = Current(p)
    BY <1>1, <1>6, <2>1, InfoFacts DEF Time
  <2>3. d.sched - p.sched = Gap(t, e) /\ Gap(t, e) \in Nat
    <3>1. Timetable[t][e - 1] <= Timetable[t][e]
      BY <2>1, RtAssumption
    <3>2. d.sched - p.sched = Gap(t, e)
      BY <1>1, <2>2 DEF Gap
    <3> HIDE DEF d, p
    <3> QED
      BY <1>1, <1>2, <2>2, <3>1, <3>2
  <2>4. pushed = Pushes(p, d, IsDeparture(e))
    <3> HIDE DEF d, p
    <3> QED
      BY <2>2, <2>3 DEF Pushes
  <2>5. pushed \in Nat
    <3>1. Min({2, Gap(t, e)}) \in Nat
      BY <2>3, FewLeast
    <3> HIDE DEF d, p
    <3> QED
      BY <2>2, <2>3, <3>1
  <2>6. Follows(p, d, IsDeparture(e))
    BY <1>1, <1>6
  <2>7. d.propagation = pushed \/ (d.propagation <= d.sched /\ pushed <= d.sched)
    BY <2>4, <2>6 DEF Follows
  <2> HIDE DEF d, p, pushed
  <2>8. Max({d.sched, d.forecast, d.propagation}) = Max({d.sched, d.forecast, pushed})
    BY <1>2, <2>5, <2>7, LateEnough
  <2> QED
    BY <1>3, <1>4, <1>6, <2>8
<1> QED
  BY <1>5, <1>6

(* After a flush the times of a trip that was never corrected are those of  *)
(* a single pass over it: the order of the reports, their grouping by       *)
(* flushes, and the orders of queue and visits leave no trace.              *)
THEOREM DelaysAfresh == Spec => []DelaysAsIfAfresh
<1>1. DInv => DelaysAsIfAfresh
  <2> SUFFICES ASSUME DInv, Settled, NEW t \in Trip, corrections[t] = 0
               PROVE  \A e \in Event : TimeOf(t, e) = Afresh(t)[e]
    BY DEF DelaysAsIfAfresh
  <2> DEFINE x == [e \in Event |-> Time(t, e)]
             f == Afresh(t)
             bad == {e \in Event : f[e] # x[e]}
  <2>1. x = [e \in Event |-> Passed(t, x, e)]
    <3>1. ASSUME NEW e \in Event PROVE Passed(t, x, e) = Time(t, e)
      <4>1. e # 1 => x[e - 1] = Time(t, e - 1)
        BY EventBefore
      <4> HIDE DEF x
      <4> QED
        BY <4>1, PassedShown
    <3> QED
      BY <3>1
  <2>2. f = [e \in Event |-> Passed(t, f, e)]
    <3> HIDE DEF x
    <3> QED
      BY <2>1, AfreshPasses
  <2>3. \A e \in Event : x[e] = Time(t, e)
    OBVIOUS
  <2>4. \A e \in Event : f[e] = Passed(t, f, e)
    <3> HIDE DEF f
    <3> QED
      BY <2>2
  <2> HIDE DEF x, f
  <2>5. ASSUME bad # {} PROVE FALSE
    <3>1. bad \in SUBSET Int /\ IsFiniteSet(bad)
      <4>1. IsFiniteSet(Event) /\ Event \subseteq Int
        BY FS_Interval, RtAssumption DEF Event
      <4> QED
        BY <4>1, FS_Subset
    <3>2. PICK e \in bad : \A n \in bad : e <= n
      BY <2>5, <3>1, FiniteExtrema
    <3>3. e \in Event /\ e \in Int /\ f[e] # Time(t, e)
      BY <2>3, <3>1, <3>2
    <3>4. e # 1 => f[e - 1] = Time(t, e - 1)
      <4>1. e # 1 => e - 1 \in Event /\ e - 1 \notin bad
        BY <3>2, <3>3, EventBefore
      <4> QED
        BY <2>3, <4>1
    <3>5. Passed(t, f, e) = Time(t, e)
      BY <3>3, <3>4, PassedShown
    <3> QED
      BY <2>4, <3>3, <3>5
  <2>6. \A e \in Event : f[e] = Time(t, e)
    BY <2>3, <2>5
  <2> QED
    BY <2>6, SettledShown DEF f
<1> QED
  BY <1>1, DelayInvariant, PTL

=============================================================================
