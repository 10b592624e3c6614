---------------------------- MODULE RouteBuilder ----------------------------
(***************************************************************************)
(* How the loader groups the services of one stop sequence into routes     *)
(* (base/loader, graph_builder.cc and route_t::add_service): a service     *)
(* joins the first route in which it overtakes nobody, else it opens a     *)
(* route of its own; then every route gets its edges, its trips are told   *)
(* where to find their connections, and the trips are expanded for the     *)
(* connection scan.                                                        *)
(*                                                                         *)
(* A service has the times dep, arr, dep, arr ... of its sections, in      *)
(* minutes since midnight of the day it starts.                            *)
(***************************************************************************)
EXTENDS Integers, Sequences

CONSTANTS
  NServices,  \* services, in the order of the schedule file
  NTimes,     \* events of a service: two per section
  DayLen      \* MINUTES_A_DAY

Service == 1..NServices
Event   == 1..NTimes

(* The tables of service times.                                            *)
Timetables == [Service -> [Event -> Nat]]

ASSUME RouteAssumption == NServices \in Nat /\ NTimes \in Nat \ {0} /\ DayLen \in Nat \ {0}

VARIABLES
  times,     \* times of each service
  next,      \* the next service to add
  routes,    \* alt_routes: [times, lcons], services in the order of the
             \*   rows of times_ and of lcons_
  built,     \* routes whose graph has been created
  tripRoute, \* trip::edges_: the route of a service's trip, 0 for none
  lconIdx,   \* trip::lcon_idx_
  expanded   \* schedule::expanded_trips_

vars == <<times, next, routes, built, tripRoute, lconIdx, expanded>>

NothingBuilt ==
  /\ next = 1 /\ routes = <<>> /\ built = 0
  /\ tripRoute = [s \in Service |-> 0]
  /\ lconIdx = [s \in Service |-> 0]
  /\ expanded = <<>>

Init == times \in Timetables /\ NothingBuilt

mam(s, e) == times[s][e] % DayLen

-----------------------------------------------------------------------------
(* std::lower_bound over the first departures: i is the row before which s *)
(* is inserted.                                                            *)
InsertIdx(row, s, i) ==
  /\ i \in 1..Len(row) + 1
  /\ \A j \in 1..Len(row) : (j < i) = (times[row[j]][1] < times[s][1])

(* The predecessor and the successor are compared with s at every event,   *)
(* by the minute of the day.                                               *)
Overtakes_FirstEvent(row, s, i) ==
  \/ i > 1 /\ mam(s, 1) <= mam(row[i - 1], 1)
  \/ i <= Len(row) /\ mam(s, 1) >= mam(row[i], 1)

Overtakes(row, s, i) ==
  \E e \in Event :
    \/ i > 1 /\ mam(s, e) <= mam(row[i - 1], e)
    \/ i <= Len(row) /\ mam(s, e) >= mam(row[i], e)

Fits(r, s) ==
  \E i \in 1..Len(routes[r].times) + 1 :
    InsertIdx(routes[r].times, s, i) /\ ~Overtakes(routes[r].times, s, i)

Inserted(row, s, i) ==
  [j \in 1..Len(row) + 1 |->
     IF j < i THEN row[j] ELSE IF j = i THEN s ELSE row[j - 1]]

(* add_to_routes, a service that fits into a route: times_ and lcons_ grow *)
(* at the same place.                                                      *)
JoinRoute(r) ==
  /\ next <= NServices
  /\ Fits(r, next)
  /\ \A q \in 1..r - 1 : ~Fits(q, next)
  /\ \E i \in 1..Len(routes[r].times) + 1 :
       /\ InsertIdx(routes[r].times, next, i)
       /\ routes' = [routes EXCEPT ![r] =
                       [times |-> Inserted(@.times, next, i),
                        lcons |-> Inserted(@.lcons, next, i)]]
  /\ next' = next + 1
  /\ UNCHANGED <<times, built, tripRoute, lconIdx, expanded>>

(* add_to_routes, a service that fits nowhere.                             *)
OpenRoute ==
  /\ next <= NServices
  /\ \A r \in DOMAIN routes : ~Fits(r, next)
  /\ routes' = Append(routes, [times |-> <<next>>, lcons |-> <<next>>])
  /\ next' = next + 1
  /\ UNCHANGED <<times, built, tripRoute, lconIdx, expanded>>

-----------------------------------------------------------------------------
(* create_route, write_trip_info and add_expanded_trips for the next route:*)
(* the connections of its edges keep the order of lcons_, a trip finds its *)
(* own by their position, and the trips are expanded in that order.        *)
BuildRoute_PreIncrement ==
  /\ next > NServices /\ built < Len(routes)
  /\ built' = built + 1
  /\ LET lcons == routes[built + 1].lcons
         pos(s) == {i \in DOMAIN lcons : lcons[i] = s}
     IN /\ tripRoute' = [s \in Service |-> IF pos(s) # {} THEN built + 1 ELSE tripRoute[s]]
        /\ lconIdx' = [s \in Service |->
                         IF pos(s) # {} THEN 1 + (CHOOSE i \in pos(s) : TRUE) ELSE lconIdx[s]]
        /\ expanded' = Append(expanded, lcons)
  /\ UNCHANGED <<times, next, routes>>

BuildRoute ==
  /\ next > NServices /\ built < Len(routes)
  /\ built' = built + 1
  /\ LET lcons == routes[built + 1].lcons
         pos(s) == {i \in DOMAIN lcons : lcons[i] = s}
     IN /\ tripRoute' = [s \in Service |-> IF pos(s) # {} THEN built + 1 ELSE tripRoute[s]]
        /\ lconIdx' = [s \in Service |->
                         IF pos(s) # {} THEN CHOOSE i \in pos(s) : TRUE ELSE lconIdx[s]]
        /\ expanded' = Append(expanded, lcons)
  /\ UNCHANGED <<times, next, routes>>

Next ==
  \/ \E r \in DOMAIN routes : JoinRoute(r)
  \/ OpenRoute
  \/ BuildRoute

Spec == Init /\ [][Next]_vars

Done == next > NServices /\ built = Len(routes)

-----------------------------------------------------------------------------
TypeOK ==
  /\ times \in Timetables
  /\ next \in 1..NServices + 1
  /\ routes \in Seq([times : Seq(Service), lcons : Seq(Service)])
  /\ built \in 0..Len(routes)
  /\ tripRoute \in [Service -> 0..Len(routes)]
  /\ lconIdx \in [Service -> Nat]
  /\ expanded \in Seq(Seq(Service))

(* On every edge of a route the connections are strictly sorted by the     *)
(* minute of departure and of arrival, although a service was compared     *)
(* with its neighbours only: build_graph verifies the departures at its    *)
(* end, and get_connection searches them by bisection.                     *)
MinutesSorted ==
  \A r \in DOMAIN routes :
    \A i, j \in DOMAIN routes[r].lcons :
      i < j => \A e \in Event : mam(routes[r].lcons[i], e) < mam(routes[r].lcons[j], e)

(* When the graph is built every trip finds its own connection on the      *)
(* edges of its route, and is expanded exactly once.                       *)
TripsFindTheirConnections ==
  Done =>
    \A s \in Service :
      /\ tripRoute[s] \in DOMAIN routes
      /\ lconIdx[s] \in DOMAIN routes[tripRoute[s]].lcons
      /\ routes[tripRoute[s]].lcons[lconIdx[s]] = s
      /\ \E r \in DOMAIN expanded : \E i \in DOMAIN expanded[r] :
           \A q \in DOMAIN expanded : \A j \in DOMAIN expanded[q] :
             (expanded[q][j] = s) = (q = r /\ j = i)

InsideDay(s) == \A e \in Event : times[s][e] < DayLen

(* Services that stay inside the day do not overtake each other in a route, *)
(* although each was compared with its two neighbours only, and these may   *)
(* have crossed midnight.                                                   *)
DayServicesKeepOrder ==
  \A r \in DOMAIN routes :
    \A i, j \in DOMAIN routes[r].lcons :
      /\ i < j
      /\ InsideDay(routes[r].lcons[i]) /\ InsideDay(routes[r].lcons[j])
      => \A e \in Event : times[routes[r].lcons[i]][e] < times[routes[r].lcons[j]][e]

(* No service of a route overtakes another one: who departs first is first *)
(* at every stop.  add_service states it, "new service overtakes the       *)
(* existing", but compares minutes of the day.                             *)
NobodyOvertakes ==
  \A r \in DOMAIN routes :
    \A i, j \in DOMAIN routes[r].lcons :
      i < j => \A e \in Event : times[routes[r].lcons[i]][e] < times[routes[r].lcons[j]][e]
=============================================================================
