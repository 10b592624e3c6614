---------------------------- MODULE RoutingGraph ----------------------------
(***************************************************************************)
(* The time-dependent graph the forward search of the routing module walks *)
(* on: station, route and foot nodes, the edges graph_builder and          *)
(* build_footpaths give them, what an edge costs at a time, and the two    *)
(* constant graphs lower bounds are computed on.  Edges that only a        *)
(* backward search can use are left out.                                   *)
(*                                                                         *)
(* A network is [stations, routes, transfer, walks]: the stations are      *)
(* 1..stations, a route is [stops, enter, leave, trips], a trip is         *)
(* [times, days, valid] with the times of its departures and arrivals in   *)
(* turn, in minutes from the midnight of a traffic day; a walk is          *)
(* [from, to, time].                                                       *)
(***************************************************************************)
EXTENDS Integers, Sequences, FiniteSets, SequencesExt, FiniteSetsExt

CONSTANTS
  Day,            \* MINUTES_A_DAY
  LastDay,        \* BIT_COUNT - 1: the last day a bitfield has
  MaxTravelTime,  \* MAX_TRAVEL_TIME and MAX_TRAVEL_TIME_MINUTES
  MaxTransfers    \* MAX_TRANSFERS

ASSUME GraphAssumption ==
  /\ Day \in Nat \ {0} /\ LastDay \in Nat
  /\ MaxTravelTime \in Nat /\ MaxTransfers \in Nat

(* The elements of S in the order Before, in which no two are level.       *)
Ascending(S, Before(_, _)) ==
  [k \in 1..Cardinality(S) |->
     CHOOSE x \in S : Cardinality({y \in S : Before(y, x)}) = k - 1]

StationNode(s)     == [kind |-> "station", station |-> s, route |-> 0, stop |-> 0]
FootNode(s)        == [kind |-> "foot", station |-> s, route |-> 0, stop |-> 0]
RouteNode(n, r, i) == [kind |-> "route", station |-> n.routes[r].stops[i], route |-> r, stop |-> i]

StationNodes(n) == {StationNode(s) : s \in 1..n.stations}
FootNodes(n)    == {FootNode(w.from) : w \in n.walks} \cup {FootNode(w.to) : w \in n.walks}
Stops(n)        == UNION {{r} \X (DOMAIN n.routes[r].stops) : r \in DOMAIN n.routes}
RouteNodes(n)   == {RouteNode(n, p[1], p[2]) : p \in Stops(n)}
Nodes(n)        == StationNodes(n) \cup FootNodes(n) \cup RouteNodes(n)

----------------------------------------------------------------------------
(* Connections: the sections of the trips of a route, by departure minute. *)

SectionOf(trip, i) ==
  LET dep == trip.times[2 * i - 1]
      arr == trip.times[2 * i]
      off == dep \div Day
  IN [dep |-> dep % Day, arr |-> (dep % Day) + (arr - dep), valid |-> trip.valid,
      days |-> {d + off : d \in {x \in trip.days : off <= x}}]

Row(n, r, i) ==
  Ascending({SectionOf(n.routes[r].trips[t], i) : t \in DOMAIN n.routes[r].trips},
            LAMBDA c, e : c.dep < e.dep)

(* get_connection<FWD>: the first valid connection that departs at t or    *)
(* later, at most MaxTravelTime later, on one of its traffic days.         *)
None == [dep |-> -1, arr |-> -1]

Departures_EveryDay(row, t) ==
  {p \in (DOMAIN row) \X ((t \div Day)..((t + MaxTravelTime) \div Day)) :
     /\ p[2] <= LastDay /\ row[p[1]].valid
     /\ t <= p[2] * Day + row[p[1]].dep /\ p[2] * Day + row[p[1]].dep <= t + MaxTravelTime}

Departures(row, t) ==
  {p \in (DOMAIN row) \X ((t \div Day)..((t + MaxTravelTime) \div Day)) :
     /\ p[2] <= LastDay
     /\ p[2] \in row[p[1]].days /\ row[p[1]].valid
     /\ t <= p[2] * Day + row[p[1]].dep /\ p[2] * Day + row[p[1]].dep <= t + MaxTravelTime}

GetConnection(row, t) ==
  IF Departures(row, t) = {} THEN None
  ELSE LET p == CHOOSE p \in Departures(row, t) : \A q \in Departures(row, t) :
                  p[2] < q[2] \/ (p[2] = q[2] /\ p[1] <= q[1])
       IN [dep |-> p[2] * Day + row[p[1]].dep, arr |-> p[2] * Day + row[p[1]].arr]

----------------------------------------------------------------------------
(* Edges, in the order the loader appends them.                            *)

Edge(type, from, to, time, transfer) ==
  [type |-> type, from |-> from, to |-> to, time |-> time, transfer |-> transfer, row |-> <<>>]

EdgesOfStation(n, s) ==
  LET here == Ascending({p \in Stops(n) : n.routes[p[1]].stops[p[2]] = s},
                        LAMBDA p, q : p[1] < q[1] \/ (p[1] = q[1] /\ p[2] < q[2]))
      board(p) == Edge(IF n.routes[p[1]].enter[p[2]] THEN "FOOT" ELSE "INVALID",
                       StationNode(s), RouteNode(n, p[1], p[2]), 0, FALSE)
  IN [k \in DOMAIN here |-> board(here[k])]
       \o (IF FootNode(s) \in FootNodes(n)
           THEN <<Edge("FWD", StationNode(s), FootNode(s), 0, FALSE)>> ELSE <<>>)

EdgesOfStop(n, r, i) ==
  LET here  == RouteNode(n, r, i)
      s     == here.station
      leave == n.routes[r].leave[i]
  IN <<Edge(IF leave THEN "FOOT" ELSE "INVALID", here, StationNode(s), n.transfer[s], TRUE)>>
       \o (IF i < Len(n.routes[r].stops)
           THEN <<[Edge("ROUTE", here, RouteNode(n, r, i + 1), 0, FALSE) EXCEPT !.row = Row(n, r, i)]>>
           ELSE <<>>)
       \o (IF leave /\ FootNode(s) \in FootNodes(n)
           THEN <<Edge("AFTER_TRAIN_FWD", here, FootNode(s), 0, TRUE)>> ELSE <<>>)

EdgesOfFoot(n, s) ==
  LET out == Ascending({w \in n.walks : w.from = s}, LAMBDA v, w : v.to < w.to)
  IN [k \in DOMAIN out |-> Edge("FWD", FootNode(s), StationNode(out[k].to), out[k].time, FALSE)]

Edges(n) ==
  [v \in Nodes(n) |->
     CASE v.kind = "station" -> EdgesOfStation(n, v.station)
       [] v.kind = "route"   -> EdgesOfStop(n, v.route, v.stop)
       [] v.kind = "foot"    -> EdgesOfFoot(n, v.station)]

(* get_edge_cost<FWD>.  A walk straight from a train needs a train before. *)
NoEdge == [valid |-> FALSE, time |-> 0, transfer |-> FALSE, train |-> None]

EdgeCost(e, now, train) ==
  CASE e.type = "ROUTE" ->
         LET c == GetConnection(e.row, now)
         IN IF c = None THEN NoEdge
            ELSE [valid |-> TRUE, time |-> c.arr - now, transfer |-> FALSE, train |-> c]
    [] e.type = "INVALID" \/ (e.type = "AFTER_TRAIN_FWD" /\ train = None) -> NoEdge
    [] OTHER -> [valid |-> TRUE, time |-> e.time, transfer |-> e.transfer, train |-> None]

----------------------------------------------------------------------------
(* Lower bounds: the distance to the goal in a constant graph, given as    *)
(* arcs [from, to, cost]; what is further than max counts as unreachable.  *)

Distance(nodes, arcs, goal, max) ==
  LET rounds == Cardinality(nodes) * (max + 1)  \* as many as there are distances
      near[k \in 0..rounds] ==
        IF k = 0 THEN {<<goal, 0>>}
        ELSE LET known == near[k-1]
             IN known \cup {p \in {<<q[1].from, q[1].cost + q[2][2]>> :
                                    q \in {x \in arcs \X known : x[1].to = x[2][1]}} : p[2] <= max}
      reached == near[rounds]
  IN [v \in nodes |-> Min({max + 1} \cup {p[2] : p \in {q \in reached : q[1] = v}})]

Arc(from, to, cost) == [from |-> from, to |-> to, cost |-> cost]

(* Walks cost nothing in both graphs.  The edges a backward search uses    *)
(* connect a station with the foot nodes of others, so that two walks in a *)
(* row are one arc.                                                        *)
WalkArcs(n) ==
  {Arc(w.from, w.to, 0) : w \in n.walks}
    \cup {Arc(p[1].from, p[2].to, 0) :
            p \in {q \in n.walks \X n.walks : q[1].to = q[2].from /\ q[1].from # q[2].to}}

RideArcs(n) ==
  {Arc(n.routes[p[1]].stops[p[2]], n.routes[p[1]].stops[p[2] + 1],
       Min({c.arr - c.dep : c \in ToSet(Row(n, p[1], p[2]))})) :
     p \in {q \in Stops(n) : q[2] < Len(n.routes[q[1]].stops)}}

StationGraphBounds(n, goal) ==
  Distance(1..n.stations, WalkArcs(n) \cup RideArcs(n), goal, MaxTravelTime)

(* Stations and, behind them, one node per route.                          *)
InterchangeArcs(n) ==
  WalkArcs(n)
    \cup {Arc(n.routes[p[1]].stops[p[2]], n.stations + p[1], 0) :
            p \in {q \in Stops(n) : n.routes[q[1]].enter[q[2]]}}
    \cup {Arc(n.stations + p[1], n.routes[p[1]].stops[p[2]], 1) :
            p \in {q \in Stops(n) : n.routes[q[1]].leave[q[2]]}}

InterchangeGraphBounds(n, goal) ==
  Distance(1..(n.stations + Len(n.routes)), InterchangeArcs(n), goal, MaxTransfers)
=============================================================================
