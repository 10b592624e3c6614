-------------------------- MODULE RoutingReference --------------------------
(***************************************************************************)
(* What the search should find, said without a graph: journeys on concrete *)
(* trains.  A journey takes a trip on one of its traffic days from a stop  *)
(* where boarding is allowed to a later one where alighting is, needs the  *)
(* transfer time of a station before it boards again there, and may walk   *)
(* as soon as it has arrived.                                              *)
(***************************************************************************)
EXTENDS RoutingGraph

CONSTANT Legs   \* rides and walks of the longest journey considered

ASSUME LegsAssumption == Legs \in Nat \ {0}

Departure(trip, i) == trip.times[2 * i - 1]
Arrival(trip, i)   == trip.times[2 * i - 2]

RidesOf(n, r, t) ==
  LET route == n.routes[r]
      trip  == route.trips[t]
  IN {[route |-> r, enter |-> p[1], exit |-> p[2],
       from |-> route.stops[p[1]], to |-> route.stops[p[2]],
       dep |-> d * Day + Departure(trip, p[1]), arr |-> d * Day + Arrival(trip, p[2])] :
        p \in {q \in (DOMAIN route.stops) \X (DOMAIN route.stops) : q[1] < q[2] /\ route.leave[q[2]]},
        d \in IF trip.valid THEN trip.days ELSE {}}

Rides(n) ==
  UNION {UNION {RidesOf(n, r, t) : t \in DOMAIN n.routes[r].trips} : r \in DOMAIN n.routes}

MayEnter(n, ride) == n.routes[ride.route].enter[ride.enter]

(* Where a journey is: when it arrived, from when it may board.            *)
Position(start, at, arr, ready, rides) ==
  [start |-> start, at |-> at, arr |-> arr, ready |-> ready, rides |-> rides]

After(n, start, ride, rides) ==
  Position(start, ride.to, ride.arr, ride.arr + n.transfer[ride.to], rides)

InTime(start, arr) == arr - start <= MaxTravelTime

Boarded(n, p, all) ==
  {After(n, p.start, ride, p.rides + 1) :
     ride \in {x \in all : MayEnter(n, x) /\ x.from = p.at /\ p.ready <= x.dep /\ InTime(p.start, x.arr)}}

Walked(n, p) ==
  {Position(p.start, w.to, p.arr + w.time, p.arr + w.time, p.rides) :
     w \in {x \in n.walks : x.from = p.at /\ InTime(p.start, p.arr + x.time)}}

(* Where journeys begin: with a train that departs in the interval; at a   *)
(* station at its first minute; or in a train that has arrived then, which *)
(* goes on, or is left for the price of a transfer.                        *)
Starts(n, q, interval, all) ==
  CASE q.kind = "pretrip" ->
         {After(n, x.dep, x, 1) :
            x \in {y \in all : MayEnter(n, y) /\ y.from = q.from
                                 /\ interval.begin <= y.dep /\ y.dep <= interval.end
                                 /\ InTime(y.dep, y.arr)}}
    [] q.kind = "station" ->
         {Position(interval.begin, q.from, interval.begin, interval.begin, 0)}
    [] q.kind = "train" ->
         LET s == n.routes[q.route].stops[q.stop]
             t == interval.begin
         IN {After(n, t, x, 1) :
               x \in {y \in all : y.route = q.route /\ y.enter = q.stop /\ t <= y.dep /\ InTime(t, y.arr)}}
            \cup (IF n.routes[q.route].leave[q.stop]
                  THEN {Position(t, s, t + (IF s = q.to THEN 0 ELSE n.transfer[s]),
                                 t + n.transfer[s], 1)}
                  ELSE {})

JourneysOn(n, q, interval, all) ==
  LET reach[k \in 1..Legs] ==
        IF k = 1 THEN Starts(n, q, interval, all)
        ELSE LET known == reach[k-1]
             IN known \cup UNION {Boarded(n, p, all) \cup Walked(n, p) : p \in known}
  IN {[start |-> p.start, now |-> p.arr, transfers |-> p.rides] :
        p \in {x \in reach[Legs] : x.at = q.to /\ x.rides <= MaxTransfers}}

Journeys(n, q, interval) == JourneysOn(n, q, interval, Rides(n))

(* Where the passenger is when the journey begins.                         *)
Origin(n, q) == IF q.kind = "train" THEN n.routes[q.route].stops[q.stop] ELSE q.from

(* Journeys without a train that brings the passenger back to where start  *)
(* labels wait for a train: they have not come by one, and cannot leave.   *)
ComesBack(q, ride) ==
  \/ q.kind = "pretrip" /\ ride.to = q.from
  \/ q.kind = "train" /\ ride.route = q.route /\ ride.exit = q.stop

OnwardJourneys(n, q, interval) ==
  JourneysOn(n, q, interval, {x \in Rides(n) : ~ComesBack(q, x)})

(* No train that leaves the start at t comes after a gap: from each minute *)
(* of the interval before it one of its route leaves in MaxTravelTime.     *)
NoGap(n, q, interval, t) ==
  q.kind = "pretrip" =>
    \A x \in Rides(n) : MayEnter(n, x) /\ x.from = q.from /\ x.dep = t =>
      \A u \in interval.begin..t :
        \E y \in Rides(n) : /\ y.route = x.route /\ y.enter = x.enter
                           /\ u <= y.dep /\ y.dep <= u + MaxTravelTime
----------------------------------------------------------------------------
(* What the search may rely on: what the loader makes of a schedule, and   *)
(* where a journey may begin.                                              *)

Sections(n, r) == 1..(Len(n.routes[r].stops) - 1)

IsTrip(trip, sections) ==
  /\ Len(trip.times) = 2 * Cardinality(sections)
  /\ \A i \in sections :
       /\ Departure(trip, i) <= Arrival(trip, i + 1)
       /\ i + 1 \in sections => Arrival(trip, i + 1) <= Departure(trip, i + 1)
       /\ \A d \in trip.days :
            Departure(trip, i) \div Day <= d /\ d + Departure(trip, i) \div Day <= LastDay

IsNetwork(n) ==
  /\ n.stations \in Nat
  /\ n.transfer \in [1..n.stations -> Nat]
  /\ IsFiniteSet(n.walks)
  /\ \A w \in n.walks :
       /\ w.from \in 1..n.stations /\ w.to \in 1..n.stations /\ w.from # w.to
       /\ w.time \in Nat
       /\ \A v \in n.walks : v.from = w.from /\ v.to = w.to => v = w
  /\ n.routes \in Seq([stops : Seq(1..n.stations), enter : Seq(BOOLEAN), leave : Seq(BOOLEAN),
                       trips : Seq([times : Seq(Nat), days : SUBSET Nat, valid : BOOLEAN])])
  /\ \A r \in DOMAIN n.routes :
       /\ Len(n.routes[r].enter) = Len(n.routes[r].stops)
       /\ Len(n.routes[r].leave) = Len(n.routes[r].stops)
       /\ n.routes[r].trips # <<>>
       /\ \A t \in DOMAIN n.routes[r].trips : IsTrip(n.routes[r].trips[t], Sections(n, r))

(* The connections of an edge leave at different minutes of the day.       *)
DifferentMinutes(n) ==
  \A r \in DOMAIN n.routes : \A i \in Sections(n, r) : \A t, u \in DOMAIN n.routes[r].trips :
    LET c == SectionOf(n.routes[r].trips[t], i)
        e == SectionOf(n.routes[r].trips[u], i)
    IN c.dep = e.dep => c = e

(* No train of a route overtakes another one of it.                        *)
NoOvertaking(n) ==
  \A r \in DOMAIN n.routes : \A i \in Sections(n, r) : \A t, u \in DOMAIN n.routes[r].trips :
    LET c == SectionOf(n.routes[r].trips[t], i)
        e == SectionOf(n.routes[r].trips[u], i)
    IN c.valid /\ e.valid =>
         \A d \in c.days, f \in e.days :
           d * Day + c.dep <= f * Day + e.dep => d * Day + c.arr <= f * Day + e.arr

(* Nobody arrives at the minute of the departure.                          *)
TimePasses(n) ==
  /\ \A w \in n.walks : w.time # 0
  /\ \A r \in DOMAIN n.routes : \A t \in DOMAIN n.routes[r].trips : \A i \in Sections(n, r) :
       Departure(n.routes[r].trips[t], i) # Arrival(n.routes[r].trips[t], i + 1)

(* Who stays in a train leaves with it: between the arrival of a train at  *)
(* a stop and its departure, no other train of the route departs there.    *)
StandAlone(n) ==
  \A r \in DOMAIN n.routes : \A i \in Sections(n, r) \ {1} : \A t, u \in DOMAIN n.routes[r].trips :
    LET stays == n.routes[r].trips[t]
        goes  == n.routes[r].trips[u]
    IN stays.valid /\ goes.valid =>
         \A d \in stays.days, f \in goes.days :
           /\ d * Day + Arrival(stays, i) <= f * Day + Departure(goes, i)
           /\ f * Day + Departure(goes, i) <= d * Day + Departure(stays, i)
           => t = u /\ d = f

(* A query ends elsewhere than it begins.                                  *)
IsQuery(n, q) ==
  /\ q.kind \in {"pretrip", "station", "train"}
  /\ q.kind = "train" => q.route \in DOMAIN n.routes /\ q.stop \in DOMAIN n.routes[q.route].stops
  /\ Origin(n, q) \in 1..n.stations /\ q.to \in 1..n.stations /\ Origin(n, q) # q.to
  /\ q.begin \in Nat /\ q.end \in Nat
  /\ q.kind # "pretrip" => q.min = 0
=============================================================================
