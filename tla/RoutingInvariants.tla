--------------------------- MODULE RoutingInvariants ---------------------------
(***************************************************************************)
(* The invariants of the routing search, and the terms they are stated in. *)
(*                                                                         *)
(* IInv: who uses the labels of the allocator.  CInv: where labels come    *)
(* from, and what has become of the edges of those that were kept.  QInv:  *)
(* what the results are worth after filter_results.  JInv: which journeys  *)
(* the labels stand for.  Lasting, Grows, Popped, Started and Carry say    *)
(* what a step leaves and adds; the other sections hold what the proofs    *)
(* call the edges of a node, a ride, and the positions of journeys.        *)
(***************************************************************************)
EXTENDS Routing

----------------------------------------------------------------------------
(* Labels and their users                                                  *)

(* The allocator hands out addresses of labels, each once.                 *)
IsLabel(l) ==
  /\ l = [pred |-> l.pred, node |-> l.node, train |-> l.train, start |-> l.start,
          now |-> l.now, transfers |-> l.transfers, dominated |-> l.dominated]
  /\ l.dominated \in BOOLEAN

Memory(m) ==
  /\ m = [label |-> m.label, free |-> m.free]
  /\ \E S : m.label \in Seq(S)
  /\ \A a \in 1..Len(m.label) : IsLabel(m.label[a])
  /\ m.free \in Seq(1..Len(m.label)) /\ IsInjective(m.free)

(* The users of labels: those in w wait, those in r are results, those in  *)
(* k are kept at their nodes and t is being expanded.  What waits or is a  *)
(* result has no other user, except that it may wait and be kept; so it    *)
(* can be released when it is popped or gives way to a better result.      *)
(* Only labels that have been expanded precede others, and what is         *)
(* dominated is kept no more.                                              *)
Alive(m, w, r, k, t) ==
  /\ Memory(m)
  /\ w \cup r \cup k \subseteq 1..Len(m.label) /\ t \in 1..Len(m.label) \cup {NoAddress}
  /\ w \cap r = {} /\ k \cap r = {} /\ t \notin w /\ t \notin r
  /\ (w \cup r \cup k \cup {t}) \cap ToSet(m.free) = {}
  /\ \A a \in 1..Len(m.label) \ ToSet(m.free) :
       /\ m.label[a].pred \in 1..Len(m.label) \cup {NoAddress}
       /\ m.label[a].pred \notin ToSet(m.free) \cup w \cup r
  /\ \A a \in k : ~m.label[a].dominated

Queued == ToSet(queue) \cup ToSet(equals)

IInv ==
  /\ Alive(mem, Queued, results, kept, at)
  /\ queue \in Seq(Address) /\ equals \in Seq(Address)
  /\ IsInjective(queue) /\ IsInjective(equals) /\ ToSet(queue) \cap ToSet(equals) = {}
  /\ todo # <<>> => at # NoAddress

(* Nobody uses the label at n.                                             *)
Unused(n, m, w, r, k, t) ==
  /\ n \in 1..Len(m.label) \ ToSet(m.free)
  /\ n \notin w /\ n \notin r /\ n \notin k /\ n # t
  /\ \A a \in 1..Len(m.label) \ ToSet(m.free) : m.label[a].pred # n

----------------------------------------------------------------------------
(* Numbers and finite sets                                                 *)

(* The elements of a finite set by the number of those before them.        *)
Ordering(R, S) ==
  /\ \A x \in S : <<x, x>> \notin R
  /\ \A x, y, z \in S : <<x, y>> \in R /\ <<y, z>> \in R => <<x, z>> \in R
  /\ \A x, y \in S : x = y \/ <<x, y>> \in R \/ <<y, x>> \in R

Rank(R, S, x) == Cardinality({y \in S : <<y, x>> \in R})

Listed(R, S) == [k \in 1..Cardinality(S) |-> CHOOSE x \in S : Rank(R, S, x) = k - 1]

Onto(f, m, S) == m \in Nat /\ f \in [1..m -> S] /\ \A x \in S : \E k \in 1..m : f[k] = x

----------------------------------------------------------------------------
(* Lower bounds                                                            *)

(* What is made of s0 by taking g again and again.                         *)
Iterates(f, s0, g, K) == f[0] = s0 /\ \A k \in 1..K : f[k] = g[f[k - 1]]

(* What is known after another round of Distance.                          *)
Nearer(A, max, X) ==
  X \cup {p \in {<<q[1].from, q[1].cost + q[2][2]>> :
                   q \in {x \in A \X X : x[1].to = x[2][1]}} : p[2] <= max}

Near(A, goal, max, K) ==
  CHOOSE f : f = [k \in 0..K |-> IF k = 0 THEN {<<goal, 0>>} ELSE Nearer(A, max, f[k - 1])]

Nearers(N, A, max) == [X \in SUBSET (N \X (0..max)) |-> Nearer(A, max, X)]

(* No way is shorter than its bound, arc by arc.                           *)
ArcsIn(A, N) == \A a \in A : a.from \in N /\ a.to \in N /\ a.cost \in Nat

Bounds(D, N, A, goal) ==
  /\ D \in [N -> Nat] /\ D[goal] = 0
  /\ \A a \in A : D[a.from] <= a.cost + D[a.to]

----------------------------------------------------------------------------
(* Connections                                                             *)

SectionsOf(n, r, i) == {SectionOf(n.routes[r].trips[t], i) : t \in DOMAIN n.routes[r].trips}

IsSection(c) ==
  /\ c.dep \in Nat /\ c.dep < Day /\ c.arr \in Nat /\ c.dep <= c.arr
  /\ c.valid \in BOOLEAN /\ c.days \subseteq Nat

(* The connections of an edge by their departures.                         *)
IsRow(row, S) ==
  /\ Len(row) \in Nat /\ row \in [1..Len(row) -> S]
  /\ \A c \in S : IsSection(c) /\ \E k \in 1..Len(row) : row[k] = c
  /\ \A j, k \in 1..Len(row) : j < k => row[j].dep < row[k].dep

(* What get_connection finds is a connection on one of its days, and none  *)
(* leaves between.                                                         *)
Runs(c, d, t) == d \in c.days /\ c.valid /\ d <= LastDay /\ t <= d * Day + c.dep

On(c, d) == [dep |-> d * Day + c.dep, arr |-> d * Day + c.arr]

----------------------------------------------------------------------------
(* Edges                                                                   *)

BoardEdge(n, r, i) ==
  Edge(IF n.routes[r].enter[i] THEN "FOOT" ELSE "INVALID",
       StationNode(n.routes[r].stops[i]), RouteNode(n, r, i), 0, FALSE)
ToFootEdge(s) == Edge("FWD", StationNode(s), FootNode(s), 0, FALSE)
ExitEdge(n, r, i) ==
  LET s == n.routes[r].stops[i]
  IN Edge(IF n.routes[r].leave[i] THEN "FOOT" ELSE "INVALID",
          RouteNode(n, r, i), StationNode(s), n.transfer[s], TRUE)
RideEdge(n, r, i) ==
  [Edge("ROUTE", RouteNode(n, r, i), RouteNode(n, r, i + 1), 0, FALSE) EXCEPT !.row = Row(n, r, i)]
WalkOffEdge(n, r, i) ==
  Edge("AFTER_TRAIN_FWD", RouteNode(n, r, i), FootNode(n.routes[r].stops[i]), 0, TRUE)
WalkEdge(w) == Edge("FWD", FootNode(w.from), StationNode(w.to), w.time, FALSE)

StopsAt(n, s) == {p \in Stops(n) : n.routes[p[1]].stops[p[2]] = s}

StationEdges(n, s) ==
  {BoardEdge(n, p[1], p[2]) : p \in StopsAt(n, s)}
    \cup (IF FootNode(s) \in FootNodes(n) THEN {ToFootEdge(s)} ELSE {})
StopEdges(n, r, i) ==
  {ExitEdge(n, r, i)}
    \cup (IF i \in Sections(n, r) THEN {RideEdge(n, r, i)} ELSE {})
    \cup (IF n.routes[r].leave[i] /\ FootNode(n.routes[r].stops[i]) \in FootNodes(n)
          THEN {WalkOffEdge(n, r, i)} ELSE {})
FootEdges(n, s) == {WalkEdge(w) : w \in {v \in n.walks : v.from = s}}

AlongRoute(n, v, e) ==
  \E r \in DOMAIN n.routes : \E i \in Sections(n, r) :
    v = RouteNode(n, r, i) /\ e.to = RouteNode(n, r, i + 1) /\ e.row = Row(n, r, i)

IsEdge(n, v, e) ==
  /\ e.from = v /\ e.to \in Nodes(n) /\ e.to # v /\ e.time \in Nat /\ e.transfer \in BOOLEAN
  /\ e.type \in {"FOOT", "FWD", "INVALID", "AFTER_TRAIN_FWD", "ROUTE"}
  /\ e.type = "ROUTE" => AlongRoute(n, v, e)
  /\ e.type # "ROUTE" => e.to.station = v.station \/ (TimePasses(n) => e.time # 0)
  /\ e.type # "ROUTE" /\ e.to.kind = "route" => e.time = 0 /\ v = StationNode(e.to.station) /\ e.transfer = FALSE

----------------------------------------------------------------------------
(* What the lower bounds are worth                                         *)

(* The quickest connection of an edge.                                     *)
Quickest(n, r, i) == Min({c.arr - c.dep : c \in ToSet(Row(n, r, i))})

----------------------------------------------------------------------------
(* What the search knows                                                   *)

Goal == StationNode(query.to)

LiveIn(m) == 1..Len(m.label) \ ToSet(m.free)

Answers == Found \cup {AsJourney(d) : d \in dropped}

(* There is an answer as good as whatever can become of a label for v.     *)
AnsweredAt(v, s, t, x) ==
  \E j \in Answers : s <= j.start /\ j.now <= t /\ j.transfers <= x + lb.transfers[LbNode(v)]

KeptAt(v, s, t, x) ==
  \E b \in kept : /\ LabelAt(b).node = v /\ s <= LabelAt(b).start
                  /\ LabelAt(b).now <= t /\ LabelAt(b).transfers <= x

ServedAt(v, s, t, x) == AnsweredAt(v, s, t, x) \/ KeptAt(v, s, t, x)

Served(l) == ServedAt(l.node, l.start, l.now, l.transfers)

(* The timetable, the query and what was computed of them before.          *)
Prepared ==
  /\ IsNetwork(net) /\ DifferentMinutes(net) /\ NoOvertaking(net) /\ IsQuery(net, query)
  /\ edges = Edges(net)
  /\ lb = [travel |-> StationGraphBounds(net, query.to),
           transfers |-> InterchangeGraphBounds(net, query.to)]

GoodLabel(l) ==
  /\ l.node \in Nodes(net) /\ l.start \in Nat /\ l.now \in Nat /\ l.transfers \in Nat
  /\ l.start <= l.now
  /\ TimePasses(net) => l.start < l.now \/ l.node.station = Origin(net, query)

StartPlaces ==
  [node : {v \in Nodes(net) :
             IF query.kind = "pretrip" THEN v.kind = "route" /\ v.station = query.from
             ELSE v = OntripNode},
   time : Nat]

(* What create_label makes of a label l along an edge.                     *)
StepFrom(l, m) ==
  /\ l.node # Goal /\ m.start = l.start /\ l.now <= m.now /\ l.transfers <= m.transfers
  /\ \E e \in ToSet(edges[l.node]) : e.to = m.node /\ (m.train = None <=> e.type # "ROUTE")

PretripStart(l) ==
  query.kind = "pretrip" /\ l.node.kind = "route" /\ l.node.station = query.from /\ l.train = None

(* Where a label comes from.                                               *)
Origins ==
  \A a \in LiveIn(mem) :
    LET l == LabelAt(a)
    IN IF l.pred = NoAddress
       THEN l.node = StationNode(query.from) \/ (query.kind = "train" /\ l.node = OntripNode)
       ELSE \/ PretripStart(l) /\ LabelAt(l.pred).node = StationNode(query.from)
            \/ StepFrom(LabelAt(l.pred), l) /\ Served(LabelAt(l.pred))

Places ==
  /\ \A a \in LiveIn(mem) : GoodLabel(LabelAt(a))
  /\ \A a \in kept : LabelAt(a).node # Goal
  /\ \A a \in results : LabelAt(a).node = Goal
  /\ \A a \in Queued : LabelAt(a).dominated \/ a \in kept
  /\ at # NoAddress =>
       /\ LabelAt(at).node # Goal /\ Served(LabelAt(at))
       /\ todo \in Seq(ToSet(edges[LabelAt(at).node]))
  /\ \A d \in dropped : d.start \in Nat /\ d.now \in Nat /\ d.transfers \in Nat /\ d.start <= d.now

(* What is kept and waits no more has been relaxed, but for the edges that *)
(* are still to do.                                                        *)
Relaxed(a, e) == Creates(a, e) => Served(Along(a, e))

Explored ==
  \A a \in kept \ Queued :
    \/ LET l == LabelAt(a) IN AnsweredAt(l.node, l.start, l.now, l.transfers)
    \/ \A e \in ToSet(edges[LabelAt(a).node]) : (a = at /\ e \in ToSet(todo)) \/ Relaxed(a, e)

(* The starts of the interval, and what has become of them.                *)
StartStops ==
  {e.to : e \in {x \in ToSet(edges[StationNode(query.from)]) : x.type = "FOOT" /\ x.to.kind = "route"}}

StartsIn(b, e) ==
  IF query.kind = "pretrip"
  THEN UNION {{[node |-> v, time |-> t] : t \in DeparturesIn(v, b, e)} : v \in StartStops}
  ELSE {[node |-> OntripNode, time |-> b]}

Begins(s) ==
  \/ Filtered(Label(NoAddress, s.node, None, s.time, s.time, 0))
  \/ ServedAt(s.node, s.time, s.time, 0)

Begun == \A s \in StartsIn(interval.begin, interval.end) : s \in ToSet(starts) \/ Begins(s)

Clocks ==
  /\ interval = Interval(interval.begin, interval.end)
  /\ interval.begin \in ScheduleBegin..ScheduleEnd /\ interval.end \in ScheduleBegin..ScheduleEnd
  /\ interval.begin <= interval.end
  /\ starts \in Seq(StartPlaces) /\ (pc \in {"search", "filter", "extend"} => starts = <<>>)

CInv == Prepared /\ Clocks /\ Places /\ Origins /\ Explored /\ Begun

----------------------------------------------------------------------------
(* Labels that stay what they are                                          *)

Like(l, k) ==
  /\ k.pred = l.pred /\ k.node = l.node /\ k.train = l.train /\ k.start = l.start
  /\ k.now = l.now /\ k.transfers = l.transfers
  /\ l.dominated => k.dominated

(* From the memory m to k, labels have been created at N only.             *)
KeepsLabels(m, k, N) ==
  /\ N \cap LiveIn(m) = {}
  /\ \A a \in LiveIn(k) \ N : a \in LiveIn(m) /\ Like(m.label[a], k.label[a])

----------------------------------------------------------------------------
(* What a step of the search leaves of what it knows                       *)

Times(k) == k.start \in Nat /\ k.now \in Nat /\ k.transfers \in Nat

(* What a step makes of the answers and of the labels at their nodes.      *)
AnswersImprove == \A j \in Answers : \E k \in Answers' : Times(k) /\ AtLeastAsGood(k, j)

ResultsImprove == \A j \in Found : \E k \in Found' : Times(k) /\ AtLeastAsGood(k, j)

KeptImprove ==
  \A b \in kept : \E c \in kept' :
    /\ Times(LabelAt(c)') /\ LabelAt(c)'.node = LabelAt(b).node
    /\ AtLeastAsGood(LabelAt(c)', LabelAt(b))

Steady ==
  \A v \in Nodes(net), s \in Nat, t \in Nat, x \in Nat :
    /\ AnsweredAt(v, s, t, x) => AnsweredAt(v, s, t, x)'
    /\ ServedAt(v, s, t, x) => ServedAt(v, s, t, x)'

(* Where a label comes from, one label at a time.                          *)
OriginOf(l) ==
  IF l.pred = NoAddress
  THEN l.node = StationNode(query.from) \/ (query.kind = "train" /\ l.node = OntripNode)
  ELSE \/ PretripStart(l) /\ LabelAt(l.pred).node = StationNode(query.from)
       \/ StepFrom(LabelAt(l.pred), l) /\ Served(LabelAt(l.pred))

(* What every step carries over, given its new labels at N.                *)
Carry ==
  /\ Prepared' /\ Origins' /\ Steady
  /\ \A a \in LiveIn(mem') : GoodLabel(LabelAt(a))'
  /\ \A s \in StartPlaces : Begins(s) => Begins(s)'
  /\ \A a \in LiveIn(mem) \cap LiveIn(mem') :
       /\ Like(LabelAt(a), LabelAt(a)') /\ (Served(LabelAt(a)) => Served(LabelAt(a))')
       /\ LET l == LabelAt(a) IN
          AnsweredAt(l.node, l.start, l.now, l.transfers) => AnsweredAt(l.node, l.start, l.now, l.transfers)'
  /\ \A a \in kept \cap kept' :
       \A e \in ToSet(edges[LabelAt(a).node]) : Relaxed(a, e) => Relaxed(a, e)'

(* A kept label that waits no more.                                        *)
ExploredOne(a) ==
  \/ LET l == LabelAt(a) IN AnsweredAt(l.node, l.start, l.now, l.transfers)
  \/ \A e \in ToSet(edges[LabelAt(a).node]) : (a = at /\ e \in ToSet(todo)) \/ Relaxed(a, e)

----------------------------------------------------------------------------
(* The steps and what the search knows                                     *)

(* What every step leaves of the labels, and what relaxing an edge adds.   *)
Lasting == KeptImprove /\ \A a \in LiveIn(mem) \cap LiveIn(mem') : Like(LabelAt(a), LabelAt(a)')

Grows ==
  /\ \A r \in results' \ results : Creates(at, Head(todo)) /\ AtGoal /\ Like(NewLabel, LabelAt(r)')
  /\ \A a \in Queued' \ Queued :
       /\ Creates(at, Head(todo)) /\ ~AtGoal /\ Like(NewLabel, LabelAt(a)')
       /\ ~DominatedByResults(NewLabel)
       /\ \A b \in kept : LabelAt(b).node = NewLabel.node => ~Dominates(LabelAt(b), NewLabel)
  /\ Creates(at, Head(todo)) /\ ~AtGoal =>
       \/ DominatedByResults(NewLabel)
       \/ \A m : m = NewLabel => KeptAt(m.node, m.start, m.now, m.transfers)'

Popped ==
  \E a \in Queued :
    /\ Queued' = Queued \ {a}
    /\ UNCHANGED <<at, todo>> \/ (at' = a /\ todo' = edges[LabelAt(a).node])

Started ==
  \A a \in Queued' \ Queued : \A s : s = Head(starts) =>
    LET l == LabelAt(a)' IN
    l.node = s.node /\ l.start = s.time /\ l.now = s.time /\ l.transfers = 0 /\ l.train = None

----------------------------------------------------------------------------
(* Rides and walks                                                         *)

(* A section run by a valid train on a day.                                *)
RunsAs(n, r, m, dep, arr) ==
  \E c \in SectionsOf(n, r, m) : \E f \in c.days :
    IsSection(c) /\ c.valid /\ f \in Nat /\ f <= LastDay /\ On(c, f).dep = dep /\ On(c, f).arr = arr

IsRide(n, x, r, i, j, D, A) ==
  /\ i < j /\ n.routes[r].leave[j]
  /\ x.route = r /\ x.enter = i /\ x.exit = j
  /\ x.from = n.routes[r].stops[i] /\ x.to = n.routes[r].stops[j]
  /\ x.dep = D[i] /\ x.arr = A[j]
  /\ \A m \in i..(j - 1) :
       /\ m \in Sections(n, r) /\ D[m] \in Nat /\ A[m + 1] \in Nat /\ D[m] <= A[m + 1]
       /\ RunsAs(n, r, m, D[m], A[m + 1])
       /\ m + 1 < j => A[m + 1] <= D[m + 1]

(* Where journeys get to.                                                  *)
Further(n, all, K) == K \cup UNION {Boarded(n, p, all) \cup Walked(n, p) : p \in K}

Reach(n, q, iv, all) ==
  CHOOSE f : f = [k \in 1..Legs |-> IF k = 1 THEN Starts(n, q, iv, all) ELSE Further(n, all, f[k - 1])]

(* No journey leaves a set of positions that has all the steps out of it.  *)
Keeps(n, q, iv, all, P) ==
  /\ Starts(n, q, iv, all) \subseteq P
  /\ \A p \in P : Boarded(n, p, all) \cup Walked(n, p) \subseteq P

EndsIn(q, j, P) ==
  \E p \in P : p.at = q.to /\ p.rides <= MaxTransfers
               /\ j = [start |-> p.start, now |-> p.arr, transfers |-> p.rides]

(* Positions and the steps between them.                                   *)
Positions(n) ==
  {p \in [start : Nat, at : 1..n.stations, arr : Nat, ready : Nat, rides : Nat] :
     p.start <= p.arr /\ p.arr <= p.ready}

----------------------------------------------------------------------------
(* When the search is over                                                 *)

Room(v, s, t, x) ==
  /\ (t - s) + lb.travel[v.station] <= MaxTravelTime
  /\ x + lb.transfers[LbNode(v)] <= MaxTransfers

Settled == IInv /\ CInv /\ SearchOver

(* One edge further: what every label at v makes of e.                     *)
Serves(b, v, e, s, t, x, t2, x2) ==
  LET l == LabelAt(b)
  IN l.node = v /\ s <= l.start /\ l.now <= t /\ l.transfers <= x =>
       \/ /\ CostAlong(l, e).valid /\ Along(b, e).now <= t2 /\ Along(b, e).transfers <= x2
          /\ ~(PretripStart(l) /\ e.to = StationNode(query.from))
       \/ ServedAt(e.to, s, t2, x2)

----------------------------------------------------------------------------
(* The edges a journey takes                                               *)

(* A label is served, if a label like it may be.                           *)
Leads(v, s, t, k) == Room(v, s, t, k) => ServedAt(v, s, t, k)

(* Stops at which start labels of the query may wait for a train.          *)
StartsHere(r, j) ==
  \/ query.kind = "pretrip" /\ net.routes[r].stops[j] = query.from
  \/ query.kind = "train" /\ r = query.route /\ j = query.stop

----------------------------------------------------------------------------
(* Every position of a journey is served                                   *)

Arrived(p) ==
  InTime(p.start, p.arr) /\ p.rides <= MaxTransfers => AnsweredAt(Goal, p.start, p.arr, p.rides)

OnTheWay(p) ==
  /\ Leads(StationNode(p.at), p.start, p.ready, p.rides)
  /\ FootNode(p.at) \in FootNodes(net) => Leads(FootNode(p.at), p.start, p.arr, p.rides)

Covered(p) == p \in Positions(net) /\ (p.at = query.to => Arrived(p)) /\ (p.at # query.to => OnTheWay(p))

Onward == {x \in Rides(net) : ~ComesBack(query, x)}

----------------------------------------------------------------------------
(* What filter_results may erase                                           *)

AsQuick(a, b) == a.now - a.start <= b.now - b.start /\ a.transfers <= b.transfers

(* Whatever has been erased, something no slower has been left.            *)
Beaten == \A d \in dropped : \E r \in Found : AsQuick(r, d)

Covering ==
  pc \in {"filter", "extend", "done"} =>
    \A j \in OnwardJourneys(net, query, interval) :
      NoGap(net, query, interval, j.start) => Times(j) /\ \E r \in Answers : AtLeastAsGood(r, j)

QInv == Beaten /\ Covering

----------------------------------------------------------------------------
(* Where journeys get to                                                   *)

(* A place and a time some journey gets to, in no more steps than the      *)
(* minutes it has taken allow.                                             *)
Reached(n, q, iv, p) ==
  \E k \in 1..Legs : k <= 1 + (p.arr - p.start) /\ p \in Reach(n, q, iv, Rides(n))[k]

(* In a timetable where everything takes time no journey is too long for   *)
(* the reference.                                                          *)
World(n, q, iv) ==
  /\ IsNetwork(n) /\ IsQuery(n, q) /\ TimePasses(n) /\ iv.begin \in Nat /\ iv.end \in Nat
  /\ MaxTravelTime < Legs

----------------------------------------------------------------------------
(* Trains of a route, on the days they run                                 *)

RunsOn(n, r, u, f) ==
  /\ u \in DOMAIN n.routes[r].trips /\ n.routes[r].trips[u].valid /\ f \in n.routes[r].trips[u].days

DepartsOn(n, r, u, f, i) == f * Day + Departure(n.routes[r].trips[u], i)
ArrivesOn(n, r, u, f, i) == f * Day + Arrival(n.routes[r].trips[u], i)

----------------------------------------------------------------------------
(* What a label says of the journeys                                       *)

(* Some journey that began at s, with x rides, is at station a at t; one   *)
(* may board there from t on.                                              *)
There(n, q, iv, a, s, t, x) ==
  \E p : Reached(n, q, iv, p) /\ p.at = a /\ p.start = s /\ p.arr = t /\ p.rides = x
Ready(n, q, iv, a, s, t, x) ==
  \E p : Reached(n, q, iv, p) /\ p.at = a /\ p.start = s /\ p.ready = t /\ p.rides = x

(* It may go on with what leaves stop i of route r at dep, as far as it    *)
(* likes.                                                                  *)
MayRide(n, q, iv, r, i, dep, s, x) ==
  \A y \in Rides(n) : y.route = r /\ y.enter = i /\ y.dep = dep /\ InTime(s, y.arr) =>
    Reached(n, q, iv, After(n, s, y, x + 1))

(* It waits for a train of route r at stop i, from t on; it arrives at     *)
(* stop j at t with one it has boarded before.                             *)
OnPlatform(n, q, iv, r, i, s, t, x) ==
  \A dep : dep = GetConnection(Row(n, r, i), t).dep => MayRide(n, q, iv, r, i, dep, s, x)
OnTrain(n, q, iv, r, j, s, t, x) ==
  \E u, f : \E i \in 1..(j - 1) :
    /\ RunsOn(n, r, u, f) /\ t = ArrivesOn(n, r, u, f, j)
    /\ MayRide(n, q, iv, r, i, DepartsOn(n, r, u, f, i), s, x)

(* What may be said of a label, given where it is and how it came there.   *)
Fits(n, q, iv, l) ==
  LET a == l.node.station
      r == l.node.route
      i == l.node.stop
  IN /\ l.node.kind = "station" => Ready(n, q, iv, a, l.start, l.now, l.transfers)
     /\ l.node.kind = "foot" => There(n, q, iv, a, l.start, l.now, l.transfers)
     /\ l.node.kind = "route" /\ l.train = None =>
          /\ OnPlatform(n, q, iv, r, i, l.start, l.now, l.transfers)
          /\ l.pred = NoAddress => l.start = iv.begin /\ l.now = iv.begin /\ l.transfers = 0
     /\ l.node.kind = "route" /\ l.train # None =>
          OnTrain(n, q, iv, r, i, l.start, l.now, l.transfers)

IsHere(l) == There(net, query, interval, l.node.station, l.start, l.now, l.transfers)

----------------------------------------------------------------------------
(* The labels that wait, and the one being expanded                        *)

ResultAt(v, s, t, x) ==
  \E j \in Found : s <= j.start /\ j.now <= t /\ j.transfers <= x + lb.transfers[LbNode(v)]

(* An edge of E will bring a label to the foot node that is as good as l.  *)
Pending(E, l) ==
  \E e \in E : /\ LabelAt(at).node.kind = "route" /\ Creates(at, e)
               /\ e.to = FootNode(l.node.station) /\ AtLeastAsGood(Along(at, e), l)

(* Who is at the station for the price of a transfer has not arrived that  *)
(* late: but the foot node has been served, so that nobody walks from here. *)
Provided(E, l) ==
  LET f == FootNode(l.node.station) IN
  f \in FootNodes(net) => \/ KeptAt(f, l.start, l.now, l.transfers)
                          \/ ResultAt(f, l.start, l.now, l.transfers)
                          \/ Pending(E, l)

SoundIn(E, l) ==
  /\ Fits(net, query, interval, l)
  /\ l.node.kind = "station" => IsHere(l) \/ Provided(E, l)

(* A label l, an edge e of its node and the label m made along it.         *)
Made(l, e, m) ==
  LET cost == EdgeCost(e, l.now, l.train)
      free == e.from.station = query.to /\ e.to = StationNode(query.to)
  IN /\ l = LabelAt(at) /\ GoodLabel(l) /\ l.node # Goal /\ OriginOf(l) /\ e \in ToSet(edges[l.node])
     /\ l.pred # NoAddress => LabelAt(l.pred).node \in Nodes(net) /\ e.to # LabelAt(l.pred).node
     /\ cost.valid /\ m.pred # NoAddress /\ m.node = e.to /\ m.train = cost.train /\ m.start = l.start
     /\ m.now = l.now + (IF free THEN 0 ELSE cost.time)
     /\ m.transfers = l.transfers + (IF cost.transfer THEN 1 ELSE 0)
     /\ GoodLabel(m) /\ ~Filtered(m)

Sensible == TimePasses(net) /\ StandAlone(net) /\ MaxTravelTime < Legs

----------------------------------------------------------------------------
(* What is known of a label, from step to step                             *)

Sound(a) == \A l : l = LabelAt(a) => SoundIn(ToSet(todo), l)
Ended(a) == \A l : l = LabelAt(a) => IsHere(l) /\ l.transfers <= MaxTransfers

(* Every departure of the interval, behind a gap or not.                   *)
DepartureAt(v, t) ==
  \E k \in DOMAIN edges[v] : /\ edges[v][k].type = "ROUTE"
                             /\ GetConnection(edges[v][k].row, t) # None
                             /\ GetConnection(edges[v][k].row, t).dep = t

MayStartIn(b, e) ==
  IF query.kind = "pretrip"
  THEN {s \in [node : StartStops, time : b..e] : DepartureAt(s.node, s.time)}
  ELSE {[node |-> OntripNode, time |-> b]}

(* The edge to the station is the first one of a stop.                     *)
ExitFirst ==
  at # NoAddress /\ LabelAt(at).node.kind = "route" =>
    \/ todo = edges[LabelAt(at).node]
    \/ \A e \in ToSet(todo) : e.to.kind # "station"

JInv ==
  /\ \A a \in Queued : Sound(a)
  /\ \A a : a = at /\ a # NoAddress => Sound(a)
  /\ \A r \in results : Ended(r)
  /\ ToSet(starts) \subseteq MayStartIn(interval.begin, interval.end)
  /\ ExitFirst
  /\ pc \in {"filter", "extend"} => Queued = {} /\ at = NoAddress
=============================================================================
