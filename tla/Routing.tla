------------------------------ MODULE Routing -------------------------------
(***************************************************************************)
(* The forward search of the routing module: search.h with its growing     *)
(* interval, pareto_dijkstra with the default label, and the allocator the *)
(* labels live in.  A label is known by its address; a released address is *)
(* used again, last released first, whatever still points there.           *)
(*                                                                         *)
(* The vectors of labels at a node and of results are sets here: their     *)
(* order only decides which dominated entries are found before one that    *)
(* dominates ends the loop, so any of them may be.  The absurdity          *)
(* criterion is left out: it counts from the fourth foot edge in a row on, *)
(* and without additional edges there are never more than two.             *)
(***************************************************************************)
EXTENDS RoutingReference, Functions

CONSTANTS
  Scenarios,      \* [net, query]: a network and a query for it
  ScheduleBegin,  \* schedule_begin, schedule_end in search.h
  ScheduleEnd,
  Extension,      \* minutes the interval grows on a side
  FirstBuffer     \* labels that fit into the first buffer of the allocator

ASSUME RoutingAssumption ==
  /\ ScheduleBegin \in Nat /\ ScheduleEnd \in Nat /\ ScheduleBegin <= ScheduleEnd
  /\ Extension \in Nat \ {0} /\ FirstBuffer \in Nat \ {0}

(* The loader's part and the caller's; LabelsAlive does not rest on it.    *)
ASSUME ScenariosAssumption ==
  \A s \in Scenarios :
    /\ IsNetwork(s.net) /\ DifferentMinutes(s.net) /\ NoOvertaking(s.net)
    /\ IsQuery(s.net, s.query)
    /\ s.query.begin \in ScheduleBegin..ScheduleEnd /\ s.query.end \in ScheduleBegin..ScheduleEnd
    /\ s.query.begin <= s.query.end

VARIABLES
  net, query,   \* the timetable and the search_query
  edges, lb,    \* the edges of every node; lower_bounds
  upwards,      \* does a new buffer of the allocator lie behind the others?
  interval,     \* interval_begin, interval_end
  pc,           \* "start", "search", "filter", "extend" or "done"
  starts,       \* start labels still to add
  mem,          \* [label, free]: the labels by address, the free list
  kept,         \* node_labels_: the labels kept at their nodes
  queue,        \* queue_, the labels in the order of their pushes
  equals,       \* equals_
  at, todo,     \* the label being expanded, its edges still to relax
  results,      \* results_
  dropped       \* history: the results filter_results has erased

problem == <<net, query, edges, lb, upwards>>
work    == <<queue, equals, at, todo>>
vars    == <<problem, interval, pc, starts, mem, kept, work, results, dropped>>

NoAddress == 0
Interval(b, e) == [begin |-> b, end |-> e]

----------------------------------------------------------------------------
(* Labels                                                                  *)

Label(pred, node, train, start, now, transfers) ==
  [pred |-> pred, node |-> node, train |-> train, start |-> start, now |-> now,
   transfers |-> transfers, dominated |-> FALSE]

TravelTime(l) == l.now - l.start
TravelTimeLb(l) == TravelTime(l) + lb.travel[l.node.station]

LbNode(v) == IF v.kind = "route" THEN net.stations + v.route ELSE v.station
TransfersLb(l) == l.transfers + lb.transfers[LbNode(l.node)]

Filtered(l) == TravelTimeLb(l) > MaxTravelTime \/ TransfersLb(l) > MaxTransfers

Comparable(a, b) == b.start <= a.start /\ a.now <= b.now

Dominates_Incomparable(a, b) ==
  TravelTimeLb(a) <= TravelTimeLb(b) /\ TransfersLb(a) <= TransfersLb(b)

Dominates(a, b) ==
  /\ Comparable(a, b)
  /\ TravelTimeLb(a) <= TravelTimeLb(b)
  /\ TransfersLb(a) <= TransfersLb(b)

(* travel_time_alpha_dominance, multiplied out: the further apart two      *)
(* journeys are, the quicker a has to be.                                  *)
Distant(a, b) == LET d(x) == IF x < 0 THEN -x ELSE x
                 IN Min({d(a.start - b.start), d(a.now - b.now)})

DominatesPostSearch_ByTimeOnly(a, b) ==
  LET ta == TravelTime(a)
      tb == TravelTime(b)
  IN IF tb = 0 THEN ta = 0 \/ Distant(a, b) = 0
     ELSE 2 * ta * tb + ta * Distant(a, b) <= 2 * tb * tb

DominatesPostSearch(a, b) ==
  /\ TransfersLb(a) <= TransfersLb(b)
  /\ LET ta == TravelTime(a)
         tb == TravelTime(b)
     IN IF tb = 0 THEN ta = 0 \/ Distant(a, b) = 0
        ELSE 2 * ta * tb + ta * Distant(a, b) <= 2 * tb * tb

(* create_label, for the label l and an edge e of its node.                *)
CostAlong(l, e) == EdgeCost(e, l.now, l.train)

Along(a, e) ==
  LET l    == mem.label[a]
      cost == CostAlong(l, e)
      free == e.from.station = query.to /\ e.to = StationNode(query.to)
  IN Label(a, e.to, cost.train, l.start,
           l.now + (IF free THEN 0 ELSE cost.time),
           l.transfers + (IF cost.transfer THEN 1 ELSE 0))

Creates(a, e) ==
  LET l == mem.label[a]
  IN /\ l.pred # NoAddress => e.to # mem.label[l.pred].node
     /\ CostAlong(l, e).valid
     /\ ~Filtered(Along(a, e))

----------------------------------------------------------------------------
(* mem_manager and allocator: buffers of FirstBuffer, twice that, ...      *)

NextAddress(m) == IF m.free # <<>> THEN Head(m.free) ELSE Len(m.label) + 1

Create(m, l) ==
  IF m.free # <<>>
  THEN [label |-> [m.label EXCEPT ![Head(m.free)] = l], free |-> Tail(m.free)]
  ELSE [label |-> Append(m.label, l), free |-> <<>>]

Release(m, released) == [m EXCEPT !.free = released \o @]

Buffer(a) == CHOOSE k \in 0..a : FirstBuffer * (2^k - 1) < a /\ a <= FirstBuffer * (2^(k+1) - 1)

(* Pointers into one buffer compare by place, others by where the buffers  *)
(* happen to lie.                                                          *)
Below(a, b) == IF Buffer(a) = Buffer(b) \/ upwards THEN a < b ELSE b < a

----------------------------------------------------------------------------
(* Start labels                                                            *)

(* pretrip_gen: the departures of a route edge at a stop of the start where *)
(* boarding is allowed, up to the first minute from which get_connection    *)
(* gives up: what leaves after such a gap is not looked for.                *)
DeparturesIn(v, b, e) ==
  LET rows == {edges[v][k].row : k \in {j \in DOMAIN edges[v] : edges[v][j].type = "ROUTE"}}
  IN {t \in b..e : \E row \in rows :
        /\ \A u \in b..t : GetConnection(row, u) # None
        /\ GetConnection(row, t).dep = t}

StartsAt(v, b, e) ==
  LET ts == Ascending(DeparturesIn(v, b, e), LAMBDA t, u : t < u)
  IN [k \in DOMAIN ts |-> [node |-> v, time |-> ts[k]]]

PretripStarts(b, e) ==
  LET out == edges[StationNode(query.from)]
  IN FlattenSeq([k \in DOMAIN out |->
                   IF out[k].type = "FOOT" /\ out[k].to.kind = "route"
                   THEN StartsAt(out[k].to, b, e) ELSE <<>>])

OntripNode ==
  IF query.kind = "train" THEN RouteNode(net, query.route, query.stop) ELSE StationNode(query.from)

Generate(b, e) ==
  IF query.kind = "pretrip" THEN PretripStarts(b, e)
  ELSE <<[node |-> OntripNode, time |-> b]>>

Init ==
  /\ \E s \in Scenarios : net = s.net /\ query = s.query
  /\ edges = Edges(net)
  /\ lb = [travel |-> StationGraphBounds(net, query.to),
           transfers |-> InterchangeGraphBounds(net, query.to)]
  /\ upwards \in BOOLEAN
  /\ interval = Interval(query.begin, query.end)
  /\ pc = "start" /\ starts = Generate(query.begin, query.end)
  /\ mem = [label |-> <<>>, free |-> <<>>]
  /\ kept = {}
  /\ queue = <<>> /\ equals = <<>> /\ at = NoAddress /\ todo = <<>>
  /\ results = {} /\ dropped = {}

(* A pretrip start stands behind a label for the station; whatever is on   *)
(* the way is not compared with what the node has.                         *)
AddStart ==
  /\ pc = "start" /\ starts # <<>>
  /\ starts' = Tail(starts)
  /\ LET s     == Head(starts)
         fromStation == query.kind = "pretrip"
         first == Label(NoAddress, IF fromStation THEN StationNode(query.from) ELSE s.node,
                        None, s.time, s.time, 0)
         m     == IF fromStation THEN Create(mem, first) ELSE mem
         l     == IF fromStation THEN [first EXCEPT !.pred = NextAddress(mem), !.node = s.node]
                  ELSE first
         a     == NextAddress(m)
     IN /\ mem' = Create(m, l)
        /\ IF Filtered(l) THEN UNCHANGED <<queue, kept>>
           ELSE /\ queue' = Append(queue, a)
                /\ kept' = kept \cup {a}
  /\ UNCHANGED <<problem, interval, pc, equals, at, todo, results, dropped>>

StartsAdded ==
  /\ pc = "start" /\ starts = <<>>
  /\ pc' = "search"
  /\ UNCHANGED <<problem, interval, starts, mem, kept, work, results, dropped>>

----------------------------------------------------------------------------
(* pareto_dijkstra::search                                                 *)

(* dial: the label pushed last among those of the lowest bucket.           *)
IsTop(k) ==
  LET bucket(j) == TravelTimeLb(mem.label[queue[j]])
  IN \A j \in DOMAIN queue : bucket(k) < bucket(j) \/ (bucket(k) = bucket(j) /\ j <= k)

Taken(a) ==
  \/ /\ equals # <<>> /\ a = Last(equals)
     /\ equals' = Front(equals) /\ queue' = queue
  \/ /\ equals = <<>>
     /\ \E k \in DOMAIN queue :
          a = queue[k] /\ IsTop(k) /\ queue' = RemoveAt(queue, k) /\ equals' = equals

DominatedByResults(l) == \E r \in results : Dominates(mem.label[r], l)

Pop ==
  /\ pc = "search" /\ todo = <<>>
  /\ \E a \in ToSet(queue) \cup ToSet(equals) :
       LET l    == mem.label[a]
           dead == DominatedByResults(l) \/ l.node = StationNode(query.to)
       IN /\ Taken(a)
          /\ IF l.dominated
             THEN mem' = Release(mem, <<a>>) /\ UNCHANGED <<at, todo>>
             ELSE /\ mem' = mem
                  /\ IF dead THEN UNCHANGED <<at, todo>>
                     ELSE at' = a /\ todo' = edges[l.node]
  /\ UNCHANGED <<problem, interval, pc, starts, kept, results, dropped>>

(* create_new_label, for the next edge of the label being expanded.        *)
Relaxing ==
  /\ pc = "search" /\ todo # <<>>
  /\ todo' = Tail(todo)
  /\ UNCHANGED <<problem, interval, pc, starts, at, dropped>>

NewLabel   == Along(at, Head(todo))
NewAddress == NextAddress(mem)
AtGoal     == Head(todo).to = StationNode(query.to)

NoLabel ==
  /\ Relaxing
  /\ ~Creates(at, Head(todo))
  /\ UNCHANGED <<mem, kept, queue, equals, results>>

(* What the loops of add_result and add_label_to_node remove: all that is  *)
(* dominated, or, when the new label is dominated itself, what they met    *)
(* before they noticed.                                                    *)
Dominated(S) == {a \in S : Dominates(NewLabel, mem.label[a])}

AddResult ==
  /\ Relaxing
  /\ Creates(at, Head(todo)) /\ AtGoal
  /\ LET stops == {r \in results \ Dominated(results) : Dominates(mem.label[r], NewLabel)}
     IN \E gone \in IF stops = {} THEN {Dominated(results)} ELSE SUBSET Dominated(results) :
          /\ \E order \in SetToSeqs(gone) : mem' = Release(Create(mem, NewLabel), order)
          /\ results' = (results \ gone) \cup (IF stops = {} THEN {NewAddress} ELSE {})
  /\ UNCHANGED <<kept, queue, equals>>

Mark_AndRelease(m, S) ==
  [label |-> [a \in DOMAIN m.label |->
                IF a \in S THEN [m.label[a] EXCEPT !.dominated = TRUE] ELSE m.label[a]],
   free  |-> SetToSeq(S) \o m.free]

Mark(m, S) ==
  [m EXCEPT !.label = [a \in DOMAIN m.label |->
                         IF a \in S THEN [m.label[a] EXCEPT !.dominated = TRUE] ELSE m.label[a]]]

AddLabelToNode ==
  /\ Relaxing
  /\ Creates(at, Head(todo)) /\ ~AtGoal
  /\ ~DominatedByResults(NewLabel)
  /\ LET here  == {a \in kept : mem.label[a].node = NewLabel.node}
         stops == {a \in here : Dominates(mem.label[a], NewLabel)}
         made  == Create(mem, NewLabel)
     IN \E gone \in IF stops = {} THEN {Dominated(here)} ELSE SUBSET (Dominated(here) \ stops) :
          IF stops # {}
          THEN /\ kept' = kept \ gone
               /\ mem' = Release(Mark(made, gone), <<NewAddress>>)
               /\ UNCHANGED <<queue, equals>>
          ELSE /\ kept' = (kept \ gone) \cup {NewAddress}
               /\ mem' = Mark(made, gone)
               /\ IF Below(at, NewAddress)
                  THEN queue' = Append(queue, NewAddress) /\ equals' = equals
                  ELSE equals' = Append(equals, NewAddress) /\ queue' = queue
  /\ UNCHANGED results

Useless ==
  /\ Relaxing
  /\ Creates(at, Head(todo)) /\ ~AtGoal
  /\ DominatedByResults(NewLabel)
  /\ mem' = Release(Create(mem, NewLabel), <<NewAddress>>)
  /\ UNCHANGED <<kept, queue, equals, results>>

Exhausted == queue = <<>> /\ equals = <<>> /\ todo = <<>>

SearchEnds ==
  /\ pc = "search" /\ Exhausted
  /\ pc' = "filter" /\ at' = NoAddress
  /\ UNCHANGED <<problem, interval, starts, mem, kept, queue, equals, todo, results, dropped>>

(* filter_results: a result that another one makes dispensable is erased,  *)
(* then the loop starts again.                                             *)
Erase ==
  /\ pc = "filter"
  /\ \E a, b \in results :
       /\ a # b /\ DominatesPostSearch(mem.label[a], mem.label[b])
       /\ results' = results \ {b}
       /\ dropped' = dropped \cup {mem.label[b]}
  /\ UNCHANGED <<problem, interval, pc, starts, mem, kept, work>>

FilterEnds ==
  /\ pc = "filter"
  /\ \A a, b \in results : a = b \/ ~DominatesPostSearch(mem.label[a], mem.label[b])
  /\ pc' = "extend"
  /\ UNCHANGED <<problem, interval, starts, mem, kept, work, results, dropped>>

----------------------------------------------------------------------------
(* search::get_connections, the loop                                       *)

MapToInterval(t) == Min({ScheduleEnd, Max({ScheduleBegin, t})})

MaxIntervalReached ==
  /\ ~query.earlier \/ interval.begin = ScheduleBegin
  /\ ~query.later \/ interval.end = ScheduleEnd

Widened_Not == interval

Widened ==
  Interval(IF query.earlier THEN MapToInterval(interval.begin - Extension) ELSE interval.begin,
           IF query.later THEN MapToInterval(interval.end + Extension) ELSE interval.end)

NewStarts ==
  (IF interval.begin # ScheduleBegin
   THEN Generate(Widened.begin, MapToInterval(interval.begin - 1)) ELSE <<>>)
    \o (IF interval.end # ScheduleEnd
        THEN Generate(MapToInterval(interval.end + 1), Widened.end) ELSE <<>>)

Enough == Cardinality(results) >= query.min

Extend ==
  /\ pc = "extend" /\ ~Enough
  /\ interval' = Widened
  /\ starts' = NewStarts
  /\ pc' = IF MaxIntervalReached THEN "done" ELSE "start"
  /\ UNCHANGED <<problem, mem, kept, work, results, dropped>>

Finish ==
  /\ pc = "extend" /\ Enough
  /\ pc' = "done"
  /\ UNCHANGED <<problem, interval, starts, mem, kept, work, results, dropped>>

Done == pc = "done" /\ UNCHANGED vars

Step ==
  \/ AddStart \/ StartsAdded
  \/ Pop \/ NoLabel \/ AddResult \/ AddLabelToNode \/ Useless
  \/ SearchEnds \/ Erase \/ FilterEnds
  \/ Extend \/ Finish

Next == Step \/ Done

Spec == Init /\ [][Next]_vars /\ WF_vars(Step)
----------------------------------------------------------------------------
(* Properties                                                              *)

Address  == 1..Len(mem.label)
Free     == ToSet(mem.free)
Waiting  == queue \o equals
LabelAt(a) == mem.label[a]

(* Memory is used again only when nobody looks at it any more: what waits, *)
(* is being expanded, is kept at a node or is a result has not been        *)
(* released, nor has the predecessor of any label that is still there,     *)
(* which the journeys are read off; and nothing waits or is free twice.    *)
NoDanglingLabel ==
  /\ (ToSet(Waiting) \cup results \cup kept \cup {at}) \cap Free = {}
  /\ \A a \in Address \ Free : LabelAt(a).pred \notin Free
  /\ IsInjective(Waiting) /\ IsInjective(mem.free)

AsJourney(l) == [start |-> l.start, now |-> l.now, transfers |-> l.transfers]
Found == {AsJourney(LabelAt(r)) : r \in results}
SearchOver == pc = "search" /\ Exhausted

(* Whatever the search pruned, and whatever was in the memory of a label   *)
(* before: a result is a journey somebody can make on concrete trains.     *)
ResultsAreJourneys == SearchOver => Found \subseteq Journeys(net, query, interval)

AtLeastAsGood(a, b) ==
  b.start <= a.start /\ a.now <= b.now /\ a.transfers <= b.transfers

(* Pruning by lower bounds, by the labels of a node and by results, in     *)
(* this round and in those before, loses nothing: every journey that       *)
(* begins in the interval has a result that starts no earlier, arrives no  *)
(* later and has no more transfers, unless filter_results erased it.  A    *)
(* journey does not come back, by train, to the stop where start labels of *)
(* the query stand: such a label dominates it, and may not leave there.    *)
(* Behind a gap of more than MaxTravelTime nothing is promised.            *)
SearchComplete ==
  SearchOver => \A j \in OnwardJourneys(net, query, interval) :
                  NoGap(net, query, interval, j.start) =>
                    \E r \in Found \cup {AsJourney(d) : d \in dropped} : AtLeastAsGood(r, j)

(* The answer has, for every journey that begins in its interval, one that *)
(* takes no longer and needs no more transfers: although filter_results    *)
(* compares in an order nobody chose, with a relation that is not          *)
(* transitive, and again after every extension of the interval.            *)
AnswerAsQuick ==
  pc = "done" => \A j \in OnwardJourneys(net, query, interval) :
                   NoGap(net, query, interval, j.start) =>
                     \E r \in Found : r.now - r.start <= j.now - j.start /\ r.transfers <= j.transfers

(* Every query is answered.                                                *)
Terminates == <>(pc = "done")
=============================================================================
