----------------------------- MODULE CsaSearch ------------------------------
(***************************************************************************)
(* The connection scan of modules/csa: csa_search<FWD> (add_start, search, *)
(* get_results) and csa_reconstruction<FWD> for an on-trip query.  One     *)
(* action per iteration of the scan and per leg of the reconstruction.     *)
(***************************************************************************)
EXTENDS CsaReference

CONSTANTS
  Schedules,     \* the loaded schedules considered
  Queries,       \* [start, sources, dest]: on-trip queries
  MaxTransfers,  \* MAX_TRANSFERS
  MaxTravel      \* MAX_TRAVEL_TIME

Round  == 0..MaxTransfers
NoIdx  == 1000   \* std::numeric_limits<con_idx_t>::max()

ASSUME SearchAssumption == MaxTransfers \in Nat \ {0} /\ MaxTravel \in Nat

ASSUME ScheduleAssumption ==
  \A s \in Schedules : IsSchedule(s) /\ \A t \in DOMAIN s.trips : Len(s.trips[t].dep) < NoIdx

ASSUME QueryAssumption ==
  \A q \in Queries : q.start \in 0..Never - 1 /\ q.sources \subseteq Station /\ q.dest \in Station

VARIABLES
  tt,         \* the csa_timetable built at module initialisation
  query,      \* the query answered
  phase,      \* "start", "scan", "results", "extract" or "done"
  pending,    \* sources not yet added
  arrival,    \* arrival_time_
  reachable,  \* trip_reachable_
  it,         \* next connection of fwd_connections_
  searchDay,  \* search_day
  todo,       \* transfers of labels without journey
  stop,       \* extract_journey: the station legs are sought for,
  transfers,  \*   the rides left,
  edges,      \*   the legs found
  journeys    \* journeys extracted: [transfers, edges]

searchVars  == <<arrival, reachable, it, searchDay>>
extractVars == <<todo, stop, transfers, edges, journeys>>
vars == <<tt, query, phase, pending, searchVars, extractVars>>

Init ==
  /\ tt \in {BuildTimetable(s) : s \in Schedules}
  /\ query \in Queries
  /\ phase = "start"
  /\ pending = query.sources
  /\ arrival = [s \in Station |-> [k \in Round |-> Never]]
  /\ reachable = [t \in DOMAIN tt.trips |-> [k \in Round |-> NoIdx]]
  /\ it = 1 /\ searchDay = 0
  /\ todo = {} /\ stop = query.dest /\ transfers = 0
  /\ edges = <<>> /\ journeys = {}

-----------------------------------------------------------------------------
(* expand_footpaths: the station's own footpath is its transfer time.      *)
Expanded(labels, s, t, k) ==
  [z \in Station |-> [labels[z] EXCEPT ![k] = Min({@, t + tt.foot[s][z]})]]

(* add_start                                                               *)
AddStart(s) ==
  /\ phase = "start" /\ s \in pending
  /\ pending' = pending \ {s}
  /\ arrival' = Expanded([arrival EXCEPT ![s][0] = query.start], s, query.start, 0)
  /\ UNCHANGED <<tt, query, phase, reachable, it, searchDay, extractVars>>

LabelsAt(s) == {k \in Round : arrival[s][k] # Never}

(* search(): nothing to scan after the last event; otherwise start at the  *)
(* first connection that departs no earlier in the day.                    *)
Search ==
  /\ phase = "start" /\ pending = {}
  /\ IF query.start > tt.last
     THEN /\ phase' = "results" /\ todo' = LabelsAt(query.dest)
          /\ UNCHANGED <<it, searchDay>>
     ELSE /\ phase' = "scan"
          /\ it' = 1 + Cardinality({i \in DOMAIN tt.cons :
                                      tt.cons[i].dep < Mam(query.start)})
          /\ searchDay' = DayIdx(query.start)
          /\ UNCHANGED todo
  /\ UNCHANGED <<tt, query, pending, arrival, reachable, stop, transfers, edges, journeys>>

(* Past the last connection the scan goes on with the first of the next    *)
(* day.                                                                    *)
Position_SameDay == IF it > Len(tt.cons) THEN [con |-> 1, day |-> searchDay]
                                         ELSE [con |-> it, day |-> searchDay]

Position == IF it > Len(tt.cons) THEN [con |-> 1, day |-> searchDay + 1]
                                 ELSE [con |-> it, day |-> searchDay]

Con == tt.cons[Position.con]

TimeLimit == Min({query.start + MaxTravel, tt.last})
LimitReached == At(Position.day, Con.dep) > TimeLimit

(* The body of the inner loop for one number of transfers.                 *)
Relax_BoardAnywhere(l, k) ==
  LET dep == At(Position.day, Con.dep)
      arr == At(Position.day, Con.arr)
      viaTrip    == l.reachable[Con.trip][k] <= Con.idx
      viaStation == l.arrival[Con.from][k] <= dep
  IN IF ~viaTrip /\ ~viaStation THEN l
     ELSE [reachable |-> IF viaTrip THEN l.reachable
                         ELSE [l.reachable EXCEPT ![Con.trip][k] = Con.idx],
           arrival   |-> IF arr < l.arrival[Con.to][k+1] /\ Con.out
                         THEN Expanded(l.arrival, Con.to, arr, k + 1)
                         ELSE l.arrival]

Relax(l, k) ==
  LET dep == At(Position.day, Con.dep)
      arr == At(Position.day, Con.arr)
      viaTrip    == l.reachable[Con.trip][k] <= Con.idx
      viaStation == l.arrival[Con.from][k] <= dep /\ Con.in
  IN IF ~viaTrip /\ ~viaStation THEN l
     ELSE [reachable |-> IF viaTrip THEN l.reachable
                         ELSE [l.reachable EXCEPT ![Con.trip][k] = Con.idx],
           arrival   |-> IF arr < l.arrival[Con.to][k+1] /\ Con.out
                         THEN Expanded(l.arrival, Con.to, arr, k + 1)
                         ELSE l.arrival]

(* ... and for all of them, from the fewest on.                            *)
Relaxed ==
  LET after[k \in Round] == IF k = 0 THEN [arrival |-> arrival, reachable |-> reachable]
                            ELSE Relax(after[k - 1], k - 1)
  IN after[MaxTransfers]

(* One iteration of the scan.                                              *)
Scan ==
  /\ phase = "scan" /\ ~LimitReached
  /\ it' = Position.con + 1
  /\ searchDay' = Position.day
  /\ IF Position.day \in Con.days
     THEN arrival' = Relaxed.arrival /\ reachable' = Relaxed.reachable
     ELSE UNCHANGED <<arrival, reachable>>
  /\ UNCHANGED <<tt, query, phase, pending, extractVars>>

EndScan ==
  /\ phase = "scan" /\ LimitReached
  /\ phase' = "results" /\ todo' = LabelsAt(query.dest)
  /\ UNCHANGED <<tt, query, pending, searchVars, stop, transfers, edges, journeys>>

-----------------------------------------------------------------------------
(* get_results: one journey per label of the destination.                  *)
GetResult ==
  /\ phase = "results" /\ todo # {}
  /\ phase' = "extract"
  /\ todo' = todo \ {Min(todo)}
  /\ transfers' = Min(todo)
  /\ stop' = query.dest /\ edges' = <<>>
  /\ UNCHANGED <<tt, query, pending, searchVars, journeys>>

EndResults ==
  /\ phase = "results" /\ todo = {}
  /\ phase' = "done"
  /\ UNCHANGED <<tt, query, pending, searchVars, extractVars>>

(* get_exit_candidates: connections into s that arrive at t, on a day they *)
(* run, on a trip reachable with k - 1 transfers.                          *)
ExitCandidates_ArrivalDay(s, t, k) ==
  {i \in DOMAIN tt.cons :
     LET c == tt.cons[i] IN
     /\ c.to = s /\ c.out
     /\ Mam(c.arr) = Mam(t)
     /\ DayIdx(t) \in c.days
     /\ reachable[c.trip][k-1] <= c.idx}

ExitCandidates(s, t, k) ==
  {i \in DOMAIN tt.cons :
     LET c == tt.cons[i] IN
     /\ c.to = s /\ c.out
     /\ Mam(c.arr) = Mam(t)
     /\ DayIdx(t) - DayIdx(c.arr) \in c.days
     /\ reachable[c.trip][k-1] <= c.idx}

(* The departure of section e of the train that x, arriving at t, ends.    *)
EnterDep_SameDay(x, e, t) ==
  At(DayIdx(t) - DayIdx(x.arr), SectionConnection(tt.trips, x.trip, e).dep)

EnterDep(x, e, t) ==
  LET c == SectionConnection(tt.trips, x.trip, e) IN
  At(DayIdx(t) - DayIdx(x.arr) - (x.offset - c.offset), c.dep)

(* get_journey_pointer: a footpath into s, a connection that arrives at    *)
(* its begin in time, and a section where its train could be boarded.      *)
Pointers(s, k, t, onlyOwn) ==
  LET at(p) == t - tt.foot[p.from][s]
      x(p)  == tt.cons[p.exit]
      exits(f) == ExitCandidates(f, t - tt.foot[f][s], k)
      ways  == UNION {UNION {{[from |-> f, exit |-> i, enter |-> e] : e \in 1..tt.cons[i].idx}
                               : i \in exits(f)}
                        : f \in {g \in Station : tt.foot[g][s] # Never /\ (onlyOwn => g = s)}}
  IN {p \in ways :
        LET c == SectionConnection(tt.trips, x(p).trip, p.enter) IN
        /\ arrival[c.from][k-1] <= EnterDep(x(p), p.enter, at(p))
        /\ c.in}

(* Footpaths are tried own first, then connections in scan order, then     *)
(* sections in trip order.                                                 *)
TriedBefore(s, p, q) ==
  LET rank(r) == IF r.from = s THEN 0 ELSE r.from IN
  \/ rank(p) < rank(q)
  \/ rank(p) = rank(q) /\ p.exit < q.exit
  \/ rank(p) = rank(q) /\ p.exit = q.exit /\ p.enter <= q.enter

FirstPointer(s, P) == CHOOSE p \in P : \A q \in P : TriedBefore(s, p, q)

(* look_for_conn_arrival_within_transfer_time                              *)
DirectTimes(s, k) ==
  {d \in 0..tt.transfer[s] : Pointers(s, k, arrival[s][k] + d, TRUE) # {}}

WalkEdge(from, to, dep, arr) ==
  [trip |-> 0, enter |-> 0, exit |-> 0, from |-> from, to |-> to, dep |-> dep, arr |-> arr]

(* The ride from section p.enter to connection p.exit; its arrival is      *)
(* computed from the day of the departure.                                 *)
RideEdge(p, t) ==
  LET x   == tt.cons[p.exit]
      c   == SectionConnection(tt.trips, x.trip, p.enter)
      dep == EnterDep(x, p.enter, t)
  IN [trip |-> x.trip, enter |-> p.enter, exit |-> x.idx, from |-> c.from, to |-> x.to,
      dep |-> dep, arr |-> At(DayIdx(dep) + x.offset - c.offset + DayIdx(x.arr), Mam(x.arr))]

(* The pointer extract_journey uses: at the end of the journey an arrival  *)
(* by train at the station itself is preferred to a walk.                  *)
Choice_NoDirect ==
  [at |-> arrival[stop][transfers],
   p |-> FirstPointer(stop, Pointers(stop, transfers, arrival[stop][transfers], FALSE))]

Choice ==
  LET label  == arrival[stop][transfers]
      p      == FirstPointer(stop, Pointers(stop, transfers, label, FALSE))
      direct == DirectTimes(stop, transfers)
      later  == label + Min(direct)
  IN IF edges = <<>> /\ p.from # stop /\ direct # {}
     THEN [at |-> later, p |-> FirstPointer(stop, Pointers(stop, transfers, later, TRUE))]
     ELSE [at |-> label, p |-> p]

HasPointer ==
  transfers > 0 /\ Pointers(stop, transfers, arrival[stop][transfers], FALSE) # {}

(* One iteration of extract_journey that finds a leg.                      *)
Leg ==
  /\ phase = "extract" /\ HasPointer
  /\ LET walk   == tt.foot[Choice.p.from][stop]
         exitAt == Choice.at - walk
         ride   == RideEdge(Choice.p, exitAt)
     IN /\ edges' = <<ride>> \o
                    (IF Choice.p.from = stop THEN <<>>
                     ELSE <<WalkEdge(Choice.p.from, stop, exitAt, Choice.at)>>) \o edges
        /\ stop' = ride.from
  /\ transfers' = transfers - 1
  /\ UNCHANGED <<tt, query, phase, pending, searchVars, todo, journeys>>

(* add_final_footpath: a walk from a start that arrives with the label.    *)
FinalWalks ==
  {f \in query.sources \ {stop} :
     /\ tt.foot[f][stop] # Never
     /\ arrival[stop][transfers] - tt.foot[f][stop] >= query.start}

WithFinalWalk ==
  IF stop \in query.sources \/ FinalWalks = {} THEN edges
  ELSE LET f == Min(FinalWalks) IN
       <<WalkEdge(f, stop, arrival[stop][transfers] - tt.foot[f][stop],
                  arrival[stop][transfers])>> \o edges

(* j.transfers_, the label the journey started from.                       *)
Label == transfers + Cardinality({i \in DOMAIN edges : edges[i].trip # 0})

(* The end of extract_journey: no ride left, or none found.                *)
EndJourney ==
  /\ phase = "extract" /\ ~HasPointer
  /\ phase' = "results"
  /\ edges' = <<>> /\ stop' = query.dest /\ transfers' = 0
  /\ journeys' = journeys \cup {[transfers |-> Label, edges |-> WithFinalWalk]}
  /\ UNCHANGED <<tt, query, pending, searchVars, todo>>

Next ==
  \/ \E s \in Station : AddStart(s)
  \/ Search
  \/ Scan
  \/ EndScan
  \/ GetResult
  \/ Leg
  \/ EndJourney
  \/ EndResults

Spec == Init /\ [][Next]_vars

-----------------------------------------------------------------------------
(* A connection the scan reaches and regards as reachable by staying on    *)
(* the train belongs to a train that could really be boarded earlier: the  *)
(* same day's instance of the trip was caught.  trip_reachable_ only       *)
(* remembers the trip, "connection index from which the trip can be used". *)
TrainCaught ==
  phase = "scan" /\ ~LimitReached /\ Position.day \in Con.days =>
    \A k \in 0..MaxTransfers - 1 :
      reachable[Con.trip][k] <= Con.idx =>
        \E e \in 1..Con.idx :
          LET c == SectionConnection(tt.trips, Con.trip, e) IN
          /\ c.in
          /\ arrival[c.from][k] <= At(Position.day - (Con.offset - c.offset), c.dep)

(* When the scan has ended every label is the best there is: one pass over *)
(* the connections, circular over midnight and pruned by the labels        *)
(* themselves, misses no train and invents none.                           *)
LabelsBest ==
  phase = "results" =>
    arrival = [s \in Station |-> [k \in Round |->
      Best(tt, query.sources, query.start, TimeLimit, MaxTransfers)[k][s]]]

(* One pass suffices: no label is lowered to a time at which a connection  *)
(* passed over before could already have been boarded.                     *)
SettledLabelsStay ==
  [][phase = "scan" /\ it > 1 =>
       \A s \in Station, k \in Round :
         arrival'[s][k] # arrival[s][k] =>
           arrival'[s][k] > At(searchDay, tt.cons[it - 1].dep)]_vars

Ride(e) == [trip |-> e.trip, enter |-> e.enter, exit |-> e.exit,
            day |-> DayIdx(e.dep - tt.trips[e.trip].dep[e.enter])]

IsRide(e) ==
  /\ Ride(e) \in RidesOf(tt, e.trip)
  /\ e.from = RideFrom(tt, Ride(e)) /\ e.dep = RideDep(tt, Ride(e))
  /\ e.to = RideTo(tt, Ride(e))     /\ e.arr = RideArr(tt, Ride(e))

IsWalk(e) == e.arr - e.dep = tt.foot[e.from][e.to]

(* An extracted journey can be travelled: it begins at a source no earlier *)
(* than asked, each ride is a train that runs, each change leaves the      *)
(* transfer time or the walk, and it has the rides its label counts.       *)
JourneysFeasible ==
  \A j \in journeys : j.edges # <<>> =>
    LET es == j.edges IN
    /\ es[1].from \in query.sources /\ es[1].dep >= query.start
    /\ es[Len(es)].to = query.dest
    /\ \A i \in DOMAIN es : IF es[i].trip = 0 THEN IsWalk(es[i]) ELSE IsRide(es[i])
    /\ \A i \in 1..Len(es) - 1 :
         /\ es[i].to = es[i+1].from
         /\ es[i+1].dep >= es[i].arr
              + (IF es[i].trip # 0 /\ es[i+1].trip # 0 THEN tt.transfer[es[i].to] ELSE 0)
    /\ Cardinality({i \in DOMAIN es : es[i].trip # 0}) = j.transfers

(* ... and ends no later than any journey with that many rides inside the  *)
(* time limit: although a label contains the transfer time of the          *)
(* destination, a train that arrives there before a walk does is found.    *)
(* (It may end earlier: extract_journey also follows a train beyond the    *)
(* limit of the scan.)                                                     *)
JourneysEarliest ==
  \A j \in journeys : j.edges # <<>> =>
    j.edges[Len(j.edges)].arr <=
      EarliestEnd(tt, Best(tt, query.sources, query.start, TimeLimit, MaxTransfers),
                  TimeLimit, query.dest, j.transfers)

(* Every label of the destination is explained by a journey, also when     *)
(* legs were found with labels that improved after the leg was scanned.    *)
EveryLabelExplained ==
  phase = "done" =>
    \A k \in LabelsAt(query.dest) :
      \E j \in journeys :
        j.transfers = k /\ (j.edges = <<>> => k = 0 /\ query.dest \in query.sources)
=============================================================================
