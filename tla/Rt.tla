--------------------------------- MODULE Rt ---------------------------------
(***************************************************************************)
(* Realtime updates (modules/rt): reports about events of trips become     *)
(* delay infos, delays travel along each trip, and at a flush the times of *)
(* the light connections follow.  A trip that no longer fits between its   *)
(* neighbours on the route is separated to a route of its own, and one     *)
(* whose reports contradict each other is repaired.                        *)
(*                                                                         *)
(* The trips are those of one traffic day; a time is a minute of it, and 0 *)
(* means "none", as in delay_info.  The events of a trip are its           *)
(* departures and arrivals in order, so odd events are departures.  Update *)
(* and flush are WRITE operations: nothing interleaves with them, but the  *)
(* order in which a flush visits the delay infos is that of a hash set.    *)
(***************************************************************************)
EXTENDS Integers, Sequences, FiniteSets, FiniteSetsExt

CONSTANTS
  NTrips,       \* trips, numbered in the order of their rows on the route
  NSections,    \* sections of a trip
  Timetable,    \* [Trip -> [Event -> minute]]
  Reports,      \* what is reported: <<trip, event, reason, minute>>
  Cancelled,    \* trips of which sections are cancelled
  MaxReports    \* bound: reports in a behaviour

Trip    == 1..NTrips
Event   == 1..2 * NSections
Section == 1..NSections
Key     == Trip \X Event
IsDeparture(e) == e % 2 = 1

ASSUME RtAssumption ==
  /\ NTrips \in Nat /\ NSections \in Nat \ {0} /\ MaxReports \in Nat
  /\ Timetable \in [Trip -> [Event -> Nat \ {0}]]
  /\ \A t \in Trip : \A e, f \in Event : e < f => Timetable[t][e] <= Timetable[t][f]
  /\ \A s, t \in Trip : s < t => \A e \in Event : Timetable[s][e] < Timetable[t][e]
  /\ Reports \subseteq Trip \X Event \X {"is", "forecast"} \X (Nat \ {0})
  /\ Cancelled \subseteq Trip

VARIABLES
  graph,    \* routes: sequences of rows [trip, time of each event, sections
            \*   whose light connection is valid_]
  loc,      \* trip::edges_ and lcon_idx_: the route and row of each trip
  info,     \* schedule::graph_to_delay_info_ for the keys of loc
  pq,       \* delay_propagator::pq_
  events,   \* delay_propagator::events_
  phase,    \* what the handler does
  todo,     \* delay infos the loop of rt_handler::propagate has not visited
  wrong,    \* trips_to_correct
  reports,  \* reports received, for the bound
  corrections,  \* history: how often a trip_corrector has seen a trip
  contradicted  \* history: trips it saw with contradictory measured times

vars == <<graph, loc, info, pq, events, phase, todo, wrong, reports, corrections,
          contradicted>>

-----------------------------------------------------------------------------
(* delay_info: the current time is the repaired, else the measured one,     *)
(* else the latest of schedule, forecast and propagation.                   *)
None == [sched |-> 0, is |-> 0, forecast |-> 0, propagation |-> 0, repair |-> 0]
NewInfo(minute) == [None EXCEPT !.sched = minute]

Original_LatestOfAll(d) == Max({d.sched, d.forecast, d.propagation, d.is})

Original(d) == IF d.is # 0 THEN d.is ELSE Max({d.sched, d.forecast, d.propagation})
Current(d)  == IF d.repair # 0 THEN d.repair ELSE Original(d)

(* delay_info::set                                                          *)
Set(d, reason, minute) ==
  IF reason = "repair" THEN [d EXCEPT !.repair = minute]
  ELSE [d EXCEPT ![reason] = minute, !.repair = 0]

Row(g, at)     == g[at.route][at.row]
TimeOf(t, e)   == Row(graph, loc[t]).time[e]

(* get_delay_info: the stored one, or one made for the time in the graph;   *)
(* get_or_create_di stores it.                                              *)
Stored(k) == info[k[1]][k[2]]

Info(k)   == IF Stored(k) = None THEN NewInfo(TimeOf(k[1], k[2])) ELSE Stored(k)

GetOrCreate(keys) ==
  [t \in Trip |-> [e \in Event |->
     IF <<t, e>> \in keys THEN Info(<<t, e>>) ELSE info[t][e]]]

Init ==
  /\ graph = <<[t \in Trip |->
                 [trip |-> t, time |-> Timetable[t], valid |-> Section]]>>
  /\ loc = [t \in Trip |-> [route |-> 1, row |-> t]]
  /\ info = [t \in Trip |-> [e \in Event |-> None]]
  /\ pq = {} /\ events = {} /\ todo = {} /\ wrong = {}
  /\ phase = "update" /\ reports = 0
  /\ corrections = [t \in Trip |-> 0] /\ contradicted = {}

-----------------------------------------------------------------------------
(* The next event of the trip: the departure after an arrival, the arrival  *)
(* of a departure; and the one before.                                      *)
After(k)  == IF k[2] < 2 * NSections THEN {<<k[1], k[2] + 1>>} ELSE {}
Before(k) == IF k[2] > 1 THEN {<<k[1], k[2] - 1>>} ELSE {}

(* delay_info::set on the info of k, and delay_propagator::expand when the  *)
(* current time has changed; the infos of touched are fetched on the way.   *)
SetAndExpand_NotLookedUp(k, reason, minute, touched, queue) ==
  LET d == Set(NewInfo(TimeOf(k[1], k[2])), reason, minute)
      pushed == IF Current(d) # Current(Info(k)) THEN After(k) ELSE {}
  IN /\ info' = [GetOrCreate(pushed \cup touched) EXCEPT ![k[1]][k[2]] = d]
     /\ pq' = queue \cup pushed
     /\ events' = events \cup {k} \cup pushed \cup touched

SetAndExpand_PopsOnlyChanged(k, reason, minute, touched, queue) ==
  LET d == Set(Info(k), reason, minute)
      pushed == IF Current(d) # Current(Info(k)) THEN After(k) ELSE {}
  IN /\ info' = [GetOrCreate(pushed \cup touched) EXCEPT ![k[1]][k[2]] = d]
     /\ pq' = IF Current(d) # Current(Info(k)) THEN queue \cup pushed ELSE pq
     /\ events' = events \cup {k} \cup pushed \cup touched

SetAndExpand(k, reason, minute, touched, queue) ==
  LET d == Set(Info(k), reason, minute)
      pushed == IF Current(d) # Current(Info(k)) THEN After(k) ELSE {}
  IN /\ info' = [GetOrCreate(pushed \cup touched) EXCEPT ![k[1]][k[2]] = d]
     /\ pq' = queue \cup pushed
     /\ events' = events \cup {k} \cup pushed \cup touched

(* seperate_trip: a copy of the trip's connections on a route of its own;   *)
(* the old ones become invalid, trip and delay infos refer to the copy.     *)
Invalid(row, sections) == [row EXCEPT !.valid = @ \ sections]

Separated_OldStaysValid(g, at) == Append(g, <<Row(g, at)>>)

Separated(g, at) ==
  Append([g EXCEPT ![at.route][at.row] = Invalid(@, Section)], <<Row(g, at)>>)

OwnRoute(g) == [route |-> Len(g) + 1, row |-> 1]

-----------------------------------------------------------------------------
(* rt_handler::update: one event of a DelayMessage, add_delay.              *)
ReportDelay(k, reason, minute) ==
  /\ phase = "update" /\ reports < MaxReports
  /\ reports' = reports + 1
  /\ SetAndExpand(k, reason, minute, {}, pq)
  /\ UNCHANGED <<graph, loc, phase, todo, wrong, corrections, contradicted>>

(* rt_handler::update: a CancelMessage for the sections of some events.     *)
Cancel(t, sections) ==
  /\ phase = "update" /\ reports < MaxReports
  /\ reports' = reports + 1
  /\ LET own == OwnRoute(graph)
     IN /\ graph' = [Separated(graph, loc[t]) EXCEPT
                       ![own.route][own.row] = Invalid(@, sections)]
        /\ loc' = [loc EXCEPT ![t] = own]
  /\ UNCHANGED <<info, pq, events, phase, todo, wrong, corrections, contradicted>>

(* rt_handler::flush                                                        *)
Flush ==
  /\ phase = "update"
  /\ phase' = "propagate"
  /\ UNCHANGED <<graph, loc, info, pq, events, todo, wrong, reports, corrections,
          contradicted>>

-----------------------------------------------------------------------------
(* update_propagation: an arrival follows its departure by the scheduled    *)
(* duration, a departure its arrival by the scheduled standing time, but by *)
(* no more than two minutes.                                                *)
Propagated_KeepsStanding(k) ==
  LET b == CHOOSE b \in Before(k) : TRUE
  IN Current(Info(b)) + Info(k).sched - Info(b).sched

Propagated(k) ==
  LET p == Info(CHOOSE b \in Before(k) : TRUE)
      scheduled == Info(k).sched - p.sched
  IN Current(p) + (IF IsDeparture(k[2]) THEN Min({2, scheduled}) ELSE scheduled)

(* An iteration of delay_propagator::propagate.  di_cmp makes the queue     *)
(* yield the latest scheduled event first; that an entry can be in it twice *)
(* is left out, the second visit finds nothing to change.                   *)
Propagate(k) ==
  /\ phase = "propagate"
  /\ \A j \in pq : Info(j).sched <= Info(k).sched
  /\ SetAndExpand(k, "propagation", Propagated(k), Before(k), pq \ {k})
  /\ UNCHANGED <<graph, loc, phase, todo, wrong, reports, corrections,
                 contradicted>>

StartVisits ==
  /\ phase = "propagate" /\ pq = {}
  /\ phase' = "visit" /\ todo' = events
  /\ UNCHANGED <<graph, loc, info, pq, events, wrong, reports, corrections, contradicted>>

(* fits_edge: strictly between the neighbours on the route.                 *)
FitsEdge_NotStrict(at, e, minute) ==
  LET rows == graph[at.route]
  IN /\ at.row > 1 => rows[at.row - 1].time[e] <= minute
     /\ at.row < Len(rows) => minute <= rows[at.row + 1].time[e]

FitsEdge(at, e, minute) ==
  LET rows == graph[at.route]
  IN /\ at.row > 1 => rows[at.row - 1].time[e] < minute
     /\ at.row < Len(rows) => minute < rows[at.row + 1].time[e]

(* fits_trip: not before the event before it nor after the next one, by     *)
(* what their delay infos say now.                                          *)
FitsTrip(k, minute) ==
  /\ \A b \in Before(k) : Current(Info(b)) <= minute
  /\ \A a \in After(k) : minute <= Current(Info(a))

(* The loop over events() in rt_handler::propagate, in any order.           *)
Visit(k) ==
  LET t == k[1]
      minute == Current(Info(k))
      stays == FitsEdge(loc[t], k[2], minute) /\ FitsTrip(k, minute)
      g  == IF stays THEN graph ELSE Separated(graph, loc[t])
      at == IF stays THEN loc[t] ELSE OwnRoute(graph)
  IN /\ phase = "visit"
     /\ todo' = todo \ {k}
     /\ graph' = [g EXCEPT ![at.route][at.row].time[k[2]] = minute]
     /\ loc' = [loc EXCEPT ![t] = at]
     /\ wrong' = wrong \cup {x \in {t} : ~FitsTrip(k, minute)}
     /\ UNCHANGED <<info, pq, events, phase, reports, corrections,
                    contradicted>>

-----------------------------------------------------------------------------
(* trip_corrector: what was measured bounds the events before and after it. *)
(* tmin, numeric_limits<motis::time>::min(), is read as minute 0; at this   *)
(* commit nothing specialises the template, and it would be INVALID_TIME.   *)
Measured(t)     == {e \in Event : info[t][e].is # 0}
Earliest(t, e)  == Max({0} \cup {info[t][m].is : m \in {x \in Measured(t) : x <= e}})
AtLatest(t, e)  == {info[t][m].is : m \in {x \in Measured(t) : x >= e}}

Contradicting(t) == \E m, n \in Measured(t) : m < n /\ info[t][m].is > info[t][n].is

(* entry::fix                                                               *)
Fixed_NotCapped(d, earliest, latest) ==
  IF Current(d) < earliest THEN Set(d, "repair", earliest) ELSE d

Fixed(d, earliest, latest) ==
  LET capped == IF \E l \in latest : l < Current(d)
                THEN Set(d, "repair", Min(latest)) ELSE d
      raised == IF Current(capped) < earliest
                THEN Set(capped, "repair", earliest) ELSE capped
  IN IF Current(raised) = Original(raised) THEN Set(raised, "repair", 0) ELSE raised

(* trip_corrector::update: the repaired entries that differ from the graph. *)
Changed(t, entries) ==
  {e \in Event : /\ Measured(t) # {} /\ entries[e].repair # 0
                 /\ entries[e].repair # TimeOf(t, e)}

(* fix_times: they are written back, with their times.                      *)
Repair(t) ==
  /\ phase = "visit" /\ todo = {}
  /\ wrong' = wrong \ {t}
  /\ \E entries \in {[e \in Event |->
                      Fixed(Info(<<t, e>>), Earliest(t, e), AtLatest(t, e))]} :
       \E changed \in {Changed(t, entries)} :
         /\ info' = [info EXCEPT ![t] = [e \in Event |->
               IF e \in changed THEN Set(Info(<<t, e>>), "repair", entries[e].repair)
               ELSE @[e]]]
         /\ graph' = [graph EXCEPT ![loc[t].route][loc[t].row].time = [e \in Event |->
               IF e \in changed THEN entries[e].repair ELSE @[e]]]
  /\ corrections' = [corrections EXCEPT ![t] = @ + 1]
  /\ contradicted' = contradicted \cup {x \in {t} : Contradicting(t)}
  /\ UNCHANGED <<loc, pq, events, phase, todo, reports>>

(* The end of a flush: delay_propagator::reset.                             *)
Reset ==
  /\ phase = "visit" /\ todo = {} /\ wrong = {}
  /\ phase' = "update" /\ pq' = {} /\ events' = {}
  /\ UNCHANGED <<graph, loc, info, todo, wrong, reports, corrections,
                 contradicted>>

Handle ==
  \/ \E k \in pq : Propagate(k)
  \/ StartVisits
  \/ \E k \in todo : Visit(k)
  \/ \E t \in wrong : Repair(t)
  \/ Reset

Receive ==
  \/ \E r \in Reports : ReportDelay(<<r[1], r[2]>>, r[3], r[4])
  \/ \E t \in Cancelled, sections \in SUBSET Section : Cancel(t, sections)
  \/ Flush

Next == Receive \/ Handle

Spec == Init /\ [][Next]_vars

(* A flush is one call: once begun it runs on.                              *)
FairSpec == Spec /\ WF_vars(Handle)

-----------------------------------------------------------------------------
Minute == Nat
TypeOK ==
  /\ graph \in Seq(Seq([trip : Trip, time : [Event -> Minute], valid : SUBSET Section]))
  /\ loc \in [Trip -> [route : Nat \ {0}, row : Nat \ {0}]]
  /\ \A t \in Trip : loc[t].route \in DOMAIN graph /\ loc[t].row \in DOMAIN graph[loc[t].route]
  /\ info \in [Trip -> [Event -> [DOMAIN None -> Nat]]]
  /\ pq \subseteq events /\ events \subseteq Key /\ todo \subseteq events
  /\ phase \in {"update", "propagate", "visit"}
  /\ wrong \subseteq Trip
  /\ reports \in 0..MaxReports
  /\ corrections \in [Trip -> Nat]
  /\ contradicted \subseteq Trip

Settled == phase = "update" /\ events = {}

(* The graph consistency that flush verifies: on every edge the connections *)
(* are strictly sorted by departure and by arrival, cancelled and separated *)
(* ones included, whatever the order of the visits.                         *)
EdgesSorted ==
  \A r \in DOMAIN graph : \A i, j \in DOMAIN graph[r] :
    i < j => \A e \in Event : graph[r][i].time[e] < graph[r][j].time[e]

(* A search finds each section of a trip once: only the row the trip refers *)
(* to has valid connections, and it is a row of this trip.                  *)
OneValidCopy ==
  /\ \A t \in Trip : Row(graph, loc[t]).trip = t
  /\ \A r \in DOMAIN graph : \A i \in DOMAIN graph[r] :
       graph[r][i].valid # {} => loc[graph[r][i].trip] = [route |-> r, row |-> i]

(* The delay of an event is told against its schedule, however often its    *)
(* time in the graph has changed.                                           *)
ScheduleRemembered ==
  \A k \in Key : (IF Stored(k) = None THEN TimeOf(k[1], k[2]) ELSE Stored(k).sched)
                   = Timetable[k[1]][k[2]]

(* The times a single pass over the trip would give.                        *)
Afresh(t) ==
  LET time[e \in Event] ==
        LET d == Info(<<t, e>>)
            gap == Timetable[t][e] - Timetable[t][e - 1]
            pushed == time[e - 1] + (IF IsDeparture(e) THEN Min({2, gap}) ELSE gap)
        IN IF d.is # 0 THEN d.is
           ELSE IF e = 1 THEN Max({d.sched, d.forecast})
           ELSE Max({d.sched, d.forecast, pushed})
  IN time

(* After a flush the times of a trip depend on the last reports about its   *)
(* events only, not on the order in which reports came, were grouped by     *)
(* flushes, taken from the queue or visited.                                *)
DelaysAsIfAfresh ==
  Settled => \A t \in Trip : corrections[t] = 0 =>
                \A e \in Event : TimeOf(t, e) = Afresh(t)[e]

(* Once flushed, a measured time is what the graph shows, unless the trip   *)
(* was corrected while its measured times contradicted each other: a repair *)
(* made then may outlast the contradiction.                                 *)
MeasuredTimesShown ==
  Settled => \A t \in Trip \ contradicted :
               \A m \in Measured(t) : TimeOf(t, m) = info[t][m].is

InOrder(t) == \A e, f \in Event : e < f => TimeOf(t, e) <= TimeOf(t, f)

(* Contradictory reports or not, after a flush no event of a trip is before *)
(* an earlier one, as long as the trip was corrected no more than once.     *)
FirstRepairInOrder ==
  Settled => \A t \in Trip : corrections[t] <= 1 => InOrder(t)

(* A flush ends, whatever was reported.                                     *)
FlushEnds == phase # "update" ~> phase = "update"
=============================================================================
