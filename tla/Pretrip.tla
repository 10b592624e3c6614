------------------------------ MODULE Pretrip -------------------------------
(***************************************************************************)
(* A query to the csa module above the connection scan: run_search with    *)
(* its on-trip branch, pretrip (pretrip.h) with an interval that grows     *)
(* until enough journeys begin in it, collect_start_times and the pareto   *)
(* set.  One search of the scan is taken from what CsaSearch is checked    *)
(* for (JourneysFeasible, JourneysEarliest, EveryLabelExplained): one      *)
(* journey per destination and number of rides, as early as CsaReference   *)
(* says.                                                                   *)
(***************************************************************************)
EXTENDS CsaReference

CONSTANTS
  Schedules,      \* the loaded schedules considered
  Queries,        \* [ontrip, sources, dests, begin, end, min, earlier, later]
  MaxTransfers,   \* MAX_TRANSFERS
  MaxTravel,      \* MAX_TRAVEL_TIME
  ScheduleBegin,  \* schedule_begin_, schedule_end_
  ScheduleEnd,
  Extension       \* minutes added to the interval on a side

Round       == 0..MaxTransfers
MinuteRange == 65536   \* the minute of time(day, minute) is a uint16_t

ASSUME PretripAssumption ==
  /\ MaxTransfers \in Nat \ {0} /\ MaxTravel \in Nat /\ Extension \in Nat \ {0}
  /\ ScheduleBegin \in Nat /\ ScheduleEnd \in Nat /\ ScheduleBegin <= ScheduleEnd
  /\ ScheduleEnd + 1 < Never /\ DayLen <= MinuteRange
  /\ \A q \in Queries :
       /\ q.sources \subseteq Station /\ q.dests \subseteq Station
       /\ q.begin \in Nat /\ q.end \in Nat /\ (q.ontrip => q.begin <= ScheduleEnd)
       /\ {q.ontrip, q.earlier, q.later} \subseteq BOOLEAN

VARIABLES
  tt,        \* the csa_timetable
  query,     \* the csa_query
  ends,      \* what the scan finds: earliest end by start, destination, rides
  phase,     \* "new", "search", "check", "done" or "crashed"
  interval,  \* search_interval_
  extended,  \* extended_search_interval
  pieces,    \* intervals still to search in this round of the loop
  starts,    \* start_times of the current search_in_interval
  now,       \* the start of the current search of the scan
  labels,    \* its journeys not yet collected: <<destination, rides>>
  results    \* results_: [begin, end, transfers]

loopVars   == <<interval, extended, pieces>>
searchVars == <<starts, now, labels>>
vars == <<tt, query, ends, phase, loopVars, searchVars, results>>

Interval(b, e) == [begin |-> b, end |-> e]

Times(timetable) == 0..Max({ScheduleEnd + 1, timetable.last})

(* map_to_interval                                                         *)
MapToInterval(t) == Min({ScheduleEnd, Max({ScheduleBegin, t})})

(* What a search of the scan finds from one start.                         *)
EndsFrom(timetable, sources, dests, t) ==
  Ends(timetable, sources, dests, t, MaxTravel, MaxTransfers)

(* All that is asked of one search: CsaSearch_proofs proves it of every    *)
(* schedule the loader hands over.                                         *)
ASSUME SearchesAssumption ==
  \A s \in Schedules : \A p \in {<<q.sources, q.dests>> : q \in Queries} :
    LET T == BuildTimetable(s)
    IN /\ IsSchedule(s) /\ DepartInTime(T) /\ T.last < Never
       /\ SearchesAgree(T, p[1], [t \in Times(T) |-> EndsFrom(T, p[1], p[2], t)], MaxTravel)

Init ==
  /\ tt \in {BuildTimetable(s) : s \in Schedules}
  /\ query \in Queries
  /\ ends = [t \in Times(tt) |-> EndsFrom(tt, query.sources, query.dests, t)]
  /\ phase = "new"
  /\ interval = Interval(MapToInterval(query.begin), MapToInterval(query.end))
  /\ extended = interval /\ pieces = <<>>
  /\ starts = {} /\ now = 0 /\ labels = {}
  /\ results = {}

-----------------------------------------------------------------------------
(* collect_start_times: the minute at which to set out from a source for a *)
(* departure there or within a walk.  The minute is unsigned, and only     *)
(* days of the range itself are tried.                                     *)
StartTimes_AtTheTrain(range) ==
  {t \in range.begin..range.end :
     \E s \in query.sources, i \in DOMAIN tt.cons :
       LET c == tt.cons[i] IN
       /\ tt.foot[s][c.from] # Never
       /\ \E d \in c.days : t = At(d, c.dep)}

StartTimes(range) ==
  {t \in range.begin..range.end :
     \E s \in query.sources, i \in DOMAIN tt.cons :
       LET c == tt.cons[i]
           offset == IF c.from = s THEN 0 ELSE tt.foot[s][c.from]
       IN /\ tt.foot[s][c.from] # Never
          /\ \E d \in c.days \cap (DayIdx(range.begin)..DayIdx(range.end)) :
               t = At(d, (c.dep - offset) % MinuteRange)}

CollectStartTimes(range, ontripAtEnd) ==
  StartTimes(range) \cup (IF ontripAtEnd THEN {range.end + 1} ELSE {})

-----------------------------------------------------------------------------
(* The pareto sets: of pretrip, and of an on-trip query (prices are 0).    *)
Dominates(a, b) ==
  a.begin >= b.begin /\ a.end <= b.end /\ a.transfers <= b.transfers

OntripDominates_Shorter(a, b) == a.end - a.begin <= b.end - b.begin /\ a.transfers <= b.transfers
OntripDominates(a, b) == a.end <= b.end /\ a.transfers <= b.transfers

Better(a, b) == IF query.ontrip THEN OntripDominates(a, b) ELSE Dominates(a, b)

(* push_back                                                               *)
PushBack(set, j) ==
  IF \E r \in set : Better(r, j) THEN set
  ELSE {r \in set : ~Better(j, r)} \cup {j}

InInterval(j) == interval.begin <= j.begin /\ j.begin <= interval.end

(* Minutes at which a train leaves a source.                               *)
Departures ==
  UNION {{At(d, tt.cons[i].dep) : d \in tt.cons[i].days}
           : i \in {c \in DOMAIN tt.cons : tt.cons[c].from \in query.sources}}

(* The journey get_results has for a label: it begins with a walk, at the  *)
(* start, or with a train.  It ends no later than the earliest journey the *)
(* scan sees from the start and no earlier than one from its own begin,    *)
(* which is the same time unless it lies beyond the time limit.            *)
Journeys(l) ==
  LET d == l[1] IN LET k == l[2] IN
  UNION {{[begin |-> b, end |-> e, transfers |-> k] : e \in ends[b][d][k]..ends[now][d][k]}
           : b \in IF k = 0 THEN {now} ELSE {now} \cup {t \in Departures : t > now}}

(* A destination that is a start is reached by a journey without edges,    *)
(* from now until now.                                                     *)
Edgeless(l) == l[2] = 0 /\ l[1] \in query.sources

(* The labels of a search whose journeys are collected: pretrip skips one  *)
(* that is not reconstructed, an on-trip query takes them all.             *)
LabelsOf(t) ==
  {l \in query.dests \X Round :
     ends[t][l[1]][l[2]] < Never /\ (query.ontrip \/ ~Edgeless(l))}

LabelBefore(l, m) == l[1] < m[1] \/ (l[1] = m[1] /\ l[2] <= m[2])
NextLabel == CHOOSE m \in labels : \A n \in labels : LabelBefore(m, n)

(* push_back compares the journey with the results, if there are any, and  *)
(* reads the last edge of each: a journey without edges has none.          *)
ReadsNoEdge ==
  results # {} /\ \E l \in {NextLabel} \cup (LabelsOf(now) \ labels) : Edgeless(l)

-----------------------------------------------------------------------------
(* run_search, on-trip: one search from the time given.                    *)
Ontrip ==
  /\ phase = "new" /\ query.ontrip
  /\ phase' = "search"
  /\ starts' = {query.begin}
  /\ UNCHANGED <<tt, query, ends, loopVars, now, labels, results>>

(* pretrip::search: the interval asked for, and from its end on.           *)
FirstPiece ==
  /\ phase = "new" /\ ~query.ontrip
  /\ phase' = "search"
  /\ starts' = CollectStartTimes(interval, TRUE)
  /\ UNCHANGED <<tt, query, ends, loopVars, now, labels, results>>

(* search_in_interval: the start times in order, one search for each.      *)
SearchFrom ==
  /\ phase = "search" /\ labels = {} /\ starts # {}
  /\ now' = Min(starts)
  /\ starts' = starts \ {now'}
  /\ labels' = LabelsOf(now')
  /\ UNCHANGED <<tt, query, ends, phase, loopVars, results>>

(* collect_results; only a pretrip search limits the duration.             *)
Collect ==
  /\ phase = "search" /\ labels # {} /\ ~ReadsNoEdge
  /\ labels' = labels \ {NextLabel}
  /\ \E j \in Journeys(NextLabel) :
       results' = IF query.ontrip \/ j.end - j.begin <= MaxTravel
                  THEN PushBack(results, j) ELSE results
  /\ UNCHANGED <<tt, query, ends, phase, loopVars, starts, now>>

(* front() or back() of the empty edges_, which has no storage.            *)
Crash ==
  /\ phase = "search" /\ labels # {} /\ ReadsNoEdge
  /\ phase' = "crashed"
  /\ UNCHANGED <<tt, query, ends, loopVars, searchVars, results>>

SearchDone == phase = "search" /\ labels = {} /\ starts = {}

OntripDone ==
  /\ SearchDone /\ query.ontrip
  /\ phase' = "done"
  /\ UNCHANGED <<tt, query, ends, loopVars, searchVars, results>>

(* The second search_in_interval of a round of the loop.                   *)
NextPiece ==
  /\ SearchDone /\ ~query.ontrip /\ pieces # <<>>
  /\ starts' = CollectStartTimes(Head(pieces).range, Head(pieces).ontrip)
  /\ pieces' = Tail(pieces)
  /\ UNCHANGED <<tt, query, ends, phase, interval, extended, now, labels, results>>

(* search_interval_ = extended_search_interval, or the end of the first.   *)
PieceDone ==
  /\ SearchDone /\ ~query.ontrip /\ pieces = <<>>
  /\ phase' = "check"
  /\ interval' = extended
  /\ UNCHANGED <<tt, query, ends, extended, pieces, searchVars, results>>

EnoughJourneys == Cardinality({j \in results : InInterval(j)}) >= query.min

MaxIntervalReached_BothSides ==
  interval.begin = ScheduleBegin /\ interval.end = ScheduleEnd

(* max_interval_reached                                                    *)
MaxIntervalReached ==
  /\ query.earlier => interval.begin = ScheduleBegin
  /\ query.later => interval.end = ScheduleEnd

Extended ==
  Interval(IF query.earlier THEN MapToInterval(interval.begin - Extension) ELSE interval.begin,
           IF query.later THEN MapToInterval(interval.end + Extension) ELSE interval.end)

(* The parts the interval grows by, each searched once: only the later one *)
(* is also searched from its end on.                                       *)
Pieces_Stale(ext) ==
  (IF ext.begin # interval.begin
   THEN <<[range |-> Interval(ext.begin, MapToInterval(interval.begin - 1)), ontrip |-> FALSE]>>
   ELSE <<>>)
  \o
  (IF ext.end # interval.end
   THEN <<[range |-> Interval(MapToInterval(interval.end + 1), ext.end), ontrip |-> FALSE]>>
   ELSE <<>>)

Pieces(ext) ==
  (IF ext.begin # interval.begin
   THEN <<[range |-> Interval(ext.begin, MapToInterval(interval.begin - 1)), ontrip |-> FALSE]>>
   ELSE <<>>)
  \o
  (IF ext.end # interval.end
   THEN <<[range |-> Interval(MapToInterval(interval.end + 1), ext.end), ontrip |-> TRUE]>>
   ELSE <<>>)

(* The body of the loop up to its first search.                            *)
Extend ==
  /\ phase = "check" /\ ~EnoughJourneys /\ ~MaxIntervalReached
  /\ phase' = "search"
  /\ extended' = Extended /\ pieces' = Pieces(Extended)
  /\ UNCHANGED <<tt, query, ends, interval, searchVars, results>>

(* The end of the loop, and the journeys that begin outside the interval.  *)
Finish ==
  /\ phase = "check" /\ (EnoughJourneys \/ MaxIntervalReached)
  /\ phase' = "done"
  /\ results' = {j \in results : InInterval(j)}
  /\ UNCHANGED <<tt, query, ends, loopVars, searchVars>>

Next ==
  \/ Ontrip
  \/ FirstPiece
  \/ SearchFrom
  \/ Collect
  \/ Crash
  \/ OntripDone
  \/ NextPiece
  \/ PieceDone
  \/ Extend
  \/ Finish

Spec == Init /\ [][Next]_vars

(* One call that runs until it returns.                                    *)
FairSpec == Spec /\ WF_vars(Next)

-----------------------------------------------------------------------------
(* No walk to a train has to begin on the day before it leaves: the minute *)
(* of such a start is unsigned and lies weeks later, so that the start is  *)
(* not tried (collect_start_times.cc:40).                                  *)
WalksInsideDay ==
  \A s \in query.sources, i \in DOMAIN tt.cons :
    LET c == tt.cons[i] IN
    c.from # s /\ tt.foot[s][c.from] # Never => tt.foot[s][c.from] <= c.dep

(* All journeys there are that begin no later than right after range, the  *)
(* earliest for each begin, destination and number of rides.               *)
Candidates(range) ==
  {[begin |-> x[1], end |-> ends[x[1]][x[2]][x[3]], transfers |-> x[3]] :
     x \in {y \in (range.begin..(range.end + 1)) \X query.dests \X Round :
              /\ <<y[2], y[3]>> \in LabelsOf(y[1])
              /\ ends[y[1]][y[2]][y[3]] - y[1] <= MaxTravel}}

ParetoFront(set) == {c \in set : \A d \in set : Dominates(d, c) => d = c}

(* Whenever the loop asks whether the journeys suffice, and at the end,    *)
(* those that begin in the interval are the best there are: for no begin   *)
(* in it and no number of rides is a journey missing that no other one     *)
(* (that may set out after the interval) beats, and none is kept that one  *)
(* beats, although the interval was searched in pieces.  Mere walks can    *)
(* begin at any time and are not compared among themselves.                *)
BestOfInterval ==
  phase \in {"check", "done"} /\ ~query.ontrip /\ WalksInsideDay =>
    {j \in results : InInterval(j) /\ j.transfers > 0}
      = {c \in ParetoFront(Candidates(interval)) : InInterval(c) /\ c.transfers > 0}

(* An on-trip answer has, for every number of rides, a journey that ends   *)
(* as early as any, and none is beaten in both by what the scan found.     *)
(* (Without an answer, after a crash, nothing is said.)                    *)
BestOntrip ==
  phase = "done" /\ query.ontrip =>
    LET possible == {<<ends[query.begin][l[1]][l[2]], l[2]>> : l \in LabelsOf(query.begin)} IN
    /\ \A p \in possible : \E j \in results : j.end <= p[1] /\ j.transfers <= p[2]
    /\ \A j \in results, p \in possible :
         p[1] <= j.end /\ p[2] <= j.transfers => p = <<j.end, j.transfers>>

(* The search ends: the interval grows until enough journeys begin in it   *)
(* or there is nothing left to extend.  Only an on-trip query to its own    *)
(* start may end without an answer.                                        *)
Terminates ==
  <>\/ phase = "done"
    \/ phase = "crashed" /\ query.ontrip /\ query.sources \cap query.dests # {}
=============================================================================
