---------------------------- MODULE RouteLoading ----------------------------
(***************************************************************************)
(* The loader from the services of one stop sequence to their routes       *)
(* (graph_builder::add_route_services): ServiceTimes makes trains of the   *)
(* services of a plan, and RouteBuilder groups these trains into routes.   *)
(* What the passenger is promised is stated about both together.           *)
(***************************************************************************)
EXTENDS RouteBuilder

CONSTANTS
  Hour, ScheduleOffset, MaxDays, LastDay, FromDay, ToDay, \* see ServiceTimes
  Plans  \* the sequences of services considered

INSTANCE ServiceTimes

(* The trains of all services, those of one service behind each other.     *)
TrainsOfPlan(p) ==
  FlattenSeq([i \in DOMAIN p |->
    LET trains == TrainsOf(p[i]) IN
    [j \in DOMAIN trains |-> [service |-> i, times |-> trains[j].times, days |-> trains[j].days]]])

(* The table of times RouteBuilder works on.                               *)
TableOf(ts) == [t \in Service |-> ts[t].times]

ASSUME PlansAssumption ==
  /\ Hour \in Nat \ {0} /\ ScheduleOffset \in Nat \ {0} /\ MaxDays \in Nat /\ LastDay \in Nat
  /\ FromDay \in Nat /\ ToDay \in Nat
  /\ ScheduleOffset + LastDay < MaxDays /\ Hour < DayLen
  /\ \A p \in Plans : /\ p \in Seq({p[i] : i \in DOMAIN p})
                      /\ \A i \in DOMAIN p : p[i].sections \in Seq(SUBSET Nat)

(* What the plans come to is a table of RouteBuilder: as many trains, with *)
(* as many events, and no event before the first midnight.                 *)
ASSUME TablesAssumption ==
  \A p \in Plans : /\ DOMAIN TrainsOfPlan(p) = Service
                   /\ TableOf(TrainsOfPlan(p)) \in Timetables

(* A zone has one season at most, in which the clocks are put forward, by  *)
(* less than a day, and which outlasts the hours this skips and repeats.   *)
RegularZone(z) ==
  /\ z.general \in Int
  /\ \A x, y \in z.season : x = y
  /\ \A x \in z.season :
       /\ x.offset \in Int /\ x.first \in Int /\ x.last \in Int
       /\ x.begin \in 0..DayLen - 1 /\ x.end \in 0..DayLen - 1
       /\ z.general <= x.offset /\ x.offset < DayLen /\ x.offset - z.general + Hour < DayLen
       /\ x.first * DayLen + x.begin + 2 * (x.offset - z.general) <= x.last * DayLen + x.end

(* A service has a departure and an arrival for every section and a zone   *)
(* for every stop, and arrives a day before ScheduleOffset days are over:  *)
(* section_to_connection drops the days on which more midnights lie behind *)
(* a departure than days before it in the schedule.                        *)
RegularService(s) ==
  /\ s.times \in Seq(Nat) /\ Len(s.times) = 2 * Len(s.sections)
  /\ \A i \in 1..Len(s.sections) + 1 : RegularZone(s.zones[i])
  /\ \A e \in DOMAIN s.times :
       s.times[e] - s.zones[e \div 2 + 1].general + Hour < (ScheduleOffset - 1) * DayLen

ASSUME RegularAssumption == \A p \in Plans : \A i \in DOMAIN p : RegularService(p[i])

VARIABLES
  plan,   \* the services
  trains  \* their trains, which RouteBuilder gets one after the other

loadVars == <<plan, trains, vars>>

LoadInit ==
  /\ plan \in Plans /\ trains = TrainsOfPlan(plan)
  /\ times = TableOf(trains) /\ NothingBuilt

LoadNext == Next /\ UNCHANGED <<plan, trains>>

LoadSpec == LoadInit /\ [][LoadNext]_loadVars

-----------------------------------------------------------------------------
(* Splitting.  The days of a section run in pieces without a gap.          *)
Connected(sections, d) ==
  LET on == {k \in DOMAIN sections : d \in sections[k]}
  IN \A i, j \in on : \A k \in i..j : k \in on

(* A service whose days never leave out a section in the middle is split   *)
(* so that every section runs on its days in exactly one piece, with all   *)
(* the sections it is connected with; any other service is skipped.        *)
SplitKeepsRides ==
  \A i \in DOMAIN plan :
    LET sections == plan[i].sections
        pieces   == Split(sections)
        days     == UNION {sections[k] : k \in DOMAIN sections}
    IN IF \A d \in days : Connected(sections, d)
       THEN \A d \in days :
              /\ Quantify(pieces, LAMBDA p : d \in p.days) = 1
              /\ \A p \in pieces : d \in p.days =>
                   {k \in DOMAIN sections : d \in sections[k]} = p.from..p.to
       ELSE pieces = {}

-----------------------------------------------------------------------------
(* The clock on the wall of a zone (timezone::to_local_time), for the      *)
(* season as the schedule files give it.                                   *)
Local(z, utc) ==
  LET on == {s \in z.season :
               /\ (ScheduleOffset + s.first) * DayLen + s.begin - z.general <= utc
               /\ utc <= (ScheduleOffset + s.last) * DayLen + s.end - s.offset}
  IN utc + IF on = {} THEN z.general ELSE (CHOOSE s \in on : TRUE).offset

(* When the clock shows a time: never in the hour that is skipped, twice   *)
(* in the hour that is repeated.                                           *)
Instants(z, local) ==
  {utc \in {local - z.general} \cup {local - s.offset : s \in z.season} : Local(z, utc) = local}

Shown(s, d, e) == Instants(s.zones[e \div 2 + 1], (d + ScheduleOffset) * DayLen + s.times[e])

(* Days on which the clocks leave no doubt: every event is shown at some   *)
(* instant inside the schedule, and the first of them are in order.        *)
Clear(s, d) ==
  /\ \A e \in DOMAIN s.times : Shown(s, d, e) # {} /\ d * DayLen + s.times[e] < (LastDay + 1) * DayLen
  /\ \A e \in 2..Len(s.times) : Min(Shown(s, d, e - 1)) <= Min(Shown(s, d, e))

(* The connections of section k of service i, found the way the program    *)
(* finds them: by the route and the position its trips have been told.     *)
Rides(i, k) ==
  LET connection(t) == SectionConnection(trains[routes[tripRoute[t]].lcons[lconIdx[t]]], k)
  IN UNION {{[dep |-> d * DayLen + connection(t).dep, arr |-> d * DayLen + connection(t).arr,
              train |-> t] : d \in connection(t).days} :
              t \in {u \in Service : trains[u].service = i}}

(* Every clear day of a service that is loaded has one ride on every       *)
(* section, which sets out and arrives when the clocks at its stops show   *)
(* the local times of the plan; and there are no other rides than one for  *)
(* each day.  Only a service with a day in doubt may be left out.          *)
TrainsRunAsPlanned ==
  Done =>
    \A i \in DOMAIN plan :
      LET s == plan[i] IN
      \/ (\A t \in Service : trains[t].service # i) /\ \E d \in LoadedDays(s) : ~Clear(s, d)
      \/ \A k \in DOMAIN s.sections :
           /\ Cardinality(Rides(i, k)) = Cardinality(LoadedDays(s))
           /\ \A d \in LoadedDays(s) : Clear(s, d) =>
                \E r \in Rides(i, k) :
                  /\ r.dep = Min(Shown(s, d, 2 * k - 1))
                  /\ r.arr = Min(Shown(s, d, 2 * k))
=============================================================================
