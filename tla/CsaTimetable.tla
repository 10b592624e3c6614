---------------------------- MODULE CsaTimetable ----------------------------
(***************************************************************************)
(* The timetable the connection scan works on (modules/csa,                *)
(* build_csa_timetable.cc), built from the loader's trips: every section   *)
(* of a trip becomes one connection with a departure inside the day, an    *)
(* arrival that may lie beyond it, and the days on which it departs.       *)
(* Absolute times are minutes since day 0; time(day, minute) of time.h     *)
(* normalises, so day * DayLen + minute is what it denotes.                *)
(*                                                                         *)
(* A trip is a record                                                      *)
(*   stops   stations in order         days  days of the first departure   *)
(*   dep[i]  departure of section i    in[i]   boarding allowed there      *)
(*   arr[i]  arrival of section i      out[i]  alighting allowed there     *)
(* with times in minutes since midnight of the day of first departure.     *)
(***************************************************************************)
EXTENDS Integers, Sequences, FiniteSets, SequencesExt

CONSTANTS
  NStations,  \* stations are numbered
  DayLen      \* MINUTES_A_DAY

Station == 1..NStations
Never   == 1000 * DayLen   \* INVALID: later than every event

ASSUME TimetableAssumption ==
  NStations \in Nat \ {0} /\ DayLen \in Nat \ {0}

Mam(t)   == t % DayLen      \* minutes after midnight
DayIdx(t) == t \div DayLen
At(d, m) == d * DayLen + m  \* time(day, minute)

-----------------------------------------------------------------------------
(* A section keeps the minute of its departure; its day bits are those of  *)
(* the trip shifted by the days that have passed since the first departure.*)
SectionConnection_Unshifted(trips, t, i) ==
  LET offset == DayIdx(trips[t].dep[i]) IN
  [trip |-> t, idx |-> i, from |-> trips[t].stops[i], to |-> trips[t].stops[i + 1],
   dep |-> Mam(trips[t].dep[i]),
   arr |-> Mam(trips[t].dep[i]) + trips[t].arr[i] - trips[t].dep[i],
   days |-> {d \in trips[t].days : offset <= d}, offset |-> offset,
   in |-> trips[t].in[i], out |-> trips[t].out[i]]

SectionConnection(trips, t, i) ==
  LET offset == DayIdx(trips[t].dep[i]) IN
  [trip |-> t, idx |-> i, from |-> trips[t].stops[i], to |-> trips[t].stops[i + 1],
   dep |-> Mam(trips[t].dep[i]),
   arr |-> Mam(trips[t].dep[i]) + trips[t].arr[i] - trips[t].dep[i],
   days |-> {d + offset : d \in {e \in trips[t].days : offset <= e}},
   offset |-> offset, in |-> trips[t].in[i], out |-> trips[t].out[i]]

(* fwd_connections_: stably sorted by the minute of departure.             *)
ScanOrder(c1, c2) ==
  \/ c1.dep < c2.dep
  \/ c1.dep = c2.dep /\ c1.trip < c2.trip
  \/ c1.dep = c2.dep /\ c1.trip = c2.trip /\ c1.idx < c2.idx

FwdConnections(trips) ==
  LET all == UNION {{SectionConnection(trips, t, i) : i \in DOMAIN trips[t].dep}
                      : t \in DOMAIN trips}
  IN CHOOSE cons \in [1..Cardinality(all) -> all] :
       \A i, j \in DOMAIN cons : i < j => ScanOrder(cons[i], cons[j])

(* The loader closes the walks transitively; a station's walk to itself is *)
(* its transfer time.  Walks that do not exist take Never.                 *)
Closed(walk) ==
  LET via[k \in 0..NStations] ==
        IF k = 0 THEN walk
        ELSE [a \in Station |-> [b \in Station |->
                Min({via[k-1][a][b], via[k-1][a][k] + via[k-1][k][b], Never})]]
  IN via[NStations]

Footpaths(transfer, walk) ==
  [a \in Station |-> [b \in Station |->
     IF a = b THEN transfer[a] ELSE Closed(walk)[a][b]]]

LastEvent(trips) ==
  LET ends == UNION {{At(d, trips[t].arr[Len(trips[t].arr)]) : d \in trips[t].days}
                       : t \in DOMAIN trips}
  IN CHOOSE e \in ends : \A f \in ends : f <= e

(* csa_timetable                                                           *)
BuildTimetable(s) ==
  [trips |-> s.trips, cons |-> FwdConnections(s.trips),
   foot |-> Footpaths(s.transfer, s.walk), transfer |-> s.transfer,
   last |-> LastEvent(s.trips)]

-----------------------------------------------------------------------------
(* What the loader hands over.  The times of a trip do not decrease, and   *)
(* it has set out on a day of the schedule wherever it departs.            *)
IsTrip(p) ==
  LET n == Len(p.dep) IN
  /\ n \in Nat \ {0} /\ p.dep \in [1..n -> Nat] /\ p.arr \in [1..n -> Nat]
  /\ p.in \in [1..n -> BOOLEAN] /\ p.out \in [1..n -> BOOLEAN]
  /\ p.stops \in [1..n + 1 -> Station]
  /\ \A i \in 1..n : p.dep[i] <= p.arr[i] /\ \A j \in i + 1..n : p.arr[i] <= p.dep[j]
  /\ p.days # {} /\ IsFiniteSet(p.days)
  /\ \A d \in p.days : d \in Nat /\ \A i \in 1..n : DayIdx(p.dep[i]) <= d

(* Nobody changes faster by walking away and back than by waiting for the  *)
(* transfer time (add_footpaths adjusts walks to transfer times), a        *)
(* transfer time is not INVALID, and a section and the walk or change      *)
(* behind it take a minute at least.                                       *)
IsSchedule(s) ==
  LET foot == Footpaths(s.transfer, s.walk) IN
  /\ Len(s.trips) \in Nat \ {0} /\ DOMAIN s.trips = 1..Len(s.trips)
  /\ s.transfer \in [Station -> Nat] /\ s.walk \in [Station -> [Station -> 0..Never]]
  /\ \A a \in Station : s.transfer[a] < Never
  /\ \A a, b \in Station : a # b => foot[a][a] <= foot[a][b] + foot[b][a]
  /\ \A t \in DOMAIN s.trips :
       LET p == s.trips[t] IN
       /\ IsTrip(p)
       /\ \A i \in DOMAIN p.dep, z \in Station : p.dep[i] < p.arr[i] + foot[p.stops[i + 1]][z]

(* Trips that are under way for less than a day.                           *)
TripsWithinDay(trips) ==
  \A t \in DOMAIN trips : \A i, j \in DOMAIN trips[t].dep :
    trips[t].dep[j] - trips[t].dep[i] < DayLen
=============================================================================
