---------------------------- MODULE ServiceTimes ----------------------------
(***************************************************************************)
(* What the loader makes of a service of the schedule files before it goes *)
(* into a route: HRD services whose sections run on different days are     *)
(* split (split_service.cc), and the local times of every traffic day are  *)
(* converted to UTC, the days on which they come out alike sharing one     *)
(* train (graph_builder::service_times_to_utc, timezone_util.cc).          *)
(*                                                                         *)
(* A service is a record                                                   *)
(*   sections[k]  the days of section k, as days of its first departure    *)
(*   times[e]     local times: departure and arrival of every section, in  *)
(*                minutes since midnight of that day                       *)
(*   zones[i]     the time zone of stop i: [general, season], season a set *)
(*                of at most one [offset, first, last, begin, end]: the    *)
(*                days it begins and ends and the local minutes of these   *)
(***************************************************************************)
EXTENDS Integers, Sequences, FiniteSetsExt, SequencesExt

CONSTANTS
  DayLen,         \* MINUTES_A_DAY
  Hour,           \* the 60 minutes by which times are adjusted
  ScheduleOffset, \* SCHEDULE_OFFSET_DAYS
  MaxDays,        \* MAX_DAYS: INVALID_TIME is the first minute of this day
  LastDay,        \* the last day of the schedule, the first is 0
  FromDay, ToDay  \* the days to load: FromDay..ToDay - 1

-----------------------------------------------------------------------------
(* Splitting: from every section on, the days that run through as far as   *)
(* section `to` and not beyond it make a piece, and are removed from its   *)
(* sections before the next start is considered.                           *)
RunsTo(sections, from, to) ==
  {d \in sections[from] : /\ \A k \in from..to : d \in sections[k]
                          /\ to = Len(sections) \/ d \notin sections[to + 1]}

PiecesFrom(sections, from) ==
  {[from |-> from, to |-> to, days |-> RunsTo(sections, from, to)] :
     to \in {k \in from..Len(sections) : RunsTo(sections, from, k) # {}}}

Without(sections, pieces) ==
  [k \in DOMAIN sections |->
     sections[k] \ UNION {p.days : p \in {q \in pieces : q.from <= k /\ k <= q.to}}]

(* No day may be in two pieces; else the service is skipped as bad.        *)
Split_Unchecked(sections) ==
  LET left[k \in 1..Len(sections)] ==
        IF k = 1 THEN sections ELSE Without(left[k - 1], PiecesFrom(left[k - 1], k - 1))
  IN UNION {PiecesFrom(left[k], k) : k \in DOMAIN sections}

Split(sections) ==
  LET left[k \in 1..Len(sections)] ==
        IF k = 1 THEN sections ELSE Without(left[k - 1], PiecesFrom(left[k - 1], k - 1))
      pieces == UNION {PiecesFrom(left[k], k) : k \in DOMAIN sections}
  IN IF \A p, q \in pieces : p = q \/ p.days \cap q.days = {} THEN pieces ELSE {}

(* The days of the piece with all stops, which goes into the route of the  *)
(* whole service.                                                          *)
TrafficDays(s) ==
  UNION {p.days : p \in {q \in Split(s.sections) : q.from = 1 /\ q.to = Len(s.sections)}}

-----------------------------------------------------------------------------
(* create_timezone: a season is kept when it meets the days of the         *)
(* schedule, and is open to the side on which it goes beyond them.         *)
CreateTimezone(z) ==
  [general |-> z.general,
   season  |->
     {[offset |-> s.offset,
       begin  |-> IF 0 <= s.first
                  THEN (ScheduleOffset + s.first) * DayLen + s.begin - z.general ELSE 0,
       end    |-> IF s.last <= LastDay
                  THEN (ScheduleOffset + s.last) * DayLen + s.end - s.offset
                  ELSE MaxDays * DayLen - s.offset] :
      s \in {x \in z.season : 0 <= x.last /\ x.first <= LastDay}}]

(* is_in_season, for a local time: the seasons it lies in.                 *)
Seasons_EndExcluded(z, t) == {s \in z.season : s.begin + z.general <= t /\ t < s.end + s.offset}

Seasons(z, t) == {s \in z.season : s.begin + z.general <= t /\ t <= s.end + s.offset}

(* One attempt to convert a local time, adjusted by fix: the UTC day and   *)
(* time, and whether there is such a time at all.                          *)
Utc(z, day, local, fix) ==
  LET adj     == day + local \div DayLen + ScheduleOffset
      mam     == local % DayLen
      season  == Seasons(z, adj * DayLen + mam)
      offset  == IF season = {} THEN z.general ELSE (CHOOSE s \in season : TRUE).offset
      pre     == mam - offset + fix
      abs     == adj * DayLen + pre
  IN [fix |-> fix,
      day |-> IF pre < 0 THEN adj - 1 ELSE adj,
      abs |-> abs,
      possible |-> \A s \in season : s.begin <= abs]

(* The next event of a traffic day, behind those converted before it.      *)
(* Times are relative to the UTC day of the first departure.  An event     *)
(* that is impossible, or before the one ahead of it, is moved by an hour, *)
(* and all behind it with it; a second adjustment is not made.             *)
Extended(before, zone, day, local) ==
  LET z       == CreateTimezone(zone)
      first   == before.times = <<>>
      fitting == {u \in {Utc(z, day, local, fix) : fix \in {before.fix, Hour}} :
                    u.possible /\ (first \/ Last(before.times) <= u.abs - before.initial * DayLen)}
      utc     == CHOOSE u \in fitting : \A v \in fitting : u.fix <= v.fix
      initial == IF first THEN utc.day ELSE before.initial
  IN IF ~before.ok \/ fitting = {} THEN [before EXCEPT !.ok = FALSE]
     ELSE [ok |-> TRUE, fix |-> utc.fix, initial |-> initial,
           times |-> Append(before.times, utc.abs - initial * DayLen)]

Converted(s, day) ==
  LET upTo[e \in 0..Len(s.times)] ==
        IF e = 0 THEN [ok |-> TRUE, fix |-> 0, initial |-> 0, times |-> <<>>]
        ELSE Extended(upTo[e - 1], s.zones[e \div 2 + 1], day, s.times[e])
  IN upTo[Len(s.times)]

(* The days of the service in the interval to load, which reaches back as  *)
(* far as its last arrival lies behind its first departure.                *)
LoadedDays(s) ==
  LET dayOffset == Last(s.times) \div DayLen
  IN {d \in TrafficDays(s) : FromDay - dayOffset <= d /\ d < ToDay}

(* The train with the times of a day also runs on that day.                *)
AddDay(trains, c) ==
  IF \E i \in DOMAIN trains : trains[i].times = c.times
  THEN [i \in DOMAIN trains |->
          IF trains[i].times = c.times
          THEN [trains[i] EXCEPT !.days = @ \cup {c.initial}] ELSE trains[i]]
  ELSE Append(trains, [times |-> c.times, days |-> {c.initial}])

(* service_times_to_utc: one train for all days with the same times, in    *)
(* the order in which the times occur first.  A day that cannot be         *)
(* converted makes the whole service bad, and it is skipped.               *)
TrainsOf(s) ==
  LET loaded == LoadedDays(s)
      before[d \in 0..ToDay] ==
        IF d = 0 THEN <<>>
        ELSE IF d - 1 \in loaded THEN AddDay(before[d - 1], Converted(s, d - 1))
        ELSE before[d - 1]
  IN IF \A d \in loaded : Converted(s, d).ok THEN before[ToDay] ELSE <<>>

(* section_to_connection: the departure inside its day, and the days       *)
(* shifted by those that have passed since the train set out.              *)
SectionConnection(train, k) ==
  LET dayOffset == train.times[2 * k - 1] \div DayLen
      dep       == train.times[2 * k - 1] - dayOffset * DayLen
  IN [dep  |-> dep,
      arr  |-> dep + train.times[2 * k] - train.times[2 * k - 1],
      days |-> {d + dayOffset : d \in {x \in train.days : dayOffset <= x}}]
=============================================================================
