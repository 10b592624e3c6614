---------------------------- MODULE MCCsaSearch -----------------------------
(* Schedules of two trips on three stations with days of five minutes.     *)
(* Trip 1 goes 1-2-3, starting at every minute of the day, so that it      *)
(* crosses midnight between or inside its sections; trip 2 is a feeder,    *)
(* a continuation or the way back.  Queries start at every minute of day 2,*)
(* from one station or two, in the middle of the line, and back to the     *)
(* start.                                                                  *)
EXTENDS CsaSearch

MCTrip(stops, dep, arr, days, in, out) ==
  [stops |-> stops, dep |-> dep, arr |-> arr, days |-> days, in |-> in, out |-> out]

MCLine ==
  {MCTrip(<<1, 2, 3>>, <<d, d + 1 + w>>, <<d + 1, d + 2 + w>>, days, <<TRUE, in>>, <<out, TRUE>>) :
     d \in 0..4, w \in {0, 2}, days \in {{2}, {1, 2, 3}},
     in \in BOOLEAN, out \in BOOLEAN}

MCOther ==
  {MCTrip(stops, <<d>>, <<d + r>>, IF r = 1 THEN {2, 3} ELSE {2}, <<TRUE>>, <<TRUE>>) :
     stops \in {<<1, 2>>, <<2, 3>>, <<2, 1>>}, d \in 0..4, r \in {1, 3}}

MCTransfer == <<1, 1, 2>>
MCNoWalk   == [a \in Station |-> [b \in Station |-> Never]]
MCWalks    == {MCNoWalk, [MCNoWalk EXCEPT ![2][3] = 2],
               [MCNoWalk EXCEPT ![1][2] = 1, ![2][3] = 1, ![3][2] = 1]}

MCSchedules ==
  {[trips |-> <<l, o>>, transfer |-> MCTransfer, walk |-> w] :
     l \in {t \in MCLine : t.in[2] \/ t.out[1]}, o \in MCOther, w \in MCWalks}

MCQueries == {[start |-> t, sources |-> {1}, dest |-> 3] : t \in 10..14}
               \cup {[start |-> 12, sources |-> {1, 2}, dest |-> 3],
                     [start |-> 13, sources |-> {1}, dest |-> 1],
                     [start |-> 11, sources |-> {2}, dest |-> 3]}

(* The trips of these schedules are under way for less than a day.         *)
ASSUME MCTripsWithinDay == \A s \in MCSchedules : TripsWithinDay(s.trips)

(* A trip that travels for more than a day, every day.                     *)
MCLongTrip ==
  {[trips |-> <<MCTrip(<<1, 2, 3>>, <<0, 6>>, <<1, 7>>, {1, 2, 3}, <<TRUE, TRUE>>, <<TRUE, TRUE>>), o>>,
    transfer |-> MCTransfer, walk |-> MCNoWalk] : o \in MCOther}
=============================================================================
