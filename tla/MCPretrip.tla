------------------------------ MODULE MCPretrip ------------------------------
(* Three stations, days of five minutes, a schedule of three days (5..19). *)
(* A train 1-2-3 every day, at every minute, or over midnight; a second    *)
(* train from the source, from the middle or from a station that can only  *)
(* be walked to, on one day or daily.  Queries ask for one minute, an      *)
(* interval over midnight or the whole schedule, and grow to either side.  *)
(* Two on-trip queries go to the start, alone and beside another station.  *)
EXTENDS Pretrip

MCTrip(stops, dep, arr, days) ==
  [stops |-> stops, dep |-> dep, arr |-> arr, days |-> days,
   in |-> [i \in DOMAIN dep |-> TRUE], out |-> [i \in DOMAIN dep |-> TRUE]]

MCLine == {MCTrip(<<1, 2, 3>>, <<d, d + 2>>, <<d + 1, d + 4>>, {1, 2, 3}) : d \in {0, 2, 4}}

MCOther ==
  {MCTrip(stops, <<d>>, <<d + r>>, days) :
     stops \in {<<1, 3>>, <<2, 3>>}, d \in 0..4, r \in {1, 4}, days \in {{2}, {1, 2, 3}}}

MCNoWalk   == [a \in Station |-> [b \in Station |-> Never]]
MCWalks    == {MCNoWalk, [MCNoWalk EXCEPT ![1][2] = 2], [MCNoWalk EXCEPT ![1][3] = 4, ![1][2] = 1]}

MCSchedules ==
  {[trips |-> <<l, o>>, transfer |-> <<1, 1, 2>>, walk |-> w] :
     l \in MCLine, o \in MCOther, w \in MCWalks}

MCQuery(begin, end, min, earlier, later) ==
  [ontrip |-> FALSE, sources |-> {1}, dests |-> {3}, begin |-> begin, end |-> end,
   min |-> min, earlier |-> earlier, later |-> later]

MCQueries ==
  {MCQuery(11, 12, 3, e, l) : e \in BOOLEAN, l \in BOOLEAN}
    \cup {MCQuery(9, 10, 2, TRUE, TRUE), MCQuery(8, 14, 0, FALSE, FALSE)}
    \cup {[MCQuery(13, 14, 2, TRUE, TRUE) EXCEPT !.sources = {1, 2}],
          [MCQuery(11, 12, 2, FALSE, TRUE) EXCEPT !.dests = {2, 3}]}
    \cup {[MCQuery(t, t, 0, FALSE, FALSE) EXCEPT !.ontrip = TRUE, !.dests = {2, 3}] : t \in {9, 12}}
    \cup {[MCQuery(12, 12, 0, FALSE, FALSE) EXCEPT !.ontrip = TRUE, !.dests = d] : d \in {{1}, {1, 3}}}
=============================================================================
