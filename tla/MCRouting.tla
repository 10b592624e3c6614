----------------------------- MODULE MCRouting ------------------------------
(* Five stations and days of eight minutes, from 1 to 3.  A slow line 1-2-3 *)
(* twice a day, once over midnight; another train to 2, early or late, slow *)
(* or quick; fast trains from 2 at some minute of the day, the second may   *)
(* be cancelled; a line over 4, which can be walked to from 2 and where one *)
(* may not board; a train that leads nowhere.                               *)
EXTENDS Routing

Daily == {1, 2}
MCTrip(times, days) == [times |-> times, days |-> days, valid |-> TRUE]
MCRoute(stops, trips) ==
  [stops |-> stops, enter |-> [i \in DOMAIN stops |-> TRUE], leave |-> [i \in DOMAIN stops |-> TRUE],
   trips |-> trips]

MCNet(fast, runs, other, long) ==
  [stations |-> 5, transfer |-> <<1, 2, 1, 1, 1>>,
   walks |-> {[from |-> 2, to |-> 4, time |-> 2], [from |-> 4, to |-> 2, time |-> 2]},
   routes |-> <<MCRoute(<<1, 2, 3>>, <<MCTrip(<<0, 2, 2, 7>>, Daily), MCTrip(<<4, 6, 6, 11>>, Daily)>>),
                MCRoute(<<1, 2>>, <<MCTrip(<<other, other + long>>, Daily)>>),
                MCRoute(<<2, 3>>, <<MCTrip(<<fast, fast + 1>>, Daily),
                                    [MCTrip(<<fast + 2, fast + 3>>, {1}) EXCEPT !.valid = runs]>>),
                [MCRoute(<<1, 4, 3>>, <<MCTrip(<<1, 4, 4, 7>>, Daily)>>) EXCEPT !.enter[2] = runs],
                [MCRoute(<<1, 5>>, <<MCTrip(<<3, 4>>, {1})>>) EXCEPT !.leave[1] = FALSE]>>]

MCQuery(kind, b, e, min, earlier, later) ==
  [kind |-> kind, from |-> 1, to |-> 3, route |-> 1, stop |-> 2,
   begin |-> b, end |-> e, min |-> min, earlier |-> earlier, later |-> later]

MCQueries ==
  {MCQuery("pretrip", 11, 12, 4, e, l) : e \in BOOLEAN, l \in BOOLEAN}
    \cup {MCQuery("pretrip", b, b + 7, 0, FALSE, FALSE) : b \in {8, 16}}
    \cup {MCQuery("station", t, t, 0, FALSE, FALSE) : t \in {8, 13}}
    \cup {MCQuery("train", 10, 10, 0, FALSE, FALSE)}

(* A direct train instead, daily or on the second day only: then the first *)
(* minute of the long interval is more than MaxTravelTime before it.       *)
MCDirect(days) ==
  [MCNet(5, TRUE, 3, 1) EXCEPT !.routes[2] = MCRoute(<<1, 3>>, <<MCTrip(<<6, 8>>, days)>>)]

MCScenarios ==
  [net : {MCNet(f, r, o, l) : f \in {2, 5}, r \in BOOLEAN, o \in {0, 3}, l \in {1, 3}},
   query : MCQueries]
    \cup [net : {MCDirect({2}), MCDirect(Daily)},
          query : {MCQuery("pretrip", 8, 23, 0, FALSE, FALSE), MCQuery("pretrip", 12, 23, 0, FALSE, FALSE)}]

(* What ResultsAreJourneysHolds and AnswerAsQuickHolds ask for.            *)
ASSUME MCSensible ==
  /\ MaxTravelTime < Legs
  /\ \A s \in MCScenarios :
       TimePasses(s.net) /\ StandAlone(s.net)
=============================================================================
