-------------------------------- MODULE MCRt --------------------------------
(* Two trips with two sections on one route, a minute or two apart, and     *)
(* reports that make them late, meet, overtake each other and contradict    *)
(* each other.                                                              *)
EXTENDS Rt

MCTimetable == <<<<1, 3, 7, 8>>, <<2, 5, 8, 9>>>>
MCReports ==
  (Trip \X Event \X {"is"} \X {2, 6, 9}) \cup (Trip \X Event \X {"forecast"} \X {6})
MCCancelled == Trip
=============================================================================
