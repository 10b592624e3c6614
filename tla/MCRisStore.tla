----------------------------- MODULE MCRisStore -----------------------------
(* Two files and an upload with four messages.  Days have three time units, *)
(* the schedule lies in the days that begin at 3 and 6.  Message "d" begins *)
(* before the schedule and reaches into it, "b" and "c" share a bucket, the *)
(* uploaded "u" concerns no day of the schedule.                            *)
EXTENDS RisStore

MCMsg == {"a", "b", "c", "d", "u"}
MCUpload == {100}
MCContent == [s \in {1, 2, 100} |->
  CASE s = 1 -> <<"b", "a">> [] s = 2 -> <<"d", "c">> [] OTHER -> <<"u">>]
MCTs == [m \in MCMsg |->
  CASE m = "a" -> 2 [] m = "b" -> 4 [] m = "c" -> 4 [] m = "d" -> 1 [] OTHER -> 5]
MCEarliest == [m \in MCMsg |->
  CASE m = "a" -> 6 [] m = "b" -> 4 [] m = "c" -> 7 [] m = "d" -> 2 [] OTHER -> 1]
MCLatest == [m \in MCMsg |->
  CASE m = "a" -> 6 [] m = "b" -> 5 [] m = "c" -> 7 [] m = "d" -> 4 [] OTHER -> 2]
=============================================================================
