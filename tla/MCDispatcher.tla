---------------------------- MODULE MCDispatcher ----------------------------
(* Small registries for Dispatcher: a READ and a WRITE operation, a topic   *)
(* with a READ and a WRITE subscriber (as /init has), and one whose         *)
(* publisher does not wait (as /ris/system_time_changed in ris.cc).         *)
EXTENDS Dispatcher

CONSTANTS o1, o2, o3, m1, m2

MCOpId == {o1, o2, o3}
MCMsg  == {m1, m2}
MCOperations == {"route", "forward"}
MCAccessOfOp == [t \in MCOperations |-> IF t = "forward" THEN WRITE ELSE READ]
MCTopics == {"init", "time_changed"}
MCSubs == [t \in MCTopics |-> IF t = "init" THEN <<READ, WRITE>> ELSE <<WRITE>>]

(* The registry around a RIS forward: the operation, which publishes without *)
(* waiting, and the realtime handler that subscribes with WRITE.             *)
RisOperations == {"forward"}
RisAccessOfOp == [t \in RisOperations |-> WRITE]
RisTopics == {"time_changed"}
RisSubs == [t \in RisTopics |-> <<WRITE>>]
=============================================================================
