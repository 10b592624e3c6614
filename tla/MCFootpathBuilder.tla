------------------------- MODULE MCFootpathBuilder -------------------------
(* Five stations.  On four of them, between two stations there are no foot *)
(* edges or one each way, the way back longer, so that a walk can be       *)
(* shorter than an edge; on all five, the way to the station with the      *)
(* lower number is longer, so that two components are processed at a time.*)
EXTENDS FootpathBuilder

MCInvalid == 100

MCPairs(n) == {p \in (1..n) \X (1..n) : p[1] < p[2]}

MCGraphOf(ways) ==
  [a \in Station |-> [b \in Station |->
     IF <<a, b>> \in DOMAIN ways THEN ways[<<a, b>>][1]
     ELSE IF <<b, a>> \in DOMAIN ways THEN ways[<<b, a>>][2] ELSE 0]]

MCSymmetric ==
  {MCGraphOf(w) : w \in [MCPairs(4) -> {<<0, 0>>, <<1, 3>>, <<3, 1>>}]
                          \cup [MCPairs(5) -> {<<0, 0>>, <<1, 3>>}]}

(* Foot edges of equal length, in any direction.                           *)
MCDirected == {MCGraphOf(w) : w \in [MCPairs(4) -> {0, 1} \X {0, 1}]}

MCGraphs == MCSymmetric \cup MCDirected
=============================================================================
