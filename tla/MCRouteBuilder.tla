--------------------------- MODULE MCRouteBuilder ---------------------------
(* Three services with two sections on a day of six minutes: rides of one  *)
(* or four minutes, with or without a stop, from any minute on, in any     *)
(* order, so that they meet, overtake each other and cross midnight.       *)
EXTENDS RouteBuilder

MCRow == {<<d, d + r, d + r + w, d + r + w + 1>> : d \in 0..5, r \in {1, 4}, w \in {0, 1}}

MCSpec == times \in [Service -> MCRow] /\ NothingBuilt /\ [][Next]_vars
=============================================================================
