--------------------------- MODULE MCRouteLoading ---------------------------
(* Three trains with three sections on days of six minutes, an hour being  *)
(* one minute: three services of one day each in any order, which meet,    *)
(* overtake each other and cross midnight, or a service around the changes *)
(* of the clock, on any days, on different days section by section, and    *)
(* between zones.                                                          *)
EXTENDS RouteLoading

Row(d, r, w) == <<d, d + r, d + r + w, d + r + w + 1, d + r + w + 1, d + r + w + 2>>

MCRows == {Row(d, r, w) : d \in 0..5, r \in {1, 4}, w \in {0, 1}}

Standard == [general |-> 1, season |-> {}]
Summer(first, last) ==
  [general |-> 1,
   season  |-> {[offset |-> 2, first |-> first, last |-> last, begin |-> 2, end |-> 3]}]
West == [general |-> -1, season |-> {}]

Always(days) == [k \in 1..3 |-> days]

Plain(row, day) ==
  [sections |-> Always({day}), times |-> row, zones |-> [i \in 1..4 |-> Standard]]

Seasonal ==
  {[sections |-> sections, times |-> row, zones |-> zones] :
     sections \in {Always(days) : days \in (SUBSET (0..3)) \ {{}}}
       \cup {<<{0, 1, 2}, {1, 2}, {1, 2, 3}>>, <<{1, 2}, {1}, {1, 2}>>, <<{0, 1}, {1, 2}, {0, 1, 2}>>},
     row   \in MCRows,
     zones \in UNION {{[i \in 1..4 |-> z], <<z, z, West, West>>, <<West, z, z, z>>} :
                        z \in {Summer(1, 2), Summer(-1, 2), Summer(1, 7), Summer(2, 3), Summer(-3, -1)}}}

(* Services of one train each make up the number of trains.                *)
Filled(s) ==
  <<s>> \o SubSeq(<<Plain(Row(3, 1, 0), 1), Plain(Row(1, 4, 1), 2), Plain(Row(2, 1, 1), 3)>>,
                  1, 3 - Len(TrainsOf(s)))

MCPlans ==
  {Filled(s) : s \in {x \in Seasonal : Len(TrainsOf(x)) <= 3}}
  \cup {[i \in 1..3 |-> Plain(rows[i], 1)] :
          rows \in [1..3 -> {Row(d, r, w) : d \in 0..4, r \in {1, 4}, w \in {0, 1}}]}
=============================================================================
