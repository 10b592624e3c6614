---------------------------- MODULE CsaReference ----------------------------
(***************************************************************************)
(* What the search should compute, said without scanning: journeys ride    *)
(* concrete trains.  A ride is one day's instance of a trip between a stop *)
(* where boarding and a later one where alighting is allowed.  Round k of  *)
(* Best holds, per station, the earliest time at which one can be ready to *)
(* board there after exactly k rides, walks and transfer times included.   *)
(***************************************************************************)
EXTENDS CsaTimetable

RideDep(tt, r) == At(r.day, tt.trips[r.trip].dep[r.enter])
RideArr(tt, r) == At(r.day, tt.trips[r.trip].arr[r.exit])
RideFrom(tt, r) == tt.trips[r.trip].stops[r.enter]
RideTo(tt, r) == tt.trips[r.trip].stops[r.exit + 1]

RidesOf(tt, t) ==
  {r \in [trip : {t}, day : tt.trips[t].days,
          enter : DOMAIN tt.trips[t].dep, exit : DOMAIN tt.trips[t].dep] :
     r.enter <= r.exit /\ tt.trips[t].in[r.enter] /\ tt.trips[t].out[r.exit]}

(* Rides all of whose sections the search looks at: none departs after the *)
(* limit.                                                                  *)
Rides(tt, limit) ==
  {r \in UNION {RidesOf(tt, t) : t \in DOMAIN tt.trips} :
     At(r.day, tt.trips[r.trip].dep[r.exit]) <= limit}

Best(tt, sources, start, limit, rounds) ==
  LET rides == Rides(tt, limit)
      best[k \in 0..rounds] ==
        [s \in Station |->
          IF k = 0
          THEN IF s \in sources THEN start
               ELSE Min({Never} \cup {start + tt.foot[f][s] : f \in sources})
          ELSE Min({Never} \cup
                 {RideArr(tt, r) + tt.foot[RideTo(tt, r)][s] :
                    r \in {q \in rides : best[k-1][RideFrom(tt, q)] <= RideDep(tt, q)}})]
  IN best

(* The earliest end at dest after exactly k rides: who arrives by train is *)
(* there, without its transfer time.                                       *)
EarliestEnd(tt, best, limit, dest, k) ==
  IF k = 0 THEN best[0][dest]
  ELSE Min({Never} \cup
         {RideArr(tt, r) + (IF RideTo(tt, r) = dest THEN 0 ELSE tt.foot[RideTo(tt, r)][dest]) :
            r \in {q \in Rides(tt, limit) : best[k-1][RideFrom(tt, q)] <= RideDep(tt, q)}})

(* What a search from start finds: the end of the journey with k rides.    *)
Ends(tt, sources, dests, start, travel, rounds) ==
  LET limit == Min({start + travel, tt.last})
      best  == Best(tt, sources, start, limit, rounds)
  IN [d \in dests |-> [k \in 0..rounds |-> EarliestEnd(tt, best, limit, d, k)]]

-----------------------------------------------------------------------------
(* What a query that searches from one start after the other may rely on.  *)

(* Connections depart inside their day, none behind the last event.        *)
DepartInTime(tt) ==
  /\ tt.foot \in [Station -> [Station -> Nat]] /\ tt.last \in Nat
  /\ \A i \in DOMAIN tt.cons :
       LET c == tt.cons[i] IN
       /\ c.from \in Station /\ c.dep \in 0..DayLen - 1
       /\ \A d \in c.days : d \in Nat /\ At(d, c.dep) <= tt.last

(* Who sets out from a source at this minute comes to a train as it leaves.*)
SetsOut(tt, sources, minute) ==
  \E s \in sources, i \in DOMAIN tt.cons :
    LET c == tt.cons[i]
        offset == IF c.from = s THEN 0 ELSE tt.foot[s][c.from]
    IN tt.foot[s][c.from] # Never /\ \E d \in c.days : minute + offset = At(d, c.dep)

(* Walks begin at any time; who starts earlier finds what a later start    *)
(* finds inside his travel time; and unless a train is reached just in     *)
(* time, setting out a minute later is as good.                            *)
SearchesAgree(tt, sources, ends, travel) ==
  \A t \in DOMAIN ends : \A d \in DOMAIN ends[t] : \A k \in DOMAIN ends[t][d] :
    LET end == ends[t][d][k] IN
    /\ end \in t..Never
    /\ \A u \in DOMAIN ends : u <= t /\ end < Never =>
         IF k = 0 THEN ends[u][d][0] = end - (t - u)
         ELSE end <= u + travel => ends[u][d][k] <= end
    /\ k > 0 /\ t + 1 \in DOMAIN ends /\ ~SetsOut(tt, sources, t) => ends[t + 1][d][k] <= end
=============================================================================
