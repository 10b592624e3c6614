-------------------------- MODULE FootpathBuilder --------------------------
(***************************************************************************)
(* How the loader closes the walks between stations transitively           *)
(* (base/loader, build_footpaths.cc, transitivize_footpaths): the graph of *)
(* the foot edges is cut into components by a search with a stack, then    *)
(* the components are processed in parallel, each by Floyd-Warshall over   *)
(* its own stations.                                                       *)
(*                                                                         *)
(* A graph gives the duration of the foot edge from a to b, 0 for none.    *)
(***************************************************************************)
EXTENDS Integers, Sequences, FiniteSets

CONSTANTS
  NStations,  \* stations are numbered
  Graphs,     \* foot graphs considered
  Invalid     \* numeric_limits<motis::time>::max(), a time without value

Station == 1..NStations

ASSUME FootAssumption ==
  /\ NStations \in Nat \ {0} /\ Invalid \in Nat \ {0}
  /\ Graphs \subseteq [Station -> [Station -> 0..Invalid - 1]]
  /\ \A g \in Graphs : \A a \in Station : g[a][a] = 0

VARIABLES
  dur,        \* the foot graph
  phase,      \* "components", "process" or "done"
  root,       \* find_components: i, the station a component is sought for
  component,  \* components[j].first, 0 for kNoComponent
  stack,      \* stations still to visit
  ranges,     \* components not yet taken up
  mat,        \* the matrices of the components in work, by component
  left,       \*   and the stations they have not yet been relaxed over
  outgoing,   \* station::outgoing_footpaths_
  incoming,   \* station::incoming_footpaths_
  errors,     \* components whose processing threw
  overrun     \* a duration was written behind the end of a matrix

searchVars == <<root, component, stack>>
matrixVars == <<mat, left>>
resultVars == <<outgoing, incoming, errors, overrun>>
vars == <<dur, phase, searchVars, ranges, matrixVars, resultVars>>

Out(a) == {b \in Station : dur[a][b] # 0}

MinOf(S) == CHOOSE x \in S : \A y \in S : x <= y
MaxOf(S) == CHOOSE x \in S : \A y \in S : x >= y

Init ==
  /\ dur \in Graphs
  /\ phase = "components"
  /\ root = 1 /\ stack = <<>>
  /\ component = [j \in Station |-> 0]
  /\ ranges = {} /\ mat = <<>> /\ left = <<>> /\ errors = {} /\ overrun = FALSE
  /\ outgoing = [j \in Station |-> {}]
  /\ incoming = [j \in Station |-> {}]

-----------------------------------------------------------------------------
(* find_components: the next station without component becomes a root.     *)
Skips(i) == component[i] # 0 \/ Out(i) = {}

SkipRoot ==
  /\ phase = "components" /\ stack = <<>> /\ root <= NStations
  /\ Skips(root)
  /\ root' = root + 1
  /\ UNCHANGED <<dur, phase, component, stack, ranges, matrixVars, resultVars>>

OpenComponent ==
  /\ phase = "components" /\ stack = <<>> /\ root <= NStations
  /\ ~Skips(root)
  /\ stack' = <<root>>
  /\ UNCHANGED <<dur, phase, root, component, ranges, matrixVars, resultVars>>

Top  == stack[Len(stack)]
Rest == SubSeq(stack, 1, Len(stack) - 1)

(* A station met twice is dropped; stations may lie on the stack several   *)
(* times.                                                                  *)
Revisit == component[Top] = root

DropVisited_PopsLater ==
  /\ phase = "components" /\ stack # <<>>
  /\ Revisit
  /\ UNCHANGED vars

DropVisited ==
  /\ phase = "components" /\ stack # <<>>
  /\ Revisit
  /\ stack' = Rest
  /\ UNCHANGED <<dur, phase, root, component, ranges, matrixVars, resultVars>>

(* Neighbours that are not yet in this component, in order of their number.*)
Pushed(a) == {b \in Out(a) : component[b] # root}

Ascending(S) ==
  {s \in [1..Cardinality(S) -> S] :
     /\ \A b \in S : \E i \in DOMAIN s : s[i] = b
     /\ \A i, j \in DOMAIN s : i < j => s[i] < s[j]}

Visit_PopsLast ==
  /\ phase = "components" /\ stack # <<>>
  /\ ~Revisit
  /\ component' = [component EXCEPT ![Top] = root]
  /\ \E s \in Ascending(Pushed(Top)) :
       stack' = SubSeq(stack \o s, 1, Len(stack) + Len(s) - 1)
  /\ UNCHANGED <<dur, phase, root, ranges, matrixVars, resultVars>>

Visit ==
  /\ phase = "components" /\ stack # <<>>
  /\ ~Revisit
  /\ component' = [component EXCEPT ![Top] = root]
  /\ \E s \in Ascending(Pushed(Top)) : stack' = Rest \o s
  /\ UNCHANGED <<dur, phase, root, ranges, matrixVars, resultVars>>

(* The loop goes on with the next root when the stack is empty: SkipRoot,  *)
(* since the root has its component.  At the end the components are ranges *)
(* of one vector sorted by component and station.                          *)
EndComponents ==
  /\ phase = "components" /\ stack = <<>> /\ root > NStations
  /\ phase' = "process"
  /\ ranges' = {component[j] : j \in Station}
  /\ UNCHANGED <<dur, searchVars, matrixVars, resultVars>>

-----------------------------------------------------------------------------
Members(c) == {j \in Station : component[j] = c}

(* The station before a in the order of the component.                     *)
Prev(C, a) == MaxOf({x \in C : x < a})

(* The edges of a row are placed by one pass over the members; an edge     *)
(* that leads out of the component sends the pass to its end, and it and   *)
(* all later ones are written one column behind the row.                   *)
Stray(C, a) == {b \in Out(a) : \E x \in Out(a) : x <= b /\ x \notin C}

Cell(C, a, b) ==
  IF b \in Out(a) \ Stray(C, a) THEN dur[a][b]
  ELSE IF b = MinOf(C) /\ a # MinOf(C) /\ Stray(C, Prev(C, a)) # {}
       THEN dur[Prev(C, a)][MaxOf(Stray(C, Prev(C, a)))]
       ELSE Invalid

Min2(x, y) == IF x < y THEN x ELSE y

Footpath(a, b, d) == [from |-> a, to |-> b, duration |-> d]

(* Footpaths are added to the station they leave, and to the station into. *)
AddFootpaths_OwnIncoming(F) ==
  /\ outgoing' = [j \in Station |-> outgoing[j] \cup {f.path : f \in {g \in F : g.path.from = j}}]
  /\ incoming' = [j \in Station |-> incoming[j] \cup {f.path : f \in {g \in F : g.path.from = j}}]

AddFootpaths(F) ==
  /\ outgoing' = [j \in Station |-> outgoing[j] \cup {f.path : f \in {g \in F : g.path.from = j}}]
  /\ incoming' = [j \in Station |-> incoming[j] \cup {f.path : f \in {g \in F : g.into = j}}]

(* process_component for two stations: each must have at most one edge,    *)
(* which is taken over as it is; the second is not tried if the first      *)
(* throws.                                                                 *)
ProcessPair(c) ==
  /\ phase = "process" /\ c \in ranges \ {0}
  /\ Cardinality(Members(c)) = 2
  /\ LET a == MinOf(Members(c))
         b == MaxOf(Members(c))
         taken == {x \in {a, b} : /\ Cardinality(Out(x)) = 1
                                  /\ Cardinality(Out(a)) <= 1}
         other(x) == IF x = a THEN b ELSE a
     IN /\ AddFootpaths({[path |-> Footpath(x, MinOf(Out(x)), dur[x][MinOf(Out(x))]),
                          into |-> other(x)] : x \in taken})
        /\ errors' = IF Cardinality(Out(a)) <= 1 /\ Cardinality(Out(b)) <= 1
                     THEN errors ELSE errors \cup {c}
  /\ ranges' = ranges \ {c}
  /\ UNCHANGED <<dur, phase, searchVars, matrixVars, overrun>>

(* process_component for three stations or more: the matrix is filled,     *)
StartMatrix(c) ==
  /\ phase = "process" /\ c \in ranges \ {0}
  /\ Cardinality(Members(c)) > 2
  /\ LET C == Members(c) IN
     /\ mat' = [x \in DOMAIN mat \cup {c} |->
                  IF x = c THEN [a \in C |-> [b \in C |-> Cell(C, a, b)]] ELSE mat[x]]
     /\ left' = [x \in DOMAIN mat \cup {c} |-> IF x = c THEN C ELSE left[x]]
     /\ overrun' = (overrun \/ Stray(C, MaxOf(C)) # {})
  /\ ranges' = ranges \ {c}
  /\ UNCHANGED <<dur, phase, searchVars, outgoing, incoming, errors>>

(* relaxed over every station by floyd_warshall (its row and column do not *)
(* change in that round, so that updating in place makes no difference),   *)
Relaxed_Once(c, k) ==
  [a \in Members(c) |-> [b \in Members(c) |->
     Min2(Cell(Members(c), a, b), Cell(Members(c), a, k) + Cell(Members(c), k, b))]]

Relaxed(c, k) ==
  [a \in Members(c) |-> [b \in Members(c) |->
     Min2(mat[c][a][b], mat[c][a][k] + mat[c][k][b])]]

RelaxOver(c) ==
  /\ phase = "process" /\ c \in DOMAIN mat /\ left[c] # {}
  /\ mat' = [mat EXCEPT ![c] = Relaxed(c, MinOf(left[c]))]
  /\ left' = [left EXCEPT ![c] = @ \ {MinOf(@)}]
  /\ UNCHANGED <<dur, phase, searchVars, ranges, resultVars>>

(* and read off.                                                           *)
StoreMatrix(c) ==
  /\ phase = "process" /\ c \in DOMAIN mat /\ left[c] = {}
  /\ AddFootpaths({[path |-> Footpath(p[1], p[2], mat[c][p[1]][p[2]]), into |-> p[2]] :
                     p \in {q \in Members(c) \X Members(c) :
                              q[1] # q[2] /\ mat[c][q[1]][q[2]] # Invalid}})
  /\ mat' = [x \in DOMAIN mat \ {c} |-> mat[x]]
  /\ left' = [x \in DOMAIN mat \ {c} |-> left[x]]
  /\ UNCHANGED <<dur, phase, searchVars, ranges, errors, overrun>>

(* A component of one station is an error, logged when all are processed.  *)
ProcessSingle(c) ==
  /\ phase = "process" /\ c \in ranges \ {0}
  /\ Cardinality(Members(c)) = 1
  /\ errors' = errors \cup {c}
  /\ ranges' = ranges \ {c}
  /\ UNCHANGED <<dur, phase, searchVars, matrixVars, outgoing, incoming, overrun>>

(* The stations without component are skipped.                             *)
SkipNoComponent ==
  /\ phase = "process" /\ 0 \in ranges
  /\ ranges' = ranges \ {0}
  /\ UNCHANGED <<dur, phase, searchVars, matrixVars, resultVars>>

EndProcess ==
  /\ phase = "process" /\ ranges = {} /\ DOMAIN mat = {}
  /\ phase' = "done"
  /\ UNCHANGED <<dur, searchVars, ranges, matrixVars, resultVars>>

Next ==
  \/ SkipRoot
  \/ OpenComponent
  \/ DropVisited
  \/ Visit
  \/ EndComponents
  \/ \E c \in Station : ProcessPair(c)
  \/ \E c \in Station : StartMatrix(c)
  \/ \E c \in Station : RelaxOver(c)
  \/ \E c \in Station : StoreMatrix(c)
  \/ \E c \in Station : ProcessSingle(c)
  \/ SkipNoComponent
  \/ EndProcess

Spec == Init /\ [][Next]_vars

(* The builder is one call that runs to its end.                           *)
FairSpec == Spec /\ WF_vars(Next)

-----------------------------------------------------------------------------
TypeOK ==
  /\ dur \in [Station -> [Station -> Nat]]
  /\ phase \in {"components", "process", "done"}
  /\ root \in 1..NStations + 1
  /\ component \in [Station -> 0..NStations]
  /\ stack \in Seq(Station)
  /\ ranges \subseteq 0..NStations /\ errors \subseteq Station
  /\ DOMAIN mat \subseteq Station /\ DOMAIN left = DOMAIN mat
  /\ overrun \in BOOLEAN

Symmetric == \A a, b \in Station : dur[a][b] # 0 => dur[b][a] # 0

(* When every foot edge has one the other way round, the components are    *)
(* complete: "each node only in one cluster", no foot edge leads from one  *)
(* into another, so that they can be processed independently and the       *)
(* matrix of each has a column for every edge.                             *)
ComponentsClosed ==
  Symmetric /\ phase # "components" =>
    \A a, b \in Station : dur[a][b] # 0 => component[a] # 0 /\ component[b] = component[a]

(* Walks over a graph, sequences of stations, and their length.            *)
IsWalk(g, w) == \A i \in 1..Len(w) - 1 : g[w[i]][w[i+1]] # 0

WalkLength(g, w) ==
  LET len[i \in 1..Len(w)] == IF i = 1 THEN 0 ELSE len[i-1] + g[w[i-1]][w[i]]
  IN len[Len(w)]

Walks(g, a, b) ==
  {w \in UNION {[1..n -> Station] : n \in 2..NStations} :
     w[1] = a /\ w[Len(w)] = b /\ IsWalk(g, w)}

NoStationTwice(w) == \A i, j \in 1..Len(w) : w[i] = w[j] => i = j

(* Invalid, 512 days, is longer than every walk that needs to be taken.    *)
ASSUME InvalidAssumption ==
  \A g \in Graphs : \A n \in 2..NStations : \A w \in [1..n -> Station] :
    IsWalk(g, w) /\ NoStationTwice(w) => WalkLength(g, w) < Invalid

(* The shortest walks between any two stations.                            *)
Closure(g) ==
  {Footpath(p[1], p[2], MinOf({WalkLength(g, w) : w \in Walks(g, p[1], p[2])})) :
     p \in {q \in Station \X Station : q[1] # q[2] /\ Walks(g, q[1], q[2]) # {}}}

(* The result is the "transitively closed foot graph": one footpath for    *)
(* every two stations with a walk between them, with the duration of the   *)
(* shortest.                                                               *)
TransitivelyClosed ==
  phase = "done" => UNION {outgoing[j] : j \in Station} = Closure(dur)

(* ... which holds where every foot edge has one the other way round, in    *)
(* whatever order the components are processed and the matrices relaxed.    *)
ClosedIfSymmetric == Symmetric => TransitivelyClosed

(* The footpaths a station has as incoming are those other stations have   *)
(* as outgoing, in every state of the parallel processing, if every foot   *)
(* edge has one the other way round (else a component of two stations      *)
(* gives a footpath to the wrong one).                                     *)
IncomingMatchesOutgoing ==
  Symmetric =>
    \A j \in Station :
      incoming[j] = {f \in UNION {outgoing[x] : x \in Station} : f.to = j}

(* The search for components ends although stations are pushed again, and  *)
(* every component is processed.                                           *)
Terminates == <>(phase = "done")
=============================================================================
