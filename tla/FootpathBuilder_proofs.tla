----------------------- MODULE FootpathBuilder_proofs -----------------------
(***************************************************************************)
(* Proofs about the closure of the foot graph.                             *)
(*                                                                         *)
(* find_components cuts a symmetric foot graph into components no edge     *)
(* leaves.  The invariant says where the search stands: an edge from a     *)
(* station with a component leads to a station of the same component, or   *)
(* to one that is still on the stack of the component in work; and a       *)
(* station on the stack has that component or none.  Without symmetry the  *)
(* last fact fails: a neighbour can belong to an earlier component, and is *)
(* taken away from it.                                                     *)
(*                                                                         *)
(* floyd_warshall then finds the shortest walks.  Of a matrix relaxed over *)
(* some stations it is enough to know that an entry below Invalid is the   *)
(* length of some walk, and that no entry exceeds an edge, nor the way     *)
(* over one of these stations: relaxed over all of them, the matrix obeys  *)
(* the triangle inequality and so lies below every walk.                   *)
(***************************************************************************)
EXTENDS FootpathBuilder, FiniteSetTheorems, WellFoundedInduction, TLAPS

Types ==
  /\ dur \in [Station -> [Station -> Nat]]
  /\ phase \in {"components", "process", "done"}
  /\ root \in Nat
  /\ component \in [Station -> Nat]
  /\ stack \in Seq(Station)

OnStack(b) == \E i \in DOMAIN stack : stack[i] = b

StackUnclaimed == \A b \in Station : OnStack(b) => component[b] \in {0, root}

EdgesCovered ==
  \A a, b \in Station :
    dur[a][b] # 0 /\ component[a] # 0 =>
      component[b] = component[a] \/ (component[a] = root /\ OnStack(b))

Progress ==
  /\ root >= 1
  /\ \A a \in Station : a < root => component[a] # 0 \/ Out(a) = {}
  /\ phase # "components" => stack = <<>> /\ root > NStations

Inv == Types /\ Progress /\ (Symmetric => StackUnclaimed /\ EdgesCovered)

-----------------------------------------------------------------------------
(* The top of a stack and the rest make up the stack.                      *)
LEMMA TopAndRest ==
  ASSUME stack \in Seq(Station), stack # <<>>
  PROVE  /\ Top \in Station /\ OnStack(Top)
         /\ Rest \in Seq(Station)
         /\ \A i \in DOMAIN Rest : i \in DOMAIN stack /\ Rest[i] = stack[i]
         /\ \A b \in Station : OnStack(b) => b = Top \/ \E i \in DOMAIN Rest : Rest[i] = b
<1>1. Len(stack) \in Nat \ {0} /\ DOMAIN stack = 1..Len(stack)
  OBVIOUS
<1>2. /\ Rest \in Seq(Station) /\ Len(Rest) = Len(stack) - 1
      /\ \A i \in 1..Len(stack) - 1 : Rest[i] = stack[i]
  BY <1>1 DEF Rest
<1>3. DOMAIN Rest = 1..Len(stack) - 1
  BY <1>2
<1>4. Top \in Station /\ OnStack(Top)
  BY <1>1 DEF Top, OnStack
<1>5. ASSUME NEW b \in Station, OnStack(b)
      PROVE  b = Top \/ \E i \in DOMAIN Rest : Rest[i] = b
  <2>1. PICK i \in 1..Len(stack) : stack[i] = b
    BY <1>1, <1>5 DEF OnStack
  <2>2. CASE i = Len(stack)
    BY <2>1, <2>2 DEF Top
  <2>3. CASE i # Len(stack)
    <3>1. i \in 1..Len(stack) - 1
      <4>1. \A n \in Nat : \A k \in 1..n : k # n => k \in 1..n - 1
        OBVIOUS
      <4> QED BY <4>1, <1>1, <2>1, <2>3
    <3>2. i \in DOMAIN Rest /\ Rest[i] = b
      BY <2>1, <3>1, <1>2, <1>3
    <3> QED BY <3>2
  <2> QED BY <2>2, <2>3
<1> QED BY <1>1, <1>2, <1>3, <1>4, <1>5

LEMMA InitInv == Init => Inv
<1> SUFFICES ASSUME Init PROVE Inv
  OBVIOUS
<1>1. Types
  BY FootAssumption DEF Init, Types, Station
<1>2. Progress
  BY DEF Init, Progress, Station
<1>3. StackUnclaimed /\ EdgesCovered
  BY DEF Init, StackUnclaimed, EdgesCovered, OnStack
<1> QED BY <1>1, <1>2, <1>3 DEF Inv

(* The station visited had no component: its neighbours in an earlier one  *)
(* would have put it there.                                                *)
LEMMA VisitInv == ASSUME Inv, Visit PROVE Inv'
<1> USE DEF Inv
<1>1. /\ Top \in Station /\ OnStack(Top) /\ Rest \in Seq(Station)
      /\ \A i \in DOMAIN Rest : i \in DOMAIN stack /\ Rest[i] = stack[i]
      /\ \A b \in Station : OnStack(b) => b = Top \/ \E i \in DOMAIN Rest : Rest[i] = b
  BY TopAndRest DEF Types, Visit
<1>2. PICK s \in Ascending(Pushed(Top)) : stack' = Rest \o s
  BY DEF Visit
<1>3. Pushed(Top) \subseteq Station
  BY DEF Pushed, Out
<1>4. /\ s \in Seq(Station)
      /\ \A b \in Pushed(Top) : \E i \in DOMAIN s : s[i] = b
      /\ \A i \in DOMAIN s : s[i] \in Pushed(Top)
  <2>1. Cardinality(Pushed(Top)) \in Nat
    <3>1. NStations \in Int
      BY FootAssumption
    <3>2. IsFiniteSet(Station)
      BY <3>1, FS_Interval DEF Station
    <3>3. IsFiniteSet(Pushed(Top))
      BY <1>3, <3>2, FS_Subset
    <3> QED BY <3>3, FS_CardinalityType
  <2> QED BY <2>1, <1>3 DEF Ascending
<1>5. /\ stack' \in Seq(Station)
      /\ \A b \in Station : (OnStack(b))' <=>
           (\E i \in DOMAIN Rest : Rest[i] = b) \/ b \in Pushed(Top)
  <2>1. stack' \in Seq(Station) /\ DOMAIN stack' = 1..(Len(Rest) + Len(s))
    BY <1>1, <1>2, <1>4
  <2>2. /\ \A i \in DOMAIN Rest : i \in DOMAIN stack' /\ stack'[i] = Rest[i]
        /\ \A i \in DOMAIN s : Len(Rest) + i \in DOMAIN stack' /\ stack'[Len(Rest) + i] = s[i]
        /\ \A i \in DOMAIN stack' : \/ i \in DOMAIN Rest
                                    \/ i - Len(Rest) \in DOMAIN s /\ stack'[i] = s[i - Len(Rest)]
    BY <1>1, <1>2, <1>4, <2>1
  <2>3. ASSUME NEW b \in Station, (OnStack(b))'
        PROVE  (\E i \in DOMAIN Rest : Rest[i] = b) \/ b \in Pushed(Top)
    <3>1. PICK i \in DOMAIN stack' : stack'[i] = b
      BY <2>3 DEF OnStack
    <3> QED BY <3>1, <2>2, <1>4
  <2>4. ASSUME NEW b \in Station, (\E i \in DOMAIN Rest : Rest[i] = b) \/ b \in Pushed(Top)
        PROVE  (OnStack(b))'
    <3>1. \E i \in DOMAIN stack' : stack'[i] = b
      BY <2>4, <2>2, <1>4
    <3> QED BY <3>1 DEF OnStack
  <2> QED BY <2>1, <2>3, <2>4
<1>6. component' = [component EXCEPT ![Top] = root] /\ component[Top] # root
  BY DEF Visit, Revisit
<1>7. UNCHANGED <<dur, phase, root>>
  BY DEF Visit
<1>8. Types'
  BY <1>1, <1>5, <1>6, <1>7 DEF Types
<1>9. Progress'
  <2>1. \A a \in Station : (Out(a))' = Out(a)
    BY <1>7 DEF Out
  <2>2. phase = "components" /\ root >= 1
    BY DEF Visit, Progress
  <2>3. ASSUME NEW a \in Station, a < root PROVE component'[a] # 0 \/ (Out(a))' = {}
    BY <1>1, <1>6, <2>1, <2>2, <2>3 DEF Progress, Types
  <2> QED BY <1>7, <2>2, <2>3 DEF Progress
<1>10. ASSUME Symmetric PROVE (StackUnclaimed /\ EdgesCovered)'
  <2>1. component[Top] = 0
    BY <1>1, <1>6, <1>10 DEF StackUnclaimed
  <2>2. ASSUME NEW b \in Station, dur[Top][b] # 0
        PROVE  component[b] \in {0, root}
    <3>1. dur[b][Top] # 0
      BY <1>1, <1>10, <2>2 DEF Symmetric
    <3> QED BY <1>1, <1>6, <1>10, <2>1, <3>1 DEF EdgesCovered
  <2>3. StackUnclaimed'
    <3> SUFFICES ASSUME NEW b \in Station, (OnStack(b))' PROVE component'[b] \in {0, root}
      BY <1>7 DEF StackUnclaimed
    <3>1. CASE b \in Pushed(Top)
      BY <3>1, <1>1, <1>6, <2>2 DEF Pushed, Out, Types
    <3>2. CASE \E i \in DOMAIN Rest : Rest[i] = b
      BY <3>2, <1>1, <1>6, <1>10 DEF StackUnclaimed, OnStack, Types
    <3> QED BY <3>1, <3>2, <1>5
  <2>4. EdgesCovered'
    <3> SUFFICES ASSUME NEW a \in Station, NEW b \in Station, dur[a][b] # 0, component'[a] # 0
                 PROVE  component'[b] = component'[a] \/ (component'[a] = root /\ (OnStack(b))')
      BY <1>7 DEF EdgesCovered
    <3>1. CASE a = Top
      <4>1. component'[a] = root
        BY <3>1, <1>1, <1>6 DEF Types
      <4>2. CASE component[b] = root
        BY <4>1, <4>2, <1>6 DEF Types
      <4>3. CASE component[b] # root
        <5>1. b \in Pushed(Top)
          BY <3>1, <4>3 DEF Pushed, Out
        <5> QED BY <4>1, <5>1, <1>5
      <4> QED BY <4>2, <4>3
    <3>2. CASE a # Top
      <4>1. component'[a] = component[a] /\ component[a] # 0
        BY <3>2, <1>6 DEF Types
      <4>2. CASE b = Top
        BY <4>1, <4>2, <1>1, <1>6, <1>10, <2>1 DEF EdgesCovered, Types
      <4>3. CASE b # Top
        <5>1. component'[b] = component[b]
          BY <4>3, <1>6 DEF Types
        <5>2. component[b] = component[a] \/ (component[a] = root /\ OnStack(b))
          BY <4>1, <1>10 DEF EdgesCovered
        <5> QED BY <4>1, <4>3, <5>1, <5>2, <1>1, <1>5
      <4> QED BY <4>2, <4>3
    <3> QED BY <3>1, <3>2
  <2> QED BY <2>3, <2>4
<1> QED BY <1>7, <1>8, <1>9, <1>10 DEF Symmetric

LEMMA DropInv == ASSUME Inv, DropVisited PROVE Inv'
<1> USE DEF Inv
<1>1. /\ Top \in Station /\ Rest \in Seq(Station)
      /\ \A i \in DOMAIN Rest : i \in DOMAIN stack /\ Rest[i] = stack[i]
      /\ \A b \in Station : OnStack(b) => b = Top \/ \E i \in DOMAIN Rest : Rest[i] = b
  BY TopAndRest DEF Types, DropVisited
<1>2. stack' = Rest /\ component[Top] = root /\ UNCHANGED <<dur, phase, root, component>>
  BY DEF DropVisited, Revisit
<1>3. Types' /\ Progress'
  <2>1. \A a \in Station : (Out(a))' = Out(a)
    BY <1>2 DEF Out
  <2> QED BY <1>1, <1>2, <2>1 DEF Types, Progress, DropVisited
<1>4. \A b \in Station : (OnStack(b))' => OnStack(b)
  BY <1>1, <1>2 DEF OnStack
<1>5. \A b \in Station : OnStack(b) => b = Top \/ (OnStack(b))'
  BY <1>1, <1>2 DEF OnStack
<1>6. ASSUME Symmetric PROVE StackUnclaimed' /\ EdgesCovered'
  BY <1>2, <1>4, <1>5, <1>6 DEF StackUnclaimed, EdgesCovered
<1> QED BY <1>2, <1>3, <1>6 DEF Symmetric

LEMMA RootInv == ASSUME Inv, SkipRoot \/ OpenComponent \/ EndComponents PROVE Inv'
<1> USE DEF Inv
<1>1. CASE SkipRoot
  <2>1. Types' /\ Progress'
    <3>1. \A a \in Station : (Out(a))' = Out(a)
      BY <1>1 DEF SkipRoot, Out
    <3>2. root' = root + 1 /\ UNCHANGED <<dur, phase, component, stack>> /\ phase = "components"
      BY <1>1 DEF SkipRoot
    <3>3. Types'
      BY <3>2 DEF Types
    <3>4. ASSUME NEW a \in Station, a < root' PROVE component'[a] # 0 \/ (Out(a))' = {}
      <4>1. CASE a = root
        BY <1>1, <3>1, <3>2, <4>1 DEF SkipRoot, Skips
      <4>2. CASE a # root
        <5>1. a < root
          BY <3>2, <3>4, <4>2 DEF Types, Station
        <5> QED BY <3>1, <3>2, <5>1 DEF Progress
      <4> QED BY <4>1, <4>2
    <3> QED BY <3>2, <3>3, <3>4 DEF Progress, Types
  <2>2. \A b \in Station : ~OnStack(b) /\ ~(OnStack(b))'
    BY <1>1 DEF SkipRoot, OnStack
  <2>3. ASSUME Symmetric PROVE StackUnclaimed' /\ EdgesCovered'
    BY <1>1, <2>2, <2>3 DEF SkipRoot, StackUnclaimed, EdgesCovered
  <2> QED BY <1>1, <2>1, <2>3 DEF SkipRoot, Symmetric
<1>2. CASE OpenComponent
  <2>1. root \in Station /\ component[root] = 0
    BY <1>2 DEF OpenComponent, Types, Progress, Skips, Station
  <2>2. Types' /\ Progress'
    <3>1. \A a \in Station : (Out(a))' = Out(a)
      BY <1>2 DEF OpenComponent, Out
    <3> QED BY <1>2, <2>1, <3>1 DEF OpenComponent, Types, Progress
  <2>3. \A b \in Station : ~OnStack(b) /\ ((OnStack(b))' <=> b = root)
    BY <1>2, <2>1 DEF OpenComponent, OnStack
  <2>4. ASSUME Symmetric PROVE StackUnclaimed' /\ EdgesCovered'
    BY <1>2, <2>1, <2>3, <2>4 DEF OpenComponent, StackUnclaimed, EdgesCovered
  <2> QED BY <1>2, <2>2, <2>4 DEF OpenComponent, Symmetric
<1>3. CASE EndComponents
  <2>1. Types' /\ Progress'
    <3>1. \A a \in Station : (Out(a))' = Out(a)
      BY <1>3 DEF EndComponents, Out
    <3> QED BY <1>3, <3>1 DEF EndComponents, Types, Progress, searchVars
  <2>2. ASSUME Symmetric PROVE StackUnclaimed' /\ EdgesCovered'
    BY <1>3, <2>2 DEF EndComponents, searchVars, StackUnclaimed, EdgesCovered, OnStack
  <2> QED BY <1>3, <2>1, <2>2 DEF EndComponents, searchVars, Symmetric
<1> QED BY <1>1, <1>2, <1>3

(* Processing leaves the components alone.                                 *)
LEMMA ProcessInv ==
  ASSUME Inv, UNCHANGED <<dur, searchVars>>,
         phase' = phase \/ (phase = "process" /\ phase' = "done")
  PROVE  Inv'
<1> USE DEF Inv
<1>1. Types' /\ Progress'
  <2>1. \A a \in Station : (Out(a))' = Out(a)
    BY DEF Out
  <2> QED BY <2>1 DEF Types, Progress, searchVars
<1>2. ASSUME Symmetric PROVE StackUnclaimed' /\ EdgesCovered'
  BY <1>2 DEF searchVars, StackUnclaimed, EdgesCovered, OnStack
<1> QED BY <1>1, <1>2 DEF searchVars, Symmetric

LEMMA NextInv == Inv /\ [Next]_vars => Inv'
<1> SUFFICES ASSUME Inv, [Next]_vars PROVE Inv'
  OBVIOUS
<1>1. CASE SkipRoot \/ OpenComponent \/ EndComponents
  BY <1>1, RootInv
<1>2. CASE DropVisited
  BY <1>2, DropInv
<1>3. CASE Visit
  BY <1>3, VisitInv
<1>4. ASSUME NEW c \in Station, ProcessPair(c) \/ ProcessSingle(c) PROVE Inv'
  BY <1>4, ProcessInv DEF ProcessPair, ProcessSingle
<1>5. ASSUME NEW c \in Station, StartMatrix(c) \/ RelaxOver(c) \/ StoreMatrix(c) PROVE Inv'
  BY <1>5, ProcessInv DEF StartMatrix, RelaxOver, StoreMatrix
<1>6. CASE SkipNoComponent \/ EndProcess
  BY <1>6, ProcessInv DEF SkipNoComponent, EndProcess
<1>7. CASE UNCHANGED vars
  BY <1>7, ProcessInv DEF vars
<1> QED BY <1>1, <1>2, <1>3, <1>4, <1>5, <1>6, <1>7 DEF Next

LEMMA Invariance == Spec => []Inv
<1> QED BY InitInv, NextInv, PTL DEF Spec

LEMMA ClosedEdges == Inv => ComponentsClosed
<1> SUFFICES ASSUME Inv, Symmetric, phase # "components",
                    NEW a \in Station, NEW b \in Station, dur[a][b] # 0
             PROVE  component[a] # 0 /\ component[b] = component[a]
  BY DEF ComponentsClosed
<1>1. component[a] # 0
  <2>1. b \in Out(a) /\ a < root
    BY FootAssumption DEF Out, Inv, Types, Progress, Station
  <2> QED BY <2>1 DEF Inv, Progress
<1>2. ~OnStack(b)
  BY DEF Inv, Progress, OnStack
<1> QED BY <1>1, <1>2 DEF Inv, EdgesCovered

(* For every number of stations and every graph: when every foot edge has  *)
(* one the other way round, no foot edge leads out of a component, and     *)
(* every station with a foot edge has one, whatever order the components   *)
(* are found and processed in (find_components, process_component).        *)
THEOREM ClosedComponents == Spec => []ComponentsClosed
BY ClosedEdges, Invariance, PTL
-----------------------------------------------------------------------------
(* The footpaths stored: what a component adds goes to the stations its    *)
(* paths leave and lead to.  For a pair of stations that is so because the *)
(* one edge of a station cannot leave the closed component.                *)
Paths == UNION {outgoing[x] : x \in Station}

Stored ==
  /\ DOMAIN outgoing = Station /\ DOMAIN incoming = Station
  /\ \A j \in Station : incoming[j] = {f \in Paths : f.to = j}

StoreInv ==
  /\ Inv /\ dur \in Graphs
  /\ DOMAIN outgoing = Station /\ DOMAIN incoming = Station
  /\ Symmetric => Stored

LEMMA AddPaths ==
  ASSUME DOMAIN outgoing = Station, NEW F, AddFootpaths(F),
         \A f \in F : f.path.from \in Station
  PROVE  Paths' = Paths \cup {f.path : f \in F}
<1>1. outgoing' = [j \in Station |-> outgoing[j] \cup {f.path : f \in {g \in F : g.path.from = j}}]
  BY DEF AddFootpaths
<1>2. \A p : p \in Paths' <=> \E x \in Station : p \in outgoing'[x]
  BY DEF Paths
<1>3. \A p : p \in Paths <=> \E x \in Station : p \in outgoing[x]
  BY DEF Paths
<1>4. \A x \in Station : \A p :
        p \in outgoing'[x] <=> p \in outgoing[x] \/ \E f \in F : p = f.path /\ f.path.from = x
  BY <1>1
<1> QED BY <1>2, <1>3, <1>4

LEMMA AddMatches ==
  ASSUME Stored, NEW F, AddFootpaths(F),
         \A f \in F : f.path.from \in Station /\ f.into = f.path.to
  PROVE  Stored'
<1>1. /\ outgoing' = [j \in Station |-> outgoing[j] \cup {f.path : f \in {g \in F : g.path.from = j}}]
      /\ incoming' = [j \in Station |-> incoming[j] \cup {f.path : f \in {g \in F : g.into = j}}]
  BY DEF AddFootpaths
<1>2. Paths' = Paths \cup {f.path : f \in F}
  BY AddPaths DEF Stored
<1>3. ASSUME NEW j \in Station PROVE incoming'[j] = {f \in Paths' : f.to = j}
  <2>1. incoming[j] = {f \in Paths : f.to = j}
    BY DEF Stored
  <2>2. incoming'[j] = incoming[j] \cup {f.path : f \in {g \in F : g.into = j}}
    BY <1>1
  <2> HIDE DEF Paths
  <2> QED BY <1>2, <2>1, <2>2
<1> QED BY <1>1, <1>3 DEF Stored

LEMMA TwoMembers ==
  ASSUME NEW S, S \subseteq Station, Cardinality(S) = 2
  PROVE  \E x, y \in S : /\ S = {x, y} /\ x # y
                         /\ MinOf(S) = x /\ MaxOf(S) = y
<1>1. IsFiniteSet(S)
  <2>1. NStations \in Int
    BY FootAssumption
  <2>2. IsFiniteSet(Station)
    BY <2>1, FS_Interval DEF Station
  <2> QED BY <2>2, FS_Subset
<1>2. S # {}
  BY FS_EmptySet
<1>3. PICK u : u \in S
  BY <1>2
<1>4. IsFiniteSet(S \ {u}) /\ Cardinality(S \ {u}) = 1
  BY <1>1, <1>3, FS_RemoveElement
<1>5. PICK v : S \ {u} = {v}
  BY <1>4, FS_Singleton
<1>6. S = {u, v} /\ u # v /\ u \in Int /\ v \in Int
  <2>1. v \in S /\ v # u
    BY <1>5
  <2>2. S = {u, v}
    BY <1>3, <1>5, <2>1
  <2>3. NStations \in Int /\ u \in Station /\ v \in Station
    BY <1>3, <2>1, FootAssumption
  <2> QED BY <2>1, <2>2, <2>3 DEF Station
<1>7. CASE u < v
  <2>1. MinOf(S) = u /\ MaxOf(S) = v
    BY <1>6, <1>7 DEF MinOf, MaxOf
  <2> QED BY <1>6, <2>1
<1>8. CASE v < u
  <2>1. MinOf(S) = v /\ MaxOf(S) = u
    BY <1>6, <1>8 DEF MinOf, MaxOf
  <2> QED BY <1>6, <2>1
<1> QED BY <1>6, <1>7, <1>8

(* A pair of stations: the one edge of a station leads to the other.       *)
LEMMA PairStored ==
  ASSUME StoreInv, Symmetric, NEW c \in Station, ProcessPair(c)
  PROVE  Stored'
<1>1. Stored /\ Inv /\ phase = "process" /\ Cardinality(Members(c)) = 2
      /\ Members(c) \subseteq Station
  BY DEF StoreInv, ProcessPair, Members
<1>2. PICK a, b \in Members(c) : /\ Members(c) = {a, b} /\ a # b
                                 /\ MinOf(Members(c)) = a /\ MaxOf(Members(c)) = b
  BY <1>1, TwoMembers
<1> DEFINE taken == {x \in {a, b} : Cardinality(Out(x)) = 1 /\ Cardinality(Out(a)) <= 1}
           other(x) == IF x = a THEN b ELSE a
           F == {[path |-> Footpath(x, MinOf(Out(x)), dur[x][MinOf(Out(x))]),
                  into |-> other(x)] : x \in taken}
<1>3. AddFootpaths(F)
  BY <1>2 DEF ProcessPair
<1>4. ASSUME NEW x \in taken PROVE MinOf(Out(x)) = other(x)
  <2>1. x \in {a, b} /\ x \in Station /\ component[x] = c /\ Cardinality(Out(x)) = 1
    BY <1>1, <1>2 DEF Members
  <2>2. IsFiniteSet(Out(x))
    <3>1. NStations \in Int
      BY FootAssumption
    <3>2. IsFiniteSet(Station)
      BY <3>1, FS_Interval DEF Station
    <3> QED BY <3>2, FS_Subset DEF Out
  <2>3. PICK y : Out(x) = {y}
    BY <2>1, <2>2, FS_Singleton
  <2>4. y \in Station /\ dur[x][y] # 0
    BY <2>3 DEF Out
  <2>5. component[y] = c
    BY <1>1, <2>1, <2>4, ClosedEdges DEF ComponentsClosed
  <2>6. y # x
    BY <2>1, <2>4, FootAssumption DEF StoreInv
  <2>7. y = other(x)
    BY <1>2, <2>1, <2>4, <2>5, <2>6 DEF Members
  <2>8. MinOf({y}) = y
    BY <2>4 DEF MinOf, Station
  <2> QED BY <2>3, <2>7, <2>8
<1>5. \A f \in F : f.path.from \in Station /\ f.into = f.path.to
  <2> SUFFICES ASSUME NEW x \in taken
               PROVE  x \in Station /\ other(x) = MinOf(Out(x))
    BY DEF Footpath
  <2>1. x \in Station
    BY <1>1, <1>2
  <2>2. MinOf(Out(x)) = other(x)
    BY <1>4
  <2> HIDE DEF taken, other
  <2> QED BY <2>1, <2>2
<1> HIDE DEF F
<1> QED BY <1>1, <1>3, <1>5, AddMatches

(* A larger component: each entry of the matrix is stored at the stations  *)
(* of its row and its column.                                              *)
LEMMA MatrixStored ==
  ASSUME Stored, NEW c \in Station, StoreMatrix(c)
  PROVE  Stored'
<1> DEFINE P == {q \in Members(c) \X Members(c) :
                   q[1] # q[2] /\ mat[c][q[1]][q[2]] # Invalid}
           F == {[path |-> Footpath(p[1], p[2], mat[c][p[1]][p[2]]), into |-> p[2]] : p \in P}
<1>1. AddFootpaths(F)
  BY DEF StoreMatrix
<1>2. \A p \in P : p[1] \in Station
  BY DEF Members
<1>3. \A f \in F : f.path.from \in Station /\ f.into = f.path.to
  BY <1>2 DEF Footpath
<1> HIDE DEF F
<1> QED BY <1>1, <1>3, AddMatches

LEMMA StoreInvStep == StoreInv /\ [Next]_vars => StoreInv'
<1> SUFFICES ASSUME StoreInv, [Next]_vars PROVE StoreInv'
  OBVIOUS
<1>1. Inv'
  BY NextInv DEF StoreInv
<1>2. dur' = dur
  BY DEF Next, SkipRoot, OpenComponent, DropVisited, Visit, EndComponents, ProcessPair,
         StartMatrix, RelaxOver, StoreMatrix, ProcessSingle, SkipNoComponent, EndProcess, vars
<1>3. Symmetric' = Symmetric /\ dur' \in Graphs
  BY <1>2 DEF Symmetric, StoreInv
<1>4. ASSUME UNCHANGED <<outgoing, incoming>> PROVE StoreInv'
  BY <1>1, <1>3, <1>4 DEF StoreInv, Stored, Paths
<1>5. ASSUME NEW c \in Station, ProcessPair(c) PROVE StoreInv'
  <2>1. DOMAIN outgoing' = Station /\ DOMAIN incoming' = Station
    BY <1>5 DEF ProcessPair, AddFootpaths
  <2> QED BY <1>1, <1>3, <1>5, <2>1, PairStored DEF StoreInv
<1>6. ASSUME NEW c \in Station, StoreMatrix(c) PROVE StoreInv'
  <2>1. DOMAIN outgoing' = Station /\ DOMAIN incoming' = Station
    BY <1>6 DEF StoreMatrix, AddFootpaths
  <2> QED BY <1>1, <1>3, <1>6, <2>1, MatrixStored DEF StoreInv
<1>7. CASE SkipRoot \/ OpenComponent \/ DropVisited \/ Visit \/ EndComponents
  BY <1>4, <1>7 DEF SkipRoot, OpenComponent, DropVisited, Visit, EndComponents, resultVars
<1>8. ASSUME NEW c \in Station, StartMatrix(c) \/ RelaxOver(c) \/ ProcessSingle(c) PROVE StoreInv'
  BY <1>4, <1>8 DEF StartMatrix, RelaxOver, ProcessSingle, resultVars
<1>9. CASE SkipNoComponent \/ EndProcess \/ UNCHANGED vars
  BY <1>4, <1>9 DEF SkipNoComponent, EndProcess, vars, resultVars
<1> QED BY <1>5, <1>6, <1>7, <1>8, <1>9 DEF Next

(* In every state of the parallel processing of a symmetric graph the      *)
(* incoming footpaths of a station are those that others have as outgoing  *)
(* (process_component).                                                    *)
THEOREM FootpathsMatch == Spec => []IncomingMatchesOutgoing
<1>1. Init => StoreInv
  BY InitInv DEF Init, StoreInv, Stored, Paths
<1>2. StoreInv => IncomingMatchesOutgoing
  BY DEF StoreInv, Stored, Paths, IncomingMatchesOutgoing
<1> QED BY <1>1, <1>2, StoreInvStep, PTL DEF Spec

-----------------------------------------------------------------------------
(* The type invariant: while stations are on the stack their component has *)
(* the number of a station.                                                *)
TypeInv == Inv /\ TypeOK /\ (stack # <<>> => root \in Station)

LEMMA TypeStep == TypeInv /\ [Next]_vars => TypeInv'
<1> SUFFICES ASSUME TypeInv, [Next]_vars PROVE TypeInv'
  OBVIOUS
<1>1. Inv' /\ Types' /\ Types /\ NStations \in Nat
  BY NextInv, FootAssumption DEF TypeInv, Inv
<1>2. ASSUME NEW c \in Station, ProcessPair(c) \/ ProcessSingle(c) PROVE TypeInv'
  <2>1. errors' \subseteq Station /\ ranges' \subseteq 0..NStations
    BY <1>2 DEF ProcessPair, ProcessSingle, TypeInv, TypeOK
  <2> QED BY <1>1, <1>2, <2>1
          DEF ProcessPair, ProcessSingle, searchVars, matrixVars, TypeInv, TypeOK
<1>3. ASSUME NEW c \in Station, StartMatrix(c) PROVE TypeInv'
  <2>1. /\ DOMAIN mat' \subseteq Station /\ DOMAIN left' = DOMAIN mat'
        /\ ranges' \subseteq 0..NStations /\ overrun' \in BOOLEAN
    <3>1. DOMAIN mat' = DOMAIN mat \cup {c} /\ DOMAIN left' = DOMAIN mat \cup {c}
      BY <1>3 DEF StartMatrix
    <3>2. ranges' = ranges \ {c} /\ overrun' \in BOOLEAN
      BY <1>3 DEF StartMatrix, TypeInv, TypeOK
    <3> QED BY <3>1, <3>2 DEF TypeInv, TypeOK
  <2> QED BY <1>1, <1>3, <2>1 DEF StartMatrix, searchVars, TypeInv, TypeOK
<1>4. ASSUME NEW c \in Station, RelaxOver(c) PROVE TypeInv'
  <2>1. DOMAIN mat' = DOMAIN mat /\ DOMAIN left' = DOMAIN left
    BY <1>4 DEF RelaxOver
  <2> QED BY <1>1, <1>4, <2>1 DEF RelaxOver, searchVars, resultVars, TypeInv, TypeOK
<1>5. ASSUME NEW c \in Station, StoreMatrix(c) PROVE TypeInv'
  <2>1. DOMAIN mat' \subseteq Station /\ DOMAIN left' = DOMAIN mat'
    <3>1. DOMAIN mat' = DOMAIN mat \ {c} /\ DOMAIN left' = DOMAIN mat \ {c}
      BY <1>5 DEF StoreMatrix
    <3> QED BY <3>1 DEF TypeInv, TypeOK
  <2> QED BY <1>1, <1>5, <2>1 DEF StoreMatrix, searchVars, TypeInv, TypeOK
<1>6. CASE SkipRoot \/ OpenComponent
  <2>1. root' \in 1..NStations + 1 /\ (stack' # <<>> => root' \in Station)
    <3>1. root \in Nat /\ root \in 1..NStations + 1
      BY <1>1 DEF TypeInv, TypeOK, Types
    <3>2. CASE SkipRoot
      BY <1>1, <3>1, <3>2 DEF SkipRoot
    <3>3. CASE OpenComponent
      BY <1>1, <3>1, <3>3 DEF OpenComponent, Station
    <3> QED BY <1>6, <3>2, <3>3
  <2>2. UNCHANGED <<dur, phase, component, ranges, matrixVars, errors, overrun>>
    BY <1>6 DEF SkipRoot, OpenComponent, resultVars
  <2> QED BY <1>1, <2>1, <2>2 DEF matrixVars, TypeInv, TypeOK, Types
<1>7. CASE DropVisited
  BY <1>1, <1>7 DEF DropVisited, matrixVars, resultVars, TypeInv, TypeOK, Types
<1>8. CASE Visit
  <2>1. component' \in [Station -> 0..NStations] /\ root \in Station
    <3>1. root \in Station /\ component \in [Station -> 0..NStations]
      BY <1>8 DEF Visit, TypeInv, TypeOK
    <3>2. root \in 0..NStations
      BY <3>1, <1>1 DEF Station
    <3> QED BY <1>8, <3>1, <3>2 DEF Visit
  <2> QED BY <1>1, <1>8, <2>1 DEF Visit, matrixVars, resultVars, TypeInv, TypeOK, Types
<1>9. CASE EndComponents
  <2>1. ranges' \subseteq 0..NStations /\ phase' = "process"
    BY <1>9 DEF EndComponents, TypeInv, TypeOK
  <2> QED BY <1>1, <1>9, <2>1
          DEF EndComponents, searchVars, matrixVars, resultVars, TypeInv, TypeOK, Types
<1>10. CASE SkipNoComponent \/ EndProcess
  BY <1>1, <1>10
  DEF SkipNoComponent, EndProcess, searchVars, matrixVars, resultVars, TypeInv, TypeOK, Types
<1>11. CASE UNCHANGED vars
  BY <1>1, <1>11 DEF vars, searchVars, matrixVars, resultVars, TypeInv, TypeOK
<1> QED BY <1>2, <1>3, <1>4, <1>5, <1>6, <1>7, <1>8, <1>9, <1>10, <1>11 DEF Next

LEMMA InitTypes == Init => TypeInv
<1> SUFFICES ASSUME Init PROVE TypeInv
  OBVIOUS
<1>1. Inv
  BY InitInv
<1>2. NStations \in Nat \ {0} /\ dur \in [Station -> [Station -> Nat]]
  BY <1>1, FootAssumption DEF Inv, Types
<1>3. DOMAIN mat = {} /\ DOMAIN left = {}
  BY DEF Init
<1>4. root \in 1..NStations + 1 /\ component \in [Station -> 0..NStations]
  BY <1>2 DEF Init
<1>5. stack \in Seq(Station) /\ stack = <<>>
  BY DEF Init
<1> QED BY <1>1, <1>2, <1>3, <1>4, <1>5 DEF Init, TypeInv, TypeOK

(* Every state of the builder is of its type.                              *)
THEOREM TypeCorrect == Spec => []TypeOK
BY InitTypes, TypeStep, PTL DEF Spec, TypeInv
-----------------------------------------------------------------------------
(* Walks over a graph g and their lengths.  A walk of n stations has a     *)
(* length up to each of them; WalkLength is the one up to the last.        *)
Walk(g, w, n) ==
  /\ w \in [1..n -> Station]
  /\ \A i \in 1..n - 1 : g[w[i]][w[i+1]] # 0

LengthOf(g, w, n, l) ==
  /\ l \in [1..n -> Nat]
  /\ l[1] = 0
  /\ \A i \in 1..n - 1 : l[i+1] = l[i] + g[w[i]][w[i+1]]

Reached(g, a, b, d) ==
  \E n \in Nat \ {0} : \E w \in [1..n -> Station], l \in [1..n -> Nat] :
    /\ Walk(g, w, n) /\ LengthOf(g, w, n, l)
    /\ w[1] = a /\ w[n] = b /\ l[n] = d

FootGraph == [Station -> [Station -> Nat]]

(* The least element of a set of numbers.                                  *)
LEMMA LeastOfFinite ==
  ASSUME NEW S \in SUBSET Nat, IsFiniteSet(S), S # {}
  PROVE  \E x \in S : \A y \in S : x <= y
<1> DEFINE bad == {A \in SUBSET S : A # {} /\ ~\E x \in A : \A y \in A : x <= y}
<1>1. SUFFICES bad = {}
  <2>1. S \in SUBSET S
    OBVIOUS
  <2> QED BY <1>1, <2>1
<1>2. SUFFICES ASSUME bad # {} PROVE FALSE
  OBVIOUS
<1>3. PICK A \in bad : \A B \in bad : ~(<<B, A>> \in StrictSubsetOrdering(S))
  <2>1. bad \subseteq FiniteSubsetsOf(S)
    BY FS_Subset DEF FiniteSubsetsOf
  <2> QED BY <1>2, <2>1, FS_StrictSubsetOrderingWellFounded, WFMin
<1>4. PICK a \in A : TRUE
  BY <1>3
<1>5. A \ {a} \notin bad
  BY <1>3, <1>4 DEF StrictSubsetOrdering
<1>6. CASE A = {a}
  BY <1>3, <1>6
<1>7. CASE A # {a}
  <2>1. PICK b \in A \ {a} : \A y \in A \ {a} : b <= y
    BY <1>3, <1>4, <1>5, <1>7
  <2>2. \A y \in A : (IF a <= b THEN a ELSE b) <= y
    BY <1>3, <1>4, <2>1
  <2> QED BY <1>3, <1>4, <2>1, <2>2
<1> QED BY <1>6, <1>7

LEMMA Least ==
  ASSUME NEW S \in SUBSET Nat, S # {}
  PROVE  \E x \in S : \A y \in S : x <= y
<1>1. PICK z \in S : TRUE
  OBVIOUS
<1> DEFINE T == {y \in S : y <= z}
<1>2. IsFiniteSet(T)
  <2>1. T \subseteq 0..z
    <3> SUFFICES ASSUME NEW y \in T PROVE y \in 0..z
      OBVIOUS
    <3>1. z \in Nat /\ y \in Nat /\ y <= z
      BY <1>1
    <3> QED BY <3>1
  <2>2. IsFiniteSet(0..z)
    BY FS_Interval
  <2> QED BY <2>1, <2>2, FS_Subset
<1>3. T \in SUBSET Nat /\ z \in T
  <2>1. z \in Nat /\ z <= z
    BY <1>1
  <2> QED BY <1>1, <2>1
<1> HIDE DEF T
<1>4. PICK x \in T : \A y \in T : x <= y
  BY <1>2, <1>3, LeastOfFinite
<1>5. x \in S /\ \A y \in S : x <= y
  <2>1. x \in Nat /\ x \in S /\ x <= z
    BY <1>3 DEF T
  <2> SUFFICES ASSUME NEW y \in S PROVE x <= y
    BY <2>1
  <2>2. CASE y <= z
    BY <1>4, <2>2 DEF T
  <2>3. CASE ~(y <= z)
    BY <2>1, <2>3
  <2> QED BY <2>2, <2>3
<1> QED BY <1>5

LEMMA MinOfIs ==
  ASSUME NEW S \in SUBSET Nat, NEW d \in S, \A y \in S : d <= y
  PROVE  MinOf(S) = d
<1> DEFINE m == MinOf(S)
<1>1. m \in S /\ \A y \in S : m <= y
  BY DEF MinOf
<1>2. m \in Nat /\ d \in Nat /\ m <= d /\ d <= m
  BY <1>1
<1> HIDE DEF m
<1>3. m = d
  BY <1>2
<1> QED BY <1>3 DEF m

(* Every walk has a length, and WalkLength gives it.                       *)
LEMMA LengthExists ==
  ASSUME NEW g \in FootGraph, NEW n \in Nat \ {0}, NEW w, Walk(g, w, n)
  PROVE  \E l : LengthOf(g, w, n, l)
<1> DEFINE Has(m) == \E l : LengthOf(g, w, m, l)
           bad == {m \in 1..n : ~Has(m)}
<1> SUFFICES ASSUME bad # {} PROVE FALSE
  OBVIOUS
<1>1. bad \in SUBSET Nat
  OBVIOUS
<1>2. PICK m \in bad : \A x \in bad : m <= x
  <2> HIDE DEF bad
  <2> QED BY <1>1, Least
<1>3. w \in [1..n -> Station]
  BY DEF Walk
<1>4. CASE m = 1
  <2>1. LengthOf(g, w, 1, [i \in 1..1 |-> 0])
    BY DEF LengthOf
  <2> QED BY <1>2, <1>4, <2>1
<1>5. CASE m # 1
  <2>1. m - 1 \in 1..n /\ m \in 1..n /\ m \in Nat /\ ~(m <= m - 1)
    BY <1>2, <1>5
  <2>2. m - 1 \notin bad
    BY <1>2, <2>1
  <2>3. PICK l : LengthOf(g, w, m - 1, l)
    BY <2>1, <2>2
  <2> DEFINE k == [i \in 1..m |-> IF i = m THEN l[m-1] + g[w[m-1]][w[m]] ELSE l[i]]
  <2>4. l \in [1..m - 1 -> Nat] /\ l[1] = 0 /\ \A i \in 1..m - 2 : l[i+1] = l[i] + g[w[i]][w[i+1]]
    BY <2>1, <2>3 DEF LengthOf
  <2>5. g[w[m-1]][w[m]] \in Nat
    BY <1>3, <2>1 DEF FootGraph
  <2>6. k \in [1..m -> Nat] /\ k[1] = 0
    BY <1>5, <2>1, <2>4, <2>5
  <2>7. ASSUME NEW i \in 1..m - 1 PROVE k[i+1] = k[i] + g[w[i]][w[i+1]]
    <3>1. i \in 1..m /\ i + 1 \in 1..m /\ i # m
      BY <2>1
    <3>2. CASE i = m - 1
      <4>1. i + 1 = m /\ k[m] = l[m-1] + g[w[m-1]][w[m]]
        BY <2>1, <3>2
      <4>2. k[i] = l[m-1]
        BY <3>1, <3>2
      <4> QED BY <3>2, <4>1, <4>2
    <3>3. CASE i # m - 1
      <4>1. i \in 1..m - 2 /\ i + 1 # m
        BY <2>1, <3>3
      <4> QED BY <2>4, <3>1, <4>1
    <3> QED BY <3>2, <3>3
  <2>8. LengthOf(g, w, m, k)
    <3> HIDE DEF k
    <3> QED BY <2>6, <2>7 DEF LengthOf
  <2> QED BY <1>2, <2>8
<1> QED BY <1>4, <1>5

LEMMA LengthIs ==
  ASSUME NEW g \in FootGraph, NEW n \in Nat \ {0}, NEW w, Walk(g, w, n),
         NEW l, LengthOf(g, w, n, l)
  PROVE  WalkLength(g, w) = l[n]
<1> DEFINE F(f) == [i \in 1..n |-> IF i = 1 THEN 0 ELSE f[i-1] + g[w[i-1]][w[i]]]
           len == CHOOSE f : f = F(f)
<1>1. w \in [1..n -> Station] /\ Len(w) = n
  BY DEF Walk
<1>2. WalkLength(g, w) = len[n]
  BY <1>1 DEF WalkLength
<1>3. l \in [1..n -> Nat] /\ l[1] = 0 /\ \A i \in 1..n - 1 : l[i+1] = l[i] + g[w[i]][w[i+1]]
  BY DEF LengthOf
<1>4. \A i \in 1..n : i # 1 => i - 1 \in 1..n - 1 /\ (i - 1) + 1 = i
  OBVIOUS
<1>5. \A i \in 1..n : l[i] = IF i = 1 THEN 0 ELSE l[i-1] + g[w[i-1]][w[i]]
  BY <1>3, <1>4
<1>6. l = F(l)
  BY <1>3, <1>5
<1>7. len = F(len)
  <2> HIDE DEF F
  <2> QED BY <1>6
<1>8. \A i \in 1..n : len[i] = IF i = 1 THEN 0 ELSE len[i-1] + g[w[i-1]][w[i]]
  <2> HIDE DEF len
  <2> QED BY <1>7
<1> HIDE DEF len, F
<1> DEFINE bad == {i \in 1..n : len[i] # l[i]}
<1>9. bad = {}
  <2> SUFFICES ASSUME bad # {} PROVE FALSE
    OBVIOUS
  <2>1. bad \in SUBSET Nat
    OBVIOUS
  <2>2. PICK m \in bad : \A x \in bad : m <= x
    <3> HIDE DEF bad
    <3> QED BY <2>1, Least
  <2>3. m \in 1..n /\ m # 1
    BY <1>3, <1>8, <2>2
  <2>4. m - 1 \in 1..n /\ ~(m <= m - 1)
    BY <2>3
  <2>5. len[m-1] = l[m-1]
    BY <2>2, <2>4
  <2> QED BY <1>5, <1>8, <2>2, <2>3, <2>5
<1> QED BY <1>2, <1>9

(* Two walks that meet make up one.                                        *)
LEMMA Joined ==
  ASSUME NEW g \in FootGraph, NEW a, NEW k, NEW b, NEW d, NEW e,
         Reached(g, a, k, d), Reached(g, k, b, e)
  PROVE  Reached(g, a, b, d + e)
<1>a. PICK n \in Nat \ {0} : \E w \in [1..n -> Station], l \in [1..n -> Nat] :
        /\ Walk(g, w, n) /\ LengthOf(g, w, n, l)
        /\ w[1] = a /\ w[n] = k /\ l[n] = d
  BY DEF Reached
<1>1. PICK w \in [1..n -> Station], l \in [1..n -> Nat] :
        /\ Walk(g, w, n) /\ LengthOf(g, w, n, l)
        /\ w[1] = a /\ w[n] = k /\ l[n] = d
  BY <1>a
<1>b. PICK m \in Nat \ {0} : \E v \in [1..m -> Station], j \in [1..m -> Nat] :
        /\ Walk(g, v, m) /\ LengthOf(g, v, m, j)
        /\ v[1] = k /\ v[m] = b /\ j[m] = e
  BY DEF Reached
<1>2. PICK v \in [1..m -> Station], j \in [1..m -> Nat] :
        /\ Walk(g, v, m) /\ LengthOf(g, v, m, j)
        /\ v[1] = k /\ v[m] = b /\ j[m] = e
  BY <1>b
<1> DEFINE N == n + m - 1
           W == [i \in 1..N |-> IF i <= n THEN w[i] ELSE v[i - n + 1]]
           L == [i \in 1..N |-> IF i <= n THEN l[i] ELSE l[n] + j[i - n + 1]]
<1>3. N \in Nat \ {0} /\ n \in 1..N /\ 1 \in 1..n /\ n \in 1..n /\ m \in 1..m /\ 1 \in 1..m
  OBVIOUS
<1>4. ASSUME NEW i \in 1..N, ~(i <= n)
      PROVE  i - n + 1 \in 1..m /\ i - n + 1 # 1
  BY <1>4
<1>5. W \in [1..N -> Station] /\ L \in [1..N -> Nat]
  <2> SUFFICES ASSUME NEW i \in 1..N PROVE W[i] \in Station /\ L[i] \in Nat
    OBVIOUS
  <2>1. CASE i <= n
    <3>1. i \in 1..n
      BY <2>1
    <3> QED BY <2>1, <3>1
  <2>2. CASE ~(i <= n)
    <3>1. i - n + 1 \in 1..m /\ l[n] \in Nat
      BY <1>3, <1>4, <2>2
    <3> QED BY <2>2, <3>1
  <2> QED BY <2>1, <2>2
<1>6. ASSUME NEW i \in 1..N - 1
      PROVE  g[W[i]][W[i+1]] # 0 /\ L[i+1] = L[i] + g[W[i]][W[i+1]]
  <2>1. i \in 1..N /\ i + 1 \in 1..N
    BY <1>3
  <2>2. CASE i + 1 <= n
    <3>1. i \in 1..n - 1 /\ i <= n
      BY <2>2
    <3>2. W[i] = w[i] /\ W[i+1] = w[i+1] /\ L[i] = l[i] /\ L[i+1] = l[i+1]
      BY <2>1, <2>2, <3>1
    <3> QED BY <1>1, <3>1, <3>2 DEF Walk, LengthOf
  <2>3. CASE ~(i + 1 <= n)
    <3> DEFINE x == i - n + 1
    <3>1. x \in 1..m - 1 /\ i + 1 - n + 1 = x + 1 /\ x \in 1..m
      BY <2>1, <2>3, <1>3
    <3>2. W[i+1] = v[x + 1] /\ L[i+1] = l[n] + j[x + 1]
      BY <2>1, <2>3, <3>1
    <3>3. W[i] = v[x] /\ L[i] = l[n] + j[x]
      <4>1. CASE i <= n
        <5>1. i = n /\ x = 1
          BY <2>3, <4>1
        <5> QED BY <1>1, <1>2, <1>3, <2>1, <5>1 DEF LengthOf
      <4>2. CASE ~(i <= n)
        BY <2>1, <4>2
      <4> QED BY <4>1, <4>2
    <3>4. g[v[x]][v[x+1]] # 0 /\ j[x+1] = j[x] + g[v[x]][v[x+1]]
      BY <1>2, <3>1 DEF Walk, LengthOf
    <3>5. v[x] \in Station /\ v[x+1] \in Station /\ j[x] \in Nat /\ l[n] \in Nat
      BY <1>3, <3>1
    <3>6. g[v[x]][v[x+1]] \in Nat
      BY <3>5 DEF FootGraph
    <3> HIDE DEF x, W, L
    <3>7. g[W[i]][W[i+1]] = g[v[x]][v[x+1]]
      BY <3>2, <3>3
    <3>8. L[i+1] = L[i] + g[v[x]][v[x+1]]
      BY <3>2, <3>3, <3>4, <3>5, <3>6
    <3> QED BY <3>4, <3>7, <3>8
  <2> QED BY <2>2, <2>3
<1>7. W[1] = a /\ L[1] = 0
  BY <1>1, <1>3 DEF LengthOf
<1>8. W[N] = b /\ L[N] = d + e
  <2>1. CASE m = 1
    <3>1. N = n /\ W[N] = w[n] /\ L[N] = l[n] /\ e = 0 /\ b = k /\ d \in Nat
      BY <1>1, <1>2, <1>3, <2>1 DEF LengthOf
    <3> QED BY <1>1, <3>1
  <2>2. CASE m # 1
    <3>1. ~(N <= n) /\ N - n + 1 = m /\ N \in 1..N
      BY <1>3, <2>2
    <3> QED BY <1>1, <1>2, <3>1
  <2> QED BY <2>1, <2>2
<1> HIDE DEF W, L, N
<1>9. Walk(g, W, N) /\ LengthOf(g, W, N, L)
  BY <1>5, <1>6, <1>7 DEF Walk, LengthOf
<1> QED BY <1>3, <1>5, <1>7, <1>8, <1>9 DEF Reached

(* The length up to a station grows with every edge: from i to j it is less.*)
LEMMA Growing ==
  ASSUME NEW g \in FootGraph, NEW n \in Nat \ {0}, NEW w, Walk(g, w, n),
         NEW l, LengthOf(g, w, n, l), NEW i \in 1..n
  PROVE  \A j \in 1..n : i < j => l[i] < l[j]
<1>1. w \in [1..n -> Station] /\ l \in [1..n -> Nat]
  BY DEF Walk, LengthOf
<1> DEFINE bad == {j \in 1..n : i < j /\ ~(l[i] < l[j])}
<1> SUFFICES ASSUME bad # {} PROVE FALSE
  OBVIOUS
<1>2. PICK m \in bad : \A x \in bad : m <= x
  <2>1. bad \in SUBSET Nat
    OBVIOUS
  <2> HIDE DEF bad
  <2> QED BY <2>1, Least
<1>3. m \in 1..n /\ i < m /\ ~(l[i] < l[m])
  BY <1>2
<1>4. m - 1 \in 1..n - 1 /\ m - 1 \in 1..n /\ (m - 1) + 1 = m /\ ~(m <= m - 1)
  BY <1>3
<1>5. g[w[m-1]][w[m]] \in Nat \ {0} /\ l[m] = l[m-1] + g[w[m-1]][w[m]]
  <2>1. g[w[m-1]][w[m]] \in Nat
    BY <1>1, <1>3, <1>4 DEF FootGraph
  <2> QED BY <1>4, <2>1 DEF Walk, LengthOf
<1>6. l[m-1] \in Nat /\ l[m] \in Nat /\ l[i] \in Nat
  BY <1>1, <1>3, <1>4
<1>7. CASE m - 1 = i
  BY <1>3, <1>5, <1>6, <1>7
<1>8. CASE m - 1 # i
  <2>1. m - 1 \notin bad
    BY <1>2, <1>4
  <2>2. i < m - 1
    BY <1>3, <1>8
  <2>3. l[i] < l[m-1]
    BY <1>4, <2>1, <2>2
  <2> QED BY <1>3, <1>5, <1>6, <2>3
<1> QED BY <1>7, <1>8

(* A walk that comes to a station twice can be cut short.                  *)
LEMMA CutShort ==
  ASSUME NEW g \in FootGraph, NEW n \in Nat \ {0}, NEW w, Walk(g, w, n),
         NEW l, LengthOf(g, w, n, l),
         NEW i \in 1..n, NEW j \in 1..n, i < j, w[i] = w[j]
  PROVE  \E d \in Nat : d < l[n] /\ Reached(g, w[1], w[n], d)
<1>1. w \in [1..n -> Station] /\ l \in [1..n -> Nat] /\ l[1] = 0
  BY DEF Walk, LengthOf
<1>2. l[i] < l[j] /\ l[i] \in Nat /\ l[j] \in Nat /\ l[n] \in Nat
  BY <1>1, Growing
<1>3. \A x \in 1..n : j <= x => l[j] <= l[x]
  <2> SUFFICES ASSUME NEW x \in 1..n, j <= x PROVE l[j] <= l[x]
    OBVIOUS
  <2>1. CASE x = j
    BY <1>2, <2>1
  <2>2. CASE x # j
    <3>1. j < x /\ l[x] \in Nat
      BY <1>1, <2>2
    <3>2. l[j] < l[x]
      BY <3>1, Growing
    <3> QED BY <1>2, <3>1, <3>2
  <2> QED BY <2>1, <2>2
<1> DEFINE s == j - i
           N == n - s
           W == [x \in 1..N |-> IF x <= i THEN w[x] ELSE w[x + s]]
           L == [x \in 1..N |-> IF x <= i THEN l[x] ELSE l[x + s] - (l[j] - l[i])]
<1>4. s \in Nat \ {0} /\ N \in Nat \ {0} /\ i \in 1..N /\ N \in 1..N /\ N + s = n
  OBVIOUS
<1>5. ASSUME NEW x \in 1..N, ~(x <= i)
      PROVE  x + s \in 1..n /\ j <= x + s
  BY <1>5
<1>6. W \in [1..N -> Station] /\ L \in [1..N -> Nat]
  <2> SUFFICES ASSUME NEW x \in 1..N PROVE W[x] \in Station /\ L[x] \in Nat
    OBVIOUS
  <2>1. CASE x <= i
    <3>1. x \in 1..n
      BY <2>1
    <3> QED BY <1>1, <2>1, <3>1
  <2>2. CASE ~(x <= i)
    <3>1. x + s \in 1..n /\ j <= x + s
      BY <1>5, <2>2
    <3>2. l[x + s] \in Nat /\ l[j] <= l[x + s] /\ w[x + s] \in Station
      BY <1>1, <1>3, <3>1
    <3>3. L[x] = l[x + s] - (l[j] - l[i]) /\ W[x] = w[x + s]
      BY <2>2
    <3>4. l[x + s] - (l[j] - l[i]) \in Nat
      BY <1>2, <3>2
    <3> QED BY <3>2, <3>3, <3>4
  <2> QED BY <2>1, <2>2
<1>7. ASSUME NEW x \in 1..N - 1
      PROVE  g[W[x]][W[x+1]] # 0 /\ L[x+1] = L[x] + g[W[x]][W[x+1]]
  <2>1. x \in 1..N /\ x + 1 \in 1..N
    BY <1>4
  <2>2. CASE x + 1 <= i
    <3>1. x \in 1..n - 1 /\ x <= i
      BY <2>2
    <3>2. W[x] = w[x] /\ W[x+1] = w[x+1] /\ L[x] = l[x] /\ L[x+1] = l[x+1]
      BY <2>1, <2>2, <3>1
    <3> QED BY <3>1, <3>2 DEF Walk, LengthOf
  <2>3. CASE ~(x + 1 <= i)
    <3> DEFINE y == x + s
    <3>1. y \in 1..n - 1 /\ y \in 1..n /\ x + 1 + s = y + 1 /\ y + 1 \in 1..n
      BY <2>1, <1>4
    <3>2. W[x+1] = w[y + 1] /\ L[x+1] = l[y + 1] - (l[j] - l[i])
      BY <2>1, <2>3, <3>1
    <3>3. W[x] = w[y] /\ L[x] = l[y] - (l[j] - l[i])
      <4>1. CASE x <= i
        <5>1. x = i /\ y = j
          BY <2>3, <4>1
        <5>2. l[j] - (l[j] - l[i]) = l[i]
          BY <1>2
        <5> QED BY <2>1, <5>1, <5>2
      <4>2. CASE ~(x <= i)
        BY <2>1, <4>2
      <4> QED BY <4>1, <4>2
    <3>4. g[w[y]][w[y+1]] # 0 /\ l[y+1] = l[y] + g[w[y]][w[y+1]]
      BY <3>1 DEF Walk, LengthOf
    <3>5. w[y] \in Station /\ w[y+1] \in Station /\ l[y] \in Nat
      BY <1>1, <3>1
    <3>6. g[w[y]][w[y+1]] \in Nat
      BY <3>5 DEF FootGraph
    <3> HIDE DEF y, W, L
    <3> QED BY <1>2, <3>2, <3>3, <3>4, <3>5, <3>6
  <2> QED BY <2>2, <2>3
<1>8. W[1] = w[1] /\ L[1] = 0
  <2>1. 1 \in 1..N /\ 1 <= i
    BY <1>4
  <2> QED BY <1>1, <2>1
<1>9. W[N] = w[n] /\ L[N] = l[n] - (l[j] - l[i])
  <2>1. CASE N <= i
    <3>1. N = i /\ n = j
      BY <1>4, <2>1
    <3>2. l[j] - (l[j] - l[i]) = l[i]
      BY <1>2
    <3> QED BY <1>4, <3>1, <3>2
  <2>2. CASE ~(N <= i)
    BY <1>4, <2>2
  <2> QED BY <2>1, <2>2
<1>10. L[N] \in Nat /\ L[N] < l[n]
  BY <1>2, <1>4, <1>6, <1>9
<1> HIDE DEF W, L, N
<1>11. Walk(g, W, N) /\ LengthOf(g, W, N, L)
  BY <1>6, <1>7, <1>8 DEF Walk, LengthOf
<1>12. Reached(g, w[1], w[n], L[N])
  BY <1>4, <1>6, <1>8, <1>9, <1>11 DEF Reached
<1> QED BY <1>10, <1>12

(* A walk that comes to no station twice visits at most all of them, and is*)
(* shorter than Invalid.                                                   *)
LEMMA AtMostAll ==
  ASSUME NEW n \in Nat \ {0}, NEW w \in [1..n -> Station],
         \A i, j \in 1..n : i < j => w[i] # w[j]
  PROVE  n <= NStations
<1>1. NStations \in Nat
  BY FootAssumption
<1> SUFFICES ASSUME NStations < n PROVE FALSE
  BY <1>1
<1>2. /\ IsFiniteSet(1..n) /\ Cardinality(1..n) = n
      /\ IsFiniteSet(Station) /\ Cardinality(Station) = NStations
  BY <1>1, FS_Interval DEF Station
<1>3. PICK x \in 1..n, y \in 1..n : x # y /\ w[x] = w[y]
  BY <1>2, FS_PigeonHole
<1>4. x < y \/ y < x
  BY <1>3
<1> QED BY <1>3, <1>4

LEMMA WalkOf ==
  ASSUME NEW g, NEW a, NEW b, NEW w
  PROVE  w \in Walks(g, a, b) <=>
           \E n \in 2..NStations : Walk(g, w, n) /\ w[1] = a /\ w[n] = b
<1>1. ASSUME w \in Walks(g, a, b)
      PROVE  \E n \in 2..NStations : Walk(g, w, n) /\ w[1] = a /\ w[n] = b
  <2>1. PICK n \in 2..NStations : w \in [1..n -> Station]
    BY <1>1 DEF Walks
  <2>2. Len(w) = n
    BY <2>1
  <2> QED BY <1>1, <2>1, <2>2 DEF Walks, Walk, IsWalk
<1>2. ASSUME NEW n \in 2..NStations, Walk(g, w, n), w[1] = a, w[n] = b
      PROVE  w \in Walks(g, a, b)
  <2>1. w \in [1..n -> Station]
    BY <1>2 DEF Walk
  <2>2. Len(w) = n
    BY <2>1
  <2>3. w \in UNION {[1..m -> Station] : m \in 2..NStations}
    BY <2>1
  <2> QED BY <1>2, <2>2, <2>3 DEF Walks, Walk, IsWalk
<1> QED BY <1>1, <1>2

(* The shortest of the walks between two stations comes to none twice.     *)
LEMMA ShortestIsSimple ==
  ASSUME NEW g \in Graphs, NEW a, NEW b, a # b, NEW d, Reached(g, a, b, d),
         \A e \in Nat : Reached(g, a, b, e) => d <= e
  PROVE  d < Invalid /\ \E w \in Walks(g, a, b) : WalkLength(g, w) = d
<1>1. g \in FootGraph /\ NStations \in Nat \ {0}
  BY FootAssumption DEF FootGraph
<1>2. PICK n \in Nat \ {0} : \E w \in [1..n -> Station], l \in [1..n -> Nat] :
        Walk(g, w, n) /\ LengthOf(g, w, n, l) /\ w[1] = a /\ w[n] = b /\ l[n] = d
  BY DEF Reached
<1>3. PICK w \in [1..n -> Station], l \in [1..n -> Nat] :
        Walk(g, w, n) /\ LengthOf(g, w, n, l) /\ w[1] = a /\ w[n] = b /\ l[n] = d
  BY <1>2
<1>4. \A i, j \in 1..n : i < j => w[i] # w[j]
  <2> SUFFICES ASSUME NEW i \in 1..n, NEW j \in 1..n, i < j, w[i] = w[j] PROVE FALSE
    OBVIOUS
  <2>1. PICK e \in Nat : e < l[n] /\ Reached(g, w[1], w[n], e)
    BY <1>1, <1>3, CutShort
  <2>2. d <= e /\ e < d /\ d \in Nat
    BY <1>3, <2>1
  <2> QED BY <2>2
<1>5. n <= NStations
  BY <1>3, <1>4, AtMostAll
<1>6. n \in 2..NStations
  BY <1>1, <1>3, <1>5
<1>7. WalkLength(g, w) = d
  BY <1>1, <1>3, LengthIs
<1>8. w \in Walks(g, a, b)
  BY <1>3, <1>6, WalkOf
<1>9. Len(w) = n
  OBVIOUS
<1>10. IsWalk(g, w)
  BY <1>8 DEF Walks
<1>11. NoStationTwice(w)
  <2> SUFFICES ASSUME NEW i \in 1..n, NEW j \in 1..n, w[i] = w[j] PROVE i = j
    BY <1>9 DEF NoStationTwice
  <2>1. ~(i < j) /\ ~(j < i)
    BY <1>4
  <2> QED BY <2>1
<1>12. d < Invalid
  BY <1>6, <1>7, <1>10, <1>11, InvalidAssumption
<1> QED BY <1>7, <1>8, <1>12

-----------------------------------------------------------------------------
(* What floyd_warshall keeps of a matrix D over the stations C, when it has*)
(* relaxed it over K: an entry is the length of a walk, none exceeds that  *)
(* of the edge, nor the way over a station of K.                           *)
Closing(g, C, K, D) ==
  /\ D \in [C -> [C -> 0..Invalid]]
  /\ \A a, b \in C : g[a][b] # 0 => D[a][b] <= g[a][b]
  /\ \A a, b \in C : \A k \in K : D[a][b] <= D[a][k] + D[k][b]
  /\ \A a, b \in C : a # b /\ D[a][b] # Invalid => Reached(g, a, b, D[a][b])

ClosedIn(g, C) ==
  /\ C \subseteq Station
  /\ \A a \in C : \A b \in Station : g[a][b] # 0 => b \in C

LEMMA EdgeReached ==
  ASSUME NEW g \in FootGraph, NEW a \in Station, NEW b \in Station, g[a][b] # 0
  PROVE  Reached(g, a, b, g[a][b])
<1> DEFINE w == [i \in 1..2 |-> IF i = 1 THEN a ELSE b]
           l == [i \in 1..2 |-> IF i = 1 THEN 0 ELSE g[a][b]]
<1>1. g[a][b] \in Nat
  BY DEF FootGraph
<1>2. w \in [1..2 -> Station] /\ l \in [1..2 -> Nat]
  BY <1>1
<1>3. w[1] = a /\ w[2] = b /\ l[1] = 0 /\ l[2] = g[a][b]
  OBVIOUS
<1> HIDE DEF w, l
<1>4. \A i \in 1..2 - 1 : i = 1 /\ i + 1 = 2
  OBVIOUS
<1>5. Walk(g, w, 2) /\ LengthOf(g, w, 2, l)
  BY <1>1, <1>2, <1>3, <1>4 DEF Walk, LengthOf
<1>6. \E v \in [1..2 -> Station], k \in [1..2 -> Nat] :
        Walk(g, v, 2) /\ LengthOf(g, v, 2, k) /\ v[1] = a /\ v[2] = b /\ k[2] = g[a][b]
  BY <1>2, <1>3, <1>5
<1>7. 2 \in Nat \ {0}
  OBVIOUS
<1> QED BY <1>6, <1>7, Zenon DEF Reached

(* A matrix relaxed over all its stations lies below every walk.           *)
LEMMA BelowEveryWalk ==
  ASSUME NEW g \in FootGraph, NEW C, ClosedIn(g, C), NEW D, Closing(g, C, C, D),
         Invalid \in Nat,
         NEW n \in Nat \ {0}, NEW w, Walk(g, w, n), w[1] \in C,
         NEW l, LengthOf(g, w, n, l)
  PROVE  \A i \in 2..n : w[i] \in C /\ D[w[1]][w[i]] <= l[i]
<1>1. w \in [1..n -> Station] /\ l \in [1..n -> Nat] /\ l[1] = 0
  BY DEF Walk, LengthOf
<1> DEFINE bad == {i \in 2..n : ~(w[i] \in C /\ D[w[1]][w[i]] <= l[i])}
<1> SUFFICES ASSUME bad # {} PROVE FALSE
  OBVIOUS
<1>2. PICK m \in bad : \A x \in bad : m <= x
  <2>1. bad \in SUBSET Nat
    OBVIOUS
  <2> HIDE DEF bad
  <2> QED BY <2>1, Least
<1>3. m \in 2..n /\ ~(w[m] \in C /\ D[w[1]][w[m]] <= l[m])
  BY <1>2
<1>4. m \in 1..n /\ m - 1 \in 1..n - 1 /\ m - 1 \in 1..n /\ (m - 1) + 1 = m /\ ~(m <= m - 1)
  BY <1>3
<1>5. g[w[m-1]][w[m]] # 0 /\ l[m] = l[m-1] + g[w[m-1]][w[m]]
  BY <1>4 DEF Walk, LengthOf
<1>6. w[m] \in Station /\ l[m-1] \in Nat /\ w[m-1] \in Station
  BY <1>1, <1>4
<1>7. g[w[m-1]][w[m]] \in Nat
  BY <1>6 DEF FootGraph
<1>8. CASE m = 2
  <2>1. w[m] \in C
    BY <1>5, <1>6, <1>8 DEF ClosedIn
  <2>2. D[w[1]][w[m]] <= g[w[1]][w[m]]
    BY <1>5, <1>8, <2>1 DEF Closing
  <2> QED BY <1>1, <1>3, <1>5, <1>7, <1>8, <2>1, <2>2
<1>9. CASE m # 2
  <2>1. m - 1 \in 2..n /\ m - 1 \notin bad
    BY <1>2, <1>3, <1>4, <1>9
  <2>2. w[m-1] \in C /\ D[w[1]][w[m-1]] <= l[m-1]
    BY <2>1
  <2>3. w[m] \in C
    BY <1>5, <1>6, <2>2 DEF ClosedIn
  <2>4. D[w[m-1]][w[m]] <= g[w[m-1]][w[m]]
    BY <1>5, <2>2, <2>3 DEF Closing
  <2>5. D[w[1]][w[m]] <= D[w[1]][w[m-1]] + D[w[m-1]][w[m]]
    BY <2>2, <2>3 DEF Closing
  <2>6. D[w[1]][w[m]] \in Nat /\ D[w[1]][w[m-1]] \in Nat /\ D[w[m-1]][w[m]] \in Nat
    BY <2>2, <2>3 DEF Closing
  <2> QED BY <1>3, <1>5, <1>6, <1>7, <2>2, <2>3, <2>4, <2>5, <2>6
<1> QED BY <1>8, <1>9

(* A walk that leaves C ends in C, and the matrix has its end and a length *)
(* that is not above.                                                      *)
LEMMA WalkAbove ==
  ASSUME NEW g \in Graphs, NEW C, ClosedIn(g, C), NEW D, Closing(g, C, C, D),
         NEW a \in C, NEW b \in Station, a # b, NEW d, Reached(g, a, b, d)
  PROVE  b \in C /\ D[a][b] # Invalid /\ D[a][b] <= d
<1>1. g \in FootGraph /\ Invalid \in Nat \ {0}
  BY FootAssumption DEF FootGraph
<1>2. ASSUME NEW e, Reached(g, a, b, e) PROVE b \in C /\ D[a][b] <= e /\ e \in Nat
  <2>1. PICK n \in Nat \ {0} : \E w \in [1..n -> Station], l \in [1..n -> Nat] :
          Walk(g, w, n) /\ LengthOf(g, w, n, l) /\ w[1] = a /\ w[n] = b /\ l[n] = e
    BY <1>2 DEF Reached
  <2>2. PICK w \in [1..n -> Station], l \in [1..n -> Nat] :
          Walk(g, w, n) /\ LengthOf(g, w, n, l) /\ w[1] = a /\ w[n] = b /\ l[n] = e
    BY <2>1
  <2>3. n # 1
    BY <2>2
  <2>4. \A i \in 2..n : w[i] \in C /\ D[w[1]][w[i]] <= l[i]
    BY <1>1, <2>2, BelowEveryWalk
  <2>5. n \in 2..n /\ n \in 1..n
    BY <2>3
  <2> QED BY <2>2, <2>4, <2>5
<1> DEFINE S == {e \in Nat : Reached(g, a, b, e)}
<1>3. S # {} /\ S \in SUBSET Nat
  BY <1>2
<1>4. PICK e \in S : \A x \in S : e <= x
  <2> HIDE DEF S
  <2> QED BY <1>3, Least
<1>5. e < Invalid
  BY <1>4, ShortestIsSimple
<1>6. b \in C /\ D[a][b] <= e /\ e \in Nat /\ D[a][b] <= d
  BY <1>2, <1>4
<1>7. D[a][b] \in Nat
  BY <1>1, <1>6 DEF Closing
<1> QED BY <1>1, <1>5, <1>6, <1>7

LEMMA WalkReached ==
  ASSUME NEW g \in Graphs, NEW a, NEW b, NEW w \in Walks(g, a, b)
  PROVE  WalkLength(g, w) \in Nat /\ Reached(g, a, b, WalkLength(g, w))
<1>1. g \in FootGraph /\ NStations \in Nat
  BY FootAssumption DEF FootGraph
<1>2. PICK n \in 2..NStations : Walk(g, w, n) /\ w[1] = a /\ w[n] = b
  BY WalkOf
<1>3. n \in Nat \ {0} /\ n \in 1..n /\ w \in [1..n -> Station]
  BY <1>1, <1>2 DEF Walk
<1>4. PICK l : LengthOf(g, w, n, l)
  BY <1>1, <1>2, <1>3, LengthExists
<1>5. WalkLength(g, w) = l[n] /\ l \in [1..n -> Nat]
  <2>1. WalkLength(g, w) = l[n]
    BY <1>1, <1>2, <1>3, <1>4, LengthIs
  <2> QED BY <1>4, <2>1 DEF LengthOf
<1>6. \E v \in [1..n -> Station], k \in [1..n -> Nat] :
        Walk(g, v, n) /\ LengthOf(g, v, n, k) /\ v[1] = a /\ v[n] = b /\ k[n] = WalkLength(g, w)
  BY <1>2, <1>3, <1>4, <1>5
<1>7. Reached(g, a, b, WalkLength(g, w))
  BY <1>3, <1>6, Zenon DEF Reached
<1> QED BY <1>3, <1>5, <1>7

(* Its entries are the lengths of the shortest walks.                      *)
LEMMA EntryIsShortest ==
  ASSUME NEW g \in Graphs, NEW C, ClosedIn(g, C), NEW D, Closing(g, C, C, D),
         NEW a \in C, NEW b \in C, a # b, D[a][b] # Invalid
  PROVE  /\ Walks(g, a, b) # {}
         /\ MinOf({WalkLength(g, w) : w \in Walks(g, a, b)}) = D[a][b]
<1>1. b \in Station
  BY DEF ClosedIn
<1>2. Reached(g, a, b, D[a][b])
  BY DEF Closing
<1>3. \A e : Reached(g, a, b, e) => D[a][b] <= e
  BY <1>1, WalkAbove
<1>4. \E w \in Walks(g, a, b) : WalkLength(g, w) = D[a][b]
  BY <1>2, <1>3, ShortestIsSimple
<1> DEFINE S == {WalkLength(g, w) : w \in Walks(g, a, b)}
<1>5. S \in SUBSET Nat /\ \A y \in S : D[a][b] <= y
  BY <1>3, WalkReached
<1>6. D[a][b] \in S /\ Walks(g, a, b) # {}
  BY <1>4
<1> HIDE DEF S
<1>7. MinOf(S) = D[a][b]
  BY <1>5, <1>6, MinOfIs
<1> QED BY <1>6, <1>7 DEF S

(* The footpaths read off it are those of the closure that leave C.        *)
ReadOff(C, D) ==
  {Footpath(p[1], p[2], D[p[1]][p[2]]) :
     p \in {q \in C \X C : q[1] # q[2] /\ D[q[1]][q[2]] # Invalid}}

LEMMA ReadOffIsClosure ==
  ASSUME NEW g \in Graphs, NEW C, ClosedIn(g, C), NEW D, Closing(g, C, C, D)
  PROVE  ReadOff(C, D) = {f \in Closure(g) : f.from \in C}
<1>1. C \subseteq Station
  BY DEF ClosedIn
<1>2. ASSUME NEW f \in ReadOff(C, D) PROVE f \in Closure(g) /\ f.from \in C
  <2>1. PICK p \in {q \in C \X C : q[1] # q[2] /\ D[q[1]][q[2]] # Invalid} :
          f = Footpath(p[1], p[2], D[p[1]][p[2]])
    BY DEF ReadOff
  <2>2. p[1] \in C /\ p[2] \in C /\ p[2] \in Station /\ p[1] # p[2] /\ D[p[1]][p[2]] # Invalid
    BY <1>1, <2>1
  <2>3. /\ Walks(g, p[1], p[2]) # {}
        /\ MinOf({WalkLength(g, w) : w \in Walks(g, p[1], p[2])}) = D[p[1]][p[2]]
    BY <2>2, EntryIsShortest
  <2>4. p \in {q \in Station \X Station : q[1] # q[2] /\ Walks(g, q[1], q[2]) # {}}
    BY <1>1, <2>1, <2>3
  <2>5. f = Footpath(p[1], p[2], MinOf({WalkLength(g, w) : w \in Walks(g, p[1], p[2])}))
    BY <2>1, <2>3
  <2>6. f \in Closure(g)
    BY <2>4, <2>5 DEF Closure
  <2> QED BY <2>1, <2>2, <2>6 DEF Footpath
<1>3. ASSUME NEW f \in Closure(g), f.from \in C PROVE f \in ReadOff(C, D)
  <2>1. PICK p \in {q \in Station \X Station : q[1] # q[2] /\ Walks(g, q[1], q[2]) # {}} :
          f = Footpath(p[1], p[2], MinOf({WalkLength(g, w) : w \in Walks(g, p[1], p[2])}))
    BY DEF Closure
  <2>2. p[1] \in C /\ p[2] \in Station /\ p[1] # p[2] /\ Walks(g, p[1], p[2]) # {}
    BY <1>3, <2>1 DEF Footpath
  <2>3. p[2] \in C /\ D[p[1]][p[2]] # Invalid
    <3>1. PICK w : w \in Walks(g, p[1], p[2])
      BY <2>2
    <3>2. Reached(g, p[1], p[2], WalkLength(g, w))
      BY <3>1, WalkReached
    <3> QED BY <2>2, <3>2, WalkAbove
  <2>4. MinOf({WalkLength(g, w) : w \in Walks(g, p[1], p[2])}) = D[p[1]][p[2]]
    BY <2>2, <2>3, EntryIsShortest
  <2>5. p \in {q \in C \X C : q[1] # q[2] /\ D[q[1]][q[2]] # Invalid}
    BY <2>1, <2>2, <2>3
  <2>6. f = Footpath(p[1], p[2], D[p[1]][p[2]])
    BY <2>1, <2>4
  <2> QED BY <2>5, <2>6 DEF ReadOff
<1> QED BY <1>2, <1>3

(* A round of floyd_warshall.                                              *)
RelaxedOver(C, D, k) ==
  [a \in C |-> [b \in C |-> Min2(D[a][b], D[a][k] + D[k][b])]]

LEMMA RoundCloses ==
  ASSUME NEW g \in FootGraph, NEW C, C \subseteq Station, NEW K \in SUBSET C, NEW k \in C,
         NEW D, Closing(g, C, K, D), Invalid \in Nat
  PROVE  Closing(g, C, K \cup {k}, RelaxedOver(C, D, k))
<1> DEFINE E == RelaxedOver(C, D, k)
<1>1. ASSUME NEW a \in C, NEW b \in C PROVE D[a][b] \in Nat /\ D[a][b] <= Invalid
  BY DEF Closing
<1>2. ASSUME NEW a \in C, NEW b \in C
      PROVE  /\ E[a][b] = D[a][b] \/ E[a][b] = D[a][k] + D[k][b]
             /\ E[a][b] <= D[a][b] /\ E[a][b] <= D[a][k] + D[k][b]
             /\ E[a][b] \in Nat
  <2>1. E[a][b] = Min2(D[a][b], D[a][k] + D[k][b])
    BY DEF RelaxedOver
  <2>2. D[a][b] \in Nat /\ D[a][k] \in Nat /\ D[k][b] \in Nat
    BY <1>1
  <2> HIDE DEF E
  <2> QED BY <2>1, <2>2 DEF Min2
<1>3. E \in [C -> [C -> 0..Invalid]]
  <2>1. ASSUME NEW a \in C, NEW b \in C PROVE E[a][b] \in 0..Invalid
    <3>1. E[a][b] \in Nat /\ E[a][b] <= D[a][b] /\ D[a][b] \in Nat /\ D[a][b] <= Invalid
      BY <1>1, <1>2
    <3> HIDE DEF E
    <3> QED BY <3>1
  <2>2. E = [a \in C |-> [b \in C |-> E[a][b]]]
    BY DEF RelaxedOver
  <2> HIDE DEF E
  <2> QED BY <2>1, <2>2
<1> HIDE DEF E
<1>4. ASSUME NEW a \in C, NEW b \in C, g[a][b] # 0 PROVE E[a][b] <= g[a][b]
  <2>1. E[a][b] <= D[a][b] /\ E[a][b] \in Nat /\ D[a][b] \in Nat /\ D[a][b] <= g[a][b]
    BY <1>1, <1>2, <1>4 DEF Closing
  <2>2. g[a][b] \in Nat
    BY DEF FootGraph
  <2> QED BY <2>1, <2>2
<1>5. ASSUME NEW a \in C, NEW b \in C, NEW j \in K \cup {k}
      PROVE  E[a][b] <= E[a][j] + E[j][b]
  <2>1. j \in C
    BY <1>5
  <2>2. /\ D[a][b] \in Nat /\ D[a][k] \in Nat /\ D[k][b] \in Nat /\ D[a][j] \in Nat
        /\ D[j][b] \in Nat /\ D[k][j] \in Nat /\ D[j][k] \in Nat /\ D[k][k] \in Nat
    BY <1>1, <2>1
  <2>3. /\ E[a][b] \in Nat /\ E[a][j] \in Nat /\ E[j][b] \in Nat
        /\ E[a][b] <= D[a][b] /\ E[a][b] <= D[a][k] + D[k][b]
        /\ E[a][j] = D[a][j] \/ E[a][j] = D[a][k] + D[k][j]
        /\ E[j][b] = D[j][b] \/ E[j][b] = D[j][k] + D[k][b]
    BY <1>2, <2>1
  <2>4. CASE j = k
    <3>1. E[a][k] = D[a][k] \/ E[a][k] = D[a][k] + D[k][k]
      BY <2>3, <2>4
    <3>2. E[k][b] = D[k][b] \/ E[k][b] = D[k][k] + D[k][b]
      BY <2>3, <2>4
    <3>3. E[a][k] >= D[a][k] /\ E[k][b] >= D[k][b] /\ E[a][k] \in Nat /\ E[k][b] \in Nat
      BY <2>2, <2>3, <2>4, <3>1, <3>2
    <3> QED BY <2>2, <2>3, <2>4, <3>3
  <2>5. CASE j # k
    <3>1. /\ D[a][b] <= D[a][j] + D[j][b]
          /\ D[a][k] <= D[a][j] + D[j][k]
          /\ D[k][b] <= D[k][j] + D[j][b]
      BY <1>5, <2>5, <2>1 DEF Closing
    <3> QED BY <2>2, <2>3, <3>1
  <2> QED BY <2>4, <2>5
<1>6. ASSUME NEW a \in C, NEW b \in C, a # b, E[a][b] # Invalid
      PROVE  Reached(g, a, b, E[a][b])
  <2>1. CASE E[a][b] = D[a][b]
    BY <1>6, <2>1 DEF Closing
  <2>2. CASE E[a][b] # D[a][b]
    <3>1. /\ E[a][b] = D[a][k] + D[k][b] /\ E[a][b] <= D[a][b] /\ E[a][b] \in Nat
          /\ D[a][k] \in Nat /\ D[k][b] \in Nat /\ D[a][b] \in Nat /\ D[a][b] <= Invalid
      BY <1>1, <1>2, <2>2
    <3>2. a # k /\ b # k
      BY <2>2, <3>1
    <3>3. D[a][k] # Invalid /\ D[k][b] # Invalid
      BY <2>2, <3>1
    <3>4. Reached(g, a, k, D[a][k]) /\ Reached(g, k, b, D[k][b])
      BY <3>2, <3>3 DEF Closing
    <3>5. Reached(g, a, b, D[a][k] + D[k][b])
      BY <3>4, Joined
    <3> QED BY <3>1, <3>5
  <2> QED BY <2>1, <2>2
<1>7. Closing(g, C, K \cup {k}, E)
  BY <1>3, <1>4, <1>5, <1>6 DEF Closing
<1> QED BY <1>7 DEF E

-----------------------------------------------------------------------------
(* Where the processing stands: the matrices in work are closed over the   *)
(* stations relaxed, and the footpaths stored are those of the closure that*)
(* leave a component already processed.                                    *)
MembersOf(comp, c) == {j \in Station : comp[j] = c}

Working(g, comp, M, L) ==
  \A c \in DOMAIN M :
    /\ L[c] \subseteq MembersOf(comp, c)
    /\ Closing(g, MembersOf(comp, c), MembersOf(comp, c) \ L[c], M[c])

Finished(g, comp, R, P) == P = {f \in Closure(g) : comp[f.from] \notin R}

ClosureInv ==
  /\ StoreInv /\ TypeInv
  /\ phase = "components" => ranges = {} /\ DOMAIN mat = {} /\ Paths = {}
  /\ phase = "done" => ranges = {} /\ DOMAIN mat = {}
  /\ DOMAIN mat \cap ranges = {}
  /\ Symmetric /\ phase # "components" =>
       /\ Working(dur, component, mat, left)
       /\ Finished(dur, component, ranges \cup DOMAIN mat, Paths)

LEMMA ClosureFrom ==
  ASSUME NEW g, NEW f \in Closure(g)
  PROVE  f.from \in Station /\ \E b \in Station : Walks(g, f.from, b) # {}
<1>1. PICK p \in {q \in Station \X Station : q[1] # q[2] /\ Walks(g, q[1], q[2]) # {}} :
        f = Footpath(p[1], p[2], MinOf({WalkLength(g, w) : w \in Walks(g, p[1], p[2])}))
  BY DEF Closure
<1>2. f.from = p[1]
  BY <1>1 DEF Footpath
<1> QED BY <1>1, <1>2

LEMMA MembersClosed ==
  ASSUME Inv, Symmetric, phase # "components", NEW c
  PROVE  ClosedIn(dur, Members(c))
BY ClosedEdges DEF ComponentsClosed, ClosedIn, Members

(* No footpath leaves stations without foot edges.                         *)
LEMMA Edgeless ==
  ASSUME NEW g, NEW C, \A a \in C : \A b \in Station : g[a][b] = 0
  PROVE  {f \in Closure(g) : f.from \in C} = {}
<1> SUFFICES ASSUME NEW f \in Closure(g), f.from \in C PROVE FALSE
  OBVIOUS
<1>1. PICK b \in Station : Walks(g, f.from, b) # {}
  BY ClosureFrom
<1>2. PICK w : w \in Walks(g, f.from, b)
  BY <1>1
<1>3. PICK n \in 2..NStations : Walk(g, w, n) /\ w[1] = f.from /\ w[n] = b
  BY <1>2, WalkOf
<1>4. 1 \in 1..n - 1 /\ 1 + 1 = 2 /\ 2 \in 1..n
  BY <1>3
<1>5. g[w[1]][w[2]] # 0 /\ w[2] \in Station
  BY <1>3, <1>4 DEF Walk
<1> QED BY <1>3, <1>5

(* A component more is finished when its footpaths are added.              *)
LEMMA OneMore ==
  ASSUME NEW g, NEW comp, NEW R, NEW P, Finished(g, comp, R, P), NEW c, NEW R1, NEW P1,
         R1 = R \ {c},
         P1 = P \cup {f \in Closure(g) : f.from \in MembersOf(comp, c)}
  PROVE  Finished(g, comp, R1, P1)
<1>1. \A f \in Closure(g) : f.from \in MembersOf(comp, c) <=> comp[f.from] = c
  BY ClosureFrom DEF MembersOf
<1>2. \A f : f \in P <=> f \in Closure(g) /\ comp[f.from] \notin R
  BY DEF Finished
<1>3. c \notin R => R1 = R
  OBVIOUS
<1>4. \A f : f \in P1 <=> f \in Closure(g) /\ comp[f.from] \notin R1
  BY <1>1, <1>2
<1> QED BY <1>4 DEF Finished

(* The component of a pair: the two edges, or none.                        *)
LEMMA PairFinished ==
  ASSUME StoreInv, Symmetric, NEW c \in Station, ProcessPair(c)
  PROVE  Paths' = Paths \cup {f \in Closure(dur) : f.from \in Members(c)}
<1>1. /\ Inv /\ phase = "process" /\ Cardinality(Members(c)) = 2 /\ Members(c) \subseteq Station
      /\ dur \in Graphs /\ DOMAIN outgoing = Station
  BY DEF StoreInv, ProcessPair, Members
<1>2. PICK a, b \in Members(c) : /\ Members(c) = {a, b} /\ a # b
                                 /\ MinOf(Members(c)) = a /\ MaxOf(Members(c)) = b
  BY <1>1, TwoMembers
<1> DEFINE taken == {x \in {a, b} : Cardinality(Out(x)) = 1 /\ Cardinality(Out(a)) <= 1}
           other(x) == IF x = a THEN b ELSE a
           path(x) == Footpath(x, MinOf(Out(x)), dur[x][MinOf(Out(x))])
           F == {[path |-> path(x), into |-> other(x)] : x \in taken}
           D == [x \in {a, b} |-> [y \in {a, b} |->
                   IF x = y THEN 0 ELSE IF dur[x][y] # 0 THEN dur[x][y] ELSE Invalid]]
<1>3. AddFootpaths(F)
  BY <1>2 DEF ProcessPair
<1>4. a \in Station /\ b \in Station /\ ClosedIn(dur, {a, b}) /\ dur \in FootGraph
  <2>1. ClosedIn(dur, Members(c))
    BY <1>1, MembersClosed
  <2> QED BY <1>1, <1>2, <2>1 DEF Inv, Types, FootGraph
<1>5. /\ Invalid \in Nat \ {0} /\ dur[a][a] = 0 /\ dur[b][b] = 0
      /\ dur[a][b] \in 0..Invalid - 1 /\ dur[b][a] \in 0..Invalid - 1
      /\ dur[a][b] # 0 <=> dur[b][a] # 0
  BY <1>1, <1>4, FootAssumption DEF Symmetric
<1>6. Out(a) \subseteq {b} /\ Out(b) \subseteq {a}
  BY <1>4, <1>5 DEF ClosedIn, Out
<1>7. Closing(dur, {a, b}, {a, b}, D)
  <2>1. D \in [{a, b} -> [{a, b} -> 0..Invalid]]
    BY <1>2, <1>5
  <2>2. D[a][a] = 0 /\ D[b][b] = 0
    OBVIOUS
  <2>3. /\ D[a][b] = IF dur[a][b] # 0 THEN dur[a][b] ELSE Invalid
        /\ D[b][a] = IF dur[b][a] # 0 THEN dur[b][a] ELSE Invalid
    BY <1>2
  <2> HIDE DEF D
  <2>4. \A x, y \in {a, b} : dur[x][y] # 0 => D[x][y] <= dur[x][y]
    BY <1>5, <2>3
  <2>5. D[a][b] \in Nat /\ D[b][a] \in Nat
    BY <1>5, <2>3
  <2>6. \A x, y \in {a, b} : \A k \in {a, b} : D[x][y] <= D[x][k] + D[k][y]
    BY <2>2, <2>5
  <2>7. \A x, y \in {a, b} : x # y /\ D[x][y] # Invalid => Reached(dur, x, y, D[x][y])
    BY <1>4, <2>3, EdgeReached
  <2> QED BY <2>1, <2>4, <2>6, <2>7 DEF Closing
<1>8. ReadOff({a, b}, D) = {f \in Closure(dur) : f.from \in {a, b}}
  <2> HIDE DEF D
  <2> QED BY <1>1, <1>4, <1>7, ReadOffIsClosure
<1>9. {f.path : f \in F} = {path(x) : x \in taken}
  <2> HIDE DEF path, other, taken
  <2>1. \A x \in taken : [path |-> path(x), into |-> other(x)].path = path(x)
    OBVIOUS
  <2> QED BY <2>1
<1>10. \A f \in F : f.path.from \in Station
  BY <1>4 DEF Footpath
<1>11. {path(x) : x \in taken} = ReadOff({a, b}, D)
  <2>1. CASE dur[a][b] # 0
    <3>1. Out(a) = {b} /\ Out(b) = {a}
      BY <1>4, <1>5, <1>6, <2>1 DEF Out
    <3>2. Cardinality({a}) = 1 /\ Cardinality({b}) = 1
      BY FS_Singleton
    <3>3. MinOf({a}) = a /\ MinOf({b}) = b
      BY <1>4 DEF MinOf, Station
    <3>4. taken = {a, b}
      BY <3>1, <3>2
    <3>5. path(a) = Footpath(a, b, dur[a][b]) /\ path(b) = Footpath(b, a, dur[b][a])
      BY <3>1, <3>3
    <3>6. {path(x) : x \in taken} = {Footpath(a, b, dur[a][b]), Footpath(b, a, dur[b][a])}
      BY <3>4, <3>5
    <3>7. D[a][b] = dur[a][b] /\ D[b][a] = dur[b][a] /\ D[a][b] # Invalid /\ D[b][a] # Invalid
      BY <1>2, <1>5, <2>1
    <3> HIDE DEF D
    <3>8. {q \in {a, b} \X {a, b} : q[1] # q[2] /\ D[q[1]][q[2]] # Invalid} = {<<a, b>>, <<b, a>>}
      BY <1>2, <3>7
    <3>9. ReadOff({a, b}, D) = {Footpath(a, b, D[a][b]), Footpath(b, a, D[b][a])}
      <4>1. {Footpath(p[1], p[2], D[p[1]][p[2]]) : p \in {<<a, b>>, <<b, a>>}}
              = {Footpath(a, b, D[a][b]), Footpath(b, a, D[b][a])}
        OBVIOUS
      <4> QED BY <3>8, <4>1 DEF ReadOff
    <3> QED BY <3>6, <3>7, <3>9
  <2>2. CASE dur[a][b] = 0
    <3>1. Out(a) = {} /\ Out(b) = {}
      BY <1>4, <1>5, <1>6, <2>2 DEF Out
    <3>2. taken = {}
      BY <3>1, FS_EmptySet
    <3>3. D[a][b] = Invalid /\ D[b][a] = Invalid
      BY <1>2, <1>5, <2>2
    <3> HIDE DEF D
    <3>4. {q \in {a, b} \X {a, b} : q[1] # q[2] /\ D[q[1]][q[2]] # Invalid} = {}
      BY <3>3
    <3>5. ReadOff({a, b}, D) = {}
      BY <3>4 DEF ReadOff
    <3>6. {path(x) : x \in taken} = {}
      BY <3>2
    <3> QED BY <3>5, <3>6
  <2> QED BY <2>1, <2>2
<1> HIDE DEF F, D, taken
<1>12. Paths' = Paths \cup {f.path : f \in F}
  BY <1>1, <1>3, <1>10, AddPaths
<1> QED BY <1>2, <1>8, <1>9, <1>11, <1>12

(* The matrix of a larger component starts with its edges: none is astray. *)
LEMMA StartCloses ==
  ASSUME NEW C, dur \in Graphs, ClosedIn(dur, C)
  PROVE  Closing(dur, C, {}, [a \in C |-> [b \in C |-> Cell(C, a, b)]])
<1> DEFINE D == [a \in C |-> [b \in C |-> Cell(C, a, b)]]
<1>1. /\ Invalid \in Nat \ {0} /\ dur \in [Station -> [Station -> 0..Invalid - 1]]
      /\ NStations \in Nat /\ C \subseteq Station /\ C \subseteq Nat
  BY FootAssumption DEF ClosedIn, Station
<1>2. ASSUME NEW a \in C PROVE Stray(C, a) = {}
  BY DEF Stray, Out, ClosedIn
<1>3. ASSUME NEW a \in C, a # MinOf(C) PROVE Prev(C, a) \in C
  <2> DEFINE S == {x \in C : x < a}
             T == {NStations - x : x \in S}
  <2>1. S # {}
    <3>1. PICK m \in C : \A x \in C : m <= x
      BY <1>1, Least
    <3>2. MinOf(C) = m
      BY <1>1, <3>1, MinOfIs
    <3>3. m \in Nat /\ a \in Nat /\ m <= a /\ m # a
      BY <1>1, <1>3, <3>1, <3>2
    <3> QED BY <3>3
  <2>2. \A x \in S : x \in C /\ x \in Nat /\ x <= NStations
    BY <1>1 DEF Station
  <2>3. T \in SUBSET Nat /\ T # {}
    <3>1. \A x \in S : NStations - x \in Nat
      BY <1>1, <2>2
    <3> HIDE DEF S
    <3> QED BY <2>1, <3>1
  <2> HIDE DEF S
  <2>4. PICK t \in T : \A y \in T : t <= y
    <3> HIDE DEF T
    <3> QED BY <2>3, Least
  <2>5. PICK x \in S : t = NStations - x
    BY <2>4
  <2>6. \A y \in S : x >= y
    <3> SUFFICES ASSUME NEW y \in S PROVE x >= y
      OBVIOUS
    <3>1. NStations - x <= NStations - y
      BY <2>4, <2>5
    <3> QED BY <1>1, <2>2, <3>1
  <2>7. MaxOf(S) \in S
    BY <2>5, <2>6 DEF MaxOf
  <2> QED BY <2>2, <2>7 DEF Prev, S
<1>4. ASSUME NEW a \in C, NEW b \in C
      PROVE  Cell(C, a, b) = IF dur[a][b] # 0 THEN dur[a][b] ELSE Invalid
  <2>1. b \in Out(a) <=> dur[a][b] # 0
    BY <1>1 DEF Out
  <2>2. a # MinOf(C) => Stray(C, Prev(C, a)) = {}
    BY <1>2, <1>3
  <2> QED BY <1>2, <2>1, <2>2 DEF Cell
<1>5. ASSUME NEW a \in C, NEW b \in C
      PROVE  D[a][b] = IF dur[a][b] # 0 THEN dur[a][b] ELSE Invalid
  BY <1>4
<1>6. D \in [C -> [C -> 0..Invalid]]
  <2>1. ASSUME NEW a \in C, NEW b \in C PROVE Cell(C, a, b) \in 0..Invalid
    <3>1. dur[a][b] \in 0..Invalid - 1
      BY <1>1
    <3> QED BY <1>1, <1>4, <3>1
  <2> QED BY <2>1
<1> HIDE DEF D
<1>7. ASSUME NEW a \in C, NEW b \in C, a # b, D[a][b] # Invalid
      PROVE  Reached(dur, a, b, D[a][b])
  <2>1. dur[a][b] # 0 /\ D[a][b] = dur[a][b]
    BY <1>5, <1>7
  <2>2. dur \in FootGraph /\ a \in Station /\ b \in Station
    BY <1>1 DEF FootGraph
  <2> QED BY <2>1, <2>2, EdgeReached
<1>8. ASSUME NEW a \in C, NEW b \in C, dur[a][b] # 0 PROVE D[a][b] <= dur[a][b]
  <2>1. dur[a][b] \in Nat
    BY <1>1
  <2> QED BY <1>5, <1>8, <2>1
<1>9. Closing(dur, C, {}, D)
  BY <1>6, <1>7, <1>8 DEF Closing
<1> QED BY <1>9 DEF D

-----------------------------------------------------------------------------
(* The processing of a component that is taken up.                         *)
LEMMA PairStep ==
  ASSUME ClosureInv, Symmetric, NEW c \in Station, ProcessPair(c)
  PROVE  /\ Working(dur', component', mat', left')
         /\ Finished(dur', component', ranges' \cup DOMAIN mat', Paths')
<1>1. /\ Working(dur, component, mat, left) /\ StoreInv
      /\ Finished(dur, component, ranges \cup DOMAIN mat, Paths)
      /\ DOMAIN mat \cap ranges = {} /\ c \in ranges
  BY DEF ClosureInv, ProcessPair
<1>2. /\ dur' = dur /\ component' = component /\ mat' = mat /\ left' = left
      /\ ranges' = ranges \ {c}
  BY DEF ProcessPair, searchVars, matrixVars
<1>3. Paths' = Paths \cup {f \in Closure(dur) : f.from \in MembersOf(component, c)}
  BY <1>1, PairFinished DEF Members, MembersOf
<1>4. ranges' \cup DOMAIN mat' = (ranges \cup DOMAIN mat) \ {c}
  BY <1>1, <1>2
<1>5. Finished(dur, component, ranges' \cup DOMAIN mat', Paths')
  BY <1>1, <1>3, <1>4, OneMore
<1> QED BY <1>1, <1>2, <1>5

LEMMA NoneStep ==
  ASSUME ClosureInv, Symmetric, NEW c, ProcessSingle(c) \/ (c = 0 /\ SkipNoComponent)
  PROVE  /\ Working(dur', component', mat', left')
         /\ Finished(dur', component', ranges' \cup DOMAIN mat', Paths')
<1>1. /\ Working(dur, component, mat, left) /\ Inv /\ dur \in Graphs
      /\ Finished(dur, component, ranges \cup DOMAIN mat, Paths)
      /\ DOMAIN mat \cap ranges = {} /\ c \in ranges /\ phase = "process"
  BY DEF ClosureInv, StoreInv, ProcessSingle, SkipNoComponent
<1>2. /\ dur' = dur /\ component' = component /\ mat' = mat /\ left' = left
      /\ ranges' = ranges \ {c} /\ outgoing' = outgoing
  BY DEF ProcessSingle, SkipNoComponent, searchVars, matrixVars, resultVars
<1>3. \A a \in Members(c) : \A b \in Station : dur[a][b] = 0
  <2> SUFFICES ASSUME NEW a \in Members(c), NEW b \in Station, dur[a][b] # 0 PROVE FALSE
    OBVIOUS
  <2>1. a \in Station /\ component[a] = c /\ c # 0 /\ component[b] = c
    BY <1>1, ClosedEdges DEF ComponentsClosed, Members
  <2>2. Cardinality(Members(c)) = 1
    BY <2>1 DEF ProcessSingle
  <2>3. IsFiniteSet(Members(c))
    <3>1. NStations \in Int
      BY FootAssumption
    <3>2. IsFiniteSet(Station)
      BY <3>1, FS_Interval DEF Station
    <3> QED BY <3>2, FS_Subset DEF Members
  <2>4. \E x : Members(c) = {x}
    BY <2>2, <2>3, FS_Singleton
  <2>5. b \in Members(c)
    BY <2>1 DEF Members
  <2>6. a = b
    BY <2>4, <2>5
  <2> QED BY <1>1, <2>1, <2>6, FootAssumption
<1>4. {f \in Closure(dur) : f.from \in MembersOf(component, c)} = {}
  BY <1>3, Edgeless DEF Members, MembersOf
<1>5. Paths' = Paths \cup {f \in Closure(dur) : f.from \in MembersOf(component, c)}
  BY <1>2, <1>4 DEF Paths
<1>6. ranges' \cup DOMAIN mat' = (ranges \cup DOMAIN mat) \ {c}
  BY <1>1, <1>2
<1>7. Finished(dur, component, ranges' \cup DOMAIN mat', Paths')
  BY <1>1, <1>5, <1>6, OneMore
<1> QED BY <1>1, <1>2, <1>7

LEMMA StartStep ==
  ASSUME ClosureInv, Symmetric, NEW c \in Station, StartMatrix(c)
  PROVE  /\ Working(dur', component', mat', left')
         /\ Finished(dur', component', ranges' \cup DOMAIN mat', Paths')
<1>1. /\ Working(dur, component, mat, left) /\ Inv /\ dur \in Graphs
      /\ Finished(dur, component, ranges \cup DOMAIN mat, Paths)
      /\ c \in ranges /\ phase = "process"
  BY DEF ClosureInv, StoreInv, StartMatrix
<1> DEFINE C == Members(c)
<1>2. /\ dur' = dur /\ component' = component
      /\ ranges' = ranges \ {c} /\ outgoing' = outgoing
  BY DEF StartMatrix, searchVars
<1>3. /\ DOMAIN mat' = DOMAIN mat \cup {c}
      /\ mat'[c] = [a \in C |-> [b \in C |-> Cell(C, a, b)]] /\ left'[c] = C
      /\ \A x \in DOMAIN mat : x # c => mat'[x] = mat[x] /\ left'[x] = left[x]
  BY DEF StartMatrix
<1>4. ranges' \cup DOMAIN mat' = ranges \cup DOMAIN mat
  BY <1>1, <1>2, <1>3
<1>5. Paths' = Paths
  BY <1>2 DEF Paths
<1>6. Finished(dur', component', ranges' \cup DOMAIN mat', Paths')
  BY <1>1, <1>2, <1>4, <1>5
<1>7. ClosedIn(dur, C)
  BY <1>1, MembersClosed
<1>8. Closing(dur, C, {}, mat'[c])
  BY <1>1, <1>3, <1>7, StartCloses
<1>9. Closing(dur, C, C \ left'[c], mat'[c]) /\ left'[c] \subseteq C
  <2>1. C \ left'[c] = {}
    BY <1>3
  <2> QED BY <1>3, <1>8, <2>1
<1>10. C = MembersOf(component, c)
  BY DEF Members, MembersOf
<1> HIDE DEF C
<1>11. Working(dur, component, mat', left')
  <2> SUFFICES ASSUME NEW x \in DOMAIN mat'
               PROVE  /\ left'[x] \subseteq MembersOf(component, x)
                      /\ Closing(dur, MembersOf(component, x),
                                 MembersOf(component, x) \ left'[x], mat'[x])
    BY DEF Working
  <2>1. CASE x = c
    BY <1>9, <1>10, <2>1
  <2>2. CASE x # c
    <3>1. x \in DOMAIN mat /\ mat'[x] = mat[x] /\ left'[x] = left[x]
      BY <1>3, <2>2
    <3> QED BY <1>1, <3>1 DEF Working
  <2> QED BY <2>1, <2>2
<1> QED BY <1>2, <1>6, <1>11

LEMMA RelaxStep ==
  ASSUME ClosureInv, Symmetric, NEW c \in Station, RelaxOver(c)
  PROVE  /\ Working(dur', component', mat', left')
         /\ Finished(dur', component', ranges' \cup DOMAIN mat', Paths')
<1>1. /\ Working(dur, component, mat, left) /\ Inv /\ dur \in Graphs
      /\ Finished(dur, component, ranges \cup DOMAIN mat, Paths)
      /\ c \in DOMAIN mat /\ phase = "process" /\ left[c] # {} /\ DOMAIN left = DOMAIN mat
  BY DEF ClosureInv, StoreInv, TypeInv, TypeOK, RelaxOver
<1> DEFINE C == Members(c)
           k == MinOf(left[c])
<1>2. /\ dur' = dur /\ component' = component /\ ranges' = ranges /\ outgoing' = outgoing
  BY DEF RelaxOver, searchVars, resultVars
<1>3. /\ DOMAIN mat' = DOMAIN mat
      /\ mat'[c] = RelaxedOver(C, mat[c], k) /\ left'[c] = left[c] \ {k}
      /\ \A x \in DOMAIN mat : x # c => mat'[x] = mat[x] /\ left'[x] = left[x]
  BY <1>1 DEF RelaxOver, Relaxed, RelaxedOver
<1>4. Finished(dur', component', ranges' \cup DOMAIN mat', Paths')
  BY <1>1, <1>2, <1>3 DEF Paths
<1>5. C = MembersOf(component, c) /\ C \subseteq Station
  BY DEF Members, MembersOf
<1>6. left[c] \subseteq C /\ Closing(dur, C, C \ left[c], mat[c])
  BY <1>1, <1>5 DEF Working
<1>7. k \in left[c]
  <2>1. left[c] \in SUBSET Nat
    BY <1>5, <1>6 DEF Station
  <2>2. PICK m \in left[c] : \A x \in left[c] : m <= x
    BY <1>1, <2>1, Least
  <2>3. MinOf(left[c]) = m
    BY <2>1, <2>2, MinOfIs
  <2> QED BY <2>2, <2>3
<1> HIDE DEF C, k
<1>8. Closing(dur, C, (C \ left[c]) \cup {k}, mat'[c])
  <2>1. dur \in FootGraph /\ Invalid \in Nat
    BY <1>1, FootAssumption DEF Inv, Types, FootGraph
  <2>2. k \in C /\ C \ left[c] \in SUBSET C
    BY <1>6, <1>7
  <2> QED BY <1>3, <1>5, <1>6, <2>1, <2>2, RoundCloses
<1>9. (C \ left[c]) \cup {k} = C \ left'[c] /\ left'[c] \subseteq C
  BY <1>3, <1>6, <1>7
<1>10. Working(dur, component, mat', left')
  <2> SUFFICES ASSUME NEW x \in DOMAIN mat'
               PROVE  /\ left'[x] \subseteq MembersOf(component, x)
                      /\ Closing(dur, MembersOf(component, x),
                                 MembersOf(component, x) \ left'[x], mat'[x])
    BY DEF Working
  <2>1. CASE x = c
    BY <1>5, <1>8, <1>9, <2>1
  <2>2. CASE x # c
    <3>1. x \in DOMAIN mat /\ mat'[x] = mat[x] /\ left'[x] = left[x]
      BY <1>3, <2>2
    <3> QED BY <1>1, <3>1 DEF Working
  <2> QED BY <2>1, <2>2
<1> QED BY <1>2, <1>4, <1>10

LEMMA StoreStep ==
  ASSUME ClosureInv, Symmetric, NEW c \in Station, StoreMatrix(c)
  PROVE  /\ Working(dur', component', mat', left')
         /\ Finished(dur', component', ranges' \cup DOMAIN mat', Paths')
<1>1. /\ Working(dur, component, mat, left) /\ Inv /\ dur \in Graphs /\ DOMAIN outgoing = Station
      /\ Finished(dur, component, ranges \cup DOMAIN mat, Paths)
      /\ DOMAIN mat \cap ranges = {} /\ c \in DOMAIN mat /\ phase = "process" /\ left[c] = {}
  BY DEF ClosureInv, StoreInv, StoreMatrix
<1> DEFINE C == Members(c)
           P == {q \in C \X C : q[1] # q[2] /\ mat[c][q[1]][q[2]] # Invalid}
           path(p) == Footpath(p[1], p[2], mat[c][p[1]][p[2]])
           F == {[path |-> path(p), into |-> p[2]] : p \in P}
<1>2. /\ dur' = dur /\ component' = component /\ ranges' = ranges
      /\ mat' = [x \in DOMAIN mat \ {c} |-> mat[x]]
      /\ left' = [x \in DOMAIN mat \ {c} |-> left[x]]
      /\ AddFootpaths(F)
  BY DEF StoreMatrix, searchVars
<1>3. C = MembersOf(component, c) /\ C \subseteq Station
  BY DEF Members, MembersOf
<1>4. \A f \in F : f.path.from \in Station
  BY <1>3 DEF Footpath
<1>5. {f.path : f \in F} = {path(p) : p \in P}
  <2> HIDE DEF path, P
  <2>1. \A p \in P : [path |-> path(p), into |-> p[2]].path = path(p)
    OBVIOUS
  <2> QED BY <2>1
<1>6. {path(p) : p \in P} = ReadOff(C, mat[c])
  BY DEF ReadOff
<1>7. ReadOff(C, mat[c]) = {f \in Closure(dur) : f.from \in C}
  <2>1. Closing(dur, C, C \ {}, mat[c])
    BY <1>1, <1>3 DEF Working
  <2>2. C \ {} = C
    OBVIOUS
  <2>3. ClosedIn(dur, C)
    BY <1>1, MembersClosed
  <2> QED BY <1>1, <2>1, <2>2, <2>3, ReadOffIsClosure
<1> HIDE DEF F, P, C
<1>8. Paths' = Paths \cup {f.path : f \in F}
  BY <1>1, <1>2, <1>4, AddPaths
<1>9. Paths' = Paths \cup {f \in Closure(dur) : f.from \in MembersOf(component, c)}
  BY <1>3, <1>5, <1>6, <1>7, <1>8
<1>10. ranges' \cup DOMAIN mat' = (ranges \cup DOMAIN mat) \ {c}
  BY <1>1, <1>2
<1>11. Finished(dur, component, ranges' \cup DOMAIN mat', Paths')
  BY <1>1, <1>9, <1>10, OneMore
<1>12. Working(dur, component, mat', left')
  <2> SUFFICES ASSUME NEW x \in DOMAIN mat'
               PROVE  /\ left'[x] \subseteq MembersOf(component, x)
                      /\ Closing(dur, MembersOf(component, x),
                                 MembersOf(component, x) \ left'[x], mat'[x])
    BY DEF Working
  <2>1. x \in DOMAIN mat /\ mat'[x] = mat[x] /\ left'[x] = left[x]
    BY <1>2
  <2> QED BY <1>1, <2>1 DEF Working
<1> QED BY <1>2, <1>11, <1>12

LEMMA ClosureStep == ClosureInv /\ [Next]_vars => ClosureInv'
<1> SUFFICES ASSUME ClosureInv, [Next]_vars PROVE ClosureInv'
  OBVIOUS
<1>1. StoreInv' /\ TypeInv' /\ DOMAIN mat \cap ranges = {}
  BY StoreInvStep, TypeStep DEF ClosureInv
<1>2. dur' = dur
  BY DEF Next, SkipRoot, OpenComponent, DropVisited, Visit, EndComponents, ProcessPair,
         StartMatrix, RelaxOver, StoreMatrix, ProcessSingle, SkipNoComponent, EndProcess, vars
<1>3. Symmetric' = Symmetric
  BY <1>2 DEF Symmetric
<1>4. CASE SkipRoot \/ OpenComponent \/ DropVisited \/ Visit
  <2>1. phase = "components" /\ phase' = phase /\ ranges' = ranges /\ mat' = mat /\ outgoing' = outgoing
    BY <1>4 DEF SkipRoot, OpenComponent, DropVisited, Visit, matrixVars, resultVars
  <2>2. Paths' = Paths
    BY <2>1 DEF Paths
  <2> QED BY <1>1, <2>1, <2>2 DEF ClosureInv
<1>5. CASE EndComponents
  <2>1. /\ phase' = "process" /\ component' = component /\ mat' = mat /\ left' = left
        /\ ranges' = {component[j] : j \in Station} /\ outgoing' = outgoing
        /\ DOMAIN mat = {} /\ Paths = {}
    BY <1>5 DEF EndComponents, searchVars, matrixVars, resultVars, ClosureInv
  <2>2. Working(dur', component', mat', left')
    BY <2>1 DEF Working
  <2>3. Finished(dur', component', ranges' \cup DOMAIN mat', Paths')
    <3>1. Paths' = {}
      BY <2>1 DEF Paths
    <3>2. \A f \in Closure(dur) : component[f.from] \in ranges'
      BY <2>1, ClosureFrom
    <3> QED BY <1>2, <2>1, <3>1, <3>2 DEF Finished
  <2> QED BY <1>1, <2>1, <2>2, <2>3 DEF ClosureInv
<1>6. ASSUME phase = "process", phase' = "process", DOMAIN mat' \cap ranges' = {},
             Symmetric => /\ Working(dur', component', mat', left')
                          /\ Finished(dur', component', ranges' \cup DOMAIN mat', Paths')
      PROVE  ClosureInv'
  BY <1>1, <1>3, <1>6 DEF ClosureInv
<1>7. ASSUME NEW c \in Station, ProcessPair(c) PROVE ClosureInv'
  <2>1. /\ phase = "process" /\ phase' = "process" /\ DOMAIN mat' \cap ranges' = {}
    BY <1>1, <1>7 DEF ProcessPair, matrixVars
  <2> QED BY <1>6, <1>7, <2>1, PairStep
<1>8. ASSUME NEW c \in Station, StartMatrix(c) PROVE ClosureInv'
  <2>1. /\ phase = "process" /\ phase' = "process" /\ DOMAIN mat' \cap ranges' = {}
    <3>1. DOMAIN mat' = DOMAIN mat \cup {c} /\ ranges' = ranges \ {c}
      BY <1>8 DEF StartMatrix
    <3> QED BY <1>1, <1>8, <3>1 DEF StartMatrix
  <2> QED BY <1>6, <1>8, <2>1, StartStep
<1>9. ASSUME NEW c \in Station, RelaxOver(c) PROVE ClosureInv'
  <2>1. /\ phase = "process" /\ phase' = "process" /\ DOMAIN mat' \cap ranges' = {}
    <3>1. DOMAIN mat' = DOMAIN mat /\ ranges' = ranges
      BY <1>9 DEF RelaxOver
    <3> QED BY <1>1, <1>9, <3>1 DEF RelaxOver
  <2> QED BY <1>6, <1>9, <2>1, RelaxStep
<1>10. ASSUME NEW c \in Station, StoreMatrix(c) PROVE ClosureInv'
  <2>1. /\ phase = "process" /\ phase' = "process" /\ DOMAIN mat' \cap ranges' = {}
    <3>1. DOMAIN mat' = DOMAIN mat \ {c} /\ ranges' = ranges
      BY <1>10 DEF StoreMatrix
    <3> QED BY <1>1, <1>10, <3>1 DEF StoreMatrix
  <2> QED BY <1>6, <1>10, <2>1, StoreStep
<1>11. ASSUME NEW c \in Station, ProcessSingle(c) PROVE ClosureInv'
  <2>1. /\ phase = "process" /\ phase' = "process" /\ DOMAIN mat' \cap ranges' = {}
    BY <1>1, <1>11 DEF ProcessSingle, matrixVars
  <2> QED BY <1>6, <1>11, <2>1, NoneStep
<1>12. CASE SkipNoComponent
  <2>1. /\ phase = "process" /\ phase' = "process" /\ DOMAIN mat' \cap ranges' = {}
    BY <1>1, <1>12 DEF SkipNoComponent, matrixVars
  <2> QED BY <1>6, <1>12, <2>1, NoneStep
<1>13. CASE EndProcess
  <2>1. /\ phase = "process" /\ phase' = "done" /\ ranges' = ranges /\ mat' = mat /\ left' = left
        /\ component' = component /\ outgoing' = outgoing /\ ranges = {} /\ DOMAIN mat = {}
    BY <1>13 DEF EndProcess, searchVars, matrixVars, resultVars
  <2>2. Paths' = Paths
    BY <2>1 DEF Paths
  <2> QED BY <1>1, <1>2, <1>3, <2>1, <2>2 DEF ClosureInv
<1>14. CASE UNCHANGED vars
  <2>1. /\ phase' = phase /\ ranges' = ranges /\ mat' = mat /\ left' = left
        /\ component' = component /\ outgoing' = outgoing
    BY <1>14 DEF vars, searchVars, matrixVars, resultVars
  <2>2. Paths' = Paths
    BY <2>1 DEF Paths
  <2> QED BY <1>1, <1>2, <1>3, <2>1, <2>2 DEF ClosureInv
<1> QED BY <1>4, <1>5, <1>7, <1>8, <1>9, <1>10, <1>11, <1>12, <1>13, <1>14 DEF Next

(* For every number of stations and every graph in which every foot edge   *)
(* has one the other way round: when the components are processed, in      *)
(* whatever order, the footpaths are those of the transitive closure, each *)
(* with the duration of the shortest walk (transitivize_footpaths,         *)
(* floyd_warshall).                                                        *)
THEOREM ClosureComplete == Spec => []ClosedIfSymmetric
<1>1. Init => ClosureInv
  <2> SUFFICES ASSUME Init PROVE ClosureInv
    OBVIOUS
  <2>1. StoreInv
    BY InitInv DEF Init, StoreInv, Stored, Paths
  <2>2. TypeInv
    BY InitTypes
  <2>3. phase = "components" /\ ranges = {} /\ DOMAIN mat = {} /\ Paths = {}
    BY DEF Init, Paths
  <2> QED BY <2>1, <2>2, <2>3 DEF ClosureInv
<1>2. ClosureInv => ClosedIfSymmetric
  <2> SUFFICES ASSUME ClosureInv, Symmetric, phase = "done" PROVE Paths = Closure(dur)
    BY DEF ClosedIfSymmetric, TransitivelyClosed, Paths
  <2>1. Finished(dur, component, {}, Paths)
    BY DEF ClosureInv
  <2>2. Paths = Closure(dur)
    BY <2>1 DEF Finished
  <2> QED BY <2>2
<1> QED BY <1>1, <1>2, ClosureStep, PTL DEF Spec
=============================================================================
