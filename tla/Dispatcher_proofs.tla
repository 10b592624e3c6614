-------------------------- MODULE Dispatcher_proofs --------------------------
(* Proofs about Dispatcher for every registry and any number of operations. *)
EXTENDS Dispatcher, TLAPS

(* Operation trees: an operation that exists has an existing root, which is *)
(* a root operation, and one without a parent is its own root.              *)
Trees ==
  \A o \in OpId :
    /\ par[o] = NoOp => root[o] = o
    /\ st[o] = "free" => par[o] = NoOp
    /\ st[o] # "free" => st[root[o]] # "free" /\ par[root[o]] = NoOp

(* What the access scheduler guarantees for the root operations.            *)
RootsExclude ==
  \A a, b \in Running :
    IsRoot(a) /\ IsRoot(b) /\ a # b => want[a] = READ /\ want[b] = READ

IInv == TypeOK /\ Trees /\ PermissionInherited /\ RootsExclude

(* An exception changes only exc and pend, within their types.              *)
LEMMA RaiseType ==
  ASSUME TypeOK, NEW o \in OpId, NEW e \in Errors, Raise(o, e)
  PROVE  exc' \in [OpId -> Errors] /\ pend' \in [OpId -> SUBSET OpId]
BY DEF TypeOK, Raise

LEMMA InitInv == Init => IInv
<1> SUFFICES ASSUME Init PROVE IInv
  OBVIOUS
<1>1. TypeOK
  BY DispatcherAssumption
  DEF Init, TypeOK, Status, Errors, Access, READ
<1>2. Trees
  BY DEF Init, Trees
<1>3. PermissionInherited /\ RootsExclude
  BY DEF Init, PermissionInherited, RootsExclude, Running
<1>4. QED
  BY <1>1, <1>2, <1>3 DEF IInv

(* A new root operation is queued: nobody had it as root or parent.         *)
LEMMA EnqueueInv ==
  ASSUME IInv, NEW o \in OpId, NEW a \in Access, NEW m \in Msg \cup {NoMsg},
         NEW j \in Operations \cup Topics \cup {NoJob}, Enqueue(o, a, m, j),
         answer' \in [Msg -> {"unsent", "pending"} \cup Results],
         booted' \in BOOLEAN
  PROVE  IInv'
<1>1. TypeOK'
  BY DEF IInv, TypeOK, Enqueue, Status, Free
<1>2. Trees'
  BY DEF IInv, TypeOK, Trees, Enqueue, Free
<1>3. PermissionInherited'
  <2> SUFFICES ASSUME NEW x \in OpId, st'[x] # "free"
               PROVE  want'[x] <= want'[root[x]]
    BY DEF PermissionInherited, Enqueue
  <2>1. CASE x = o
    <3>1. root[x] = x
      BY <2>1 DEF IInv, Trees, Enqueue, Free
    <3>2. want'[x] \in {0, 1}
      BY <1>1 DEF TypeOK, Access, READ, WRITE
    <3>3. QED
      BY <3>1, <3>2
  <2>2. CASE x # o
    <3>1. st[x] # "free" /\ root[x] # o
      BY <2>2 DEF IInv, TypeOK, Trees, Enqueue, Free
    <3>2. want'[x] = want[x] /\ want'[root[x]] = want[root[x]]
      BY <2>2, <3>1 DEF IInv, TypeOK, Enqueue
    <3>3. QED
      BY <3>1, <3>2 DEF IInv, PermissionInherited
  <2>3. QED
    BY <2>1, <2>2
<1>4. RootsExclude'
  BY DEF IInv, TypeOK, RootsExclude, Running, IsRoot, Enqueue, Free
<1>5. QED
  BY <1>1, <1>2, <1>3, <1>4 DEF IInv

(* The children a post creates inherit the root and pass the permission     *)
(* check against it; they are never roots themselves.                       *)
LEMMA PostInv ==
  ASSUME IInv, DispatcherAssumption, NEW o \in OpId, st[o] = "active",
         NEW wants \in Seq(Access), NEW kid, NEW awaits,
         Post(o, wants, kid, awaits)
  PROVE  IInv'
<1> DEFINE acc == Accepted(o, wants)
           new == {kid[i] : i \in acc}
           pos(x) == CHOOSE i \in acc : kid[i] = x
<1>1. /\ kid \in [acc -> Free]
      /\ st'   = [x \in OpId |-> IF x \in new THEN "active" ELSE st[x]]
      /\ want' = [x \in OpId |-> IF x \in new THEN wants[pos(x)] ELSE want[x]]
      /\ root' = [x \in OpId |-> IF x \in new THEN root[o] ELSE root[x]]
      /\ par'  = [x \in OpId |-> IF x \in new THEN o ELSE par[x]]
      /\ \/ Raise(o, "other")
         \/ exc' = exc /\ pend' \in {pend, [pend EXCEPT ![o] = @ \cup new]}
      /\ job' = [job EXCEPT ![o] = NoJob]
      /\ UNCHANGED <<msg, answer, booted>>
  BY DEF Post, IInv, TypeOK
<1>2. new \subseteq Free
  BY <1>1
<1>3. \A x \in new : pos(x) \in acc /\ kid[pos(x)] = x
  OBVIOUS
<1>4. \A i \in acc : wants[i] \in Access /\ wants[i] <= want[root[o]]
  <2> SUFFICES ASSUME NEW i \in acc
               PROVE  wants[i] \in Access /\ wants[i] <= want[root[o]]
    OBVIOUS
  <2>1. i \in 1..Len(wants) /\ \A j \in 1..i : wants[j] <= want[root[o]]
    BY DEF Accepted, Perm
  <2>2. i \in 1..i
    BY <2>1
  <2>3. QED
    BY <2>1, <2>2
<1>5. TypeOK /\ root[o] \in OpId
  BY DEF IInv, TypeOK
<1>6. /\ st[root[o]] # "free" /\ par[root[o]] = NoOp /\ o # NoOp
      /\ o \notin new /\ root[o] \notin new
  BY <1>2, <1>5, DispatcherAssumption DEF IInv, Trees, Free
<1>7. TypeOK'
  <2>1. st' \in [OpId -> Status]
    BY <1>1, <1>5 DEF TypeOK, Status
  <2>2. want' \in [OpId -> Access]
    BY <1>1, <1>3, <1>4, <1>5 DEF TypeOK
  <2>3. root' \in [OpId -> OpId] /\ par' \in [OpId -> OpId \cup {NoOp}]
    BY <1>1, <1>5 DEF TypeOK
  <2>4. exc' \in [OpId -> Errors] /\ pend' \in [OpId -> SUBSET OpId]
    <3>1. CASE Raise(o, "other")
      BY <3>1, <1>5, RaiseType DEF Errors
    <3>2. CASE exc' = exc /\ pend' \in {pend, [pend EXCEPT ![o] = @ \cup new]}
      BY <3>2, <1>2, <1>5 DEF TypeOK, Free
    <3>3. QED
      BY <1>1, <3>1, <3>2
  <2>5. job' \in [OpId -> Operations \cup Topics \cup {NoJob}]
    BY <1>1, <1>5 DEF TypeOK
  <2>6. QED
    BY <1>1, <1>5, <2>1, <2>2, <2>3, <2>4, <2>5 DEF TypeOK
<1>8. \A x \in OpId : x \notin new =>
        /\ st'[x] = st[x] /\ want'[x] = want[x]
        /\ root'[x] = root[x] /\ par'[x] = par[x]
  BY <1>1
<1>9. \A x \in new :
        /\ x \in OpId /\ st[x] = "free" /\ st'[x] = "active"
        /\ root'[x] = root[o] /\ par'[x] = o
        /\ want'[x] = wants[pos(x)]
  BY <1>1, <1>2 DEF Free
<1> HIDE DEF acc, new, pos
<1>10. Trees'
  <2> SUFFICES ASSUME NEW x \in OpId
               PROVE  /\ par'[x] = NoOp => root'[x] = x
                      /\ st'[x] = "free" => par'[x] = NoOp
                      /\ st'[x] # "free" =>
                           st'[root'[x]] # "free" /\ par'[root'[x]] = NoOp
    BY DEF Trees
  <2>1. CASE x \in new
    BY <2>1, <1>5, <1>6, <1>8, <1>9
  <2>2. CASE x \notin new
    <3>1. st[x] # "free" => root[x] \notin new
      BY <1>9 DEF IInv, Trees
    <3>2. root[x] \in OpId
      BY <1>5 DEF TypeOK
    <3>3. QED
      BY <2>2, <3>1, <3>2, <1>8 DEF IInv, Trees
  <2>3. QED
    BY <2>1, <2>2
<1>11. PermissionInherited'
  <2> SUFFICES ASSUME NEW x \in OpId, st'[x] # "free"
               PROVE  want'[x] <= want'[root'[x]]
    BY DEF PermissionInherited
  <2>1. CASE x \in new
    BY <2>1, <1>3, <1>4, <1>5, <1>6, <1>8, <1>9
  <2>2. CASE x \notin new
    <3>1. st[x] # "free" /\ root[x] \notin new /\ root[x] \in OpId
      BY <2>2, <1>5, <1>8, <1>9 DEF IInv, Trees, TypeOK
    <3>2. QED
      BY <2>2, <3>1, <1>8 DEF IInv, PermissionInherited
  <2>3. QED
    BY <2>1, <2>2
<1>12. RootsExclude'
  <2> SUFFICES ASSUME NEW a \in OpId, NEW b \in OpId, st'[a] = "active",
                      st'[b] = "active", par'[a] = NoOp, par'[b] = NoOp, a # b
               PROVE  want'[a] = READ /\ want'[b] = READ
    BY DEF RootsExclude, Running, IsRoot
  <2>1. a \notin new /\ b \notin new
    BY <1>6, <1>9
  <2>2. QED
    BY <2>1, <1>8 DEF IInv, RootsExclude, Running, IsRoot
<1>13. QED
  BY <1>7, <1>10, <1>11, <1>12 DEF IInv

(* Steps that leave the operation trees and their life cycle alone.         *)
LEMMA FrameInv ==
  ASSUME IInv, TypeOK', UNCHANGED <<st, want, root, par>>
  PROVE  IInv'
BY DEF IInv, Trees, PermissionInherited, RootsExclude, Running, IsRoot

LEMMA LookupInv ==
  ASSUME IInv, DispatcherAssumption, NEW o \in OpId, st[o] = "active",
         NEW t, NEW kid, Lookup(o, t, kid)
  PROVE  IInv'
<1>1. CASE t \in Operations
  <2>1. <<AccessOfOp[t]>> \in Seq(Access)
    BY <1>1, DispatcherAssumption
  <2>2. QED
    BY <1>1, <2>1, PostInv DEF Lookup
<1>2. CASE t \notin Operations
  <2>1. Raise(o, "target_not_found") /\ "target_not_found" \in Errors
    BY <1>2 DEF Lookup, Errors
  <2>2. exc' \in [OpId -> Errors] /\ pend' \in [OpId -> SUBSET OpId]
    BY <2>1, RaiseType DEF IInv
  <2>3. TypeOK' /\ UNCHANGED <<st, want, root, par>>
    BY <1>2, <2>2 DEF Lookup, IInv, TypeOK
  <2>4. QED
    BY <2>3, FrameInv
<1>3. QED
  BY <1>1, <1>2

(* Admission checks the running roots; ending only takes operations away.   *)
LEMMA AdmitInv == ASSUME IInv, NEW o \in OpId, Admit(o) PROVE IInv'
<1>1. TypeOK'
  BY DEF IInv, TypeOK, Admit, Status
<1>2. Trees' /\ PermissionInherited'
  BY DEF IInv, TypeOK, Trees, PermissionInherited, Admit
<1>3. RootsExclude'
  BY DEF IInv, TypeOK, RootsExclude, Running, IsRoot, Admit, Compatible
<1>4. QED
  BY <1>1, <1>2, <1>3 DEF IInv

LEMMA AnswerOfType == ASSUME NEW e \in Errors PROVE AnswerOf(e) \in Results
BY DEF AnswerOf, Errors, Results

LEMMA EndInv == ASSUME IInv, NEW o \in OpId, End(o) PROVE IInv'
<1>1. TypeOK'
  <2>1. exc[o] \in Errors /\ msg[o] \in Msg \cup {NoMsg}
    BY DEF IInv, TypeOK
  <2>2. AnswerOf(exc[o]) \in Results
    BY <2>1, AnswerOfType
  <2>3. answer' \in [Msg -> {"unsent", "pending"} \cup Results]
    BY <2>1, <2>2 DEF IInv, TypeOK, End
  <2>4. QED
    BY <2>3 DEF IInv, TypeOK, End, Status
<1>2. Trees' /\ PermissionInherited'
  BY DEF IInv, TypeOK, Trees, PermissionInherited, End
<1>3. RootsExclude'
  BY DEF IInv, TypeOK, RootsExclude, Running, IsRoot, End
<1>4. QED
  BY <1>1, <1>2, <1>3 DEF IInv

LEMMA NextInv == IInv /\ [Next]_vars => IInv'
<1> USE DispatcherAssumption
<1> SUFFICES ASSUME IInv, [Next]_vars PROVE IInv'
  OBVIOUS
<1>1. CASE UNCHANGED vars
  <2>1. TypeOK' /\ UNCHANGED <<st, want, root, par>>
    BY <1>1 DEF vars, IInv, TypeOK
  <2>2. QED
    BY <2>1, FrameInv
<1>2. CASE StartServers
  <2>1. TypeOK' /\ UNCHANGED <<st, want, root, par>>
    BY <1>2 DEF StartServers, IInv, TypeOK
  <2>2. QED
    BY <2>1, FrameInv
<1>3. ASSUME NEW m \in Msg, OnMsgUnknown(m) PROVE IInv'
  <2>1. TypeOK' /\ UNCHANGED <<st, want, root, par>>
    BY <1>3 DEF OnMsgUnknown, IInv, TypeOK, Results
  <2>2. QED
    BY <2>1, FrameInv
<1>4. ASSUME NEW o \in OpId, NEW t \in Operations \cup Topics, RunInstance(o, t)
      PROVE  IInv'
  <2>1. AccessOf(t) \in Access
    BY DEF AccessOf, Access, READ, WRITE
  <2>2. Enqueue(o, AccessOf(t), NoMsg, t)
    BY <1>4 DEF RunInstance
  <2>3. /\ answer' \in [Msg -> {"unsent", "pending"} \cup Results]
        /\ booted' \in BOOLEAN
    BY <1>4 DEF RunInstance, IInv, TypeOK
  <2>4. QED
    BY <2>1, <2>2, <2>3, EnqueueInv
<1>5. ASSUME NEW o \in OpId, NEW m \in Msg, NEW t \in Operations, OnMsg(o, m, t)
      PROVE  IInv'
  <2>1. AccessOfOp[t] \in Access
    OBVIOUS
  <2>2. Enqueue(o, AccessOfOp[t], m, NoJob)
    BY <1>5 DEF OnMsg
  <2>3. /\ answer' \in [Msg -> {"unsent", "pending"} \cup Results]
        /\ booted' \in BOOLEAN
    BY <1>5 DEF OnMsg, IInv, TypeOK
  <2>4. QED
    BY <2>1, <2>2, <2>3, EnqueueInv
<1>6. ASSUME NEW o \in OpId, Posting(o) PROVE IInv'
  <2>1. ASSUME NEW t, NEW kid, Call(o, t, kid) PROVE IInv'
    BY <2>1, LookupInv DEF Call, Executing
  <2>2. ASSUME NEW t \in Topics, NEW kid, Publish(o, t, kid) PROVE IInv'
    <3>1. Subs[t] \in Seq(Access)
      OBVIOUS
    <3>2. QED
      BY <2>2, <3>1, PostInv DEF Publish, Executing
  <2>3. QED
    BY <1>6, <2>1, <2>2 DEF Posting
<1>7. ASSUME NEW o \in OpId, NEW kid, RunJob(o, kid) PROVE IInv'
  <2>1. CASE job[o] \in Topics
    <3>1. Subs[job[o]] \in Seq(Access)
      BY <2>1
    <3>2. QED
      BY <1>7, <2>1, <3>1, PostInv DEF RunJob, Executing
  <2>2. CASE job[o] \notin Topics
    BY <1>7, <2>2, LookupInv DEF RunJob, Executing
  <2>3. QED
    BY <2>1, <2>2
<1>8. ASSUME NEW o \in OpId, NEW c \in OpId, Val(o, c) PROVE IInv'
  <2>1. exc' \in [OpId -> Errors] /\ pend' \in [OpId -> SUBSET OpId]
    <3>1. CASE Raise(o, exc[c])
      <4>1. exc[c] \in Errors
        BY DEF IInv, TypeOK
      <4>2. QED
        BY <3>1, <4>1, RaiseType DEF IInv
    <3>2. CASE pend' = [pend EXCEPT ![o] = @ \ {c}] /\ exc' = exc
      BY <3>2 DEF IInv, TypeOK
    <3>3. QED
      BY <1>8, <3>1, <3>2 DEF Val
  <2>2. TypeOK' /\ UNCHANGED <<st, want, root, par>>
    BY <1>8, <2>1 DEF Val, IInv, TypeOK
  <2>3. QED
    BY <2>2, FrameInv
<1>9. ASSUME NEW o \in OpId, NEW e \in Errors, Throw(o, e) PROVE IInv'
  <2>1. exc' \in [OpId -> Errors] /\ pend' \in [OpId -> SUBSET OpId]
    BY <1>9, RaiseType DEF Throw, IInv
  <2>2. TypeOK' /\ UNCHANGED <<st, want, root, par>>
    BY <1>9, <2>1 DEF Throw, IInv, TypeOK
  <2>3. QED
    BY <2>2, FrameInv
<1>10. QED
  BY <1>1, <1>2, <1>3, <1>4, <1>5, <1>6, <1>7, <1>8, <1>9, AdmitInv, EndInv
  DEF Next

THEOREM Invariance == Spec => []IInv
<1>1. Init => IInv
  BY InitInv
<1>2. IInv /\ [Next]_vars => IInv'
  BY NextInv
<1>3. QED
  BY <1>1, <1>2, PTL DEF Spec

(* The model is well typed in every behaviour.                              *)
THEOREM TypeCorrect == Spec => []TypeOK
<1>1. IInv => TypeOK
  BY DEF IInv
<1>2. QED
  BY <1>1, Invariance, PTL

(* dispatcher.h:20: a parent has equal or more permissions than its         *)
(* children, at any depth of nested calls and publications.                 *)
THEOREM Permissions == Spec => []PermissionInherited
<1>1. IInv => PermissionInherited
  BY DEF IInv
<1>2. QED
  BY <1>1, Invariance, PTL

(* Operations whose roots run exclude each other: their roots do, and none  *)
(* of them is stronger than its root.                                       *)
RootedExclusion ==
  \A a, b \in Rooted : root[a] # root[b] => want[a] = READ /\ want[b] = READ

LEMMA ExclusionInv == IInv => RootedExclusion
<1> SUFFICES ASSUME IInv, NEW a \in Rooted, NEW b \in Rooted, root[a] # root[b]
             PROVE  want[a] = READ /\ want[b] = READ
  BY DEF RootedExclusion
<1>1. root[a] \in Running /\ root[b] \in Running
  BY DEF Rooted, IInv, TypeOK, Running
<1>2. IsRoot(root[a]) /\ IsRoot(root[b])
  BY DEF IInv, Trees, Rooted, Running, IsRoot
<1>3. want[root[a]] = READ /\ want[root[b]] = READ
  BY <1>1, <1>2 DEF IInv, RootsExclude
<1>4. want[a] <= 0 /\ want[b] <= 0
  BY <1>3 DEF IInv, PermissionInherited, Rooted, Running, READ
<1>5. want[a] \in {0, 1} /\ want[b] \in {0, 1}
  BY DEF IInv, TypeOK, Rooted, Running, Access, READ, WRITE
<1>6. QED
  BY <1>4, <1>5 DEF READ

-----------------------------------------------------------------------------
(* The trees of operations.  A parent exists and belongs to the tree of its *)
(* child; only running operations wait for futures.                         *)
Linked ==
  \A o \in OpId : par[o] # NoOp => st[par[o]] # "free" /\ root[par[o]] = root[o]

Waiting == \A o \in OpId : pend[o] # {} => st[o] = "active"

(* Parents never form a circle: every set of operations has one whose       *)
(* parent is outside.                                                       *)
Grounded == \A S \in SUBSET OpId : S # {} => \E o \in S : par[o] \notin S

(* Only root operations wait for their admission.                           *)
QueuedRoots == \A o \in OpId : st[o] = "queued" => par[o] = NoOp

TreeInv == IInv /\ Linked /\ Waiting /\ Grounded /\ QueuedRoots

(* What a step does to the trees of operations.                             *)
Still == UNCHANGED <<st, want, root, par>>

Begun(o) == \E a, m, j : Enqueue(o, a, m, j)

Posted(o) ==
  \E new \in SUBSET Free :
    /\ st[o] = "active"
    /\ st' = [x \in OpId |-> IF x \in new THEN "active" ELSE st[x]]
    /\ \A x \in OpId \ new : want'[x] = want[x]
    /\ root' = [x \in OpId |-> IF x \in new THEN root[o] ELSE root[x]]
    /\ par'  = [x \in OpId |-> IF x \in new THEN o ELSE par[x]]

LEMMA PostPosts ==
  ASSUME IInv, NEW o \in OpId, st[o] = "active", NEW wants, NEW kid, NEW awaits,
         Post(o, wants, kid, awaits)
  PROVE  Posted(o)
<1> DEFINE acc == Accepted(o, wants)
           new == {kid[i] : i \in acc}
<1>1. kid \in [acc -> Free]
  BY DEF Post
<1>2. new \in SUBSET Free
  BY <1>1
<1>3. /\ st' = [x \in OpId |-> IF x \in new THEN "active" ELSE st[x]]
      /\ \A x \in OpId \ new : want'[x] = want[x]
      /\ root' = [x \in OpId |-> IF x \in new THEN root[o] ELSE root[x]]
      /\ par'  = [x \in OpId |-> IF x \in new THEN o ELSE par[x]]
  BY DEF Post
<1> QED
  BY <1>2, <1>3 DEF Posted

LEMMA LookupPosts ==
  ASSUME IInv, NEW o \in OpId, st[o] = "active", NEW t, NEW kid, Lookup(o, t, kid)
  PROVE  Still \/ Posted(o)
BY PostPosts DEF Lookup, Still

LEMMA StepsTaken ==
  ASSUME IInv, [Next]_vars
  PROVE  \/ Still
         \/ \E o \in OpId : Begun(o) \/ Admit(o) \/ Posted(o) \/ End(o)
<1>1. CASE UNCHANGED vars \/ StartServers \/ \E m \in Msg : OnMsgUnknown(m)
  BY <1>1 DEF vars, StartServers, OnMsgUnknown, Still
<1>2. ASSUME NEW o \in OpId, NEW m \in Msg, NEW t \in Operations, OnMsg(o, m, t)
      PROVE  Begun(o)
  BY <1>2, DispatcherAssumption DEF OnMsg, Begun
<1>3. ASSUME NEW o \in OpId, NEW t \in Operations \cup Topics, RunInstance(o, t)
      PROVE  Begun(o)
  <2>1. AccessOf(t) \in Access
    BY DispatcherAssumption DEF AccessOf, Access, READ, WRITE
  <2> QED
    BY <1>3, <2>1 DEF RunInstance, Begun
<1>4. ASSUME NEW o \in OpId, Posting(o) PROVE Still \/ Posted(o)
  <2>1. ASSUME NEW t, NEW kid, Call(o, t, kid) PROVE Still \/ Posted(o)
    BY <2>1, LookupPosts DEF Call, Executing
  <2>2. ASSUME NEW t, NEW kid, Publish(o, t, kid) PROVE Still \/ Posted(o)
    BY <2>2, PostPosts DEF Publish, Executing
  <2> QED
    BY <1>4, <2>1, <2>2 DEF Posting
<1>5. ASSUME NEW o \in OpId, NEW kid, RunJob(o, kid) PROVE Still \/ Posted(o)
  BY <1>5, LookupPosts, PostPosts DEF RunJob, Executing
<1>6. ASSUME NEW o \in OpId, NEW c \in OpId, Val(o, c) PROVE Still
  BY <1>6 DEF Val, Still
<1>7. ASSUME NEW o \in OpId, NEW e \in Errors, Throw(o, e) PROVE Still
  BY <1>7 DEF Throw, Still
<1> QED
  BY <1>1, <1>2, <1>3, <1>4, <1>5, <1>6, <1>7 DEF Next

(* An operation ends with no future left to wait for, and only a running    *)
(* one gets futures; an exception drops them all.                           *)
LEMMA WaitingStep == ASSUME IInv, Waiting, [Next]_vars PROVE Waiting'
<1> USE DEF Waiting
<1>0. st \in [OpId -> Status] /\ pend \in [OpId -> SUBSET OpId]
  BY DEF IInv, TypeOK
<1>1. ASSUME UNCHANGED <<st, pend>> PROVE Waiting'
  BY <1>1
<1>2. ASSUME NEW o \in OpId, NEW e, Raise(o, e), UNCHANGED st PROVE Waiting'
  BY <1>0, <1>2 DEF Raise
<1>3. ASSUME NEW o \in OpId, NEW a, NEW m, NEW j, Enqueue(o, a, m, j) PROVE Waiting'
  BY <1>0, <1>3 DEF Enqueue, Free
<1>4. ASSUME NEW o \in OpId, NEW wants, NEW kid, NEW aw, st[o] = "active",
             Post(o, wants, kid, aw)
      PROVE  Waiting'
  <2>1. \A x \in OpId : st[x] = "active" => st'[x] = "active"
    BY <1>4 DEF Post
  <2>2. \A x \in OpId : x # o => pend'[x] = pend[x]
    BY <1>0, <1>4 DEF Post, Raise
  <2> QED
    BY <1>4, <2>1, <2>2
<1>5. ASSUME NEW o \in OpId, NEW t, NEW kid, st[o] = "active", Lookup(o, t, kid)
      PROVE  Waiting'
  BY <1>2, <1>4, <1>5 DEF Lookup
<1>6. ASSUME NEW o \in OpId, Admit(o) PROVE Waiting'
  BY <1>0, <1>6 DEF Admit
<1>7. ASSUME NEW o \in OpId, Posting(o) PROVE Waiting'
  BY <1>4, <1>5, <1>7 DEF Posting, Call, Publish, Executing
<1>8. ASSUME NEW o \in OpId, NEW kid, RunJob(o, kid) PROVE Waiting'
  BY <1>4, <1>5, <1>8 DEF RunJob, Executing
<1>9. ASSUME NEW o \in OpId, NEW c \in OpId, Val(o, c) PROVE Waiting'
  <2>1. CASE Raise(o, exc[c])
    BY <1>2, <1>9, <2>1 DEF Val
  <2>2. CASE pend' = [pend EXCEPT ![o] = @ \ {c}]
    BY <1>0, <1>9, <2>2 DEF Val, Executing
  <2> QED
    BY <1>9, <2>1, <2>2 DEF Val
<1>10. ASSUME NEW o \in OpId, NEW e, Throw(o, e) PROVE Waiting'
  BY <1>2, <1>10 DEF Throw
<1>11. ASSUME NEW o \in OpId, End(o) PROVE Waiting'
  BY <1>0, <1>11 DEF End, MayQuit
<1>12. CASE UNCHANGED vars \/ StartServers \/ \E m \in Msg : OnMsgUnknown(m)
  BY <1>1, <1>12 DEF vars, StartServers, OnMsgUnknown
<1>13. ASSUME NEW o \in OpId, NEW t, RunInstance(o, t) \/ \E m : OnMsg(o, m, t)
       PROVE  Waiting'
  BY <1>3, <1>13 DEF RunInstance, OnMsg
<1> QED
  BY <1>6, <1>7, <1>8, <1>9, <1>10, <1>11, <1>12, <1>13 DEF Next

(* Children join the tree of their parent, below it.                        *)
LEMMA TreesStep ==
  ASSUME TreeInv, [Next]_vars
  PROVE  Linked' /\ Grounded' /\ QueuedRoots'
<1> USE DEF TreeInv
<1>0. /\ st \in [OpId -> Status] /\ par \in [OpId -> OpId \cup {NoOp}]
      /\ root \in [OpId -> OpId] /\ NoOp \notin OpId
      /\ \A o \in Free : par[o] = NoOp
  BY DispatcherAssumption DEF IInv, TypeOK, Trees, Free
<1>1. ASSUME UNCHANGED <<root, par>>,
             \A o \in OpId : st[o] # "free" => st'[o] # "free",
             \A o \in OpId : st'[o] = "queued" => st[o] = "queued" \/ o \in Free
      PROVE  Linked' /\ Grounded' /\ QueuedRoots'
  BY <1>0, <1>1 DEF Linked, Grounded, QueuedRoots
<1>2. CASE Still
  BY <1>1, <1>2 DEF Still
<1>3. ASSUME NEW o \in OpId, Begun(o) \/ Admit(o) \/ End(o)
      PROVE  Linked' /\ Grounded' /\ QueuedRoots'
  <2>1. UNCHANGED <<root, par>>
    BY <1>3 DEF Begun, Admit, End, Enqueue
  <2>2. \/ st' = [st EXCEPT ![o] = "queued"] /\ o \in Free
        \/ st' = [st EXCEPT ![o] = "active"]
        \/ st' = [st EXCEPT ![o] = "ended"]
    BY <1>3 DEF Begun, Admit, End, Enqueue
  <2> QED
    BY <1>0, <1>1, <2>1, <2>2
<1>4. ASSUME NEW o \in OpId, Posted(o) PROVE Linked' /\ Grounded' /\ QueuedRoots'
  <2>1. PICK new \in SUBSET Free :
          /\ st[o] = "active"
          /\ st' = [x \in OpId |-> IF x \in new THEN "active" ELSE st[x]]
          /\ root' = [x \in OpId |-> IF x \in new THEN root[o] ELSE root[x]]
          /\ par'  = [x \in OpId |-> IF x \in new THEN o ELSE par[x]]
    BY <1>4 DEF Posted
  <2>2. o \notin new /\ new \subseteq OpId /\ \A x \in OpId : par[x] \notin new
    BY <1>0, <2>1 DEF Free, Linked
  <2>3. Linked'
    <3> SUFFICES ASSUME NEW x \in OpId, par'[x] # NoOp
                 PROVE  st'[par'[x]] # "free" /\ root'[par'[x]] = root'[x]
      BY DEF Linked
    <3>1. CASE x \in new
      BY <2>1, <2>2, <3>1
    <3>2. CASE x \notin new
      BY <1>0, <2>1, <2>2, <3>2 DEF Linked
    <3> QED
      BY <3>1, <3>2
  <2>4. QueuedRoots'
    BY <2>1 DEF QueuedRoots
  <2>5. ASSUME NEW S \in SUBSET OpId, S # {} PROVE \E x \in S : par'[x] \notin S
    <3>1. CASE S \subseteq new
      BY <2>1, <2>2, <2>5, <3>1
    <3>2. CASE ~(S \subseteq new)
      <4>1. S \ new \in SUBSET OpId /\ S \ new # {}
        BY <3>2
      <4>2. PICK x \in S \ new : par[x] \notin S \ new
        BY <4>1 DEF Grounded
      <4> QED
        BY <2>1, <2>2, <4>2
    <3> QED
      BY <3>1, <3>2
  <2> QED
    BY <2>3, <2>4, <2>5 DEF Grounded
<1> QED
  BY <1>2, <1>3, <1>4, StepsTaken

THEOREM TreeInvariance == Spec => []TreeInv
<1>1. Init => TreeInv
  <2>1. Init => Linked /\ Waiting /\ QueuedRoots
    BY DEF Init, Linked, Waiting, QueuedRoots
  <2>2. Init => Grounded
    BY DispatcherAssumption DEF Init, Grounded
  <2> QED
    BY <2>1, <2>2, InitInv DEF TreeInv
<1>2. TreeInv /\ [Next]_vars => TreeInv'
  <2> SUFFICES ASSUME TreeInv, [Next]_vars PROVE TreeInv'
    OBVIOUS
  <2>1. IInv' /\ Waiting'
    BY NextInv, WaitingStep DEF TreeInv
  <2> QED
    BY <2>1, TreesStep DEF TreeInv
<1> QED
  BY <1>1, <1>2, PTL DEF Spec

(* The root of an operation whose future nobody dropped runs: among the     *)
(* running operations of its tree that are awaited all the way up, the one  *)
(* whose parent is outside is the root.                                     *)
LEMMA HeldRooted == TreeInv => Held \subseteq Rooted
<1> SUFFICES ASSUME TreeInv, NEW o \in Held PROVE o \in Rooted
  OBVIOUS
<1>1. PICK S \in SUBSET OpId :
        /\ o \in S
        /\ \A x \in S : IsRoot(x) \/ (par[x] \in S /\ x \in pend[par[x]])
  BY DEF Held
<1> DEFINE tree == {x \in S : root[x] = root[o] /\ st[x] = "active"}
<1>2. o \in tree /\ tree \in SUBSET OpId
  BY <1>1 DEF Held, Running
<1>3. PICK x \in tree : par[x] \notin tree
  BY <1>2 DEF TreeInv, Grounded
<1>4. IsRoot(x)
  <2> SUFFICES ASSUME ~IsRoot(x) PROVE FALSE
    OBVIOUS
  <2>1. par[x] \in S /\ x \in pend[par[x]] /\ par[x] # NoOp /\ x \in OpId
    BY <1>1 DEF IsRoot
  <2>2. st[par[x]] = "active" /\ root[par[x]] = root[o]
    BY <2>1 DEF TreeInv, Waiting, Linked
  <2> QED
    BY <1>3, <2>1, <2>2
<1>5. root[x] = x
  BY <1>4 DEF TreeInv, IInv, Trees, IsRoot
<1> QED
  BY <1>5 DEF Held, Rooted

(* The rule of dispatcher.h:22-23 is enough, operation by operation: as     *)
(* long as nobody above it drops its future, no writer overlaps a handler   *)
(* of another tree, however operations call, publish, throw and abandon.    *)
THEOREM Exclusion == Spec => []HeldExclusion
<1>1. TreeInv => HeldExclusion
  BY HeldRooted, ExclusionInv DEF TreeInv, HeldExclusion, RootedExclusion
<1> QED
  BY <1>1, TreeInvariance, PTL

-----------------------------------------------------------------------------
(* The refinement of ScheduleLock.                                          *)
Readers == {root[o] : o \in {x \in Rooted : want[x] = READ}}
Writers == {root[o] : o \in {x \in Rooted : want[x] = WRITE}}

(* A group that writes is alone.                                            *)
Alone == \A g \in Writers : Readers \cup Writers \subseteq {g}

LEMMA WritersAlone == TreeInv => Alone
BY ExclusionInv DEF TreeInv, Readers, Writers, Alone, RootedExclusion, READ, WRITE

(* A step after which the groups exclude each other is one of the lock, if  *)
(* it changes what a single group does.                                     *)
Others(g) == /\ Readers' \ {g} = Readers \ {g}
             /\ Writers' \ {g} = Writers \ {g}

LEMMA GroupStep == ASSUME TreeInv', NEW g \in OpId, Others(g) PROVE Lock!Next
<1> DEFINE reads == g \in Readers'
           writes == g \in Writers'
<1>0. TreeInv' => Alone'
  BY WritersAlone, PTL
<1>1. Readers' = Lock!With(Readers, g, reads) /\ Writers' = Lock!With(Writers, g, writes)
  BY DEF Lock!With, Others
<1>2. reads => Writers \subseteq {g}
  BY <1>0 DEF Others, Alone
<1>3. writes => Readers \cup Writers \subseteq {g}
  BY <1>0 DEF Others, Alone
<1>4. ASSUME NEW r \in BOOLEAN, NEW w \in BOOLEAN, r <=> reads, w <=> writes
      PROVE  Lock!Work(g, r, w)
  BY <1>1, <1>2, <1>3, <1>4 DEF Lock!Work, Lock!With, Readers, Writers
<1>5. \E r, w \in BOOLEAN : (r <=> reads) /\ (w <=> writes)
  OBVIOUS
<1> QED
  BY <1>4, <1>5 DEF Lock!Next

(* The handlers of a tree start and stop as one group.                      *)
LEMMA TreeStep ==
  ASSUME TreeInv', NEW g \in OpId,
         \A x \in Rooted : root'[x] = root[x] /\ want'[x] = want[x],
         \A x \in OpId : root'[x] # g => (x \in Rooted <=> x \in Rooted')
  PROVE  Lock!Next
<1>1. Rooted \subseteq OpId /\ Rooted' \subseteq OpId
  BY DEF Rooted, Running
<1>2. Others(g)
  <2>1. ASSUME NEW a
        PROVE  LET before == {root[o] : o \in {x \in Rooted : want[x] = a}}
                   after  == {root'[o] : o \in {x \in Rooted' : want'[x] = a}}
               IN  after \ {g} = before \ {g}
    BY <1>1
  <2> QED
    BY <2>1 DEF Others, Readers, Writers
<1> QED
  BY <1>2, GroupStep

(* dispatcher.h:19: behaviours of the operations whose roots run are those  *)
(* of readers and writers under one lock.                                   *)
THEOREM ScheduleIsLocked == Spec => ImplementsScheduleLock
<1>1. Init => Lock!Init
  BY DEF Init, Lock!Init, Rooted, Running
<1>2. TreeInv /\ TreeInv' /\ [Next]_vars => [Lock!Next]_Lock!vars
  <2> SUFFICES ASSUME TreeInv, TreeInv', [Next]_vars
               PROVE  Lock!Next \/ UNCHANGED Lock!vars
    OBVIOUS
  <2>0. /\ root \in [OpId -> OpId] /\ st \in [OpId -> Status]
        /\ want \in [OpId -> Access]
        /\ \A x \in OpId : x \in Rooted <=> st[x] = "active" /\ st[root[x]] = "active"
        /\ \A x \in OpId : x \in Rooted' <=> st'[x] = "active" /\ st'[root'[x]] = "active"
        /\ \A x \in Rooted : x \in OpId /\ st[x] = "active"
        /\ \A x \in OpId : st[x] # "free" =>
             st[root[x]] # "free" /\ root[root[x]] = root[x]
    BY DEF TreeInv, IInv, TypeOK, Trees, Rooted, Running
  <2>1. CASE Still
    BY <2>0, <2>1 DEF Still, Lock!vars, Rooted, Running
  <2>2. ASSUME NEW o \in OpId, Begun(o) PROVE Lock!Next
    <3>1. st[o] = "free" /\ st' = [st EXCEPT ![o] = "queued"] /\ UNCHANGED root
          /\ \A x \in OpId \ {o} : want'[x] = want[x]
      BY <2>0, <2>2 DEF Begun, Enqueue, Free
    <3>2. \A x \in OpId : x \in Rooted <=> x \in Rooted'
      BY <2>0, <3>1
    <3> QED
      BY <2>0, <3>1, <3>2, TreeStep
  <2>3. ASSUME NEW o \in OpId, Admit(o) PROVE Lock!Next
    <3>1. st' = [st EXCEPT ![o] = "active"] /\ UNCHANGED <<root, want>>
          /\ st[o] = "queued"
      BY <2>3 DEF Admit
    <3>2. root[o] = o
      BY <3>1 DEF TreeInv, QueuedRoots, IInv, Trees
    <3>3. \A x \in OpId : root'[x] # o => (x \in Rooted <=> x \in Rooted')
      BY <2>0, <3>1, <3>2
    <3> QED
      BY <2>0, <3>1, <3>3, TreeStep
  <2>4. ASSUME NEW o \in OpId, Posted(o) PROVE Lock!Next
    <3>1. PICK new \in SUBSET Free :
            /\ st' = [x \in OpId |-> IF x \in new THEN "active" ELSE st[x]]
            /\ \A x \in OpId \ new : want'[x] = want[x]
            /\ root' = [x \in OpId |-> IF x \in new THEN root[o] ELSE root[x]]
      BY <2>4 DEF Posted
    <3>2. new \subseteq OpId /\ \A x \in new : st[x] = "free"
      BY DEF Free
    <3>3. ASSUME NEW x \in OpId, root'[x] # root[o] PROVE x \in Rooted <=> x \in Rooted'
      <4>1. x \notin new /\ root'[x] = root[x] /\ st'[x] = st[x]
        BY <3>1, <3>3
      <4>2. st[x] = "active" => root[x] \notin new
        BY <2>0, <3>2
      <4> QED
        BY <2>0, <3>1, <4>1, <4>2
    <3>4. \A x \in Rooted : root'[x] = root[x] /\ want'[x] = want[x]
      BY <2>0, <3>1, <3>2
    <3> QED
      BY <2>0, <3>3, <3>4, TreeStep
  <2>5. ASSUME NEW o \in OpId, End(o) PROVE Lock!Next
    <3>1. st' = [st EXCEPT ![o] = "ended"] /\ UNCHANGED <<root, want>>
          /\ st[o] = "active"
      BY <2>5 DEF End
    <3>2. ASSUME NEW x \in OpId, root'[x] # root[o] PROVE x \in Rooted <=> x \in Rooted'
      <4>1. x # o /\ (st[x] = "active" => root[x] # o)
        BY <2>0, <3>1, <3>2
      <4> QED
        BY <2>0, <3>1, <4>1
    <3> QED
      BY <2>0, <3>1, <3>2, TreeStep
  <2> QED
    BY <2>1, <2>2, <2>3, <2>4, <2>5, StepsTaken DEF TreeInv
<1> QED
  BY <1>1, <1>2, TreeInvariance, PTL DEF Spec, Lock!Spec, ImplementsScheduleLock
=============================================================================
