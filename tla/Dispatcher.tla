----------------------------- MODULE Dispatcher -----------------------------
(***************************************************************************)
(* The message dispatcher of base/module and the way motis_instance drives *)
(* it.  An operation is one execution of a registered handler (or of a     *)
(* lambda given to controller::run).  Root operations pass the access      *)
(* scheduler of the ctx library (external); an operation posts child       *)
(* operations with motis_call and motis_publish, which run at once with    *)
(* the ctx_data, hence with the access rights, of their parent.            *)
(***************************************************************************)
EXTENDS Naturals, Sequences, FiniteSets

CONSTANTS
  OpId,         \* identities of operations; their number bounds a behaviour
  NoOp,         \* "no parent operation"
  Msg,          \* messages clients send to receiver::on_msg
  NoMsg,        \* "not started by a client message"
  Operations,   \* registry::operations_: the registered targets
  Unknown,      \* a target nobody registered
  AccessOfOp,   \* [Operations -> access]
  Topics,       \* keys of registry::topic_subscriptions_
  Subs,         \* [Topics -> sequence of the subscribers' access]
  Awaited,      \* topics whose publishers await_all the returned futures
  NoJob,        \* "the body of the operation is that of a handler"
  Thrown        \* errors handlers throw of their own

READ  == 0
WRITE == 1
Access == {READ, WRITE}

ASSUME DispatcherAssumption ==
  /\ NoOp \notin OpId /\ NoMsg \notin Msg
  /\ Operations \cap Topics = {} /\ Unknown \notin Operations \cup Topics
  /\ NoJob \notin Operations \cup Topics
  /\ AccessOfOp \in [Operations -> Access]
  /\ Subs \in [Topics -> Seq(Access)]
  /\ \A t \in Topics : Subs[t] # <<>>
  /\ Awaited \subseteq Topics
  /\ Thrown \subseteq {"system", "target_not_found", "out_of_range", "other"}

VARIABLES
  st,      \* life cycle of an operation
  want,    \* access the handler was registered with
  root,    \* the root operation it belongs to
  par,     \* the operation that posted it
  msg,     \* the client message a root operation answers
  job,     \* the call or publication a motis_instance lambda consists of
  pend,    \* futures the operation waits for before it returns
  exc,     \* the exception it is unwinding with or has ended with
  answer,  \* what the callback of each client message got
  booted   \* main() has started the server threads

vars == <<st, want, root, par, msg, job, pend, exc, answer, booted>>

Status  == {"free", "queued", "active", "ended"}
Errors  == {"none", "system", "target_not_found", "out_of_range", "other"}
Results == {"ok", "code", "target_not_found", "unknown_error"}

(* dispatcher::access_of: the strongest subscriber of a topic, the access of *)
(* an operation, READ for a target nobody registered.                       *)
AccessOf(t) ==
  IF t \in Topics
  THEN IF \E i \in DOMAIN Subs[t] : Subs[t][i] = WRITE THEN WRITE ELSE READ
  ELSE IF t \in Operations THEN AccessOfOp[t] ELSE READ

(* ctx_data is copied from parent to child, so every operation of a tree    *)
(* carries the access its root was enqueued with.                           *)
Perm(o) == want[root[o]]

Free      == {o \in OpId : st[o] = "free"}
Running   == {o \in OpId : st[o] = "active"}
IsRoot(o) == par[o] = NoOp
Quiet     == \A o \in OpId : st[o] \in {"free", "ended"}

(* The catch clauses of on_msg.                                             *)
AnswerOf(e) ==
  CASE e = "none"   -> "ok"
    [] e = "system" -> "code"
    [] e = "other"  -> "unknown_error"
    [] OTHER        -> "target_not_found"

Init ==
  /\ st     = [o \in OpId |-> "free"]
  /\ want   = [o \in OpId |-> READ]
  /\ root   = [o \in OpId |-> o]
  /\ par    = [o \in OpId |-> NoOp]
  /\ msg    = [o \in OpId |-> NoMsg]
  /\ job    = [o \in OpId |-> NoJob]
  /\ pend   = [o \in OpId |-> {}]
  /\ exc    = [o \in OpId |-> "none"]
  /\ answer = [m \in Msg |-> "unsent"]
  /\ booted = FALSE

-----------------------------------------------------------------------------
(* enqueue_read / enqueue_write: a new root operation enters the scheduler. *)
Enqueue(o, access, m, j) ==
  /\ o \in Free
  /\ st'   = [st EXCEPT ![o] = "queued"]
  /\ want' = [want EXCEPT ![o] = access]
  /\ msg'  = [msg EXCEPT ![o] = m]
  /\ job'  = [job EXCEPT ![o] = j]
  /\ UNCHANGED <<root, par, pend, exc>>

(* motis_instance::call and ::publish before the servers listen.  run()     *)
(* returns when the io_service has no work left, children included.         *)
RunInstance(o, t) ==
  /\ ~booted /\ Quiet
  /\ Enqueue(o, AccessOf(t), NoMsg, t)
  /\ UNCHANGED <<answer, booted>>

StartServers ==
  /\ ~booted /\ Quiet
  /\ booted' = TRUE
  /\ UNCHANGED <<st, want, root, par, msg, job, pend, exc, answer>>

(* dispatcher::on_msg.  A target without operation is answered at once.     *)
OnMsg(o, m, t) ==
  /\ booted /\ answer[m] = "unsent"
  /\ t \in Operations
  /\ Enqueue(o, AccessOfOp[t], m, NoJob)
  /\ answer' = [answer EXCEPT ![m] = "pending"]
  /\ UNCHANGED booted

OnMsgUnknown(m) ==
  /\ booted /\ answer[m] = "unsent"
  /\ answer' = [answer EXCEPT ![m] = "target_not_found"]
  /\ UNCHANGED <<st, want, root, par, msg, job, pend, exc, booted>>

(* The access scheduler (external): several readers or a single writer.     *)
Compatible(o) ==
  \A r \in Running : IsRoot(r) => want[r] = READ /\ want[o] = READ

Admit(o) ==
  /\ st[o] = "queued" /\ Compatible(o)
  /\ st' = [st EXCEPT ![o] = "active"]
  /\ UNCHANGED <<want, root, par, msg, job, pend, exc, answer, booted>>

-----------------------------------------------------------------------------
(* An operation takes steps of its body until it unwinds.                   *)
Executing(o) == st[o] = "active" /\ exc[o] = "none"

Raise(o, e) ==
  /\ exc'  = [exc EXCEPT ![o] = e]
  /\ pend' = [pend EXCEPT ![o] = {}]

Accepted_NoCheck(o, wants) == DOMAIN wants

(* The children posted before the permission check of one of them throws.  *)
Accepted(o, wants) ==
  {i \in DOMAIN wants : \A j \in 1..i : wants[j] <= Perm(o)}

(* dispatcher::req and ::publish after the lookup: one post per handler,    *)
(* each preceded by the check "matches the access permissions of parent".   *)
(* When that check throws, the futures of the earlier posts are dropped.    *)
Post(o, wants, kid, awaits) ==
  LET new == {kid[i] : i \in Accepted(o, wants)}
      pos(x) == CHOOSE i \in Accepted(o, wants) : kid[i] = x
  IN /\ kid \in [Accepted(o, wants) -> Free]
     /\ \A i, j \in Accepted(o, wants) : i # j => kid[i] # kid[j]
     /\ st'   = [x \in OpId |-> IF x \in new THEN "active" ELSE st[x]]
     /\ want' = [x \in OpId |-> IF x \in new THEN wants[pos(x)] ELSE want[x]]
     /\ root' = [x \in OpId |-> IF x \in new THEN root[o] ELSE root[x]]
     /\ par'  = [x \in OpId |-> IF x \in new THEN o ELSE par[x]]
     /\ IF Accepted(o, wants) # DOMAIN wants
        THEN Raise(o, "other")
        ELSE /\ pend' = [pend EXCEPT ![o] = IF awaits THEN @ \cup new ELSE @]
             /\ UNCHANGED exc
     /\ job' = [job EXCEPT ![o] = NoJob]
     /\ UNCHANGED <<msg, answer, booted>>

Lookup(o, t, kid) ==
  IF t \in Operations
  THEN Post(o, <<AccessOfOp[t]>>, kid, TRUE)
  ELSE /\ Raise(o, "target_not_found")
       /\ job' = [job EXCEPT ![o] = NoJob]
       /\ UNCHANGED <<st, want, root, par, msg, answer, booted>>

Kids(n) == UNION {[s -> Free] : s \in SUBSET (1..n)}

(* motis_call in a handler; every call site calls val() on the future.      *)
Call(o, t, kid) ==
  Executing(o) /\ job[o] = NoJob /\ Lookup(o, t, kid)

(* motis_publish in a handler.                                              *)
Publish(o, t, kid) ==
  Executing(o) /\ job[o] = NoJob /\ Post(o, Subs[t], kid, t \in Awaited)

(* The lambda of motis_instance::call or ::publish.                         *)
RunJob(o, kid) ==
  /\ Executing(o) /\ job[o] # NoJob
  /\ IF job[o] \in Topics
     THEN Post(o, Subs[job[o]], kid, TRUE)
     ELSE Lookup(o, job[o], kid)

(* future::val: the result of the child, or its exception, which the caller *)
(* lets through or handles.                                                 *)
Ready_ResultOnly(c) == st[c] = "ended" /\ exc[c] = "none"
Ready(c) == st[c] = "ended"

Val(o, c) ==
  /\ Executing(o) /\ c \in pend[o] /\ Ready(c)
  /\ \/ /\ pend' = [pend EXCEPT ![o] = @ \ {c}]
        /\ UNCHANGED exc
     \/ exc[c] # "none" /\ Raise(o, exc[c])
  /\ UNCHANGED <<st, want, root, par, msg, job, answer, booted>>

(* A handler throws an error of its own.                                    *)
Throw(o, e) ==
  /\ e \in Thrown /\ Executing(o) /\ job[o] = NoJob
  /\ Raise(o, e)
  /\ UNCHANGED <<st, want, root, par, msg, job, answer, booted>>

(* A body returns after the futures it waits for; one that an exception     *)
(* leaves has abandoned them (Raise) and waits for nobody.                  *)
MayQuit_AnyTime(o) == TRUE
MayQuit(o) == pend[o] = {}

(* The operation returns or has unwound.  A root operation thereby gives up *)
(* its place in the scheduler, and the callback of its message gets the     *)
(* result or the error the catch clauses of on_msg make of the exception.   *)
End(o) ==
  /\ st[o] = "active" /\ job[o] = NoJob
  /\ MayQuit(o)
  /\ st' = [st EXCEPT ![o] = "ended"]
  /\ answer' = IF msg[o] = NoMsg THEN answer
               ELSE [answer EXCEPT ![msg[o]] = AnswerOf(exc[o])]
  /\ UNCHANGED <<want, root, par, msg, job, pend, exc, booted>>

Posting(o) ==
  \/ \E t \in Operations \cup {Unknown}, kid \in Kids(1) : Call(o, t, kid)
  \/ \E t \in Topics : \E kid \in Kids(Len(Subs[t])) : Publish(o, t, kid)

Next ==
  \/ StartServers
  \/ \E m \in Msg : OnMsgUnknown(m)
  \/ \E o \in OpId :
       \/ \E t \in Operations \cup Topics : RunInstance(o, t)
       \/ \E m \in Msg, t \in Operations : OnMsg(o, m, t)
       \/ Admit(o)
       \/ Posting(o)
       \/ \E kid \in Kids(IF job[o] \in Topics THEN Len(Subs[job[o]]) ELSE 1) :
            RunJob(o, kid)
       \/ \E c \in OpId : Val(o, c)
       \/ \E e \in Errors : Throw(o, e)
       \/ End(o)

Spec == Init /\ [][Next]_vars

(* Handlers terminate, the worker threads take every posted operation, and  *)
(* the access scheduler admits a root operation it could admit for ever.    *)
Fairness ==
  \A o \in OpId :
    /\ WF_vars(Admit(o))
    /\ WF_vars(\E c \in OpId : Val(o, c))
    /\ WF_vars(End(o))

FairSpec == Spec /\ Fairness

-----------------------------------------------------------------------------
TypeOK ==
  /\ st \in [OpId -> Status]
  /\ want \in [OpId -> Access]
  /\ root \in [OpId -> OpId]
  /\ par \in [OpId -> OpId \cup {NoOp}]
  /\ msg \in [OpId -> Msg \cup {NoMsg}]
  /\ job \in [OpId -> Operations \cup Topics \cup {NoJob}]
  /\ pend \in [OpId -> SUBSET OpId]
  /\ exc \in [OpId -> Errors]
  /\ answer \in [Msg -> {"unsent", "pending"} \cup Results]
  /\ booted \in BOOLEAN

(* "Parent op needs to have equal or more permissions as child", through    *)
(* any depth of motis_call and motis_publish: no operation of a tree has a  *)
(* handler stronger than the access its root was enqueued with.             *)
PermissionInherited ==
  \A o \in OpId : st[o] # "free" => want[o] <= want[root[o]]

(* "Parent op may not quit until all child ops ... have finished"           *)
(* (dispatcher.h:22-23).                                                    *)
ParentOutlivesChildren ==
  \A o \in Running : IsRoot(o) \/ st[par[o]] = "active"

(* The running operations whose future nobody has dropped, all the way up   *)
(* to their root.                                                           *)
Held ==
  Running \cap UNION {S \in SUBSET OpId :
    \A o \in S : IsRoot(o) \/ (par[o] \in S /\ o \in pend[par[o]])}

(* "Multiple reads or one single write at a time" for the handlers that     *)
(* actually run: as long as nobody above it drops its future, no handler    *)
(* registered with WRITE overlaps such an operation of another root,        *)
(* whatever else is thrown, abandoned or published blindly.                 *)
HeldExclusion ==
  \A a, b \in Held : root[a] # root[b] => want[a] = READ /\ want[b] = READ

(* Every message that reached the dispatcher gets its callback, whatever    *)
(* its handler and the operations below it do.                              *)
EveryMessageAnswered ==
  \A m \in Msg : answer[m] = "pending" ~> answer[m] \in Results

(* Seen from the schedule, the operations whose root still runs, the ones   *)
(* nobody waits for included, are groups of readers and writers under the   *)
(* lock the concurrency model of dispatcher.h describes.                    *)
Rooted == {o \in Running : st[root[o]] = "active"}

Lock == INSTANCE ScheduleLock WITH
  Group   <- OpId,
  readers <- {root[o] : o \in {x \in Rooted : want[x] = READ}},
  writers <- {root[o] : o \in {x \in Rooted : want[x] = WRITE}}

ImplementsScheduleLock == Lock!Spec
=============================================================================
