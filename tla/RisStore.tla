------------------------------ MODULE RisStore ------------------------------
(***************************************************************************)
(* The realtime message store of modules/ris (ris.cc): ingestion of files  *)
(* and uploads into an LMDB database, the per-day index, forwarding of     *)
(* stored messages to the subscribers of /ris/messages, purging, and what  *)
(* a crash leaves behind.  All operations are registered with WRITE, so    *)
(* they exclude each other; what interleaves with them is the arrival of   *)
(* files, errors of the readers and crashes between transactions.          *)
(***************************************************************************)
EXTENDS Integers, Sequences

CONSTANTS
  NFiles,     \* input files, numbered by last_write_time
  Upload,     \* uploaded archives
  Msg,        \* messages
  Content,    \* [File \cup Upload -> Seq(Msg)]: messages an archive holds
  Ts,         \* [Msg -> Time]: publication timestamp (TOut)
  Earliest,   \* [Msg -> Time]: earliest and latest schedule time the
  Latest,     \*   message mentions
  MaxTime,    \* bound on timestamps
  DayLen,     \* SECONDS_A_DAY
  BatchSize,  \* BATCH_SIZE
  BufMax,     \* WRITE_MSG_BUF_MAX_SIZE
  First,      \* schedule::first_event_schedule_time_
  Last,       \* schedule::last_event_schedule_time_
  InitTime,   \* parameter init_time
  ClearDb,    \* values of the parameter clear_db
  Enabled,    \* kinds of requests and faults of the environment
  MaxEvents   \* bound on requests, crashes and reader errors

File   == 1..NFiles
Source == File \cup Upload
Time   == 1..MaxTime
NoTime == 0          \* no entry in MAX_DAY_DB; system_time_ at start
Inf    == MaxTime + 1 \* no entry in MIN_DAY_DB

ASSUME RisAssumption ==
  /\ NFiles \in Nat \ {0} /\ MaxTime \in Nat \ {0} /\ DayLen \in Nat \ {0}
  /\ BatchSize \in Nat /\ BufMax \in Nat /\ MaxEvents \in Nat
  /\ Upload \cap File = {}
  /\ Content \in [Source -> Seq(Msg)]
  /\ Ts \in [Msg -> Time] /\ Earliest \in [Msg -> Time]
  /\ Latest \in [Msg -> Time]
  /\ \A m \in Msg : Earliest[m] <= Latest[m]
  /\ First \in Time /\ Last \in Time /\ First <= Last
  /\ InitTime \in 0..MaxTime /\ ClearDb \subseteq BOOLEAN

VARIABLES
  copies,   \* MSG_DB: how often the bucket Ts[m] holds message m
  minDay,   \* MIN_DAY_DB
  maxDay,   \* MAX_DAY_DB
  known,    \* FILE_DB
  dir,      \* files in the input directory
  op,       \* the operation running, "off" if the process is down
  stage,    \* where an ingesting operation is
  todo,     \* files collected but not yet taken
  cur,      \* archive being ingested
  pos,      \* messages of it already parsed
  buf,      \* write buffer: messages not yet in MSG_DB
  nbuf,     \* buf_msg_count
  mins,     \* per-day minimum and maximum of the archive so far
  maxs,
  pub,      \* publisher: messages not yet published
  pubMax,   \* publisher::max_timestamp_
  target,   \* forward: the requested time,
  from,     \*   the first timestamp,
  cursor,   \*   the next key to read,
  batch,    \*   batch_begin
  sysTime,  \* schedule::system_time_
  seen,     \* messages published since the process started
  again,    \* messages published more than once since then
  purged,   \* messages purge deleted
  events,   \* number of requests, crashes and errors so far
  happened  \* and their kinds

db   == <<copies, minDay, maxDay, known, purged>>
work == <<stage, todo, cur, pos, buf, nbuf, mins, maxs>>
fwd  == <<target, from, cursor, batch>>
out  == <<seen, again>>
env  == <<events, happened>>
vars == <<copies, minDay, maxDay, known, dir, op, stage, todo, cur, pos, buf,
          nbuf, mins, maxs, pub, pubMax, target, from, cursor, batch, sysTime,
          seen, again, purged, events, happened>>

Ops    == {"off", "idle", "init", "read", "upload", "forward"}
Stages == {"pick", "parse", "index", "publish", "known"}

-----------------------------------------------------------------------------
(* day, next_day and for_each_day.                                          *)
DayOf(t) == (t \div DayLen) * DayLen
Days     == {d \in 0..MaxTime : d % DayLen = 0}
DaysOf_FirstDayOnly(m) == {DayOf(Earliest[m])}
DaysOf(m) ==
  {d \in Days : DayOf(Earliest[m]) <= d /\ d < DayOf(Latest[m]) + DayLen}

IndexDays_NoCeil == {d \in Days : DayOf(First) <= d /\ d < DayOf(Last)}

(* floor(first_event, day) .. ceil(last_event, day), exclusive.             *)
IndexDays ==
  {d \in Days : DayOf(First) <= d /\ d < DayOf(Last - 1) + DayLen}

(* The filter of forward against the schedule.                              *)
Relevant(m) == Earliest[m] <= Last /\ Latest[m] >= First

Lesser(a, b)  == IF a < b THEN a ELSE b
Greater(a, b) == IF a > b THEN a ELSE b

Buckets == {Ts[m] : m \in {x \in Msg : copies[x] > 0}}

Init ==
  /\ copies = [m \in Msg |-> 0]
  /\ minDay = [d \in Days |-> Inf] /\ maxDay = [d \in Days |-> NoTime]
  /\ known = {} /\ dir = {} /\ purged = {}
  /\ op = "off" /\ stage = "pick" /\ todo = {} /\ cur = 1 /\ pos = 0
  /\ buf = [m \in Msg |-> 0] /\ nbuf = 0
  /\ mins = [d \in Days |-> Inf] /\ maxs = [d \in Days |-> NoTime]
  /\ pub = {} /\ pubMax = NoTime
  /\ target = 0 /\ from = 0 /\ cursor = 0 /\ batch = 0
  /\ sysTime = NoTime /\ seen = {} /\ again = {}
  /\ events = 0 /\ happened = {}

Event(kind) ==
  /\ kind \in Enabled /\ events < MaxEvents
  /\ events' = events + 1 /\ happened' = happened \cup {kind}

(* Files appear in the input directory.                                     *)
Arrive(f) ==
  /\ f \notin dir
  /\ dir' = dir \cup {f}
  /\ UNCHANGED <<db, op, work, pub, pubMax, fwd, sysTime, out, env>>

-----------------------------------------------------------------------------
(* flush_to_db: one transaction that merges the buffer into the buckets.    *)
Flushed_Overwrite ==
  [m \in Msg |-> IF \E x \in Msg : buf[x] > 0 /\ Ts[x] = Ts[m]
                 THEN buf[m] ELSE copies[m]]
Flushed == [m \in Msg |-> copies[m] + buf[m]]

EmptyBuf == [m \in Msg |-> 0]

BufAfterFlush_Kept == buf
BufAfterFlush == EmptyBuf

(* Entering write_to_db for an archive.                                     *)
Open(s) ==
  /\ stage' = "parse" /\ cur' = s /\ pos' = 0
  /\ buf' = EmptyBuf /\ nbuf' = 0
  /\ mins' = [d \in Days |-> Inf] /\ maxs' = [d \in Days |-> NoTime]

(* collect_files: files of the directory that FILE_DB does not list.        *)
Collect(knownFiles) == /\ todo' = dir \ knownFiles
                       /\ stage' = "pick"
                       /\ UNCHANGED <<cur, pos, buf, nbuf, mins, maxs>>

(* Process start and the handler of /init up to the parsing; it stops there *)
(* if the input does not exist.                                             *)
Start ==
  /\ op = "off"
  /\ \/ /\ TRUE \in ClearDb
        /\ copies' = EmptyBuf /\ known' = {}
        /\ minDay' = [d \in Days |-> Inf] /\ maxDay' = [d \in Days |-> NoTime]
     \/ /\ FALSE \in ClearDb
        /\ UNCHANGED <<copies, minDay, maxDay, known>>
  /\ op' \in IF dir = {} THEN {"init", "idle"} ELSE {"init"}
  /\ Collect(known')
  /\ UNCHANGED <<dir, purged, pub, pubMax, fwd, sysTime, out, env>>

BeginRead ==
  /\ op = "idle" /\ Event("read")
  /\ op' = "read" /\ pubMax' = NoTime
  /\ Collect(known)
  /\ UNCHANGED <<db, dir, pub, fwd, sysTime, out>>

BeginUpload(u) ==
  /\ op = "idle" /\ Event("upload")
  /\ op' = "upload" /\ pubMax' = NoTime
  /\ Open(u)
  /\ UNCHANGED <<db, dir, todo, pub, fwd, sysTime, out>>

(* The loop of parse_sequential takes the files by their write time.        *)
PickFile(f) ==
  /\ op \in {"init", "read"} /\ stage = "pick"
  /\ f \in todo /\ \A g \in todo : f <= g
  /\ todo' = todo \ {f}
  /\ Open(f)
  /\ UNCHANGED <<db, dir, op, pub, pubMax, fwd, sysTime, out, env>>

(* publisher::add; the null publisher of init ignores it.                   *)
Add(m) ==
  IF op = "init" THEN UNCHANGED <<pub, pubMax>>
  ELSE /\ pub' = pub \cup {m}
       /\ pubMax' = Greater(pubMax, Ts[m])

(* write: a full buffer goes to the database before the message is added.   *)
ParseMsg ==
  LET m == Content[cur][pos + 1]
      full == nbuf > BufMax
      rest == IF full THEN BufAfterFlush ELSE buf
  IN /\ op \in {"init", "read", "upload"} /\ stage = "parse"
     /\ pos < Len(Content[cur])
     /\ copies' = IF full THEN Flushed ELSE copies
     /\ nbuf' = IF full THEN 0 ELSE nbuf + 1
     /\ buf' = [rest EXCEPT ![m] = @ + 1]
     /\ pos' = pos + 1
     /\ Add(m)
     /\ mins' = [d \in Days |-> IF d \in DaysOf(m)
                                THEN Lesser(mins[d], Ts[m]) ELSE mins[d]]
     /\ maxs' = [d \in Days |-> IF d \in DaysOf(m)
                                THEN Greater(maxs[d], Ts[m]) ELSE maxs[d]]
     /\ UNCHANGED <<minDay, maxDay, known, purged, dir, op, stage, todo, cur,
                    fwd, sysTime, out, env>>

(* The end of the archive: the rest of the buffer is committed ...          *)
FlushRest ==
  /\ stage = "parse" /\ op \in {"init", "read", "upload"}
  /\ pos = Len(Content[cur])
  /\ copies' = Flushed /\ buf' = BufAfterFlush
  /\ stage' = "index"
  /\ UNCHANGED <<minDay, maxDay, known, purged, dir, op, todo, cur, pos, nbuf,
                 mins, maxs, pub, pubMax, fwd, sysTime, out, env>>

(* ... then, in a transaction of its own, the index of the days.            *)
NewMinDay_NoMerge == [d \in Days |-> IF mins[d] # Inf THEN mins[d] ELSE minDay[d]]
NewMinDay == [d \in Days |-> Lesser(minDay[d], mins[d])]

UpdateIndex ==
  /\ stage = "index"
  /\ minDay' = NewMinDay
  /\ maxDay' = [d \in Days |-> Greater(maxDay[d], maxs[d])]
  /\ stage' = "publish"
  /\ UNCHANGED <<copies, known, purged, dir, op, todo, cur, pos, buf, nbuf,
                 mins, maxs, pub, pubMax, fwd, sysTime, out, env>>

(* publisher::flush: the subscribers have handled the batch on return.      *)
Publish(ms) ==
  /\ seen' = seen \cup ms
  /\ again' = again \cup (seen \cap ms) \cup {m \in ms : op = "forward" /\ copies[m] > 1}

AfterPublish ==
  IF op = "upload"
  THEN op' = "idle" /\ stage' = "pick" /\ sysTime' = pubMax
  ELSE stage' = "known" /\ UNCHANGED <<op, sysTime>>

PublishFile ==
  /\ stage = "publish"
  /\ Publish(pub) /\ pub' = {}
  /\ AfterPublish
  /\ UNCHANGED <<db, dir, todo, cur, pos, buf, nbuf, mins, maxs, pubMax, fwd,
                 env>>

KnownWith_NotCommitted(f) == known
KnownWith(f) == known \cup {f}

AddToKnownFiles ==
  /\ stage = "known"
  /\ known' = KnownWith(cur) /\ stage' = "pick"
  /\ UNCHANGED <<copies, minDay, maxDay, purged, dir, op, todo, cur, pos, buf,
                 nbuf, mins, maxs, pub, pubMax, fwd, sysTime, out, env>>

EndRead ==
  /\ op = "read" /\ stage = "pick" /\ todo = {}
  /\ op' = "idle" /\ sysTime' = pubMax
  /\ UNCHANGED <<db, dir, work, pub, pubMax, fwd, out, env>>

(* A reader throws in the middle of an archive: what the buffer holds is    *)
(* lost, but the destructor of the publisher still publishes.  During /init *)
(* the process gives up instead.                                            *)
ReaderError ==
  /\ Event("error") /\ stage = "parse" /\ op \in {"read", "upload"}
  /\ Publish(pub) /\ pub' = {}
  /\ op' = "idle" /\ stage' = "pick" /\ todo' = {} /\ buf' = EmptyBuf
  /\ UNCHANGED <<db, dir, cur, pos, nbuf, mins, maxs, pubMax, fwd, sysTime>>

-----------------------------------------------------------------------------
(* forward(to): without an index entry in the period of the schedule there  *)
(* is nothing to do; else start behind the system time.                     *)
NextFrom_Again(least) == Greater(least, sysTime)
NextFrom(least) == Greater(least, sysTime + 1)

LeastIndexed(t) ==
  /\ \E d \in IndexDays : minDay[d] = t
  /\ \A d \in IndexDays : t <= minDay[d]

NothingRelevant == \A d \in IndexDays : minDay[d] = Inf

Forward(to) ==
  IF NothingRelevant
  THEN op' = "idle" /\ UNCHANGED fwd
  ELSE /\ op' = "forward" /\ target' = to
       /\ \E least \in Time :
            /\ LeastIndexed(least)
            /\ from' = NextFrom(least)
            /\ cursor' = NextFrom(least)
       /\ batch' = 0

EndInit ==
  /\ op = "init" /\ stage = "pick" /\ todo = {}
  /\ Forward(InitTime)
  /\ UNCHANGED <<db, dir, work, pub, pubMax, sysTime, out, env>>

BeginForward(to) ==
  /\ op = "idle" /\ Event(IF to > sysTime THEN "forward" ELSE "backward")
  /\ Forward(to)
  /\ UNCHANGED <<db, dir, work, pub, pubMax, sysTime, out>>

AtBucket(t) == t \in Buckets /\ t >= cursor /\ \A b \in Buckets : b >= cursor => t <= b

(* One bucket; a batch that has become too long is published.  batch_begin  *)
(* is the first bucket read (0 stands for "none yet").                      *)
Matching(t) ==
  {m \in Msg : copies[m] > 0 /\ Ts[m] = t /\ t <= target /\ t >= from /\ Relevant(m)}

ForwardBucket(t) ==
  /\ op = "forward" /\ AtBucket(t) /\ t <= target
  /\ cursor' = t + 1
  /\ IF batch # 0 /\ t - batch > BatchSize
     THEN Publish(pub \cup Matching(t)) /\ pub' = {} /\ batch' = t
     ELSE /\ pub' = pub \cup Matching(t)
          /\ batch' = IF batch = 0 THEN t ELSE batch
          /\ UNCHANGED out
  /\ UNCHANGED <<db, dir, op, work, pubMax, target, from, sysTime, env>>

EndForward ==
  /\ op = "forward"
  /\ \A t \in Buckets : t >= cursor => t > target
  /\ Publish(pub) /\ pub' = {}
  /\ sysTime' = target /\ op' = "idle"
  /\ UNCHANGED <<db, dir, work, pubMax, fwd, env>>

(* purge(until): SET_RANGE to the first bucket at or after until, then      *)
(* backwards; without such a bucket the loop is never entered.              *)
Purge(until) ==
  /\ op = "idle" /\ Event("purge")
  /\ LET gone == IF \E b \in Buckets : b >= until
                 THEN {m \in Msg : copies[m] > 0 /\ Ts[m] <= until} ELSE {}
     IN /\ copies' = [m \in Msg |-> IF m \in gone THEN 0 ELSE copies[m]]
        /\ purged' = purged \cup gone
  /\ UNCHANGED <<minDay, maxDay, known, dir, op, work, pub, pubMax, fwd,
                 sysTime, out>>

(* The process dies; committed transactions survive.                        *)
Crash ==
  /\ Event("crash") /\ op # "off"
  /\ op' = "off" /\ stage' = "pick" /\ todo' = {} /\ pub' = {}
  /\ buf' = EmptyBuf
  /\ sysTime' = NoTime /\ seen' = {} /\ again' = {}
  /\ UNCHANGED <<db, dir, cur, pos, nbuf, mins, maxs, pubMax, fwd>>

Step ==
  \/ \E f \in File : PickFile(f)
  \/ ParseMsg \/ FlushRest \/ UpdateIndex \/ PublishFile \/ AddToKnownFiles
  \/ EndRead \/ EndInit
  \/ \E t \in Time : ForwardBucket(t)
  \/ EndForward

Next ==
  \/ Start \/ Step \/ BeginRead \/ ReaderError \/ Crash
  \/ \E f \in File : Arrive(f)
  \/ \E u \in Upload : BeginUpload(u)
  \/ \E t \in Time : BeginForward(t) \/ Purge(t)

Spec == Init /\ [][Next]_vars

(* The process is restarted, and an operation that runs goes on.            *)
FairSpec == Spec /\ WF_vars(Start) /\ WF_vars(Step)
-----------------------------------------------------------------------------
TypeOK ==
  /\ copies \in [Msg -> Nat] /\ buf \in [Msg -> Nat] /\ nbuf \in Nat
  /\ minDay \in [Days -> 0..Inf] /\ maxDay \in [Days -> 0..Inf]
  /\ mins \in [Days -> 0..Inf] /\ maxs \in [Days -> 0..Inf]
  /\ known \subseteq File /\ dir \subseteq File /\ todo \subseteq File
  /\ op \in Ops /\ stage \in Stages
  /\ cur \in Source /\ pos \in Nat
  /\ pub \subseteq Msg /\ pubMax \in 0..Inf
  /\ target \in 0..Inf /\ from \in 0..Inf /\ cursor \in 0..Inf
  /\ batch \in 0..Inf /\ sysTime \in 0..Inf
  /\ seen \subseteq Msg /\ again \subseteq Msg /\ purged \subseteq Msg
  /\ events \in 0..MaxEvents /\ happened \subseteq Enabled

MessagesOf(s) == {Content[s][i] : i \in DOMAIN Content[s]}

(* All messages of the files FILE_DB lists have reached MSG_DB ...          *)
KnownFileStored ==
  \A f \in known : \A m \in MessagesOf(f) : copies[m] > 0 \/ m \in purged

(* ... and every day they mention leads a forward to them.                  *)
KnownFileIndexed ==
  \A f \in known : \A m \in MessagesOf(f) : \A d \in DaysOf(m) :
    minDay[d] <= Ts[m] /\ Ts[m] <= maxDay[d]

(* A file is recorded as parsed only when both hold: whatever crash or      *)
(* reader error hits between the transactions of write_to_db, a restart     *)
(* never skips a file whose messages are missing or cannot be found.        *)
KnownFilesKept == KnownFileStored /\ KnownFileIndexed

Only(kinds) == happened \subseteq kinds

(* When no operation runs, the index covers every stored message, so that   *)
(* get_min_timestamp starts a forward early enough: after crashes too, for  *)
(* the files are parsed again, unless an upload was under way.              *)
IndexCoversStored ==
  op = "idle" /\ Only({"read", "forward", "backward", "purge", "crash"}) =>
    \A m \in Msg : copies[m] > 0 => \A d \in DaysOf(m) :
      minDay[d] <= Ts[m] /\ Ts[m] <= maxDay[d]

(* A client that moves the time and purges misses nothing, through crashes: *)
(* every stored message that concerns the schedule and is not newer than    *)
(* the system time has been published to the realtime modules since the     *)
(* process started.  (When the last event of the schedule falls on          *)
(* midnight, its day is outside the range of ceil: such schedules are       *)
(* excluded.)                                                               *)
NoLoss ==
  op = "idle" /\ Only({"forward", "backward", "purge", "crash"}) /\ Last % DayLen # 0 =>
    \A m \in Msg : copies[m] > 0 /\ Relevant(m) /\ Ts[m] <= sysTime => m \in seen

(* While time only moves forward and nothing fails, nothing is published    *)
(* twice.                                                                   *)
AtMostOnce == Only({"forward", "purge"}) => again = {}

(* Unless an ingestion was cut off by a crash or an error, MSG_DB holds a   *)
(* message that came once only once, however often the buffer is flushed    *)
(* and merged.  (Between flush_to_db and add_to_known_files a crash lets    *)
(* the next start store messages again.)                                    *)
StoredOnce ==
  Only({"read", "forward", "backward", "purge"}) =>
    \A m \in Msg : copies[m] + buf[m] <= 1

(* A file that is in the directory when the process starts is eventually    *)
(* recorded as parsed, through crashes (of which there are finitely many).  *)
FilesIngested == \A f \in File : f \in dir /\ op = "off" ~> f \in known
=============================================================================
