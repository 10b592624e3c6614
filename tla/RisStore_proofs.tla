--------------------------- MODULE RisStore_proofs ---------------------------
(***************************************************************************)
(* Durability of the message store and delivery of its messages, for every *)
(* set of archives and messages, any buffer and batch size and any number  *)
(* of crashes, errors and requests.                                        *)
(***************************************************************************)
EXTENDS RisStore, TLAPS

Ingesting == op \in {"init", "read", "upload"}

StoredOrPurged(m) == copies[m] > 0 \/ m \in purged

(* The types of the variables the argument is about.                        *)
StoreType ==
  /\ copies \in [Msg -> Nat] /\ buf \in [Msg -> Nat]
  /\ minDay \in [Days -> Int] /\ maxDay \in [Days -> Int]
  /\ mins \in [Days -> Int] /\ maxs \in [Days -> Int]
  /\ known \subseteq File /\ dir \subseteq File /\ todo \subseteq File
  /\ cur \in Source /\ pos \in Nat
  /\ op \in Ops /\ stage \in Stages

(* Only an ingesting operation is past "pick", and then inside an archive;  *)
(* only files reach the step that records them.                             *)
StageInv ==
  /\ stage # "pick" => Ingesting
  /\ stage = "known" => op # "upload"
  /\ stage # "pick" /\ op # "upload" => cur \in File
  /\ stage = "parse" => pos <= Len(Content[cur])
  /\ stage \in {"index", "publish", "known"} => pos = Len(Content[cur])

(* What has been parsed of the archive is stored or still in the buffer,    *)
(* and is covered by the minima and maxima collected so far or, later, by   *)
(* the index itself.                                                        *)
ParsedKept ==
  stage # "pick" => \A i \in 1..pos :
    \/ StoredOrPurged(Content[cur][i])
    \/ stage = "parse" /\ buf[Content[cur][i]] > 0

ParsedCovered ==
  stage \in {"parse", "index"} => \A i \in 1..pos :
    \A d \in DaysOf(Content[cur][i]) :
      /\ mins[d] <= Ts[Content[cur][i]]
      /\ Ts[Content[cur][i]] <= maxs[d]

ParsedIndexed ==
  stage \in {"publish", "known"} => \A i \in 1..pos :
    \A d \in DaysOf(Content[cur][i]) :
      /\ minDay[d] <= Ts[Content[cur][i]]
      /\ Ts[Content[cur][i]] <= maxDay[d]

IInv ==
  /\ StoreType /\ StageInv /\ ParsedKept /\ ParsedCovered /\ ParsedIndexed
  /\ KnownFileStored /\ KnownFileIndexed

-----------------------------------------------------------------------------
LEMMA DaysAreInts == Days \subseteq Int /\ \A m \in Msg : DaysOf(m) \subseteq Days
BY RisAssumption DEF Days, DaysOf

LEMMA SourceFacts ==
  /\ File \subseteq Source /\ Upload \subseteq Source
  /\ \A s \in Source : /\ Content[s] \in Seq(Msg) /\ Len(Content[s]) \in Nat
                       /\ DOMAIN Content[s] = 1..Len(Content[s])
                       /\ \A i \in 1..Len(Content[s]) : Content[s][i] \in Msg
BY RisAssumption DEF Source

LEMMA MsgFacts == \A m \in Msg : Ts[m] \in 1..MaxTime /\ Ts[m] \in Int
BY RisAssumption DEF Time

LEMMA InitInv == Init => IInv
<1> SUFFICES ASSUME Init PROVE IInv
  OBVIOUS
<1>1. Inf \in Int /\ NoTime \in Int
  BY RisAssumption DEF Inf, NoTime
<1>2. StoreType
  <2>1. 1 \in Source
    BY RisAssumption DEF Source, File
  <2>2. QED
    BY <1>1, <2>1 DEF Init, StoreType, Ops, Stages
<1>3. StageInv /\ ParsedKept /\ ParsedCovered /\ ParsedIndexed
  BY DEF Init, StageInv, ParsedKept, ParsedCovered, ParsedIndexed
<1>4. KnownFileStored /\ KnownFileIndexed
  BY DEF Init, KnownFileStored, KnownFileIndexed
<1>5. QED
  BY <1>2, <1>3, <1>4 DEF IInv

(* What the known files need is kept by every step that neither forgets a   *)
(* stored message, but for purging it, nor narrows the index.               *)
LEMMA KnownKept ==
  ASSUME IInv, known' = known,
         \A m \in Msg : StoredOrPurged(m) => StoredOrPurged(m)',
         \A d \in Days : minDay'[d] <= minDay[d] /\ maxDay[d] <= maxDay'[d],
         minDay' \in [Days -> Int], maxDay' \in [Days -> Int]
  PROVE  KnownFileStored' /\ KnownFileIndexed'
<1> USE DEF IInv, StoreType
<1>1. \A f \in known : MessagesOf(f) \subseteq Msg
  BY SourceFacts DEF MessagesOf
<1>2. KnownFileStored'
  BY <1>1 DEF KnownFileStored, StoredOrPurged
<1>3. KnownFileIndexed'
  <2> SUFFICES ASSUME NEW f \in known, NEW m \in MessagesOf(f),
                      NEW d \in DaysOf(m)
               PROVE  minDay'[d] <= Ts[m] /\ Ts[m] <= maxDay'[d]
    BY DEF KnownFileIndexed
  <2>1. m \in Msg /\ d \in Days /\ Ts[m] \in Int
    BY <1>1, DaysAreInts, MsgFacts
  <2>2. minDay[d] <= Ts[m] /\ Ts[m] <= maxDay[d]
    BY DEF KnownFileIndexed
  <2>3. /\ minDay[d] \in Int /\ minDay'[d] \in Int
        /\ maxDay[d] \in Int /\ maxDay'[d] \in Int
    BY <2>1
  <2>4. QED
    BY <2>1, <2>2, <2>3
<1>4. QED
  BY <1>2, <1>3

(* Steps outside an archive that leave the database alone.                  *)
LEMMA PickStage ==
  ASSUME IInv, StoreType', stage' = "pick", UNCHANGED db
  PROVE  IInv'
<1>1. KnownFileStored' /\ KnownFileIndexed'
  BY DEF IInv, db, KnownFileStored, KnownFileIndexed
<1>2. StageInv' /\ ParsedKept' /\ ParsedCovered' /\ ParsedIndexed'
  BY DEF StageInv, ParsedKept, ParsedCovered, ParsedIndexed
<1>3. QED
  BY <1>1, <1>2 DEF IInv

(* Steps that enter an archive.                                             *)
LEMMA OpenInv ==
  ASSUME IInv, NEW s \in Source, Open(s), UNCHANGED <<db, dir>>,
         todo' \subseteq File, op' \in {"init", "read", "upload"},
         op' # "upload" => s \in File
  PROVE  IInv'
<1>1. Inf \in Int /\ NoTime \in Int
  BY RisAssumption DEF Inf, NoTime
<1>2. StoreType'
  BY <1>1 DEF IInv, StoreType, Open, db, EmptyBuf, Ops, Stages
<1>3. Len(Content[s]) \in Nat
  BY SourceFacts
<1>4. StageInv' /\ ParsedKept' /\ ParsedCovered' /\ ParsedIndexed'
  BY <1>3 DEF Open, StageInv, Ingesting, ParsedKept, ParsedCovered, ParsedIndexed
<1>5. KnownFileStored' /\ KnownFileIndexed'
  BY DEF IInv, db, KnownFileStored, KnownFileIndexed
<1>6. QED
  BY <1>2, <1>4, <1>5 DEF IInv

-----------------------------------------------------------------------------
(* A message is parsed into the buffer, which may be flushed before.        *)
LEMMA ParseInv == ASSUME IInv, ParseMsg PROVE IInv'
<1> USE DEF IInv
<1> DEFINE m == Content[cur][pos + 1]
<1>1. /\ stage = "parse" /\ stage' = "parse" /\ pos < Len(Content[cur])
      /\ pos' = pos + 1 /\ cur' = cur /\ op' = op /\ Ingesting
      /\ UNCHANGED <<minDay, maxDay, known, purged, dir, todo>>
  BY DEF ParseMsg, Ingesting
<1>2. StoreType
  OBVIOUS
<1>3. m \in Msg /\ pos + 1 \in 1..Len(Content[cur]) /\ Len(Content[cur]) \in Nat
  BY <1>1, <1>2, SourceFacts DEF StoreType
<1>4. /\ \A x \in Msg : StoredOrPurged(x) => StoredOrPurged(x)'
      /\ \A x \in Msg : buf[x] > 0 => buf'[x] > 0 \/ copies'[x] > 0
      /\ buf'[m] > 0
      /\ copies' \in [Msg -> Nat] /\ buf' \in [Msg -> Nat]
  <2>1. CASE nbuf > BufMax
    <3>1. copies' = [x \in Msg |-> copies[x] + buf[x]]
      BY <2>1 DEF ParseMsg, Flushed
    <3>2. buf' = [[x \in Msg |-> 0] EXCEPT ![m] = @ + 1]
      BY <2>1 DEF ParseMsg, BufAfterFlush, EmptyBuf
    <3>3. QED
      BY <3>1, <3>2, <1>1, <1>2, <1>3 DEF StoreType, StoredOrPurged
  <2>2. CASE ~(nbuf > BufMax)
    <3>1. copies' = copies /\ buf' = [buf EXCEPT ![m] = @ + 1]
      BY <2>2 DEF ParseMsg
    <3>2. QED
      BY <3>1, <1>1, <1>2, <1>3 DEF StoreType, StoredOrPurged
  <2>3. QED
    BY <2>1, <2>2
<1>5. /\ mins' \in [Days -> Int] /\ maxs' \in [Days -> Int]
      /\ \A d \in Days : mins'[d] <= mins[d] /\ maxs[d] <= maxs'[d]
      /\ \A d \in DaysOf(m) : mins'[d] <= Ts[m] /\ Ts[m] <= maxs'[d]
  <2>1. /\ mins' = [d \in Days |-> IF d \in DaysOf(m)
                                   THEN Lesser(mins[d], Ts[m]) ELSE mins[d]]
        /\ maxs' = [d \in Days |-> IF d \in DaysOf(m)
                                   THEN Greater(maxs[d], Ts[m]) ELSE maxs[d]]
    BY DEF ParseMsg
  <2>2. Ts[m] \in Int /\ DaysOf(m) \subseteq Days
    BY <1>3, MsgFacts, DaysAreInts
  <2>3. QED
    BY <2>1, <2>2, <1>2 DEF StoreType, Lesser, Greater
<1>6. StoreType'
  BY <1>1, <1>2, <1>4, <1>5 DEF StoreType
<1>7. StageInv'
  BY <1>1, <1>2, <1>3 DEF StageInv, Ingesting, StoreType
<1>8. ParsedKept'
  <2> SUFFICES ASSUME NEW i \in 1..(pos + 1)
               PROVE  \/ StoredOrPurged(Content[cur][i])'
                      \/ buf'[Content[cur][i]] > 0
    BY <1>1 DEF ParsedKept
  <2>1. CASE i = pos + 1
    BY <2>1, <1>4
  <2>2. CASE i # pos + 1
    <3>1. i \in 1..pos /\ Content[cur][i] \in Msg
      BY <2>2, <1>1, <1>2, <1>3, SourceFacts DEF StoreType
    <3>2. StoredOrPurged(Content[cur][i]) \/ buf[Content[cur][i]] > 0
      BY <3>1, <1>1 DEF ParsedKept
    <3>3. QED
      BY <3>1, <3>2, <1>1, <1>4 DEF StoredOrPurged
  <2>3. QED
    BY <2>1, <2>2
<1>9. ParsedCovered'
  <2> SUFFICES ASSUME NEW i \in 1..(pos + 1), NEW d \in DaysOf(Content[cur][i])
               PROVE  /\ mins'[d] <= Ts[Content[cur][i]]
                      /\ Ts[Content[cur][i]] <= maxs'[d]
    BY <1>1 DEF ParsedCovered
  <2>1. CASE i = pos + 1
    BY <2>1, <1>5
  <2>2. CASE i # pos + 1
    <3>1. i \in 1..pos /\ Content[cur][i] \in Msg
      BY <2>2, <1>1, <1>2, <1>3, SourceFacts DEF StoreType
    <3>2. d \in Days /\ Ts[Content[cur][i]] \in Int
      BY <3>1, MsgFacts, DaysAreInts
    <3>3. /\ mins[d] <= Ts[Content[cur][i]]
          /\ Ts[Content[cur][i]] <= maxs[d]
      BY <3>1, <1>1 DEF ParsedCovered
    <3>4. mins'[d] <= mins[d] /\ maxs[d] <= maxs'[d]
      BY <3>2, <1>5
    <3>5. mins[d] \in Int /\ mins'[d] \in Int /\ maxs[d] \in Int /\ maxs'[d] \in Int
      BY <3>2, <1>2, <1>5 DEF StoreType
    <3>6. QED
      BY <3>2, <3>3, <3>4, <3>5
  <2>3. QED
    BY <2>1, <2>2
<1>10. ParsedIndexed'
  BY <1>1 DEF ParsedIndexed
<1>11. KnownFileStored' /\ KnownFileIndexed'
  <2>1. \A d \in Days : minDay'[d] <= minDay[d] /\ maxDay[d] <= maxDay'[d]
    BY <1>1, <1>2 DEF StoreType
  <2>2. QED
    BY <2>1, <1>1, <1>4, <1>6, KnownKept DEF StoreType
<1>12. QED
  BY <1>6, <1>7, <1>8, <1>9, <1>10, <1>11

(* The rest of the buffer becomes durable.                                  *)
LEMMA FlushInv == ASSUME IInv, FlushRest PROVE IInv'
<1> USE DEF IInv
<1>1. /\ stage = "parse" /\ stage' = "index" /\ pos = Len(Content[cur])
      /\ copies' = [x \in Msg |-> copies[x] + buf[x]]
      /\ buf' = [x \in Msg |-> 0]
      /\ UNCHANGED <<minDay, maxDay, known, purged, dir, op, todo, cur, pos,
                     mins, maxs>>
  BY DEF FlushRest, Flushed, BufAfterFlush, EmptyBuf
<1>2. StoreType'
  BY <1>1 DEF StoreType, Stages
<1>3. StageInv'
  BY <1>1 DEF StageInv, Ingesting
<1>4. \A x \in Msg : StoredOrPurged(x) \/ buf[x] > 0 => StoredOrPurged(x)'
  BY <1>1 DEF StoreType, StoredOrPurged
<1>5. ParsedKept'
  <2>1. \A i \in 1..pos : Content[cur][i] \in Msg
    BY <1>1, SourceFacts DEF StoreType
  <2>2. QED
    BY <2>1, <1>1, <1>4 DEF ParsedKept
<1>6. ParsedCovered' /\ ParsedIndexed'
  BY <1>1 DEF ParsedCovered, ParsedIndexed
<1>7. KnownFileStored' /\ KnownFileIndexed'
  <2>1. \A d \in Days : minDay'[d] <= minDay[d] /\ maxDay[d] <= maxDay'[d]
    BY <1>1 DEF StoreType
  <2>2. QED
    BY <2>1, <1>1, <1>2, <1>4, KnownKept DEF StoreType
<1>8. QED
  BY <1>2, <1>3, <1>5, <1>6, <1>7

(* The index takes over the minima and maxima of the archive.               *)
LEMMA IndexInv == ASSUME IInv, UpdateIndex PROVE IInv'
<1> USE DEF IInv
<1>1. /\ stage = "index" /\ stage' = "publish"
      /\ minDay' = [d \in Days |-> Lesser(minDay[d], mins[d])]
      /\ maxDay' = [d \in Days |-> Greater(maxDay[d], maxs[d])]
      /\ UNCHANGED <<copies, known, purged, dir, op, todo, cur, pos, buf,
                     mins, maxs>>
  BY DEF UpdateIndex, NewMinDay
<1>2. /\ minDay' \in [Days -> Int] /\ maxDay' \in [Days -> Int]
      /\ \A d \in Days : /\ minDay'[d] <= minDay[d] /\ minDay'[d] <= mins[d]
                         /\ maxDay[d] <= maxDay'[d] /\ maxs[d] <= maxDay'[d]
  BY <1>1 DEF StoreType, Lesser, Greater
<1>3. StoreType'
  BY <1>1, <1>2 DEF StoreType, Stages
<1>4. StageInv'
  BY <1>1 DEF StageInv, Ingesting
<1>5. ParsedKept' /\ ParsedCovered'
  BY <1>1 DEF ParsedKept, ParsedCovered, StoredOrPurged
<1>6. ParsedIndexed'
  <2> SUFFICES ASSUME NEW i \in 1..pos, NEW d \in DaysOf(Content[cur][i])
               PROVE  /\ minDay'[d] <= Ts[Content[cur][i]]
                      /\ Ts[Content[cur][i]] <= maxDay'[d]
    BY <1>1 DEF ParsedIndexed
  <2>1. Content[cur][i] \in Msg
    BY <1>1, SourceFacts DEF StageInv, StoreType
  <2>2. d \in Days /\ Ts[Content[cur][i]] \in Int
    BY <2>1, MsgFacts, DaysAreInts
  <2>3. mins[d] <= Ts[Content[cur][i]] /\ Ts[Content[cur][i]] <= maxs[d]
    BY <1>1 DEF ParsedCovered
  <2>4. mins[d] \in Int /\ maxs[d] \in Int /\ minDay'[d] \in Int /\ maxDay'[d] \in Int
    BY <2>2, <1>2 DEF StoreType
  <2>5. QED
    BY <2>2, <2>3, <2>4, <1>2
<1>7. KnownFileStored' /\ KnownFileIndexed'
  BY <1>1, <1>2, KnownKept DEF StoredOrPurged
<1>8. QED
  BY <1>3, <1>4, <1>5, <1>6, <1>7

(* After the batch of a file is published only the record is missing; an    *)
(* upload is over.                                                          *)
LEMMA PublishInv == ASSUME IInv, PublishFile PROVE IInv'
<1> USE DEF IInv
<1>1. stage = "publish" /\ UNCHANGED <<db, dir, todo, cur, pos, buf, mins, maxs>>
  BY DEF PublishFile
<1>2. CASE op = "upload"
  <2>1. stage' = "pick" /\ op' = "idle"
    BY <1>2 DEF PublishFile, AfterPublish
  <2>2. StoreType'
    BY <1>1, <2>1 DEF StoreType, db, Ops, Stages
  <2>3. QED
    BY <2>1, <2>2, <1>1, PickStage
<1>3. CASE op # "upload"
  <2>1. stage' = "known" /\ op' = op
    BY <1>3 DEF PublishFile, AfterPublish
  <2>2. StoreType'
    BY <1>1, <2>1 DEF StoreType, db, Stages
  <2>3. StageInv' /\ ParsedKept' /\ ParsedCovered' /\ ParsedIndexed'
    BY <1>1, <1>3, <2>1
    DEF StageInv, Ingesting, ParsedKept, ParsedCovered, ParsedIndexed, db,
        StoredOrPurged
  <2>4. KnownFileStored' /\ KnownFileIndexed'
    BY <1>1 DEF db, KnownFileStored, KnownFileIndexed
  <2>5. QED
    BY <2>2, <2>3, <2>4
<1>4. QED
  BY <1>2, <1>3

(* The file is recorded: all its messages are stored and indexed.           *)
LEMMA KnownInv == ASSUME IInv, AddToKnownFiles PROVE IInv'
<1> USE DEF IInv
<1>1. /\ stage = "known" /\ stage' = "pick" /\ known' = known \cup {cur}
      /\ cur \in File /\ cur \in Source /\ pos = Len(Content[cur])
      /\ UNCHANGED <<copies, minDay, maxDay, purged, dir, op, todo, cur, pos,
                     buf, mins, maxs>>
  BY DEF AddToKnownFiles, KnownWith, StageInv, StoreType
<1>2. StoreType'
  BY <1>1 DEF StoreType, Stages
<1>3. StageInv' /\ ParsedKept' /\ ParsedCovered' /\ ParsedIndexed'
  BY <1>1 DEF StageInv, ParsedKept, ParsedCovered, ParsedIndexed
<1>4. \A m \in MessagesOf(cur) : \E i \in 1..pos : m = Content[cur][i]
  BY <1>1, SourceFacts DEF MessagesOf
<1>5. KnownFileStored'
  BY <1>1, <1>4 DEF KnownFileStored, ParsedKept, StoredOrPurged
<1>6. KnownFileIndexed'
  BY <1>1, <1>4 DEF KnownFileIndexed, ParsedIndexed
<1>7. QED
  BY <1>2, <1>3, <1>5, <1>6

(* Purging runs while no archive is open; what it deletes is recorded.      *)
LEMMA PurgeInv == ASSUME IInv, NEW until \in Time, Purge(until) PROVE IInv'
<1> USE DEF IInv
<1> DEFINE gone == IF \E b \in Buckets : b >= until
                   THEN {m \in Msg : copies[m] > 0 /\ Ts[m] <= until} ELSE {}
<1>1. /\ op = "idle" /\ stage = "pick" /\ purged' = purged \cup gone
      /\ copies' = [m \in Msg |-> IF m \in gone THEN 0 ELSE copies[m]]
      /\ UNCHANGED <<minDay, maxDay, known, dir, op, stage, todo, cur, pos, buf,
                     mins, maxs>>
  BY DEF Purge, work, StageInv, Ingesting
<1> HIDE DEF gone
<1>2. StoreType'
  BY <1>1 DEF StoreType
<1>3. StageInv' /\ ParsedKept' /\ ParsedCovered' /\ ParsedIndexed'
  BY <1>1 DEF StageInv, ParsedKept, ParsedCovered, ParsedIndexed
<1>4. \A m \in Msg : StoredOrPurged(m) => StoredOrPurged(m)'
  BY <1>1 DEF StoreType, StoredOrPurged
<1>5. \A d \in Days : minDay'[d] <= minDay[d] /\ maxDay[d] <= maxDay'[d]
  BY <1>1 DEF StoreType
<1>6. KnownFileStored' /\ KnownFileIndexed'
  BY <1>1, <1>2, <1>4, <1>5, KnownKept DEF StoreType
<1>7. QED
  BY <1>2, <1>3, <1>6

(* Start may clear the database, and with it the list of known files.       *)
LEMMA StartInv == ASSUME IInv, Start PROVE IInv'
<1> USE DEF IInv
<1>1. /\ stage' = "pick" /\ todo' = dir \ known'
      /\ UNCHANGED <<dir, purged, cur, pos, buf, mins, maxs>>
      /\ op' \in {"init", "idle"}
  BY DEF Start, Collect
<1> DEFINE Cleared == /\ copies' = [m \in Msg |-> 0] /\ known' = {}
                      /\ minDay' = [d \in Days |-> Inf]
                      /\ maxDay' = [d \in Days |-> NoTime]
<1>2. CASE Cleared
  <2>1. Cleared
    BY <1>2
  <2>2. Inf \in Int /\ NoTime \in Int
    BY RisAssumption DEF Inf, NoTime
  <2>3. StoreType'
    BY <1>1, <2>1, <2>2 DEF StoreType, Ops, Stages
  <2>4. StageInv' /\ ParsedKept' /\ ParsedCovered' /\ ParsedIndexed'
    BY <1>1 DEF StageInv, ParsedKept, ParsedCovered, ParsedIndexed
  <2>5. KnownFileStored' /\ KnownFileIndexed'
    BY <2>1 DEF KnownFileStored, KnownFileIndexed
  <2>6. QED
    BY <2>3, <2>4, <2>5
<1>3. CASE UNCHANGED <<copies, minDay, maxDay, known>>
  <2>1. UNCHANGED db
    BY <1>1, <1>3 DEF db
  <2>2. StoreType'
    BY <1>1, <2>1 DEF StoreType, db, Ops, Stages
  <2>3. QED
    BY <1>1, <2>1, <2>2, PickStage
<1>4. QED
  BY <1>2, <1>3 DEF Start, EmptyBuf

(* Steps that change neither the database nor where an archive stands.      *)
LEMMA FrameInv ==
  ASSUME IInv, UNCHANGED <<db, work>>, dir' \subseteq File,
         op' \in Ops, op' # op => stage = "pick"
  PROVE  IInv'
<1>1. StoreType'
  BY DEF IInv, StoreType, db, work
<1>2. StageInv'
  BY DEF IInv, StageInv, Ingesting, work
<1>3. ParsedKept' /\ ParsedCovered' /\ ParsedIndexed'
  BY DEF IInv, ParsedKept, ParsedCovered, ParsedIndexed, StoredOrPurged, db, work
<1>4. KnownFileStored' /\ KnownFileIndexed'
  BY DEF IInv, KnownFileStored, KnownFileIndexed, db
<1>5. QED
  BY <1>1, <1>2, <1>3, <1>4 DEF IInv

LEMMA NextInv == IInv /\ [Next]_vars => IInv'
<1> SUFFICES ASSUME IInv, [Next]_vars PROVE IInv'
  OBVIOUS
<1> USE DEF IInv
<1>1. CASE UNCHANGED vars
  BY <1>1, FrameInv DEF vars, db, work, StoreType
<1>2. ASSUME NEW f \in File, Arrive(f) PROVE IInv'
  BY <1>2, FrameInv DEF Arrive, StoreType
<1>3. CASE BeginRead
  <2>1. stage' = "pick" /\ UNCHANGED db /\ StoreType'
    BY <1>3 DEF BeginRead, Collect, StoreType, db, Ops, Stages
  <2>2. QED
    BY <2>1, PickStage
<1>4. ASSUME NEW u \in Upload, BeginUpload(u) PROVE IInv'
  <2>1. u \in Source /\ todo' = todo /\ op' = "upload"
    BY <1>4 DEF BeginUpload, Source
  <2>2. Open(u) /\ UNCHANGED <<db, dir>>
    BY <1>4 DEF BeginUpload
  <2>3. todo' \subseteq File
    BY <2>1 DEF StoreType
  <2>4. QED
    BY <2>1, <2>2, <2>3, OpenInv
<1>5. ASSUME NEW f \in File, PickFile(f) PROVE IInv'
  <2>1. /\ f \in Source /\ Open(f) /\ UNCHANGED <<db, dir>>
        /\ op' \in {"init", "read", "upload"}
    BY <1>5 DEF PickFile, Source
  <2>2. todo' \subseteq File
    BY <1>5 DEF PickFile, StoreType
  <2>3. QED
    BY <2>1, <2>2, OpenInv
<1>6. CASE EndRead
  <2>1. op' \in Ops /\ stage = "pick" /\ UNCHANGED <<db, work, dir>>
    BY <1>6 DEF EndRead, Ops
  <2>2. QED
    BY <2>1, FrameInv DEF StoreType
<1>7. CASE ReaderError
  <2>1. stage' = "pick" /\ UNCHANGED db /\ StoreType'
    BY <1>7 DEF ReaderError, StoreType, db, Ops, Stages, EmptyBuf
  <2>2. QED
    BY <2>1, PickStage
<1>8. CASE Crash
  <2>1. stage' = "pick" /\ UNCHANGED db /\ StoreType'
    BY <1>8 DEF Crash, StoreType, db, Ops, Stages, EmptyBuf
  <2>2. QED
    BY <2>1, PickStage
<1>9. CASE EndInit
  <2>1. op' \in Ops /\ stage = "pick" /\ UNCHANGED <<db, work, dir>>
    BY <1>9 DEF EndInit, Forward, Ops
  <2>2. QED
    BY <2>1, FrameInv DEF StoreType
<1>10. ASSUME NEW t \in Time, BeginForward(t) PROVE IInv'
  <2>1. op' \in Ops /\ op = "idle" /\ UNCHANGED <<db, work, dir>>
    BY <1>10 DEF BeginForward, Forward, Ops
  <2>2. stage = "pick"
    BY <2>1 DEF StageInv, Ingesting
  <2>3. QED
    BY <2>1, <2>2, FrameInv DEF StoreType
<1>11. ASSUME NEW t \in Time, ForwardBucket(t) PROVE IInv'
  <2>1. op' = op /\ UNCHANGED <<db, work, dir>>
    BY <1>11 DEF ForwardBucket
  <2>2. QED
    BY <2>1, FrameInv DEF StoreType
<1>12. CASE EndForward
  <2>1. op' \in Ops /\ op = "forward" /\ UNCHANGED <<db, work, dir>>
    BY <1>12 DEF EndForward, Ops
  <2>2. stage = "pick"
    BY <2>1 DEF StageInv, Ingesting
  <2>3. QED
    BY <2>1, <2>2, FrameInv DEF StoreType
<1>13. QED
  BY <1>1, <1>2, <1>3, <1>4, <1>5, <1>6, <1>7, <1>8, <1>9, <1>10, <1>11, <1>12,
     StartInv, ParseInv, FlushInv, IndexInv, PublishInv, KnownInv, PurgeInv
  DEF Next, Step

THEOREM Invariance == Spec => []IInv
<1>1. Init => IInv
  BY InitInv
<1>2. IInv /\ [Next]_vars => IInv'
  BY NextInv
<1>3. QED
  BY <1>1, <1>2, PTL DEF Spec

(* A file FILE_DB lists has all its messages in MSG_DB, and the index of    *)
(* every day they mention reaches them, wherever crashes and reader errors  *)
(* fall between the transactions of write_to_db.                            *)
THEOREM FilesKept == Spec => []KnownFilesKept
<1>1. IInv => KnownFilesKept
  BY DEF IInv, KnownFilesKept
<1>2. QED
  BY <1>1, Invariance, PTL

-----------------------------------------------------------------------------
(* The index leads to every stored message whenever no operation runs; a   *)
(* client that only moves the time loses nothing; and as long as nothing   *)
(* cuts an ingestion off, a message is stored once and, while the time     *)
(* moves forward, published once.                                          *)

(* A stored message the index does not lead to comes from a file that is   *)
(* still to be parsed.                                                     *)
Safe == {"read", "forward", "backward", "purge", "crash"}

Covered(m) == \A d \in DaysOf(m) : minDay[d] <= Ts[m] /\ Ts[m] <= maxDay[d]

Pending(f) ==
  f \in dir \ known /\ (op = "off" \/ f \in todo \/ (stage # "pick" /\ cur = f))

Found(m) == Covered(m) \/ \E f \in File : Pending(f) /\ m \in MessagesOf(f)

AllFound == \A m \in Msg : copies[m] > 0 \/ buf[m] > 0 => Found(m)

BufInv == stage # "parse" => \A m \in Msg : buf[m] = 0

TodoInv ==
  /\ todo \subseteq dir \ known
  /\ op \in {"idle", "forward", "upload"} => todo = {}
  /\ stage # "pick" /\ op # "upload" => cur \in dir \ known /\ cur \notin todo
  /\ op = "upload" => "upload" \in happened

WorkInv == IInv /\ BufInv /\ TodoInv

CoverInv == WorkInv /\ (Only(Safe) => AllFound)

-----------------------------------------------------------------------------
LEMMA OffStage == ASSUME IInv PROVE op \in {"off", "idle", "forward"} => stage = "pick"
BY DEF IInv, StageInv, Ingesting

LEMMA OnlyKept == \A K : happened \subseteq happened' /\ (Only(K))' => Only(K)
BY DEF Only

LEMMA EventKinds == \A k : Event(k) => happened' = happened \cup {k}
BY DEF Event

LEMMA WorkStep == WorkInv /\ [Next]_vars => WorkInv'
<1> SUFFICES ASSUME WorkInv, [Next]_vars PROVE BufInv' /\ TodoInv'
  BY NextInv DEF WorkInv
<1> USE DEF WorkInv
<1>0. IInv /\ BufInv /\ TodoInv /\ StoreType
  BY DEF IInv
<1>1. ASSUME NEW f \in File, Arrive(f) PROVE BufInv' /\ TodoInv'
  BY <1>1 DEF Arrive, db, work, env, BufInv, TodoInv
<1>2. CASE Start
  <2>1. stage' = "pick" /\ todo' = dir \ known' /\ UNCHANGED <<dir, buf, env>>
        /\ op' \in {"init", "idle"} /\ (op' = "idle" => dir = {}) /\ stage = "pick"
    BY <1>2, OffStage DEF Start, Collect
  <2> QED BY <2>1 DEF BufInv, TodoInv, env
<1>3. CASE BeginRead
  <2>1. stage' = "pick" /\ todo' = dir \ known /\ UNCHANGED <<dir, known, buf>>
        /\ op' = "read" /\ stage = "pick"
    BY <1>3, OffStage DEF BeginRead, Collect, db
  <2> QED BY <2>1 DEF BufInv, TodoInv
<1>4. ASSUME NEW u \in Upload, BeginUpload(u) PROVE BufInv' /\ TodoInv'
  <2>1. /\ op = "idle" /\ op' = "upload" /\ "upload" \in happened'
        /\ stage' = "parse" /\ UNCHANGED <<dir, known, todo>>
    BY <1>4, EventKinds DEF BeginUpload, Open, db
  <2> QED BY <2>1 DEF BufInv, TodoInv
<1>5. ASSUME NEW f \in File, PickFile(f) PROVE BufInv' /\ TodoInv'
  <2>1. /\ op \in {"init", "read"} /\ op' = op /\ f \in todo /\ todo' = todo \ {f}
        /\ stage' = "parse" /\ cur' = f /\ UNCHANGED <<dir, known>>
    BY <1>5 DEF PickFile, Open, db
  <2> QED BY <2>1 DEF BufInv, TodoInv
<1>6. CASE ParseMsg
  <2>1. stage = "parse" /\ UNCHANGED <<stage, op, cur, dir, known, todo, happened>>
    BY <1>6 DEF ParseMsg, env
  <2> QED BY <2>1 DEF BufInv, TodoInv
<1>7. CASE FlushRest
  <2>1. /\ stage = "parse" /\ stage' = "index" /\ buf' = [m \in Msg |-> 0]
        /\ UNCHANGED <<op, cur, dir, known, todo, happened>>
    BY <1>7 DEF FlushRest, BufAfterFlush, EmptyBuf, env
  <2> QED BY <2>1 DEF BufInv, TodoInv
<1>8. CASE UpdateIndex
  <2>1. /\ stage = "index" /\ stage' = "publish"
        /\ UNCHANGED <<buf, op, cur, dir, known, todo, happened>>
    BY <1>8 DEF UpdateIndex, env
  <2> QED BY <2>1 DEF BufInv, TodoInv
<1>9. CASE PublishFile
  <2>1. /\ stage = "publish" /\ UNCHANGED <<buf, cur, dir, known, todo, happened>>
        /\ \/ op = "upload" /\ op' = "idle" /\ stage' = "pick"
           \/ op # "upload" /\ op' = op /\ stage' = "known"
    BY <1>9 DEF PublishFile, AfterPublish, db, env
  <2> QED BY <2>1 DEF BufInv, TodoInv
<1>10. CASE AddToKnownFiles
  <2>1. /\ stage = "known" /\ stage' = "pick" /\ known' = known \cup {cur}
        /\ UNCHANGED <<buf, op, cur, dir, todo, happened>>
    BY <1>10 DEF AddToKnownFiles, KnownWith, env
  <2>2. op # "upload"
    BY <2>1 DEF IInv, StageInv
  <2> QED BY <2>1, <2>2 DEF BufInv, TodoInv
<1>11. CASE EndRead \/ EndInit \/ EndForward \/ \E t \in Time : ForwardBucket(t)
  <2>1. /\ UNCHANGED <<stage, buf, cur, dir, known, todo, happened>>
        /\ \/ op' \in {"idle", "forward"} /\ todo = {} /\ stage = "pick"
           \/ op = "forward" /\ op' \in {"idle", "forward"} /\ stage = "pick"
    BY <1>11, OffStage DEF EndRead, EndInit, Forward, EndForward, ForwardBucket, db, work, env
  <2> QED BY <2>1 DEF BufInv, TodoInv
<1>12. ASSUME NEW t \in Time, BeginForward(t) PROVE BufInv' /\ TodoInv'
  <2>1. /\ op = "idle" /\ op' \in {"idle", "forward"} /\ stage = "pick"
        /\ UNCHANGED <<stage, buf, cur, dir, known, todo>>
    BY <1>12, OffStage DEF BeginForward, Forward, db, work
  <2> QED BY <2>1 DEF BufInv, TodoInv
<1>13. ASSUME NEW t \in Time, Purge(t) PROVE BufInv' /\ TodoInv'
  <2>1. /\ op = "idle" /\ op' = "idle" /\ stage = "pick"
        /\ UNCHANGED <<stage, buf, cur, dir, known, todo>>
    BY <1>13, OffStage DEF Purge, work
  <2> QED BY <2>1 DEF BufInv, TodoInv
<1>14. CASE Crash \/ ReaderError
  <2>1. /\ op' \in {"off", "idle"} /\ stage' = "pick" /\ todo' = {}
        /\ buf' = [m \in Msg |-> 0] /\ UNCHANGED <<dir, known>>
    BY <1>14 DEF Crash, ReaderError, EmptyBuf, db
  <2> QED BY <2>1 DEF BufInv, TodoInv
<1>15. CASE UNCHANGED vars
  BY <1>15 DEF vars, BufInv, TodoInv
<1> QED BY <1>1, <1>2, <1>3, <1>4, <1>5, <1>6, <1>7, <1>8, <1>9, <1>10, <1>11, <1>12,
           <1>13, <1>14, <1>15 DEF Next, Step

(* What was found stays found when the index only widens, pending files    *)
(* stay pending and no message is added.                                   *)
LEMMA StillFound ==
  ASSUME WorkInv, WorkInv', AllFound,
         \A d \in Days : minDay'[d] <= minDay[d] /\ maxDay[d] <= maxDay'[d],
         \A f \in File : Pending(f) => (Pending(f))',
         \A m \in Msg : copies'[m] > 0 \/ buf'[m] > 0 => copies[m] > 0 \/ buf[m] > 0
  PROVE  AllFound'
<1> SUFFICES ASSUME NEW m \in Msg, copies'[m] > 0 \/ buf'[m] > 0 PROVE (Found(m))'
  BY DEF AllFound
<1>1. Found(m)
  BY DEF AllFound
<1>2. CASE Covered(m)
  <2> SUFFICES ASSUME NEW d \in DaysOf(m) PROVE minDay'[d] <= Ts[m] /\ Ts[m] <= maxDay'[d]
    BY DEF Found, Covered
  <2>1. d \in Days /\ Ts[m] \in Int
    BY DaysAreInts, MsgFacts
  <2>2. minDay[d] <= Ts[m] /\ Ts[m] <= maxDay[d]
    BY <1>2 DEF Covered
  <2>3. /\ minDay[d] \in Int /\ minDay'[d] \in Int
        /\ maxDay[d] \in Int /\ maxDay'[d] \in Int
    BY <2>1 DEF WorkInv, IInv, StoreType
  <2> QED BY <2>1, <2>2, <2>3
<1>3. CASE \E f \in File : Pending(f) /\ m \in MessagesOf(f)
  BY <1>3 DEF Found, MessagesOf
<1> QED BY <1>1, <1>2, <1>3 DEF Found

LEMMA CoverParse ==
  ASSUME WorkInv, WorkInv', AllFound, Only(Safe), ParseMsg PROVE AllFound'
<1> USE DEF WorkInv
<1> DEFINE m == Content[cur][pos + 1]
<1>1. /\ stage = "parse" /\ op # "upload" /\ pos < Len(Content[cur])
      /\ UNCHANGED <<stage, op, cur, dir, known, todo, minDay, maxDay>>
  BY DEF ParseMsg, TodoInv, Only, Safe
<1>2. /\ m \in MessagesOf(cur) /\ m \in Msg /\ cur \in File
      /\ copies \in [Msg -> Nat] /\ buf \in [Msg -> Nat]
  <2>1. cur \in Source /\ pos \in Nat /\ cur \in File
    BY <1>1 DEF IInv, StoreType, StageInv
  <2>2. pos + 1 \in DOMAIN Content[cur]
    BY <1>1, <2>1, SourceFacts
  <2> QED BY <2>1, <2>2, SourceFacts DEF MessagesOf, IInv, StoreType
<1>3. \A f \in File : Pending(f) => (Pending(f))'
  BY <1>1 DEF Pending
<1>4. (Pending(cur))'
  BY <1>1 DEF Pending, TodoInv
<1> HIDE DEF m
<1>5. ASSUME NEW x \in Msg, x # m, copies'[x] > 0 \/ buf'[x] > 0
      PROVE  copies[x] > 0 \/ buf[x] > 0
  <2>1. CASE nbuf > BufMax
    <3>1. copies' = [y \in Msg |-> copies[y] + buf[y]]
      BY <2>1 DEF ParseMsg, Flushed
    <3>2. buf' = [[y \in Msg |-> 0] EXCEPT ![m] = @ + 1]
      BY <2>1 DEF ParseMsg, BufAfterFlush, EmptyBuf, m
    <3>3. buf'[x] = 0 /\ copies'[x] = copies[x] + buf[x]
      BY <3>1, <3>2, <1>5
    <3>4. copies[x] \in Nat /\ buf[x] \in Nat
      BY <1>2
    <3> QED BY <3>3, <3>4, <1>5
  <2>2. CASE ~(nbuf > BufMax)
    <3>1. copies' = copies /\ buf' = [buf EXCEPT ![m] = @ + 1]
      BY <2>2 DEF ParseMsg, m
    <3> QED BY <3>1, <1>2, <1>5
  <2> QED BY <2>1, <2>2
<1>6. ASSUME NEW x \in Msg, copies'[x] > 0 \/ buf'[x] > 0 PROVE (Found(x))'
  <2>1. CASE x = m
    <3>1. cur \in File /\ x \in MessagesOf(cur)
      BY <2>1, <1>2
    <3> QED BY <3>1, <1>1, <1>4 DEF Found, MessagesOf
  <2>2. CASE x # m
    <3>1. Found(x)
      BY <1>5, <1>6, <2>2 DEF AllFound
    <3> QED BY <3>1, <1>1, <1>3 DEF Found, Covered, MessagesOf
  <2> QED BY <2>1, <2>2
<1> QED BY <1>6 DEF AllFound

(* The file that is recorded is indexed.                                   *)
LEMMA CoverKnown ==
  ASSUME WorkInv, WorkInv', AllFound, AddToKnownFiles PROVE AllFound'
<1> USE DEF WorkInv
<1>1. /\ stage = "known" /\ known' = known \cup {cur} /\ pos = Len(Content[cur])
      /\ cur \in File /\ cur \notin todo
      /\ UNCHANGED <<copies, buf, minDay, maxDay, op, todo, dir>>
  BY DEF AddToKnownFiles, KnownWith, IInv, StageInv, TodoInv
<1>2. ASSUME NEW m \in MessagesOf(cur) PROVE Covered(m)
  <2>1. PICK i \in DOMAIN Content[cur] : m = Content[cur][i]
    BY DEF MessagesOf
  <2>2. i \in 1..pos
    BY <1>1, <2>1, SourceFacts DEF IInv, StoreType
  <2> QED BY <1>1, <2>1, <2>2 DEF IInv, ParsedIndexed, Covered
<1>3. ASSUME NEW f \in File, Pending(f) PROVE f = cur \/ (Pending(f))'
  BY <1>1, <1>3 DEF Pending, OffStage
<1>4. \A m \in Msg : Covered(m) => (Covered(m))'
  BY <1>1 DEF Covered
<1>5. ASSUME NEW m \in Msg, copies[m] > 0 \/ buf[m] > 0 PROVE (Found(m))'
  <2>1. CASE Covered(m)
    BY <2>1, <1>4 DEF Found
  <2>2. CASE \E f \in File : Pending(f) /\ m \in MessagesOf(f)
    <3>1. PICK f \in File : Pending(f) /\ m \in MessagesOf(f)
      BY <2>2
    <3>2. CASE f = cur
      BY <3>1, <3>2, <1>2, <1>4 DEF Found
    <3>3. CASE f # cur
      BY <3>1, <3>3, <1>3 DEF Found, MessagesOf
    <3> QED BY <3>2, <3>3
  <2> QED BY <1>5, <2>1, <2>2 DEF AllFound, Found
<1> QED BY <1>1, <1>5 DEF AllFound

LEMMA HappenedGrows == [Next]_vars => happened \subseteq happened'
<1> SUFFICES ASSUME [Next]_vars PROVE happened \subseteq happened'
  OBVIOUS
<1>1. UNCHANGED env => happened' = happened
  BY DEF env
<1>2. UNCHANGED vars => happened' = happened
  BY DEF vars
<1>3. \A f \in File : Arrive(f) \/ PickFile(f) => UNCHANGED env
  BY DEF Arrive, PickFile
<1>4. Start \/ ParseMsg \/ FlushRest \/ UpdateIndex \/ PublishFile \/ AddToKnownFiles
      \/ EndRead \/ EndInit \/ EndForward \/ (\E t \in Time : ForwardBucket(t))
      => UNCHANGED env
  BY DEF Start, ParseMsg, FlushRest, UpdateIndex, PublishFile, AddToKnownFiles,
         EndRead, EndInit, EndForward, ForwardBucket
<1>5. BeginRead \/ ReaderError \/ Crash \/ (\E u \in Upload : BeginUpload(u))
      \/ (\E t \in Time : BeginForward(t) \/ Purge(t)) => happened \subseteq happened'
  BY EventKinds DEF BeginRead, ReaderError, Crash, BeginUpload, BeginForward, Purge
<1> QED BY <1>1, <1>2, <1>3, <1>4, <1>5 DEF Next, Step

LEMMA CoverStep == CoverInv /\ [Next]_vars => CoverInv'
<1> SUFFICES ASSUME CoverInv, [Next]_vars, (Only(Safe))' PROVE AllFound'
  BY WorkStep DEF CoverInv
<1>1. WorkInv /\ WorkInv' /\ IInv /\ IInv'
  BY WorkStep DEF CoverInv, WorkInv
<1>2. BufInv /\ TodoInv /\ BufInv' /\ TodoInv'
  BY <1>1 DEF WorkInv
<1>3. happened \subseteq happened'
  BY HappenedGrows
<1>4. Only(Safe) /\ AllFound /\ op # "upload"
  BY <1>2, <1>3 DEF Only, CoverInv, TodoInv, Safe
<1>5. StoreType /\ StoreType'
  BY <1>1 DEF IInv
<1>6. ASSUME \A d \in Days : minDay'[d] <= minDay[d] /\ maxDay[d] <= maxDay'[d],
             \A f \in File : Pending(f) => (Pending(f))',
             \A m \in Msg : copies'[m] > 0 \/ buf'[m] > 0 => copies[m] > 0 \/ buf[m] > 0
      PROVE  AllFound'
  BY <1>1, <1>4, <1>6, StillFound
<1>7. UNCHANGED <<minDay, maxDay>> =>
        \A d \in Days : minDay'[d] <= minDay[d] /\ maxDay[d] <= maxDay'[d]
  BY <1>5 DEF StoreType
<1>8. ASSUME NEW f \in File, Arrive(f) PROVE AllFound'
  BY <1>6, <1>7, <1>8 DEF Arrive, db, work, Pending
<1>9. CASE Start
  <2>1. /\ op = "off" /\ stage = "pick" /\ buf' = buf /\ \A m \in Msg : buf[m] = 0
        /\ todo' = dir \ known' /\ dir' = dir
    BY <1>1, <1>2, <1>9, OffStage DEF Start, Collect, BufInv
  <2>2. CASE UNCHANGED <<copies, minDay, maxDay, known>>
    BY <2>1, <2>2, <1>6, <1>7 DEF Pending
  <2>3. CASE copies' = EmptyBuf
    BY <2>1, <2>3 DEF AllFound, EmptyBuf
  <2> QED BY <1>9, <2>2, <2>3 DEF Start
<1>10. CASE BeginRead
  <2>1. /\ todo' = dir \ known /\ UNCHANGED <<minDay, maxDay, copies, buf, dir, known>>
    BY <1>10 DEF BeginRead, Collect, db
  <2> QED BY <2>1, <1>6, <1>7 DEF Pending
<1>11. ASSUME NEW u \in Upload, BeginUpload(u) PROVE AllFound'
  <2>1. "upload" \in happened'
    BY <1>11, EventKinds DEF BeginUpload
  <2> QED BY <2>1 DEF Only, Safe
<1>12. ASSUME NEW f \in File, PickFile(f) PROVE AllFound'
  <2>1. /\ stage = "pick" /\ op' = op /\ todo' = todo \ {f} /\ cur' = f /\ stage' = "parse"
        /\ buf' = [m \in Msg |-> 0] /\ UNCHANGED <<minDay, maxDay, copies, dir, known>>
    BY <1>12 DEF PickFile, Open, db, EmptyBuf
  <2>2. \A g \in File : Pending(g) => (Pending(g))'
    BY <2>1 DEF Pending
  <2>3. \A m \in Msg : copies'[m] > 0 \/ buf'[m] > 0 => copies[m] > 0 \/ buf[m] > 0
    BY <2>1
  <2> QED BY <2>1, <2>2, <2>3, <1>6, <1>7
<1>13. CASE ParseMsg
  BY <1>1, <1>4, <1>13, CoverParse
<1>14. CASE FlushRest
  <2>1. /\ copies' = [m \in Msg |-> copies[m] + buf[m]] /\ buf' = [m \in Msg |-> 0]
        /\ stage = "parse" /\ stage' = "index"
        /\ UNCHANGED <<minDay, maxDay, dir, known, op, todo, cur>>
    BY <1>14 DEF FlushRest, Flushed, BufAfterFlush, EmptyBuf
  <2>2. \A f \in File : Pending(f) => (Pending(f))'
    BY <2>1 DEF Pending
  <2>3. \A m \in Msg : copies'[m] > 0 \/ buf'[m] > 0 => copies[m] > 0 \/ buf[m] > 0
    BY <2>1, <1>5 DEF StoreType
  <2> QED BY <2>1, <2>2, <2>3, <1>6, <1>7
<1>15. CASE UpdateIndex
  <2>1. /\ minDay' = [d \in Days |-> Lesser(minDay[d], mins[d])]
        /\ maxDay' = [d \in Days |-> Greater(maxDay[d], maxs[d])]
        /\ stage = "index" /\ stage' = "publish"
        /\ UNCHANGED <<copies, buf, dir, known, op, todo, cur>>
    BY <1>15 DEF UpdateIndex, NewMinDay
  <2>2. \A d \in Days : minDay'[d] <= minDay[d] /\ maxDay[d] <= maxDay'[d]
    BY <2>1, <1>5 DEF StoreType, Lesser, Greater
  <2> QED BY <2>1, <2>2, <1>6 DEF Pending
<1>16. CASE PublishFile
  <2>1. /\ stage = "publish" /\ stage' = "known" /\ op' = op
        /\ UNCHANGED <<minDay, maxDay, copies, buf, dir, known, todo, cur>>
    BY <1>4, <1>16 DEF PublishFile, AfterPublish, db
  <2> QED BY <2>1, <1>6, <1>7 DEF Pending
<1>17. CASE AddToKnownFiles
  BY <1>1, <1>4, <1>17, CoverKnown
<1>18. CASE EndRead \/ EndInit \/ EndForward \/ \E t \in Time : ForwardBucket(t)
  <2>1. /\ UNCHANGED <<minDay, maxDay, copies, buf, dir, known, todo>>
        /\ op # "off" /\ todo = {} /\ stage = "pick"
    BY <1>1, <1>2, <1>18, OffStage
    DEF EndRead, EndInit, EndForward, ForwardBucket, db, work, TodoInv
  <2> QED BY <2>1, <1>6, <1>7 DEF Pending
<1>19. ASSUME NEW t \in Time, BeginForward(t) \/ Purge(t) PROVE AllFound'
  <2>1. /\ UNCHANGED <<minDay, maxDay, buf, dir, known, todo>>
        /\ op = "idle" /\ todo = {} /\ stage = "pick"
    BY <1>1, <1>2, <1>19, OffStage DEF BeginForward, Purge, db, work, TodoInv
  <2>2. \A m \in Msg : copies'[m] = copies[m] \/ copies'[m] = 0
    BY <1>5, <1>19 DEF BeginForward, Purge, db, StoreType
  <2> QED BY <2>1, <2>2, <1>6, <1>7 DEF Pending
<1>20. CASE Crash
  <2>1. /\ UNCHANGED <<minDay, maxDay, copies, dir, known>> /\ op' = "off"
        /\ buf' = [m \in Msg |-> 0]
    BY <1>20 DEF Crash, db, EmptyBuf
  <2>2. \A m \in Msg : copies'[m] > 0 \/ buf'[m] > 0 => copies[m] > 0 \/ buf[m] > 0
    BY <2>1
  <2>3. \A f \in File : Pending(f) => (Pending(f))'
    BY <2>1 DEF Pending
  <2> QED BY <2>1, <2>2, <2>3, <1>6, <1>7
<1>21. CASE ReaderError
  <2>1. "error" \in happened'
    BY <1>21, EventKinds DEF ReaderError
  <2> QED BY <2>1 DEF Only, Safe
<1>22. CASE UNCHANGED vars
  BY <1>6, <1>7, <1>22 DEF vars, Pending
<1> QED BY <1>8, <1>9, <1>10, <1>11, <1>12, <1>13, <1>14, <1>15, <1>16, <1>17, <1>18,
           <1>19, <1>20, <1>21, <1>22 DEF Next, Step

LEMMA WorkInit == Init => WorkInv
<1> SUFFICES ASSUME Init PROVE WorkInv
  OBVIOUS
<1>1. IInv
  BY InitInv
<1> QED BY <1>1 DEF Init, WorkInv, BufInv, TodoInv

(* Whenever no operation runs, the index leads get_min_timestamp to every  *)
(* stored message: what a crash left without an index is parsed again      *)
(* before the restarted process answers anything (write_to_db,             *)
(* parse_sequential).                                                      *)
THEOREM IndexLeadsToAll == Spec => []IndexCoversStored
<1>1. Init => CoverInv
  BY WorkInit DEF Init, CoverInv, AllFound
<1>2. CoverInv => IndexCoversStored
  <2> SUFFICES ASSUME CoverInv, op = "idle", Only(Safe), NEW m \in Msg, copies[m] > 0
               PROVE  Covered(m)
    BY DEF IndexCoversStored, Covered, Safe
  <2>1. stage = "pick" /\ todo = {} /\ Found(m)
    BY OffStage DEF CoverInv, WorkInv, TodoInv, AllFound
  <2> QED BY <2>1 DEF Found, Pending
<1> QED BY <1>1, <1>2, CoverStep, PTL DEF Spec

-----------------------------------------------------------------------------
(* The input files hold each message once.                                 *)
OncePerFile ==
  \A f, g \in File : \A i \in DOMAIN Content[f], j \in DOMAIN Content[g] :
    Content[f][i] = Content[g][j] => f = g /\ i = j

(* While nothing cuts an ingestion off, what is stored has been parsed, and *)
(* what has been parsed is not parsed again.                               *)
Calm == {"read", "forward", "backward", "purge"}

Taken(m) ==
  \E f \in File : \E i \in DOMAIN Content[f] :
    m = Content[f][i] /\ (f \in known \/ (stage # "pick" /\ cur = f /\ i <= pos))

OnceStored ==
  /\ \A m \in Msg : copies[m] + buf[m] <= 1
  /\ \A m \in Msg : copies[m] + buf[m] > 0 => Taken(m)
  /\ op = "off" => known = {} /\ \A m \in Msg : copies[m] + buf[m] = 0

OnceInv == WorkInv /\ (Only(Calm) => OnceStored)

LEMMA OnceParse ==
  ASSUME OncePerFile, WorkInv, OnceStored, Only(Calm), ParseMsg PROVE OnceStored'
<1> USE DEF WorkInv
<1>0. PICK m : m = Content[cur][pos + 1]
  OBVIOUS
<1>1. /\ stage = "parse" /\ op # "upload" /\ op # "off" /\ pos' = pos + 1
      /\ pos < Len(Content[cur])
      /\ UNCHANGED <<stage, op, cur, known>>
  BY DEF ParseMsg, TodoInv, Only, Calm
<1>2. /\ m \in Msg /\ cur \in File /\ cur \notin known /\ pos \in Nat
      /\ pos + 1 \in DOMAIN Content[cur]
      /\ copies \in [Msg -> Nat] /\ buf \in [Msg -> Nat]
  <2>1. cur \in Source /\ pos \in Nat /\ cur \in File
    BY <1>1 DEF IInv, StoreType, StageInv
  <2>2. pos + 1 \in DOMAIN Content[cur]
    BY <1>1, <2>1, SourceFacts
  <2>3. cur \notin known
    BY <1>1 DEF TodoInv
  <2> QED BY <1>0, <2>1, <2>2, <2>3, SourceFacts DEF IInv, StoreType
<1>3. copies[m] + buf[m] = 0
  <2>1. ~Taken(m)
    <3> SUFFICES ASSUME NEW f \in File, NEW i \in DOMAIN Content[f], m = Content[f][i],
                        f \in known \/ (cur = f /\ i <= pos)
                 PROVE  FALSE
      BY DEF Taken
    <3>1. f = cur /\ i = pos + 1
      BY <1>0, <1>2 DEF OncePerFile
    <3> QED BY <3>1, <1>2
  <2>2. copies[m] \in Nat /\ buf[m] \in Nat
    BY <1>2
  <2>3. ~(copies[m] + buf[m] > 0)
    BY <2>1, <1>2 DEF OnceStored
  <2> QED BY <2>2, <2>3
<1>4. /\ \A x \in Msg : x # m => copies'[x] + buf'[x] = copies[x] + buf[x]
      /\ copies'[m] + buf'[m] = 1
  <2>1. CASE nbuf > BufMax
    <3>1. copies' = [y \in Msg |-> copies[y] + buf[y]]
      BY <2>1 DEF ParseMsg, Flushed
    <3>2. buf' = [[y \in Msg |-> 0] EXCEPT ![m] = @ + 1]
      BY <1>0, <2>1 DEF ParseMsg, BufAfterFlush, EmptyBuf
    <3>3. \A x \in Msg : x # m => buf'[x] = 0 /\ copies'[x] = copies[x] + buf[x]
      BY <3>1, <3>2
    <3>4. buf'[m] = 1 /\ copies'[m] = copies[m] + buf[m]
      BY <3>1, <3>2, <1>2
    <3> QED BY <3>3, <3>4, <1>2, <1>3
  <2>2. CASE ~(nbuf > BufMax)
    <3>1. copies' = copies /\ buf' = [buf EXCEPT ![m] = @ + 1]
      BY <1>0, <2>2 DEF ParseMsg
    <3>2. buf'[m] = buf[m] + 1 /\ \A x \in Msg : x # m => buf'[x] = buf[x]
      BY <3>1, <1>2
    <3> QED BY <3>1, <3>2, <1>2, <1>3
  <2> QED BY <2>1, <2>2
<1>5. \A x \in Msg : Taken(x) => (Taken(x))'
  <2> SUFFICES ASSUME NEW x \in Msg, NEW f \in File, NEW i \in DOMAIN Content[f], x = Content[f][i],
                      f \in known \/ (cur = f /\ i <= pos)
               PROVE  (Taken(x))'
    BY DEF Taken
  <2>1. i \in Nat
    <3>1. f \in Source
      BY SourceFacts
    <3> QED BY <3>1, SourceFacts
  <2>2. pos \in Nat /\ pos' = pos + 1
    BY <1>1, <1>2
  <2>3. i <= pos => i <= pos'
    BY <2>1, <2>2
  <2> QED BY <2>3, <1>1 DEF Taken
<1>6. (Taken(m))'
  <2>1. pos \in Nat /\ pos' = pos + 1
    BY <1>1, <1>2
  <2>2. pos + 1 <= pos'
    BY <2>1
  <2>3. cur \in File /\ pos + 1 \in DOMAIN Content[cur] /\ m = Content[cur][pos + 1]
        /\ stage' # "pick" /\ cur' = cur
    BY <1>0, <1>1, <1>2
  <2> QED BY <2>2, <2>3 DEF Taken
<1>7. ASSUME NEW x \in Msg
      PROVE  copies'[x] + buf'[x] <= 1 /\ (copies'[x] + buf'[x] > 0 => (Taken(x))')
  <2>1. CASE x = m
    BY <2>1, <1>4, <1>6
  <2>2. CASE x # m
    <3>1. copies'[x] + buf'[x] = copies[x] + buf[x]
      BY <2>2, <1>4
    <3> QED BY <3>1, <1>5 DEF OnceStored
  <2> QED BY <2>1, <2>2
<1> QED BY <1>1, <1>7 DEF OnceStored

LEMMA OnceStep == ASSUME OncePerFile PROVE OnceInv /\ [Next]_vars => OnceInv'
<1> SUFFICES ASSUME OnceInv, [Next]_vars, (Only(Calm))' PROVE OnceStored'
  BY WorkStep DEF OnceInv
<1>1. WorkInv /\ WorkInv' /\ IInv /\ IInv'
  BY WorkStep DEF OnceInv, WorkInv
<1>2. BufInv /\ TodoInv /\ StoreType
  BY <1>1 DEF WorkInv, IInv
<1>3. Only(Calm) /\ OnceStored /\ op # "upload"
  BY <1>2, HappenedGrows DEF Only, OnceInv, TodoInv, Calm
<1>4. ASSUME \A m \in Msg : copies'[m] + buf'[m] = copies[m] + buf[m],
             \A m \in Msg : Taken(m) => (Taken(m))', op' # "off"
      PROVE  OnceStored'
  BY <1>3, <1>4 DEF OnceStored
<1>5. ASSUME UNCHANGED <<copies, buf, known, stage, cur, pos, op>> PROVE OnceStored'
  BY <1>3, <1>5 DEF OnceStored, Taken
<1>6. ASSUME NEW f \in File, Arrive(f) PROVE OnceStored'
  BY <1>5, <1>6 DEF Arrive, db, work
<1>7. CASE Start
  <2>1. /\ op = "off" /\ known' = {} /\ buf' = buf /\ copies' \in {copies, EmptyBuf}
        /\ op' # "off"
    BY <1>3, <1>7 DEF Start, Collect, OnceStored
  <2>2. \A m \in Msg : buf[m] = 0 /\ copies[m] = 0
    BY <2>1, <1>2, <1>3, <1>1, OffStage DEF OnceStored, BufInv, StoreType
  <2>3. \A m \in Msg : copies'[m] + buf'[m] = 0
    BY <2>1, <2>2 DEF EmptyBuf
  <2> QED BY <2>1, <2>3 DEF OnceStored
<1>8. CASE BeginRead
  <2>1. op' = "read" /\ stage = "pick" /\ stage' = "pick" /\ UNCHANGED <<copies, buf, known>>
    BY <1>1, <1>8, OffStage DEF BeginRead, Collect, db
  <2> QED BY <2>1, <1>4 DEF Taken
<1>9. ASSUME NEW u \in Upload, BeginUpload(u) PROVE OnceStored'
  <2>1. "upload" \in happened'
    BY <1>9, EventKinds DEF BeginUpload
  <2> QED BY <2>1 DEF Only, Calm
<1>10. ASSUME NEW f \in File, PickFile(f) PROVE OnceStored'
  <2>1. /\ stage = "pick" /\ op' = op /\ op # "off" /\ UNCHANGED <<copies, known>>
        /\ buf' = [m \in Msg |-> 0]
    BY <1>10 DEF PickFile, Open, db, EmptyBuf
  <2>2. \A m \in Msg : copies'[m] + buf'[m] = copies[m] + buf[m]
    BY <2>1, <1>2 DEF BufInv
  <2> QED BY <2>1, <2>2, <1>4 DEF Taken
<1>11. CASE ParseMsg
  BY <1>1, <1>3, <1>11, OnceParse
<1>12. CASE FlushRest
  <2>1. /\ copies' = [m \in Msg |-> copies[m] + buf[m]] /\ buf' = [m \in Msg |-> 0]
        /\ stage = "parse" /\ stage' = "index" /\ op # "off"
        /\ UNCHANGED <<known, op, cur, pos>>
    BY <1>12 DEF FlushRest, Flushed, BufAfterFlush, EmptyBuf
  <2>2. \A m \in Msg : copies'[m] + buf'[m] = copies[m] + buf[m]
    BY <2>1, <1>2 DEF StoreType
  <2> QED BY <2>1, <2>2, <1>4 DEF Taken
<1>13. CASE UpdateIndex
  <2>1. stage = "index" /\ stage' = "publish" /\ UNCHANGED <<copies, buf, known, op, cur, pos>>
    BY <1>13 DEF UpdateIndex
  <2>2. op # "off"
    BY <2>1, <1>1, OffStage
  <2> QED BY <2>1, <2>2, <1>4 DEF Taken
<1>14. CASE PublishFile
  <2>1. stage = "publish" /\ stage' = "known" /\ UNCHANGED <<copies, buf, known, op, cur, pos>>
    BY <1>3, <1>14 DEF PublishFile, AfterPublish, db
  <2>2. op # "off"
    BY <2>1, <1>1, OffStage
  <2> QED BY <2>1, <2>2, <1>4 DEF Taken
<1>15. CASE AddToKnownFiles
  <2>1. /\ stage = "known" /\ stage' = "pick" /\ known' = known \cup {cur}
        /\ UNCHANGED <<copies, buf, op, cur, pos>>
    BY <1>15 DEF AddToKnownFiles, KnownWith
  <2>2. op # "off"
    BY <2>1, <1>1, OffStage
  <2> QED BY <2>1, <2>2, <1>4 DEF Taken
<1>16. CASE EndRead \/ EndInit \/ EndForward \/ \E t \in Time : ForwardBucket(t)
  <2>1. UNCHANGED <<copies, buf, known, stage, cur, pos>> /\ op' # "off"
    BY <1>16 DEF EndRead, EndInit, Forward, EndForward, ForwardBucket, db, work
  <2> QED BY <2>1, <1>4 DEF Taken
<1>17. ASSUME NEW t \in Time, BeginForward(t) PROVE OnceStored'
  <2>1. UNCHANGED <<copies, buf, known, stage, cur, pos>> /\ op' # "off"
    BY <1>17 DEF BeginForward, Forward, db, work
  <2> QED BY <2>1, <1>4 DEF Taken
<1>18. ASSUME NEW t \in Time, Purge(t) PROVE OnceStored'
  <2>1. /\ UNCHANGED <<buf, known, stage, cur, pos, op>> /\ op = "idle"
        /\ \A m \in Msg : copies'[m] = copies[m] \/ copies'[m] = 0
    BY <1>2, <1>18 DEF Purge, work, StoreType
  <2>2. \A m \in Msg : copies[m] \in Nat /\ buf[m] \in Nat
    BY <1>2 DEF StoreType
  <2>3. \A m \in Msg : (Taken(m))' = Taken(m)
    BY <2>1 DEF Taken
  <2>4. \A m \in Msg : copies'[m] + buf'[m] <= 1 /\ (copies'[m] + buf'[m] > 0 => Taken(m))
    BY <2>1, <2>2, <1>3 DEF OnceStored
  <2> QED BY <2>1, <2>3, <2>4 DEF OnceStored
<1>19. CASE Crash \/ ReaderError
  <2>1. "crash" \in happened' \/ "error" \in happened'
    BY <1>19, EventKinds DEF Crash, ReaderError
  <2> QED BY <2>1 DEF Only, Calm
<1>20. CASE UNCHANGED vars
  BY <1>5, <1>20 DEF vars
<1> QED BY <1>6, <1>7, <1>8, <1>9, <1>10, <1>11, <1>12, <1>13, <1>14, <1>15, <1>16, <1>17,
           <1>18, <1>19, <1>20 DEF Next, Step

LEMMA OnceInitial == Init => OnceInv
<1> SUFFICES ASSUME Init PROVE OnceStored
  BY WorkInit DEF OnceInv
<1>1. \A m \in Msg : copies[m] + buf[m] = 0
  BY DEF Init
<1> QED BY <1>1 DEF Init, OnceStored

(* Flushing the buffer and merging it into the buckets neither doubles a   *)
(* message nor parses a file twice (write, flush_to_db, collect_files).    *)
THEOREM MessagesStoredOnce == ASSUME OncePerFile PROVE Spec => []StoredOnce
<1>1. OnceInv => StoredOnce
  BY DEF OnceInv, OnceStored, StoredOnce, Calm
<1>2. OnceInv /\ [Next]_vars => OnceInv'
  BY OnceStep
<1> QED BY <1>1, <1>2, OnceInitial, PTL DEF Spec

-----------------------------------------------------------------------------
(* The types of the other variables.                                       *)
DayType ==
  /\ minDay \in [Days -> 0..Inf] /\ maxDay \in [Days -> 0..Inf]
  /\ mins \in [Days -> 0..Inf] /\ maxs \in [Days -> 0..Inf]
  /\ nbuf \in Nat /\ purged \subseteq Msg

OutType ==
  /\ pub \subseteq Msg /\ seen \subseteq Msg /\ again \subseteq Msg
  /\ pubMax \in 0..MaxTime /\ sysTime \in 0..MaxTime /\ target \in 0..MaxTime
  /\ from \in 0..Inf /\ cursor \in 0..Inf /\ batch \in 0..Inf
  /\ events \in 0..MaxEvents /\ happened \subseteq Enabled

TypeInv == WorkInv /\ DayType /\ OutType

LEMMA Bounds ==
  /\ MaxTime \in Nat /\ Inf = MaxTime + 1 /\ Inf \in Nat /\ NoTime = 0 /\ NoTime \in 0..Inf
  /\ \A t \in Time : t \in 1..MaxTime
BY RisAssumption DEF Inf, NoTime, Time

LEMMA ForwardType ==
  ASSUME OutType, NEW to \in 0..MaxTime, Forward(to)
  PROVE  /\ target' \in 0..MaxTime /\ from' \in 0..Inf /\ cursor' \in 0..Inf /\ batch' \in 0..Inf
         /\ op' \in {"idle", "forward"}
         /\ op' = "idle" => NothingRelevant
         /\ op' = "forward" =>
              /\ target' = to /\ cursor' = from' /\ sysTime < from'
              /\ \E least \in Time : LeastIndexed(least) /\ (from' = least \/ from' = sysTime + 1)
<1>1. CASE NothingRelevant
  BY <1>1 DEF Forward, fwd, OutType
<1>2. CASE ~NothingRelevant
  <2>1. PICK least \in Time : /\ LeastIndexed(least) /\ from' = NextFrom(least)
                              /\ cursor' = NextFrom(least)
    BY <1>2 DEF Forward
  <2>2. op' = "forward" /\ target' = to /\ batch' = 0
    BY <1>2 DEF Forward
  <2>3. /\ NextFrom(least) \in 0..Inf /\ sysTime < NextFrom(least)
        /\ NextFrom(least) = least \/ NextFrom(least) = sysTime + 1
    BY Bounds DEF NextFrom, Greater, OutType
  <2>4. 0 \in 0..Inf
    BY Bounds
  <2> QED BY <2>1, <2>2, <2>3, <2>4
<1> QED BY <1>1, <1>2

LEMMA PublishType ==
  ASSUME OutType, NEW ms, ms \subseteq Msg, Publish(ms)
  PROVE  seen' \subseteq Msg /\ again' \subseteq Msg
BY DEF OutType, Publish

LEMMA EventType ==
  ASSUME OutType, NEW k, Event(k)
  PROVE  events' \in 0..MaxEvents /\ happened' \subseteq Enabled
BY RisAssumption DEF OutType, Event

LEMMA DayStep == TypeInv /\ [Next]_vars => DayType'
<1> SUFFICES ASSUME TypeInv, [Next]_vars PROVE DayType'
  OBVIOUS
<1>1. DayType /\ StoreType
  BY DEF TypeInv, WorkInv, IInv
<1>2. ASSUME UNCHANGED <<minDay, maxDay, mins, maxs, nbuf, purged>> PROVE DayType'
  BY <1>1, <1>2 DEF DayType
<1>3. ASSUME NEW s, Open(s), UNCHANGED db PROVE DayType'
  BY <1>1, <1>3, Bounds DEF Open, db, DayType
<1>4. CASE Start
  <2>1. UNCHANGED <<mins, maxs, nbuf, purged>>
    BY <1>4 DEF Start, Collect
  <2>2. minDay' \in [Days -> 0..Inf] /\ maxDay' \in [Days -> 0..Inf]
    <3>1. \/ UNCHANGED <<minDay, maxDay>>
          \/ minDay' = [d \in Days |-> Inf] /\ maxDay' = [d \in Days |-> NoTime]
      BY <1>4 DEF Start
    <3>2. Inf \in 0..Inf /\ NoTime \in 0..Inf
      BY Bounds
    <3> QED BY <1>1, <3>1, <3>2 DEF DayType
  <2> QED BY <1>1, <2>1, <2>2 DEF DayType
<1>5. CASE BeginRead
  BY <1>2, <1>5 DEF BeginRead, Collect, db
<1>6. ASSUME NEW u \in Upload, BeginUpload(u) PROVE DayType'
  BY <1>3, <1>6 DEF BeginUpload
<1>7. ASSUME NEW f \in File, PickFile(f) PROVE DayType'
  BY <1>3, <1>7 DEF PickFile
<1>8. CASE ParseMsg
  <2>1. PICK m : m = Content[cur][pos + 1]
    OBVIOUS
  <2>2. m \in Msg
    <3>1. pos + 1 \in 1..Len(Content[cur])
      BY <1>1, <1>8, SourceFacts DEF ParseMsg, StoreType
    <3> QED BY <1>1, <2>1, <3>1, SourceFacts DEF StoreType
  <2>3. Ts[m] \in 0..Inf
    BY <2>2, MsgFacts, Bounds
  <2>4. /\ mins' = [d \in Days |-> IF d \in DaysOf(m) THEN Lesser(mins[d], Ts[m]) ELSE mins[d]]
        /\ maxs' = [d \in Days |-> IF d \in DaysOf(m) THEN Greater(maxs[d], Ts[m]) ELSE maxs[d]]
        /\ nbuf' \in {0, nbuf + 1} /\ UNCHANGED <<minDay, maxDay, purged>>
    BY <1>8, <2>1 DEF ParseMsg
  <2>5. mins' \in [Days -> 0..Inf] /\ maxs' \in [Days -> 0..Inf]
    BY <1>1, <2>3, <2>4 DEF DayType, Lesser, Greater
  <2> QED BY <1>1, <2>4, <2>5 DEF DayType
<1>9. CASE UpdateIndex
  <2>1. minDay' \in [Days -> 0..Inf] /\ maxDay' \in [Days -> 0..Inf]
    BY <1>1, <1>9 DEF UpdateIndex, NewMinDay, DayType, Lesser, Greater
  <2> QED BY <1>1, <1>9, <2>1 DEF UpdateIndex, DayType
<1>10. ASSUME NEW t \in Time, Purge(t) PROVE DayType'
  <2>1. purged' \subseteq Msg /\ UNCHANGED <<minDay, maxDay, mins, maxs, nbuf>>
    BY <1>1, <1>10 DEF Purge, work, DayType
  <2> QED BY <1>1, <2>1 DEF DayType
<1>11. CASE FlushRest \/ PublishFile \/ AddToKnownFiles \/ ReaderError \/ Crash
  BY <1>2, <1>11 DEF FlushRest, PublishFile, AddToKnownFiles, ReaderError, Crash, db
<1>12. CASE EndRead \/ EndInit \/ EndForward \/ (\E t \in Time : ForwardBucket(t) \/ BeginForward(t))
            \/ \E f \in File : Arrive(f)
  BY <1>2, <1>12 DEF EndRead, EndInit, EndForward, ForwardBucket, BeginForward, Arrive, db, work
<1>13. CASE UNCHANGED vars
  BY <1>2, <1>13 DEF vars
<1> QED BY <1>4, <1>5, <1>6, <1>7, <1>8, <1>9, <1>10, <1>11, <1>12, <1>13 DEF Next, Step

LEMMA OutStep == TypeInv /\ [Next]_vars => OutType'
<1> SUFFICES ASSUME TypeInv, [Next]_vars PROVE OutType'
  OBVIOUS
<1>1. OutType /\ StoreType /\ 0 \in 0..MaxTime
  BY Bounds DEF TypeInv, WorkInv, IInv
<1>2. ASSUME UNCHANGED <<pub, seen, again, pubMax, sysTime, fwd>>,
             UNCHANGED env \/ \E k : Event(k) PROVE OutType'
  <2>1. events' \in 0..MaxEvents /\ happened' \subseteq Enabled
    BY <1>1, <1>2, EventType DEF env, OutType
  <2> QED BY <1>1, <1>2, <2>1 DEF fwd, OutType
<1>3. CASE BeginRead \/ \E u \in Upload : BeginUpload(u)
  <2>1. /\ pubMax' = 0 /\ UNCHANGED <<pub, seen, again, sysTime, fwd>>
        /\ \E k : Event(k)
    BY <1>3 DEF BeginRead, BeginUpload, NoTime, out
  <2>2. events' \in 0..MaxEvents /\ happened' \subseteq Enabled
    BY <1>1, <2>1, EventType
  <2> QED BY <1>1, <2>1, <2>2 DEF fwd, OutType
<1>4. CASE ParseMsg
  <2>1. PICK m : m = Content[cur][pos + 1]
    OBVIOUS
  <2>2. m \in Msg
    <3>1. pos + 1 \in 1..Len(Content[cur])
      BY <1>1, <1>4, SourceFacts DEF ParseMsg, StoreType
    <3> QED BY <1>1, <2>1, <3>1, SourceFacts DEF StoreType
  <2>3. Ts[m] \in 0..MaxTime
    BY <2>2, MsgFacts
  <2>4. /\ pub' \in {pub, pub \cup {m}} /\ pubMax' \in {pubMax, Greater(pubMax, Ts[m])}
        /\ UNCHANGED <<seen, again, sysTime, fwd, env>>
    BY <1>4, <2>1 DEF ParseMsg, Add, out
  <2>5. pub' \subseteq Msg /\ pubMax' \in 0..MaxTime
    BY <1>1, <2>2, <2>3, <2>4 DEF OutType, Greater
  <2> QED BY <1>1, <2>4, <2>5 DEF fwd, env, OutType
<1>5. CASE PublishFile
  <2>1. Publish(pub) /\ pub' = {} /\ UNCHANGED <<pubMax, fwd, env>> /\ sysTime' \in {sysTime, pubMax}
    BY <1>5 DEF PublishFile, AfterPublish
  <2>2. seen' \subseteq Msg /\ again' \subseteq Msg
    BY <1>1, <2>1, PublishType DEF OutType
  <2> QED BY <1>1, <2>1, <2>2 DEF fwd, env, OutType
<1>6. CASE ReaderError
  <2>1. Publish(pub) /\ pub' = {} /\ UNCHANGED <<pubMax, fwd, sysTime>> /\ Event("error")
    BY <1>6 DEF ReaderError
  <2>2. seen' \subseteq Msg /\ again' \subseteq Msg
    BY <1>1, <2>1, PublishType DEF OutType
  <2>3. events' \in 0..MaxEvents /\ happened' \subseteq Enabled
    BY <1>1, <2>1, EventType
  <2> QED BY <1>1, <2>1, <2>2, <2>3 DEF fwd, OutType
<1>7. CASE EndRead
  BY <1>1, <1>7 DEF EndRead, out, fwd, env, OutType
<1>8. CASE EndInit
  <2>1. Forward(InitTime) /\ InitTime \in 0..MaxTime /\ UNCHANGED <<pub, pubMax, sysTime, out, env>>
    BY <1>8, RisAssumption DEF EndInit
  <2>2. target' \in 0..MaxTime /\ from' \in 0..Inf /\ cursor' \in 0..Inf /\ batch' \in 0..Inf
    BY <1>1, <2>1, ForwardType
  <2> QED BY <1>1, <2>1, <2>2 DEF out, env, OutType
<1>9. ASSUME NEW t \in Time, BeginForward(t) PROVE OutType'
  <2>1. Forward(t) /\ t \in 0..MaxTime /\ UNCHANGED <<pub, pubMax, sysTime, out>> /\ \E k : Event(k)
    BY <1>9, Bounds DEF BeginForward
  <2>2. target' \in 0..MaxTime /\ from' \in 0..Inf /\ cursor' \in 0..Inf /\ batch' \in 0..Inf
    BY <1>1, <2>1, ForwardType
  <2>3. events' \in 0..MaxEvents /\ happened' \subseteq Enabled
    BY <1>1, <2>1, EventType
  <2> QED BY <1>1, <2>1, <2>2, <2>3 DEF out, OutType
<1>10. ASSUME NEW t \in Time, ForwardBucket(t) PROVE OutType'
  <2>1. t + 1 \in 0..Inf /\ t \in 0..Inf
    BY Bounds
  <2>2. pub \cup Matching(t) \subseteq Msg
    BY <1>1 DEF OutType, Matching
  <2>3. /\ cursor' = t + 1 /\ batch' \in {t, batch} /\ pub' \in {{}, pub \cup Matching(t)}
        /\ UNCHANGED <<pubMax, target, from, sysTime, env>>
        /\ Publish(pub \cup Matching(t)) \/ UNCHANGED out
    BY <1>10 DEF ForwardBucket
  <2>4. seen' \subseteq Msg /\ again' \subseteq Msg
    BY <1>1, <2>2, <2>3, PublishType DEF out, OutType
  <2> QED BY <1>1, <2>1, <2>2, <2>3, <2>4 DEF env, OutType
<1>11. CASE EndForward
  <2>1. Publish(pub) /\ pub' = {} /\ UNCHANGED <<pubMax, fwd, env>> /\ sysTime' = target
    BY <1>11 DEF EndForward
  <2>2. seen' \subseteq Msg /\ again' \subseteq Msg
    BY <1>1, <2>1, PublishType DEF OutType
  <2> QED BY <1>1, <2>1, <2>2 DEF fwd, env, OutType
<1>12. CASE Crash
  <2>1. /\ pub' = {} /\ sysTime' = 0 /\ seen' = {} /\ again' = {} /\ UNCHANGED <<pubMax, fwd>>
        /\ Event("crash")
    BY <1>12 DEF Crash, NoTime
  <2>2. events' \in 0..MaxEvents /\ happened' \subseteq Enabled
    BY <1>1, <2>1, EventType
  <2> QED BY <1>1, <2>1, <2>2 DEF fwd, OutType
<1>13. CASE Start \/ FlushRest \/ UpdateIndex \/ AddToKnownFiles \/ \E t \in Time : Purge(t)
  BY <1>2, <1>13 DEF Start, FlushRest, UpdateIndex, AddToKnownFiles, Purge, out
<1>14. CASE \E f \in File : Arrive(f) \/ PickFile(f)
  BY <1>2, <1>14 DEF Arrive, PickFile, out
<1>15. CASE UNCHANGED vars
  BY <1>2, <1>15 DEF vars, fwd, env
<1> QED BY <1>3, <1>4, <1>5, <1>6, <1>7, <1>8, <1>9, <1>10, <1>11, <1>12, <1>13, <1>14, <1>15
        DEF Next, Step

LEMMA TypeInitial == Init => TypeInv
<1> SUFFICES ASSUME Init PROVE DayType /\ OutType
  BY WorkInit DEF TypeInv
<1>1. DayType
  BY Bounds DEF Init, DayType
<1>2. OutType
  BY Bounds, RisAssumption DEF Init, OutType
<1> QED BY <1>1, <1>2

LEMMA TypeStep == TypeInv /\ [Next]_vars => TypeInv'
BY WorkStep, DayStep, OutStep DEF TypeInv

THEOREM TypeCorrect == Spec => []TypeOK
<1>1. TypeInv => TypeOK
  <2> SUFFICES ASSUME TypeInv PROVE TypeOK
    OBVIOUS
  <2>1. \A t \in 0..MaxTime : t \in 0..Inf
    BY Bounds
  <2> QED BY <2>1 DEF TypeInv, WorkInv, IInv, StoreType, DayType, OutType, TypeOK
<1> QED BY <1>1, TypeInitial, TypeStep, PTL DEF Spec

-----------------------------------------------------------------------------
(* Publishing: outside a forward and an archive the publisher is empty, and *)
(* a forward reads the buckets behind the system time.                     *)
FlowInv ==
  /\ op # "forward" /\ stage \in {"pick", "known"} => pub = {}
  /\ op = "init" => pub = {}
  /\ op \in {"off", "init"} => sysTime = 0
  /\ op = "off" => seen = {} /\ again = {}
  /\ op = "init" => seen = {} /\ again = {}
  /\ op = "read" => "read" \in happened
  /\ op = "forward" => from <= cursor /\ sysTime < from

LEMMA FlowStep == TypeInv /\ FlowInv /\ [Next]_vars => FlowInv'
<1> SUFFICES ASSUME TypeInv, FlowInv, [Next]_vars PROVE FlowInv'
  OBVIOUS
<1>1. /\ IInv /\ OutType /\ TodoInv /\ MaxTime \in Nat /\ Inf \in Nat
      /\ op \in {"off", "idle", "forward"} => stage = "pick"
  BY Bounds, OffStage DEF TypeInv, WorkInv
<1>2. ASSUME NEW f \in File, Arrive(f) PROVE FlowInv'
  BY <1>2 DEF Arrive, work, fwd, out, env, FlowInv
<1>3. CASE Start
  <2>1. /\ op' \in {"init", "idle"} /\ op = "off" /\ UNCHANGED <<pub, sysTime, out>>
        /\ stage = "pick"
    BY <1>1, <1>3 DEF Start
  <2> QED BY <2>1 DEF out, FlowInv
<1>4. CASE BeginRead
  <2>1. /\ op' = "read" /\ op = "idle" /\ stage = "pick" /\ "read" \in happened'
        /\ UNCHANGED pub
    BY <1>1, <1>4, EventKinds DEF BeginRead
  <2> QED BY <2>1 DEF FlowInv
<1>5. ASSUME NEW u \in Upload, BeginUpload(u) PROVE FlowInv'
  <2>1. op' = "upload" /\ stage' = "parse"
    BY <1>5 DEF BeginUpload, Open
  <2> QED BY <2>1 DEF FlowInv
<1>6. ASSUME NEW f \in File, PickFile(f) PROVE FlowInv'
  <2>1. op \in {"init", "read"} /\ stage' = "parse" /\ UNCHANGED <<op, pub, sysTime, out, env>>
    BY <1>6 DEF PickFile, Open
  <2> QED BY <2>1 DEF out, env, FlowInv
<1>7. CASE ParseMsg
  <2>1. /\ op \in {"init", "read", "upload"} /\ stage = "parse" /\ (op = "init" => pub' = pub)
        /\ UNCHANGED <<op, stage, sysTime, out, env>>
    BY <1>7 DEF ParseMsg, Add
  <2> QED BY <2>1 DEF out, env, FlowInv
<1>8. CASE FlushRest \/ UpdateIndex
  <2>1. /\ stage \in {"parse", "index"} /\ stage' \in {"index", "publish"}
        /\ UNCHANGED <<op, pub, sysTime, out, env>>
    BY <1>8 DEF FlushRest, UpdateIndex
  <2>2. op # "forward"
    BY <1>1, <2>1
  <2> QED BY <2>1, <2>2 DEF out, env, FlowInv
<1>9. CASE PublishFile
  <2>1. /\ stage = "publish" /\ pub' = {} /\ Publish(pub) /\ UNCHANGED env
        /\ \/ op = "upload" /\ op' = "idle"
           \/ op # "upload" /\ UNCHANGED <<op, sysTime>>
    BY <1>9 DEF PublishFile, AfterPublish
  <2>2. op \notin {"off", "forward"}
    BY <1>1, <2>1
  <2>3. op = "init" => seen' = {} /\ again' = {}
    BY <2>1 DEF Publish, FlowInv
  <2> QED BY <2>1, <2>2, <2>3 DEF env, FlowInv
<1>10. CASE AddToKnownFiles
  <2>1. /\ stage = "known" /\ stage' = "pick" /\ UNCHANGED <<op, pub, sysTime, out, env>>
    BY <1>10 DEF AddToKnownFiles
  <2>2. op # "forward"
    BY <1>1, <2>1
  <2> QED BY <2>1, <2>2 DEF out, env, FlowInv
<1>11. CASE EndRead
  <2>1. op = "read" /\ stage = "pick" /\ op' = "idle" /\ UNCHANGED <<pub, stage>>
    BY <1>11 DEF EndRead, work
  <2> QED BY <2>1 DEF FlowInv
<1>12. CASE EndInit \/ \E t \in Time : BeginForward(t)
  <2>1. PICK to \in 0..MaxTime : Forward(to) /\ UNCHANGED <<pub, sysTime, stage>>
    <3>1. \A t \in Time : t \in 0..MaxTime
      BY Bounds
    <3>2. InitTime \in 0..MaxTime
      BY RisAssumption
    <3> QED BY <1>12, <3>1, <3>2 DEF EndInit, BeginForward, work
  <2>2. /\ op' \in {"idle", "forward"} /\ (op' = "forward" => cursor' = from' /\ sysTime < from')
        /\ from' \in 0..Inf
    BY <1>1, <2>1, ForwardType
  <2>3. pub = {}
    BY <1>1, <1>12 DEF EndInit, BeginForward, FlowInv
  <2>4. from' <= from'
    BY <1>1, <2>2
  <2> QED BY <2>1, <2>2, <2>3, <2>4 DEF FlowInv
<1>13. ASSUME NEW t \in Time, ForwardBucket(t) PROVE FlowInv'
  <2>1. /\ op = "forward" /\ op' = op /\ cursor <= t /\ cursor' = t + 1
        /\ UNCHANGED <<from, sysTime>>
    BY <1>13 DEF ForwardBucket, AtBucket
  <2>2. from \in Int /\ cursor \in Int /\ t \in Int
    BY <1>1, Bounds DEF OutType
  <2> QED BY <2>1, <2>2 DEF FlowInv
<1>14. CASE EndForward
  <2>1. op' = "idle" /\ pub' = {}
    BY <1>14 DEF EndForward
  <2> QED BY <2>1 DEF FlowInv
<1>15. ASSUME NEW t \in Time, Purge(t) PROVE FlowInv'
  <2>1. op = "idle" /\ UNCHANGED <<op, stage, pub>>
    BY <1>15 DEF Purge, work
  <2> QED BY <2>1 DEF FlowInv
<1>16. CASE ReaderError
  <2>1. op' = "idle" /\ pub' = {}
    BY <1>16 DEF ReaderError
  <2> QED BY <2>1 DEF FlowInv
<1>17. CASE Crash
  <2>1. op' = "off" /\ pub' = {} /\ sysTime' = 0 /\ seen' = {} /\ again' = {}
    BY <1>17 DEF Crash, NoTime
  <2> QED BY <2>1 DEF FlowInv
<1>18. CASE UNCHANGED vars
  BY <1>18 DEF vars, FlowInv
<1> QED BY <1>2, <1>3, <1>4, <1>5, <1>6, <1>7, <1>8, <1>9, <1>10, <1>11, <1>12, <1>13,
           <1>14, <1>15, <1>16, <1>17, <1>18 DEF Next, Step

-----------------------------------------------------------------------------
(* While time only moves forward: what has been published lies behind the  *)
(* cursor.                                                                 *)
Gentle == {"forward", "purge"}

Behind ==
  /\ again = {}
  /\ op # "forward" => \A m \in seen : Ts[m] <= sysTime
  /\ op = "forward" => /\ sysTime <= target /\ pub \cap seen = {}
                       /\ \A m \in seen \cup pub : Ts[m] < cursor /\ Ts[m] <= target

BehindInv == TypeInv /\ FlowInv /\ OnceInv /\ (Only(Gentle) => Behind)

(* Publishing messages that are new and stored once.                       *)
LEMMA PublishNew ==
  ASSUME again = {}, NEW ms, ms \cap seen = {}, Publish(ms),
         op = "forward" => \A m \in ms : copies[m] <= 1,
         \A m \in ms : copies[m] \in Nat
  PROVE  again' = {} /\ seen' = seen \cup ms
BY DEF Publish

LEMMA BehindBucket ==
  ASSUME TypeInv, FlowInv, OnceStored, Behind, NEW t \in Time, ForwardBucket(t) PROVE Behind'
<1>1. /\ op = "forward" /\ op' = "forward" /\ cursor <= t /\ t <= target /\ cursor' = t + 1
      /\ UNCHANGED <<target, sysTime>>
      /\ \/ Publish(pub \cup Matching(t)) /\ pub' = {}
         \/ pub' = pub \cup Matching(t) /\ UNCHANGED out
  BY DEF ForwardBucket, AtBucket
<1>2. /\ t \in Int /\ cursor \in Int /\ target \in Int /\ sysTime \in Int
      /\ seen \subseteq Msg /\ pub \subseteq Msg /\ copies \in [Msg -> Nat] /\ buf \in [Msg -> Nat]
  BY Bounds DEF TypeInv, OutType, WorkInv, IInv, StoreType
<1>3. \A m \in Matching(t) : m \in Msg /\ Ts[m] = t
  BY DEF Matching
<1>4. \A m \in seen \cup pub : Ts[m] \in Int /\ Ts[m] < cursor /\ Ts[m] <= target
  BY <1>1, <1>2, MsgFacts DEF Behind
<1>5. \A m \in seen \cup pub \cup Matching(t) : Ts[m] < t + 1 /\ Ts[m] <= target
  BY <1>1, <1>2, <1>3, <1>4
<1>6. (pub \cup Matching(t)) \cap seen = {}
  <2>1. \A m \in Matching(t) : m \notin seen
    BY <1>1, <1>2, <1>3, <1>4
  <2> QED BY <1>1, <2>1 DEF Behind
<1>7. \A m \in pub \cup Matching(t) : copies[m] <= 1 /\ copies[m] \in Nat
  <2>1. \A m \in Msg : copies[m] <= 1 /\ copies[m] \in Nat
    BY <1>2 DEF OnceStored
  <2> QED BY <1>2, <1>3, <2>1
<1>8. CASE Publish(pub \cup Matching(t)) /\ pub' = {}
  <2>1. again' = {} /\ seen' = seen \cup (pub \cup Matching(t))
    BY <1>6, <1>7, <1>8, PublishNew DEF Behind
  <2> QED BY <1>1, <1>5, <1>8, <2>1 DEF Behind
<1>9. CASE pub' = pub \cup Matching(t) /\ UNCHANGED out
  BY <1>1, <1>5, <1>6, <1>9 DEF out, Behind
<1> QED BY <1>1, <1>8, <1>9

LEMMA BehindStep ==
  ASSUME OncePerFile PROVE BehindInv /\ [Next]_vars => BehindInv'
<1> SUFFICES ASSUME BehindInv, [Next]_vars, (Only(Gentle))' PROVE Behind'
  BY TypeStep, FlowStep, OnceStep DEF BehindInv
<1>1. /\ TypeInv /\ FlowInv /\ OutType /\ IInv /\ TodoInv /\ StoreType
      /\ op \in {"off", "idle", "forward"} => stage = "pick"
  BY OffStage DEF BehindInv, TypeInv, WorkInv, IInv
<1>2. Only(Gentle) /\ Only(Calm) /\ Behind /\ OnceStored
  BY HappenedGrows DEF Only, BehindInv, OnceInv, Calm, Gentle
<1>3. op # "read" /\ op # "upload"
  BY <1>1, <1>2 DEF FlowInv, TodoInv, Only, Gentle
<1>4. ASSUME UNCHANGED <<op, sysTime, out, pub, cursor, target>> PROVE Behind'
  BY <1>2, <1>4 DEF out, Behind
<1>5. ASSUME NEW f \in File, Arrive(f) \/ PickFile(f) PROVE Behind'
  BY <1>4, <1>5 DEF Arrive, PickFile, fwd
<1>6. CASE Start
  BY <1>2, <1>6 DEF Start, out, Behind
<1>7. CASE BeginRead \/ ReaderError \/ Crash \/ \E u \in Upload : BeginUpload(u)
  <2>1. PICK k \in {"read", "error", "crash", "upload"} : k \in happened'
    BY <1>7, EventKinds DEF BeginRead, ReaderError, Crash, BeginUpload
  <2> QED BY <2>1 DEF Only, Gentle
<1>8. CASE ParseMsg
  <2>1. op = "init"
    BY <1>3, <1>8 DEF ParseMsg
  <2> QED BY <1>4, <1>8, <2>1 DEF ParseMsg, Add, fwd
<1>9. CASE FlushRest \/ UpdateIndex \/ AddToKnownFiles
  BY <1>4, <1>9 DEF FlushRest, UpdateIndex, AddToKnownFiles, fwd
<1>10. CASE PublishFile
  <2>1. /\ Publish(pub) /\ pub = {} /\ pub' = {} /\ UNCHANGED <<op, sysTime, fwd>> /\ op # "forward"
    <3>1. stage = "publish"
      BY <1>10 DEF PublishFile
    <3>2. op = "init"
      BY <1>1, <1>3, <3>1 DEF IInv, StageInv, Ingesting
    <3> QED BY <1>1, <1>3, <1>10, <3>2 DEF PublishFile, AfterPublish, FlowInv
  <2>2. seen' = seen /\ again' = again
    BY <2>1 DEF Publish
  <2> QED BY <1>4, <2>1, <2>2 DEF out, fwd
<1>11. CASE EndRead
  BY <1>3, <1>11 DEF EndRead
<1>12. ASSUME NEW to \in 0..MaxTime, Forward(to), UNCHANGED <<pub, sysTime, out>>,
              sysTime <= to, op \in {"init", "idle"}, stage = "pick"
       PROVE  Behind'
  <2>1. /\ op' \in {"idle", "forward"}
        /\ op' = "forward" => target' = to /\ cursor' = from' /\ sysTime < from'
        /\ from' \in 0..Inf
    BY <1>1, <1>12, ForwardType
  <2>2. pub = {} /\ again = {} /\ \A m \in seen : Ts[m] <= sysTime
    BY <1>1, <1>2, <1>12 DEF FlowInv, Behind
  <2>3. /\ sysTime \in Int /\ to \in Int /\ from' \in Int
        /\ \A m \in seen : Ts[m] \in Int
    BY <1>1, <2>1, Bounds, MsgFacts DEF OutType
  <2>4. \A m \in seen : Ts[m] <= to /\ (op' = "forward" => Ts[m] < cursor')
    BY <1>12, <2>1, <2>2, <2>3
  <2> QED BY <1>12, <2>1, <2>2, <2>4 DEF out, Behind
<1>13. CASE EndInit
  <2>1. sysTime = 0 /\ InitTime \in 0..MaxTime /\ Forward(InitTime) /\ op = "init" /\ stage = "pick"
        /\ UNCHANGED <<pub, sysTime, out>>
    BY <1>1, <1>13, RisAssumption DEF EndInit, FlowInv
  <2>2. sysTime <= InitTime
    BY <2>1, Bounds
  <2> QED BY <1>12, <2>1, <2>2
<1>14. ASSUME NEW t \in Time, BeginForward(t) PROVE Behind'
  <2>1. t \in 0..MaxTime /\ t \in Int /\ sysTime \in Int
    BY <1>1, Bounds DEF OutType
  <2>2. /\ op = "idle" /\ Forward(t) /\ UNCHANGED <<pub, sysTime, out>>
        /\ Event(IF t > sysTime THEN "forward" ELSE "backward")
    BY <1>14 DEF BeginForward
  <2>3. t > sysTime
    <3> SUFFICES ASSUME ~(t > sysTime) PROVE FALSE
      OBVIOUS
    <3>1. "backward" \in happened'
      BY <2>2, EventKinds
    <3> QED BY <3>1 DEF Only, Gentle
  <2>4. sysTime <= t
    BY <2>1, <2>3
  <2> QED BY <1>1, <1>12, <2>1, <2>2, <2>4
<1>15. ASSUME NEW t \in Time, ForwardBucket(t) PROVE Behind'
  BY <1>1, <1>2, <1>15, BehindBucket
<1>16. CASE EndForward
  <2>1. op = "forward" /\ op' = "idle" /\ sysTime' = target /\ Publish(pub) /\ pub' = {}
    BY <1>16 DEF EndForward
  <2>2. pub \cap seen = {} /\ again = {} /\ \A m \in seen \cup pub : Ts[m] <= target
    BY <1>2, <2>1 DEF Behind
  <2>3. \A m \in pub : copies[m] <= 1 /\ copies[m] \in Nat
    <3>1. \A m \in Msg : copies[m] \in Nat /\ buf[m] \in Nat /\ copies[m] + buf[m] <= 1
      BY <1>1, <1>2 DEF StoreType, OnceStored
    <3>2. pub \subseteq Msg
      BY <1>1 DEF OutType
    <3> QED BY <3>1, <3>2
  <2>4. again' = {} /\ seen' = seen \cup pub
    BY <2>1, <2>2, <2>3, PublishNew
  <2> QED BY <2>1, <2>2, <2>4 DEF Behind
<1>17. ASSUME NEW t \in Time, Purge(t) PROVE Behind'
  BY <1>4, <1>17 DEF Purge, fwd
<1>18. CASE UNCHANGED vars
  BY <1>4, <1>18 DEF vars, out
<1> QED BY <1>5, <1>6, <1>7, <1>8, <1>9, <1>10, <1>11, <1>13, <1>14, <1>15, <1>16, <1>17,
           <1>18 DEF Next, Step

LEMMA FlowInitial == Init => FlowInv
BY DEF Init, FlowInv, NoTime

(* While time only moves forward, no message is published twice, however   *)
(* the requests split the buckets into batches (forward, publisher::flush).*)
THEOREM PublishedOnce == ASSUME OncePerFile PROVE Spec => []AtMostOnce
<1>1. Init => BehindInv
  <2>1. Init => Behind
    BY DEF Init, Behind
  <2> QED BY <2>1, TypeInitial, FlowInitial, OnceInitial DEF BehindInv
<1>2. BehindInv => AtMostOnce
  BY DEF BehindInv, Behind, AtMostOnce, Gentle
<1>3. BehindInv /\ [Next]_vars => BehindInv'
  BY BehindStep
<1> QED BY <1>1, <1>2, <1>3, PTL DEF Spec

-----------------------------------------------------------------------------
(* A message that concerns the schedule mentions a day of the index range  *)
(* (floor and ceil of forward), unless the schedule ends on midnight.      *)
LEMMA DayFacts ==
  ASSUME NEW t \in Nat
  PROVE  /\ DayOf(t) \in Nat /\ DayOf(t) <= t /\ t < DayOf(t) + DayLen
         /\ DayOf(t) % DayLen = 0
<1>1. DayLen \in Nat \ {0}
  BY RisAssumption
<1>2. /\ t \div DayLen \in Nat /\ t % DayLen \in 0..DayLen - 1
      /\ t = DayLen * (t \div DayLen) + (t % DayLen)
  BY <1>1
<1>3. \A q \in Nat : q * DayLen \in Nat /\ (q * DayLen) % DayLen = 0
  <2> SUFFICES ASSUME NEW q \in Nat
               PROVE  q * DayLen \in Nat /\ (q * DayLen) % DayLen = 0
    OBVIOUS
  <2> DEFINE p == q * DayLen
  <2>1. p \in Nat
    BY <1>1
  <2>2. p = DayLen * (p \div DayLen) + (p % DayLen) /\ p % DayLen \in 0..DayLen - 1
        /\ p \div DayLen \in Nat
    BY <1>1, <2>1
  <2> QED BY <1>1, <2>1, <2>2
<1> QED BY <1>1, <1>2, <1>3 DEF DayOf

LEMMA DayOrder ==
  ASSUME NEW s \in Nat, NEW t \in Nat
  PROVE  /\ s <= t => DayOf(s) <= DayOf(t)
         /\ DayOf(s) <= t /\ t <= s => DayOf(s) = DayOf(t)
<1>1. DayLen \in Nat \ {0}
  BY RisAssumption
<1> DEFINE p == s \div DayLen
           q == t \div DayLen
<1>2. p \in Nat /\ q \in Nat /\ DayOf(s) = p * DayLen /\ DayOf(t) = q * DayLen
  BY <1>1 DEF DayOf
<1> HIDE DEF p, q
<1>3. \A x, y \in Nat : x < y => x * DayLen + DayLen <= y * DayLen
  BY <1>1
<1>4. \/ p = q
      \/ p < q /\ DayOf(s) + DayLen <= DayOf(t)
      \/ q < p /\ DayOf(t) + DayLen <= DayOf(s)
  BY <1>2, <1>3
<1>5. /\ DayOf(s) \in Nat /\ DayOf(s) <= s /\ s < DayOf(s) + DayLen
      /\ DayOf(t) \in Nat /\ DayOf(t) <= t /\ t < DayOf(t) + DayLen
  BY DayFacts
<1> QED BY <1>1, <1>2, <1>4, <1>5

LEMMA RelevantDay ==
  ASSUME Last % DayLen # 0, NEW m \in Msg, Relevant(m)
  PROVE  \E d \in IndexDays : d \in DaysOf(m)
<1>1. /\ Earliest[m] \in 1..MaxTime /\ Latest[m] \in 1..MaxTime /\ Earliest[m] <= Latest[m]
      /\ First \in 1..MaxTime /\ Last \in 1..MaxTime /\ First <= Last
      /\ MaxTime \in Nat /\ DayLen \in Nat \ {0}
      /\ Earliest[m] <= Last /\ Latest[m] >= First
  BY RisAssumption DEF Time, Relevant
<1> DEFINE e == Earliest[m]
           l == Latest[m]
<1> HIDE DEF e, l
<1>2. /\ e \in Nat /\ l \in Nat /\ First \in Nat /\ Last \in Nat /\ Last - 1 \in Nat
      /\ e <= MaxTime /\ First <= MaxTime /\ e <= l /\ e <= Last /\ First <= l /\ First <= Last
  BY <1>1 DEF e, l
<1>3. DayOf(Last - 1) = DayOf(Last)
  <2>1. DayOf(Last) # Last
    BY <1>2, DayFacts
  <2>2. DayOf(Last) <= Last - 1 /\ Last - 1 <= Last
    BY <1>2, <2>1, DayFacts
  <2> QED BY <1>2, <2>2, DayOrder
<1>4. /\ DayOf(e) <= DayOf(l) /\ DayOf(e) <= DayOf(Last)
      /\ DayOf(First) <= DayOf(l) /\ DayOf(First) <= DayOf(Last)
  BY <1>2, DayOrder
<1>5. /\ DayOf(e) \in Nat /\ DayOf(First) \in Nat /\ DayOf(l) \in Nat /\ DayOf(Last) \in Nat
      /\ DayOf(e) \in Days /\ DayOf(First) \in Days
  <2>1. /\ DayOf(e) \in Nat /\ DayOf(e) <= e /\ DayOf(e) % DayLen = 0
        /\ DayOf(First) \in Nat /\ DayOf(First) <= First /\ DayOf(First) % DayLen = 0
        /\ DayOf(l) \in Nat /\ DayOf(Last) \in Nat
    BY <1>2, DayFacts
  <2> QED BY <1>1, <1>2, <2>1 DEF Days
<1>6. CASE DayOf(First) <= DayOf(e)
  <2>1. DayOf(e) \in IndexDays /\ DayOf(e) \in DaysOf(m)
    BY <1>1, <1>3, <1>4, <1>5, <1>6 DEF IndexDays, DaysOf, e, l
  <2> QED BY <2>1
<1>7. CASE DayOf(e) <= DayOf(First)
  <2>1. DayOf(First) \in IndexDays /\ DayOf(First) \in DaysOf(m)
    BY <1>1, <1>3, <1>4, <1>5, <1>7 DEF IndexDays, DaysOf, e, l
  <2> QED BY <2>1
<1> QED BY <1>5, <1>6, <1>7

(* A client that only forwards, backwards and purges misses nothing.       *)
Quiet == {"forward", "backward", "purge", "crash"}

Passed(m) == Ts[m] <= sysTime \/ (op = "forward" /\ Ts[m] < cursor /\ Ts[m] <= target)

Kept == \A m \in Msg : copies[m] > 0 /\ Relevant(m) /\ Passed(m) => m \in seen \cup pub

KeptInv ==
  TypeInv /\ FlowInv /\ CoverInv /\ (Only(Quiet) /\ Last % DayLen # 0 => Kept)

(* A forward starts behind the system time and before every stored message *)
(* that concerns the schedule and has not been published.                  *)
LEMMA ForwardKeeps ==
  ASSUME TypeInv, AllFound, Kept, Last % DayLen # 0, op \in {"init", "idle"},
         stage = "pick", todo = {}, NEW to \in 0..MaxTime, Forward(to),
         UNCHANGED <<copies, seen, pub, sysTime>>
  PROVE  Kept'
<1>1. /\ OutType /\ MaxTime \in Nat /\ Inf = MaxTime + 1
      /\ minDay \in [Days -> 0..Inf]
  BY Bounds DEF TypeInv, DayType
<1>2. ASSUME NEW m \in Msg, copies[m] > 0, Relevant(m)
      PROVE  \E d \in IndexDays : minDay[d] <= Ts[m] /\ minDay[d] \in Int
  <2>1. Covered(m)
    BY <1>2 DEF AllFound, Found, Pending
  <2>2. PICK d \in IndexDays : d \in DaysOf(m)
    BY <1>2, RelevantDay
  <2>3. d \in Days
    BY DEF IndexDays
  <2> QED BY <1>1, <2>1, <2>2, <2>3 DEF Covered
<1>3. /\ op' \in {"idle", "forward"} /\ (op' = "idle" => NothingRelevant)
      /\ op' = "forward" =>
           /\ cursor' = from'
           /\ \E least \in Time : LeastIndexed(least) /\ (from' = least \/ from' = sysTime + 1)
  BY <1>1, ForwardType
<1> SUFFICES ASSUME NEW m \in Msg, copies[m] > 0, Relevant(m), (Passed(m))'
             PROVE  m \in seen \cup pub
  BY DEF Kept, Relevant
<1>4. Ts[m] \in 1..MaxTime
  BY MsgFacts
<1>5. PICK d \in IndexDays : minDay[d] <= Ts[m] /\ minDay[d] \in Int
  BY <1>2
<1>6. ~NothingRelevant
  BY <1>1, <1>4, <1>5 DEF NothingRelevant
<1>7. CASE Ts[m] <= sysTime
  BY <1>7 DEF Kept, Passed
<1>8. CASE ~(Ts[m] <= sysTime)
  <2>1. op' = "forward" /\ Ts[m] < cursor'
    BY <1>3, <1>6, <1>8 DEF Passed
  <2>2. PICK least \in Time : LeastIndexed(least) /\ (from' = least \/ from' = sysTime + 1)
    BY <1>3, <2>1
  <2>3. least <= minDay[d] /\ least \in Int /\ sysTime \in Int
    BY <1>1, <2>2, Bounds DEF LeastIndexed, OutType
  <2> QED BY <1>3, <1>4, <1>5, <1>8, <2>1, <2>2, <2>3
<1> QED BY <1>7, <1>8

LEMMA KeptBucket ==
  ASSUME TypeInv, FlowInv, Kept, NEW t \in Time, ForwardBucket(t) PROVE Kept'
<1>1. /\ op = "forward" /\ op' = "forward" /\ AtBucket(t) /\ t <= target /\ cursor' = t + 1
      /\ UNCHANGED <<target, sysTime, copies>>
      /\ \/ Publish(pub \cup Matching(t)) /\ pub' = {}
         \/ pub' = pub \cup Matching(t) /\ UNCHANGED out
  BY DEF ForwardBucket, db
<1>2. seen' \cup pub' = seen \cup pub \cup Matching(t)
  BY <1>1 DEF Publish, out
<1>3. /\ t \in Int /\ cursor \in Int /\ from \in Int /\ from <= cursor /\ cursor <= t
  BY <1>1, Bounds DEF TypeInv, OutType, FlowInv, AtBucket
<1> SUFFICES ASSUME NEW m \in Msg, copies[m] > 0, Relevant(m), (Passed(m))'
             PROVE  m \in seen \cup pub \cup Matching(t)
  BY <1>1, <1>2 DEF Kept, Relevant
<1>4. Ts[m] \in Int /\ Ts[m] \in Buckets
  BY MsgFacts DEF Buckets
<1>5. CASE Passed(m)
  BY <1>5 DEF Kept
<1>6. CASE ~Passed(m)
  <2>1. Ts[m] < t + 1 /\ ~(Ts[m] < cursor)
    BY <1>1, <1>6 DEF Passed
  <2>2. t <= Ts[m]
    BY <1>1, <1>3, <1>4, <2>1 DEF AtBucket
  <2>3. Ts[m] = t /\ t >= from
    BY <1>3, <1>4, <2>1, <2>2
  <2> QED BY <1>1, <2>3 DEF Matching
<1> QED BY <1>5, <1>6

LEMMA KeptStep == KeptInv /\ [Next]_vars => KeptInv'
<1> SUFFICES ASSUME KeptInv, [Next]_vars, (Only(Quiet))', Last % DayLen # 0 PROVE Kept'
  BY TypeStep, FlowStep, CoverStep DEF KeptInv
<1>1. /\ TypeInv /\ FlowInv /\ OutType /\ IInv /\ TodoInv /\ StoreType
      /\ op \in {"off", "idle", "forward"} => stage = "pick"
  BY OffStage DEF KeptInv, TypeInv, WorkInv, IInv
<1>2. Only(Quiet) /\ AllFound /\ Kept
  BY HappenedGrows DEF Only, KeptInv, CoverInv, Safe, Quiet
<1>3. op # "read" /\ op # "upload"
  BY <1>1, <1>2 DEF FlowInv, TodoInv, Only, Quiet
<1>4. ASSUME op # "forward", op' # "forward", UNCHANGED sysTime,
             seen \cup pub \subseteq seen' \cup pub',
             \A m \in Msg : copies'[m] > 0 => copies[m] > 0
      PROVE  Kept'
  BY <1>2, <1>4 DEF Kept, Passed, Relevant
<1>5. ASSUME op' = "init", sysTime' = 0 PROVE Kept'
  <2>1. \A m \in Msg : ~(Ts[m] <= 0)
    BY MsgFacts
  <2> QED BY <1>5, <2>1 DEF Kept, Passed
<1>6. ASSUME NEW f \in File, Arrive(f) PROVE Kept'
  BY <1>2, <1>6 DEF Arrive, db, fwd, out, Kept, Passed, Relevant
<1>7. CASE Start
  <2>1. /\ op = "off" /\ op' \in {"init", "idle"} /\ UNCHANGED <<sysTime, pub, out>>
        /\ \A m \in Msg : copies'[m] = copies[m] \/ copies'[m] = 0
    BY <1>7 DEF Start, EmptyBuf
  <2>2. \A m \in Msg : copies'[m] > 0 => copies[m] > 0
    BY <2>1
  <2> QED BY <1>4, <2>1, <2>2 DEF out
<1>8. CASE BeginRead \/ ReaderError \/ \E u \in Upload : BeginUpload(u)
  <2>1. PICK k \in {"read", "error", "upload"} : k \in happened'
    BY <1>8, EventKinds DEF BeginRead, ReaderError, BeginUpload
  <2> QED BY <2>1 DEF Only, Quiet
<1>9. CASE (\E f \in File : PickFile(f)) \/ ParseMsg
  <2>1. op = "init" /\ UNCHANGED <<op, sysTime>>
    BY <1>3, <1>9 DEF PickFile, ParseMsg
  <2> QED BY <1>1, <1>5, <2>1 DEF FlowInv
<1>10. CASE FlushRest \/ UpdateIndex \/ PublishFile \/ AddToKnownFiles
  <2>1. stage # "pick"
    BY <1>10 DEF FlushRest, UpdateIndex, PublishFile, AddToKnownFiles
  <2>2. op = "init"
    BY <1>1, <1>3, <2>1 DEF IInv, StageInv, Ingesting
  <2>3. UNCHANGED <<op, sysTime>>
    BY <1>10, <2>2 DEF FlushRest, UpdateIndex, PublishFile, AddToKnownFiles, AfterPublish
  <2> QED BY <1>1, <1>5, <2>2, <2>3 DEF FlowInv
<1>11. CASE EndRead
  BY <1>3, <1>11 DEF EndRead
<1>12. CASE EndInit
  <2>1. /\ op = "init" /\ stage = "pick" /\ todo = {} /\ InitTime \in 0..MaxTime
        /\ Forward(InitTime) /\ UNCHANGED <<copies, seen, pub, sysTime>>
    BY <1>12, RisAssumption DEF EndInit, db, out
  <2> QED BY <1>1, <1>2, <2>1, ForwardKeeps
<1>13. ASSUME NEW t \in Time, BeginForward(t) PROVE Kept'
  <2>1. t \in 0..MaxTime
    BY Bounds
  <2>2. op = "idle" /\ todo = {} /\ Forward(t) /\ UNCHANGED <<copies, seen, pub, sysTime>>
    BY <1>1, <1>13 DEF BeginForward, db, out, TodoInv
  <2> QED BY <1>1, <1>2, <2>1, <2>2, ForwardKeeps
<1>14. ASSUME NEW t \in Time, ForwardBucket(t) PROVE Kept'
  BY <1>1, <1>2, <1>14, KeptBucket
<1>15. CASE EndForward
  <2>1. /\ op = "forward" /\ op' = "idle" /\ sysTime' = target /\ copies' = copies
        /\ seen \cup pub \subseteq seen' /\ \A t \in Buckets : t >= cursor => t > target
    BY <1>15 DEF EndForward, Publish, db
  <2> SUFFICES ASSUME NEW m \in Msg, copies[m] > 0, Relevant(m), Ts[m] <= target
               PROVE  m \in seen \cup pub
    BY <2>1 DEF Kept, Passed, Relevant
  <2>2. Ts[m] \in Buckets /\ Ts[m] \in Int /\ cursor \in Int /\ target \in Int
    BY <1>1, MsgFacts, Bounds DEF Buckets, OutType
  <2>3. Ts[m] < cursor
    BY <2>1, <2>2
  <2> QED BY <1>2, <2>1, <2>3 DEF Kept, Passed
<1>16. ASSUME NEW t \in Time, Purge(t) PROVE Kept'
  <2>1. /\ op = "idle" /\ UNCHANGED <<op, sysTime, pub, out>>
        /\ \A m \in Msg : copies'[m] = copies[m] \/ copies'[m] = 0
    BY <1>1, <1>16 DEF Purge, StoreType
  <2>2. \A m \in Msg : copies'[m] > 0 => copies[m] > 0
    BY <2>1
  <2> QED BY <1>4, <2>1, <2>2 DEF out
<1>17. CASE Crash
  <2>1. op' = "off" /\ sysTime' = 0
    BY <1>17 DEF Crash, NoTime
  <2>2. \A m \in Msg : ~(Ts[m] <= 0)
    BY MsgFacts
  <2> QED BY <2>1, <2>2 DEF Kept, Passed
<1>18. CASE UNCHANGED vars
  BY <1>2, <1>18 DEF vars, Kept, Passed, Relevant
<1> QED BY <1>6, <1>7, <1>8, <1>9, <1>10, <1>11, <1>12, <1>13, <1>14, <1>15, <1>16, <1>17,
           <1>18 DEF Next, Step

(* Through any number of crashes a client that moves the system time and   *)
(* purges gets every stored message that concerns the schedule, up to the  *)
(* system time (forward, get_min_timestamp, the index of write_to_db).     *)
THEOREM NothingLost == Spec => []NoLoss
<1>1. Init => KeptInv
  <2>1. Init => Kept /\ AllFound
    BY DEF Init, Kept, AllFound
  <2> QED BY <2>1, WorkInit, TypeInitial, FlowInitial DEF KeptInv, CoverInv
<1>2. KeptInv => NoLoss
  <2> SUFFICES ASSUME KeptInv, op = "idle", Only(Quiet), Last % DayLen # 0,
                      NEW m \in Msg, copies[m] > 0, Relevant(m), Ts[m] <= sysTime
               PROVE  m \in seen
    BY DEF NoLoss, Quiet
  <2>1. stage = "pick" /\ pub = {}
    BY OffStage DEF KeptInv, TypeInv, WorkInv, FlowInv
  <2> QED BY <2>1 DEF KeptInv, Kept, Passed
<1> QED BY <1>1, <1>2, KeptStep, PTL DEF Spec
=============================================================================
