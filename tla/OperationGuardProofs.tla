------------------------ MODULE OperationGuardProofs ------------------------
(***************************************************************************)
(* Proofs about OperationGuard, for any number of operations, cards,       *)
(* scripts, progress reports and work on the hub.                          *)
(*                                                                         *)
(* The last part is about WifiEvents.tla, the events whose deploys the     *)
(* registry does not know of.                                              *)
(***************************************************************************)
EXTENDS OperationGuard, MCWifiEvents, SequenceTheorems, WellFoundedInduction, TLAPS

-----------------------------------------------------------------------------
(* Sequences.                                                               *)

\* The queue after one or two more elements, and after its head was taken, place
\* by place.
LEMMA PutOne ==
  ASSUME NEW S, NEW s \in Seq(S), NEW e \in S
  PROVE  /\ s \o <<e>> \in Seq(S) /\ Len(s) \in Nat
         /\ DOMAIN s = 1 .. Len(s)
         /\ DOMAIN (s \o <<e>>) = 1 .. Len(s) + 1
         /\ \A i \in 1 .. Len(s) : (s \o <<e>>)[i] = s[i]
         /\ (s \o <<e>>)[Len(s) + 1] = e
  OBVIOUS

LEMMA PutTwo ==
  ASSUME NEW S, NEW s \in Seq(S), NEW d \in S, NEW e \in S
  PROVE  /\ s \o <<d, e>> \in Seq(S) /\ Len(s) \in Nat
         /\ DOMAIN s = 1 .. Len(s)
         /\ DOMAIN (s \o <<d, e>>) = 1 .. Len(s) + 2
         /\ \A i \in 1 .. Len(s) : (s \o <<d, e>>)[i] = s[i]
         /\ (s \o <<d, e>>)[Len(s) + 1] = d
         /\ (s \o <<d, e>>)[Len(s) + 2] = e
  OBVIOUS

LEMMA TakeHead ==
  ASSUME NEW S, NEW s \in Seq(S), s # << >>
  PROVE  /\ Head(s) = s[1] /\ Head(s) \in S /\ Tail(s) \in Seq(S)
         /\ Len(s) \in Nat \ {0}
         /\ DOMAIN s = 1 .. Len(s)
         /\ DOMAIN Tail(s) = 1 .. Len(s) - 1
         /\ \A i \in 1 .. Len(s) - 1 : Tail(s)[i] = s[i + 1]
  OBVIOUS

-----------------------------------------------------------------------------
(* The inductive invariant: what the registry, the jobs, the wire and the  *)
(* event loop's queue say of each other.                                   *)

\* A timer is armed for what has ended, a job has a kind, an id that was not
\* handed out has no job.
RecordsAgree ==
  \A o \in Ops : /\ ops[o].timer => ops[o].status \in Ended
                 /\ stage[o] \in Running => ops[o].kind \in AllKinds
                 /\ ops[o].status = "unborn" => stage[o] = "none"

\* A job at work has a live record, cancelled or not.
RunningIsLive == \A o \in Ops : stage[o] \in Running => ops[o].status \in Live

\* A job on the wire is at work, a deploy on the wire holds the lock.
WireIsHonest ==
  \A w \in wire : /\ w.who = "job" => w.op \in Ops /\ stage[w.op] \in Running
                  /\ w.who = "deploy" => lock
                  /\ w.who # "job" => w.op = NoOp

IsOutcome(m) == m.what \in {"won", "lost", "refused", "warmed", "unwarmed"}
IsSnapshot(m) == m.what \in {"read", "answer"}
SameKind(m, n) == \/ IsOutcome(m) /\ IsOutcome(n)
                  \/ IsSnapshot(m) /\ IsSnapshot(n)

\* A queued outcome has a job that waits for it, a queued snapshot a script, and
\* there is one of each.
OutcomesAwaited ==
  \A i \in DOMAIN posted : IsOutcome(posted[i]) => stage[posted[i].id] = "back"
SnapshotsAwaited ==
  \A i \in DOMAIN posted : IsSnapshot(posted[i]) => exports[posted[i].id].state = "read"
OneEach ==
  \A i, j \in DOMAIN posted :
    posted[i].id = posted[j].id /\ SameKind(posted[i], posted[j]) => i = j

\* A worker posts the bump of the generation before its outcome.
BumpComesFirst ==
  \A i \in DOMAIN posted : posted[i].what = "bump" =>
    \E j \in DOMAIN posted : /\ i < j
                             /\ IsOutcome(posted[j])
                             /\ posted[j].id = posted[i].id

\* A snapshot that is not what the cache holds, under the present generation,
\* has a bump on its way.
BumpIsOwed ==
  \A c \in Clients :
    exports[c].state \in {"read", "held"} /\ ~exports[c].moved =>
      IsCache(c) \/ \E i \in DOMAIN posted : posted[i].what = "bump"

QueueInv == OutcomesAwaited /\ SnapshotsAwaited /\ OneEach /\ BumpComesFirst
JobsInv == RecordsAgree /\ RunningIsLive /\ BusyMeansJob /\ WireIsHonest
IInv == TypeOK /\ JobsInv /\ QueueInv /\ BumpIsOwed

-----------------------------------------------------------------------------
(* Type correctness.                                                       *)

Records == [kind : AllKinds \cup {"backup_edited", "none"},
            status : Statuses, timer : BOOLEAN]
Watches == [op : Ops \cup {NoOp}, status : Statuses \cup {"none"}]
Snapshots == [state : {"none", "read", "held", "stale"},
              image : {"present", "old", "gutted"}, moved : BOOLEAN]

LEMMA InitType == Init => TypeOK
<1> SUFFICES ASSUME Init PROVE TypeOK
  OBVIOUS
<1>1. << >> \in Seq(Messages)
  BY EmptySeq
<1> QED
  BY <1>1 DEF Init, TypeOK, Unborn, NoOp, NoSnapshot, Statuses

\* What is posted is a message.
LEMMA MessageType ==
  /\ \A o \in Ops, what \in {"progress", "bump", "won", "lost", "refused", "warmed", "unwarmed"} :
       Message(what, o) \in Messages
  /\ \A c \in Clients, what \in {"read", "answer"} : Message(what, c) \in Messages
  BY DEF Message, Messages

\* The registry stays a registry of records whatever is done to a record.
LEMMA RegistryType ==
  ASSUME TypeOK, NEW o \in Ops
  PROVE  /\ ops \in [Ops -> Records] /\ viewers \in [Viewers -> Watches]
         /\ Dropped(ops[o]) \in Records
         /\ \A kind \in AllKinds \cup {"backup_edited"}, status \in Statuses :
              Created(o, kind, status) \in [Ops -> Records]
<1>1. ops \in [Ops -> Records] /\ viewers \in [Viewers -> Watches]
  BY DEF TypeOK, Records, Watches
<1>2. \A p \in Ops : Dropped(ops[p]) \in Records
  BY <1>1 DEF Dropped, Records, Statuses
<1>3. \A kind \in AllKinds \cup {"backup_edited"}, status \in Statuses :
        [kind |-> kind, status |-> status, timer |-> FALSE] \in Records
  BY DEF Records
<1>4. \A kind \in AllKinds \cup {"backup_edited"}, status \in Statuses :
        Created(o, kind, status) \in [Ops -> Records]
  BY <1>1, <1>2, <1>3 DEF Created
<1> QED
  BY <1>1, <1>2, <1>4

\* What update and a dismissal leave.
LEMMA UpdateType ==
  ASSUME TypeOK, NEW o \in Ops,
         FailAndDismiss(o) \/ \E status \in Live \cup Ended : Update(o, status)
  PROVE  ops' \in [Ops -> Records] /\ viewers' \in [Viewers -> Watches]
<1>1. /\ ops \in [Ops -> Records] /\ viewers \in [Viewers -> Watches]
      /\ Dropped(ops[o]) \in Records
  BY RegistryType
<1>2. CASE FailAndDismiss(o)
  BY <1>1, <1>2 DEF FailAndDismiss, Watches, Statuses
<1>3. ASSUME NEW status \in Live \cup Ended, Update(o, status)
      PROVE  ops' \in [Ops -> Records] /\ viewers' \in [Viewers -> Watches]
  <2>1. CASE Ignored(o, status)
    BY <1>1, <1>3, <2>1 DEF Update
  <2>2. CASE ~Ignored(o, status)
    <3>1. (status \in Ended) \in BOOLEAN /\ status \in Statuses
      BY DEF Live, Ended, Statuses
    <3>2. [ops[o] EXCEPT !.status = status, !.timer = status \in Ended] \in Records
      BY <1>1, <3>1 DEF Records
    <3>3. ops' = [ops EXCEPT ![o] = [ops[o] EXCEPT !.status = status, !.timer = status \in Ended]]
      BY <1>1, <1>3, <2>2, Zenon DEF Update
    <3>4. ops' \in [Ops -> Records]
      BY <1>1, <3>2, <3>3
    <3>5. viewers' \in [Viewers -> Watches]
      BY <1>1, <1>3, <2>2, <3>1 DEF Update, Watches
    <3> QED
      BY <3>4, <3>5
  <2> QED
    BY <2>1, <2>2
<1> QED
  BY <1>2, <1>3

\* What a worker may post about its operation.
LEMMA OutcomeType ==
  ASSUME TypeOK, RecordsAgree, NEW o \in Ops, stage[o] \in Running
  PROVE  Outcomes(ops[o].kind) \subseteq {"won", "lost", "refused"}
<1>1. ops[o].kind \in AllKinds
  BY DEF RecordsAgree
<1> QED
  BY <1>1 DEF AllKinds, Outcomes

\* What a bump and a read leave of a snapshot.
LEMMA SnapshotType ==
  ASSUME TypeOK
  PROVE  /\ exports \in [Clients -> Snapshots]
         /\ \A c \in Clients : /\ [exports[c] EXCEPT !.moved = TRUE] \in Snapshots
                              /\ [exports[c] EXCEPT !.state = "stale"] \in Snapshots
                              /\ [exports[c] EXCEPT !.image = IF @ = "present" THEN "old" ELSE @]
                                   \in Snapshots
         /\ TRUE \in BOOLEAN /\ FALSE \in BOOLEAN
<1>1. exports \in [Clients -> Snapshots]
  BY DEF TypeOK, Snapshots
<1>2. ASSUME NEW c \in Clients
      PROVE  /\ [exports[c] EXCEPT !.moved = TRUE] \in Snapshots
             /\ [exports[c] EXCEPT !.state = "stale"] \in Snapshots
             /\ [exports[c] EXCEPT !.image = IF @ = "present" THEN "old" ELSE @] \in Snapshots
  <2>1. exports[c] \in Snapshots
    BY <1>1
  <2> QED
    BY <2>1 DEF Snapshots
<1> QED
  BY <1>1, <1>2

\* A message at the head of the queue is one, and so are those behind it.
LEMMA QueueType ==
  ASSUME TypeOK
  PROVE  /\ \A m \in Messages : posted \o <<m>> \in Seq(Messages)
         /\ \A m, n \in Messages : posted \o <<m, n>> \in Seq(Messages)
         /\ posted # << >> => Head(posted) \in Messages /\ Tail(posted) \in Seq(Messages)
<1>1. posted \in Seq(Messages)
  BY DEF TypeOK
<1> QED
  BY <1>1, PutOne, PutTwo, TakeHead

LEMMA RequestType ==
  ASSUME TypeOK, NEW o \in Ops,
         \/ \E kind \in Kinds : StartJob(o, kind)
         \/ \E c \in Clients : SyncFromSnapshot(c, o)
         \/ Stash(o) \/ ClearResult(o) \/ CleanupFires(o)
         \/ \E v \in Viewers : Subscribe(v, o)
  PROVE  TypeOK'
<1>0. /\ Dropped(ops[o]) \in Records
      /\ \A kind \in AllKinds \cup {"backup_edited"}, status \in Statuses :
           Created(o, kind, status) \in [Ops -> Records]
  BY RegistryType
<1>1. ASSUME NEW kind \in AllKinds, Register(o, kind)
      PROVE  /\ ops' \in [Ops -> Records]
             /\ stage' \in [Ops -> Running \cup {"none", "over"}]
             /\ wire' \subseteq [who : Unregistered \cup {"deploy", "job"}, op : Ops \cup {NoOp}]
  BY <1>0, <1>1 DEF Register, TypeOK, Statuses, Running, Entered
<1>2. ASSUME NEW kind \in Kinds, StartJob(o, kind) PROVE TypeOK'
  <2>1. kind \in AllKinds
    BY KindsAssumption
  <2> QED
    BY <1>1, <1>2, <2>1 DEF StartJob, TypeOK, Records, taskVars, cacheVars
<1>3. ASSUME NEW c \in Clients, SyncFromSnapshot(c, o) PROVE TypeOK'
  <2>1. "activity_sync" \in AllKinds
    BY DEF AllKinds
  <2> QED
    BY <1>1, <1>3, <2>1 DEF SyncFromSnapshot, TypeOK, Records, NoSnapshot
<1>4. CASE Stash(o)
  <2>1. Created(o, "backup_edited", "success") \in [Ops -> Records]
    BY <1>0 DEF Statuses
  <2>2. ops' \in [Ops -> Records]
    BY <1>4, <2>1 DEF Stash, Records
  <2> QED
    BY <1>4, <2>2 DEF Stash, TypeOK, Records, taskVars, cacheVars
<1>5. CASE ClearResult(o) \/ CleanupFires(o)
  <2>1. ops' = [ops EXCEPT ![o] = Dropped(ops[o])]
    BY <1>5 DEF ClearResult, CleanupFires
  <2>2. ops' \in [Ops -> Records]
    BY <1>0, <2>1, RegistryType
  <2> QED
    BY <1>5, <2>2 DEF ClearResult, CleanupFires, TypeOK, Records, taskVars, cacheVars
<1>6. ASSUME NEW v \in Viewers, Subscribe(v, o) PROVE TypeOK'
  BY <1>6 DEF Subscribe, TypeOK, taskVars, cacheVars
<1> QED
  BY <1>2, <1>3, <1>4, <1>5, <1>6

LEMMA JobType ==
  ASSUME TypeOK, RecordsAgree, NEW o \in Ops,
         JobProceeds(o) \/ Progress(o) \/ WorkerClears(o) \/ Cancel(o)
  PROVE  TypeOK'
<1>0. Over(o) => /\ stage' \in [Ops -> Running \cup {"none", "over"}]
                 /\ wire' \subseteq [who : Unregistered \cup {"deploy", "job"}, op : Ops \cup {NoOp}]
  BY DEF Over, Left, TypeOK
<1>1. /\ \A m \in Messages : posted \o <<m>> \in Seq(Messages)
      /\ \A m, n \in Messages : posted \o <<m, n>> \in Seq(Messages)
  BY QueueType
<1>2. ReadAgain => exports' \in [Clients -> Snapshots] /\ gutted' \in BOOLEAN
  BY ZenonT(60), SnapshotType DEF ReadAgain
<1>3. CASE Reject(o)
  <2>1. ops' \in [Ops -> Records] /\ viewers' \in [Viewers -> Watches]
    BY <1>3, UpdateType DEF Reject
  <2> QED
    BY <1>0, <1>3, <2>1 DEF Reject, TypeOK, Records, Watches, taskVars, cacheVars
<1>4. CASE GoToWorker(o)
  BY <1>4 DEF GoToWorker, TypeOK, taskVars, cacheVars, Running
<1>5. CASE Progress(o)
  BY <1>1, <1>5, MessageType DEF Progress, Post, TypeOK, registryVars, taskVars, cacheVars
<1>6. CASE WorkerReturns(o)
  <2>1. /\ stage[o] \in Running
        /\ stage' \in [Ops -> Running \cup {"none", "over"}]
    BY <1>6 DEF WorkerReturns, TypeOK, Running
  <2>2. PICK what \in {"won", "lost", "refused"} :
          \/ Post(<<Message(what, o)>>) /\ UNCHANGED cacheVars
          \/ ReadAgain /\ Post(<<Message("bump", o), Message(what, o)>>)
    BY <1>6, <2>1, OutcomeType DEF WorkerReturns
  <2>3. posted' \in Seq(Messages)
    BY <1>1, <2>2, MessageType DEF Post
  <2> QED
    BY <1>2, <1>6, <2>1, <2>2, <2>3 DEF WorkerReturns, TypeOK, Snapshots, taskVars, cacheVars
<1>7. CASE WarmClears(o)
  BY <1>7 DEF WarmClears, TypeOK, Running, taskVars
<1>8. CASE WarmReads(o)
  <2>1. posted' \in Seq(Messages)
    BY <1>1, <1>8, MessageType DEF WarmReads, Post
  <2> QED
    BY <1>2, <1>8, <2>1 DEF WarmReads, TypeOK, Running, Snapshots, taskVars
<1>9. CASE WarmFails(o)
  BY <1>1, <1>9, MessageType DEF WarmFails, Post, TypeOK, Running, taskVars, cacheVars
<1>10. CASE WorkerClears(o)
  BY <1>10 DEF WorkerClears, TypeOK, registryVars, taskVars
<1>11. CASE Cancel(o)
  BY <1>0, <1>11 DEF Cancel, TypeOK, cacheVars
<1> QED
  BY <1>3, <1>4, <1>5, <1>6, <1>7, <1>8, <1>9, <1>10, <1>11 DEF JobProceeds

LEMMA LoopType == TypeOK /\ LoopRuns => TypeOK'
<1> SUFFICES ASSUME TypeOK, LoopRuns PROVE TypeOK'
  OBVIOUS
<1> DEFINE m == Head(posted)
           rest == Tail(posted)
<1>0. m \in Messages /\ rest \in Seq(Messages)
  BY QueueType DEF LoopRuns
<1>1. /\ IsOutcome(m) \/ m.what \in {"progress", "bump"} => m.id \in Ops
      /\ IsSnapshot(m) => m.id \in Clients
  BY <1>0 DEF Messages, IsOutcome, IsSnapshot
<1>2. \A o \in Ops :
        Over(o) => /\ stage' \in [Ops -> Running \cup {"none", "over"}]
                   /\ wire' \subseteq [who : Unregistered \cup {"deploy", "job"}, op : Ops \cup {NoOp}]
  BY DEF Over, Left, TypeOK
<1>3. Bump => exports' \in [Clients -> Snapshots]
  BY SnapshotType DEF Bump
<1>4. CASE SnapshotFuture(m, rest)
  <2>1. posted' \in Seq(Messages)
    BY <1>0, <1>1, <1>4, MessageType DEF SnapshotFuture, IsSnapshot
  <2> QED
    BY <1>4, <2>1 DEF SnapshotFuture, TypeOK, registryVars, taskVars, cacheVars
<1>5. CASE SnapshotAnswer(m, rest)
  BY ZenonT(60), <1>0, <1>5 DEF SnapshotAnswer, TypeOK, registryVars, taskVars
<1>6. CASE ReportProgress(m, rest)
  <2>1. ops' \in [Ops -> Records] /\ viewers' \in [Viewers -> Watches]
    BY <1>1, <1>6, UpdateType DEF ReportProgress, Live
  <2> QED
    BY <1>0, <1>6, <2>1 DEF ReportProgress, TypeOK, Records, Watches, taskVars, cacheVars
<1>7. CASE BumpGeneration(m, rest)
  BY <1>0, <1>3, <1>7 DEF BumpGeneration, TypeOK, Snapshots, registryVars, taskVars
<1>8. CASE Unheard(m, rest)
  BY <1>0, <1>1, <1>2, <1>8 DEF Unheard, IsOutcome, TypeOK, taskVars, cacheVars
<1>9. CASE TaskResumes(m, rest)
  <2>1. m.id \in Ops
    BY <1>1, <1>9 DEF TaskResumes, IsOutcome
  <2>2. /\ FailAndDismiss(m.id) \/ \E status \in Live \cup Ended : Update(m.id, status)
        /\ Over(m.id) \/ (stage' = [stage EXCEPT ![m.id] = "warm"] /\ UNCHANGED wire)
    BY <1>9 DEF TaskResumes, Won, Lost, Refused, Warmed, Unwarmed, Live, Ended
  <2>3. ops' \in [Ops -> Records] /\ viewers' \in [Viewers -> Watches]
    BY <2>1, <2>2, UpdateType
  <2>4. /\ stage' \in [Ops -> Running \cup {"none", "over"}]
        /\ wire' \subseteq [who : Unregistered \cup {"deploy", "job"}, op : Ops \cup {NoOp}]
    BY <1>2, <2>1, <2>2 DEF TypeOK, Running
  <2>5. exports' \in [Clients -> Snapshots]
    BY <1>3, <1>9, SnapshotType DEF TaskResumes
  <2> QED
    BY <1>0, <1>9, <2>3, <2>4, <2>5 DEF TaskResumes, TypeOK, Records, Watches, Snapshots, taskVars
<1> QED
  BY <1>4, <1>5, <1>6, <1>7, <1>8, <1>9 DEF LoopRuns

LEMMA TypeStep == TypeOK /\ RecordsAgree /\ [Next]_vars => TypeOK'
<1> SUFFICES ASSUME TypeOK, RecordsAgree, [Next]_vars PROVE TypeOK'
  OBVIOUS
<1>1. ASSUME NEW v \in Viewers, Unsubscribe(v) PROVE TypeOK'
  BY <1>1 DEF Unsubscribe, TypeOK, taskVars, cacheVars
<1>2. ASSUME NEW who \in Unregistered, Starts(who) \/ Ends(who) PROVE TypeOK'
  BY <1>2 DEF Starts, Ends, Entered, Left, TypeOK, registryVars, taskVars, cacheVars
<1>3. CASE DeployStarts
  BY <1>3 DEF DeployStarts, Entered, TypeOK, registryVars, taskVars, cacheVars
<1>6. CASE DeployEnds
  BY <1>6 DEF DeployEnds, Left, TypeOK, registryVars, taskVars, cacheVars
<1>4. ASSUME NEW c \in Clients, Export(c) PROVE TypeOK'
  <2>1. posted' \in Seq(Messages)
    BY <1>4, QueueType, MessageType DEF Export, Post
  <2> QED
    BY <1>4, <2>1 DEF Export, TypeOK, registryVars, taskVars
<1>5. CASE UNCHANGED vars
  BY <1>5 DEF vars, TypeOK
<1> QED
  BY <1>1, <1>2, <1>3, <1>4, <1>5, <1>6, RequestType, JobType, LoopType DEF Next

-----------------------------------------------------------------------------
(* The registry and the jobs.                                              *)

\* What an update and a dismissal make of a record.
LEMMA UpdateDoes ==
  ASSUME TypeOK, NEW o \in Ops, NEW status \in Live \cup Ended, Update(o, status)
  PROVE  /\ \A p \in Ops : p # o => ops'[p] = ops[p]
         /\ ops'[o].kind = ops[o].kind
         /\ \/ ops'[o] = ops[o] /\ ops[o].status \notin Live
            \/ /\ ops'[o].status = status
               /\ ops'[o].timer = (status \in Ended)
               /\ status \in Live => ops[o].status \in Live
               /\ ops[o].status \in Live \cup Ended
<1>1. ops \in [Ops -> Records]
  BY RegistryType
<1>2. CASE Ignored(o, status)
  BY <1>1, <1>2 DEF Update, Ignored, Exists, Live, Ended
<1>3. CASE ~Ignored(o, status)
  <2>1. ops' = [ops EXCEPT ![o] = [ops[o] EXCEPT !.status = status, !.timer = status \in Ended]]
    BY <1>1, <1>3, Zenon DEF Update
  <2>2. ops[o].status \in Live \cup Ended /\ (status \in Live => ops[o].status \in Live)
    <3>1. ops[o].status \in Statuses
      BY <1>1 DEF Records
    <3> QED
      BY <1>3, <3>1 DEF Ignored, Exists, Live, Ended, Statuses
  <2>3. ops'[o] = [ops[o] EXCEPT !.status = status, !.timer = status \in Ended]
    BY <1>1, <2>1
  <2>4. /\ ops'[o].kind = ops[o].kind /\ ops'[o].status = status
        /\ ops'[o].timer = (status \in Ended)
    BY <1>1, <2>3 DEF Records
  <2> QED
    BY <1>1, <2>1, <2>2, <2>4
<1> QED
  BY <1>2, <1>3

LEMMA DismissDoes ==
  ASSUME TypeOK, NEW o \in Ops,
         FailAndDismiss(o) \/ ops' = [ops EXCEPT ![o] = Dropped(@)]
  PROVE  /\ \A p \in Ops : p # o => ops'[p] = ops[p]
         /\ ops'[o] = [kind |-> ops[o].kind, status |-> "gone", timer |-> FALSE]
<1>1. ops \in [Ops -> Records]
  BY RegistryType
<1> QED
  BY <1>1 DEF FailAndDismiss, Dropped, Records

\* The records a new operation leaves: only what is not live makes room.
IsDropped(new, old) == new.kind = old.kind /\ new.status = "gone" /\ new.timer = FALSE
MakesRoom(old, new) == /\ old.status \notin Live /\ old.status # "unborn"
                       /\ IsDropped(new, old)

LEMMA CreatedDoes ==
  ASSUME TypeOK, NEW o \in Ops,
         NEW kind \in AllKinds \cup {"backup_edited"}, NEW status \in Statuses
  PROVE  /\ Created(o, kind, status)[o].kind = kind
         /\ Created(o, kind, status)[o].status = status
         /\ ~Created(o, kind, status)[o].timer
         /\ \A p \in Ops : p # o =>
              \/ Created(o, kind, status)[p] = ops[p]
              \/ MakesRoom(ops[p], Created(o, kind, status)[p])
<1>1. ASSUME NEW r \in Records PROVE IsDropped(Dropped(r), r)
  BY <1>1 DEF Dropped, Records, IsDropped
<1>2. \A p \in Ops : IsDropped(Dropped(ops[p]), ops[p])
  BY <1>1, RegistryType
<1>3. Created(o, kind, status)[o] = [kind |-> kind, status |-> status, timer |-> FALSE]
  BY DEF Created
<1>4. \A p \in Ops : p # o =>
        \/ Created(o, kind, status)[p] = ops[p]
        \/ /\ ops[p].status \notin Live /\ Exists(p)
           /\ Created(o, kind, status)[p] = Dropped(ops[p])
  BY DEF Created
<1> QED
  BY <1>2, <1>3, <1>4 DEF MakesRoom, Exists

\* A job that is over is off the wire.
LEMMA OverDoes ==
  ASSUME TypeOK, NEW o \in Ops, Over(o)
  PROVE  /\ stage'[o] = "over" /\ \A p \in Ops : p # o => stage'[p] = stage[p]
         /\ \A w \in wire' : w \in wire /\ ~(w.who = "job" /\ w.op = o)
  BY DEF Over, Left, TypeOK

LEMMA InitJobs == Init => JobsInv
  BY DEF Init, JobsInv, RecordsAgree, RunningIsLive, BusyMeansJob, WireIsHonest,
         Unborn, Live, Ended, Running

LEMMA RequestJobs ==
  ASSUME TypeOK, JobsInv, NEW o \in Ops,
         \/ \E kind \in Kinds : StartJob(o, kind)
         \/ \E c \in Clients : SyncFromSnapshot(c, o)
         \/ Stash(o) \/ ClearResult(o) \/ CleanupFires(o)
         \/ \E v \in Viewers : Subscribe(v, o)
  PROVE  JobsInv'
<1> USE DEF JobsInv, Live, Ended, Running
<1>1. ASSUME NEW kind \in AllKinds, Register(o, kind), UNCHANGED <<cancelled, lock>>
      PROVE  JobsInv'
  <2>1. /\ ops[o].status = "unborn"
        /\ ops'[o].kind = kind /\ ops'[o].status = "pending" /\ ~ops'[o].timer
        /\ \A p \in Ops : p # o => ops'[p] = ops[p] \/ MakesRoom(ops[p], ops'[p])
    <3>1. ops[o].status = "unborn" /\ ops' = Created(o, kind, "pending")
      BY <1>1 DEF Register, IsNext
    <3>2. "pending" \in Statuses /\ kind \in AllKinds \cup {"backup_edited"}
      BY <1>1 DEF Statuses
    <3> QED
      <4> DEFINE new == Created(o, kind, "pending")
      <4>1. new[o].kind = kind
        BY <3>2, CreatedDoes
      <4>2. new[o].status = "pending"
        BY <3>2, CreatedDoes
      <4>3. ~new[o].timer
        BY <3>2, CreatedDoes
      <4>4. \A p \in Ops : p # o => new[p] = ops[p] \/ MakesRoom(ops[p], new[p])
        BY <3>2, CreatedDoes
      <4> HIDE DEF new
      <4> QED
        BY <3>1, <4>1, <4>2, <4>3, <4>4 DEF new
  <2>2. /\ stage'[o] = "queued" /\ \A p \in Ops : p # o => stage'[p] = stage[p]
        /\ wire' = wire \cup {[who |-> "job", op |-> o]}
    BY <1>1 DEF Register, Entered, TypeOK
  <2>3. RecordsAgree'
    BY <1>1, <2>1, <2>2 DEF RecordsAgree, MakesRoom, IsDropped
  <2>4. RunningIsLive'
    BY <1>1, <2>1, <2>2 DEF RunningIsLive, MakesRoom, IsDropped
  <2>5. BusyMeansJob'
    BY <1>1, <2>1, <2>2 DEF BusyMeansJob, RecordsAgree, MakesRoom, IsDropped
  <2>6. WireIsHonest'
    BY <1>1, <2>2 DEF WireIsHonest
  <2> QED
    BY <2>3, <2>4, <2>5, <2>6
<1>2. ASSUME NEW kind \in Kinds, StartJob(o, kind) PROVE JobsInv'
  BY <1>1, <1>2, KindsAssumption DEF StartJob, taskVars
<1>3. ASSUME NEW c \in Clients, SyncFromSnapshot(c, o) PROVE JobsInv'
  <2>1. "activity_sync" \in AllKinds
    BY DEF AllKinds
  <2> QED
    BY <1>1, <1>3, <2>1 DEF SyncFromSnapshot
<1>4. CASE Stash(o)
  <2>a. "success" \in Statuses /\ "backup_edited" \in AllKinds \cup {"backup_edited"}
    BY DEF Statuses
  <2>0. Created(o, "backup_edited", "success") \in [Ops -> Records]
    BY <2>a, RegistryType
  <2>1. /\ ops[o].status = "unborn"
        /\ ops'[o].status = "success"
        /\ \A p \in Ops : p # o => ops'[p] = ops[p] \/ MakesRoom(ops[p], ops'[p])
    <3>1. /\ ops[o].status = "unborn"
          /\ ops' = [Created(o, "backup_edited", "success") EXCEPT ![o].timer = TRUE]
      BY <1>4 DEF Stash, IsNext
    <3>3. ops'[o].status = "success"
      <4>1. Created(o, "backup_edited", "success")[o].status = "success"
        BY <2>a, CreatedDoes
      <4>2. Created(o, "backup_edited", "success")[o] \in Records
        BY <2>0
      <4> QED
        BY <2>0, <3>1, <4>1, <4>2 DEF Records
    <3>4. \A p \in Ops : p # o => ops'[p] = Created(o, "backup_edited", "success")[p]
      BY <2>0, <3>1
    <3> QED
      <4> DEFINE new == Created(o, "backup_edited", "success")
      <4>1. \A p \in Ops : p # o => new[p] = ops[p] \/ MakesRoom(ops[p], new[p])
        BY <2>a, CreatedDoes
      <4> QED
        BY <3>1, <3>3, <3>4, <4>1
  <2>2. UNCHANGED <<stage, cancelled, wire, lock>>
    BY <1>4 DEF Stash, taskVars
  <2>3. RecordsAgree'
    BY <2>1, <2>2 DEF RecordsAgree, MakesRoom, IsDropped
  <2>4. RunningIsLive'
    BY <2>1, <2>2 DEF RunningIsLive, RecordsAgree, MakesRoom, IsDropped
  <2>5. BusyMeansJob'
    BY <2>1, <2>2 DEF BusyMeansJob, RecordsAgree, MakesRoom, IsDropped
  <2>6. WireIsHonest'
    BY <2>2 DEF WireIsHonest
  <2> QED
    BY <2>3, <2>4, <2>5, <2>6
<1>5. CASE ClearResult(o) \/ CleanupFires(o)
  <2>1. ops[o].status \notin Live /\ ops[o].status # "unborn"
    BY <1>5 DEF ClearResult, CleanupFires, Exists, RecordsAgree
  <2>2. /\ \A p \in Ops : p # o => ops'[p] = ops[p]
        /\ ops'[o] = [kind |-> ops[o].kind, status |-> "gone", timer |-> FALSE]
    BY <1>5, DismissDoes DEF ClearResult, CleanupFires
  <2>3. UNCHANGED <<stage, cancelled, wire, lock>>
    BY <1>5 DEF ClearResult, CleanupFires, taskVars
  <2>4. RecordsAgree' /\ RunningIsLive' /\ BusyMeansJob'
    BY <2>1, <2>2, <2>3 DEF RecordsAgree, RunningIsLive, BusyMeansJob
  <2>5. WireIsHonest'
    BY <2>3 DEF WireIsHonest
  <2> QED
    BY <2>4, <2>5
<1>6. ASSUME NEW v \in Viewers, Subscribe(v, o) PROVE JobsInv'
  BY <1>6 DEF Subscribe, taskVars, RecordsAgree, RunningIsLive, BusyMeansJob, WireIsHonest
<1> QED
  BY <1>2, <1>3, <1>4, <1>5, <1>6

\* A step that moves a job from one stage of its work to the next.
LEMMA MovesOn ==
  ASSUME TypeOK, JobsInv, NEW o \in Ops, stage[o] \in Running, NEW s \in Running,
         stage' = [stage EXCEPT ![o] = s], UNCHANGED <<ops, cancelled, wire, lock>>
  PROVE  JobsInv'
<1>1. stage'[o] = s /\ \A p \in Ops : p # o => stage'[p] = stage[p]
  BY DEF TypeOK
<1>2. s # "none" /\ stage[o] # "none"
  BY DEF Running
<1>3. RecordsAgree' /\ RunningIsLive' /\ BusyMeansJob'
  BY <1>1, <1>2 DEF JobsInv, RecordsAgree, RunningIsLive, BusyMeansJob
<1>4. WireIsHonest'
  BY <1>1 DEF JobsInv, WireIsHonest
<1> QED
  BY <1>3, <1>4 DEF JobsInv

\* A job that is over leaves no live record, unless its call was cancelled.
LEMMA EndsWell ==
  ASSUME TypeOK, JobsInv, NEW o \in Ops, stage[o] \in Running, Over(o),
         \A p \in Ops : p # o => ops'[p] = ops[p],
         ops'[o].status \notin Live \/ o \in cancelled',
         ops'[o].status # "unborn",
         ops'[o].timer => ops'[o].status \in Ended,
         cancelled' \in {cancelled, cancelled \cup {o}}, UNCHANGED lock
  PROVE  JobsInv'
<1>1. /\ stage'[o] = "over" /\ \A p \in Ops : p # o => stage'[p] = stage[p]
      /\ \A w \in wire' : w \in wire /\ ~(w.who = "job" /\ w.op = o)
  BY OverDoes
<1>2. "over" \notin Running
  BY DEF Running
<1>3. RecordsAgree' /\ RunningIsLive' /\ BusyMeansJob'
  BY <1>1, <1>2 DEF JobsInv, RecordsAgree, RunningIsLive, BusyMeansJob
<1>4. WireIsHonest'
  BY <1>1, <1>2 DEF JobsInv, WireIsHonest
<1> QED
  BY <1>3, <1>4 DEF JobsInv

LEMMA JobJobs ==
  ASSUME TypeOK, JobsInv, NEW o \in Ops,
         JobProceeds(o) \/ Progress(o) \/ WorkerClears(o) \/ Cancel(o)
  PROVE  JobsInv'
<1>1. CASE Reject(o)
  <2>1. /\ \A p \in Ops : p # o => ops'[p] = ops[p]
        /\ ops'[o] = [kind |-> ops[o].kind, status |-> "gone", timer |-> FALSE]
    BY <1>1, DismissDoes DEF Reject
  <2>2. stage[o] \in Running /\ Over(o) /\ UNCHANGED <<cancelled, lock>>
    BY <1>1 DEF Reject, Running, taskVars
  <2>3. ops'[o].status \notin Live /\ ops'[o].status # "unborn" /\ ~ops'[o].timer
    BY <2>1 DEF Live
  <2> QED
    BY <2>1, <2>2, <2>3, EndsWell
<1>2. CASE GoToWorker(o)
  <2>1. stage[o] \in Running /\ UNCHANGED <<ops, cancelled, wire, lock>>
    BY <1>2 DEF GoToWorker, Running, taskVars
  <2>2. \E s \in Running : stage' = [stage EXCEPT ![o] = s]
    BY <1>2 DEF GoToWorker, Running
  <2> QED
    BY <2>1, <2>2, MovesOn
<1>3. CASE Progress(o) \/ WorkerClears(o)
  BY <1>3 DEF Progress, WorkerClears, registryVars, taskVars,
              JobsInv, RecordsAgree, RunningIsLive, BusyMeansJob, WireIsHonest
<1>4. CASE WorkerReturns(o) \/ WarmClears(o) \/ WarmReads(o) \/ WarmFails(o)
  <2>1. stage[o] \in Running /\ UNCHANGED <<ops, cancelled, wire, lock>>
    BY <1>4 DEF WorkerReturns, WarmClears, WarmReads, WarmFails, Running, taskVars
  <2>2. \E s \in Running : stage' = [stage EXCEPT ![o] = s]
    BY <1>4 DEF WorkerReturns, WarmClears, WarmReads, WarmFails, Running
  <2> QED
    BY <2>1, <2>2, MovesOn
<1>5. CASE Cancel(o)
  <2>1. stage[o] \in Running /\ UNCHANGED <<ops, lock>> /\ cancelled' = cancelled \cup {o}
    BY <1>5 DEF Cancel
  <2>2. CASE stage[o] \in {"queued", "warm"}
    <3>1. Over(o)
      BY <1>5, <2>2 DEF Cancel
    <3>2. ops'[o].status # "unborn" /\ (ops'[o].timer => ops'[o].status \in Ended)
      BY <2>1 DEF JobsInv, RecordsAgree, Running
    <3> QED
      BY <2>1, <3>1, <3>2, EndsWell
  <2>3. CASE stage[o] \notin {"queued", "warm"}
    BY <1>5, <2>3 DEF Cancel, JobsInv, RecordsAgree, RunningIsLive, BusyMeansJob, WireIsHonest
  <2> QED
    BY <2>2, <2>3
<1> QED
  BY <1>1, <1>2, <1>3, <1>4, <1>5 DEF JobProceeds

\* A step of the loop: what it takes off the queue has a job that waits for it.
LEMMA LoopJobs == TypeOK /\ JobsInv /\ OutcomesAwaited /\ LoopRuns => JobsInv'
<1> SUFFICES ASSUME TypeOK, JobsInv, OutcomesAwaited, LoopRuns PROVE JobsInv'
  OBVIOUS
<1> DEFINE m == Head(posted)
           rest == Tail(posted)
<1>0. m \in Messages /\ m = posted[1] /\ 1 \in DOMAIN posted
  BY TakeHead DEF LoopRuns, TypeOK
<1>1. CASE SnapshotFuture(m, rest) \/ SnapshotAnswer(m, rest) \/ BumpGeneration(m, rest)
  BY <1>1 DEF SnapshotFuture, SnapshotAnswer, BumpGeneration, registryVars, taskVars,
              JobsInv, RecordsAgree, RunningIsLive, BusyMeansJob, WireIsHonest
<1>2. CASE ReportProgress(m, rest)
  <2>1. /\ m.id \in Ops /\ Update(m.id, "running") /\ "running" \in Live \cup Ended
        /\ UNCHANGED <<stage, cancelled, wire, lock>>
    BY <1>0, <1>2 DEF ReportProgress, Messages, Live, taskVars
  <2>2. /\ \A p \in Ops : p # m.id => ops'[p] = ops[p]
        /\ ops'[m.id].kind = ops[m.id].kind
        /\ \/ ops'[m.id] = ops[m.id]
           \/ /\ ops'[m.id].status = "running" /\ ~ops'[m.id].timer
              /\ ops[m.id].status \in Live
    BY <2>1, UpdateDoes DEF Live, Ended
  <2>3. RecordsAgree'
    BY <2>1, <2>2 DEF JobsInv, RecordsAgree, Live
  <2>4. RunningIsLive' /\ BusyMeansJob'
    BY <2>1, <2>2 DEF JobsInv, RunningIsLive, BusyMeansJob, Live
  <2>5. WireIsHonest'
    BY <2>1 DEF JobsInv, WireIsHonest
  <2> QED
    BY <2>3, <2>4, <2>5 DEF JobsInv
<1>3. ASSUME IsOutcome(m)
      PROVE  m.id \in Ops /\ stage[m.id] = "back" /\ ops[m.id].status \in Live
  <2>1. m.id \in Ops
    BY <1>0, <1>3 DEF Messages, IsOutcome
  <2>2. stage[m.id] = "back"
    BY <1>0, <1>3 DEF OutcomesAwaited
  <2> QED
    BY <2>1, <2>2 DEF JobsInv, RunningIsLive, Running
<1>4. CASE Unheard(m, rest)
  <2>1. m.id \in Ops /\ stage[m.id] = "back" /\ ops[m.id].status \in Live
    BY <1>3, <1>4 DEF Unheard, IsOutcome
  <2>2. Over(m.id) /\ m.id \in cancelled /\ UNCHANGED <<ops, cancelled, lock>>
    BY <1>4 DEF Unheard, taskVars
  <2>3. ops[m.id].status # "unborn" /\ (ops[m.id].timer => ops[m.id].status \in Ended)
    BY <2>1 DEF JobsInv, RecordsAgree, Live
  <2> QED
    BY <2>1, <2>2, <2>3, EndsWell DEF Running
<1>5. CASE TaskResumes(m, rest)
  <2>1. m.id \in Ops /\ stage[m.id] = "back" /\ ops[m.id].status \in Live
    BY <1>3, <1>5 DEF TaskResumes, IsOutcome
  <2>2. m.id \notin cancelled /\ UNCHANGED <<cancelled, lock>>
    BY <1>5 DEF TaskResumes, taskVars
  <2>3. \/ FailAndDismiss(m.id) /\ Over(m.id)
        \/ \E status \in Ended : Update(m.id, status) /\ Over(m.id)
        \/ Update(m.id, "running") /\ stage' = [stage EXCEPT ![m.id] = "warm"] /\ UNCHANGED wire
    BY <1>5 DEF TaskResumes, Won, Lost, Refused, Warmed, Unwarmed, Ended
  <2>4. CASE FailAndDismiss(m.id) /\ Over(m.id)
    <3>1. /\ \A p \in Ops : p # m.id => ops'[p] = ops[p]
          /\ ops'[m.id] = [kind |-> ops[m.id].kind, status |-> "gone", timer |-> FALSE]
      BY <2>1, <2>4, DismissDoes
    <3>2. ops'[m.id].status \notin Live /\ ops'[m.id].status # "unborn" /\ ~ops'[m.id].timer
      BY <3>1 DEF Live
    <3> QED
      BY <2>1, <2>2, <2>4, <3>1, <3>2, EndsWell DEF Running
  <2>5. ASSUME NEW status \in Ended, Update(m.id, status), Over(m.id)
        PROVE  JobsInv'
    <3>1. /\ \A p \in Ops : p # m.id => ops'[p] = ops[p]
          /\ ops'[m.id].status = status /\ ops'[m.id].timer = (status \in Ended)
      BY <2>1, <2>5, UpdateDoes
    <3>2. ops'[m.id].status \notin Live /\ ops'[m.id].status # "unborn"
      BY <2>5, <3>1 DEF Live, Ended
    <3> QED
      BY <2>1, <2>2, <2>5, <3>1, <3>2, EndsWell DEF Running
  <2>6. CASE Update(m.id, "running") /\ stage' = [stage EXCEPT ![m.id] = "warm"] /\ UNCHANGED wire
    <3>1. /\ \A p \in Ops : p # m.id => ops'[p] = ops[p]
          /\ ops'[m.id].kind = ops[m.id].kind
          /\ ops'[m.id].status = "running" /\ ~ops'[m.id].timer
      BY <2>1, <2>6, UpdateDoes DEF Live, Ended
    <3>2. stage'[m.id] = "warm" /\ \A p \in Ops : p # m.id => stage'[p] = stage[p]
      BY <2>1, <2>6 DEF TypeOK
    <3>3. RecordsAgree'
      BY <2>1, <3>1, <3>2 DEF JobsInv, RecordsAgree, Running
    <3>4. RunningIsLive' /\ BusyMeansJob'
      BY <2>1, <2>2, <3>1, <3>2 DEF JobsInv, RunningIsLive, BusyMeansJob, Live, Running
    <3>5. WireIsHonest'
      BY <2>2, <2>6, <3>2 DEF JobsInv, WireIsHonest, Running
    <3> QED
      BY <3>3, <3>4, <3>5 DEF JobsInv
  <2> QED
    BY <2>3, <2>4, <2>5, <2>6
<1> QED
  BY <1>1, <1>2, <1>4, <1>5 DEF LoopRuns

LEMMA JobsStep == TypeOK /\ JobsInv /\ OutcomesAwaited /\ [Next]_vars => JobsInv'
<1> SUFFICES ASSUME TypeOK, JobsInv, OutcomesAwaited, [Next]_vars PROVE JobsInv'
  OBVIOUS
<1> USE DEF JobsInv, RecordsAgree, RunningIsLive, BusyMeansJob
<1>1. ASSUME NEW v \in Viewers, Unsubscribe(v) PROVE JobsInv'
  BY <1>1 DEF Unsubscribe, taskVars, WireIsHonest
<1>2. ASSUME NEW who \in Unregistered, Starts(who) \/ Ends(who) PROVE JobsInv'
  <2>1. \A w \in wire' : w \in wire \/ (w.who \notin {"job", "deploy"} /\ w.op = NoOp)
    BY <1>2 DEF Starts, Ends, Entered, Left, Unregistered
  <2> QED
    BY <1>2, <2>1 DEF Starts, Ends, registryVars, taskVars, WireIsHonest
<1>3. CASE DeployStarts
  BY <1>3 DEF DeployStarts, Entered, registryVars, taskVars, WireIsHonest
<1>4. CASE DeployEnds
  <2>0. \A w \in wire : w.who = "deploy" => w = [who |-> "deploy", op |-> NoOp]
    BY DEF TypeOK, WireIsHonest
  <2>1. \A w \in wire' : w \in wire /\ w.who # "deploy"
    BY <1>4, <2>0 DEF DeployEnds, Left
  <2> QED
    BY <1>4, <2>1 DEF DeployEnds, registryVars, taskVars, WireIsHonest
<1>5. ASSUME NEW c \in Clients, Export(c) PROVE JobsInv'
  BY <1>5 DEF Export, registryVars, taskVars, WireIsHonest
<1>6. CASE UNCHANGED vars
  BY <1>6 DEF vars, WireIsHonest
<1> QED
  BY <1>1, <1>2, <1>3, <1>4, <1>5, <1>6, RequestJobs, JobJobs, LoopJobs DEF Next

-----------------------------------------------------------------------------
(* The event loop's queue.                                                 *)

\* What waits for an outcome or a snapshot that stays queued goes on waiting.
StillAwaited(m) ==
  /\ \A o \in Ops : stage[o] = "back" /\ ~(IsOutcome(m) /\ o = m.id) => stage'[o] = "back"
  /\ \A c \in Clients : exports[c].state = "read" /\ ~(IsSnapshot(m) /\ c = m.id)
                          => exports'[c].state = "read"
Nobody == Message("progress", NoOp)

\* Whom a message concerns.
LEMMA Addressee ==
  ASSUME TypeOK, NEW i \in DOMAIN posted
  PROVE  /\ posted[i] \in Messages
         /\ IsOutcome(posted[i]) => posted[i].id \in Ops
         /\ IsSnapshot(posted[i]) => posted[i].id \in Clients
<1>1. posted[i] \in Messages
  BY ElementOfSeq DEF TypeOK
<1> QED
  BY <1>1 DEF Messages, IsOutcome, IsSnapshot

LEMMA QueueStays ==
  ASSUME TypeOK, QueueInv, UNCHANGED posted, StillAwaited(Nobody)
  PROVE  QueueInv'
<1>1. ~IsOutcome(Nobody) /\ ~IsSnapshot(Nobody)
  BY DEF Nobody, Message, IsOutcome, IsSnapshot
<1>2. OutcomesAwaited' /\ SnapshotsAwaited'
  BY <1>1, Addressee DEF QueueInv, OutcomesAwaited, SnapshotsAwaited, StillAwaited
<1>3. OneEach' /\ BumpComesFirst'
  BY DEF QueueInv, OneEach, BumpComesFirst
<1> QED
  BY <1>2, <1>3 DEF QueueInv

\* One more message, which is not a bump.
LEMMA QueueGrows ==
  ASSUME TypeOK, QueueInv, NEW m \in Messages, Post(<<m>>), m.what # "bump",
         StillAwaited(Nobody),
         IsOutcome(m) => stage'[m.id] = "back" /\ stage[m.id] # "back",
         IsSnapshot(m) => exports'[m.id].state = "read" /\ exports[m.id].state # "read"
  PROVE  QueueInv'
<1>0. ~IsOutcome(Nobody) /\ ~IsSnapshot(Nobody)
  BY DEF Nobody, Message, IsOutcome, IsSnapshot
<1> DEFINE n == Len(posted)
<1>1. /\ n \in Nat /\ DOMAIN posted = 1 .. n /\ DOMAIN posted' = 1 .. n + 1
      /\ \A i \in 1 .. n : posted'[i] = posted[i]
      /\ posted'[n + 1] = m
  BY PutOne DEF Post, TypeOK
<1> HIDE DEF n
<1>2. \A i \in DOMAIN posted' : i \in DOMAIN posted \/ i = n + 1
  BY <1>1
<1>3. \A i \in DOMAIN posted : i \in DOMAIN posted' /\ posted'[i] = posted[i] /\ i # n + 1
  BY <1>1
<1>4. \A i \in DOMAIN posted : ~(SameKind(posted[i], m) /\ posted[i].id = m.id)
  BY DEF QueueInv, OutcomesAwaited, SnapshotsAwaited, SameKind
<1>5. OutcomesAwaited'
  BY <1>0, <1>1, <1>2, <1>3, Addressee DEF QueueInv, OutcomesAwaited, StillAwaited
<1>6. SnapshotsAwaited'
  BY <1>0, <1>1, <1>2, <1>3, Addressee DEF QueueInv, SnapshotsAwaited, StillAwaited
<1>7. OneEach'
  <2> SUFFICES ASSUME NEW i \in DOMAIN posted', NEW j \in DOMAIN posted',
                      posted'[i].id = posted'[j].id, SameKind(posted'[i], posted'[j])
               PROVE  i = j
    BY DEF OneEach
  <2>1. SameKind(posted'[j], posted'[i])
    BY DEF SameKind
  <2> QED
    BY <1>1, <1>2, <1>3, <1>4, <2>1 DEF QueueInv, OneEach
<1>8. BumpComesFirst'
  BY <1>1, <1>2, <1>3 DEF QueueInv, BumpComesFirst
<1> QED
  BY <1>5, <1>6, <1>7, <1>8 DEF QueueInv

\* A bump and the outcome behind it.
LEMMA QueueGrowsByTwo ==
  ASSUME TypeOK, QueueInv, NEW o \in Ops, NEW what \in {"won", "lost", "refused", "warmed"},
         Post(<<Message("bump", o), Message(what, o)>>),
         StillAwaited(Nobody), stage'[o] = "back", stage[o] # "back"
  PROVE  QueueInv'
<1>0. ~IsOutcome(Nobody) /\ ~IsSnapshot(Nobody)
  BY DEF Nobody, Message, IsOutcome, IsSnapshot
<1> DEFINE n == Len(posted)
           b == Message("bump", o)
           m == Message(what, o)
<1>1. b \in Messages /\ m \in Messages
  BY MessageType
<1>2. /\ b.id = o /\ b.what = "bump" /\ ~IsOutcome(b) /\ ~IsSnapshot(b)
      /\ m.id = o /\ m.what # "bump" /\ IsOutcome(m) /\ ~IsSnapshot(m)
  BY DEF Message, IsOutcome, IsSnapshot
<1>3. posted' = posted \o <<b, m>>
  BY DEF Post
<1> HIDE DEF b, m
<1>4. /\ n \in Nat /\ DOMAIN posted = 1 .. n /\ DOMAIN posted' = 1 .. n + 2
      /\ \A i \in 1 .. n : posted'[i] = posted[i]
      /\ posted'[n + 1] = b /\ posted'[n + 2] = m
  BY <1>1, <1>3, PutTwo DEF TypeOK
<1> HIDE DEF n
<1>5. \A i \in DOMAIN posted' : i \in DOMAIN posted \/ i = n + 1 \/ i = n + 2
  BY <1>4
<1>6. \A i \in DOMAIN posted : /\ i \in DOMAIN posted' /\ posted'[i] = posted[i]
                               /\ i # n + 1 /\ i # n + 2
  BY <1>4
<1>7. \A i \in DOMAIN posted : ~(IsOutcome(posted[i]) /\ posted[i].id = o)
  BY DEF QueueInv, OutcomesAwaited
<1>8. OutcomesAwaited'
  BY <1>0, <1>2, <1>4, <1>5, <1>6, Addressee DEF QueueInv, OutcomesAwaited, StillAwaited
<1>9. SnapshotsAwaited'
  BY <1>0, <1>2, <1>4, <1>5, <1>6, Addressee DEF QueueInv, SnapshotsAwaited, StillAwaited
<1>10. OneEach'
  BY <1>2, <1>4, <1>5, <1>6, <1>7 DEF QueueInv, OneEach, SameKind
<1>11. BumpComesFirst'
  <2> SUFFICES ASSUME NEW i \in DOMAIN posted', posted'[i].what = "bump"
               PROVE  \E j \in DOMAIN posted' : /\ i < j
                                                /\ IsOutcome(posted'[j])
                                                /\ posted'[j].id = posted'[i].id
    BY DEF BumpComesFirst
  <2>1. CASE i \in DOMAIN posted
    BY <1>6, <2>1 DEF QueueInv, BumpComesFirst
  <2>2. CASE i = n + 1
    <3>1. n + 2 \in DOMAIN posted' /\ i < n + 2
      BY <1>4, <2>2
    <3> QED
      BY <1>2, <1>4, <2>2, <3>1
  <2>3. CASE i = n + 2
    BY <1>2, <1>4, <2>3
  <2> QED
    BY <1>5, <2>1, <2>2, <2>3
<1> QED
  BY <1>8, <1>9, <1>10, <1>11 DEF QueueInv

\* The head of the queue is taken: whoever waited for it may stop waiting.
LEMMA QueueShrinks ==
  ASSUME TypeOK, QueueInv, posted # << >>, posted' = Tail(posted),
         StillAwaited(Head(posted))
  PROVE  QueueInv'
<1> DEFINE n == Len(posted)
           m == Head(posted)
<1>1. /\ n \in Nat \ {0} /\ DOMAIN posted = 1 .. n /\ DOMAIN posted' = 1 .. n - 1
      /\ \A i \in 1 .. n - 1 : posted'[i] = posted[i + 1]
      /\ m = posted[1]
  BY TakeHead DEF TypeOK
<1> HIDE DEF n, m
<1>2. \A i \in DOMAIN posted' : /\ i + 1 \in DOMAIN posted /\ i + 1 # 1
                                /\ posted'[i] = posted[i + 1]
  BY <1>1
<1>3. 1 \in DOMAIN posted
  BY <1>1
<1>4. \A i \in DOMAIN posted' : ~(SameKind(posted[i + 1], m) /\ posted[i + 1].id = m.id)
  BY <1>1, <1>2, <1>3 DEF QueueInv, OneEach
<1>5. OutcomesAwaited'
  <2> SUFFICES ASSUME NEW i \in DOMAIN posted', IsOutcome(posted'[i])
               PROVE  stage'[posted'[i].id] = "back"
    BY DEF OutcomesAwaited
  <2>1. IsOutcome(posted[i + 1]) /\ i + 1 \in DOMAIN posted /\ posted'[i] = posted[i + 1]
    BY <1>2
  <2>2. stage[posted[i + 1].id] = "back" /\ posted[i + 1].id \in Ops
    BY <2>1, Addressee DEF QueueInv, OutcomesAwaited
  <2>3. ~(IsOutcome(m) /\ posted[i + 1].id = m.id)
    BY <1>4, <2>1 DEF SameKind
  <2> QED
    BY <2>1, <2>2, <2>3 DEF StillAwaited, m
<1>6. SnapshotsAwaited'
  <2> SUFFICES ASSUME NEW i \in DOMAIN posted', IsSnapshot(posted'[i])
               PROVE  exports'[posted'[i].id].state = "read"
    BY DEF SnapshotsAwaited
  <2>1. IsSnapshot(posted[i + 1]) /\ i + 1 \in DOMAIN posted /\ posted'[i] = posted[i + 1]
    BY <1>2
  <2>2. exports[posted[i + 1].id].state = "read" /\ posted[i + 1].id \in Clients
    BY <2>1, Addressee DEF QueueInv, SnapshotsAwaited
  <2>3. ~(IsSnapshot(m) /\ posted[i + 1].id = m.id)
    BY <1>4, <2>1 DEF SameKind
  <2> QED
    BY <2>1, <2>2, <2>3 DEF StillAwaited, m
<1>7. OneEach'
  <2> SUFFICES ASSUME NEW i \in DOMAIN posted', NEW j \in DOMAIN posted',
                      posted'[i].id = posted'[j].id, SameKind(posted'[i], posted'[j])
               PROVE  i = j
    BY DEF OneEach
  <2>1. i + 1 = j + 1
    BY <1>2 DEF QueueInv, OneEach
  <2> QED
    BY <1>1, <2>1
<1>8. BumpComesFirst'
  <2> SUFFICES ASSUME NEW i \in DOMAIN posted', posted'[i].what = "bump"
               PROVE  \E j \in DOMAIN posted' : /\ i < j
                                                /\ IsOutcome(posted'[j])
                                                /\ posted'[j].id = posted'[i].id
    BY DEF BumpComesFirst
  <2>1. PICK k \in DOMAIN posted : /\ i + 1 < k
                                   /\ IsOutcome(posted[k])
                                   /\ posted[k].id = posted'[i].id
    BY <1>2 DEF QueueInv, BumpComesFirst
  <2>2. k - 1 \in DOMAIN posted' /\ i < k - 1 /\ k - 1 + 1 = k
    BY <1>1, <2>1
  <2>3. posted'[k - 1] = posted[k]
    BY <1>2, <2>2
  <2> QED
    BY <2>1, <2>2, <2>3
<1> QED
  BY <1>5, <1>6, <1>7, <1>8 DEF QueueInv

LEMMA InitQueue == Init => QueueInv /\ BumpIsOwed
  BY DEF Init, QueueInv, OutcomesAwaited, SnapshotsAwaited, OneEach, BumpComesFirst,
         BumpIsOwed, NoSnapshot

\* What a request, an end of work or a cancelled call leaves of what is awaited.
LEMMA RequestQueue ==
  ASSUME TypeOK, JobsInv, QueueInv,
         \/ \E o \in Ops :
              \/ \E kind \in Kinds : StartJob(o, kind)
              \/ \E c \in Clients : SyncFromSnapshot(c, o)
              \/ Stash(o) \/ ClearResult(o) \/ CleanupFires(o)
              \/ \E v \in Viewers : Subscribe(v, o)
              \/ Reject(o) \/ GoToWorker(o) \/ WorkerClears(o) \/ WarmClears(o) \/ Cancel(o)
         \/ \E v \in Viewers : Unsubscribe(v)
         \/ \E who \in Unregistered : Starts(who) \/ Ends(who)
         \/ DeployStarts \/ DeployEnds
         \/ UNCHANGED vars
  PROVE  QueueInv'
<1> USE DEF StillAwaited, registryVars, taskVars, cacheVars
<1>1. ASSUME NEW o \in Ops, NEW kind, Register(o, kind)
      PROVE  \A p \in Ops : stage[p] = "back" => stage'[p] = "back"
  <2>1. stage[o] = "none"
    BY <1>1 DEF Register, IsNext, JobsInv, RecordsAgree
  <2> QED
    BY <1>1, <2>1 DEF Register, TypeOK
<1>2. ASSUME NEW o \in Ops, NEW kind \in Kinds, StartJob(o, kind) PROVE QueueInv'
  BY <1>1, <1>2, QueueStays DEF StartJob
<1>3. ASSUME NEW o \in Ops, NEW c \in Clients, SyncFromSnapshot(c, o) PROVE QueueInv'
  <2>1. \A d \in Clients : exports[d].state = "read" => exports'[d].state = "read"
    BY <1>3 DEF SyncFromSnapshot, IsCurrent, TypeOK
  <2> QED
    BY <1>1, <1>3, <2>1, QueueStays DEF SyncFromSnapshot
<1>4. ASSUME NEW o \in Ops, Stash(o) \/ ClearResult(o) \/ CleanupFires(o)
      PROVE  QueueInv'
  BY <1>4, QueueStays DEF Stash, ClearResult, CleanupFires
<1>5. ASSUME NEW v \in Viewers, Unsubscribe(v) \/ \E o \in Ops : Subscribe(v, o)
      PROVE  QueueInv'
  BY <1>5, QueueStays DEF Subscribe, Unsubscribe
<1>6. ASSUME NEW o \in Ops, Reject(o) \/ GoToWorker(o) \/ WorkerClears(o) \/ WarmClears(o)
      PROVE  QueueInv'
  <2>1. UNCHANGED <<posted, exports>>
    BY <1>6 DEF Reject, GoToWorker, WorkerClears, WarmClears
  <2>2. \A p \in Ops : stage[p] = "back" => stage'[p] = "back"
    BY <1>6 DEF Reject, GoToWorker, WorkerClears, WarmClears, Over, TypeOK
  <2> QED
    BY <2>1, <2>2, QueueStays
<1>7. ASSUME NEW o \in Ops, Cancel(o) PROVE QueueInv'
  <2>1. \A p \in Ops : stage[p] = "back" => stage'[p] = "back"
    BY <1>7 DEF Cancel, Over, TypeOK
  <2> QED
    BY <1>7, <2>1, QueueStays DEF Cancel
<1>8. CASE \/ \E who \in Unregistered : Starts(who) \/ Ends(who)
           \/ DeployStarts \/ DeployEnds
  BY <1>8, QueueStays DEF Starts, Ends, DeployStarts, DeployEnds
<1>9. CASE UNCHANGED vars
  BY <1>9, QueueStays DEF vars
<1> QED
  BY <1>2, <1>3, <1>4, <1>5, <1>6, <1>7, <1>8, <1>9

\* What a worker, a progress report or an export posts.
LEMMA PostQueue ==
  ASSUME TypeOK, JobsInv, QueueInv,
         \/ \E o \in Ops : WorkerReturns(o) \/ WarmReads(o) \/ WarmFails(o) \/ Progress(o)
         \/ \E c \in Clients : Export(c)
  PROVE  QueueInv'
<1>1. \A c \in Clients : ReadAgain => exports'[c].state = exports[c].state
  BY DEF ReadAgain, TypeOK
<1>2. ASSUME NEW o \in Ops, stage[o] # "back", stage' = [stage EXCEPT ![o] = "back"],
             ReadAgain \/ UNCHANGED exports
      PROVE  StillAwaited(Nobody) /\ stage'[o] = "back"
  BY <1>1, <1>2 DEF StillAwaited, TypeOK
<1>3. ASSUME NEW o \in Ops, WorkerReturns(o) PROVE QueueInv'
  <2>1. stage[o] = "wire" /\ stage' = [stage EXCEPT ![o] = "back"]
    BY <1>3 DEF WorkerReturns
  <2>2. PICK what \in {"won", "lost", "refused"} :
          \/ Post(<<Message(what, o)>>) /\ UNCHANGED exports
          \/ ReadAgain /\ Post(<<Message("bump", o), Message(what, o)>>)
    BY <1>3, <2>1, OutcomeType DEF WorkerReturns, Running, JobsInv, cacheVars
  <2>3. StillAwaited(Nobody) /\ stage'[o] = "back"
    BY <1>2, <2>1, <2>2
  <2>4. CASE Post(<<Message(what, o)>>)
    <3>1. Message(what, o) \in Messages
      BY MessageType
    <3>2. /\ Message(what, o).id = o /\ Message(what, o).what # "bump"
          /\ ~IsSnapshot(Message(what, o))
      BY DEF Message, IsSnapshot
    <3> QED
      BY <2>1, <2>3, <2>4, <3>1, <3>2, QueueGrows
  <2>5. CASE Post(<<Message("bump", o), Message(what, o)>>)
    BY <2>1, <2>3, <2>5, QueueGrowsByTwo
  <2> QED
    BY <2>2, <2>4, <2>5
<1>4. ASSUME NEW o \in Ops, WarmReads(o) PROVE QueueInv'
  <2>1. stage[o] # "back" /\ stage' = [stage EXCEPT ![o] = "back"] /\ ReadAgain
    BY <1>4 DEF WarmReads
  <2> QED
    BY <1>2, <1>4, <2>1, QueueGrowsByTwo DEF WarmReads
<1>5. ASSUME NEW o \in Ops, WarmFails(o) PROVE QueueInv'
  <2>1. stage[o] # "back" /\ stage' = [stage EXCEPT ![o] = "back"] /\ UNCHANGED exports
    BY <1>5 DEF WarmFails, cacheVars
  <2>2. StillAwaited(Nobody) /\ stage'[o] = "back"
    BY <1>2, <2>1
  <2>3. Message("unwarmed", o) \in Messages
    BY MessageType
  <2>4. /\ Message("unwarmed", o).id = o /\ Message("unwarmed", o).what # "bump"
        /\ ~IsSnapshot(Message("unwarmed", o))
    BY DEF Message, IsSnapshot
  <2> QED
    BY <1>5, <2>1, <2>2, <2>3, <2>4, QueueGrows DEF WarmFails
<1>6. ASSUME NEW o \in Ops, Progress(o) PROVE QueueInv'
  <2>1. StillAwaited(Nobody)
    BY <1>6 DEF Progress, StillAwaited, registryVars, cacheVars
  <2>2. Message("progress", o) \in Messages
    BY MessageType
  <2>3. /\ Message("progress", o).what # "bump"
        /\ ~IsOutcome(Message("progress", o)) /\ ~IsSnapshot(Message("progress", o))
    BY DEF Message, IsOutcome, IsSnapshot
  <2> QED
    BY <1>6, <2>1, <2>2, <2>3, QueueGrows DEF Progress
<1>7. ASSUME NEW c \in Clients, Export(c) PROVE QueueInv'
  <2>1. /\ exports[c].state # "read" /\ exports'[c].state = "read"
        /\ \A d \in Clients : d # c => exports'[d] = exports[d]
    BY <1>7 DEF Export, TypeOK
  <2>2. StillAwaited(Nobody)
    BY <1>7, <2>1 DEF Export, StillAwaited, registryVars
  <2>3. Message("read", c) \in Messages
    BY MessageType
  <2>4. /\ Message("read", c).id = c /\ Message("read", c).what # "bump"
        /\ ~IsOutcome(Message("read", c))
    BY DEF Message, IsOutcome
  <2> QED
    BY <1>7, <2>1, <2>2, <2>3, <2>4, QueueGrows DEF Export
<1> QED
  BY <1>3, <1>4, <1>5, <1>6, <1>7

\* What the loop takes off the queue, and the answer it queues behind the rest.
LEMMA FutureQueue ==
  ASSUME TypeOK, QueueInv, posted # << >>, SnapshotFuture(Head(posted), Tail(posted))
  PROVE  QueueInv'
<1> DEFINE n == Len(posted)
           m == Head(posted)
           a == Message("answer", m.id)
<1>1. /\ n \in Nat \ {0} /\ DOMAIN posted = 1 .. n
      /\ m = posted[1] /\ m \in Messages /\ Tail(posted) \in Seq(Messages)
      /\ DOMAIN Tail(posted) = 1 .. n - 1
      /\ \A i \in 1 .. n - 1 : Tail(posted)[i] = posted[i + 1]
  BY TakeHead DEF TypeOK
<1>2. m.id \in Clients /\ IsSnapshot(m) /\ ~IsOutcome(m)
  BY <1>1 DEF SnapshotFuture, Messages, IsSnapshot, IsOutcome
<1>3. a \in Messages /\ a.id = m.id /\ a.what = "answer" /\ IsSnapshot(a) /\ ~IsOutcome(a)
  BY <1>2, MessageType DEF Message, IsSnapshot, IsOutcome
<1>4. posted' = Append(Tail(posted), a) /\ UNCHANGED <<stage, exports>>
  BY DEF SnapshotFuture, registryVars, cacheVars
<1> HIDE DEF m, a
<1>5. /\ DOMAIN posted' = 1 .. n
      /\ \A i \in 1 .. n - 1 : posted'[i] = posted[i + 1]
      /\ posted'[n] = a
  BY <1>1, <1>3, <1>4
<1> HIDE DEF n
<1>6. \A i \in DOMAIN posted' : \/ i = n
                                \/ /\ i + 1 \in DOMAIN posted /\ i + 1 # 1
                                   /\ posted'[i] = posted[i + 1]
  BY <1>1, <1>5
<1>7. 1 \in DOMAIN posted /\ exports[m.id].state = "read"
  BY <1>1, <1>2 DEF QueueInv, SnapshotsAwaited
<1>8. \A i \in DOMAIN posted : i # 1 => ~(IsSnapshot(posted[i]) /\ posted[i].id = m.id)
  BY <1>1, <1>2, <1>7 DEF QueueInv, OneEach, SameKind
<1>9. OutcomesAwaited'
  BY <1>3, <1>4, <1>5, <1>6 DEF QueueInv, OutcomesAwaited
<1>10. SnapshotsAwaited'
  BY <1>3, <1>4, <1>5, <1>6, <1>7 DEF QueueInv, SnapshotsAwaited
<1>11. OneEach'
  <2> SUFFICES ASSUME NEW i \in DOMAIN posted', NEW j \in DOMAIN posted',
                      posted'[i].id = posted'[j].id, SameKind(posted'[i], posted'[j])
               PROVE  i = j
    BY DEF OneEach
  <2>1. CASE i = n \/ j = n
    BY <1>3, <1>5, <1>6, <1>8, <2>1 DEF SameKind
  <2>2. CASE i # n /\ j # n
    <3>1. i + 1 = j + 1
      BY <1>6, <2>2 DEF QueueInv, OneEach
    <3> QED
      BY <1>5, <3>1
  <2> QED
    BY <2>1, <2>2
<1>12. BumpComesFirst'
  <2> SUFFICES ASSUME NEW i \in DOMAIN posted', posted'[i].what = "bump"
               PROVE  \E j \in DOMAIN posted' : /\ i < j
                                                /\ IsOutcome(posted'[j])
                                                /\ posted'[j].id = posted'[i].id
    BY DEF BumpComesFirst
  <2>1. PICK k \in DOMAIN posted : /\ i + 1 < k
                                   /\ IsOutcome(posted[k])
                                   /\ posted[k].id = posted'[i].id
    BY <1>3, <1>5, <1>6 DEF QueueInv, BumpComesFirst
  <2>2. k - 1 \in 1 .. n - 1 /\ i < k - 1 /\ k - 1 + 1 = k /\ k - 1 \in DOMAIN posted'
    BY <1>1, <1>5, <2>1
  <2>3. posted'[k - 1] = posted[k]
    BY <1>5, <2>2
  <2> QED
    BY <2>1, <2>2, <2>3
<1> QED
  BY <1>9, <1>10, <1>11, <1>12 DEF QueueInv

LEMMA LoopQueue == TypeOK /\ QueueInv /\ LoopRuns => QueueInv'
<1> SUFFICES ASSUME TypeOK, QueueInv, LoopRuns PROVE QueueInv'
  OBVIOUS
<1> DEFINE m == Head(posted)
           rest == Tail(posted)
<1>0. m \in Messages /\ posted # << >>
  BY QueueType DEF LoopRuns
<1>1. CASE SnapshotFuture(m, rest)
  BY <1>0, <1>1, FutureQueue
<1>2. CASE SnapshotAnswer(m, rest)
  <2>1. IsSnapshot(m) /\ UNCHANGED stage
    BY <1>2 DEF SnapshotAnswer, IsSnapshot, registryVars
  <2>2. \A c \in Clients : c # m.id => exports'[c] = exports[c]
    BY <1>2 DEF SnapshotAnswer, TypeOK
  <2>3. StillAwaited(m)
    BY <2>1, <2>2 DEF StillAwaited
  <2> QED
    BY <1>0, <1>2, <2>3, QueueShrinks DEF SnapshotAnswer
<1>3. CASE ReportProgress(m, rest)
  <2>1. StillAwaited(m)
    BY <1>3 DEF ReportProgress, StillAwaited, cacheVars
  <2> QED
    BY <1>0, <1>3, <2>1, QueueShrinks DEF ReportProgress
<1>a. Bump => \A c \in Clients : exports[c].state = "read" => exports'[c].state = "read"
  <2> SUFFICES ASSUME Bump, NEW c \in Clients, exports[c].state = "read"
               PROVE  exports'[c].state = "read"
    OBVIOUS
  <2>1. exports'[c] = [exports[c] EXCEPT !.moved = TRUE]
    BY DEF Bump
  <2>2. exports[c] \in Snapshots
    BY SnapshotType
  <2> QED
    BY <2>1, <2>2 DEF Snapshots
<1>4. CASE BumpGeneration(m, rest)
  <2>1. StillAwaited(m)
    BY <1>4, <1>a DEF BumpGeneration, StillAwaited, registryVars
  <2> QED
    BY <1>0, <1>4, <2>1, QueueShrinks DEF BumpGeneration
<1>5. CASE Unheard(m, rest) \/ TaskResumes(m, rest)
  <2>1. IsOutcome(m) /\ m.id \in Ops /\ posted' = rest
    BY <1>0, <1>5 DEF Unheard, TaskResumes, IsOutcome, Messages
  <2>2. Over(m.id) \/ stage' = [stage EXCEPT ![m.id] = "warm"]
    BY <1>5 DEF Unheard, TaskResumes, Won, Lost, Refused, Warmed, Unwarmed
  <2>3. \A o \in Ops : o # m.id => stage'[o] = stage[o]
    BY <2>2 DEF Over, TypeOK
  <2>4. Bump \/ UNCHANGED exports
    BY <1>5 DEF Unheard, TaskResumes, cacheVars
  <2>5. StillAwaited(m)
    BY <1>a, <2>1, <2>3, <2>4 DEF StillAwaited
  <2> QED
    BY <1>0, <2>1, <2>5, QueueShrinks
<1> QED
  BY <1>1, <1>2, <1>3, <1>4, <1>5 DEF LoopRuns

LEMMA QueueStep == TypeOK /\ JobsInv /\ QueueInv /\ [Next]_vars => QueueInv'
<1> SUFFICES ASSUME TypeOK, JobsInv, QueueInv, [Next]_vars PROVE QueueInv'
  OBVIOUS
<1>1. CASE \E o \in Ops : WorkerReturns(o) \/ WarmReads(o) \/ WarmFails(o) \/ Progress(o)
  BY <1>1, PostQueue
<1>2. CASE \E c \in Clients : Export(c)
  BY <1>2, PostQueue
<1>3. CASE LoopRuns
  BY <1>3, LoopQueue
<1> QED
  BY <1>1, <1>2, <1>3, RequestQueue DEF Next, JobProceeds

-----------------------------------------------------------------------------
(* The generation of the cache and what snapshots took of it.              *)

BumpQueued == \E i \in DOMAIN posted : posted[i].what = "bump"

\* A bump that is queued stays queued unless it is at the head.
LEMMA BumpStays ==
  ASSUME TypeOK, BumpQueued,
         \/ UNCHANGED posted
         \/ \E m \in Messages : Post(<<m>>)
         \/ \E m, n \in Messages : Post(<<m, n>>)
         \/ posted # << >> /\ Head(posted).what # "bump" /\ posted' = Tail(posted)
         \/ \E m \in Messages : /\ posted # << >> /\ Head(posted).what # "bump"
                                /\ posted' = Append(Tail(posted), m)
  PROVE  BumpQueued'
<1> DEFINE n == Len(posted)
<1>0. posted \in Seq(Messages) /\ n \in Nat /\ DOMAIN posted = 1 .. n
  BY DEF TypeOK
<1>1. PICK i \in DOMAIN posted : posted[i].what = "bump"
  BY DEF BumpQueued
<1>2. CASE UNCHANGED posted
  BY <1>2 DEF BumpQueued
<1>3. ASSUME NEW m \in Messages, Post(<<m>>) PROVE BumpQueued'
  <2>1. i \in DOMAIN posted' /\ posted'[i] = posted[i]
    <3>1. /\ DOMAIN posted' = 1 .. n + 1
          /\ \A k \in 1 .. n : posted'[k] = posted[k]
      BY <1>3, PutOne DEF Post, TypeOK
    <3> HIDE DEF n
    <3>2. i \in 1 .. n /\ i \in 1 .. n + 1
      BY <1>0
    <3> QED
      BY <3>1, <3>2
  <2> QED
    BY <1>1, <2>1 DEF BumpQueued
<1>4. ASSUME NEW m \in Messages, NEW o \in Messages, Post(<<m, o>>) PROVE BumpQueued'
  <2>1. i \in DOMAIN posted' /\ posted'[i] = posted[i]
    <3>1. /\ DOMAIN posted' = 1 .. n + 2
          /\ \A k \in 1 .. n : posted'[k] = posted[k]
      BY <1>4, PutTwo DEF Post, TypeOK
    <3> HIDE DEF n
    <3>2. i \in 1 .. n /\ i \in 1 .. n + 2
      BY <1>0
    <3> QED
      BY <3>1, <3>2
  <2> QED
    BY <1>1, <2>1 DEF BumpQueued
<1>5. ASSUME posted # << >>, Head(posted).what # "bump"
      PROVE  /\ i - 1 \in 1 .. n - 1 /\ Tail(posted)[i - 1] = posted[i]
             /\ Tail(posted) \in Seq(Messages) /\ DOMAIN Tail(posted) = 1 .. n - 1
             /\ Len(Tail(posted)) = n - 1
  <2>1. i # 1
    BY <1>0, <1>1, <1>5, TakeHead
  <2>2. i - 1 \in 1 .. n - 1 /\ i - 1 + 1 = i
    BY <1>0, <2>1
  <2> QED
    BY <1>0, <1>5, <2>2, TakeHead
<1>6. CASE posted # << >> /\ Head(posted).what # "bump" /\ posted' = Tail(posted)
  BY <1>1, <1>5, <1>6 DEF BumpQueued
<1>7. ASSUME NEW m \in Messages, posted # << >>, Head(posted).what # "bump",
             posted' = Append(Tail(posted), m)
      PROVE  BumpQueued'
  <2> DEFINE s == Tail(posted)
  <2>1. /\ s \in Seq(Messages) /\ Len(s) = n - 1 /\ i - 1 \in 1 .. n - 1
        /\ posted' = Append(s, m)
    BY <1>5, <1>7
  <2> HIDE DEF s, n
  <2>2. i - 1 \in DOMAIN posted' /\ posted'[i - 1] = s[i - 1]
    <3>1. DOMAIN posted' = 1 .. n /\ \A k \in 1 .. n - 1 : posted'[k] = s[k]
      BY <1>0, <2>1
    <3>2. i - 1 \in 1 .. n
      BY <1>0, <2>1
    <3> QED
      BY <2>1, <3>1, <3>2
  <2> QED
    BY <1>1, <1>5, <1>7, <2>2 DEF BumpQueued, s
<1> QED
  BY <1>2, <1>3, <1>4, <1>6, <1>7

\* What a step may do to the cache, the snapshots and the queued bumps so that no
\* stale snapshot passes for the present one.
LEMMA BumpOwedStays ==
  ASSUME TypeOK, BumpIsOwed,
         BumpQueued => BumpQueued',
         gutted => gutted',
         \A c \in Clients :
           \/ exports'[c] = exports[c]
           \/ exports'[c].state \notin {"read", "held"}
           \/ exports'[c].image = "present"
           \/ /\ exports[c].state = "read"
              /\ exports'[c].image = exports[c].image /\ exports'[c].moved = exports[c].moved
           \/ gutted'
  PROVE  BumpIsOwed'
  BY DEF BumpIsOwed, BumpQueued, IsCache

LEMMA OwedStep == TypeOK /\ JobsInv /\ QueueInv /\ BumpIsOwed /\ [Next]_vars => BumpIsOwed'
<1> SUFFICES ASSUME TypeOK, JobsInv, QueueInv, BumpIsOwed, [Next]_vars PROVE BumpIsOwed'
  OBVIOUS
<1> USE DEF registryVars, taskVars, cacheVars
<1>1. ASSUME UNCHANGED <<posted, exports>>, gutted => gutted' PROVE BumpIsOwed'
  BY <1>1 DEF BumpIsOwed, IsCache
<1>2. ASSUME NEW o \in Ops,
             \/ \E kind \in Kinds : StartJob(o, kind)
             \/ Stash(o) \/ ClearResult(o) \/ CleanupFires(o)
             \/ \E v \in Viewers : Subscribe(v, o)
             \/ Reject(o) \/ GoToWorker(o) \/ WarmClears(o) \/ WorkerClears(o) \/ Cancel(o)
      PROVE  UNCHANGED <<posted, exports>> /\ (gutted => gutted')
  BY <1>2 DEF StartJob, Stash, ClearResult, CleanupFires, Subscribe, Reject, GoToWorker,
              WarmClears, WorkerClears, Cancel
<1>3. ASSUME \/ \E v \in Viewers : Unsubscribe(v)
             \/ \E who \in Unregistered : Starts(who) \/ Ends(who)
             \/ DeployStarts \/ DeployEnds
             \/ UNCHANGED vars
      PROVE  UNCHANGED <<posted, exports>> /\ (gutted => gutted')
  BY <1>3 DEF Unsubscribe, Starts, Ends, DeployStarts, DeployEnds, vars
<1>4. ASSUME NEW o \in Ops, NEW c \in Clients, SyncFromSnapshot(c, o) PROVE BumpIsOwed'
  <2>1. /\ exports'[c] = NoSnapshot /\ \A d \in Clients : d # c => exports'[d] = exports[d]
        /\ UNCHANGED <<posted, gutted>>
    BY <1>4 DEF SyncFromSnapshot, TypeOK
  <2>2. NoSnapshot.state \notin {"read", "held"}
    BY DEF NoSnapshot
  <2> QED
    BY <2>1, <2>2, BumpOwedStays DEF BumpQueued
<1>5. ASSUME NEW o \in Ops, NEW what \in {"won", "lost", "refused", "warmed"},
             Post(<<Message("bump", o), Message(what, o)>>)
      PROVE  BumpIsOwed'
  <2>1. Message("bump", o) \in Messages /\ Message(what, o) \in Messages
    BY MessageType
  <2>2. Len(posted) + 1 \in DOMAIN posted' /\ posted'[Len(posted) + 1] = Message("bump", o)
    BY <1>5, <2>1, PutTwo DEF Post, TypeOK
  <2>3. BumpQueued'
    BY <2>2 DEF BumpQueued, Message
  <2> QED
    BY <2>3 DEF BumpIsOwed, BumpQueued
<1>6. ASSUME NEW o \in Ops, WorkerReturns(o) PROVE BumpIsOwed'
  <2>1. PICK what \in {"won", "lost", "refused"} :
          \/ Post(<<Message(what, o)>>) /\ UNCHANGED <<gutted, exports>>
          \/ Post(<<Message("bump", o), Message(what, o)>>)
    BY <1>6, OutcomeType DEF WorkerReturns, Running, JobsInv
  <2>2. Message(what, o) \in Messages
    BY MessageType
  <2>3. CASE Post(<<Message(what, o)>>) /\ UNCHANGED <<gutted, exports>>
    BY <2>2, <2>3, BumpStays, BumpOwedStays
  <2> QED
    BY <1>5, <2>1, <2>3
<1>7. ASSUME NEW o \in Ops, WarmReads(o) PROVE BumpIsOwed'
  BY <1>5, <1>7 DEF WarmReads
<1>8. ASSUME NEW o \in Ops, WarmFails(o) \/ Progress(o) PROVE BumpIsOwed'
  <2>1. Message("unwarmed", o) \in Messages /\ Message("progress", o) \in Messages
    BY MessageType
  <2> QED
    BY <1>8, <2>1, BumpStays, BumpOwedStays DEF WarmFails, Progress
<1>9. ASSUME NEW c \in Clients, Export(c) PROVE BumpIsOwed'
  <2>1. Message("read", c) \in Messages
    BY MessageType
  <2>2. /\ exports'[c].image = "present" \/ gutted'
        /\ \A d \in Clients : d # c => exports'[d] = exports[d]
        /\ UNCHANGED gutted
    BY <1>9 DEF Export, TypeOK
  <2>3. BumpQueued => BumpQueued'
    BY <1>9, <2>1, BumpStays DEF Export
  <2>4. \A d \in Clients : \/ exports'[d] = exports[d]
                          \/ exports'[d].image = "present" \/ gutted'
    BY <2>2
  <2> QED
    BY <2>2, <2>3, <2>4, BumpOwedStays
<1>10. CASE LoopRuns
  <2> DEFINE m == Head(posted)
             rest == Tail(posted)
  <2>0. m \in Messages /\ posted # << >> /\ UNCHANGED gutted
    BY <1>10, QueueType DEF LoopRuns, SnapshotFuture, SnapshotAnswer, ReportProgress,
                            BumpGeneration, Unheard, TaskResumes
  <2>1. CASE SnapshotFuture(m, rest)
    <3>1. /\ m.what # "bump" /\ Message("answer", m.id) \in Messages
          /\ posted' = Append(Tail(posted), Message("answer", m.id)) /\ UNCHANGED exports
      BY <2>0, <2>1, MessageType DEF SnapshotFuture, Messages
    <3> QED
      BY <2>0, <3>1, BumpStays, BumpOwedStays
  <2>2. CASE SnapshotAnswer(m, rest)
    <3>1. m.what # "bump" /\ posted' = Tail(posted) /\ m.id \in Clients
      BY <2>0, <2>2 DEF SnapshotAnswer, Messages
    <3>2. exports[m.id].state = "read"
      <4>1. 1 \in DOMAIN posted /\ m = posted[1]
        BY <2>0, TakeHead DEF TypeOK
      <4> QED
        BY <2>2, <4>1 DEF SnapshotAnswer, QueueInv, SnapshotsAwaited, IsSnapshot
    <3>3. /\ exports'[m.id].image = exports[m.id].image
          /\ exports'[m.id].moved = exports[m.id].moved
          /\ \A d \in Clients : d # m.id => exports'[d] = exports[d]
      BY <2>2, <3>1 DEF SnapshotAnswer, TypeOK
    <3> QED
      BY <2>0, <3>1, <3>2, <3>3, BumpStays, BumpOwedStays
  <2>3. CASE Bump
    <3> SUFFICES ASSUME NEW c \in Clients, exports'[c].state \in {"read", "held"}
                 PROVE  exports'[c].moved
      BY DEF BumpIsOwed
    <3>1. exports[c] \in Snapshots
      BY SnapshotType
    <3>2. CASE exports[c].state = "read"
      <4>1. exports'[c] = [exports[c] EXCEPT !.moved = TRUE]
        BY <2>3, <3>2 DEF Bump
      <4> QED
        BY <3>1, <4>1 DEF Snapshots
    <3>3. CASE exports[c].state = "held"
      <4>1. exports'[c] = [exports[c] EXCEPT !.state = "stale"]
        BY <2>3, <3>3 DEF Bump
      <4> QED
        BY <3>1, <4>1 DEF Snapshots
    <3>4. CASE exports[c].state \notin {"read", "held"}
      <4>1. exports'[c] = exports[c]
        BY <2>3, <3>4 DEF Bump
      <4> QED
        BY <3>4, <4>1
    <3> QED
      BY <3>2, <3>3, <3>4
  <2>4. CASE /\ ReportProgress(m, rest) \/ Unheard(m, rest) \/ TaskResumes(m, rest)
             /\ ~Bump
    <3>1. m.what # "bump" /\ posted' = Tail(posted) /\ UNCHANGED exports
      BY <2>4 DEF ReportProgress, Unheard, TaskResumes
    <3> QED
      BY <2>0, <3>1, BumpStays, BumpOwedStays
  <2> QED
    BY <1>10, <2>1, <2>2, <2>3, <2>4 DEF LoopRuns, BumpGeneration
<1> QED
  BY <1>1, <1>2, <1>3, <1>4, <1>6, <1>7, <1>8, <1>9, <1>10 DEF Next, JobProceeds

-----------------------------------------------------------------------------
(* The theorems.                                                           *)

\* The inductive invariant holds in every state.
THEOREM GuardInvariant == Spec => []IInv
<1>1. Init => IInv
  BY InitType, InitJobs, InitQueue DEF IInv
<1>2. IInv /\ [Next]_vars => IInv'
  <2> SUFFICES ASSUME IInv, [Next]_vars PROVE IInv'
    OBVIOUS
  <2>1. TypeOK'
    BY TypeStep DEF IInv, JobsInv
  <2>2. JobsInv'
    BY JobsStep DEF IInv, QueueInv
  <2>3. QueueInv' /\ BumpIsOwed'
    BY QueueStep, OwedStep DEF IInv
  <2> QED
    BY <2>1, <2>2, <2>3 DEF IInv
<1> QED
  BY <1>1, <1>2, PTL DEF Spec

\* The registry, its jobs, the wire and the loop's queue keep their types.
THEOREM GuardTypeCorrect == Spec => []TypeOK
<1>1. IInv => TypeOK
  BY DEF IInv
<1> QED
  BY <1>1, GuardInvariant, PTL

\* The registry is busy exactly as long as a job is at work (OperationRegistry of
\* __init__.py), except for an operation whose service call was cancelled.
THEOREM RegistryTellsTheTruth == Spec => []BusyMeansJob
<1>1. IInv => BusyMeansJob
  BY DEF IInv, JobsInv
<1> QED
  BY <1>1, GuardInvariant, PTL

\* Nothing that asks first joins a registered job or a deploy on the hub: the
\* registry is busy while a job works, the lock is held while a deploy does.
THEOREM JobsWorkAlone == Spec => JobsAreAlone
<1> DEFINE Joins == \A new \in wire' \ wire, old \in wire : MayJoin(new, old)
<1>1. IInv /\ [Next]_vars => [Joins]_vars
  <2> SUFFICES ASSUME IInv, Next, NEW new \in wire' \ wire, NEW old \in wire
               PROVE  MayJoin(new, old)
    OBVIOUS
  <2>1. /\ ~lock => old.who # "deploy"
        /\ ~Busy => old.who # "job"
    BY DEF IInv, JobsInv, WireIsHonest, RunningIsLive, Busy
  <2>2. ASSUME NEW o \in Ops, NEW kind, Register(o, kind) PROVE MayJoin(new, old)
    BY <2>1, <2>2 DEF Register, MayJoin
  <2>3. CASE DeployStarts
    <3>1. ~lock /\ new.who = "deploy"
      BY <2>3 DEF DeployStarts, Entered
    <3> QED
      BY <2>1, <3>1 DEF MayJoin
  <2>4. ASSUME NEW who \in Unregistered, Starts(who) PROVE MayJoin(new, old)
    <3>1. new.who = who /\ MayStart(who)
      BY <2>4 DEF Starts, Entered
    <3>2. CASE who = "asks"
      BY <2>1, <3>1, <3>2 DEF MayStart, Locked, MayJoin
    <3>3. CASE who = "service"
      BY <2>1, <3>1, <3>3 DEF MayStart, MayJoin
    <3> QED
      BY <3>2, <3>3 DEF Unregistered
  <2>5. CASE \/ \E o \in Ops :
                  \/ Stash(o) \/ ClearResult(o) \/ CleanupFires(o)
                  \/ \E v \in Viewers : Subscribe(v, o)
                  \/ JobProceeds(o) \/ Progress(o) \/ WorkerClears(o) \/ Cancel(o)
             \/ \E v \in Viewers : Unsubscribe(v)
             \/ \E who \in Unregistered : Ends(who)
             \/ DeployEnds
             \/ \E c \in Clients : Export(c)
             \/ LoopRuns
    <3>1. wire' \subseteq wire
      BY <2>5 DEF Stash, ClearResult, CleanupFires, Subscribe, JobProceeds, Reject,
                  GoToWorker, WorkerReturns, WarmClears, WarmReads, WarmFails, Progress,
                  WorkerClears, Cancel, Unsubscribe, Ends, DeployEnds, Export, LoopRuns,
                  SnapshotFuture, SnapshotAnswer, ReportProgress, BumpGeneration, Unheard,
                  TaskResumes, Won, Lost, Refused, Warmed, Unwarmed, Over, Left,
                  registryVars, taskVars
    <3> QED
      BY <3>1
  <2> QED
    BY <2>2, <2>3, <2>4, <2>5 DEF Next, StartJob, SyncFromSnapshot
<1> QED
  BY <1>1, GuardInvariant, PTL DEF Spec, JobsAreAlone

\* A snapshot that sync_from_snapshot accepts is what the cache holds, unless the
\* generation moved while it was projected or the structure is cleared: a bump
\* that is still queued belongs to a job that is still registered.
THEOREM SnapshotsAreCurrent == Spec => AcceptedIsCurrent
<1> DEFINE Current == \A c \in Clients : Accepts(c) => Overtaken(c) \/ IsCache(c)
<1>1. IInv /\ [Next]_vars => [Current]_vars
  <2> SUFFICES ASSUME IInv, Next, NEW c \in Clients, Accepts(c), ~Overtaken(c)
               PROVE  IsCache(c)
    OBVIOUS
  <2>1. PICK o \in Ops, d \in Clients : SyncFromSnapshot(d, o)
    BY DEF Accepts, Next, StartJob, Stash, ClearResult, CleanupFires, Subscribe,
           JobProceeds, Reject, GoToWorker, WorkerReturns, WarmClears, WarmReads, WarmFails,
           Progress, WorkerClears, Cancel, Unsubscribe, Starts, Ends, DeployStarts,
           DeployEnds, Export, LoopRuns, SnapshotFuture, SnapshotAnswer, ReportProgress,
           BumpGeneration, Unheard, TaskResumes, registryVars, taskVars
  <2>2. c = d /\ exports[c].state = "held" /\ ~exports[c].moved
    BY <2>1 DEF SyncFromSnapshot, IsCurrent, Accepts, Overtaken, IInv, TypeOK
  <2>3. ~BumpQueued
    <3> SUFFICES ASSUME NEW i \in DOMAIN posted, posted[i].what = "bump" PROVE FALSE
      BY DEF BumpQueued
    <3>1. PICK j \in DOMAIN posted : IsOutcome(posted[j])
      BY DEF IInv, QueueInv, BumpComesFirst
    <3>2. posted[j].id \in Ops /\ stage[posted[j].id] = "back"
      BY <3>1, Addressee DEF IInv, QueueInv, OutcomesAwaited
    <3>3. Busy
      BY <3>2 DEF IInv, JobsInv, RunningIsLive, Running, Busy
    <3> QED
      BY <2>1, <3>3 DEF SyncFromSnapshot, Register
  <2> QED
    BY <2>2, <2>3 DEF IInv, BumpIsOwed, BumpQueued
<1> QED
  BY <1>1, GuardInvariant, PTL DEF Spec, AcceptedIsCurrent

-----------------------------------------------------------------------------
(* Wi-Fi events, for any number of slots, devices, events, references and   *)
(* troubles.                                                                *)

\* Names as the store keeps them, labels as the hub may show them.
Labelled  == Names \cup {We!Placeholder}
Wanted    == [Slots -> Labelled]
Labelings == [Slots -> Labelled \cup {We!Gone, We!Foreign}]
Device    == [brand : Wanted, labels : Labelings]
SlotRec   == [event : Nat, name : Labelled]
Reference == [dev : DevIds, slot : Slots, event : Nat, mark : {"held", "early", "left"}]

\* A slot has an event exactly when it has a name of its own.
RecordOK ==
  /\ DOMAIN record = {"there", "slots", "id", "hash", "names"}
  /\ record.slots \in [Slots -> SlotRec]
  /\ \A i \in Slots : /\ record.slots[i].event = We!None <=> record.slots[i].name = We!Placeholder
                      /\ record.slots[i].event <= born
  /\ record.names = We!NoNames \/ record.names \in Wanted
  /\ born \in Nat

\* References go with their device.
HubOK == DOMAIN hub = DevIds /\ \A d \in We!Live : hub[d] \in Device

RefsOK == \A r \in refs : r \in Reference /\ r.dev \in We!Live

\* What a deploy works on is there while the lock is held; a new device is beside
\* the old one until the swap.
DeployOK ==
  /\ DOMAIN deploy = {"at", "for", "names", "id", "hash", "dev", "old", "todo", "since"}
  /\ deploy.names \in Wanted /\ deploy.for \in {We!None} \cup Slots
  /\ deploy.todo \in SUBSET Slots /\ deploy.since \in Nat
  /\ deploy.at \in {"edit", "fill", "save", "cascade", "undo"} =>
       deploy.dev \in We!Live
  /\ deploy.at \in {"drop", "forget", "erase"} => We!Configured(deploy.names) = {}
  /\ deploy.at \in {"read", "create", "fill", "drop"} => deploy.old \subseteq We!Live
  /\ deploy.at = "fill" => deploy.dev \in We!Live \ deploy.old
  /\ deploy.at = "cascade" => deploy.for \in Slots
  /\ deploy.at \in {"match", "read", "create", "drop", "forget"} => deploy.dev = We!None

\* Whoever is about to take an event away was asked to, or the event is younger
\* than what was asked.
Condemns(e, since) == e \in condemned \/ e > since
LosesAll(since) == since \in Nat /\ since <= born /\ \A e \in We!Events(record) : Condemns(e, since)
DropsAll == deploy.at \in {"drop", "forget", "erase"}
            \/ (deploy.at = "match" /\ We!Configured(deploy.names) = {})

EditOK ==
  edit # We!NoEdit =>
    /\ edit.slot \in Slots /\ edit.name \in Labelled /\ edit.since \in Nat /\ edit.since <= born
    /\ edit.name = We!Placeholder =>
         LET e == record.slots[edit.slot].event IN e = We!None \/ Condemns(e, edit.since)

DeathsOK ==
  /\ DropsAll => LosesAll(deploy.since)
  /\ dropping # We!NoEdit => LosesAll(dropping.since)
  /\ EditOK

\* A held reference keeps its slot from being given to another event: the
\* snapshot of the last deploy has a name there.
HeldOK ==
  \A r \in refs : r.mark = "held" =>
    \/ deploy.at = "cascade" /\ r.dev = deploy.dev /\ r.slot = deploy.for
    \/ We!Held(r.slot) /\ record.slots[r.slot].event \in {We!None, r.event}

\* A label may differ from the brand only where the last snapshot held a name that
\* the record has given up: the deploy that changes it will write the brand, too.
Sure == We!Live \ (unsure \cup We!Unfinished)

Mix ==
  \A d \in Sure : \A i \in Slots :
    hub[d].brand[i] # We!Placeholder /\ hub[d].labels[i] # hub[d].brand[i] =>
      We!Held(i) /\ record.slots[i].name # hub[d].brand[i]

\* The record keeps what the deploy set out to write, unless it was deleted.
StillWanted ==
  deploy.at \in {"match", "read", "edit"} =>
    \/ We!Live \subseteq unsure
    \/ \A i \in Slots : We!Held(i) => record.slots[i].name \in {deploy.names[i], We!Placeholder}

\* What the deploy has written is what it wants, what is left is as deployed last.
DoneAsWanted ==
  deploy.at \in {"edit", "fill", "save", "cascade"} /\ deploy.dev \notin unsure =>
    /\ \A i \in Slots :
         (deploy.at \in {"save", "cascade"} \/ i \notin deploy.todo) =>
           hub[deploy.dev].labels[i] = deploy.names[i]
    /\ deploy.at = "edit" => record.names # We!NoNames
    /\ deploy.at = "edit" => \A i \in deploy.todo : 
         hub[deploy.dev].labels[i] \in {We!Gone, record.names[i]}

Branded2 == deploy.at \in {"fill", "save", "cascade"} => hub[deploy.dev].brand = deploy.names

BrandOK == Mix /\ StillWanted /\ DoneAsWanted /\ Branded2

\* The inductive invariant.
EInv ==
  /\ We!Numbered /\ RecordOK /\ HubOK /\ RefsOK /\ DeployOK /\ DeathsOK /\ HeldOK /\ BrandOK

-----------------------------------------------------------------------------
LEMMA NoDeviceApart == \A x \in Device : x # We!NoDevice /\ DOMAIN x = {"brand", "labels"}
<1> SUFFICES ASSUME NEW x \in Device PROVE x # We!NoDevice /\ DOMAIN x = {"brand", "labels"}
  OBVIOUS
<1>1. DOMAIN x = {"brand", "labels"}
  BY DEF Device
<1>2. DOMAIN We!NoDevice = {"brand"}
  BY DEF We!NoDevice
<1>3. "labels" \in DOMAIN x /\ "labels" \notin DOMAIN We!NoDevice
  BY <1>1, <1>2
<1> QED
  BY <1>1, <1>3

LEMMA LeastOf ==
  ASSUME NEW S \in SUBSET Nat, S # {}
  PROVE  \E n \in S : \A m \in S : n <= m
<1> DEFINE R == OpToRel(<, Nat)
<1>1. IsWellFoundedOn(R, Nat)
  BY NatLessThanWellFounded
<1>2. \A a, b \in Nat : << a, b >> \in R <=> a < b
  BY DEF OpToRel
<1> HIDE DEF R
<1>3. \E n \in S : \A m \in S : ~ (<< m, n >> \in R)
  BY <1>1, WFMin
<1>4. \A n, m \in S : n \in Nat /\ m \in Nat /\ (n <= m <=> ~ (m < n))
  OBVIOUS
<1> QED
  BY <1>2, <1>3, <1>4

LEMMA HubRests == ASSUME HubOK, hub' = hub PROVE HubOK' /\ We!Live' = We!Live
BY DEF HubOK, We!Live

LEMMA HubWritten ==
  ASSUME HubOK, NEW d \in DevIds, NEW v \in Device, hub' = [hub EXCEPT ![d] = v]
  PROVE  /\ HubOK' /\ We!Live' = We!Live \cup {d} /\ hub'[d] = v
         /\ \A c \in We!Live \ {d} : hub'[c] = hub[c]
<1>1. DOMAIN hub' = DevIds /\ hub'[d] = v /\ \A c \in DevIds \ {d} : hub'[c] = hub[c]
  BY DEF HubOK
<1>2. v # We!NoDevice
  BY NoDeviceApart
<1>3. We!Live' = We!Live \cup {d}
  BY <1>1, <1>2 DEF We!Live
<1>4. We!Live \subseteq DevIds
  BY DEF We!Live
<1> QED
  BY <1>1, <1>3, <1>4 DEF HubOK

Relabel(x, i, l) == [x EXCEPT !.labels[i] = l]

Relabels(d, i, x) == hub' = [hub EXCEPT ![d] = Relabel(hub[d], i, x)]

Relabelled(d, i, x) ==
  /\ HubOK' /\ We!Live' = We!Live /\ hub'[d].brand = hub[d].brand
  /\ hub'[d].labels[i] = x /\ \A j \in Slots \ {i} : hub'[d].labels[j] = hub[d].labels[j]
  /\ \A c \in We!Live \ {d} : hub'[c] = hub[c]

LEMMA LabelWritten ==
  ASSUME HubOK, NEW d, d \in We!Live, NEW i, i \in Slots,
         NEW x, x \in Labelled \cup {We!Gone, We!Foreign}, Relabels(d, i, x)
  PROVE  Relabelled(d, i, x)
<1> DEFINE v == Relabel(hub[d], i, x)
<1>1. hub[d] \in Device /\ d \in DevIds
  BY DEF HubOK, We!Live
<1>2. /\ v \in Device /\ v.brand = hub[d].brand /\ v.labels[i] = x
      /\ \A j \in Slots \ {i} : v.labels[j] = hub[d].labels[j]
  BY <1>1 DEF Device, Labelings, Relabel
<1>3. hub' = [hub EXCEPT ![d] = v]
  BY DEF Relabels
<1> HIDE DEF v
<1>4. /\ HubOK' /\ We!Live' = We!Live \cup {d} /\ hub'[d] = v
      /\ \A c \in We!Live \ {d} : hub'[c] = hub[c]
  BY <1>1, <1>2, <1>3, HubWritten
<1> QED
  BY <1>2, <1>4 DEF Relabelled

LEMMA Deleted ==
  ASSUME HubOK, RefsOK, NEW d \in DevIds, We!DeleteDevice(d)
  PROVE  /\ HubOK' /\ We!Live' = We!Live \ {d} /\ \A c \in We!Live \ {d} : hub'[c] = hub[c]
         /\ RefsOK' /\ refs' \subseteq refs /\ unsure' = unsure \ {d}
<1>1. /\ DOMAIN hub' = DevIds /\ hub'[d] = We!NoDevice /\ \A c \in DevIds \ {d} : hub'[c] = hub[c]
      /\ refs' = refs \ We!RefsTo(d) /\ unsure' = unsure \ {d}
  BY DEF We!DeleteDevice, HubOK
<1>2. We!Live' = We!Live \ {d} /\ We!Live \subseteq DevIds
  BY <1>1 DEF We!Live
<1>3. RefsOK'
  BY <1>1, <1>2 DEF RefsOK, We!RefsTo
<1> QED
  BY <1>1, <1>2, <1>3 DEF HubOK

LEMMA LeaveKeeps ==
  ASSUME RefsOK, NEW lost, We!Leave(lost), We!Live \subseteq We!Live'
  PROVE  RefsOK' /\ \A r \in refs' : r.mark = "held" => r \in refs /\ r \notin lost
<1>1. ASSUME NEW r \in refs'
      PROVE  r \in Reference /\ r.dev \in We!Live /\ (r.mark = "held" => r \in refs /\ r \notin lost)
  <2>1. PICK q \in refs : r = IF q \in lost /\ q.mark = "held" THEN [q EXCEPT !.mark = "left"] ELSE q
    BY DEF We!Leave
  <2>2. q \in Reference /\ q.dev \in We!Live
    BY DEF RefsOK
  <2>3. CASE q \in lost /\ q.mark = "held"
    <3>1. r = [q EXCEPT !.mark = "left"]
      BY <2>1, <2>3
    <3>2. r \in Reference /\ r.mark = "left" /\ r.dev = q.dev
      BY <2>2, <3>1 DEF Reference
    <3> QED
      BY <2>2, <3>2
  <2>4. CASE ~(q \in lost /\ q.mark = "held")
    BY <2>1, <2>2, <2>4
  <2> QED
    BY <2>3, <2>4
<1> QED
  BY <1>1 DEF RefsOK

LEMMA RecordRests == ASSUME RecordOK, record' = record, born' = born PROVE RecordOK'
BY DEF RecordOK

\* Slots only lose their events.
Shrinks ==
  \A i \in Slots :
    /\ record'.slots[i].event \in {We!None, record.slots[i].event}
    /\ record'.slots[i].name \in {We!Placeholder, record.slots[i].name}

LEMMA RestShrinks == ASSUME record'.slots = record.slots PROVE Shrinks
BY DEF Shrinks

LEMMA DeathsKept ==
  ASSUME EInv, Shrinks, born' = born, condemned \subseteq condemned',
         edit' \in {edit, We!NoEdit}, dropping' \in {dropping, We!NoEdit},
         DropsAll' => DropsAll /\ deploy'.since = deploy.since
  PROVE  DeathsOK'
<1>1. We!Events(record)' \subseteq We!Events(record)
  BY DEF We!Events, Shrinks
<1>2. EditOK'
  <2> SUFFICES ASSUME edit' # We!NoEdit PROVE EditOK'
    BY DEF EditOK
  <2>1. edit' = edit /\ edit # We!NoEdit
    OBVIOUS
  <2> QED
    BY <2>1 DEF EInv, DeathsOK, EditOK, Shrinks, Condemns
<1>3. (DropsAll => LosesAll(deploy.since))'
  <2> SUFFICES ASSUME DropsAll' PROVE LosesAll(deploy.since)'
    OBVIOUS
  <2>1. LosesAll(deploy.since) /\ deploy'.since = deploy.since
    BY DEF EInv, DeathsOK
  <2> QED
    BY <1>1, <2>1 DEF LosesAll, Condemns
<1>4. (dropping # We!NoEdit => LosesAll(dropping.since))'
  <2> SUFFICES ASSUME dropping' # We!NoEdit PROVE LosesAll(dropping.since)'
    OBVIOUS
  <2>1. LosesAll(dropping.since) /\ dropping'.since = dropping.since
    BY DEF EInv, DeathsOK
  <2> QED
    BY <1>1, <2>1 DEF LosesAll, Condemns
<1> QED
  BY <1>2, <1>3, <1>4 DEF DeathsOK

LEMMA HeldKept ==
  ASSUME EInv, Shrinks,
         \A r \in refs' : r.mark = "held" =>
            /\ r \in refs
            /\ deploy.at = "cascade" /\ r.dev = deploy.dev /\ r.slot = deploy.for =>
                 deploy'.at = "cascade" /\ deploy'.dev = deploy.dev /\ deploy'.for = deploy.for
            /\ We!Held(r.slot) => We!Held(r.slot)'
  PROVE  HeldOK'
<1> SUFFICES ASSUME NEW r \in refs', r.mark = "held"
             PROVE  \/ deploy'.at = "cascade" /\ r.dev = deploy'.dev /\ r.slot = deploy'.for
                    \/ We!Held(r.slot)' /\ record'.slots[r.slot].event \in {We!None, r.event}
  BY DEF HeldOK
<1>1. r \in refs /\ r.slot \in Slots
  BY DEF EInv, RefsOK, Reference
<1>2. \/ deploy.at = "cascade" /\ r.dev = deploy.dev /\ r.slot = deploy.for
      \/ We!Held(r.slot) /\ record.slots[r.slot].event \in {We!None, r.event}
  BY <1>1 DEF EInv, HeldOK
<1> QED
  BY <1>1, <1>2 DEF Shrinks

LEMMA MixKept ==
  ASSUME EInv, Shrinks, \A d \in Sure' : d \in Sure /\ hub'[d] = hub[d],
         Sure' = {} \/ \A i \in Slots : We!Held(i) => We!Held(i)'
  PROVE  Mix'
<1> SUFFICES ASSUME NEW d \in Sure', NEW i \in Slots,
                    hub'[d].brand[i] # We!Placeholder, hub'[d].labels[i] # hub'[d].brand[i]
             PROVE  We!Held(i)' /\ record'.slots[i].name # hub'[d].brand[i]
  BY DEF Mix
<1>1. d \in Sure /\ hub'[d] = hub[d]
  OBVIOUS
<1>2. We!Held(i) /\ record.slots[i].name # hub[d].brand[i]
  BY <1>1 DEF EInv, BrandOK, Mix
<1> QED
  BY <1>1, <1>2 DEF Shrinks

\* The deploy rests while others act.
LEMMA DeployRests ==
  ASSUME EInv, Shrinks, deploy' = deploy, We!Live' = We!Live, unsure \subseteq unsure',
         \A d \in We!Live : hub'[d].brand = hub[d].brand /\ (d \in unsure' \/ hub'[d] = hub[d]),
         We!Live \subseteq unsure' \/ (record'.names = record.names)
  PROVE  DeployOK' /\ StillWanted' /\ DoneAsWanted' /\ Branded2'
<1>1. DeployOK'
  BY DEF EInv, DeployOK, We!Configured
<1>2. StillWanted'
  BY DEF EInv, BrandOK, StillWanted, Shrinks, We!Held
<1>3. DoneAsWanted'
  <2> SUFFICES ASSUME deploy.at \in {"edit", "fill", "save", "cascade"}, deploy.dev \notin unsure'
               PROVE  DoneAsWanted'
    BY DEF DoneAsWanted
  <2>1. /\ deploy.dev \in We!Live /\ deploy.dev \notin unsure /\ hub'[deploy.dev] = hub[deploy.dev]
        /\ record'.names = record.names
    BY DEF EInv, DeployOK
  <2> QED
    BY <2>1 DEF EInv, BrandOK, DoneAsWanted
<1>4. Branded2'
  BY DEF EInv, DeployOK, BrandOK, Branded2
<1> QED
  BY <1>1, <1>2, <1>3, <1>4

LEMMA IdleOK ==
  ASSUME deploy' = We!Idle
  PROVE  /\ DeployOK' /\ StillWanted' /\ DoneAsWanted' /\ Branded2' /\ ~DropsAll'
         /\ We!Unfinished' = {}
<1>1. /\ DOMAIN We!Idle = {"at", "for", "names", "id", "hash", "dev", "old", "todo", "since"}
      /\ We!Idle.at = "idle" /\ We!Idle.names \in Wanted /\ We!Idle.for = We!None /\ We!Idle.todo = {} /\ We!Idle.since = 0
  BY DEF We!Idle, Wanted, Labelled
<1> HIDE DEF We!Idle
<1>2. DeployOK'
  BY <1>1 DEF DeployOK, We!None
<1>3. StillWanted' /\ DoneAsWanted' /\ Branded2' /\ ~DropsAll' /\ We!Unfinished' = {}
  BY <1>1 DEF StillWanted, DoneAsWanted, Branded2, DropsAll, We!Unfinished
<1> QED
  BY <1>2, <1>3

LEMMA IdleNow == ASSUME deploy = We!Idle PROVE deploy.at = "idle" /\ We!Unfinished = {}
BY DEF We!Idle, We!Unfinished

LEMMA NumberedStays == ASSUME We!Numbered PROVE We!Numbered'
BY DEF We!Numbered

LEMMA Started ==
  ASSUME EInv, deploy = We!Idle, NEW s \in {We!None} \cup Slots, We!StartDeploy(s),
         UNCHANGED <<record, hub, refs, We!editors, born, We!ghosts>>
  PROVE  EInv'
<1> DEFINE l == We!Labels(record.slots)
<1>1. l \in Wanted /\ \A i \in Slots : l[i] = record.slots[i].name
  BY DEF We!Labels, EInv, RecordOK, SlotRec, Wanted
<1> DEFINE n == IF We!Configured(l) = {} THEN born ELSE 0
<1>2. DOMAIN We!Idle = {"at", "for", "names", "id", "hash", "dev", "old", "todo", "since"}
      /\ We!Idle.todo = {} /\ We!Idle.dev = We!None /\ We!Idle.old = {}
  BY DEF We!Idle
<1>3. /\ DOMAIN deploy' = DOMAIN We!Idle
      /\ deploy'.at = "match" /\ deploy'.for = s /\ deploy'.names = l /\ deploy'.since = n
      /\ deploy'.todo = {} /\ deploy'.dev = We!None /\ deploy'.old = {}
  BY <1>2 DEF We!StartDeploy
<1>4. born \in Nat
  BY DEF EInv, RecordOK
<1>5. n \in Nat /\ n <= born /\ (We!Configured(l) = {} => n = born)
  BY <1>4
<1> HIDE DEF n
<1>6. We!Configured(l) = {} => We!Events(record) = {}
  BY <1>1 DEF We!Configured, We!Events, EInv, RecordOK
<1> HIDE DEF l
<1>7. record' = record /\ hub' = hub /\ refs' = refs /\ edit' = edit /\ dropping' = dropping
      /\ born' = born /\ condemned' = condemned /\ unsure' = unsure
  BY DEF We!editors, We!ghosts
<1>8. RecordOK' /\ HubOK' /\ We!Live' = We!Live /\ RefsOK'
  BY <1>7, RecordRests, HubRests DEF EInv, RefsOK
<1>9. DeployOK'
  BY <1>1, <1>2, <1>3, <1>5 DEF DeployOK
<1>10. Shrinks
  BY <1>7, RestShrinks
<1>11. DeathsOK'
  <2>1. EditOK'
    BY <1>7 DEF EInv, DeathsOK, EditOK, Condemns
  <2>2. LosesAll(deploy.since)' \/ ~DropsAll'
    BY <1>3, <1>4, <1>5, <1>6, <1>7 DEF LosesAll, DropsAll, We!Events
  <2>3. (dropping # We!NoEdit => LosesAll(dropping.since))'
    BY <1>7 DEF EInv, DeathsOK, LosesAll, Condemns, We!Events
  <2> QED
    BY <2>1, <2>2, <2>3 DEF DeathsOK
<1>12. HeldOK'
  <2>1. deploy.at # "cascade"
    BY IdleNow
  <2> QED
    BY <2>1, <1>7 DEF EInv, HeldOK, We!Held
<1>13. We!Unfinished' = {} /\ We!Unfinished = {}
  BY <1>3, IdleNow DEF We!Unfinished
<1>14. Mix'
  BY <1>7, <1>8, <1>13 DEF EInv, BrandOK, Mix, Sure, We!Held
<1>15. StillWanted' /\ DoneAsWanted' /\ Branded2'
  BY <1>1, <1>3, <1>7 DEF StillWanted, DoneAsWanted, Branded2
<1> QED
  BY <1>8, <1>9, <1>11, <1>12, <1>14, <1>15, NumberedStays DEF EInv, BrandOK

\* A step of the deploy that leaves the record, the hub and the references.
LEMMA DeployAlone ==
  ASSUME EInv, UNCHANGED <<record, hub, refs, We!editors, born, We!ghosts>>,
         deploy.at # "cascade", We!Unfinished' = We!Unfinished,
         DropsAll' => DropsAll /\ deploy'.since = deploy.since,
         DeployOK', StillWanted', DoneAsWanted', Branded2'
  PROVE  EInv'
<1>7. record' = record /\ hub' = hub /\ refs' = refs /\ edit' = edit /\ dropping' = dropping
      /\ born' = born /\ condemned' = condemned /\ unsure' = unsure
  BY DEF We!editors, We!ghosts
<1>8. RecordOK' /\ HubOK' /\ We!Live' = We!Live /\ RefsOK'
  BY <1>7, RecordRests, HubRests DEF EInv, RefsOK
<1>10. Shrinks
  BY <1>7, RestShrinks
<1>11. DeathsOK'
  BY <1>7, <1>10, DeathsKept
<1>12. HeldOK'
  BY <1>7 DEF EInv, HeldOK, We!Held
<1>14. Mix'
  BY <1>7, <1>8 DEF EInv, BrandOK, Mix, Sure, We!Held
<1> QED
  BY <1>8, <1>11, <1>12, <1>14, NumberedStays DEF EInv, BrandOK

LEMMA NothingMoves ==
  ASSUME EInv, UNCHANGED <<record, hub, refs, We!editors, born, We!ghosts, deploy>>
  PROVE  EInv'
<1>1. /\ record' = record /\ hub' = hub /\ refs' = refs /\ edit' = edit /\ dropping' = dropping
      /\ born' = born /\ condemned' = condemned /\ unsure' = unsure /\ deploy' = deploy
  BY DEF We!editors, We!ghosts
<1>2. RecordOK' /\ HubOK' /\ We!Live' = We!Live /\ RefsOK'
  BY <1>1, RecordRests, HubRests DEF EInv, RefsOK
<1>3. Shrinks
  BY <1>1, RestShrinks
<1>4. DeployOK' /\ StillWanted' /\ DoneAsWanted' /\ Branded2'
  BY <1>1, <1>2, <1>3, DeployRests
<1>5. DropsAll' => DropsAll
  BY <1>1 DEF DropsAll
<1>6. DeathsOK'
  BY <1>1, <1>3, <1>5, DeathsKept
<1>7. HeldOK'
  BY <1>1 DEF EInv, HeldOK, We!Held
<1>8. Mix'
  BY <1>1, <1>2 DEF EInv, BrandOK, Mix, Sure, We!Unfinished, We!Held
<1> QED
  BY <1>2, <1>4, <1>6, <1>7, <1>8, NumberedStays DEF EInv, BrandOK

LEMMA SyncKeeps == ASSUME EInv, We!Sync PROVE EInv'
BY Started DEF We!Sync

LEMMA DeleteDeploysKeeps == ASSUME EInv, NEW i \in Slots, We!DeleteDeploys(i) PROVE EInv'
<1>1. CASE deploy = We!Idle /\ record.there
  BY <1>1, Started DEF We!DeleteDeploys
<1>2. CASE ~(deploy = We!Idle /\ record.there)
  <2>1. UNCHANGED <<record, hub, refs, We!editors, born, We!ghosts, deploy>>
    BY <1>2 DEF We!DeleteDeploys
  <2> QED
    BY <2>1, NothingMoves
<1> QED
  BY <1>1, <1>2

LEMMA MatchKeeps == ASSUME EInv, We!Match PROVE EInv'
<1>1. UNCHANGED <<record, hub, refs, We!editors, born, We!ghosts>> /\ deploy.at = "match"
  BY DEF We!Match, We!deployOnly, We!editors, We!ghosts
<1>2. We!Managed \subseteq We!Live
  BY DEF We!Managed, We!Branded
<1>3. CASE deploy' = We!Idle
  <2>1. DeployOK' /\ StillWanted' /\ DoneAsWanted' /\ Branded2' /\ ~DropsAll' /\ We!Unfinished' = {}
    BY <1>3, IdleOK
  <2>2. We!Unfinished = {}
    BY <1>1 DEF We!Unfinished
  <2> QED
    BY <1>1, <2>1, <2>2, DeployAlone
<1>4. CASE deploy' # We!Idle
  <2> DEFINE x == IF We!Configured(deploy.names) = {} THEN "drop"
                  ELSE IF We!Managed = {} THEN "create" ELSE "read"
  <2>1. deploy' = [deploy EXCEPT !.old = We!Managed, !.id = We!None, !.hash = We!NoHash, !.at = x]
    BY <1>4 DEF We!Match
  <2>2. /\ DOMAIN deploy' = DOMAIN deploy
        /\ deploy'.old = We!Managed /\ deploy'.at = x /\ deploy'.for = deploy.for
        /\ deploy'.names = deploy.names /\ deploy'.dev = deploy.dev /\ deploy'.todo = deploy.todo
        /\ deploy'.since = deploy.since
    BY <2>1 DEF EInv, DeployOK
  <2>3. x \in {"drop", "create", "read"} /\ (x = "drop" <=> We!Configured(deploy.names) = {})
    OBVIOUS
  <2> HIDE DEF x
  <2>4. We!Live' = We!Live
    BY <1>1 DEF We!Live
  <2>5. DeployOK'
    BY <1>1, <1>2, <2>2, <2>3, <2>4 DEF EInv, DeployOK, We!Configured
  <2>6. We!Unfinished' = We!Unfinished
    BY <1>1, <2>2, <2>3 DEF We!Unfinished
  <2>7. DropsAll' => DropsAll /\ deploy'.since = deploy.since
    BY <1>1, <2>2, <2>3 DEF DropsAll
  <2>8. StillWanted'
    BY <1>1, <2>2, <2>3, <2>4 DEF StillWanted, EInv, BrandOK, We!Held, We!ghosts
  <2>9. DoneAsWanted' /\ Branded2'
    BY <2>2, <2>3 DEF DoneAsWanted, Branded2
  <2> QED
    BY <1>1, <2>5, <2>6, <2>7, <2>8, <2>9, DeployAlone
<1> QED
  BY <1>3, <1>4

LEMMA ReadKeeps == ASSUME EInv, We!Read PROVE EInv'
<1>1. UNCHANGED <<record, hub, refs, We!editors, born, We!ghosts>> /\ deploy.at = "read"
  BY DEF We!Read, We!deployOnly, We!editors, We!ghosts
<1>2. We!Live' = We!Live
  BY <1>1 DEF We!Live
<1>3. PICK d \in deploy.old :
       LET live == IF d \in We!Live THEN hub[d].labels ELSE [i \in Slots |-> We!Gone]
           wanted == deploy.names
           drifted == \E i \in Slots :
             live[i] \notin {We!Gone, wanted[i], record.names[i]}
           inPlace == d \in We!Live /\ record.id = d /\ record.names # We!NoNames /\ ~drifted
       IN deploy' =
            IF inPlace
            THEN [deploy EXCEPT !.at = "edit", !.dev = d,
                                !.todo = We!ToWrite(live, wanted)]
            ELSE [deploy EXCEPT !.at = "create"]
  BY DEF We!Read
<1>4. d \in We!Live /\ We!Live \subseteq DevIds
  BY <1>1 DEF EInv, DeployOK, We!Live
<1> DEFINE live == hub[d].labels
           todo == We!ToWrite(live, deploy.names)
<1>5. CASE deploy' = [deploy EXCEPT !.at = "create"]
  <2>1. /\ DOMAIN deploy' = DOMAIN deploy
        /\ deploy'.old = deploy.old /\ deploy'.at = "create" /\ deploy'.for = deploy.for
        /\ deploy'.names = deploy.names /\ deploy'.dev = deploy.dev /\ deploy'.todo = deploy.todo
        /\ deploy'.since = deploy.since
    BY <1>5 DEF EInv, DeployOK
  <2>2. DeployOK'
    BY <1>1, <1>2, <2>1 DEF EInv, DeployOK, We!Configured
  <2>3. We!Unfinished' = We!Unfinished /\ ~DropsAll'
    BY <1>1, <2>1 DEF We!Unfinished, DropsAll
  <2>4. StillWanted' /\ DoneAsWanted' /\ Branded2'
    BY <2>1 DEF StillWanted, DoneAsWanted, Branded2
  <2> QED
    BY <1>1, <2>2, <2>3, <2>4, DeployAlone
<1>6. CASE deploy' # [deploy EXCEPT !.at = "create"]
  <2>1. /\ record.names # We!NoNames
        /\ \A i \in Slots : live[i] \in {We!Gone, deploy.names[i], record.names[i]}
        /\ deploy' = [deploy EXCEPT !.at = "edit", !.dev = d, !.todo = todo]
    BY <1>3, <1>4, <1>6
  <2>2. /\ todo \subseteq Slots /\ \A i \in Slots : i \in todo <=> live[i] # deploy.names[i]
    BY DEF We!ToWrite
  <2> HIDE DEF live, todo
  <2>3. /\ DOMAIN deploy' = DOMAIN deploy
        /\ deploy'.old = deploy.old /\ deploy'.at = "edit" /\ deploy'.for = deploy.for
        /\ deploy'.names = deploy.names /\ deploy'.dev = d /\ deploy'.todo = todo
        /\ deploy'.since = deploy.since
    BY <2>1 DEF EInv, DeployOK
  <2>4. DeployOK'
    BY <1>1, <1>2, <1>4, <2>2, <2>3 DEF EInv, DeployOK, We!Configured
  <2>5. We!Unfinished' = We!Unfinished /\ ~DropsAll'
    BY <1>1, <2>3 DEF We!Unfinished, DropsAll
  <2>6. StillWanted'
    BY <1>1, <1>2, <2>3 DEF StillWanted, EInv, BrandOK, We!Held, We!ghosts
  <2>7. DoneAsWanted' /\ Branded2'
    BY <1>1, <2>1, <2>2, <2>3 DEF DoneAsWanted, Branded2, live
  <2> QED
    BY <1>1, <2>4, <2>5, <2>6, <2>7, DeployAlone
<1> QED
  BY <1>5, <1>6

LEMMA UndoFailsKeeps == ASSUME EInv, We!UndoFails PROVE EInv'
<1>1. UNCHANGED <<record, hub, refs, We!editors, born, We!ghosts>> /\ deploy.at = "undo" /\ deploy' = We!Idle
  BY DEF We!UndoFails, We!deployOnly, We!editors, We!ghosts
<1>2. DeployOK' /\ StillWanted' /\ DoneAsWanted' /\ Branded2' /\ ~DropsAll' /\ We!Unfinished' = {}
  BY <1>1, IdleOK
<1>3. We!Unfinished = {}
  BY <1>1 DEF We!Unfinished
<1> QED
  BY <1>1, <1>2, <1>3, DeployAlone

\* A step of the deploy that leaves the record, and of the references only those
\* that it says it lost.
LEMMA DeployActs ==
  ASSUME EInv, HubOK', RefsOK', DeployOK', StillWanted', DoneAsWanted', Branded2', Mix',
         UNCHANGED <<record, We!editors, born, condemned>>,
         DropsAll' => DropsAll /\ deploy'.since = deploy.since,
         \A r \in refs' : r.mark = "held" =>
            r \in refs /\ ~(deploy.at = "cascade" /\ r.dev = deploy.dev /\ r.slot = deploy.for)
  PROVE  EInv'
<1>1. record' = record /\ edit' = edit /\ dropping' = dropping /\ born' = born
      /\ condemned' = condemned
  BY DEF We!editors
<1>2. RecordOK'
  BY <1>1, RecordRests DEF EInv
<1>3. Shrinks
  BY <1>1, RestShrinks
<1>4. DeathsOK'
  BY <1>1, <1>3, DeathsKept
<1>5. HeldOK'
  BY <1>1, <1>3, HeldKept DEF We!Held
<1> QED
  BY <1>2, <1>4, <1>5, NumberedStays DEF EInv, BrandOK

LEMMA CreateHeadKeeps == ASSUME EInv, We!CreateHead PROVE EInv'
<1>1. /\ record' = record /\ UNCHANGED <<record, We!editors, born, condemned>> /\ refs' = refs
      /\ unsure' = unsure /\ deploy.at = "create"
  BY DEF We!CreateHead, We!deployOnly
<1> DEFINE v == [brand |-> deploy.names, labels |-> [i \in Slots |-> We!Gone]]
<1>2. PICK d \in DevIds \ We!Live :
        /\ hub' = [hub EXCEPT ![d] = v]
        /\ deploy' = [deploy EXCEPT !.at = "fill", !.dev = d, !.todo = Slots]
  BY DEF We!CreateHead
<1>3. v \in Device /\ v.brand = deploy.names
  BY DEF Device, Labelings, EInv, DeployOK
<1> HIDE DEF v
<1>4. /\ HubOK' /\ We!Live' = We!Live \cup {d} /\ hub'[d] = v
      /\ \A c \in We!Live \ {d} : hub'[c] = hub[c]
  BY <1>2, <1>3, HubWritten DEF EInv
<1>5. /\ DOMAIN deploy' = DOMAIN deploy
      /\ deploy'.old = deploy.old /\ deploy'.at = "fill" /\ deploy'.for = deploy.for
      /\ deploy'.names = deploy.names /\ deploy'.dev = d /\ deploy'.todo = Slots
      /\ deploy'.since = deploy.since
  BY <1>2 DEF EInv, DeployOK
<1>6. DeployOK'
  BY <1>1, <1>2, <1>4, <1>5 DEF EInv, DeployOK
<1>7. RefsOK'
  BY <1>1, <1>4 DEF EInv, RefsOK
<1>8. We!Unfinished = {} /\ (Slots # {} => We!Unfinished' = {d})
  BY <1>1, <1>4, <1>5 DEF We!Unfinished
<1>9. Mix'
  <2> SUFFICES ASSUME NEW c \in Sure', NEW i \in Slots,
                      hub'[c].brand[i] # We!Placeholder, hub'[c].labels[i] # hub'[c].brand[i]
               PROVE  We!Held(i)' /\ record'.slots[i].name # hub'[c].brand[i]
    BY DEF Mix
  <2>1. c \in We!Live /\ c # d /\ c \notin unsure
    BY <1>1, <1>4, <1>8 DEF Sure
  <2>2. c \in Sure /\ hub'[c] = hub[c]
    BY <1>4, <1>8, <2>1 DEF Sure
  <2> QED
    BY <1>1, <2>2 DEF EInv, BrandOK, Mix, We!Held
<1>10. StillWanted' /\ DoneAsWanted' /\ Branded2' /\ ~DropsAll'
  BY <1>3, <1>4, <1>5 DEF StillWanted, DoneAsWanted, Branded2, DropsAll
<1> QED
  BY <1>1, <1>4, <1>6, <1>7, <1>9, <1>10, DeployActs

LEMMA WriteCommandKeeps == ASSUME EInv, We!WriteCommand PROVE EInv'
<1>1. /\ record' = record /\ UNCHANGED <<record, We!editors, born, condemned>> /\ refs' = refs
      /\ unsure' = unsure /\ deploy.at \in {"edit", "fill"} /\ deploy.dev \in We!Live
  BY DEF We!WriteCommand, We!deployOnly
<1> DEFINE adds == {j \in deploy.todo : hub[deploy.dev].labels[j] = We!Gone}
           turn == IF adds = {} THEN deploy.todo ELSE adds
           i == CHOOSE j \in turn : \A k \in turn : j <= k
           d == deploy.dev
<1>2. /\ hub' = [hub EXCEPT ![d].labels[i] = deploy.names[i]]
      /\ deploy' = [deploy EXCEPT !.todo = @ \ {i}]
  BY DEF We!WriteCommand
<1>3. i \in deploy.todo /\ deploy.todo \subseteq Slots
  <2>1. turn # {} /\ turn \subseteq deploy.todo
    BY DEF We!WriteCommand
  <2>2. deploy.todo \subseteq Slots /\ Slots \subseteq Nat
    BY DEF EInv, DeployOK, We!Numbered
  <2>3. turn \in SUBSET Nat /\ turn # {}
    BY <2>1, <2>2
  <2> HIDE DEF turn
  <2>4. \E n \in turn : \A m \in turn : n <= m
    BY <2>3, LeastOf
  <2>5. i \in turn
    BY <2>4
  <2> QED
    BY <2>1, <2>2, <2>5
<1> HIDE DEF i, adds, turn
<1>4. deploy.names \in Wanted /\ deploy.names[i] \in Labelled
  BY <1>3 DEF EInv, DeployOK, Wanted
<1>5. /\ HubOK' /\ We!Live' = We!Live /\ hub'[d].brand = hub[d].brand
      /\ hub'[d].labels[i] = deploy.names[i]
      /\ \A j \in Slots \ {i} : hub'[d].labels[j] = hub[d].labels[j]
      /\ \A c \in We!Live \ {d} : hub'[c] = hub[c]
  <2>1. i \in Slots /\ deploy.names[i] \in Labelled \cup {We!Gone, We!Foreign} /\ HubOK /\ d \in We!Live
    BY <1>1, <1>3, <1>4 DEF EInv
  <2>2. Relabels(d, i, deploy.names[i])
    BY <1>2 DEF Relabels, Relabel
  <2> HIDE DEF d
  <2>3. Relabelled(d, i, deploy.names[i])
    BY <2>1, <2>2, LabelWritten
  <2> QED
    BY <2>3 DEF Relabelled
<1>6. /\ DOMAIN deploy' = DOMAIN deploy
      /\ deploy'.old = deploy.old /\ deploy'.at = deploy.at /\ deploy'.for = deploy.for
      /\ deploy'.names = deploy.names /\ deploy'.dev = d /\ deploy'.todo = deploy.todo \ {i}
      /\ deploy'.since = deploy.since
  BY <1>2 DEF EInv, DeployOK
<1>7. DeployOK'
  BY <1>1, <1>5, <1>6 DEF EInv, DeployOK
<1>8. RefsOK'
  BY <1>1, <1>5 DEF EInv, RefsOK
<1>9. d \notin unsure =>
        \A j \in Slots : j \notin deploy.todo \ {i} => hub'[d].labels[j] = deploy.names[j]
  BY <1>1, <1>5 DEF EInv, BrandOK, DoneAsWanted
<1>10. DoneAsWanted'
  <2>1. d \notin unsure /\ deploy.at = "edit" =>
          record.names # We!NoNames
          /\ \A j \in deploy.todo \ {i} : hub'[d].labels[j] \in {We!Gone, record.names[j]}
    BY <1>1, <1>3, <1>5 DEF EInv, BrandOK, DoneAsWanted
  <2> QED
    BY <1>1, <1>6, <1>9, <2>1 DEF DoneAsWanted
<1>11. deploy.at = "fill" => hub[d].brand = deploy.names
  BY DEF EInv, BrandOK, Branded2
<1>12. Branded2'
  BY <1>1, <1>5, <1>6, <1>11 DEF Branded2
<1>13. StillWanted'
  BY <1>1, <1>5, <1>6 DEF EInv, BrandOK, StillWanted, We!Held
<1>14. ASSUME NEW c \in Sure' PROVE c \in We!Live /\ c \notin unsure /\ (c # d => c \in Sure /\ hub'[c] = hub[c])
  BY <1>1, <1>5 DEF Sure, We!Unfinished
<1>15. Mix'
  <2> SUFFICES ASSUME NEW c \in Sure', NEW j \in Slots,
                      hub'[c].brand[j] # We!Placeholder, hub'[c].labels[j] # hub'[c].brand[j]
               PROVE  We!Held(j)' /\ record'.slots[j].name # hub'[c].brand[j]
    BY DEF Mix
  <2>1. CASE c # d
    BY <1>1, <1>14, <2>1 DEF EInv, BrandOK, Mix, We!Held
  <2>2. CASE c = d /\ deploy.at = "fill"
    <3>1. deploy.todo \ {i} = {}
      BY <1>1, <1>5, <1>6, <2>2 DEF Sure, We!Unfinished
    <3>2. hub'[d].labels[j] = deploy.names[j] /\ hub'[d].brand = deploy.names
      BY <1>5, <1>9, <1>11, <1>14, <2>2, <3>1
    <3> QED
      BY <2>2, <3>2
  <2>3. CASE c = d /\ deploy.at = "edit"
    <3>1. d \in Sure /\ d \notin unsure
      BY <1>1, <1>14, <2>3 DEF Sure, We!Unfinished
    <3>2. CASE hub[d].labels[j] # hub[d].brand[j]
      BY <1>1, <1>5, <2>3, <3>1, <3>2 DEF EInv, BrandOK, Mix, We!Held
    <3>3. CASE hub[d].labels[j] = hub[d].brand[j]
      <4>1. j = i /\ hub[d].brand[i] # deploy.names[i]
        BY <1>5, <2>3, <3>3
      <4>2. record.names # We!NoNames /\ hub[d].labels[i] \in {We!Gone, record.names[i]}
        BY <1>3, <2>3, <3>1 DEF EInv, BrandOK, DoneAsWanted
      <4>3. hub[d].brand[i] \in Labelled /\ We!Gone \notin Labelled
        <5>1. hub[d] \in Device /\ i \in Slots
          BY <1>1, <1>3 DEF EInv, HubOK
        <5> QED
          BY <5>1 DEF Device, Wanted, Labelled, EInv, We!Numbered, We!Gone, We!Placeholder
      <4>4. record.names[i] = hub[d].brand[i] /\ We!Held(i)
        BY <1>5, <2>3, <3>3, <4>1, <4>2, <4>3 DEF We!Held
      <4>5. record.slots[i].name \in {deploy.names[i], We!Placeholder}
        BY <1>1, <2>3, <3>1, <4>1, <4>4 DEF EInv, BrandOK, StillWanted
      <4> QED
        BY <1>1, <1>5, <2>3, <4>1, <4>4, <4>5 DEF We!Held
    <3> QED
      BY <3>2, <3>3
  <2> QED
    BY <1>1, <2>1, <2>2, <2>3
<1>16. DropsAll' => DropsAll /\ deploy'.since = deploy.since
  BY <1>6 DEF DropsAll
<1>17. deploy.at # "cascade"
  BY <1>1
<1> QED
  BY <1>1, <1>5, <1>7, <1>8, <1>10, <1>12, <1>13, <1>15, <1>16, <1>17, DeployActs

LEMMA WriteBrandKeeps == ASSUME EInv, We!WriteBrand PROVE EInv'
<1>1. /\ record' = record /\ UNCHANGED <<record, We!editors, born, condemned>> /\ refs' = refs
      /\ unsure' = unsure /\ deploy.at = "edit" /\ deploy.dev \in We!Live /\ deploy.todo = {}
      /\ hub' = [hub EXCEPT ![deploy.dev].brand = deploy.names]
      /\ deploy' = [deploy EXCEPT !.at = "save"]
  BY DEF We!WriteBrand, We!Committable, We!deployOnly
<1> DEFINE d == deploy.dev
           v == [hub[d] EXCEPT !.brand = deploy.names]
<1>2. hub[d] \in Device /\ d \in DevIds /\ deploy.names \in Wanted
  BY <1>1 DEF EInv, HubOK, We!Live, DeployOK
<1>3. v \in Device /\ v.brand = deploy.names /\ v.labels = hub[d].labels
  BY <1>2 DEF Device
<1>4. hub' = [hub EXCEPT ![d] = v]
  BY <1>1
<1> HIDE DEF v
<1>5. /\ HubOK' /\ We!Live' = We!Live /\ hub'[d] = v
      /\ \A c \in We!Live \ {d} : hub'[c] = hub[c]
  <2>1. HubOK /\ d \in DevIds /\ v \in Device
    BY <1>2, <1>3 DEF EInv
  <2>2. PICK e \in DevIds : e = d
    BY <2>1
  <2>3. hub' = [hub EXCEPT ![e] = v]
    BY <1>4, <2>2
  <2>4. HubOK' /\ We!Live' = We!Live \cup {e} /\ hub'[e] = v /\ \A c \in We!Live \ {e} : hub'[c] = hub[c]
    BY <2>1, <2>3, HubWritten
  <2> QED
    BY <1>1, <2>2, <2>4
<1>6. /\ DOMAIN deploy' = DOMAIN deploy
      /\ deploy'.old = deploy.old /\ deploy'.at = "save" /\ deploy'.for = deploy.for
      /\ deploy'.names = deploy.names /\ deploy'.dev = d /\ deploy'.todo = deploy.todo
      /\ deploy'.since = deploy.since
  BY <1>1 DEF EInv, DeployOK
<1>7. DeployOK'
  BY <1>1, <1>5, <1>6 DEF EInv, DeployOK
<1>8. RefsOK'
  BY <1>1, <1>5 DEF EInv, RefsOK
<1>9. d \notin unsure => \A j \in Slots : hub'[d].labels[j] = deploy.names[j]
  BY <1>1, <1>3, <1>5 DEF EInv, BrandOK, DoneAsWanted
<1>10. hub'[d].brand = deploy.names
  BY <1>3, <1>5
<1>11. DoneAsWanted' /\ Branded2' /\ StillWanted' /\ ~DropsAll'
  BY <1>1, <1>6, <1>9, <1>10 DEF DoneAsWanted, Branded2, StillWanted, DropsAll
<1>12. We!Unfinished = {} /\ We!Unfinished' = {}
  BY <1>1, <1>6 DEF We!Unfinished
<1>13. Mix'
  <2> SUFFICES ASSUME NEW c \in Sure', NEW j \in Slots,
                      hub'[c].brand[j] # We!Placeholder, hub'[c].labels[j] # hub'[c].brand[j]
               PROVE  We!Held(j)' /\ record'.slots[j].name # hub'[c].brand[j]
    BY DEF Mix
  <2>1. c \in Sure /\ c \notin unsure /\ c \in We!Live
    BY <1>1, <1>5, <1>12 DEF Sure
  <2>2. c # d
    BY <1>9, <1>10, <2>1
  <2> QED
    BY <1>1, <1>5, <2>1, <2>2 DEF EInv, BrandOK, Mix, We!Held
<1>14. deploy.at # "cascade"
  BY <1>1
<1> QED
  BY <1>1, <1>5, <1>7, <1>8, <1>11, <1>13, <1>14, DeployActs

\* Who is sure after a step whose deploy has no unfinished device.
LEMMA MixRests ==
  ASSUME EInv, UNCHANGED record, We!Unfinished' = {}, We!Live' \subseteq We!Live,
         \A c \in We!Live' : hub'[c] = hub[c] /\ (c \in unsure \cup We!Unfinished => c \in unsure')
  PROVE  Mix'
<1>1. \A c \in Sure' : c \in Sure /\ hub'[c] = hub[c]
  BY DEF Sure
<1>2. Shrinks
  BY RestShrinks
<1>3. \A i \in Slots : We!Held(i) => We!Held(i)'
  BY DEF We!Held
<1> QED
  BY <1>1, <1>2, <1>3, MixKept

LEMMA EndDrops ==
  ASSUME NEW x, deploy' = [deploy EXCEPT !.at = x], EInv
  PROVE  /\ DOMAIN deploy' = DOMAIN deploy
         /\ deploy'.old = deploy.old /\ deploy'.at = x /\ deploy'.for = deploy.for
         /\ deploy'.names = deploy.names /\ deploy'.dev = deploy.dev /\ deploy'.todo = deploy.todo
         /\ deploy'.since = deploy.since
BY DEF EInv, DeployOK

\* The old device goes, or nothing does.
LEMMA OldGoes ==
  ASSUME EInv, deploy.old \subseteq We!Live,
         \/ \E d \in deploy.old : We!DeleteDevice(d)
         \/ UNCHANGED <<hub, refs, unsure>>
  PROVE  /\ HubOK' /\ RefsOK' /\ refs' \subseteq refs
         /\ We!Live \ deploy.old \subseteq We!Live' /\ We!Live' \subseteq We!Live
         /\ \A c \in We!Live' : hub'[c] = hub[c] /\ (c \in unsure <=> c \in unsure')
<1>1. CASE \E d \in deploy.old : We!DeleteDevice(d)
  <2>1. PICK d \in deploy.old : We!DeleteDevice(d)
    BY <1>1
  <2>2. HubOK /\ RefsOK /\ d \in DevIds
    BY DEF EInv, We!Live
  <2>3. /\ HubOK' /\ We!Live' = We!Live \ {d} /\ \A c \in We!Live \ {d} : hub'[c] = hub[c]
        /\ RefsOK' /\ refs' \subseteq refs /\ unsure' = unsure \ {d}
    BY <2>1, <2>2, Deleted
  <2> QED
    BY <2>3
<1>2. CASE UNCHANGED <<hub, refs, unsure>>
  <2>1. HubOK' /\ We!Live' = We!Live /\ RefsOK'
    BY <1>2, HubRests DEF EInv, RefsOK
  <2> QED
    BY <1>2, <2>1
<1> QED
  BY <1>1, <1>2

LEMMA SwapKeeps == ASSUME EInv, We!Swap \/ We!SwapFails PROVE EInv'
<1>1. /\ UNCHANGED <<record, We!editors, born, condemned>> /\ deploy.at = "fill" /\ deploy.todo = {}
      /\ record' = record
  BY DEF We!Swap, We!SwapFails, We!Filled, We!deployOnly
<1>2. PICK x \in {"save", "undo"} : deploy' = [deploy EXCEPT !.at = x]
  BY DEF We!Swap, We!SwapFails
<1>3. /\ DOMAIN deploy' = DOMAIN deploy
      /\ deploy'.old = deploy.old /\ deploy'.at = x /\ deploy'.for = deploy.for
      /\ deploy'.names = deploy.names /\ deploy'.dev = deploy.dev /\ deploy'.todo = deploy.todo
      /\ deploy'.since = deploy.since
  BY <1>2, EndDrops
<1>4. deploy.old \subseteq We!Live /\ deploy.dev \in We!Live \ deploy.old
  BY <1>1 DEF EInv, DeployOK
<1>5. /\ HubOK' /\ RefsOK' /\ refs' \subseteq refs
      /\ We!Live \ deploy.old \subseteq We!Live' /\ We!Live' \subseteq We!Live
      /\ \A c \in We!Live' : hub'[c] = hub[c] /\ (c \in unsure <=> c \in unsure')
  <2>1. \/ \E d \in deploy.old : We!DeleteDevice(d)
        \/ UNCHANGED <<hub, refs, unsure>>
    BY DEF We!Swap, We!SwapFails
  <2> QED
    BY <1>4, <2>1, OldGoes
<1>6. deploy.dev \in We!Live'
  BY <1>4, <1>5
<1>7. DeployOK'
  BY <1>1, <1>3, <1>6 DEF EInv, DeployOK
<1>8. We!Unfinished = {} /\ We!Unfinished' = {}
  BY <1>1, <1>3 DEF We!Unfinished
<1>9. Mix'
  BY <1>1, <1>5, <1>8, MixRests
<1>10. hub'[deploy.dev] = hub[deploy.dev] /\ (deploy.dev \in unsure <=> deploy.dev \in unsure')
  BY <1>5, <1>6
<1>11. DoneAsWanted'
  BY <1>1, <1>3, <1>10 DEF EInv, BrandOK, DoneAsWanted
<1>12. StillWanted' /\ ~DropsAll'
  BY <1>3 DEF StillWanted, DropsAll
<1>13. Branded2'
  BY <1>1, <1>3, <1>10 DEF EInv, BrandOK, Branded2
<1>14. deploy.at # "cascade" /\ \A r \in refs' : r \in refs
  BY <1>1, <1>5
<1> QED
  BY <1>1, <1>5, <1>7, <1>9, <1>11, <1>12, <1>13, <1>14, DeployActs

LEMMA UndoKeeps == ASSUME EInv, We!Undo PROVE EInv'
<1>1. /\ UNCHANGED <<record, We!editors, born, condemned>> /\ deploy.at = "undo" /\ deploy' = We!Idle
      /\ record' = record /\ We!DeleteDevice(deploy.dev)
  BY DEF We!Undo, We!deployOnly
<1>2. HubOK /\ RefsOK /\ deploy.dev \in DevIds
  BY <1>1 DEF EInv, DeployOK, We!Live
<1>3. PICK d \in DevIds : d = deploy.dev
  BY <1>2
<1>4. We!DeleteDevice(d)
  BY <1>1, <1>3
<1>5. /\ HubOK' /\ We!Live' = We!Live \ {d} /\ \A c \in We!Live \ {d} : hub'[c] = hub[c]
      /\ RefsOK' /\ refs' \subseteq refs /\ unsure' = unsure \ {d}
  BY <1>2, <1>4, Deleted
<1>6. DeployOK' /\ StillWanted' /\ DoneAsWanted' /\ Branded2' /\ ~DropsAll' /\ We!Unfinished' = {}
  BY <1>1, IdleOK
<1>7. We!Unfinished = {}
  BY <1>1 DEF We!Unfinished
<1>8. Mix'
  BY <1>1, <1>5, <1>6, <1>7, MixRests
<1>9. deploy.at # "cascade" /\ \A r \in refs' : r \in refs
  BY <1>1, <1>5
<1> QED
  BY <1>1, <1>5, <1>6, <1>8, <1>9, DeployActs

LEMMA DropKeeps == ASSUME EInv, We!Drop \/ We!DropFails PROVE EInv'
<1>1. /\ UNCHANGED <<record, We!editors, born, condemned>> /\ deploy.at = "drop" /\ record' = record
      /\ deploy' = We!Idle \/ deploy' = [deploy EXCEPT !.at = "forget"]
  BY DEF We!Drop, We!DropFails, We!deployOnly
<1>2. deploy.old \subseteq We!Live
  BY <1>1 DEF EInv, DeployOK
<1>3. /\ HubOK' /\ RefsOK' /\ refs' \subseteq refs
      /\ We!Live \ deploy.old \subseteq We!Live' /\ We!Live' \subseteq We!Live
      /\ \A c \in We!Live' : hub'[c] = hub[c] /\ (c \in unsure <=> c \in unsure')
  <2>1. \/ \E d \in deploy.old : We!DeleteDevice(d)
        \/ UNCHANGED <<hub, refs, unsure>>
    BY DEF We!Drop, We!DropFails
  <2> QED
    BY <1>2, <2>1, OldGoes
<1>4. /\ DeployOK' /\ StillWanted' /\ DoneAsWanted' /\ Branded2' /\ We!Unfinished' = {}
      /\ (DropsAll' => DropsAll /\ deploy'.since = deploy.since)
  <2>1. CASE deploy' = We!Idle
    BY <2>1, IdleOK
  <2>2. CASE deploy' = [deploy EXCEPT !.at = "forget"]
    <3>1. /\ DOMAIN deploy' = DOMAIN deploy
          /\ deploy'.old = deploy.old /\ deploy'.at = "forget" /\ deploy'.for = deploy.for
          /\ deploy'.names = deploy.names /\ deploy'.dev = deploy.dev /\ deploy'.todo = deploy.todo
          /\ deploy'.since = deploy.since
      BY <2>2, EndDrops
    <3>2. DeployOK'
      BY <1>1, <3>1 DEF EInv, DeployOK, We!Configured
    <3>3. StillWanted' /\ DoneAsWanted' /\ Branded2' /\ We!Unfinished' = {} /\ DropsAll
      BY <1>1, <3>1 DEF StillWanted, DoneAsWanted, Branded2, We!Unfinished, DropsAll
    <3> QED
      BY <3>1, <3>2, <3>3
  <2> QED
    BY <1>1, <2>1, <2>2
<1>5. We!Unfinished = {}
  BY <1>1 DEF We!Unfinished
<1>6. Mix'
  BY <1>1, <1>3, <1>4, <1>5, MixRests
<1>7. deploy.at # "cascade" /\ \A r \in refs' : r \in refs
  BY <1>1, <1>3
<1> QED
  BY <1>1, <1>3, <1>4, <1>6, <1>7, DeployActs

\* The deploy ends before its end, or Home Assistant does.
LEMMA StopKeeps ==
  ASSUME EInv, UNCHANGED <<record, hub, born, condemned>>, deploy' = We!Idle,
         edit' \in {edit, We!NoEdit}, dropping' \in {dropping, We!NoEdit},
         We!Leave(IF deploy.at = "cascade" THEN We!Cascaded ELSE {}), unsure' = unsure \cup We!Unfinished
  PROVE  EInv'
<1>1. RecordOK' /\ HubOK' /\ We!Live' = We!Live
  BY RecordRests, HubRests DEF EInv
<1>2. DeployOK' /\ StillWanted' /\ DoneAsWanted' /\ Branded2' /\ ~DropsAll' /\ We!Unfinished' = {}
  BY IdleOK
<1>3. Shrinks
  BY RestShrinks
<1>4. DeathsOK'
  BY <1>2, <1>3, DeathsKept
<1> DEFINE lost == IF deploy.at = "cascade" THEN We!Cascaded ELSE {}
<1>5. RefsOK' /\ \A r \in refs' : r.mark = "held" => r \in refs /\ r \notin lost
  <2>1. RefsOK /\ We!Leave(lost) /\ We!Live \subseteq We!Live'
    BY <1>1 DEF EInv
  <2> HIDE DEF lost
  <2> QED
    BY <2>1, LeaveKeeps
<1>6. \A r \in refs' : r.mark = "held" =>
        r \in refs /\ ~(deploy.at = "cascade" /\ r.dev = deploy.dev /\ r.slot = deploy.for)
  BY <1>5 DEF We!Cascaded
<1>7. HeldOK'
  BY <1>3, <1>6, HeldKept DEF We!Held
<1>8. Mix'
  BY <1>1, <1>2, MixRests
<1> QED
  BY <1>1, <1>2, <1>4, <1>5, <1>7, <1>8, NumberedStays DEF EInv, BrandOK

LEMMA FailKeeps == ASSUME EInv, We!Fail PROVE EInv'
BY StopKeeps DEF We!Fail, We!deployOnly, We!editors

LEMMA RestartKeeps == ASSUME EInv, We!Restart PROVE EInv'
BY StopKeeps DEF We!Restart

\* The record's fields outside the slots are typed by the names alone.
LEMMA RecordSaved ==
  ASSUME EInv, born' = born, NEW x, NEW h, NEW n \in Wanted \cup {We!NoNames},
         record' = [record EXCEPT !.id = x, !.hash = h, !.names = n]
  PROVE  RecordOK' /\ record'.slots = record.slots /\ record'.names = n
<1>1. /\ DOMAIN record' = {"there", "slots", "id", "hash", "names"}
      /\ record'.slots = record.slots /\ record'.names = n
  BY DEF EInv, RecordOK
<1> QED
  BY <1>1 DEF EInv, RecordOK

LEMMA NamesThere == ASSUME NEW n \in Wanted, NEW i \in Slots PROVE n # We!NoNames
<1>1. DOMAIN n = Slots /\ DOMAIN We!NoNames = {}
  BY DEF Wanted, We!NoNames
<1> QED
  BY <1>1

LEMMA SaveKeeps == ASSUME EInv, We!Save PROVE EInv'
<1>1. /\ hub' = hub /\ We!editors' = We!editors /\ born' = born /\ condemned' = condemned
      /\ deploy.at = "save" /\ unsure' = unsure \cup We!Beside
      /\ record' = [record EXCEPT !.id = deploy.dev, !.hash = deploy.names, !.names = deploy.names]
      /\ deploy' = IF deploy.for = We!None THEN We!Idle ELSE [deploy EXCEPT !.at = "cascade"]
  BY DEF We!Save, We!deployOnly
<1>2. deploy.names \in Wanted /\ deploy.dev \in We!Live
  BY <1>1 DEF EInv, DeployOK
<1>3. RecordOK' /\ record'.slots = record.slots /\ record'.names = deploy.names
  BY <1>1, <1>2, RecordSaved
<1>4. HubOK' /\ We!Live' = We!Live
  BY <1>1, HubRests DEF EInv
<1>5. Shrinks
  BY <1>3, RestShrinks
<1>6. We!Unfinished = {} /\ DoneAsWanted /\ Branded2
  BY <1>1 DEF We!Unfinished, EInv, BrandOK
<1>7. /\ DeployOK' /\ StillWanted' /\ DoneAsWanted' /\ Branded2' /\ We!Unfinished' = {} /\ ~DropsAll'
  <2>1. CASE deploy.for = We!None
    BY <1>1, <2>1, IdleOK
  <2>2. CASE deploy.for # We!None
    <3>1. /\ DOMAIN deploy' = DOMAIN deploy
          /\ deploy'.old = deploy.old /\ deploy'.at = "cascade" /\ deploy'.for = deploy.for
          /\ deploy'.names = deploy.names /\ deploy'.dev = deploy.dev /\ deploy'.todo = deploy.todo
          /\ deploy'.since = deploy.since
      BY <1>1, <2>2, EndDrops
    <3>2. DeployOK'
      BY <1>1, <1>2, <1>4, <2>2, <3>1 DEF EInv, DeployOK
    <3>3. StillWanted' /\ We!Unfinished' = {} /\ ~DropsAll'
      BY <3>1 DEF StillWanted, We!Unfinished, DropsAll
    <3>4. DoneAsWanted'
      BY <1>1, <1>6, <3>1 DEF DoneAsWanted
    <3>5. Branded2'
      BY <1>1, <1>6, <3>1 DEF Branded2
    <3> QED
      BY <3>2, <3>3, <3>4, <3>5
  <2> QED
    BY <2>1, <2>2
<1>8. DeathsOK'
  <2>1. edit' = edit /\ dropping' = dropping
    BY <1>1 DEF We!editors
  <2> QED
    BY <1>1, <1>5, <1>7, <2>1, DeathsKept
<1> DEFINE lost == {r \in refs : deploy.names[r.slot] = We!Placeholder
                                 /\ (r.dev # deploy.dev \/ r.slot # deploy.for)}
<1>9. RefsOK' /\ \A r \in refs' : r.mark = "held" => r \in refs /\ r \notin lost
  <2>1. RefsOK /\ We!Leave(lost) /\ We!Live \subseteq We!Live'
    BY <1>4 DEF EInv, We!Save
  <2> HIDE DEF lost
  <2> QED
    BY <2>1, LeaveKeeps
<1>10. HeldOK'
  <2> SUFFICES ASSUME NEW r \in refs', r.mark = "held"
               PROVE  \/ deploy'.at = "cascade" /\ r.dev = deploy'.dev /\ r.slot = deploy'.for
                      \/ We!Held(r.slot)' /\ record'.slots[r.slot].event \in {We!None, r.event}
    BY DEF HeldOK
  <2>1. r \in refs /\ r.slot \in Slots /\ r \notin lost
    BY <1>9 DEF EInv, RefsOK, Reference
  <2>2. record.slots[r.slot].event \in {We!None, r.event}
    BY <1>1, <2>1 DEF EInv, HeldOK
  <2>3. CASE deploy.names[r.slot] # We!Placeholder
    BY <1>2, <1>3, <2>1, <2>2, <2>3, NamesThere DEF We!Held
  <2>4. CASE deploy.names[r.slot] = We!Placeholder
    <3>1. r.dev = deploy.dev /\ r.slot = deploy.for
      BY <2>1, <2>4
    <3>2. deploy.for # We!None
      BY <2>1, <3>1 DEF EInv, We!Numbered, We!None
    <3>3. deploy'.at = "cascade" /\ deploy'.dev = deploy.dev /\ deploy'.for = deploy.for
      BY <1>1, <3>2, EndDrops
    <3> QED
      BY <3>1, <3>3
  <2> QED
    BY <2>3, <2>4
<1>11. Mix'
  <2> SUFFICES ASSUME NEW d \in Sure', NEW i \in Slots,
                      hub'[d].brand[i] # We!Placeholder, hub'[d].labels[i] # hub'[d].brand[i]
               PROVE  FALSE
    BY DEF Mix
  <2>1. d = deploy.dev /\ d \notin unsure
    BY <1>1, <1>4 DEF Sure, We!Beside
  <2> QED
    BY <1>1, <1>6, <2>1 DEF DoneAsWanted, Branded2
<1> QED
  BY <1>3, <1>4, <1>7, <1>8, <1>9, <1>10, <1>11, NumberedStays DEF EInv, BrandOK

LEMMA CascadeKeeps == ASSUME EInv, We!Cascade PROVE EInv'
<1>1. /\ UNCHANGED <<record, We!editors, born, condemned>> /\ record' = record
      /\ deploy.at = "cascade" /\ deploy.dev \in We!Live /\ deploy' = We!Idle
      /\ hub' = [hub EXCEPT ![deploy.dev].labels[deploy.for] = We!Gone]
      /\ refs' = refs \ We!Cascaded
      /\ unsure' = IF deploy.names[deploy.for] = We!Placeholder THEN unsure ELSE unsure \cup {deploy.dev}
  BY DEF We!Cascade, We!deployOnly
<1> DEFINE d == deploy.dev
           f == deploy.for
<1>2. f \in Slots
  BY <1>1 DEF EInv, DeployOK
<1>3. Relabelled(d, f, We!Gone)
  <2>1. Relabels(d, f, We!Gone)
    BY <1>1 DEF Relabels, Relabel
  <2>2. HubOK /\ d \in We!Live
    BY <1>1 DEF EInv
  <2> HIDE DEF d, f
  <2> QED
    BY <1>2, <2>1, <2>2, LabelWritten
<1>4. /\ HubOK' /\ We!Live' = We!Live /\ hub'[d].brand = hub[d].brand
      /\ \A j \in Slots \ {f} : hub'[d].labels[j] = hub[d].labels[j]
      /\ \A c \in We!Live \ {d} : hub'[c] = hub[c]
  BY <1>3 DEF Relabelled
<1>5. RefsOK'
  BY <1>1, <1>4 DEF EInv, RefsOK
<1>6. DeployOK' /\ StillWanted' /\ DoneAsWanted' /\ Branded2' /\ ~DropsAll' /\ We!Unfinished' = {}
  BY <1>1, IdleOK
<1>7. We!Unfinished = {} /\ Branded2 /\ Mix
  BY <1>1 DEF We!Unfinished, EInv, BrandOK
<1>8. Mix'
  <2> SUFFICES ASSUME NEW c \in Sure', NEW i \in Slots,
                      hub'[c].brand[i] # We!Placeholder, hub'[c].labels[i] # hub'[c].brand[i]
               PROVE  We!Held(i)' /\ record'.slots[i].name # hub'[c].brand[i]
    BY DEF Mix
  <2>1. c \in Sure
    BY <1>1, <1>4, <1>6, <1>7 DEF Sure
  <2>2. hub'[c].brand = hub[c].brand /\ hub[c].labels[i] # hub[c].brand[i]
    <3>1. CASE c # d
      BY <1>4, <2>1, <3>1 DEF Sure
    <3>2. CASE c = d
      <4>1. deploy.names[f] = We!Placeholder /\ hub[d].brand = deploy.names
        BY <1>1, <1>7, <3>2 DEF Sure, Branded2
      <4>2. i # f
        BY <1>4, <3>2, <4>1
      <4> QED
        BY <1>4, <3>2, <4>2
    <3> QED
      BY <3>1, <3>2
  <2> QED
    BY <1>1, <1>7, <2>1, <2>2 DEF Mix, We!Held
<1>9. \A r \in refs' : r \in refs /\ ~(r.dev = deploy.dev /\ r.slot = deploy.for)
  BY <1>1 DEF We!Cascaded
<1> QED
  BY <1>1, <1>4, <1>5, <1>6, <1>8, <1>9, DeployActs

\* A record without names holds nothing: no device is sure of it, no reference held.
LEMMA Undone ==
  ASSUME EInv, RecordOK', Shrinks, UNCHANGED <<hub, We!editors, born, condemned>>,
         We!Leave(refs), We!Live \subseteq unsure',
         DropsAll' => DropsAll /\ deploy'.since = deploy.since,
         DeployOK', StillWanted', DoneAsWanted', Branded2'
  PROVE  EInv'
<1>1. HubOK' /\ We!Live' = We!Live
  BY HubRests DEF EInv
<1>2. edit' = edit /\ dropping' = dropping
  BY DEF We!editors
<1>3. DeathsOK'
  BY <1>2, DeathsKept
<1>4. RefsOK' /\ \A r \in refs' : r.mark # "held"
  <2>1. RefsOK /\ We!Live \subseteq We!Live'
    BY <1>1 DEF EInv
  <2> QED
    BY <2>1, LeaveKeeps
<1>5. HeldOK'
  BY <1>4 DEF HeldOK
<1>6. Mix'
  BY <1>1 DEF Mix, Sure
<1> QED
  BY <1>1, <1>3, <1>4, <1>5, <1>6, NumberedStays DEF EInv, BrandOK

LEMMA ForgetKeeps == ASSUME EInv, We!Forget PROVE EInv'
<1>1. /\ UNCHANGED <<hub, We!editors, born, condemned>>
      /\ deploy.at = "forget" /\ unsure' = unsure \cup We!Beside /\ We!Leave(refs)
      /\ record' = [record EXCEPT !.id = We!None, !.hash = We!NoHash, !.names = We!NoNames]
      /\ deploy' = IF deploy.for = We!None THEN We!Idle ELSE [deploy EXCEPT !.at = "erase"]
  BY DEF We!Forget, We!deployOnly
<1>2. RecordOK' /\ record'.slots = record.slots
  BY <1>1, RecordSaved
<1>3. Shrinks
  BY <1>2, RestShrinks
<1>4. We!Live \subseteq unsure'
  <2>1. deploy.dev = We!None /\ We!None \notin We!Live
    BY <1>1 DEF EInv, DeployOK, We!Numbered, We!Live, We!None
  <2> QED
    BY <1>1, <2>1 DEF We!Beside
<1>5. /\ DeployOK' /\ StillWanted' /\ DoneAsWanted' /\ Branded2'
      /\ (DropsAll' => DropsAll /\ deploy'.since = deploy.since)
  <2>1. CASE deploy.for = We!None
    BY <1>1, <2>1, IdleOK
  <2>2. CASE deploy.for # We!None
    <3>1. /\ DOMAIN deploy' = DOMAIN deploy
          /\ deploy'.old = deploy.old /\ deploy'.at = "erase" /\ deploy'.for = deploy.for
          /\ deploy'.names = deploy.names /\ deploy'.dev = deploy.dev /\ deploy'.todo = deploy.todo
          /\ deploy'.since = deploy.since
      BY <1>1, <2>2, EndDrops
    <3>2. DeployOK'
      BY <1>1, <2>2, <3>1 DEF EInv, DeployOK, We!Configured
    <3>3. StillWanted' /\ DoneAsWanted' /\ Branded2' /\ DropsAll
      BY <1>1, <3>1 DEF StillWanted, DoneAsWanted, Branded2, DropsAll
    <3> QED
      BY <3>1, <3>2, <3>3
  <2> QED
    BY <2>1, <2>2
<1> QED
  BY <1>1, <1>2, <1>3, <1>4, <1>5, Undone

LEMMA RecordErased ==
  ASSUME EInv, born' = born, record' = We!NoRecord
  PROVE  RecordOK' /\ Shrinks /\ \A i \in Slots : record'.slots[i].event = We!None
<1>1. /\ DOMAIN record' = {"there", "slots", "id", "hash", "names"}
      /\ record'.slots = [i \in Slots |-> We!Free] /\ record'.names = We!NoNames
  BY DEF We!NoRecord
<1>2. We!Free.event = We!None /\ We!Free.name = We!Placeholder /\ We!Free \in SlotRec
  BY DEF We!Free, SlotRec, We!None, Labelled
<1> HIDE DEF We!Free
<1>3. We!None = 0 /\ born \in Nat
  BY DEF We!None, EInv, RecordOK
<1>4. RecordOK'
  BY <1>1, <1>2, <1>3 DEF RecordOK
<1> QED
  BY <1>1, <1>2, <1>4 DEF Shrinks

LEMMA EraseKeeps == ASSUME EInv, We!Erase PROVE EInv'
<1>1. /\ UNCHANGED <<hub, We!editors, born, condemned>> /\ We!Leave(refs) /\ unsure' = We!Live
      /\ record' = We!NoRecord /\ deploy' = We!Idle
  BY DEF We!Erase, We!deployOnly
<1>2. RecordOK' /\ Shrinks
  BY <1>1, RecordErased
<1>3. DeployOK' /\ StillWanted' /\ DoneAsWanted' /\ Branded2' /\ ~DropsAll'
  BY <1>1, IdleOK
<1> QED
  BY <1>1, <1>2, <1>3, Undone

\* Handlers beside the deploy.
LEMMA Beside1 ==
  ASSUME EInv, Shrinks, RecordOK', HubOK', RefsOK', UNCHANGED <<deploy, born>>,
         edit' \in {edit, We!NoEdit}, dropping' \in {dropping, We!NoEdit},
         condemned \subseteq condemned',
         We!Live' = We!Live, unsure \subseteq unsure',
         \A d \in We!Live : hub'[d].brand = hub[d].brand /\ (d \in unsure' \/ hub'[d] = hub[d]),
         record'.names = record.names,
         \A r \in refs' : r.mark = "held" => r \in refs
  PROVE  EInv'
<1>1. DeployOK' /\ StillWanted' /\ DoneAsWanted' /\ Branded2'
  BY DeployRests
<1>2. DropsAll' => DropsAll
  BY DEF DropsAll
<1>3. DeathsOK'
  BY <1>2, DeathsKept
<1>4. HeldOK'
  BY HeldKept DEF We!Held
<1>5. Mix'
  <2>1. We!Unfinished' = We!Unfinished
    BY DEF We!Unfinished
  <2>2. \A d \in Sure' : d \in Sure /\ hub'[d] = hub[d]
    BY <2>1 DEF Sure
  <2> QED
    BY <2>2, MixKept DEF We!Held
<1> QED
  BY <1>1, <1>3, <1>4, <1>5, NumberedStays DEF EInv, BrandOK

LEMMA FreeSlot ==
  ASSUME RecordOK, NEW i \in Slots
  PROVE  record.slots[i] = We!Free <=> record.slots[i].event = We!None
<1>1. record.slots[i] \in SlotRec
  BY DEF RecordOK
<1> QED
  BY <1>1 DEF SlotRec, We!Free, RecordOK, We!None

LEMMA DeleteKeeps == ASSUME EInv, NEW i \in Slots, We!Delete(i) PROVE EInv'
<1>1. /\ UNCHANGED <<deploy, born>> /\ hub' = hub /\ refs' = refs /\ unsure' = unsure
      /\ edit' = edit /\ dropping' = dropping
      /\ record' = [record EXCEPT !.slots = We!Reset(@, i)] /\ condemned \subseteq condemned'
  BY DEF We!Delete, We!editors
<1>2. /\ DOMAIN record' = DOMAIN record /\ record'.names = record.names
      /\ record'.slots = [record.slots EXCEPT ![i] = We!Free]
  BY <1>1 DEF EInv, RecordOK, We!Reset
<1>3. We!Free.event = We!None /\ We!Free.name = We!Placeholder /\ We!Free \in SlotRec
  BY DEF We!Free, SlotRec, We!None, Labelled
<1> HIDE DEF We!Free
<1>4. record.slots \in [Slots -> SlotRec] /\ born \in Nat /\ We!None = 0
  BY DEF EInv, RecordOK, We!None
<1>5. RecordOK'
  BY <1>1, <1>2, <1>3, <1>4 DEF EInv, RecordOK
<1>6. Shrinks
  BY <1>2, <1>3, <1>4 DEF Shrinks
<1>7. HubOK' /\ We!Live' = We!Live /\ RefsOK'
  BY <1>1, HubRests DEF EInv, RefsOK
<1> QED
  BY <1>1, <1>2, <1>5, <1>6, <1>7, Beside1

LEMMA AddRefKeeps == ASSUME EInv, NEW i \in Slots, We!AddRef(i) PROVE EInv'
<1> DEFINE r == [dev |-> record.id, slot |-> i, event |-> record.slots[i].event,
                 mark |-> IF We!Held(i) THEN "held" ELSE "early"]
<1>1. /\ UNCHANGED <<record, hub, We!editors, born, We!ghosts, deploy>> /\ refs' = refs \cup {r}
      /\ record.id \in We!Live
  BY DEF We!AddRef
<1>2. /\ record' = record /\ hub' = hub /\ edit' = edit /\ dropping' = dropping
      /\ born' = born /\ condemned' = condemned /\ unsure' = unsure /\ deploy' = deploy
  BY <1>1 DEF We!editors, We!ghosts
<1>3. record.slots[i].event \in Nat /\ We!Live \subseteq DevIds
  BY DEF EInv, RecordOK, SlotRec, We!Live
<1>4. r \in Reference /\ r.dev \in We!Live /\ r.slot = i /\ r.event = record.slots[i].event
      /\ (r.mark = "held" => We!Held(i))
  BY <1>1, <1>3 DEF Reference
<1> HIDE DEF r
<1>5. RecordOK' /\ HubOK' /\ We!Live' = We!Live
  BY <1>2, RecordRests, HubRests DEF EInv
<1>6. RefsOK'
  BY <1>1, <1>4, <1>5 DEF EInv, RefsOK
<1>7. Shrinks
  BY <1>2, RestShrinks
<1>8. DeployOK' /\ StillWanted' /\ DoneAsWanted' /\ Branded2'
  BY <1>2, <1>5, <1>7, DeployRests
<1>9. DropsAll' => DropsAll
  BY <1>2 DEF DropsAll
<1>10. DeathsOK'
  BY <1>2, <1>7, <1>9, DeathsKept
<1>11. HeldOK'
  <2> SUFFICES ASSUME NEW q \in refs', q.mark = "held"
               PROVE  \/ deploy'.at = "cascade" /\ q.dev = deploy'.dev /\ q.slot = deploy'.for
                      \/ We!Held(q.slot)' /\ record'.slots[q.slot].event \in {We!None, q.event}
    BY DEF HeldOK
  <2>1. CASE q = r
    BY <1>2, <1>4, <2>1 DEF We!Held
  <2>2. CASE q \in refs
    BY <1>2, <2>2 DEF EInv, HeldOK, We!Held
  <2> QED
    BY <1>1, <2>1, <2>2
<1>12. Mix'
  BY <1>2, <1>5 DEF EInv, BrandOK, Mix, Sure, We!Unfinished, We!Held
<1> QED
  BY <1>5, <1>6, <1>8, <1>10, <1>11, <1>12, NumberedStays DEF EInv, BrandOK

LEMMA AppRenamesKeeps == ASSUME EInv, NEW d \in DevIds, NEW i \in Slots, We!AppRenames(d, i) PROVE EInv'
<1>1. /\ UNCHANGED <<deploy, born>> /\ record' = record /\ refs' = refs /\ condemned' = condemned
      /\ edit' = edit /\ dropping' = dropping /\ d \in We!Live
      /\ hub' = [hub EXCEPT ![d].labels[i] = We!Foreign] /\ unsure' = unsure \cup {d}
  BY DEF We!AppRenames, We!editors
<1>2. Relabels(d, i, We!Foreign)
  BY <1>1 DEF Relabels, Relabel
<1>3. Relabelled(d, i, We!Foreign)
  BY <1>1, <1>2, LabelWritten DEF EInv
<1>4. HubOK' /\ We!Live' = We!Live /\ hub'[d].brand = hub[d].brand /\ \A c \in We!Live \ {d} : hub'[c] = hub[c]
  BY <1>3 DEF Relabelled
<1>5. RecordOK' /\ Shrinks /\ RefsOK'
  BY <1>1, <1>4, RecordRests, RestShrinks DEF EInv, RefsOK
<1> QED
  BY <1>1, <1>4, <1>5, Beside1

LEMMA EditDeviceKeeps ==
  ASSUME EInv, NEW d \in DevIds, NEW i \in Slots, NEW name \in Labelled, We!EditDevice(d, i, name)
  PROVE  EInv'
<1> DEFINE l == IF name = We!Placeholder THEN We!Gone ELSE name
<1>1. /\ deploy' = deploy /\ deploy = We!Idle /\ born' = born /\ record' = record
      /\ condemned \subseteq condemned' /\ refs' \subseteq refs
      /\ dropping' = dropping /\ d \in We!Live
      /\ edit' = [dev |-> d, slot |-> i, name |-> name, since |-> born]
      /\ unsure' = unsure \cup {d}
      /\ hub' = [hub EXCEPT ![d].labels[i] = l]
      /\ (name = We!Placeholder => record.slots[i].event \in condemned' \cup {We!None})
  BY DEF We!EditDevice
<1>2. Relabels(d, i, l)
  BY <1>1 DEF Relabels, Relabel
<1>3. l \in Labelled \cup {We!Gone, We!Foreign}
  OBVIOUS
<1> HIDE DEF l
<1>4. Relabelled(d, i, l)
  BY <1>1, <1>2, <1>3, LabelWritten DEF EInv
<1>5. HubOK' /\ We!Live' = We!Live /\ hub'[d].brand = hub[d].brand /\ \A c \in We!Live \ {d} : hub'[c] = hub[c]
  BY <1>4 DEF Relabelled
<1>6. RecordOK' /\ Shrinks /\ RefsOK'
  BY <1>1, <1>5, RecordRests, RestShrinks DEF EInv, RefsOK
<1>7. DeployOK' /\ StillWanted' /\ DoneAsWanted' /\ Branded2' /\ ~DropsAll' /\ We!Unfinished' = {}
  BY <1>1, IdleOK
<1>8. deploy.at = "idle" /\ We!Unfinished = {}
  BY <1>1, IdleNow
<1>9. DeathsOK'
  <2>1. EditOK'
    BY <1>1 DEF EditOK, Condemns, EInv, RecordOK
  <2>2. (dropping # We!NoEdit => LosesAll(dropping.since))'
    <3> SUFFICES ASSUME dropping' # We!NoEdit PROVE LosesAll(dropping.since)'
      OBVIOUS
    <3>1. LosesAll(dropping.since) /\ dropping'.since = dropping.since
      BY <1>1 DEF EInv, DeathsOK
    <3> QED
      BY <1>1, <3>1 DEF LosesAll, Condemns, We!Events
  <2> QED
    BY <1>7, <2>1, <2>2 DEF DeathsOK
<1>10. HeldOK'
  BY <1>1, <1>6, HeldKept DEF We!Held
<1>11. \A c \in Sure' : c \in Sure /\ hub'[c] = hub[c]
  BY <1>1, <1>5, <1>7, <1>8 DEF Sure
<1>12. Mix'
  BY <1>1, <1>6, <1>11, MixKept DEF We!Held
<1> QED
  BY <1>5, <1>6, <1>7, <1>9, <1>10, <1>12, NumberedStays DEF EInv, BrandOK

LEMMA TabDeleteKeeps == ASSUME EInv, NEW d \in DevIds, We!TabDelete(d) PROVE EInv'
<1>1. /\ deploy' = deploy /\ deploy = We!Idle /\ record' = record /\ born' = born /\ edit' = edit
      /\ dropping' = [We!NoEdit EXCEPT !.dev = d, !.since = born] /\ We!DeleteDevice(d)
      /\ condemned' = condemned \cup We!Events(record)
  BY DEF We!TabDelete
<1>2. /\ HubOK' /\ We!Live' = We!Live \ {d} /\ \A c \in We!Live \ {d} : hub'[c] = hub[c]
      /\ RefsOK' /\ refs' \subseteq refs /\ unsure' = unsure \ {d}
  BY <1>1, Deleted DEF EInv
<1>3. DeployOK' /\ StillWanted' /\ DoneAsWanted' /\ Branded2' /\ ~DropsAll' /\ We!Unfinished' = {}
  BY <1>1, IdleOK
<1>4. deploy.at = "idle" /\ We!Unfinished = {}
  BY <1>1, IdleNow
<1>5. RecordOK' /\ Shrinks
  BY <1>1, RecordRests, RestShrinks DEF EInv
<1>6. DeathsOK'
  <2>1. EditOK'
    BY <1>1 DEF EInv, DeathsOK, EditOK, Condemns
  <2>2. dropping'.since = born /\ born \in Nat
    BY <1>1 DEF We!NoEdit, EInv, RecordOK
  <2>3. LosesAll(dropping.since)'
    BY <1>1, <2>2 DEF LosesAll, Condemns, We!Events
  <2> QED
    BY <1>3, <2>1, <2>3 DEF DeathsOK
<1>7. HeldOK'
  BY <1>1, <1>2, <1>5, HeldKept DEF We!Held
<1>8. Mix'
  BY <1>1, <1>2, <1>3, <1>4, MixRests
<1> QED
  BY <1>2, <1>3, <1>5, <1>6, <1>7, <1>8, NumberedStays DEF EInv, BrandOK

LEMMA CreateKeeps == ASSUME EInv, NEW name \in Names, We!Create(name) PROVE EInv'
<1> DEFINE i == CHOOSE j \in We!Allocatable : \A k \in We!Allocatable : j <= k
           s == [event |-> born + 1, name |-> name]
<1>1. /\ hub' = hub /\ refs' = refs /\ deploy' = deploy /\ edit' = edit /\ dropping' = dropping
      /\ condemned' = condemned /\ unsure' = unsure /\ born' = born + 1
      /\ record' = [record EXCEPT !.there = TRUE, !.slots[i] = s]
  BY DEF We!Create, We!editors, We!ghosts
<1>2. i \in Slots /\ record.slots[i] = We!Free /\ ~We!Held(i)
  <2>1. We!Allocatable # {} /\ We!Allocatable \subseteq Slots
    BY DEF We!Create, We!Allocatable
  <2>2. We!Allocatable \in SUBSET Nat
    BY <2>1 DEF EInv, We!Numbered
  <2>3. \E n \in We!Allocatable : \A m \in We!Allocatable : n <= m
    BY <2>1, <2>2, LeastOf
  <2>4. i \in We!Allocatable
    BY <2>3
  <2> QED
    BY <2>4 DEF We!Allocatable
<1> HIDE DEF i
<1>3. /\ DOMAIN record' = DOMAIN record /\ record'.names = record.names
      /\ record'.slots = [record.slots EXCEPT ![i] = s]
  BY <1>1 DEF EInv, RecordOK
<1>4. born \in Nat /\ record.slots \in [Slots -> SlotRec] /\ We!None = 0
  BY DEF EInv, RecordOK, We!None
<1>5. s.event = born + 1 /\ s.name = name /\ s \in SlotRec /\ name # We!Placeholder
  BY <1>4 DEF SlotRec, Labelled, EInv, We!Numbered
<1> HIDE DEF s
<1>6. record'.slots[i] = s /\ \A j \in Slots \ {i} : record'.slots[j] = record.slots[j]
  BY <1>2, <1>3, <1>4
<1>7. RecordOK'
  <2>1. record'.slots \in [Slots -> SlotRec]
    BY <1>3, <1>4, <1>5
  <2>2. ASSUME NEW j \in Slots
        PROVE  /\ record'.slots[j].event = We!None <=> record'.slots[j].name = We!Placeholder
               /\ record'.slots[j].event <= born'
    <3>1. CASE j = i
      BY <1>1, <1>4, <1>5, <1>6, <3>1
    <3>2. CASE j # i
      <4>1. record.slots[j].event \in Nat /\ record.slots[j].event <= born
        BY <1>4 DEF EInv, RecordOK, SlotRec
      <4> QED
        BY <1>1, <1>4, <1>6, <3>2, <4>1 DEF EInv, RecordOK
    <3> QED
      BY <3>1, <3>2
  <2> QED
    BY <1>1, <1>3, <1>4, <2>1, <2>2 DEF EInv, RecordOK
<1>8. HubOK' /\ We!Live' = We!Live /\ RefsOK'
  BY <1>1, HubRests DEF EInv, RefsOK
<1>9. DeployOK'
  BY <1>1, <1>8 DEF EInv, DeployOK, We!Configured
<1>10. ASSUME NEW e \in We!Events(record)' PROVE e \in We!Events(record) \/ e = born + 1
  BY <1>5, <1>6 DEF We!Events
<1>11. ASSUME NEW n, LosesAll(n) PROVE n <= born' /\ \A e \in We!Events(record)' : Condemns(e, n)
  BY <1>1, <1>4, <1>10, <1>11 DEF LosesAll, Condemns
<1>12. DeathsOK'
  <2>1. (DropsAll => LosesAll(deploy.since))'
    BY <1>1, <1>11 DEF EInv, DeathsOK, DropsAll, We!Configured, LosesAll, Condemns
  <2>2. (dropping # We!NoEdit => LosesAll(dropping.since))'
    BY <1>1, <1>11 DEF EInv, DeathsOK, LosesAll, Condemns
  <2>3. EditOK'
    BY <1>1, <1>4, <1>5, <1>6 DEF EInv, DeathsOK, EditOK, Condemns
  <2> QED
    BY <2>1, <2>2, <2>3 DEF DeathsOK
<1>13. \A j \in Slots : We!Held(j)' <=> We!Held(j)
  BY <1>3 DEF We!Held
<1>14. HeldOK'
  <2> SUFFICES ASSUME NEW r \in refs', r.mark = "held"
               PROVE  \/ deploy'.at = "cascade" /\ r.dev = deploy'.dev /\ r.slot = deploy'.for
                      \/ We!Held(r.slot)' /\ record'.slots[r.slot].event \in {We!None, r.event}
    BY DEF HeldOK
  <2>1. r \in refs /\ r.slot \in Slots
    BY <1>1 DEF EInv, RefsOK, Reference
  <2> QED
    BY <1>1, <1>2, <1>6, <1>13, <2>1 DEF EInv, HeldOK
<1>15. Mix'
  <2> SUFFICES ASSUME NEW d \in Sure', NEW j \in Slots,
                      hub'[d].brand[j] # We!Placeholder, hub'[d].labels[j] # hub'[d].brand[j]
               PROVE  We!Held(j)' /\ record'.slots[j].name # hub'[d].brand[j]
    BY DEF Mix
  <2>1. d \in Sure /\ hub'[d] = hub[d]
    BY <1>1, <1>8 DEF Sure, We!Unfinished
  <2>2. We!Held(j) /\ record.slots[j].name # hub[d].brand[j]
    BY <2>1 DEF EInv, BrandOK, Mix
  <2> QED
    BY <1>2, <1>6, <1>13, <2>1, <2>2
<1>16. StillWanted'
  BY <1>1, <1>2, <1>6, <1>8, <1>13 DEF EInv, BrandOK, StillWanted
<1>17. DoneAsWanted' /\ Branded2'
  BY <1>1, <1>3 DEF EInv, BrandOK, DoneAsWanted, Branded2
<1> QED
  BY <1>7, <1>8, <1>9, <1>12, <1>14, <1>15, <1>16, <1>17, NumberedStays DEF EInv, BrandOK

\* The record changes in a way nobody is sure of: all devices are unsure.
LEMMA AllUnsure ==
  ASSUME EInv, RecordOK', RefsOK', UNCHANGED <<hub, deploy, born, condemned>>,
         \A i \in Slots : record'.slots[i].event \in {We!None, record.slots[i].event},
         We!Live \subseteq unsure',
         edit' \in {edit, We!NoEdit}, dropping' \in {dropping, We!NoEdit},
         \A r \in refs' : r.mark = "held" => r \in refs /\ (We!Held(r.slot) => We!Held(r.slot)')
  PROVE  EInv'
<1>1. HubOK' /\ We!Live' = We!Live
  BY HubRests DEF EInv
<1>2. DeployOK'
  BY <1>1 DEF EInv, DeployOK, We!Configured
<1>3. deploy.at \in {"edit", "fill", "save", "cascade"} => deploy.dev \in unsure'
  BY DEF EInv, DeployOK
<1>4. StillWanted' /\ DoneAsWanted'
  BY <1>1, <1>3 DEF StillWanted, DoneAsWanted
<1>5. Branded2' /\ Mix'
  BY <1>1 DEF EInv, BrandOK, Branded2, Mix, Sure
<1>6. We!Events(record)' \subseteq We!Events(record)
  BY DEF We!Events
<1>7. DeathsOK'
  <2>1. (DropsAll => LosesAll(deploy.since))'
    BY <1>6 DEF EInv, DeathsOK, DropsAll, We!Configured, LosesAll, Condemns
  <2>2. (dropping # We!NoEdit => LosesAll(dropping.since))'
    <3> SUFFICES ASSUME dropping' # We!NoEdit PROVE LosesAll(dropping.since)'
      OBVIOUS
    <3>1. LosesAll(dropping.since) /\ dropping'.since = dropping.since
      BY DEF EInv, DeathsOK
    <3> QED
      BY <1>6, <3>1 DEF LosesAll, Condemns
  <2>3. EditOK'
    <3> SUFFICES ASSUME edit' # We!NoEdit PROVE EditOK'
      BY DEF EditOK
    <3>1. edit' = edit /\ edit # We!NoEdit
      OBVIOUS
    <3> QED
      BY <3>1 DEF EInv, DeathsOK, EditOK, Condemns
  <2> QED
    BY <2>1, <2>2, <2>3 DEF DeathsOK
<1>8. HeldOK'
  <2> SUFFICES ASSUME NEW r \in refs', r.mark = "held"
               PROVE  \/ deploy'.at = "cascade" /\ r.dev = deploy'.dev /\ r.slot = deploy'.for
                      \/ We!Held(r.slot)' /\ record'.slots[r.slot].event \in {We!None, r.event}
    BY DEF HeldOK
  <2>1. r \in refs /\ r.slot \in Slots
    BY DEF EInv, RefsOK, Reference
  <2> QED
    BY <2>1 DEF EInv, HeldOK
<1> QED
  BY <1>1, <1>2, <1>4, <1>5, <1>7, <1>8, NumberedStays DEF EInv, BrandOK

LEMMA EditFollowsKeeps == ASSUME EInv, We!EditFollows PROVE EInv'
<1> DEFINE i == edit.slot
           n == edit.name
           named == record.names # We!NoNames /\ record.names[i] # n
           slots == IF n = We!Placeholder THEN We!Reset(record.slots, i)
                    ELSE [record.slots EXCEPT ![i].name = n]
           ignored == n # We!Placeholder /\ record.slots[i] = We!Free
           rests == ~record.there \/ ignored \/ (slots = record.slots /\ ~named)
           lost == IF n = We!Placeholder THEN {r \in refs : r.slot = i} ELSE {}
<1>1. /\ UNCHANGED <<hub, deploy, born, condemned>> /\ edit # We!NoEdit /\ edit' = We!NoEdit
      /\ dropping' = dropping /\ unsure' = We!Live /\ We!Leave(lost)
      /\ hub' = hub /\ born' = born
      /\ record' = IF rests THEN record
                   ELSE [record EXCEPT
                           !.slots = slots,
                           !.names = IF named THEN [@ EXCEPT ![i] = n] ELSE @,
                           !.hash = IF @ = We!NoHash THEN We!NoHash ELSE We!Labels(slots)]
  BY DEF We!EditFollows, We!Followed
<1>2. i \in Slots /\ n \in Labelled
  BY <1>1 DEF EInv, DeathsOK, EditOK
<1>3. RefsOK' /\ \A r \in refs' : r.mark = "held" => r \in refs /\ r \notin lost
  <2>1. We!Live' = We!Live /\ RefsOK
    BY <1>1, HubRests DEF EInv
  <2> HIDE DEF lost
  <2> QED
    BY <1>1, <2>1, LeaveKeeps
<1>4. record.slots \in [Slots -> SlotRec] /\ (record.names = We!NoNames \/ record.names \in Wanted)
      /\ DOMAIN record = {"there", "slots", "id", "hash", "names"} /\ born \in Nat
      /\ \A j \in Slots : /\ record.slots[j].event = We!None <=> record.slots[j].name = We!Placeholder
                          /\ record.slots[j].event <= born
  BY DEF EInv, RecordOK
<1>5. CASE rests
  <2>1. record' = record
    BY <1>1, <1>5
  <2>2. RecordOK'
    BY <1>1, <2>1, RecordRests DEF EInv
  <2>3. \A r : We!Held(r) => We!Held(r)'
    BY <2>1 DEF We!Held
  <2> QED
    BY <1>1, <1>3, <2>1, <2>2, <2>3, AllUnsure
<1>6. CASE ~rests
  <2>1. /\ DOMAIN record' = DOMAIN record /\ record'.slots = slots
        /\ record'.names = IF named THEN [record.names EXCEPT ![i] = n] ELSE record.names
    BY <1>1, <1>4, <1>6
  <2>2. /\ slots \in [Slots -> SlotRec]
        /\ \A j \in Slots \ {i} : slots[j] = record.slots[j]
        /\ slots[i].event \in {We!None, record.slots[i].event}
        /\ slots[i].event = We!None <=> slots[i].name = We!Placeholder
    <3>1. CASE n = We!Placeholder
      <4>1. We!Free.event = We!None /\ We!Free.name = We!Placeholder /\ We!Free \in SlotRec
        BY DEF We!Free, SlotRec, We!None, Labelled
      <4> HIDE DEF We!Free
      <4>2. slots = [record.slots EXCEPT ![i] = We!Free]
        BY <3>1 DEF We!Reset
      <4> QED
        BY <1>2, <1>4, <4>1, <4>2
    <3>2. CASE n # We!Placeholder
      <4>1. record.slots[i] # We!Free
        BY <1>6, <3>2
      <4>2. record.slots[i].event # We!None
        BY <1>2, <4>1, FreeSlot DEF EInv
      <4> DEFINE t == [record.slots[i] EXCEPT !.name = n]
      <4>3. t \in SlotRec /\ t.name = n /\ t.event = record.slots[i].event
        BY <1>2, <1>4 DEF SlotRec
      <4>4. slots = [record.slots EXCEPT ![i] = t]
        BY <3>2
      <4> HIDE DEF t
      <4> QED
        BY <1>2, <1>4, <3>2, <4>2, <4>3, <4>4
    <3> QED
      BY <3>1, <3>2
  <2>3. record'.names = We!NoNames \/ record'.names \in Wanted
    BY <1>2, <1>4, <2>1 DEF Wanted
  <2>4. We!None = 0
    BY DEF We!None
  <2> HIDE DEF slots
  <2>5. RecordOK'
    BY <1>1, <1>2, <1>4, <2>1, <2>2, <2>3, <2>4 DEF RecordOK
  <2>6. \A j \in Slots : record'.slots[j].event \in {We!None, record.slots[j].event}
    BY <2>1, <2>2
  <2>7. ASSUME NEW j \in Slots, We!Held(j), j # i \/ n # We!Placeholder PROVE We!Held(j)'
    <3>1. record.names \in Wanted /\ record.names # We!NoNames /\ record.names[j] # We!Placeholder
      BY <1>4, <2>7 DEF We!Held
    <3>2. record'.names \in Wanted
      BY <1>2, <2>1, <3>1 DEF Wanted
    <3>3. record'.names # We!NoNames
      BY <3>2, NamesThere
    <3>4. record'.names[j] # We!Placeholder
      BY <1>2, <2>1, <2>7, <3>1 DEF Wanted
    <3> QED
      BY <3>3, <3>4 DEF We!Held
  <2>8. ASSUME NEW r \in refs', r.mark = "held"
        PROVE  r \in refs /\ (We!Held(r.slot) => We!Held(r.slot)')
    <3>1. r \in refs /\ r \notin lost /\ r.slot \in Slots
      BY <1>3, <2>8 DEF EInv, RefsOK, Reference
    <3> QED
      BY <2>7, <3>1
  <2> QED
    BY <1>1, <1>3, <2>5, <2>6, <2>8, AllUnsure
<1> QED
  BY <1>5, <1>6

LEMMA TabDropsKeeps == ASSUME EInv, We!TabDrops PROVE EInv'
<1>1. CASE record.id = dropping.dev
  <2>1. /\ UNCHANGED <<hub, deploy, born, condemned>> /\ hub' = hub /\ born' = born
        /\ edit' = edit /\ dropping' = We!NoEdit /\ record' = We!NoRecord
        /\ We!Leave(refs) /\ unsure' = We!Live
    BY <1>1 DEF We!TabDrops
  <2>2. RecordOK' /\ \A i \in Slots : record'.slots[i].event = We!None
    BY <2>1, RecordErased
  <2>3. RefsOK' /\ \A r \in refs' : r.mark # "held"
    <3>1. We!Live' = We!Live /\ RefsOK
      BY <2>1, HubRests DEF EInv
    <3> QED
      BY <2>1, <3>1, LeaveKeeps
  <2> QED
    BY <2>1, <2>2, <2>3, AllUnsure
<1>2. CASE record.id # dropping.dev
  <2>1. /\ UNCHANGED <<deploy, born>> /\ hub' = hub /\ record' = record /\ refs' = refs
        /\ unsure' = unsure /\ condemned' = condemned /\ edit' = edit /\ dropping' = We!NoEdit
    BY <1>2 DEF We!TabDrops
  <2>2. HubOK' /\ We!Live' = We!Live /\ RefsOK' /\ RecordOK' /\ Shrinks
    BY <2>1, HubRests, RecordRests, RestShrinks DEF EInv, RefsOK
  <2> QED
    BY <2>1, <2>2, Beside1
<1> QED
  BY <1>1, <1>2

LEMMA ReconcileKeeps == ASSUME EInv, We!Reconcile PROVE EInv'
<1>1. /\ UNCHANGED <<deploy, born>> /\ hub' = hub /\ refs' = refs /\ edit' = edit
      /\ dropping' = dropping /\ condemned' = condemned /\ unsure' = unsure /\ born' = born
      /\ deploy' = deploy
  BY DEF We!Reconcile, We!editors, We!ghosts
<1>2. HubOK' /\ We!Live' = We!Live /\ RefsOK'
  BY <1>1, HubRests DEF EInv, RefsOK
<1>3. CASE We!Live = {}
  <2>1. record' = [record EXCEPT !.id = We!None, !.hash = We!NoHash, !.names = We!NoNames]
    BY <1>3 DEF We!Reconcile
  <2>2. RecordOK' /\ record'.slots = record.slots
    BY <1>1, <2>1, RecordSaved
  <2>3. refs' = {}
    BY <1>1, <1>3 DEF EInv, RefsOK
  <2> QED
    BY <1>1, <1>2, <1>3, <2>2, <2>3, AllUnsure
<1>4. CASE We!Live # {}
  <2>1. PICK d \in We!Live : record' = [record EXCEPT !.id = d, !.hash = hub[d].brand]
    BY <1>4 DEF We!Reconcile
  <2>2. /\ DOMAIN record' = DOMAIN record /\ record'.slots = record.slots
        /\ record'.names = record.names
    BY <2>1 DEF EInv, RecordOK
  <2>3. RecordOK'
    BY <1>1, <2>2 DEF EInv, RecordOK
  <2>4. Shrinks
    BY <2>2, RestShrinks
  <2> QED
    BY <1>1, <1>2, <2>2, <2>3, <2>4, Beside1
<1> QED
  BY <1>3, <1>4

-----------------------------------------------------------------------------
LEMMA InitEvents == We!Numbered /\ We!Init => EInv
<1> SUFFICES ASSUME We!Numbered, We!Init PROVE EInv
  OBVIOUS
<1>1. /\ record = We!NoRecord /\ hub = [d \in DevIds |-> We!NoDevice] /\ refs = {} /\ born = 0
      /\ deploy = We!Idle /\ edit = We!NoEdit /\ dropping = We!NoEdit /\ unsure = {}
  BY DEF We!Init
<1>2. /\ DOMAIN record = {"there", "slots", "id", "hash", "names"}
      /\ record.slots = [i \in Slots |-> We!Free] /\ record.names = We!NoNames
  BY <1>1 DEF We!NoRecord
<1>3. We!Free.event = We!None /\ We!Free.name = We!Placeholder /\ We!Free \in SlotRec /\ We!None = 0
  BY DEF We!Free, SlotRec, We!None, Labelled
<1> HIDE DEF We!Free
<1>4. RecordOK
  BY <1>1, <1>2, <1>3 DEF RecordOK
<1>5. We!Live = {}
  BY <1>1 DEF We!Live
<1>6. HubOK /\ RefsOK /\ HeldOK
  BY <1>1, <1>5 DEF HubOK, RefsOK, HeldOK
<1>7. /\ DOMAIN We!Idle = {"at", "for", "names", "id", "hash", "dev", "old", "todo", "since"}
      /\ We!Idle.at = "idle" /\ We!Idle.names \in Wanted /\ We!Idle.for = We!None /\ We!Idle.todo = {} /\ We!Idle.since = 0
  BY DEF We!Idle, Wanted, Labelled
<1> HIDE DEF We!Idle
<1>8. DeployOK
  BY <1>1, <1>3, <1>7 DEF DeployOK
<1>9. DeathsOK
  BY <1>1, <1>7 DEF DeathsOK, DropsAll, EditOK
<1>10. BrandOK
  BY <1>1, <1>5, <1>7 DEF BrandOK, Mix, Sure, StillWanted, DoneAsWanted, Branded2
<1> QED
  BY <1>4, <1>6, <1>8, <1>9, <1>10 DEF EInv

LEMMA EventsStep == EInv /\ [We!Next]_(We!vars) => EInv'
<1> SUFFICES ASSUME EInv, [We!Next]_(We!vars) PROVE EInv'
  OBVIOUS
<1>1. CASE We!Handlers
  <2>1. ASSUME NEW name \in Names, We!Create(name) PROVE EInv'
    BY <2>1, CreateKeeps
  <2>2. ASSUME NEW i \in Slots, We!Delete(i) \/ We!DeleteDeploys(i) \/ We!AddRef(i) PROVE EInv'
    BY <2>2, DeleteKeeps, DeleteDeploysKeeps, AddRefKeeps
  <2> QED
    BY <1>1, <2>1, <2>2, SyncKeeps DEF We!Handlers
<1>2. CASE We!Deploy
  BY <1>2, MatchKeeps, ReadKeeps, CreateHeadKeeps, WriteCommandKeeps, WriteBrandKeeps, SwapKeeps,
     UndoKeeps, UndoFailsKeeps, SaveKeeps, CascadeKeeps, DropKeeps, ForgetKeeps, EraseKeeps,
     FailKeeps DEF We!Deploy
<1>3. CASE We!HubTab
  <2>1. ASSUME NEW d \in DevIds, NEW i \in Slots, NEW name \in Names \cup {We!Placeholder},
               We!EditDevice(d, i, name)
        PROVE  EInv'
    BY <2>1, EditDeviceKeeps DEF Labelled
  <2>2. ASSUME NEW d \in DevIds, We!TabDelete(d) PROVE EInv'
    BY <2>2, TabDeleteKeeps
  <2> QED
    BY <1>3, <2>1, <2>2, EditFollowsKeeps, TabDropsKeeps DEF We!HubTab
<1>4. CASE We!Outside
  BY <1>4, ReconcileKeeps, AppRenamesKeeps, RestartKeeps DEF We!Outside
<1>5. CASE UNCHANGED We!vars
  BY <1>5, NothingMoves DEF We!vars, We!editors, We!ghosts
<1> QED
  BY <1>1, <1>2, <1>3, <1>4, <1>5 DEF We!Next

-----------------------------------------------------------------------------
\* The invariant the properties follow from, in every reachable state of the
\* record, the hub and the handlers.
THEOREM EventsInvariant == We!Spec => []EInv
<1>1. We!Init => EInv
  BY InitEvents, SlotsAreNumbered
<1>2. EInv /\ [We!Next]_(We!vars) => EInv'
  BY EventsStep
<1> QED
  BY <1>1, <1>2, PTL DEF We!Spec

LEMMA RefsFire == EInv => We!RefsFireTheirEvent
<1> SUFFICES ASSUME EInv, NEW r \in refs, r.mark = "held"
             PROVE  We!Fires(r) \in {We!None, r.event} \/ (deploy.at = "cascade" /\ r \in We!Cascaded)
  BY DEF We!RefsFireTheirEvent
<1> QED
  BY DEF EInv, HeldOK, We!Fires, We!Cascaded

LEMMA BrandEarned == EInv => We!BrandIsEarned
<1> SUFFICES ASSUME EInv, NEW d \in Sure, hub[d].brand = We!Labels(record.slots),
                    NEW i \in We!Configured(We!Labels(record.slots))
             PROVE  hub[d].labels[i] = record.slots[i].name
  BY DEF We!BrandIsEarned, Sure
<1>1. i \in Slots /\ hub[d].brand[i] = record.slots[i].name /\ hub[d].brand[i] # We!Placeholder
  BY DEF We!Labels, We!Configured
<1> QED
  BY <1>1 DEF EInv, BrandOK, Mix

\* Whatever deploys fail, are restarted or cross, a reference made while the guard
\* held its slot fires its own event or nothing (async_allocate_wifi_event).
THEOREM ReferencesFireTheirs == We!Spec => []RefsFireTheirEvent
BY EventsInvariant, RefsFire, PTL DEF RefsFireTheirEvent

\* A device branded with the record's hash carries the record, so that a sync that
\* stopped half way is offered again (wifi_events_record_state).
THEOREM BrandsAreEarned == We!Spec => []BrandIsEarned
BY EventsInvariant, BrandEarned, PTL DEF BrandIsEarned

\* The events that a step takes from the record had been given up.
NoneLost == \A e \in We!Events(record) \ We!Events(record)' : We!DiedByDeletion(e) \/ e \in condemned'

LEMMA SlotsStay == ASSUME record'.slots = record.slots PROVE NoneLost
BY DEF NoneLost, We!Events

LEMMA CreateLoses == ASSUME EInv, NEW name \in Names, We!Create(name) PROVE NoneLost
<1>1. PICK i \in Slots :
         /\ record.slots[i] = We!Free
         /\ record' = [record EXCEPT !.there = TRUE,
                                     !.slots[i] = [event |-> born + 1, name |-> name]]
  <2> DEFINE i == CHOOSE j \in We!Allocatable : \A k \in We!Allocatable : j <= k
  <2>1. We!Allocatable \in SUBSET Nat /\ We!Allocatable # {}
    BY DEF We!Create, We!Allocatable, EInv, We!Numbered
  <2>2. \E j \in We!Allocatable : \A k \in We!Allocatable : j <= k
    BY <2>1, LeastOf
  <2>3. i \in We!Allocatable
    BY <2>2
  <2>4. record' = [record EXCEPT !.there = TRUE,
                                 !.slots[i] = [event |-> born + 1, name |-> name]]
    BY DEF We!Create
  <2> QED
    BY <2>3, <2>4 DEF We!Allocatable
<1> DEFINE s == [event |-> born + 1, name |-> name]
<1>2. record.slots \in [Slots -> SlotRec] /\ DOMAIN record = {"there", "slots", "id", "hash", "names"}
  BY DEF EInv, RecordOK
<1>3. record.slots[i].event = We!None
  BY <1>1 DEF We!Free
<1> HIDE DEF s
<1>4. record'.slots = [record.slots EXCEPT ![i] = s]
  BY <1>1, <1>2 DEF s
<1>5. \A j \in Slots : record.slots[j].event # We!None => record'.slots[j] = record.slots[j]
  BY <1>2, <1>3, <1>4
<1>6. We!Events(record) \subseteq We!Events(record)'
  BY <1>5 DEF We!Events
<1> QED
  BY <1>6 DEF NoneLost

LEMMA DeleteLoses == ASSUME EInv, NEW i \in Slots, We!Delete(i) PROVE NoneLost
<1>1. record' = [record EXCEPT !.slots = We!Reset(@, i)]
      /\ condemned' = condemned \cup {record.slots[i].event}
  BY DEF We!Delete
<1>2. record.slots \in [Slots -> SlotRec] /\ DOMAIN record = {"there", "slots", "id", "hash", "names"}
  BY DEF EInv, RecordOK
<1>3. \A j \in Slots : j # i => record'.slots[j] = record.slots[j]
  BY <1>1, <1>2 DEF We!Reset
<1>4. \A e \in We!Events(record) \ We!Events(record)' : e = record.slots[i].event
  BY <1>3 DEF We!Events
<1> QED
  BY <1>1, <1>4 DEF NoneLost

LEMMA EraseLoses == ASSUME EInv, We!Erase PROVE NoneLost
<1>1. deploy.at = "erase" /\ LosesAll(deploy.since)
  BY DEF We!Erase, EInv, DeathsOK, DropsAll
<1>2. We!Erase => condemned' = condemned
  BY DEF We!Erase, We!deployOnly
<1> QED
  BY <1>1, <1>2 DEF NoneLost, LosesAll, Condemns, We!DiedByDeletion

LEMMA EditFollowsLoses == ASSUME EInv, We!EditFollows PROVE NoneLost
<1> DEFINE i == edit.slot
<1>1. /\ edit # We!NoEdit /\ i \in Slots
      /\ edit.name = We!Placeholder =>
           record.slots[i].event = We!None \/ Condemns(record.slots[i].event, edit.since)
  BY DEF We!EditFollows, EInv, DeathsOK, EditOK
<1>2. record.slots \in [Slots -> SlotRec] /\ DOMAIN record = {"there", "slots", "id", "hash", "names"}
  BY DEF EInv, RecordOK
<1>3. \/ record'.slots = record.slots
      \/ edit.name = We!Placeholder /\ record'.slots = [record.slots EXCEPT ![i] = We!Free]
      \/ record'.slots = [record.slots EXCEPT ![i].name = edit.name]
  <2>1. record' = We!Followed
    BY DEF We!EditFollows
  <2> QED
    BY <1>2, <2>1 DEF We!Followed, We!Reset
<1> HIDE DEF i
<1>4. \A j \in Slots : j # i => record'.slots[j].event = record.slots[j].event
  BY <1>1, <1>2, <1>3
<1>5. edit.name # We!Placeholder => record'.slots[i].event = record.slots[i].event
  BY <1>1, <1>2, <1>3 DEF SlotRec
<1>6. \A e \in We!Events(record) \ We!Events(record)' :
         e = record.slots[i].event /\ e # We!None /\ edit.name = We!Placeholder
  BY <1>1, <1>4, <1>5 DEF We!Events
<1> QED
  BY <1>1, <1>6 DEF NoneLost, Condemns, We!DiedByDeletion

LEMMA TabDropsLoses == ASSUME EInv, We!TabDrops PROVE NoneLost
<1>1. dropping # We!NoEdit /\ LosesAll(dropping.since)
  BY DEF We!TabDrops, EInv, DeathsOK
<1> QED
  BY <1>1 DEF NoneLost, LosesAll, Condemns, We!DiedByDeletion

LEMMA HandlersLose == ASSUME EInv, We!Handlers PROVE NoneLost
<1>1. ASSUME NEW name \in Names, We!Create(name) PROVE NoneLost
  BY <1>1, CreateLoses
<1>2. ASSUME NEW i \in Slots, We!Delete(i) \/ We!DeleteDeploys(i) \/ We!AddRef(i) PROVE NoneLost
  BY <1>2, DeleteLoses, SlotsStay DEF We!DeleteDeploys, We!AddRef
<1>3. ASSUME We!Sync PROVE NoneLost
  BY <1>3, SlotsStay DEF We!Sync
<1> QED
  BY <1>1, <1>2, <1>3 DEF We!Handlers

LEMMA RecordIsKept == ASSUME EInv PROVE DOMAIN record = {"there", "slots", "id", "hash", "names"}
BY DEF EInv, RecordOK

LEMMA DeployLoses == ASSUME EInv, We!Deploy PROVE NoneLost
<1>1. CASE We!Erase
  BY <1>1, EraseLoses
<1>2. CASE We!Save \/ We!Forget
  BY <1>2, RecordIsKept, SlotsStay DEF We!Save, We!Forget
<1>3. CASE We!Match \/ We!Read \/ We!CreateHead \/ We!WriteCommand \/ We!WriteBrand
  BY <1>3, SlotsStay DEF We!Match, We!Read, We!CreateHead, We!WriteCommand, We!WriteBrand
<1>4. CASE We!Swap \/ We!SwapFails \/ We!Undo \/ We!UndoFails \/ We!Cascade \/ We!Drop \/ We!DropFails \/ We!Fail
  BY <1>4, SlotsStay DEF We!Swap, We!SwapFails, We!Undo, We!UndoFails, We!Cascade, We!Drop, We!DropFails, We!Fail
<1> QED
  BY <1>1, <1>2, <1>3, <1>4 DEF We!Deploy

LEMMA OthersLose == ASSUME EInv, We!HubTab \/ We!Outside PROVE NoneLost
<1>1. ASSUME NEW d \in DevIds, NEW i \in Slots, NEW name \in Names \cup {We!Placeholder},
             We!EditDevice(d, i, name)
      PROVE  NoneLost
  BY <1>1, SlotsStay DEF We!EditDevice
<1>2. ASSUME NEW d \in DevIds, We!TabDelete(d) PROVE NoneLost
  BY <1>2, SlotsStay DEF We!TabDelete
<1>3. ASSUME We!Reconcile PROVE NoneLost
  BY <1>3, RecordIsKept, SlotsStay DEF We!Reconcile
<1>4. ASSUME NEW d \in DevIds, NEW i \in Slots, We!AppRenames(d, i) PROVE NoneLost
  BY <1>4, SlotsStay DEF We!AppRenames
<1>5. ASSUME We!Restart PROVE NoneLost
  BY <1>5, SlotsStay DEF We!Restart
<1> QED
  BY <1>1, <1>2, <1>3, <1>4, <1>5, EditFollowsLoses, TabDropsLoses DEF We!HubTab, We!Outside

LEMMA EventsLoseNone == EInv /\ [We!Next]_(We!vars) =>
  [\A e \in We!Events(record) \ We!Events(record)' : We!DiedByDeletion(e) \/ e \in condemned']_(We!vars)
BY HandlersLose, DeployLoses, OthersLose DEF We!Next, NoneLost

\* No event leaves the record that nobody asked to delete, but for those created
\* while the delete of their slot or of the record was under way.
THEOREM OnlyDeletedEventsDie == We!Spec => EventsDieByDeletion
<1>1. EInv /\ [We!Next]_(We!vars) =>
        [\A e \in We!Events(record) \ We!Events(record)' :
           We!DiedByDeletion(e) \/ e \in condemned']_(We!vars)
  BY EventsLoseNone
<1> QED
  BY <1>1, EventsInvariant, PTL DEF We!Spec, EventsDieByDeletion, We!EventsDieByDeletion
=============================================================================
