---------------------------- MODULE GatewayProofs ----------------------------
(***************************************************************************)
(* Proofs about the gateway, for any number of requests, workers, keys,    *)
(* uploads and restarts and for batches of any size.  The pool's own       *)
(* invariants are proved again here for the pool inside the gateway, whose *)
(* process may be restarted; the lemmas on the pool's steps are reused.    *)
(***************************************************************************)
EXTENDS Gateway, TransferManagerProofs

-----------------------------------------------------------------------------
\* The pool inside the gateway

\* What the pool does by itself: it takes up no transfer and lets one go only with
\* its last event, removes no row, and touches only the records of transfers in
\* its hands; no row that is finished becomes unfinished again, and a commit writes
\* what the writer has.
LEMMA PoolEffect ==
    ASSUME PoolTypeOK, OwnershipInv, RecordInv, [PoolStep]_poolVars
    PROVE  /\ \/ Owned' = Owned
              \/ \E w \in Workers : /\ AnnounceCompleted(w) \/ AnnounceFailed(w)
                                    /\ Owned' = Owned \ {job[w].id}
           /\ Created' = Created
           /\ \A t \in Transfers \ Owned : row'[t] = row[t] /\ mem'[t] = mem[t]
           /\ \A t \in Transfers : row'[t].status \in Active => row[t].status \in Active
           /\ (table' = table \/ (table' = row /\ row' = row))
<1>0. OneOwner
  BY DEF OwnershipInv
<1>1. CASE \E w \in Workers : StartFirstAttempt(w) \/ Succeed(w) \/ ScheduleRetry(w) \/ Fail(w)
  <2>1. PICK w \in Workers : StartFirstAttempt(w) \/ Succeed(w) \/ ScheduleRetry(w) \/ Fail(w)
    BY <1>1
  <2>2. /\ pc[w] \in Unfinished /\ pc'[w] \in Busy /\ job[w].id \in Transfers
        /\ \A v \in Workers : v # w => pc'[v] = pc[v] /\ job'[v] = job[v]
        /\ job'[w].id = job[w].id /\ UNCHANGED <<queue, timers, feed>>
    BY <2>1, WriterSteps
  <2>3. PICK new \in Transfer : UpdateTransfer(job[w].id, new) /\ new.status \in Status
    BY <2>1, WriterSteps
  <2>4. pc[w] \in Busy
    BY <2>2 DEF Unfinished
  <2>5. Owned' = Owned /\ job[w].id \in Owned
    BY <2>2, <2>4, OwnedStays, OwnedMember
  <2>6. \A u \in Transfers : u # job[w].id => row'[u] = row[u] /\ mem'[u] = mem[u]
    BY <2>2, <2>3, UpdateEffect
  <2>7. row[job[w].id].status \in Active
    BY <2>2 DEF RecordInv, LiveRowIsActive
  <2>8. row'[job[w].id] = new \/ row'[job[w].id] = row[job[w].id]
    BY <2>2, <2>3 DEF UpdateTransfer, PoolTypeOK
  <2>9. Created' = Created
    <3>1. row'[job[w].id].status # "absent" /\ row[job[w].id].status # "absent"
      BY <2>3, <2>7, <2>8 DEF Status, Active, Terminal
    <3> QED BY <2>6, <3>1 DEF Created
  <2>10. table' = table
    BY <2>1 DEF StartFirstAttempt, Succeed, ScheduleRetry, Fail
  <2> QED BY <2>5, <2>6, <2>7, <2>9, <2>10
<1>2. CASE \E w \in Workers : AnnounceCompleted(w) \/ AnnounceFailed(w)
  <2>1. PICK w \in Workers : AnnounceCompleted(w) \/ AnnounceFailed(w)
    BY <1>2
  <2>2. pc[w] \in Busy /\ Return(w, pc[w]) /\ UNCHANGED <<queue, timers, mem, row, table>>
    BY <2>1 DEF AnnounceCompleted, AnnounceFailed, Return, Goto, Busy
  <2>3. Owned' = Owned \ {job[w].id}
    BY <1>0, <2>2, OwnedReleased
  <2> QED BY <2>1, <2>2, <2>3 DEF Created
<1>3. CASE \E w \in Workers : Take(w) \/ ArmRetryTimer(w)
  <2>1. UNCHANGED <<mem, row, table>>
    BY <1>3 DEF Take, ArmRetryTimer
  <2>2. Owned' = Owned
    BY <1>3, OwnedTaken, OwnedArmed
  <2> QED BY <2>1, <2>2 DEF Created
<1>4. CASE \E j \in timers : RetryTimer(j)
  <2>1. PICK j \in timers : RetryTimer(j)
    BY <1>4
  <2>2. j \in TransferJob /\ j.id \in Transfers
    BY JobIds DEF PoolTypeOK
  <2>3. Owned' = Owned \union {j.id} /\ j.id \in Owned
    BY <2>1, <2>2, OwnedEnqueued, OwnedMember DEF RetryTimer
  <2>4. UNCHANGED <<row, table>> /\ \A t \in Transfers : t # j.id => mem'[t] = mem[t]
    BY <2>1, <2>2 DEF RetryTimer, PoolTypeOK
  <2> QED BY <2>3, <2>4 DEF Created
<1>5. CASE \/ \E w \in Workers : Wait(w) \/ Exit(w) \/ StartRetry(w) \/ AnnounceStarted(w)
                                  \/ MinioAnswers(w)
           \/ Signal \/ CommitBatch \/ Shutdown \/ UNCHANGED poolVars
  <2>1. UNCHANGED <<queue, timers, job, mem, row>> /\ (table' = table \/ table' = row)
    BY <1>5 DEF Wait, Exit, StartRetry, AnnounceStarted, MinioAnswers, GetOk, GetErr, PutOk, PutErr,
                Signal, CommitBatch, Shutdown, Terminate, StopClose, StopBroadcast, StopReturn,
                poolVars
  <2>2. \A v \in Workers : pc'[v] \in Busy <=> pc[v] \in Busy
    <3>1. CASE \E w \in Workers : Wait(w) \/ Exit(w) \/ StartRetry(w) \/ AnnounceStarted(w)
      BY <3>1 DEF Wait, Exit, StartRetry, AnnounceStarted, Goto, Busy, PoolTypeOK
    <3>2. CASE \E w \in Workers : MinioAnswers(w)
      BY <3>2 DEF MinioAnswers, GetOk, GetErr, PutOk, PutErr, Goto, Busy, PoolTypeOK
    <3>3. CASE Signal
      BY <3>3 DEF Signal, Goto, Busy, PoolTypeOK
    <3>4. CASE StopBroadcast
      BY <3>4 DEF StopBroadcast, Busy
    <3>5. CASE CommitBatch \/ Terminate \/ StopClose \/ StopReturn \/ UNCHANGED poolVars
      BY <3>5 DEF CommitBatch, Terminate, StopClose, StopReturn, poolVars
    <3> QED BY <1>5, <3>1, <3>2, <3>3, <3>4, <3>5 DEF Shutdown
  <2>3. Owned' = Owned
    BY <2>1, <2>2, OwnedStays
  <2> QED BY <2>1, <2>3 DEF Created
<1> QED BY <1>1, <1>2, <1>3, <1>4, <1>5 DEF PoolStep, WorkerStep

\* What of the gateway is a step of the pool by itself.
PoolByItself(h) ==
    \/ Receive(h) \/ SkipDuplicate(h) \/ MarkSeen(h) \/ SkipActive(h) \/ NoActive(h)
    \/ CreateFails(h) \/ Accept(h)

LEMMA GatewaySteps ==
    ASSUME [Next]_vars
    PROVE  \/ [PoolStep]_poolVars /\ UNCHANGED <<hpc, tid, of>>
           \/ \E h \in Handlers : PoolByItself(h)
           \/ \E h \in Handlers : CreateTransfer(h) \/ EnqueueJob(h) \/ AnnounceQueued(h)
           \/ Restart
<1>1. CASE \E w \in Workers : MinioStep(w)
  BY <1>1 DEF MinioStep, Download, Upload, DownloadFails, UploadFails, PoolStep, MinioAnswers, gateVars
<1>2. CASE PoolMoves
  BY <1>2 DEF PoolMoves, PoolStep, gateVars
<1>3. CASE (\E k \in Keys : Expire(k)) \/ (\E raw \in RawKeys : Put(raw))
           \/ (Exited /\ UNCHANGED gateVars) \/ Settled \/ UNCHANGED vars
  BY <1>3 DEF Expire, Put, Exited, Settled, vars, gateVars
<1>4. CASE \E h \in Handlers : Receive(h) \/ HandlerStep(h)
  BY <1>4 DEF HandlerStep, PoolByItself
<1> QED BY <1>1, <1>2, <1>3, <1>4 DEF Next

LEMMA ByItself ==
    ASSUME NEW h \in Handlers, PoolByItself(h)
    PROVE  /\ UNCHANGED <<poolVars, tid, of>>
           /\ hpc[h] \in {"free", "record", "check", "create"}
           /\ \E p \in {"free", "record", "check", "create"} : hpc' = [hpc EXCEPT ![h] = p]
BY DEF PoolByItself, Receive, SkipDuplicate, MarkSeen, SkipActive, NoActive, CreateFails, Accept,
       HGoto

\* A transfer that was inserted and not enqueued yet is in the hands of its handler
\* alone, with row and record as CreateTransfer left them.
HandedOver ==
    \A h \in Handlers : hpc[h] = "enqueue" =>
        /\ tid[h] \in Transfers \ Owned
        /\ row[tid[h]] = NewTransfer /\ mem[tid[h]] = NewTransfer
        /\ \A g \in Handlers : hpc[g] = "enqueue" /\ tid[g] = tid[h] => g = h

\* A row was inserted for a notification.
CreatedBegun == Created \subseteq Begun

GwPoolInv == PoolTypeOK /\ OwnershipInv /\ RecordInv /\ HandedOver /\ CreatedBegun

LEMMA NewTransferFacts ==
    /\ NewTransfer \in Transfer /\ NewTransfer.status = "pending" /\ NewTransfer.retryCount = 0
    /\ Coherent(NewTransfer) /\ \A t \in Transfers : WithinBudget(NewTransfer, t)
<1>1. NewTransfer \in Transfer /\ NewTransfer.status = "pending" /\ NewTransfer.retryCount = 0
  BY DEF NewTransfer, Transfer, Status, Active
<1>2. Coherent(NewTransfer) /\ \A t \in Transfers : WithinBudget(NewTransfer, t)
  BY MaxRetriesNat DEF NewTransfer, Coherent, WithinBudget, Terminal
<1> QED BY <1>1, <1>2

LEMMA HandedOverByPool ==
    ASSUME GwPoolInv, [PoolStep]_poolVars, UNCHANGED of,
           \A h \in Handlers : hpc'[h] = "enqueue" => hpc[h] = "enqueue" /\ tid'[h] = tid[h]
    PROVE  GwPoolInv' /\ Created' = Created
<1> USE DEF GwPoolInv
<1>1. [PoolNext]_poolVars
  BY DEF PoolNext
<1>2. PoolTypeOK' /\ OwnershipInv' /\ RecordInv'
  BY <1>1, PoolTypeStep, PoolRecordsStep
<1>3. /\ Owned' \subseteq Owned /\ Created' = Created
      /\ \A t \in Transfers \ Owned : row'[t] = row[t] /\ mem'[t] = mem[t]
  BY PoolEffect
<1>4. HandedOver' /\ CreatedBegun'
  BY <1>3 DEF HandedOver, CreatedBegun, Begun
<1> QED BY <1>2, <1>3, <1>4

\* The id a request takes is begun from then on.
LEMMA BegunCreated ==
    ASSUME GatewayTypeOK, NEW h \in Handlers, CreateTransfer(h), NEW t \in Transfers,
           of' = [of EXCEPT ![t] = Rec(h)]
    PROVE  Rec(h) \in Event /\ Begun' = Begun \union {t}
<1>1. More(h) /\ batch[h] \in Seq(Event) /\ pos[h] \in 1..MaxBatch + 1
  BY DEF CreateTransfer, HGoto, GatewayTypeOK, HandlerPC
<1>2. pos[h] \in 1..Len(batch[h])
  BY <1>1, BoundsNat DEF More
<1>3. Rec(h) \in Event
  BY <1>1, <1>2 DEF Rec
<1>4. of'[t] \in Event /\ \A u \in Transfers : u # t => of'[u] = of[u]
  BY <1>3 DEF GatewayTypeOK
<1> QED BY <1>3, <1>4, NoneApart DEF Begun

LEMMA HandedOverCreated ==
    ASSUME GatewayTypeOK, GwPoolInv, NEW h \in Handlers, CreateTransfer(h)
    PROVE  GwPoolInv' /\ Created \subseteq Created'
<1> USE DEF GwPoolInv
<1>1. PICK t \in Transfers \ Begun :
        /\ tid' = [tid EXCEPT ![h] = t] /\ of' = [of EXCEPT ![t] = Rec(h)]
        /\ row' = [row EXCEPT ![t] = NewTransfer] /\ mem' = [mem EXCEPT ![t] = NewTransfer]
  BY DEF CreateTransfer
<1>0. t \in Transfers \ Created
  BY DEF CreatedBegun
<1>2. UNCHANGED <<queue, closed, signals, pc, job, timers, table, feed, main>>
  BY DEF CreateTransfer
<1>3. /\ hpc[h] = "create" /\ hpc' = [hpc EXCEPT ![h] = "enqueue"]
      /\ hpc \in [Handlers -> HandlerPC] /\ tid \in [Handlers -> Transfers \union {None}]
  BY DEF CreateTransfer, HGoto, GatewayTypeOK
<1>4. /\ row'[t] = NewTransfer /\ mem'[t] = NewTransfer
      /\ \A u \in Transfers : u # t => row'[u] = row[u] /\ mem'[u] = mem[u]
      /\ row' \in [Transfers -> Transfer] /\ mem' \in [Transfers -> Transfer]
  BY <1>1, NewTransferFacts DEF PoolTypeOK
<1>5. PoolTypeOK'
  BY <1>2, <1>4 DEF PoolTypeOK
<1>6. t \notin Owned /\ Owned' = Owned
  BY <1>0, <1>2 DEF OwnershipInv, OwnedHasRow, Owned, Queued, Held, Delayed
<1>7. Created' = Created \union {t}
  BY <1>4, NewTransferFacts DEF Created
<1>8. OwnershipInv'
  BY <1>2, <1>7, OwnershipKept
<1>9. /\ \A i \in 1..Len(queue) : queue[i].id \in Transfers \ {t}
      /\ \A j \in timers : j.id \in Transfers \ {t}
      /\ \A w \in Workers : pc[w] \in Busy => job[w].id \in Transfers \ {t}
  BY <1>6, OwnedMember, JobIds
<1>10. JobsCurrent'
  BY <1>2, <1>4, <1>9 DEF RecordInv, JobsCurrent
<1>11. LiveRowIsActive'
  BY <1>2, <1>4, <1>9 DEF RecordInv, LiveRowIsActive, Unfinished, Busy
<1>12. MemCoherent' /\ RowCoherent' /\ RetryBudget'
  BY <1>2, <1>4, NewTransferFacts DEF RecordInv, MemCoherent, RowCoherent, RetryBudget
<1>14. TableIsBehind'
  <2>1. table[t].status = "absent"
    BY <1>0 DEF RecordInv, TableIsBehind
  <2> QED BY <1>2, <1>4, <1>7, <2>1 DEF RecordInv, TableIsBehind, Terminal
<1>15. CreatedBegun'
  BY <1>1, <1>7, BegunCreated DEF CreatedBegun
<1>13. HandedOver'
  <2>1. ASSUME NEW g \in Handlers, g # h, hpc'[g] = "enqueue"
        PROVE  hpc[g] = "enqueue" /\ tid'[g] = tid[g] /\ tid[g] # t /\ tid[g] \in Transfers
    <3>1. hpc[g] = "enqueue" /\ tid'[g] = tid[g]
      BY <1>1, <1>3, <2>1
    <3>2. tid[g] \in Created
      BY <3>1, NewTransferFacts DEF HandedOver, Created
    <3> QED BY <1>0, <3>1, <3>2 DEF Created
  <2>2. tid'[h] = t
    BY <1>1, <1>3
  <2> QED BY <1>4, <1>6, <2>1, <2>2 DEF HandedOver
<1> QED BY <1>5, <1>7, <1>8, <1>10, <1>11, <1>12, <1>13, <1>14, <1>15 DEF RecordInv

LEMMA HandedOverEnqueued ==
    ASSUME GatewayTypeOK, GwPoolInv, NEW h \in Handlers, EnqueueJob(h)
    PROVE  GwPoolInv' /\ Created' = Created
<1> USE DEF GwPoolInv
<1> DEFINE j == [id |-> tid[h], retryCount |-> 0]
<1>1. /\ Enqueue(j) /\ UNCHANGED <<closed, pc, job, timers, mem, row, table, feed, main, tid, of>>
      /\ hpc[h] = "enqueue" /\ hpc' = [hpc EXCEPT ![h] = "announce"]
      /\ hpc \in [Handlers -> HandlerPC]
  BY DEF EnqueueJob, HGoto, GatewayTypeOK
<1>2. /\ tid[h] \in Transfers /\ tid[h] \notin Owned
      /\ row[tid[h]] = NewTransfer /\ mem[tid[h]] = NewTransfer
      /\ \A g \in Handlers : hpc[g] = "enqueue" /\ tid[g] = tid[h] => g = h
  BY <1>1 DEF HandedOver
<1>3. j \in TransferJob /\ j.id = tid[h] /\ j.retryCount = 0
  BY <1>2 DEF TransferJob
<1> HIDE DEF j
<1>4. queue' = Append(queue, j) /\ queue' \in Seq(TransferJob) /\ signals' \in Nat
  BY <1>1, <1>3, QueueFacts DEF Enqueue, PoolTypeOK
<1>5. PoolTypeOK'
  BY <1>1, <1>4 DEF PoolTypeOK
<1>6. Owned' = Owned \union {tid[h]}
  BY <1>1, <1>3, OwnedEnqueued
<1>7. tid[h] \notin Queued /\ tid[h] \notin Held /\ tid[h] \notin Delayed
  BY <1>2 DEF Owned
<1>8. Created' = Created /\ tid[h] \in Created
  BY <1>1, <1>2, NewTransferFacts DEF Created
<1>9. OwnershipInv'
  <2>1. QueuedOnce'
    <3>1. \A i \in 1..Len(queue) : queue[i].id # j.id
      BY <1>3, <1>7 DEF Queued
    <3> QED BY <1>3, <1>4, <3>1, AppendDistinct DEF OwnershipInv, OneOwner, QueuedOnce, PoolTypeOK
  <2>2. HeldOnce' /\ DelayedOnce'
    BY <1>1 DEF OwnershipInv, OneOwner, HeldOnce, DelayedOnce
  <2>3. Held' = Held /\ Delayed' = Delayed
    BY <1>1 DEF Held, Delayed
  <2>4. Queued' \subseteq Queued \union {tid[h]}
    <3>1. /\ Len(queue) \in Nat /\ Len(queue') = Len(queue) + 1
          /\ \A i \in 1..(Len(queue) + 1) : queue'[i] = IF i = Len(queue) + 1 THEN j ELSE queue[i]
      BY <1>3, <1>4, QueueFacts DEF PoolTypeOK
    <3>2. \A i \in 1..Len(queue') : queue'[i] = j \/ (i \in 1..Len(queue) /\ queue'[i] = queue[i])
      BY <3>1
    <3> QED BY <1>3, <3>2 DEF Queued
  <2>5. OnePlace'
    BY <1>7, <2>3, <2>4 DEF OwnershipInv, OneOwner, OnePlace
  <2>6. OwnedHasRow'
    BY <1>6, <1>8 DEF OwnershipInv, OwnedHasRow
  <2> QED BY <2>1, <2>2, <2>5, <2>6 DEF OwnershipInv, OneOwner
<1>10. RecordInv'
  <2>1. mem' = [mem EXCEPT ![tid[h]] = NewTransfer]
    BY <1>1, <1>2 DEF PoolTypeOK
  <2>2. \A k \in timers' : k \in timers /\ k.id # tid[h]
    BY <1>1, <1>7 DEF Delayed
  <2>3. row'[tid[h]].status \in Active
    BY <1>1, <1>2, NewTransferFacts DEF Active
  <2>4. RowCoherent' /\ RetryBudget' /\ TableIsBehind'
    BY <1>1, <1>8 DEF RecordInv, RowCoherent, RetryBudget, TableIsBehind
  <2> QED BY <2>4, <1>1, <1>2, <1>3, <1>4, <1>7, <2>1, <2>2, <2>3, NewTransferFacts, RecordsEnqueued
<1>11. HandedOver' /\ CreatedBegun'
  <2>1. ASSUME NEW g \in Handlers, hpc'[g] = "enqueue"
        PROVE  hpc[g] = "enqueue" /\ tid[g] # tid[h]
    BY <1>1, <1>2, <2>1
  <2> QED BY <1>1, <1>6, <1>8, <2>1 DEF HandedOver, CreatedBegun, Begun
<1> QED BY <1>5, <1>8, <1>9, <1>10, <1>11

LEMMA HandedOverAnnounced ==
    ASSUME GatewayTypeOK, GwPoolInv, NEW h \in Handlers, AnnounceQueued(h)
    PROVE  GwPoolInv' /\ Created' = Created
<1> USE DEF GwPoolInv
<1>1. /\ Broadcast(tid[h], "queued")
      /\ UNCHANGED <<queue, closed, signals, pc, job, timers, mem, row, table, main, of>>
      /\ hpc[h] = "announce" /\ hpc' = [hpc EXCEPT ![h] = "record"]
      /\ tid' = [tid EXCEPT ![h] = None]
      /\ hpc \in [Handlers -> HandlerPC] /\ tid \in [Handlers -> Transfers \union {None}]
      /\ tid[h] \in Transfers
  BY DEF AnnounceQueued, HGoto, GatewayTypeOK, Created
<1>2. feed' \in [Transfers -> Seq(Events)]
  BY <1>1, BroadcastType DEF PoolTypeOK, Events
<1>3. PoolTypeOK'
  BY <1>1, <1>2 DEF PoolTypeOK
<1>4. Created' = Created /\ Owned' = Owned
  BY <1>1 DEF Created, Owned, Queued, Held, Delayed
<1>5. OwnershipInv' /\ RecordInv'
  BY <1>1, <1>4, OwnershipKept, RecordsKept
<1>6. ASSUME NEW g \in Handlers, hpc'[g] = "enqueue"
      PROVE  hpc[g] = "enqueue" /\ tid'[g] = tid[g]
  <2>1. g # h
    BY <1>1, <1>6
  <2> QED BY <1>1, <1>6, <2>1
<1>7. HandedOver' /\ CreatedBegun'
  BY <1>1, <1>4, <1>6 DEF HandedOver, CreatedBegun, Begun
<1> QED BY <1>3, <1>4, <1>5, <1>7

LEMMA HandedOverRestarted ==
    ASSUME GwPoolInv, Restart
    PROVE  GwPoolInv' /\ Created' \subseteq Created
<1> USE DEF GwPoolInv
<1>1. /\ queue' = <<>> /\ closed' = FALSE /\ signals' = 0 /\ timers' = {}
      /\ pc' = [w \in Workers |-> "lock"] /\ job' = [w \in Workers |-> NoJob]
      /\ mem' = [t \in Transfers |-> NoTransfer] /\ feed' = [t \in Transfers |-> <<>>]
      /\ main' = "run" /\ row' = table /\ UNCHANGED <<table, of>>
      /\ \A h \in Handlers : hpc'[h] = "free"
  BY DEF Restart
<1>2. \A w \in Workers : pc'[w] \notin Busy
  BY <1>1 DEF Busy
<1>3. /\ NoTransfer \in Transfer /\ Coherent(NoTransfer)
      /\ \A t \in Transfers : WithinBudget(NoTransfer, t)
  <2>1. NoTransfer \in Transfer
    BY DEF NoTransfer, NewTransfer, Transfer
  <2>2. Coherent(NoTransfer) /\ \A t \in Transfers : WithinBudget(NoTransfer, t)
    BY MaxRetriesNat DEF NoTransfer, NewTransfer, Coherent, WithinBudget, Terminal
  <2> QED BY <2>1, <2>2
<1>4. PoolTypeOK'
  <2>1. /\ queue' \in Seq(TransferJob) /\ pc' \in [Workers -> Idle \union Busy]
        /\ job' \in [Workers -> TransferJob \union {NoJob}]
        /\ feed' \in [Transfers -> Seq(Events)]
    BY <1>1 DEF Idle
  <2>2. /\ mem' \in [Transfers -> Transfer] /\ row' \in [Transfers -> Transfer]
        /\ table' \in [Transfers -> Transfer]
    BY <1>1, <1>3 DEF PoolTypeOK
  <2> QED BY <1>1, <1>2, <2>1, <2>2 DEF PoolTypeOK, Phases
<1>5. Queued' = {} /\ Held' = {} /\ Delayed' = {}
  <2>1. Len(queue') = 0
    BY <1>1
  <2> QED BY <1>1, <1>2, <2>1 DEF Queued, Held, Delayed
<1>6. OwnershipInv'
  BY <1>1, <1>2, <1>5 DEF OwnershipInv, OneOwner, QueuedOnce, HeldOnce, DelayedOnce, OnePlace,
                         OwnedHasRow, Owned
<1>7. RecordInv'
  <2>1. MemCoherent' /\ RowCoherent' /\ RetryBudget' /\ TableIsBehind'
    BY <1>1, <1>3 DEF RecordInv, MemCoherent, RowCoherent, RetryBudget, TableIsBehind, Created
  <2>2. JobsCurrent' /\ LiveRowIsActive'
    BY <1>1, <1>2 DEF JobsCurrent, LiveRowIsActive, Unfinished, Busy
  <2> QED BY <2>1, <2>2 DEF RecordInv
<1>8. Created' \subseteq Created
  BY <1>1 DEF RecordInv, TableIsBehind, Created
<1>9. HandedOver' /\ CreatedBegun'
  BY <1>1, <1>8 DEF HandedOver, CreatedBegun, Begun
<1> QED BY <1>4, <1>6, <1>7, <1>8, <1>9

LEMMA GwPoolStep ==
    ASSUME GatewayTypeOK, GwPoolInv, [Next]_vars
    PROVE  GwPoolInv' /\ (Restart \/ Created \subseteq Created')
<1>1. CASE [PoolStep]_poolVars /\ UNCHANGED <<hpc, tid, of>>
  BY <1>1, HandedOverByPool
<1>2. ASSUME NEW h \in Handlers, PoolByItself(h)
      PROVE  GwPoolInv' /\ Created' = Created
  <2>1. UNCHANGED <<poolVars, tid, of>>
    BY <1>2, ByItself
  <2>2. PICK p \in {"free", "record", "check", "create"} : hpc' = [hpc EXCEPT ![h] = p]
    BY <1>2, ByItself
  <2>3. \A g \in Handlers : hpc'[g] = "enqueue" => hpc[g] = "enqueue" /\ tid'[g] = tid[g]
    BY <2>1, <2>2 DEF GatewayTypeOK
  <2> QED BY <2>1, <2>3, HandedOverByPool
<1> QED BY <1>1, <1>2, GatewaySteps, HandedOverCreated, HandedOverEnqueued, HandedOverAnnounced,
           HandedOverRestarted

-----------------------------------------------------------------------------
\* Types.  The versions stay within their bound because every upload leaves a
\* notification of its own, which is kept, undelivered or accepted.

Known == outbox \union acked

HandlersTyped ==
    /\ hpc \in [Handlers -> HandlerPC]
    /\ batch \in [Handlers -> Seq(Event)]
    /\ pos \in [Handlers -> 1..MaxBatch + 1]
    /\ tid \in [Handlers -> Transfers \union {None}]
    /\ \A h \in Handlers :
         /\ hpc[h] \in HandlerPC \ {"free", "record"} => More(h)
         /\ hpc[h] \in {"enqueue", "announce"} => tid[h] \in Created
         /\ Len(batch[h]) <= MaxBatch
         /\ \A i \in 1..Len(batch[h]) : batch[h][i] \in Known

TablesTyped ==
    /\ seen \subseteq Keys
    /\ of \in [Transfers -> Event \union {None}]
    /\ restarts \in 0..MaxRestarts

VersionsTyped ==
    /\ outbox \subseteq Event /\ acked \subseteq Event
    /\ src \in [Keys -> 0..MaxPuts] /\ dst \in [Keys -> 0..MaxPuts]
    /\ got \in [Workers -> 0..MaxPuts]

UploadsCounted ==
    /\ IsFiniteSet(Known)
    /\ \A k \in Keys : src[k] <= Cardinality(Known)
    /\ \A e \in Known : e.ver <= src[KeyOf(e)]

GwTypeInv == HandlersTyped /\ TablesTyped /\ VersionsTyped /\ UploadsCounted

LEMMA GwTypeInvTypes == ASSUME GwTypeInv PROVE GatewayTypeOK
BY DEF GwTypeInv, HandlersTyped, TablesTyped, VersionsTyped, GatewayTypeOK

LEMMA EventKeys ==
    ASSUME NEW e \in Event
    PROVE  KeyOf(e) \in Keys /\ e.raw \in RawKeys /\ e.ver \in 1..MaxPuts
BY UnescapeMaps DEF Event, KeyOf

\* The record a handler is at is a notification.
LEMMA RecordAt ==
    ASSUME HandlersTyped, NEW h \in Handlers, More(h)
    PROVE  /\ pos[h] \in 1..Len(batch[h]) /\ Rec(h) \in Event /\ KeyOf(Rec(h)) \in Keys
           /\ pos[h] + 1 \in 1..MaxBatch + 1
<1>1. pos[h] \in 1..MaxBatch + 1 /\ batch[h] \in Seq(Event) /\ Len(batch[h]) <= MaxBatch
  BY DEF HandlersTyped
<1>2. pos[h] \in 1..Len(batch[h]) /\ pos[h] + 1 \in 1..MaxBatch + 1
  BY <1>1, BoundsNat DEF More
<1>3. Rec(h) \in Event
  BY <1>1, <1>2 DEF Rec
<1> QED BY <1>2, <1>3, EventKeys

\* The object a worker is at has a key.
LEMMA HeldKey ==
    ASSUME GwPoolInv, TablesTyped, NEW w \in Workers, pc[w] \in Busy
    PROVE  job[w].id \in Begun /\ RowKey(job[w].id) \in Keys
<1>1. job[w].id \in Begun
  BY OwnedMember DEF GwPoolInv, OwnershipInv, OwnedHasRow, CreatedBegun
<1> QED BY <1>1, EventKeys DEF TablesTyped, RowKey, Begun

\* A handler moves, the others stay where they are.
LEMMA HandlerMoved ==
    ASSUME HandlersTyped, Created \subseteq Created', Known \subseteq Known',
           NEW h \in Handlers, NEW p \in HandlerPC, NEW b \in Seq(Event),
           NEW q \in 1..MaxBatch + 1, NEW i \in Transfers \union {None},
           hpc' = [hpc EXCEPT ![h] = p], batch' = [batch EXCEPT ![h] = b],
           pos' = [pos EXCEPT ![h] = q], tid' = [tid EXCEPT ![h] = i],
           p \in HandlerPC \ {"free", "record"} => q <= Len(b),
           p \in {"enqueue", "announce"} => i \in Created',
           Len(b) <= MaxBatch, \A n \in 1..Len(b) : b[n] \in Known'
    PROVE  HandlersTyped'
<1>1. /\ hpc' \in [Handlers -> HandlerPC] /\ batch' \in [Handlers -> Seq(Event)]
      /\ pos' \in [Handlers -> 1..MaxBatch + 1] /\ tid' \in [Handlers -> Transfers \union {None}]
  BY DEF HandlersTyped
<1>2. /\ hpc'[h] = p /\ batch'[h] = b /\ pos'[h] = q /\ tid'[h] = i
      /\ \A g \in Handlers : g # h => /\ hpc'[g] = hpc[g] /\ batch'[g] = batch[g]
                                      /\ pos'[g] = pos[g] /\ tid'[g] = tid[g]
  BY DEF HandlersTyped
<1>3. ASSUME NEW g \in Handlers
      PROVE  /\ hpc'[g] \in HandlerPC \ {"free", "record"} => pos'[g] <= Len(batch'[g])
             /\ hpc'[g] \in {"enqueue", "announce"} => tid'[g] \in Created'
             /\ Len(batch'[g]) <= MaxBatch
             /\ \A n \in 1..Len(batch'[g]) : batch'[g][n] \in Known'
  <2>1. CASE g = h
    BY <1>2, <2>1
  <2>2. CASE g # h
    BY <1>2, <2>2 DEF HandlersTyped, More
  <2> QED BY <2>1, <2>2
<1> QED BY <1>1, <1>3 DEF HandlersTyped, More

\* No handler moves.
LEMMA HandlersStay ==
    ASSUME HandlersTyped, Created \subseteq Created', Known \subseteq Known',
           UNCHANGED <<hpc, batch, pos, tid>>
    PROVE  HandlersTyped'
BY DEF HandlersTyped, More

\* No upload, and no notification is forgotten.
LEMMA UploadsStay ==
    ASSUME UploadsCounted, Known' = Known, src' = src
    PROVE  UploadsCounted'
BY DEF UploadsCounted, KeyOf

\* No row is added.
LEMMA TablesStay ==
    ASSUME TablesTyped, seen' \subseteq Keys, UNCHANGED <<of, restarts>>
    PROVE  TablesTyped'
BY DEF TablesTyped

\* Steps of a handler that leave the pool's variables alone.
LEMMA TypesByHandler ==
    ASSUME GwTypeInv, NEW h \in Handlers, PoolByItself(h)
    PROVE  GwTypeInv'
<1> USE DEF GwTypeInv
<1>1. UNCHANGED <<poolVars, tid, of>> /\ Created' = Created
  BY ByItself DEF poolVars, Created
<1>2. /\ hpc \in [Handlers -> HandlerPC] /\ batch \in [Handlers -> Seq(Event)]
      /\ pos \in [Handlers -> 1..MaxBatch + 1] /\ tid \in [Handlers -> Transfers \union {None}]
      /\ tid' = [tid EXCEPT ![h] = tid[h]]
      /\ batch[h] \in Seq(Event) /\ Len(batch[h]) <= MaxBatch
      /\ pos[h] \in 1..MaxBatch + 1 /\ tid[h] \in Transfers \union {None}
      /\ \A n \in 1..Len(batch[h]) : batch[h][n] \in Known
  BY <1>1 DEF HandlersTyped
<1>3. CASE Receive(h)
  <2>0. PICK n \in 1..MaxBatch :
          \E records \in [1..n -> outbox] : batch' = [batch EXCEPT ![h] = records]
    BY <1>3 DEF Receive
  <2>1. PICK records \in [1..n -> outbox] : batch' = [batch EXCEPT ![h] = records]
    BY <2>0
  <2>2. /\ hpc' = [hpc EXCEPT ![h] = "record"] /\ pos' = [pos EXCEPT ![h] = 1]
        /\ UNCHANGED <<seen, outbox, acked, src, dst, got, restarts>>
    BY <1>3 DEF Receive, HGoto
  <2>3. n \in Nat /\ n <= MaxBatch
    BY BoundsNat
  <2>4. outbox \subseteq Event /\ outbox \subseteq Known
    BY DEF VersionsTyped, Known
  <2>5. records \in Seq(Event) /\ Len(records) = n
    BY <2>3, <2>4
  <2>6. \A i \in 1..Len(records) : records[i] \in Known
    BY <2>4, <2>5
  <2>7. Known' = Known
    BY <2>2 DEF Known
  <2>8. "record" \in HandlerPC /\ 1 \in 1..MaxBatch + 1
    BY BoundsNat DEF HandlerPC
  <2>9. HandlersTyped'
    BY <1>1, <1>2, <2>1, <2>2, <2>3, <2>5, <2>6, <2>7, <2>8, HandlerMoved
  <2>10. TablesTyped' /\ VersionsTyped' /\ UploadsCounted'
    BY <1>1, <2>2, <2>7, UploadsStay, TablesStay DEF VersionsTyped, TablesTyped
  <2> QED BY <2>9, <2>10
<1>4. CASE SkipDuplicate(h) \/ SkipActive(h)
  <2>1. More(h) /\ UNCHANGED <<batch, seen, outbox, acked, src, dst, got, restarts>>
    BY <1>4 DEF SkipDuplicate, SkipActive, HGoto, HandlersTyped, HandlerPC
  <2>2. pos[h] + 1 \in 1..MaxBatch + 1
    BY <2>1, RecordAt
  <2>3. hpc' = [hpc EXCEPT ![h] = "record"] /\ pos' = [pos EXCEPT ![h] = pos[h] + 1]
    BY <1>4 DEF SkipDuplicate, SkipActive, HGoto, NextRecord
  <2>4. batch' = [batch EXCEPT ![h] = batch[h]]
    BY <1>2, <2>1
  <2>5. Known' = Known
    BY <2>1 DEF Known
  <2>6. "record" \in HandlerPC
    BY DEF HandlerPC
  <2>7. HandlersTyped'
    BY <1>1, <1>2, <2>2, <2>3, <2>4, <2>5, <2>6, HandlerMoved
  <2>8. TablesTyped' /\ VersionsTyped' /\ UploadsCounted'
    BY <1>1, <2>1, <2>5, UploadsStay, TablesStay DEF VersionsTyped, TablesTyped
  <2> QED BY <2>7, <2>8
<1>5. CASE MarkSeen(h) \/ NoActive(h)
  <2>1. PICK p \in {"check", "create"} : hpc' = [hpc EXCEPT ![h] = p]
    BY <1>5 DEF MarkSeen, NoActive, HGoto
  <2>2. More(h) /\ UNCHANGED <<batch, pos, outbox, acked, src, dst, got, restarts>>
    BY <1>5 DEF MarkSeen, NoActive, HGoto, HandlersTyped, HandlerPC
  <2>3. seen' \subseteq Keys
    BY <1>5, <2>2, RecordAt DEF MarkSeen, NoActive, TablesTyped
  <2>4. pos' = [pos EXCEPT ![h] = pos[h]] /\ batch' = [batch EXCEPT ![h] = batch[h]]
    BY <1>2, <2>2
  <2>5. Known' = Known
    BY <2>2 DEF Known
  <2>6. p \in HandlerPC /\ p \notin {"enqueue", "announce"} /\ pos[h] <= Len(batch[h])
    BY <2>1, <2>2 DEF HandlerPC, More
  <2>7. HandlersTyped'
    BY <1>1, <1>2, <2>1, <2>4, <2>5, <2>6, HandlerMoved
  <2>8. TablesTyped' /\ VersionsTyped' /\ UploadsCounted'
    BY <1>1, <2>2, <2>3, <2>5, UploadsStay, TablesStay DEF VersionsTyped
  <2> QED BY <2>7, <2>8
<1>6. CASE CreateFails(h) \/ Accept(h)
  <2>1. /\ hpc' = [hpc EXCEPT ![h] = "free"] /\ batch' = [batch EXCEPT ![h] = <<>>]
        /\ pos' = [pos EXCEPT ![h] = 1]
        /\ UNCHANGED <<seen, src, dst, got, restarts>>
    BY <1>6 DEF CreateFails, Accept, HGoto, Finish
  <2>2. Known' = Known /\ outbox' \subseteq Known /\ acked' \subseteq Known
    <3>1. CASE UNCHANGED <<outbox, acked>>
      BY <3>1 DEF Known
    <3>2. CASE /\ outbox' = outbox \ {batch[h][i] : i \in 1..Len(batch[h])}
               /\ acked' = acked \union {batch[h][i] : i \in 1..Len(batch[h])}
      BY <1>2, <3>2 DEF Known
    <3> QED BY <1>6, <3>1, <3>2 DEF CreateFails, Accept
  <2>3. /\ "free" \in HandlerPC /\ "free" \notin HandlerPC \ {"free", "record"}
        /\ "free" \notin {"enqueue", "announce"}
        /\ 1 \in 1..MaxBatch + 1 /\ <<>> \in Seq(Event) /\ Len(<<>>) <= MaxBatch
        /\ \A n \in 1..Len(<<>>) : <<>>[n] \in Known
    BY BoundsNat DEF HandlerPC
  <2>4. HandlersTyped'
    BY <1>1, <1>2, <2>1, <2>2, <2>3, HandlerMoved
  <2>5. Known \subseteq Event
    BY DEF VersionsTyped, Known
  <2>6. TablesTyped' /\ VersionsTyped' /\ UploadsCounted'
    BY <1>1, <2>1, <2>2, <2>5, UploadsStay, TablesStay DEF VersionsTyped, TablesTyped
  <2> QED BY <2>4, <2>6
<1> QED BY <1>3, <1>4, <1>5, <1>6 DEF PoolByItself

LEMMA TypesCreated ==
    ASSUME GwTypeInv, GwPoolInv, NEW h \in Handlers, CreateTransfer(h)
    PROVE  GwTypeInv'
<1> USE DEF GwTypeInv
<1>1. PICK t \in Transfers \ Begun :
        /\ tid' = [tid EXCEPT ![h] = t] /\ of' = [of EXCEPT ![t] = Rec(h)]
        /\ row' = [row EXCEPT ![t] = NewTransfer]
  BY DEF CreateTransfer
<1>2. /\ hpc[h] = "create" /\ hpc' = [hpc EXCEPT ![h] = "enqueue"]
      /\ UNCHANGED <<batch, pos, seen, outbox, acked, src, dst, got, restarts>>
  BY DEF CreateTransfer, HGoto
<1>3. More(h) /\ Rec(h) \in Event
  BY <1>2, RecordAt DEF HandlersTyped, HandlerPC
<1>4. Created' = Created \union {t}
  BY <1>1, NewTransferFacts DEF Created, GwPoolInv, PoolTypeOK
<1>5. Known' = Known
  BY <1>2 DEF Known
<1>6. /\ pos' = [pos EXCEPT ![h] = pos[h]] /\ batch' = [batch EXCEPT ![h] = batch[h]]
      /\ batch[h] \in Seq(Event) /\ Len(batch[h]) <= MaxBatch /\ pos[h] \in 1..MaxBatch + 1
      /\ \A n \in 1..Len(batch[h]) : batch[h][n] \in Known
  BY <1>2 DEF HandlersTyped
<1>7. "enqueue" \in HandlerPC /\ pos[h] <= Len(batch[h])
  BY <1>3 DEF HandlerPC, More
<1>8. HandlersTyped'
  BY <1>1, <1>2, <1>4, <1>5, <1>6, <1>7, HandlerMoved
<1>9. TablesTyped'
  BY <1>1, <1>2, <1>3, <1>4 DEF TablesTyped
<1>10. VersionsTyped' /\ UploadsCounted'
  BY <1>2, <1>5, UploadsStay DEF VersionsTyped
<1> QED BY <1>8, <1>9, <1>10

LEMMA TypesHandedOver ==
    ASSUME GwTypeInv, GwPoolInv, NEW h \in Handlers, EnqueueJob(h) \/ AnnounceQueued(h)
    PROVE  GwTypeInv'
<1> USE DEF GwTypeInv
<1>1. Created' = Created
  BY GwTypeInvTypes, HandedOverEnqueued, HandedOverAnnounced
<1>2. UNCHANGED <<batch, seen, of, outbox, acked, src, dst, got, restarts>>
  BY DEF EnqueueJob, AnnounceQueued
<1>3. Known' = Known
  BY <1>2 DEF Known
<1>4. hpc[h] \in {"enqueue", "announce"} /\ More(h) /\ tid[h] \in Created
  BY DEF EnqueueJob, AnnounceQueued, HGoto, HandlersTyped, HandlerPC
<1>5. /\ batch' = [batch EXCEPT ![h] = batch[h]]
      /\ batch[h] \in Seq(Event) /\ Len(batch[h]) <= MaxBatch /\ pos[h] \in 1..MaxBatch + 1
      /\ tid[h] \in Transfers \union {None}
      /\ \A n \in 1..Len(batch[h]) : batch[h][n] \in Known
  BY <1>2 DEF HandlersTyped
<1>6. CASE EnqueueJob(h)
  <2>1. /\ hpc' = [hpc EXCEPT ![h] = "announce"] /\ pos' = [pos EXCEPT ![h] = pos[h]]
        /\ tid' = [tid EXCEPT ![h] = tid[h]]
    BY <1>6 DEF EnqueueJob, HGoto, HandlersTyped
  <2>2. "announce" \in HandlerPC /\ pos[h] <= Len(batch[h])
    BY <1>4 DEF HandlerPC, More
  <2> QED BY <1>1, <1>3, <1>4, <1>5, <2>1, <2>2, HandlerMoved,
             <1>2, UploadsStay, TablesStay DEF VersionsTyped, TablesTyped
<1>7. CASE AnnounceQueued(h)
  <2>1. /\ hpc' = [hpc EXCEPT ![h] = "record"] /\ pos' = [pos EXCEPT ![h] = pos[h] + 1]
        /\ tid' = [tid EXCEPT ![h] = None]
    BY <1>7 DEF AnnounceQueued, HGoto, NextRecord
  <2>2. "record" \in HandlerPC /\ pos[h] + 1 \in 1..MaxBatch + 1
    BY <1>4, RecordAt DEF HandlerPC
  <2>3. HandlersTyped'
    BY <1>1, <1>3, <1>5, <2>1, <2>2, HandlerMoved
  <2> QED BY <1>1, <1>2, <1>3, <2>3, UploadsStay, TablesStay DEF VersionsTyped, TablesTyped
<1> QED BY <1>6, <1>7

\* MinIO answers a worker.
LEMMA TypesCopied ==
    ASSUME GwTypeInv, GwPoolInv, NEW w \in Workers, MinioStep(w)
    PROVE  GwTypeInv'
<1> USE DEF GwTypeInv
<1>1. UNCHANGED <<row, hpc, batch, pos, tid, seen, of, outbox, acked, src, restarts>>
  BY DEF MinioStep, Download, DownloadFails, Upload, UploadFails, GetOk, GetErr, PutOk, PutErr, gateVars
<1>2. Created' = Created /\ Known' = Known
  BY <1>1 DEF Created, Known
<1>3. HandlersTyped' /\ TablesTyped' /\ UploadsCounted'
  <2>1. seen' \subseteq Keys
    BY <1>1 DEF TablesTyped
  <2> QED BY <1>1, <1>2, <2>1, HandlersStay, TablesStay, UploadsStay
<1>4. pc[w] \in Busy
  BY DEF MinioStep, Download, DownloadFails, Upload, UploadFails, GetOk, GetErr, PutOk, PutErr, Goto, Busy
<1>5. PICK k \in Keys : k = RowKey(job[w].id)
  BY <1>4, HeldKey
<1>6. 0 \in 0..MaxPuts
  BY BoundsNat
<1>7. got' \in [Workers -> 0..MaxPuts] /\ dst' \in [Keys -> 0..MaxPuts]
  <2>0. /\ got \in [Workers -> 0..MaxPuts] /\ dst \in [Keys -> 0..MaxPuts]
        /\ src[k] \in 0..MaxPuts /\ got[w] \in 0..MaxPuts
    BY DEF VersionsTyped
  <2>1. CASE Download(w)
    <3>1. got' = [got EXCEPT ![w] = src[k]] /\ dst' = dst
      BY <1>5, <2>1 DEF Download
    <3> QED BY <2>0, <3>1
  <2>2. CASE Upload(w)
    <3>1. got' = [got EXCEPT ![w] = 0] /\ dst' = [dst EXCEPT ![k] = got[w]]
      BY <1>5, <2>2 DEF Upload
    <3> QED BY <1>6, <2>0, <3>1
  <2>3. CASE UploadFails(w)
    <3>1. got' = [got EXCEPT ![w] = 0] /\ (dst' = dst \/ dst' = [dst EXCEPT ![k] = got[w]])
      BY <1>5, <2>3 DEF UploadFails
    <3> QED BY <1>6, <2>0, <3>1
  <2>4. CASE DownloadFails(w)
    BY <2>0, <2>4 DEF DownloadFails, gateVars
  <2> QED BY <2>1, <2>2, <2>3, <2>4 DEF MinioStep
<1>8. VersionsTyped'
  BY <1>1, <1>7 DEF VersionsTyped
<1> QED BY <1>3, <1>8

\* An upload to the source bucket: its notification is a new one.
LEMMA TypesPut ==
    ASSUME GwTypeInv, NEW raw \in RawKeys, Put(raw)
    PROVE  GwTypeInv'
<1> USE DEF GwTypeInv
<1>1. PICK k \in Keys : k = Unescape[raw]
  BY UnescapeMaps
<1>2. PICK v : v = src[k] + 1
  OBVIOUS
<1>3. /\ Cardinality(Known) < MaxPuts /\ src' = [src EXCEPT ![k] = v]
      /\ outbox' = outbox \union {[raw |-> raw, ver |-> v]}
      /\ UNCHANGED <<poolVars, hpc, batch, pos, tid, seen, of, acked, dst, got, restarts>>
  BY <1>1, <1>2 DEF Put, Known
<1>4. IsFiniteSet(Known) /\ Cardinality(Known) \in Nat
  BY FS_CardinalityType DEF UploadsCounted
<1>5. src[k] \in Nat /\ src[k] <= Cardinality(Known) /\ src \in [Keys -> 0..MaxPuts]
  BY BoundsNat DEF VersionsTyped, UploadsCounted
<1>6. v \in 1..MaxPuts /\ v \in 0..MaxPuts
  BY <1>2, <1>3, <1>4, <1>5, BoundsNat
<1>7. PICK e \in Event : e = [raw |-> raw, ver |-> v]
  BY <1>6 DEF Event
<1>8. e.ver = v /\ KeyOf(e) = k
  BY <1>1, <1>7 DEF KeyOf
<1>9. Known' = Known \union {e}
  BY <1>3, <1>7 DEF Known
<1>10. e \notin Known
  <2>1. ASSUME e \in Known PROVE FALSE
    <3>1. v <= src[k]
      BY <1>8, <2>1 DEF UploadsCounted
    <3> QED BY <1>2, <1>5, <3>1
  <2> QED BY <2>1
<1>11. IsFiniteSet(Known') /\ Cardinality(Known') = Cardinality(Known) + 1
  BY <1>4, <1>9, <1>10, FS_AddElement
<1>12. UploadsCounted'
  <2>1. src'[k] = v /\ \A i \in Keys : i # k => src'[i] = src[i]
    BY <1>3, <1>5
  <2>2. \A i \in Keys : src'[i] <= Cardinality(Known')
    <3>1. \A i \in Keys : src[i] \in Nat /\ src[i] <= Cardinality(Known)
      BY BoundsNat DEF VersionsTyped, UploadsCounted
    <3> QED BY <1>2, <1>4, <1>5, <1>11, <2>1, <3>1
  <2>3. \A d \in Known' : d.ver <= src'[KeyOf(d)]
    <3>1. ASSUME NEW d \in Known PROVE d.ver <= src'[KeyOf(d)]
      <4>1. d \in Event /\ d.ver <= src[KeyOf(d)]
        BY DEF VersionsTyped, UploadsCounted, Known
      <4>2. PICK i \in Keys : i = KeyOf(d)
        BY <4>1, EventKeys
      <4>3. PICK n \in Nat : n = d.ver
        BY <4>1, EventKeys, BoundsNat
      <4>4. src[i] \in Nat /\ n <= src[i]
        BY <4>1, <4>2, <4>3, BoundsNat DEF VersionsTyped
      <4>5. n <= src'[i]
        BY <1>2, <1>5, <2>1, <4>4
      <4> QED BY <4>2, <4>3, <4>5
    <3>2. e.ver <= src'[KeyOf(e)]
      BY <1>6, <1>8, <2>1
    <3> QED BY <1>9, <3>1, <3>2
  <2> QED BY <1>11, <2>2, <2>3 DEF UploadsCounted, KeyOf
<1>13. Created' = Created
  BY <1>3 DEF Created, poolVars
<1>14. HandlersTyped' /\ TablesTyped'
  <2>1. Known \subseteq Known' /\ Created \subseteq Created' /\ seen' \subseteq Keys
    BY <1>3, <1>9, <1>13 DEF TablesTyped
  <2> QED BY <1>3, <1>13, <2>1, HandlersStay, TablesStay
<1>15. VersionsTyped'
  BY <1>3, <1>6, <1>7 DEF VersionsTyped
<1> QED BY <1>12, <1>14, <1>15

LEMMA TypesRestarted ==
    ASSUME GwTypeInv, Restart
    PROVE  GwTypeInv'
<1> USE DEF GwTypeInv
<1>1. /\ restarts' = restarts + 1 /\ restarts < MaxRestarts
      /\ hpc' = [h \in Handlers |-> "free"] /\ batch' = [h \in Handlers |-> <<>>]
      /\ pos' = [h \in Handlers |-> 1] /\ tid' = [h \in Handlers |-> None]
      /\ seen' = {} /\ got' = [w \in Workers |-> 0]
      /\ UNCHANGED <<of, outbox, acked, src, dst>>
  BY DEF Restart
<1>2. Known' = Known
  BY <1>1 DEF Known
<1>3. HandlersTyped'
  <2>1. 1 \in 1..MaxBatch + 1 /\ MaxBatch \in Nat
    BY BoundsNat
  <2>2. /\ hpc' \in [Handlers -> HandlerPC] /\ batch' \in [Handlers -> Seq(Event)]
        /\ pos' \in [Handlers -> 1..MaxBatch + 1] /\ tid' \in [Handlers -> Transfers \union {None}]
    BY <1>1, <2>1 DEF HandlerPC
  <2>3. ASSUME NEW h \in Handlers
        PROVE  hpc'[h] = "free" /\ Len(batch'[h]) = 0
    BY <1>1
  <2> QED BY <2>1, <2>2, <2>3 DEF HandlersTyped
<1>4. TablesTyped'
  <2>1. restarts' \in 0..MaxRestarts
    BY <1>1, BoundsNat DEF TablesTyped
  <2> QED BY <1>1, <1>2, <2>1 DEF TablesTyped
<1>5. VersionsTyped'
  BY <1>1, BoundsNat DEF VersionsTyped
<1>6. UploadsCounted'
  BY <1>1, <1>2, UploadsStay
<1> QED BY <1>3, <1>4, <1>5, <1>6

LEMMA GwTypeInit ==
    ASSUME Init
    PROVE  GwTypeInv /\ GwPoolInv
<1>1. GwTypeInv
  <2>1. HandlersTyped
    <3>1. 1 \in 1..MaxBatch + 1 /\ MaxBatch \in Nat
      BY BoundsNat
    <3>2. /\ hpc \in [Handlers -> HandlerPC] /\ batch \in [Handlers -> Seq(Event)]
          /\ pos \in [Handlers -> 1..MaxBatch + 1] /\ tid \in [Handlers -> Transfers \union {None}]
      BY <3>1 DEF Init, HandlerPC
    <3>3. \A h \in Handlers : hpc[h] = "free" /\ Len(batch[h]) = 0
      BY DEF Init
    <3> QED BY <3>1, <3>2, <3>3 DEF HandlersTyped
  <2>2. TablesTyped
    BY BoundsNat DEF Init, TablesTyped
  <2>3. VersionsTyped
    BY BoundsNat DEF Init, VersionsTyped
  <2>4. UploadsCounted
    <3>1. Known = {}
      BY DEF Init, Known
    <3>2. IsFiniteSet({}) /\ Cardinality({}) = 0
      BY FS_EmptySet
    <3> QED BY <3>1, <3>2 DEF Init, UploadsCounted
  <2> QED BY <2>1, <2>2, <2>3, <2>4 DEF GwTypeInv
<1>2. GwPoolInv
  <2>1. Created = {}
    BY DEF Init, PoolInit, Created, NoTransfer, NewTransfer
  <2> QED BY <2>1, PoolTypeInit, PoolRecordsInit DEF Init, GwPoolInv, HandedOver, CreatedBegun
<1> QED BY <1>1, <1>2

LEMMA GwTypeStep ==
    ASSUME GwTypeInv, GwPoolInv, [Next]_vars
    PROVE  GwTypeInv'
<1>1. CASE \E h \in Handlers : Receive(h) \/ HandlerStep(h)
  BY <1>1, TypesByHandler, TypesCreated, TypesHandedOver DEF HandlerStep, PoolByItself
<1>2. CASE \E w \in Workers : MinioStep(w)
  BY <1>2, TypesCopied
<1>3. CASE \E raw \in RawKeys : Put(raw)
  BY <1>3, TypesPut
<1>4. CASE Restart
  BY <1>4, TypesRestarted
<1>5. CASE (\E k \in Keys : Expire(k)) \/ PoolMoves \/ (Exited /\ UNCHANGED gateVars) \/ Settled
           \/ UNCHANGED vars
  <2>1. /\ UNCHANGED <<hpc, batch, pos, tid, of, outbox, acked, src, dst, got, restarts>>
        /\ seen' \subseteq seen
    BY <1>5 DEF Expire, PoolMoves, Settled, vars, gateVars
  <2>2. [PoolStep]_poolVars
    BY <1>5 DEF Expire, PoolMoves, PoolStep, Exited, Settled, vars
  <2>3. Created' = Created
    BY <2>2, PoolEffect DEF GwPoolInv
  <2>4. Known' = Known /\ seen' \subseteq Keys
    BY <2>1 DEF Known, GwTypeInv, TablesTyped
  <2>5. VersionsTyped'
    BY <2>1 DEF GwTypeInv, VersionsTyped
  <2> QED BY <2>1, <2>3, <2>4, <2>5, HandlersStay, TablesStay, UploadsStay DEF GwTypeInv
<1> QED BY <1>1, <1>2, <1>3, <1>4, <1>5 DEF Next

\* What every proof below starts from.
LEMMA GwInvariant == Spec => [](GwTypeInv /\ GwPoolInv)
<1>1. Init => GwTypeInv /\ GwPoolInv
  BY GwTypeInit
<1>2. GwTypeInv /\ GwPoolInv /\ [Next]_vars => (GwTypeInv /\ GwPoolInv)'
  BY GwTypeStep, GwTypeInvTypes, GwPoolStep
<1> QED BY <1>1, <1>2, PTL DEF Spec

\* The handlers keep the types the code relies on: a request that is past the
\* dedup check is at a record of its batch, and one that is to enqueue or to
\* announce a transfer has inserted it.
THEOREM GatewayTypeCorrect == Spec => []GatewayTypeOK
BY GwInvariant, GwTypeInvTypes, PTL

-----------------------------------------------------------------------------
\* What the pool guarantees for each row, inside the gateway.  None of it depends
\* on the two defences against a second transfer of a key: it holds when the check
\* is not answered and when requests outlast the dedup window or the shutdown.

\* Also with requests that insert and enqueue in two steps, and with restarts over
\* the rows of an earlier process, a job is in one place only: two transfers of a
\* key may run at once when both defences fail, two workers on one record never.
THEOREM GatewayOneOwner == Spec => []OneOwner
<1>1. GwPoolInv => OneOwner
  BY DEF GwPoolInv, OwnershipInv
<1> QED BY <1>1, GwInvariant, PTL

\* The fields of a row are those of its status and within its retry budget, in
\* every life of the process: also of the rows an earlier one left unfinished.
THEOREM GatewayRowsSound == Spec => [](RowCoherent /\ RetryBudget)
<1>1. GwPoolInv => RowCoherent /\ RetryBudget
  BY DEF GwPoolInv, RecordInv
<1> QED BY <1>1, GwInvariant, PTL

\* A row that a reader has seen finished is never written again, by no late timer, no
\* second request and no later process.
THEOREM GatewayTerminalIsFinal == Spec => TerminalIsFinal
<1>1. ASSUME GwPoolInv, [Next]_vars, NEW t \in Transfers, table[t].status \in Terminal
      PROVE  table'[t] = table[t] /\ row'[t] = table[t]
  <2>1. PoolTypeOK /\ RecordInv /\ row[t] = table[t]
    BY <1>1 DEF GwPoolInv, RecordInv, TableIsBehind
  <2>2. CASE [PoolStep]_poolVars
    <3>1. [PoolNext]_poolVars
      BY <2>2 DEF PoolNext
    <3> QED BY <1>1, <2>1, <3>1, TerminalKept
  <2>3. CASE \E h \in Handlers : PoolByItself(h)
    BY <2>1, <2>3, ByItself DEF poolVars
  <2>4. ASSUME NEW h \in Handlers, CreateTransfer(h)
        PROVE  table'[t] = table[t] /\ row'[t] = table[t]
    <3>1. PICK u \in Transfers \ Begun : row' = [row EXCEPT ![u] = NewTransfer] /\ table' = table
      BY <2>4 DEF CreateTransfer
    <3>2. t # u
      BY <1>1, <2>1, <3>1 DEF GwPoolInv, CreatedBegun, Created, Terminal
    <3> QED BY <2>1, <3>1, <3>2 DEF PoolTypeOK
  <2>5. CASE Restart \/ \E h \in Handlers : EnqueueJob(h) \/ AnnounceQueued(h)
    BY <2>1, <2>5 DEF Restart, EnqueueJob, AnnounceQueued
  <2> QED BY <1>1, <2>2, <2>3, <2>4, <2>5, GatewaySteps
<1>2. GwPoolInv /\ [Next]_vars =>
        [\A t \in Transfers : table[t].status \in Terminal =>
             table'[t] = table[t] /\ row'[t] = table[t]]_poolVars
  BY <1>1
<1> QED BY <1>2, GwInvariant, PTL DEF Spec, TerminalIsFinal

LEMMA GwWakeStep ==
    ASSUME GwPoolInv, WakeInv, [Next]_vars
    PROVE  WakeInv'
<1>1. PoolTypeOK
  BY DEF GwPoolInv
<1>2. CASE UNCHANGED <<queue, closed, signals, pc, main>>
  BY <1>2 DEF WakeInv, NoLostWakeup, StopPhase
<1>3. CASE PoolStep
  BY <1>1, <1>3, WakeStep DEF PoolNext
<1>4. CASE [PoolStep]_poolVars \/ \E h \in Handlers : PoolByItself(h)
  BY <1>2, <1>3, <1>4, ByItself DEF poolVars
<1>5. CASE \E h \in Handlers : CreateTransfer(h) \/ AnnounceQueued(h)
  BY <1>2, <1>5 DEF CreateTransfer, AnnounceQueued
<1>6. ASSUME NEW h \in Handlers, EnqueueJob(h)
      PROVE  WakeInv'
  <2>1. /\ hpc[h] = "enqueue" /\ Enqueue([id |-> tid[h], retryCount |-> 0])
        /\ UNCHANGED <<pc, closed, main>>
    BY <1>6 DEF EnqueueJob, HGoto
  <2>2. [id |-> tid[h], retryCount |-> 0] \in TransferJob
    BY <2>1 DEF GwPoolInv, HandedOver, TransferJob
  <2> QED BY <1>1, <2>1, <2>2, WakeEnqueued
<1>7. CASE Restart
  BY <1>7 DEF Restart, WakeInv, NoLostWakeup, StopPhase
<1> QED BY <1>4, <1>5, <1>6, <1>7, GatewaySteps

\* However many requests enqueue at once, also one that outlasted the wait of
\* srv.Shutdown and enqueues after Stop closed the queue: while a worker sleeps,
\* every queued job has a Signal to come or a worker about to look at the queue.
THEOREM GatewayNoLostWakeup == Spec => []NoLostWakeup
<1>1. Init => WakeInv
  BY DEF Init, PoolInit, WakeInv, NoLostWakeup, StopPhase
<1>2. GwPoolInv /\ WakeInv /\ [Next]_vars => WakeInv'
  BY GwWakeStep
<1>3. WakeInv => NoLostWakeup
  BY DEF WakeInv
<1> QED BY <1>1, <1>2, <1>3, GwInvariant, PTL DEF Spec

-----------------------------------------------------------------------------
\* One unfinished transfer of a key.  The deduper lets one request at a time
\* between its mark and the INSERT of a key, and keeps the mark until the INSERT has
\* committed, so that what the database check found is still true when the row is
\* inserted, although the check does not see the batch that is open.

\* The request holds the mark of its record's key.
Marking(h) == hpc[h] \in {"check", "create"}

\* The row is inserted, and no reader sees it yet.
Uncommitted(t) == t \in Created /\ table[t].status = "absent"

\* The mark does not expire under a request that is still on its way.
InWindow == \A h \in Handlers : Marking(h) => KeyOf(Rec(h)) \in seen

OneMarker ==
    \A g, h \in Handlers :
        Marking(g) /\ Marking(h) /\ KeyOf(Rec(g)) = KeyOf(Rec(h)) => g = h

\* The mark covers the row that the check would miss, and belongs to nobody else.
InsertsMarked ==
    \A t \in Begun : Uncommitted(t) =>
        /\ RowKey(t) \in seen
        /\ \A h \in Handlers : Marking(h) => KeyOf(Rec(h)) # RowKey(t)

\* No transfer of this key is unfinished, committed or not.
FreeOf(k) == \A t \in Begun : SeenActive(t) => RowKey(t) # k

CheckStands == \A h \in Handlers : hpc[h] = "create" => FreeOf(KeyOf(Rec(h)))

DedupInv == InWindow /\ OneMarker /\ InsertsMarked /\ CheckStands /\ OneActivePerKey

\* Nobody marks a key, no check is passed and no row is added.
LEMMA DedupKept ==
    ASSUME DedupInv,
           \A h \in Handlers : Marking(h)' =>
               /\ Marking(h) /\ Rec(h)' = Rec(h) /\ hpc'[h] = hpc[h]
               /\ KeyOf(Rec(h)) \in seen',
           \A t \in Transfers : SeenActive(t)' => SeenActive(t),
           \A t \in Begun : Uncommitted(t)' => Uncommitted(t) /\ RowKey(t) \in seen',
           UNCHANGED of
    PROVE  DedupInv'
<1>0. \A h \in Handlers : hpc'[h] = "create" => Marking(h)'
  BY DEF Marking
<1>1. InWindow' /\ OneMarker'
  BY DEF DedupInv, InWindow, OneMarker, KeyOf
<1>2. Begun' = Begun /\ Begun \subseteq Transfers /\ \A t : RowKey(t)' = RowKey(t)
  BY DEF Begun, RowKey, KeyOf
<1>3. OneActivePerKey'
  BY <1>2 DEF DedupInv, OneActivePerKey
<1>4. InsertsMarked'
  BY <1>2 DEF DedupInv, InsertsMarked, KeyOf
<1>5. CheckStands'
  BY <1>0, <1>2 DEF DedupInv, CheckStands, FreeOf, KeyOf
<1> QED BY <1>1, <1>3, <1>4, <1>5 DEF DedupInv

\* A step of a request is nobody else's.
LEMMA OthersStay ==
    ASSUME HandlersTyped, NEW h \in Handlers, Receive(h) \/ HandlerStep(h)
    PROVE  \A g \in Handlers : g # h =>
             /\ hpc'[g] = hpc[g] /\ batch'[g] = batch[g] /\ pos'[g] = pos[g] /\ tid'[g] = tid[g]
             /\ Rec(g)' = Rec(g)
<1>0. /\ hpc \in [Handlers -> HandlerPC] /\ batch \in [Handlers -> Seq(Event)]
      /\ pos \in [Handlers -> 1..MaxBatch + 1] /\ tid \in [Handlers -> Transfers \union {None}]
  BY DEF HandlersTyped
<1>1. \E p : hpc' = [hpc EXCEPT ![h] = p]
  BY DEF HandlerStep, Receive, SkipDuplicate, MarkSeen, SkipActive, NoActive, CreateTransfer,
         CreateFails, EnqueueJob, AnnounceQueued, Accept, HGoto
<1>2. (\E b : batch' = [batch EXCEPT ![h] = b]) \/ batch' = batch
  BY DEF HandlerStep, Receive, SkipDuplicate, MarkSeen, SkipActive, NoActive, CreateTransfer,
         CreateFails, EnqueueJob, AnnounceQueued, Accept, Finish
<1>3. (\E p : pos' = [pos EXCEPT ![h] = p]) \/ pos' = pos
  BY DEF HandlerStep, Receive, SkipDuplicate, MarkSeen, SkipActive, NoActive, CreateTransfer,
         CreateFails, EnqueueJob, AnnounceQueued, Accept, Finish, NextRecord
<1>4. (\E i : tid' = [tid EXCEPT ![h] = i]) \/ tid' = tid
  BY DEF HandlerStep, Receive, SkipDuplicate, MarkSeen, SkipActive, NoActive, CreateTransfer,
         CreateFails, EnqueueJob, AnnounceQueued, Accept
<1>5. \A g \in Handlers : g # h => /\ hpc'[g] = hpc[g] /\ batch'[g] = batch[g]
                                   /\ pos'[g] = pos[g] /\ tid'[g] = tid[g]
  BY <1>0, <1>1, <1>2, <1>3, <1>4
<1> QED BY <1>5 DEF Rec

\* A key is marked: no other request is between this mark and its INSERT.
LEMMA DedupMarked ==
    ASSUME HandlersTyped, DedupInv, NEW h \in Handlers, MarkSeen(h)
    PROVE  DedupInv'
<1>1. /\ hpc'[h] = "check" /\ Rec(h)' = Rec(h) /\ KeyOf(Rec(h)) \notin seen
      /\ seen' = seen \union {KeyOf(Rec(h))} /\ UNCHANGED <<poolVars, of>>
  BY DEF MarkSeen, HGoto, HandlersTyped, Rec
<1>2. \A g \in Handlers : g # h => hpc'[g] = hpc[g] /\ Rec(g)' = Rec(g)
  BY OthersStay DEF HandlerStep
<1>3. /\ UNCHANGED <<row, table, of>> /\ Begun' = Begun
      /\ \A t : RowKey(t)' = RowKey(t) /\ SeenActive(t)' = SeenActive(t)
                /\ Uncommitted(t)' = Uncommitted(t)
  BY <1>1 DEF poolVars, Begun, RowKey, KeyOf, SeenActive, Uncommitted, Created
<1>4. InWindow'
  BY <1>1, <1>2 DEF DedupInv, InWindow, Marking, KeyOf
<1>5. OneMarker'
  BY <1>1, <1>2 DEF DedupInv, InWindow, OneMarker, Marking, KeyOf
<1>6. InsertsMarked'
  BY <1>1, <1>2, <1>3 DEF DedupInv, InsertsMarked, Marking, KeyOf
<1>7. CheckStands'
  BY <1>1, <1>2, <1>3 DEF DedupInv, CheckStands, FreeOf, KeyOf
<1>8. OneActivePerKey'
  BY <1>3 DEF DedupInv, OneActivePerKey
<1> QED BY <1>4, <1>5, <1>6, <1>7, <1>8 DEF DedupInv

\* The committed table has no unfinished row of a key: the open batch has none
\* either, because the request at the check holds the key's mark.
LEMMA FreeForMarker ==
    ASSUME GwPoolInv, DedupInv, NEW h \in Handlers, Marking(h), NEW k, k = KeyOf(Rec(h)),
           ~HasActiveTransfer(k)
    PROVE  FreeOf(k)
<1>1. ASSUME NEW t \in Begun, SeenActive(t), RowKey(t) = k
      PROVE  FALSE
  <2>1. table[t].status \notin Active
    BY <1>1 DEF HasActiveTransfer
  <2>2. t \in Transfers /\ row[t].status \in Active
    BY <1>1, <2>1 DEF SeenActive, Begun
  <2>3. table[t].status \notin Terminal
    BY <2>2 DEF GwPoolInv, RecordInv, TableIsBehind, Active, Terminal
  <2>4. table[t].status = "absent"
    BY <2>1, <2>2, <2>3 DEF GwPoolInv, PoolTypeOK, Transfer, Status
  <2>5. Uncommitted(t)
    BY <2>2, <2>4 DEF Uncommitted, Created, Active
  <2> QED BY <1>1, <2>5 DEF DedupInv, InsertsMarked
<1> QED BY <1>1 DEF FreeOf

\* The database is asked, and answers.
LEMMA DedupChecked ==
    ASSUME HandlersTyped, GwPoolInv, DedupInv, ReadMayFail = FALSE,
           NEW h \in Handlers, NoActive(h)
    PROVE  DedupInv'
<1>1. /\ hpc[h] = "check" /\ hpc'[h] = "create" /\ Rec(h)' = Rec(h)
      /\ ~HasActiveTransfer(KeyOf(Rec(h))) /\ UNCHANGED <<poolVars, of, seen>>
  BY DEF NoActive, HGoto, HandlersTyped, Rec
<1>2. \A g \in Handlers : g # h => hpc'[g] = hpc[g] /\ Rec(g)' = Rec(g)
  BY OthersStay DEF HandlerStep
<1>3. /\ Begun' = Begun
      /\ \A t : RowKey(t)' = RowKey(t) /\ SeenActive(t)' = SeenActive(t)
                /\ Uncommitted(t)' = Uncommitted(t)
  BY <1>1 DEF poolVars, Begun, RowKey, KeyOf, SeenActive, Uncommitted, Created
<1>4. \A g \in Handlers : Rec(g)' = Rec(g) /\ (Marking(g)' <=> Marking(g))
  BY <1>1, <1>2 DEF Marking
<1>5. InWindow' /\ OneMarker' /\ InsertsMarked'
  BY <1>1, <1>3, <1>4 DEF DedupInv, InWindow, OneMarker, InsertsMarked, KeyOf
<1>6. CheckStands'
  <2>1. FreeOf(KeyOf(Rec(h)))
    BY <1>1, FreeForMarker DEF Marking
  <2> QED BY <1>1, <1>2, <1>3, <2>1 DEF DedupInv, CheckStands, FreeOf, KeyOf
<1>7. OneActivePerKey'
  BY <1>3 DEF DedupInv, OneActivePerKey
<1> QED BY <1>5, <1>6, <1>7 DEF DedupInv

\* The row is inserted: what the check said of its key still held.
LEMMA DedupCreated ==
    ASSUME GwTypeInv, GwPoolInv, DedupInv, NEW h \in Handlers, CreateTransfer(h)
    PROVE  DedupInv'
<1> USE DEF GwTypeInv
<1>0. PICK k : k = KeyOf(Rec(h))
  OBVIOUS
<1>1. /\ hpc[h] = "create" /\ hpc'[h] = "enqueue" /\ UNCHANGED <<seen, table>>
  BY DEF CreateTransfer, HGoto, HandlersTyped
<1>2. PICK t \in Transfers \ Begun :
        of' = [of EXCEPT ![t] = Rec(h)] /\ row' = [row EXCEPT ![t] = NewTransfer]
  BY DEF CreateTransfer
<1>3. /\ \A u \in Transfers : u # t => row'[u] = row[u] /\ RowKey(u)' = RowKey(u)
      /\ row'[t] = NewTransfer /\ RowKey(t)' = k
  BY <1>0, <1>2 DEF TablesTyped, GwPoolInv, PoolTypeOK, RowKey, KeyOf
<1>4. Begun' = Begun \union {t} /\ Begun \subseteq Transfers
  BY <1>2, BegunCreated, GwTypeInvTypes DEF Begun
<1>5. \A u \in Begun : (SeenActive(u)' <=> SeenActive(u)) /\ (Uncommitted(u)' <=> Uncommitted(u))
  BY <1>1, <1>2, <1>3, <1>4 DEF SeenActive, Uncommitted, Created
<1>6. \A g \in Handlers : Marking(g)' => g # h /\ Marking(g) /\ Rec(g)' = Rec(g) /\ hpc'[g] = hpc[g]
  BY <1>1, OthersStay DEF HandlerStep, Marking
<1>7. \A g \in Handlers : Marking(g)' => KeyOf(Rec(g)) # k
  BY <1>0, <1>1, <1>6 DEF DedupInv, OneMarker, Marking
<1>8. InWindow' /\ OneMarker'
  BY <1>1, <1>6 DEF DedupInv, InWindow, OneMarker, KeyOf
<1>9. InsertsMarked'
  <2>1. k \in seen
    BY <1>0, <1>1 DEF DedupInv, InWindow, Marking
  <2> QED BY <1>1, <1>2, <1>3, <1>4, <1>5, <1>6, <1>7, <2>1 DEF DedupInv, InsertsMarked, KeyOf
<1>10. FreeOf(k)
  BY <1>0, <1>1 DEF DedupInv, CheckStands
<1>11. OneActivePerKey'
  BY <1>2, <1>3, <1>4, <1>5, <1>10 DEF DedupInv, OneActivePerKey, FreeOf
<1>12. CheckStands'
  <2>1. ASSUME NEW g \in Handlers, hpc'[g] = "create", NEW u \in Begun', SeenActive(u)'
        PROVE  RowKey(u)' # KeyOf(Rec(g))'
    <3>1. hpc[g] = "create" /\ Marking(g)' /\ Rec(g)' = Rec(g)
      BY <1>6, <2>1 DEF Marking
    <3>2. CASE u = t
      BY <1>3, <1>7, <3>1, <3>2 DEF KeyOf
    <3>3. CASE u # t
      BY <1>3, <1>4, <1>5, <2>1, <3>1, <3>3 DEF DedupInv, CheckStands, FreeOf, KeyOf
    <3> QED BY <3>2, <3>3
  <2> QED BY <2>1 DEF CheckStands, FreeOf
<1> QED BY <1>8, <1>9, <1>11, <1>12 DEF DedupInv

LEMMA DedupStep ==
    ASSUME ReadMayFail = FALSE, SlowHandler = FALSE, GwTypeInv, GwPoolInv, DedupInv, [Next]_vars
    PROVE  DedupInv'
<1> USE DEF GwTypeInv
<1>1. CASE \E h \in Handlers : MarkSeen(h) \/ NoActive(h) \/ CreateTransfer(h)
  BY <1>1, DedupMarked, DedupChecked, DedupCreated
<1>2. CASE \E h \in Handlers : Receive(h) \/ SkipDuplicate(h) \/ SkipActive(h) \/ CreateFails(h)
                               \/ EnqueueJob(h) \/ AnnounceQueued(h) \/ Accept(h)
  <2>1. PICK h \in Handlers : Receive(h) \/ SkipDuplicate(h) \/ SkipActive(h) \/ CreateFails(h)
                              \/ EnqueueJob(h) \/ AnnounceQueued(h) \/ Accept(h)
    BY <1>2
  <2>2. hpc'[h] \in {"free", "record", "announce"}
    BY <2>1 DEF Receive, SkipDuplicate, SkipActive, CreateFails, EnqueueJob, AnnounceQueued, Accept,
                HGoto, HandlersTyped
  <2>3. \A g \in Handlers : g # h => hpc'[g] = hpc[g] /\ Rec(g)' = Rec(g)
    BY <2>1, OthersStay DEF HandlerStep
  <2>4. UNCHANGED <<row, table, of, seen>>
    BY <2>1 DEF Receive, SkipDuplicate, SkipActive, CreateFails, EnqueueJob, AnnounceQueued, Accept,
                poolVars
  <2>5. \A t : SeenActive(t)' = SeenActive(t) /\ Uncommitted(t)' = Uncommitted(t)
    BY <2>4 DEF SeenActive, Uncommitted, Created
  <2>6. ASSUME NEW g \in Handlers, Marking(g)'
        PROVE  Marking(g) /\ Rec(g)' = Rec(g) /\ hpc'[g] = hpc[g] /\ KeyOf(Rec(g)) \in seen'
    BY <2>2, <2>3, <2>4, <2>6 DEF Marking, DedupInv, InWindow
  <2> QED BY <2>4, <2>5, <2>6, DedupKept DEF DedupInv, InsertsMarked
<1>3. CASE \E k \in Keys : Expire(k)
  <2>1. PICK k \in Keys : Expire(k)
    BY <1>3
  <2>2. UNCHANGED <<poolVars, hpc, batch, pos, of>> /\ seen' = seen \ {k}
    BY <2>1 DEF Expire
  <2>3. \A h \in Handlers : Marking(h) => KeyOf(Rec(h)) # k
    BY <2>1 DEF Expire, Marking
  <2>4. \A t : SeenActive(t)' = SeenActive(t) /\ Uncommitted(t)' = Uncommitted(t)
    BY <2>2 DEF poolVars, SeenActive, Uncommitted, Created
  <2>6. \A t \in Begun : Uncommitted(t) => RowKey(t) \in seen'
    BY <2>1, <2>2 DEF Expire, Inserting, Uncommitted, DedupInv, InsertsMarked
  <2>5. ASSUME NEW g \in Handlers, Marking(g)'
        PROVE  Marking(g) /\ Rec(g)' = Rec(g) /\ hpc'[g] = hpc[g] /\ KeyOf(Rec(g)) \in seen'
    BY <2>2, <2>3, <2>5 DEF Marking, Rec, DedupInv, InWindow
  <2> QED BY <2>2, <2>4, <2>5, <2>6, DedupKept
<1>4. CASE Restart
  <2>1. row' = table /\ UNCHANGED <<table, of>> /\ \A h \in Handlers : hpc'[h] = "free"
    BY <1>4 DEF Restart
  <2>2. /\ \A h \in Handlers : ~Marking(h)'
        /\ \A t : (SeenActive(t)' => SeenActive(t)) /\ ~Uncommitted(t)'
    BY <2>1 DEF SeenActive, Uncommitted, Created, Marking
  <2> QED BY <2>1, <2>2, DedupKept
<1>5. CASE \/ \E raw \in RawKeys : Put(raw)
           \/ \E w \in Workers : MinioStep(w)
           \/ PoolMoves \/ (Exited /\ UNCHANGED gateVars) \/ Settled \/ UNCHANGED vars
  <2>1. [PoolStep]_poolVars /\ UNCHANGED <<hpc, batch, pos, seen, of>>
    <3>1. CASE \E w \in Workers : MinioStep(w)
      BY <3>1 DEF MinioStep, Download, Upload, DownloadFails, UploadFails, PoolStep, MinioAnswers,
                  gateVars
    <3>2. CASE PoolMoves
      BY <3>2 DEF PoolMoves, PoolStep, gateVars
    <3>3. CASE (\E raw \in RawKeys : Put(raw)) \/ (Exited /\ UNCHANGED gateVars) \/ Settled
               \/ UNCHANGED vars
      BY <3>3 DEF Put, Exited, Settled, vars, gateVars
    <3> QED BY <1>5, <3>1, <3>2, <3>3
  <2>2. /\ \A t \in Transfers : row'[t].status \in Active => row[t].status \in Active
        /\ Created' = Created
        /\ table' = table \/ (table' = row /\ row' = row)
    BY <2>1, PoolEffect DEF GwPoolInv
  <2>4. \A t \in Transfers : (SeenActive(t)' => SeenActive(t)) /\ (Uncommitted(t)' => Uncommitted(t))
    BY <2>2 DEF SeenActive, Uncommitted, Created
  <2>5. \A t \in Begun : Uncommitted(t)' => Uncommitted(t) /\ RowKey(t) \in seen'
    BY <2>1, <2>4 DEF DedupInv, InsertsMarked, Begun
  <2>3. ASSUME NEW g \in Handlers, Marking(g)'
        PROVE  Marking(g) /\ Rec(g)' = Rec(g) /\ hpc'[g] = hpc[g] /\ KeyOf(Rec(g)) \in seen'
    BY <2>1, <2>3 DEF Marking, Rec, DedupInv, InWindow
  <2> QED BY <2>1, <2>3, <2>4, <2>5, DedupKept
<1> QED BY <1>1, <1>2, <1>3, <1>4, <1>5 DEF Next, HandlerStep

LEMMA GwDedup ==
    ASSUME ReadMayFail = FALSE, SlowHandler = FALSE
    PROVE  Spec => []DedupInv
<1>1. Init => DedupInv
  <2>1. SUFFICES ASSUME Init PROVE DedupInv
    OBVIOUS
  <2>2. Begun = {} /\ \A h \in Handlers : hpc[h] = "free"
    BY <2>1 DEF Init, Begun
  <2> QED BY <2>2 DEF DedupInv, InWindow, OneMarker, InsertsMarked, CheckStands, OneActivePerKey,
                      Marking
<1>2. GwTypeInv /\ GwPoolInv /\ DedupInv /\ [Next]_vars => DedupInv'
  BY DedupStep
<1> QED BY <1>1, <1>2, GwInvariant, PTL DEF Spec

\* Whatever notifications arrive on however many connections, whatever fails
\* and whenever a batch commits or the process is restarted, a key never has two
\* unfinished rows, for the writer or for a reader: as long as the check's SELECT is
\* answered and the dedup window does not end between a request's mark and the commit
\* of its INSERT.
THEOREM GatewayOneActivePerKey ==
    ASSUME ReadMayFail = FALSE, SlowHandler = FALSE
    PROVE  Spec => []OneActivePerKey
<1>1. DedupInv => OneActivePerKey
  BY DEF DedupInv
<1> QED BY <1>1, GwDedup, PTL

-----------------------------------------------------------------------------
\* Who carries a transfer.  Carried is what the pool owns, less what it has
\* finished and only has to announce, and what the handlers are to enqueue.

Ended == {job[w].id : w \in {v \in Workers : pc[v] \in {"completed", "failed"}}}

HandedIn == {tid[h] : h \in {g \in Handlers : hpc[g] = "enqueue"}}

CarriedSplits == Carried = (Owned \ Ended) \union HandedIn

LEMMA CarriedIs == PoolTypeOK /\ OneOwner => CarriedSplits
<1> SUFFICES ASSUME PoolTypeOK, OneOwner
             PROVE  CarriedSplits
  OBVIOUS
<1>1. ASSUME NEW t \in Queued \union Delayed
      PROVE  t \in Owned /\ t \notin Ended
  <2>1. t \in Owned /\ t \notin Held
    BY <1>1 DEF Owned, OneOwner, OnePlace
  <2>2. Ended \subseteq Held
    BY DEF Ended, Held, Busy
  <2> QED BY <2>1, <2>2
<1>2. ASSUME NEW w \in Workers, pc[w] \in Unfinished \union {"retrying"}
      PROVE  job[w].id \in Owned /\ job[w].id \notin Ended
  <2>1. pc[w] \in Busy /\ pc[w] \notin {"completed", "failed"}
    BY <1>2 DEF Unfinished, Busy
  <2>2. job[w].id \in Owned
    BY <2>1, OwnedMember
  <2>3. ASSUME NEW v \in Workers, pc[v] \in {"completed", "failed"}, job[v].id = job[w].id
        PROVE  FALSE
    <3>1. v = w
      BY <2>1, <2>3 DEF OneOwner, HeldOnce, Busy
    <3> QED BY <2>1, <2>3, <3>1
  <2> QED BY <2>2, <2>3 DEF Ended
<1>3. ASSUME NEW t \in Held, t \notin Ended
      PROVE  \E w \in Workers : pc[w] \in Unfinished \union {"retrying"} /\ job[w].id = t
  <2>1. PICK w \in Workers : pc[w] \in Busy /\ job[w].id = t
    BY DEF Held
  <2>2. pc[w] \notin {"completed", "failed"}
    BY <1>3, <2>1 DEF Ended
  <2>3. pc[w] \in Unfinished \union {"retrying"}
    BY <2>1, <2>2 DEF Unfinished, Busy
  <2> QED BY <2>1, <2>3
<1>4. Carried \subseteq (Owned \ Ended) \union HandedIn
  BY <1>1, <1>2 DEF Carried, HandedIn
<1>5. (Owned \ Ended) \union HandedIn \subseteq Carried
  BY <1>3 DEF Carried, HandedIn, Owned
<1> QED BY <1>4, <1>5 DEF CarriedSplits

LEMMA CarriedIsNext == (PoolTypeOK /\ OneOwner => CarriedSplits)'
BY CarriedIs, PTL

\* A transfer in a handler's hands is not the pool's.
LEMMA HandedInApart ==
    ASSUME HandedOver
    PROVE  HandedIn \intersect Owned = {}
BY DEF HandedOver, HandedIn

LEMMA EndedStays ==
    ASSUME \A v \in Workers :
             /\ pc'[v] \in {"completed", "failed"} <=> pc[v] \in {"completed", "failed"}
             /\ pc[v] \in {"completed", "failed"} => job'[v] = job[v]
    PROVE  Ended' = Ended
BY DEF Ended

\* The pool stops working on a transfer when it writes how it ended, and not
\* before.
LEMMA CarriedByPool ==
    ASSUME GwPoolInv, GwPoolInv', [PoolStep]_poolVars, UNCHANGED <<hpc, tid>>
    PROVE  \/ Carried' = Carried
           \/ \E w \in Workers : /\ Succeed(w) \/ Fail(w)
                                 /\ Carried' = Carried \ {job[w].id}
<1> USE DEF GwPoolInv
<1>1. /\ Carried = (Owned \ Ended) \union HandedIn
      /\ Carried' = (Owned' \ Ended') \union HandedIn'
      /\ HandedIn' = HandedIn /\ HandedIn \intersect Owned = {}
  <2>1. OneOwner /\ OneOwner'
    BY DEF OwnershipInv
  <2>2. Carried = (Owned \ Ended) \union HandedIn
    BY <2>1, CarriedIs DEF CarriedSplits
  <2>3. Carried' = (Owned' \ Ended') \union HandedIn'
    BY <2>1, CarriedIsNext DEF CarriedSplits
  <2>4. HandedIn' = HandedIn
    BY DEF HandedIn
  <2> QED BY <2>2, <2>3, <2>4, HandedInApart
<1>2. CASE \E w \in Workers : AnnounceCompleted(w) \/ AnnounceFailed(w)
  <2>1. PICK w \in Workers : AnnounceCompleted(w) \/ AnnounceFailed(w)
    BY <1>2
  <2>2. pc[w] \in {"completed", "failed"} /\ Return(w, pc[w]) /\ UNCHANGED <<queue, timers>>
    BY <2>1 DEF AnnounceCompleted, AnnounceFailed, Return, Goto
  <2>3. Owned' = Owned \ {job[w].id}
    BY <2>2, OwnedReleased DEF OwnershipInv, Busy
  <2>4. /\ pc'[w] = "lock"
        /\ \A v \in Workers : v # w => pc'[v] = pc[v] /\ job'[v] = job[v]
    BY <2>2 DEF Return, Goto, PoolTypeOK
  <2>5. \A v \in Workers : v # w /\ pc[v] \in {"completed", "failed"} => job[v].id # job[w].id
    BY <2>2 DEF OwnershipInv, OneOwner, HeldOnce, Busy
  <2>6. Ended' = Ended \ {job[w].id} /\ job[w].id \in Ended
    BY <2>2, <2>4, <2>5 DEF Ended
  <2> QED BY <1>1, <2>3, <2>6
<1>3. CASE \E w \in Workers : Succeed(w) \/ Fail(w)
  <2>1. PICK w \in Workers : Succeed(w) \/ Fail(w)
    BY <1>3
  <2>2. /\ pc[w] \in {"success", "error"} /\ pc'[w] \in {"completed", "failed"} /\ job' = job
        /\ \A v \in Workers : v # w => pc'[v] = pc[v]
        /\ UNCHANGED <<queue, timers>>
    BY <2>1 DEF Succeed, Fail, Goto, PoolTypeOK
  <2>3. Owned' = Owned /\ job[w].id \in Owned
    BY <2>2, OwnedStays, OwnedMember DEF Busy
  <2>4. Ended' = Ended \union {job[w].id}
    BY <2>2 DEF Ended
  <2> QED BY <1>1, <2>1, <2>3, <2>4
<1>4. CASE /\ ~ \E w \in Workers : AnnounceCompleted(w) \/ AnnounceFailed(w)
           /\ ~ \E w \in Workers : Succeed(w) \/ Fail(w)
  <2>1. Owned' = Owned
    BY <1>4, PoolEffect
  <2>2. Ended' = Ended
    <3>1. ASSUME NEW w \in Workers, WorkerStep(w) \/ MinioAnswers(w)
          PROVE  /\ pc[w] \notin {"completed", "failed"} /\ pc'[w] \notin {"completed", "failed"}
                 /\ \A v \in Workers : v # w => pc'[v] = pc[v] /\ job'[v] = job[v]
      <4>1. CASE Take(w) \/ Wait(w) \/ Exit(w)
        BY <4>1 DEF Take, Wait, Exit, Goto, PoolTypeOK
      <4>2. CASE StartFirstAttempt(w) \/ StartRetry(w) \/ AnnounceStarted(w)
        BY <4>2 DEF StartFirstAttempt, StartRetry, AnnounceStarted, Goto, PoolTypeOK
      <4>3. CASE ScheduleRetry(w) \/ ArmRetryTimer(w)
        BY <4>3 DEF ScheduleRetry, ArmRetryTimer, Return, Goto, PoolTypeOK
      <4>4. CASE MinioAnswers(w)
        BY <4>4 DEF MinioAnswers, GetOk, GetErr, PutOk, PutErr, Goto, PoolTypeOK
      <4> QED BY <1>4, <3>1, <4>1, <4>2, <4>3, <4>4 DEF WorkerStep
    <3>2. CASE Signal
      BY <3>2, EndedStays DEF Signal, Goto, PoolTypeOK
    <3>3. CASE StopBroadcast
      BY <3>3, EndedStays DEF StopBroadcast
    <3>4. CASE (\E j \in timers : RetryTimer(j)) \/ CommitBatch \/ Terminate \/ StopClose
               \/ StopReturn \/ UNCHANGED poolVars
      BY <3>4, EndedStays DEF RetryTimer, CommitBatch, Terminate, StopClose, StopReturn, poolVars
    <3> QED BY <3>1, <3>2, <3>3, <3>4, EndedStays DEF PoolStep, Shutdown
  <2> QED BY <1>1, <2>1, <2>2
<1> QED BY <1>2, <1>3, <1>4

\* A request inserts a transfer and carries it.
LEMMA CarriedCreated ==
    ASSUME GwTypeInv, GwPoolInv, GwPoolInv', NEW h \in Handlers, CreateTransfer(h)
    PROVE  \E t \in Transfers \ Begun :
             /\ Carried' = Carried \union {t} /\ Begun' = Begun \union {t}
             /\ of' = [of EXCEPT ![t] = Rec(h)] /\ row' = [row EXCEPT ![t] = NewTransfer]
<1> USE DEF GwTypeInv, GwPoolInv
<1>1. PICK t \in Transfers \ Begun :
        /\ tid' = [tid EXCEPT ![h] = t] /\ of' = [of EXCEPT ![t] = Rec(h)]
        /\ row' = [row EXCEPT ![t] = NewTransfer]
  BY DEF CreateTransfer
<1>2. Begun' = Begun \union {t}
  BY <1>1, BegunCreated, GwTypeInvTypes
<1>3. /\ hpc[h] = "create" /\ hpc'[h] = "enqueue" /\ tid'[h] = t
      /\ \A g \in Handlers : g # h => hpc'[g] = hpc[g] /\ tid'[g] = tid[g]
      /\ UNCHANGED <<queue, pc, job, timers>>
  BY <1>1 DEF CreateTransfer, HGoto, HandlersTyped
<1>4. Carried' = Carried \union {t}
  <2>1. HandedIn' = HandedIn \union {t}
    BY <1>3 DEF HandedIn
  <2>2. Carried = (Queued \union Delayed
                   \union {job[w].id : w \in {v \in Workers : pc[v] \in Unfinished \union {"retrying"}}})
                  \union HandedIn
    BY DEF Carried, HandedIn
  <2>3. Carried' = (Queued \union Delayed
                    \union {job[w].id : w \in {v \in Workers : pc[v] \in Unfinished \union {"retrying"}}})
                   \union HandedIn'
    BY <1>3 DEF Carried, HandedIn, Queued, Delayed
  <2> QED BY <2>1, <2>2, <2>3
<1> QED BY <1>1, <1>2, <1>4

\* The job takes over from the request that made it.
LEMMA CarriedEnqueued ==
    ASSUME HandlersTyped, GwPoolInv, GwPoolInv', NEW h \in Handlers, EnqueueJob(h)
    PROVE  Carried' = Carried
<1> USE DEF GwPoolInv
<1>1. /\ hpc[h] = "enqueue" /\ hpc'[h] = "announce"
      /\ \A g \in Handlers : g # h => hpc'[g] = hpc[g]
      /\ UNCHANGED <<pc, job, timers, tid>>
  BY DEF EnqueueJob, HGoto, HandlersTyped
<1>2. PICK j \in TransferJob : j.id = tid[h] /\ Enqueue(j)
  <2>1. tid[h] \in Transfers
    BY <1>1 DEF HandedOver
  <2> QED BY <2>1 DEF EnqueueJob, TransferJob
<1>3. Owned' = Owned \union {tid[h]}
  BY <1>1, <1>2, OwnedEnqueued
<1>4. Ended' = Ended /\ Ended \subseteq Owned
  <2>1. Ended' = Ended
    BY <1>1 DEF Ended
  <2>2. Ended \subseteq Owned
    BY DEF Ended, Owned, Held, Busy
  <2> QED BY <2>1, <2>2
<1>5. HandedIn = HandedIn' \union {tid[h]}
  BY <1>1 DEF HandedIn
<1>6. tid[h] \notin Owned
  BY <1>1 DEF HandedOver
<1>7. /\ Carried = (Owned \ Ended) \union HandedIn
      /\ Carried' = (Owned' \ Ended') \union HandedIn'
  BY CarriedIs, CarriedIsNext DEF CarriedSplits, OwnershipInv
<1> QED BY <1>3, <1>4, <1>5, <1>6, <1>7

LEMMA CarriedRestarted ==
    ASSUME Restart
    PROVE  Carried' = {}
<1>1. /\ queue' = <<>> /\ timers' = {} /\ \A w \in Workers : pc'[w] = "lock"
      /\ \A h \in Handlers : hpc'[h] = "free"
  BY DEF Restart
<1>2. Len(queue') = 0
  BY <1>1
<1> QED BY <1>1, <1>2 DEF Carried, Queued, Delayed, Unfinished, Busy

\* The ways in which what is carried can change.
CarriedChange ==
    \/ Carried' = Carried /\ UNCHANGED of
    \/ /\ UNCHANGED of
       /\ \E w \in Workers : (Succeed(w) \/ Fail(w)) /\ Carried' = Carried \ {job[w].id}
    \/ \E h \in Handlers : CreateTransfer(h) /\ \E t \in Transfers \ Begun :
         /\ Carried' = Carried \union {t} /\ Begun' = Begun \union {t}
         /\ of' = [of EXCEPT ![t] = Rec(h)] /\ row' = [row EXCEPT ![t] = NewTransfer]
    \/ Restart /\ Carried' = {} /\ UNCHANGED of

LEMMA CarriedStep ==
    ASSUME GwTypeInv, GwPoolInv, GwPoolInv', [Next]_vars
    PROVE  CarriedChange
<1> USE DEF GwTypeInv
<1>1. CASE [PoolStep]_poolVars /\ UNCHANGED <<hpc, tid, of>>
  BY <1>1, CarriedByPool DEF CarriedChange
<1>2. ASSUME NEW h \in Handlers, PoolByItself(h) \/ AnnounceQueued(h)
      PROVE  CarriedChange
  <2>1. UNCHANGED <<queue, pc, job, timers, of>>
    BY <1>2, ByItself DEF AnnounceQueued, poolVars
  <2>2. /\ hpc[h] # "enqueue" /\ hpc'[h] # "enqueue"
        /\ \A g \in Handlers : g # h => hpc'[g] = hpc[g] /\ tid'[g] = tid[g]
    <3>1. hpc[h] # "enqueue" /\ hpc'[h] # "enqueue"
      BY <1>2, ByItself DEF AnnounceQueued, HGoto, HandlersTyped
    <3> QED BY <1>2, <3>1, OthersStay DEF HandlerStep, PoolByItself
  <2>3. HandedIn' = HandedIn
    BY <2>2 DEF HandedIn
  <2>4. Carried' = Carried
    BY <2>1, <2>3 DEF Carried, HandedIn, Queued, Delayed
  <2> QED BY <2>1, <2>4 DEF CarriedChange
<1>3. ASSUME NEW h \in Handlers, CreateTransfer(h)
      PROVE  CarriedChange
  BY <1>3, CarriedCreated DEF CarriedChange
<1>4. ASSUME NEW h \in Handlers, EnqueueJob(h)
      PROVE  CarriedChange
  <2>1. UNCHANGED of
    BY <1>4 DEF EnqueueJob
  <2> QED BY <1>4, <2>1, CarriedEnqueued DEF CarriedChange
<1>5. CASE Restart
  <2>1. UNCHANGED of
    BY <1>5 DEF Restart
  <2> QED BY <1>5, <2>1, CarriedRestarted DEF CarriedChange
<1> QED BY <1>1, <1>2, <1>3, <1>4, <1>5, GatewaySteps

\* A row that is unfinished for the writer belongs to somebody.
WriterRowIsCarried == Up => \A t \in Transfers : row[t].status \in Active => t \in Carried

\* Without restarts, every step keeps it so.
LEMMA RowsCarriedStep ==
    ASSUME UpdateMayFail = {}, MaxRestarts = 0, GwTypeInv, GwPoolInv, GwPoolInv', [Next]_vars,
           WriterRowIsCarried
    PROVE  WriterRowIsCarried'
<1>0. ~Restart
  BY DEF Restart, GwTypeInv, TablesTyped
<1>1. CASE \E h \in Handlers : CreateTransfer(h)
  <2>1. PICK t \in Transfers \ Begun :
          /\ Carried' = Carried \union {t}
          /\ row' = [row EXCEPT ![t] = NewTransfer]
    BY <1>1, CarriedCreated
  <2>2. \A u \in Transfers : u # t => row'[u] = row[u]
    BY <2>1 DEF GwPoolInv, PoolTypeOK
  <2>3. UNCHANGED main
    BY <1>1 DEF CreateTransfer
  <2> QED BY <2>1, <2>2, <2>3 DEF WriterRowIsCarried, Up
<1>2. CASE ~ \E h \in Handlers : CreateTransfer(h)
  <2>1. \/ Carried' = Carried
        \/ \E w \in Workers : (Succeed(w) \/ Fail(w)) /\ Carried' = Carried \ {job[w].id}
    BY <1>0, <1>2, CarriedStep DEF CarriedChange
  <2>2. /\ \A t \in Transfers : row'[t].status \in Active => row[t].status \in Active
        /\ Up' => Up
    <3>1. CASE [PoolStep]_poolVars
      <4>1. Up' => Up
        <5>1. CASE UNCHANGED main
          BY <5>1 DEF Up
        <5>2. CASE Shutdown
          BY <5>2 DEF Shutdown, Terminate, StopClose, StopBroadcast, StopReturn, Up
        <5>3. ASSUME NEW w \in Workers, WorkerStep(w) \/ MinioAnswers(w)
              PROVE  UNCHANGED main
          BY <5>3 DEF WorkerStep, MinioAnswers, Take, Wait, Exit, StartFirstAttempt, StartRetry,
                      AnnounceStarted, Succeed, AnnounceCompleted, ScheduleRetry, ArmRetryTimer,
                      Fail, AnnounceFailed, GetOk, GetErr, PutOk, PutErr
        <5>4. ASSUME (\E j \in timers : RetryTimer(j)) \/ Signal \/ CommitBatch
                     \/ UNCHANGED poolVars
              PROVE  UNCHANGED main
          BY <5>4 DEF RetryTimer, Signal, CommitBatch, poolVars
        <5> QED BY <3>1, <5>1, <5>2, <5>3, <5>4 DEF PoolStep
      <4> QED BY <3>1, <4>1, PoolEffect DEF GwPoolInv
    <3>2. CASE \E h \in Handlers : PoolByItself(h) \/ EnqueueJob(h) \/ AnnounceQueued(h)
      <4>1. UNCHANGED <<row, main>>
        BY <3>2, ByItself DEF EnqueueJob, AnnounceQueued, poolVars
      <4> QED BY <4>1 DEF Up
    <3> QED BY <1>0, <1>2, <3>1, <3>2, GatewaySteps
  <2>3. ASSUME NEW w \in Workers, Succeed(w) \/ Fail(w), job[w].id \in Transfers
        PROVE  row'[job[w].id].status \notin Active
    <3>1. PICK t \in Transfers : t = job[w].id
      BY <2>3
    <3>2. row' = [row EXCEPT ![t] = MarkSuccess(mem[t])] \/ row' = [row EXCEPT ![t] = MarkFailed(mem[t])]
      BY <2>3, <3>1 DEF Succeed, Fail, UpdateTransfer
    <3>3. mem[t] \in Transfer /\ row \in [Transfers -> Transfer]
      BY DEF GwPoolInv, PoolTypeOK
    <3>4. row'[t].status \in {"success", "failed"}
      <4>1. row'[t] = MarkSuccess(mem[t]) \/ row'[t] = MarkFailed(mem[t])
        BY <3>2, <3>3
      <4> QED BY <3>3, <4>1, MarkStatus
    <3> QED BY <3>1, <3>4 DEF Active
  <2>4. ASSUME NEW t \in Transfers, row'[t].status \in Active, Up'
        PROVE  t \in Carried'
    <3>1. t \in Carried
      BY <2>2, <2>4 DEF WriterRowIsCarried
    <3> QED BY <2>1, <2>3, <2>4, <3>1
  <2> QED BY <2>4 DEF WriterRowIsCarried
<1> QED BY <1>1, <1>2

\* What a reader finds unfinished is unfinished for the writer, or is finished and
\* waits for the commit.
LEMMA ReaderFollowsWriter ==
    ASSUME GwPoolInv, WriterRowIsCarried
    PROVE  ActiveRowIsCarried
<1>1. ASSUME Up, NEW t \in Begun, table[t].status \in Active
      PROVE  t \in Carried \/ Finishing(t)
  <2>1. t \in Transfers /\ row[t].status # "absent"
    BY <1>1 DEF GwPoolInv, RecordInv, TableIsBehind, Begun, Created, Active
  <2>2. row[t].status \in Active \/ row[t].status \in Terminal
    BY <2>1 DEF GwPoolInv, PoolTypeOK, Transfer, Status
  <2>3. CASE row[t].status \in Active
    BY <1>1, <2>1, <2>3 DEF WriterRowIsCarried
  <2>4. CASE row[t].status \in Terminal
    BY <1>1, <2>4 DEF Finishing, Active, Terminal
  <2> QED BY <2>2, <2>3, <2>4
<1> QED BY <1>1 DEF ActiveRowIsCarried

\* In a process that is not restarted over old rows, and whose UpdateTransfer
\* succeeds, no job gets lost on any path: a row that a reader finds unfinished has a
\* job in the queue, at a worker or in a timer, or a handler about to enqueue it,
\* through every retry and through the shutdown up to the exit; or a worker has
\* been answered for its final UPDATE, which is about to commit.
THEOREM GatewayActiveRowIsCarried ==
    ASSUME UpdateMayFail = {}, MaxRestarts = 0
    PROVE  Spec => []ActiveRowIsCarried
<1>1. Init => WriterRowIsCarried
  BY DEF Init, PoolInit, WriterRowIsCarried, NoTransfer, NewTransfer, Active
<1>2. /\ GwTypeInv /\ GwPoolInv /\ GwPoolInv' /\ [Next]_vars /\ WriterRowIsCarried
      => WriterRowIsCarried'
  BY RowsCarriedStep
<1>3. GwPoolInv /\ WriterRowIsCarried => ActiveRowIsCarried
  BY ReaderFollowsWriter
<1> QED BY <1>1, <1>2, <1>3, GwInvariant, PTL DEF Spec

\* So a notification that the database check drops is dropped for a transfer of its
\* key that somebody is working on, or that is over but for the commit.  With a
\* restart this is false.
THEOREM GatewaySkippedIsCarried ==
    ASSUME UpdateMayFail = {}, MaxRestarts = 0
    PROVE  Spec => SkippedIsCarried
<1>1. ASSUME GwTypeInv, ActiveRowIsCarried, [Next]_vars, NEW h \in Handlers,
             hpc[h] = "check", hpc'[h] = "record"
      PROVE  \E t \in Begun : RowKey(t) = KeyOf(Rec(h)) /\ (t \in Carried \/ Finishing(t))
  <2>1. SkipActive(h)
    <3>1. hpc \in [Handlers -> HandlerPC]
      BY <1>1 DEF GwTypeInv, HandlersTyped
    <3>2. CASE \E g \in Handlers : Receive(g) \/ HandlerStep(g)
      <4>1. PICK g \in Handlers : Receive(g) \/ HandlerStep(g)
        BY <3>2
      <4>2. g = h
        BY <1>1, <4>1, OthersStay DEF GwTypeInv
      <4> QED BY <1>1, <3>1, <4>1, <4>2 DEF Receive, HandlerStep, SkipDuplicate, MarkSeen, NoActive,
                  CreateTransfer, CreateFails, EnqueueJob, AnnounceQueued, Accept, HGoto
    <3>3. CASE Restart
      BY <1>1, <3>3 DEF Restart
    <3>4. CASE ~(\E g \in Handlers : Receive(g) \/ HandlerStep(g)) /\ ~Restart
      <4>1. UNCHANGED hpc
        BY <1>1, <3>4 DEF Next, Expire, Put, MinioStep, Download, Upload, DownloadFails, UploadFails,
                   PoolMoves, Settled, vars, gateVars
      <4> QED BY <1>1, <4>1
    <3> QED BY <3>2, <3>3, <3>4
  <2>2. Up /\ HasActiveTransfer(KeyOf(Rec(h)))
    BY <2>1 DEF SkipActive, HGoto
  <2> QED BY <1>1, <2>2 DEF HasActiveTransfer, ActiveRowIsCarried
<1>2. GwTypeInv /\ ActiveRowIsCarried /\ [Next]_vars =>
        [\A h \in Handlers : hpc[h] = "check" /\ hpc'[h] = "record" =>
             \E t \in Begun : RowKey(t) = KeyOf(Rec(h)) /\ (t \in Carried \/ Finishing(t))]_vars
  BY <1>1
<1> QED BY <1>2, GwInvariant, GatewayActiveRowIsCarried, PTL DEF Spec, SkippedIsCarried

-----------------------------------------------------------------------------
\* The gateway implements Mirror.

\* What somebody works on is unfinished in the table.
LEMMA CarriedIsActive ==
    ASSUME GwPoolInv
    PROVE  \A t \in Carried : t \in Begun /\ row[t].status \in Active
<1> USE DEF GwPoolInv
<1>1. ASSUME NEW i \in 1..Len(queue)
      PROVE  queue[i].id \in Transfers /\ row[queue[i].id].status \in Active
  BY JobIds DEF RecordInv, LiveRowIsActive
<1>2. ASSUME NEW j \in timers
      PROVE  j.id \in Transfers /\ row[j.id].status \in Active
  BY JobIds DEF RecordInv, LiveRowIsActive
<1>3. ASSUME NEW w \in Workers, pc[w] \in Unfinished \union {"retrying"}
      PROVE  job[w].id \in Transfers /\ row[job[w].id].status \in Active
  <2>1. pc[w] \in Busy
    BY <1>3 DEF Unfinished, Busy
  <2> QED BY <1>3, <2>1, JobIds DEF RecordInv, LiveRowIsActive
<1>4. ASSUME NEW h \in Handlers, hpc[h] = "enqueue"
      PROVE  tid[h] \in Transfers /\ row[tid[h]].status \in Active
  BY <1>4, NewTransferFacts DEF HandedOver, Active
<1>5. ASSUME NEW t \in Carried
      PROVE  t \in Transfers /\ row[t].status \in Active
  BY <1>1, <1>2, <1>3, <1>4 DEF Carried, Queued, Delayed
<1> QED BY <1>5 DEF CreatedBegun, Created, Active

\* Copies of a key do not overlap.
LEMMA CarriedAlone ==
    ASSUME GwPoolInv, DedupInv
    PROVE  \A t, u \in Carried : RowKey(t) = RowKey(u) => t = u
BY CarriedIsActive DEF DedupInv, OneActivePerKey, SeenActive

\* The destination never runs ahead of the source, nor of an upload that is
\* under way.
VersionsOrdered ==
    /\ \A k \in Keys : dst[k] <= src[k]
    /\ \A w \in Workers : pc[w] = "put" =>
         /\ dst[RowKey(job[w].id)] <= got[w]
         /\ got[w] <= src[RowKey(job[w].id)]

\* The object of a worker, as long as nothing is uploaded or downloaded.
LEMMA RowKeyStays ==
    ASSUME GwTypeInv, CarriedChange
    PROVE  \A t \in Begun : RowKey(t)' = RowKey(t)
BY DEF CarriedChange, RowKey, KeyOf, GwTypeInv, TablesTyped, Begun

\* Where a worker that is to upload after a step was before it.
LEMMA PutBefore ==
    ASSUME PoolTypeOK, [PoolStep]_poolVars, NEW w \in Workers, pc'[w] = "put", ~GetOk(w)
    PROVE  pc[w] = "put" /\ job'[w] = job[w]
<1>1. ASSUME NEW v \in Workers, WorkerStep(v)
      PROVE  /\ pc'[v] # "put"
             /\ \A u \in Workers : u # v => pc'[u] = pc[u] /\ job'[u] = job[u]
  <2>1. CASE Take(v) \/ Wait(v) \/ Exit(v) \/ StartFirstAttempt(v) \/ StartRetry(v)
             \/ AnnounceStarted(v)
    BY <2>1 DEF Take, Wait, Exit, StartFirstAttempt, StartRetry, AnnounceStarted, Goto, PoolTypeOK
  <2>2. CASE Succeed(v) \/ AnnounceCompleted(v) \/ ScheduleRetry(v) \/ ArmRetryTimer(v)
             \/ Fail(v) \/ AnnounceFailed(v)
    BY <2>2 DEF Succeed, AnnounceCompleted, ScheduleRetry, ArmRetryTimer, Fail, AnnounceFailed,
                Return, Goto, PoolTypeOK
  <2> QED BY <1>1, <2>1, <2>2 DEF WorkerStep
<1>2. ASSUME NEW v \in Workers, MinioAnswers(v)
      PROVE  pc[w] = "put" /\ job'[w] = job[w]
  BY <1>2 DEF MinioAnswers, GetOk, GetErr, PutOk, PutErr, Goto, PoolTypeOK
<1>3. CASE (\E j \in timers : RetryTimer(j)) \/ Signal \/ CommitBatch \/ Shutdown
           \/ UNCHANGED poolVars
  BY <1>3 DEF RetryTimer, Signal, CommitBatch, Shutdown, Terminate, StopClose, StopBroadcast, StopReturn, Goto,
              PoolTypeOK, poolVars
<1> QED BY <1>1, <1>2, <1>3 DEF PoolStep

LEMMA VersionsStep ==
    ASSUME GwTypeInv, GwPoolInv, GwPoolInv', DedupInv, VersionsOrdered, [Next]_vars
    PROVE  VersionsOrdered'
<1> USE DEF GwTypeInv, GwPoolInv
<1>1. \A t \in Begun : RowKey(t)' = RowKey(t)
  BY CarriedStep, RowKeyStays
<1>2. ASSUME NEW w \in Workers, pc[w] = "put"
      PROVE  job[w].id \in Begun /\ RowKey(job[w].id) \in Keys
  BY <1>2, HeldKey DEF Busy
<1>3. /\ src \in [Keys -> 0..MaxPuts] /\ dst \in [Keys -> 0..MaxPuts]
      /\ got \in [Workers -> 0..MaxPuts]
  BY DEF VersionsTyped
<1>4. ASSUME UNCHANGED <<src, dst>>,
             \A w \in Workers : pc'[w] = "put" =>
                 pc[w] = "put" /\ got'[w] = got[w] /\ job'[w] = job[w]
      PROVE  VersionsOrdered'
  <2>1. \A k \in Keys : dst'[k] <= src'[k]
    BY <1>4 DEF VersionsOrdered
  <2>2. ASSUME NEW w \in Workers, pc'[w] = "put"
        PROVE  (dst[RowKey(job[w].id)] <= got[w] /\ got[w] <= src[RowKey(job[w].id)])'
    <3>1. pc[w] = "put" /\ got'[w] = got[w] /\ job'[w] = job[w]
      BY <1>4, <2>2
    <3>2. PICK t \in Begun : t = job[w].id
      BY <1>2, <3>1
    <3>3. RowKey(job[w].id)' = RowKey(t)' /\ RowKey(job[w].id) = RowKey(t)
      BY <3>1, <3>2 DEF RowKey
    <3>4. dst[RowKey(t)] <= got[w] /\ got[w] <= src[RowKey(t)]
      BY <3>1, <3>3 DEF VersionsOrdered
    <3> QED BY <1>1, <1>4, <3>1, <3>3, <3>4
  <2> QED BY <2>1, <2>2 DEF VersionsOrdered
<1>5. ASSUME NEW raw \in RawKeys, Put(raw)
      PROVE  VersionsOrdered'
  <2>1. PICK k \in Keys : k = Unescape[raw]
    BY UnescapeMaps
  <2>2. /\ src'[k] = src[k] + 1 /\ \A i \in Keys : i # k => src'[i] = src[i]
        /\ UNCHANGED <<dst, got, of, pc, job>>
    BY <1>3, <1>5, <2>1 DEF Put, poolVars
  <2>3. \A i \in Keys : src[i] \in Nat /\ dst[i] \in Nat /\ dst[i] <= src[i]
    BY <1>3, BoundsNat DEF VersionsOrdered
  <2>4. \A i \in Keys : src[i] <= src'[i] /\ src'[i] \in Nat
    BY <2>2, <2>3
  <2>5. \A i \in Keys : dst'[i] <= src'[i]
    BY <2>2, <2>3, <2>4
  <2>6. ASSUME NEW w \in Workers, pc[w] = "put"
        PROVE  dst[RowKey(job[w].id)] <= got[w] /\ got[w] <= src'[RowKey(job[w].id)]
    <3>1. PICK i \in Keys : i = RowKey(job[w].id)
      BY <1>2, <2>6
    <3>2. dst[i] <= got[w] /\ got[w] <= src[i] /\ got[w] \in Nat
      BY <1>3, <2>6, <3>1, BoundsNat DEF VersionsOrdered
    <3>3. got[w] <= src'[i]
      BY <2>3, <2>4, <3>2
    <3> QED BY <3>1, <3>2, <3>3
  <2> QED BY <2>2, <2>5, <2>6 DEF VersionsOrdered, RowKey, KeyOf
<1>6. ASSUME NEW w \in Workers, Download(w)
      PROVE  VersionsOrdered'
  <2>1. /\ pc[w] = "get" /\ pc'[w] = "put" /\ UNCHANGED <<job, of, src, dst>>
        /\ \A v \in Workers : v # w => pc'[v] = pc[v]
    BY <1>6 DEF Download, GetOk, Goto, PoolTypeOK
  <2>2. PICK k \in Keys : k = RowKey(job[w].id)
    BY <2>1, HeldKey DEF Busy
  <2>3. got'[w] = src[k] /\ \A v \in Workers : v # w => got'[v] = got[v]
    BY <1>3, <1>6, <2>2 DEF Download
  <2>4. dst[k] <= got'[w] /\ got'[w] <= src[k]
    BY <1>3, <2>3, BoundsNat DEF VersionsOrdered
  <2>5. \A v \in Workers : RowKey(job[v].id)' = RowKey(job[v].id)
    BY <2>1 DEF RowKey, KeyOf
  <2>6. ASSUME NEW v \in Workers, pc'[v] = "put"
        PROVE  dst[RowKey(job[v].id)] <= got'[v] /\ got'[v] <= src[RowKey(job[v].id)]
    BY <2>1, <2>2, <2>3, <2>4, <2>6 DEF VersionsOrdered
  <2> QED BY <2>1, <2>5, <2>6 DEF VersionsOrdered
<1>7. ASSUME NEW w \in Workers, Upload(w) \/ UploadFails(w)
      PROVE  VersionsOrdered'
  <2>1. /\ pc[w] = "put" /\ pc'[w] # "put" /\ UNCHANGED <<job, of, src>>
        /\ \A v \in Workers : v # w => pc'[v] = pc[v]
    BY <1>7 DEF Upload, PutOk, UploadFails, PutErr, Goto, PoolTypeOK
  <2>2. PICK k \in Keys : k = RowKey(job[w].id)
    BY <1>2, <2>1
  <2>3. /\ \A v \in Workers : v # w => got'[v] = got[v]
        /\ dst'[k] = got[w] \/ dst'[k] = dst[k]
        /\ \A i \in Keys : i # k => dst'[i] = dst[i]
    BY <1>3, <1>7, <2>2 DEF Upload, UploadFails
  <2>4. got[w] <= src[k]
    BY <2>1, <2>2 DEF VersionsOrdered
  <2>5. \A i \in Keys : dst'[i] <= src'[i]
    BY <2>1, <2>3, <2>4 DEF VersionsOrdered
  <2>6. ASSUME NEW v \in Workers, pc'[v] = "put"
        PROVE  /\ v # w /\ pc[v] = "put" /\ RowKey(job[v].id) \in Keys
               /\ RowKey(job[v].id) # k
    <3>1. v # w /\ pc[v] = "put"
      BY <2>1, <2>6
    <3>2. job[v].id \in Carried /\ job[w].id \in Carried
      BY <2>1, <3>1 DEF Carried, Unfinished, Busy
    <3>3. job[v].id # job[w].id
      BY <2>1, <3>1 DEF OwnershipInv, OneOwner, HeldOnce, Busy
    <3> QED BY <1>2, <2>2, <3>1, <3>2, <3>3, CarriedAlone
  <2>7. \A v \in Workers : RowKey(job[v].id)' = RowKey(job[v].id)
    BY <2>1 DEF RowKey, KeyOf
  <2>8. ASSUME NEW v \in Workers, pc'[v] = "put"
        PROVE  (dst[RowKey(job[v].id)] <= got[v] /\ got[v] <= src[RowKey(job[v].id)])'
    <3>1. PICK i \in Keys : i = RowKey(job[v].id)
      BY <2>6, <2>8
    <3>2. v # w /\ pc[v] = "put" /\ i # k
      BY <2>6, <2>8, <3>1
    <3>3. dst[i] <= got[v] /\ got[v] <= src[i]
      BY <3>1, <3>2 DEF VersionsOrdered
    <3> QED BY <2>1, <2>3, <2>7, <3>1, <3>2, <3>3
  <2> QED BY <2>5, <2>8 DEF VersionsOrdered
<1>8. CASE Restart
  <2>1. UNCHANGED <<src, dst>> /\ \A w \in Workers : pc'[w] = "lock"
    BY <1>8 DEF Restart
  <2> QED BY <1>4, <2>1
<1>9. CASE \E h \in Handlers : Receive(h) \/ HandlerStep(h)
  <2>1. UNCHANGED <<pc, job, got, src, dst>>
    BY <1>9 DEF Receive, HandlerStep, SkipDuplicate, MarkSeen, SkipActive, NoActive, CreateTransfer,
                CreateFails, EnqueueJob, AnnounceQueued, Accept, poolVars
  <2> QED BY <1>4, <2>1
<1>10. CASE \/ \E k \in Keys : Expire(k)
            \/ \E w \in Workers : DownloadFails(w)
            \/ PoolMoves \/ (Exited /\ UNCHANGED gateVars) \/ Settled \/ UNCHANGED vars
  <2>1. [PoolStep]_poolVars /\ UNCHANGED <<src, dst>> /\ \A w \in Workers : ~GetOk(w)
    <3>1. CASE \E w \in Workers : DownloadFails(w)
      BY <3>1 DEF DownloadFails, GetOk, GetErr, Goto, PoolStep, MinioAnswers, PoolTypeOK, gateVars
    <3>2. CASE PoolMoves
      <4>1. [PoolStep]_poolVars /\ UNCHANGED <<src, dst>>
        BY <3>2 DEF PoolMoves, PoolStep, gateVars
      <4>2. ASSUME NEW w \in Workers, GetOk(w)
            PROVE  FALSE
        <5>1. pc[w] = "get" /\ pc'[w] = "put"
          BY <4>2 DEF GetOk, Goto, PoolTypeOK
        <5>2. ASSUME NEW v \in Workers, WorkerStep(v)
              PROVE  FALSE
          BY <5>1, <5>2 DEF WorkerStep, Take, Wait, Exit, StartFirstAttempt, StartRetry,
             AnnounceStarted, Succeed, AnnounceCompleted, ScheduleRetry, ArmRetryTimer, Fail,
             AnnounceFailed, Return, Goto, PoolTypeOK
        <5>3. CASE (\E j \in timers : RetryTimer(j)) \/ Signal \/ CommitBatch \/ Shutdown
          BY <5>1, <5>3 DEF RetryTimer, Signal, CommitBatch, Shutdown, Terminate, StopClose, StopBroadcast,
             StopReturn, Goto, PoolTypeOK
        <5> QED BY <3>2, <5>2, <5>3 DEF PoolMoves
      <4> QED BY <4>1, <4>2
    <3>3. CASE (\E k \in Keys : Expire(k)) \/ (Exited /\ UNCHANGED gateVars) \/ Settled
               \/ UNCHANGED vars
      <4>1. UNCHANGED poolVars /\ UNCHANGED <<src, dst>>
        BY <3>3 DEF Expire, Exited, Settled, vars, gateVars
      <4>2. UNCHANGED pc
        BY <4>1 DEF poolVars
      <4> QED BY <4>1, <4>2 DEF GetOk, Goto, PoolTypeOK
    <3> QED BY <1>10, <3>1, <3>2, <3>3
  <2>2. ASSUME NEW w \in Workers, pc'[w] = "put"
        PROVE  pc[w] = "put" /\ got'[w] = got[w] /\ job'[w] = job[w]
    <3>1. pc[w] = "put" /\ job'[w] = job[w]
      BY <2>1, <2>2, PutBefore
    <3>2. got'[w] = got[w]
      BY <1>10 DEF Expire, DownloadFails, PoolMoves, Settled, vars, gateVars
    <3> QED BY <3>1, <3>2
  <2> QED BY <1>4, <2>1, <2>2
<1> QED BY <1>5, <1>6, <1>7, <1>8, <1>9, <1>10 DEF Next, MinioStep

\* The transfers under way, with their keys: Mirror's work.
Work == {<<t, RowKey(t)>> : t \in Carried}

\* A step that moves no object changes only who is at work.
LEMMA MirrorsWork ==
    ASSUME GwTypeInv, GwPoolInv, DedupInv, CarriedChange, UNCHANGED <<src, dst>>
    PROVE  [Abstract!MirrorNext]_(Abstract!mirrorVars)
<1> USE DEF GwTypeInv, GwPoolInv
<1>1. CASE Carried' = Carried /\ UNCHANGED of
  BY <1>1 DEF Abstract!mirrorVars, RowKey, KeyOf, Begun
<1>2. CASE /\ UNCHANGED of
           /\ \E w \in Workers : (Succeed(w) \/ Fail(w)) /\ Carried' = Carried \ {job[w].id}
  <2>1. PICK w \in Workers : (Succeed(w) \/ Fail(w)) /\ Carried' = Carried \ {job[w].id}
    BY <1>2
  <2>2. pc[w] \in Unfinished
    BY <2>1 DEF Succeed, Fail, Goto, Unfinished, Busy
  <2>3. PICK t \in Carried : t = job[w].id
    BY <2>2 DEF Carried
  <2>4. PICK p \in Work : p = <<t, RowKey(t)>>
    BY DEF Work
  <2>5. Carried' = Carried \ {t} /\ \A u : RowKey(u)' = RowKey(u)
    BY <1>2, <2>1, <2>3 DEF RowKey, KeyOf
  <2>6. Work' = Work \ {p}
    BY <2>4, <2>5 DEF Work
  <2>7. Abstract!End(p)
    BY <1>2, <2>6 DEF Abstract!End, Work, Begun
  <2> QED BY <2>7 DEF Abstract!MirrorNext, Work
<1>3. CASE \E h \in Handlers : CreateTransfer(h) /\ \E t \in Transfers \ Begun :
             /\ Carried' = Carried \union {t} /\ Begun' = Begun \union {t}
             /\ of' = [of EXCEPT ![t] = Rec(h)] /\ row' = [row EXCEPT ![t] = NewTransfer]
  <2>1. PICK h \in Handlers : CreateTransfer(h) /\ \E t \in Transfers \ Begun :
             /\ Carried' = Carried \union {t} /\ Begun' = Begun \union {t}
             /\ of' = [of EXCEPT ![t] = Rec(h)] /\ row' = [row EXCEPT ![t] = NewTransfer]
    BY <1>3
  <2>2. PICK t \in Transfers \ Begun :
          /\ Carried' = Carried \union {t} /\ Begun' = Begun \union {t}
          /\ of' = [of EXCEPT ![t] = Rec(h)]
    BY <2>1
  <2>3. hpc[h] = "create" /\ More(h)
    BY <2>1 DEF CreateTransfer, HGoto, HandlersTyped, HandlerPC
  <2>4. PICK k \in Keys : k = KeyOf(Rec(h))
    BY <2>3, RecordAt
  <2>5. \A u \in Carried : u \in Begun /\ SeenActive(u)
    BY CarriedIsActive DEF SeenActive
  <2>6. \A u \in Carried : u \in Begun /\ RowKey(u) # k
    BY <2>3, <2>4, <2>5 DEF DedupInv, CheckStands, FreeOf
  <2>7. RowKey(t)' = k /\ \A u \in Carried : RowKey(u)' = RowKey(u)
    BY <2>2, <2>4, <2>6 DEF RowKey, KeyOf, TablesTyped, Begun
  <2>8. Work' = Work \union {<<t, k>>}
    BY <2>2, <2>7 DEF Work
  <2>9. k \notin {p[2] : p \in Work}
    BY <2>6 DEF Work
  <2>10. Abstract!Begin(t, k)
    BY <2>2, <2>8, <2>9 DEF Abstract!Begin, Abstract!Busy, Work
  <2> QED BY <2>10 DEF Abstract!MirrorNext
<1>4. CASE Restart /\ Carried' = {} /\ UNCHANGED of
  <2>1. Work' = {}
    BY <1>4 DEF Work
  <2>2. Abstract!Lose
    BY <1>4, <2>1 DEF Abstract!Lose, Work, Begun
  <2> QED BY <2>2 DEF Abstract!MirrorNext
<1> QED BY <1>1, <1>2, <1>3, <1>4 DEF CarriedChange

LEMMA MirrorsStep ==
    ASSUME GwTypeInv, GwPoolInv, GwPoolInv', DedupInv, VersionsOrdered, [Next]_vars
    PROVE  [Abstract!MirrorNext]_(Abstract!mirrorVars)
<1> USE DEF GwTypeInv, GwPoolInv
<1>1. ASSUME NEW raw \in RawKeys, Put(raw)
      PROVE  Abstract!MirrorNext
  <2>1. PICK k \in Keys : k = Unescape[raw]
    BY UnescapeMaps
  <2>2. src' = [src EXCEPT ![k] = @ + 1] /\ UNCHANGED <<poolVars, dst, of, hpc, tid>>
    BY <1>1, <2>1 DEF Put
  <2>3. Begun' = Begun /\ Work' = Work
    BY <2>2 DEF Work, Carried, Queued, Delayed, Begun, RowKey, KeyOf, poolVars
  <2>4. Abstract!Change(k)
    BY <2>2, <2>3 DEF Abstract!Change, Work
  <2> QED BY <2>4 DEF Abstract!MirrorNext
<1>2. ASSUME NEW w \in Workers, Upload(w) \/ UploadFails(w), dst' # dst
      PROVE  Abstract!MirrorNext
  <2>1. /\ pc[w] = "put" /\ pc'[w] \in {"success", "error"} /\ UNCHANGED <<hpc, tid, of, src>>
        /\ \A v \in Workers : v # w => pc'[v] = pc[v]
    BY <1>2 DEF Upload, PutOk, UploadFails, PutErr, Goto, PoolTypeOK
  <2>2. PICK k \in Keys : k = RowKey(job[w].id)
    BY <2>1, HeldKey DEF Busy
  <2>3. Carried' = Carried
    <3>1. [PoolStep]_poolVars
      BY <1>2 DEF Upload, UploadFails, PoolStep, MinioAnswers
    <3>2. ASSUME NEW v \in Workers, Succeed(v) \/ Fail(v)
          PROVE  FALSE
      BY <2>1, <3>2 DEF Succeed, Fail, Goto, PoolTypeOK
    <3> QED BY <2>1, <3>1, <3>2, CarriedByPool
  <2>4. Begun' = Begun /\ Work' = Work
    BY <2>1, <2>3 DEF Work, Begun, RowKey, KeyOf
  <2>5. job[w].id \in Carried
    BY <2>1 DEF Carried, Unfinished, Busy
  <2>6. k \in {p[2] : p \in Work}
    <3>1. PICK p \in Work : p = <<job[w].id, k>>
      BY <2>2, <2>5 DEF Work
    <3> QED BY <3>1
  <2>7. PICK v \in dst[k]..src[k] : v = got[w]
    <3>1. dst[k] <= got[w] /\ got[w] <= src[k]
      BY <2>1, <2>2 DEF VersionsOrdered
    <3>2. dst[k] \in Nat /\ got[w] \in Nat /\ src[k] \in Nat
      BY BoundsNat DEF VersionsTyped
    <3> QED BY <3>1, <3>2
  <2>8. dst' = [dst EXCEPT ![k] = v]
    BY <1>2, <2>2, <2>7 DEF Upload, UploadFails
  <2>9. Abstract!Replicate(k)
    BY <2>1, <2>4, <2>6, <2>8 DEF Abstract!Replicate, Abstract!Busy, Work
  <2> QED BY <2>9 DEF Abstract!MirrorNext
<1>3. CASE UNCHANGED <<src, dst>>
  BY <1>3, CarriedStep, MirrorsWork
<1>4. CASE \E h \in Handlers : Receive(h) \/ HandlerStep(h)
  BY <1>3, <1>4 DEF Receive, HandlerStep, SkipDuplicate, MarkSeen, SkipActive, NoActive,
     CreateTransfer, CreateFails, EnqueueJob, AnnounceQueued, Accept
<1>5. CASE \/ \E k \in Keys : Expire(k)
           \/ \E w \in Workers : Download(w) \/ DownloadFails(w)
           \/ PoolMoves \/ Restart \/ (Exited /\ UNCHANGED gateVars) \/ Settled \/ UNCHANGED vars
  BY <1>3, <1>5 DEF Expire, Download, DownloadFails, PoolMoves, Restart, Settled, vars,
     gateVars
<1>6. ASSUME NEW w \in Workers, Upload(w) \/ UploadFails(w)
      PROVE  [Abstract!MirrorNext]_(Abstract!mirrorVars)
  <2>1. src' = src
    BY <1>6 DEF Upload, UploadFails
  <2> QED BY <1>2, <1>3, <1>6, <2>1
<1> QED BY <1>1, <1>4, <1>5, <1>6 DEF Next, MinioStep

\* The gateway implements Mirror, with any number of requests and workers, with
\* lost answers and duplicate notifications, failing copies, inserts and updates,
\* and crashes at any moment: transfers of a key do not overlap, and the
\* destination only moves to versions that are not older, so that a slow upload
\* never overwrites what a later one wrote.
THEOREM GatewayMirrorsSource ==
    ASSUME ReadMayFail = FALSE, SlowHandler = FALSE
    PROVE  Spec => MirrorsSource
<1>1. Init => VersionsOrdered /\ Abstract!MirrorInit
  <2>1. SUFFICES ASSUME Init PROVE VersionsOrdered /\ Abstract!MirrorInit
    OBVIOUS
  <2>2. VersionsOrdered
    BY <2>1 DEF Init, PoolInit, VersionsOrdered
  <2>3. Begun = {}
    BY <2>1 DEF Init, Begun
  <2>4. GwPoolInv
    BY <2>1, GwTypeInit
  <2>5. Carried = {}
    BY <2>3, <2>4, CarriedIsActive
  <2>6. Abstract!MirrorInit
    BY <2>1, <2>3, <2>5 DEF Init, Abstract!MirrorInit
  <2> QED BY <2>2, <2>6
<1>2. GwTypeInv /\ GwPoolInv /\ GwPoolInv' /\ DedupInv /\ VersionsOrdered /\ [Next]_vars
      => VersionsOrdered' /\ [Abstract!MirrorNext]_(Abstract!mirrorVars)
  BY VersionsStep, MirrorsStep
<1> QED BY <1>1, <1>2, GwInvariant, GwDedup, PTL DEF Spec, MirrorsSource, Abstract!MirrorSpec

-----------------------------------------------------------------------------
\* What was accepted is recorded.

\* Key k has a row, or a request that marked it is on its way to the INSERT.
Recorded(k) ==
    \/ \E t \in Created : RowKey(t) = k
    \/ \E h \in Handlers : Marking(h) /\ KeyOf(Rec(h)) = k

\* The mark stands for a row: that is why a duplicate may be skipped.
SeenRecorded == \A k \in seen : Recorded(k)

\* The loop leaves no record behind that is not recorded.
PassedRecorded ==
    \A h \in Handlers : \A i \in 1..Len(batch[h]) :
        i < pos[h] => Recorded(KeyOf(batch[h][i]))

\* The row a request inserted is of the key of its record.
InsertedOwn ==
    \A h \in Handlers : hpc[h] \in {"enqueue", "announce"} => RowKey(tid[h]) = KeyOf(Rec(h))

\* The shutdown closes the pool when the requests are done.
QuietShutdown ==
    SlowHandler = FALSE /\ main \notin {"run", "drain"} => \A h \in Handlers : hpc[h] = "free"

\* No request dies between its mark and its INSERT.
NoRequestLost == (MayCrash = FALSE /\ SlowHandler = FALSE) \/ MaxRestarts = 0

\* A process that exited by itself has committed everything, and nobody is left to
\* write.
ExitedCommitted ==
    main = "exited" => table = row /\ \A w \in Workers : pc[w] = "exited"

RecordedInv ==
    /\ SeenRecorded /\ PassedRecorded /\ InsertedOwn /\ QuietShutdown /\ ExitedCommitted
    /\ AckedIsRecorded

LEMMA RestartQuiet ==
    ASSUME NoRequestLost, GwTypeInv, QuietShutdown, Restart
    PROVE  main = "exited" /\ \A h \in Handlers : hpc[h] = "free"
<1>1. MaxRestarts # 0
  BY DEF Restart, GwTypeInv, TablesTyped
<1>2. main = "exited" /\ SlowHandler = FALSE
  BY <1>1 DEF NoRequestLost, Restart
<1> QED BY <1>2 DEF QuietShutdown

\* A request that held a mark and does not any more has inserted its row, or
\* found one.
LEMMA MarkerLeaves ==
    ASSUME CreateMayFail = FALSE, NoRequestLost, QuietShutdown, GwTypeInv, GwPoolInv, [Next]_vars,
           NEW h \in Handlers, Marking(h)
    PROVE  \/ Marking(h)' /\ Rec(h)' = Rec(h)
           \/ SkipActive(h) \/ CreateTransfer(h)
<1> USE DEF GwTypeInv
<1>1. CASE \E g \in Handlers : Receive(g) \/ HandlerStep(g)
  <2>1. PICK g \in Handlers : Receive(g) \/ HandlerStep(g)
    BY <1>1
  <2>2. CASE g # h
    BY <2>1, <2>2, OthersStay DEF Marking
  <2>3. CASE g = h
    <3>1. SkipActive(h) \/ NoActive(h) \/ CreateTransfer(h)
      BY <2>1, <2>3 DEF Receive, HandlerStep, SkipDuplicate, MarkSeen, CreateFails, EnqueueJob,
         AnnounceQueued, Accept, HGoto, Marking
    <3>2. NoActive(h) => Marking(h)' /\ Rec(h)' = Rec(h)
      BY DEF NoActive, HGoto, Marking, Rec, HandlersTyped
    <3> QED BY <3>1, <3>2
  <2> QED BY <2>2, <2>3
<1>2. CASE Restart
  BY <1>2, RestartQuiet DEF Marking
<1>3. CASE ~(\E g \in Handlers : Receive(g) \/ HandlerStep(g)) /\ ~Restart
  <2>1. UNCHANGED <<hpc, batch, pos>>
    BY <1>3 DEF Next, Expire, Put, MinioStep, Download, Upload, DownloadFails, UploadFails, PoolMoves,
       Settled, vars, gateVars
  <2> QED BY <2>1 DEF Marking, Rec
<1> QED BY <1>1, <1>2, <1>3

\* What the check finds is in the table.
LEMMA ActiveIsCreated ==
    ASSUME GwPoolInv, NEW k, HasActiveTransfer(k)
    PROVE  \E t \in Created : RowKey(t) = k
BY DEF GwPoolInv, RecordInv, TableIsBehind, HasActiveTransfer, Begun, Active

LEMMA RecordedStays ==
    ASSUME CreateMayFail = FALSE, NoRequestLost, QuietShutdown, ExitedCommitted, GwTypeInv,
           GwPoolInv, GwPoolInv', [Next]_vars, NEW k, Recorded(k)
    PROVE  Recorded(k)'
<1>0. Created \subseteq Begun
  BY DEF GwPoolInv, CreatedBegun
<1>1. Created \subseteq Created' /\ \A t \in Created : RowKey(t)' = RowKey(t)
  <2>1. ASSUME Restart
        PROVE  Created \subseteq Created'
    BY <2>1, RestartQuiet DEF Restart, ExitedCommitted, Created
  <2>2. Restart \/ Created \subseteq Created'
    BY GwTypeInvTypes, GwPoolStep
  <2> QED BY <1>0, <2>1, <2>2, CarriedStep, RowKeyStays
<1>2. CASE \E t \in Created : RowKey(t) = k
  <2>1. PICK t \in Created : RowKey(t) = k
    BY <1>2
  <2>2. t \in Created' /\ RowKey(t)' = k
    BY <1>1, <2>1
  <2> QED BY <2>2 DEF Recorded
<1>3. CASE \E h \in Handlers : Marking(h) /\ KeyOf(Rec(h)) = k
  <2>1. PICK h \in Handlers : Marking(h) /\ KeyOf(Rec(h)) = k
    BY <1>3
  <2>2. CASE Marking(h)' /\ Rec(h)' = Rec(h)
    BY <2>1, <2>2 DEF Recorded, KeyOf
  <2>3. CASE SkipActive(h)
    <3>1. \E t \in Created : RowKey(t) = k
      BY <2>1, <2>3, ActiveIsCreated DEF SkipActive
    <3> QED BY <1>2, <3>1
  <2>4. CASE CreateTransfer(h)
    <3>1. PICK t \in Transfers \ Begun :
            row' = [row EXCEPT ![t] = NewTransfer] /\ of' = [of EXCEPT ![t] = Rec(h)]
      BY <2>4, CarriedCreated
    <3>2. RowKey(t)' = k /\ t \in Created'
      BY <2>1, <3>1, NewTransferFacts
         DEF RowKey, KeyOf, Created, GwTypeInv, TablesTyped, GwPoolInv, PoolTypeOK
    <3> QED BY <3>2 DEF Recorded
  <2> QED BY <2>1, <2>2, <2>3, <2>4, MarkerLeaves
<1> QED BY <1>2, <1>3 DEF Recorded

LEMMA QuietStep ==
    ASSUME GwTypeInv, QuietShutdown, [Next]_vars
    PROVE  QuietShutdown'
<1> SUFFICES ASSUME SlowHandler = FALSE, main' \notin {"run", "drain"}
             PROVE  \A h \in Handlers : hpc'[h] = "free"
  BY DEF QuietShutdown
<1>1. ~Restart
  BY DEF Restart
<1>2. CASE \E h \in Handlers : Receive(h) \/ HandlerStep(h)
  <2>1. PICK h \in Handlers : Receive(h) \/ HandlerStep(h)
    BY <1>2
  <2>2. main' = main
    BY <2>1 DEF Receive, HandlerStep, SkipDuplicate, MarkSeen, SkipActive, NoActive, CreateTransfer,
       CreateFails, EnqueueJob, AnnounceQueued, Accept, poolVars
  <2>3. hpc[h] = "free"
    BY <2>2 DEF QuietShutdown
  <2> QED BY <2>1, <2>2, <2>3 DEF Receive, HandlerStep, SkipDuplicate, MarkSeen, SkipActive, NoActive,
       CreateTransfer, CreateFails, EnqueueJob, AnnounceQueued, Accept, HGoto
<1>3. CASE ~ \E h \in Handlers : Receive(h) \/ HandlerStep(h)
  <2>1. UNCHANGED hpc
    BY <1>1, <1>3 DEF Next, Expire, Put, MinioStep, Download, Upload, DownloadFails, UploadFails,
       PoolMoves, Settled, vars, gateVars
  <2>2. CASE main \notin {"run", "drain"}
    BY <2>1, <2>2 DEF QuietShutdown
  <2>3. CASE main \in {"run", "drain"}
    <3>1. PoolMoves
      <4>1. main' # main
        BY <2>3
      <4>2. ~(\E k \in Keys : Expire(k)) /\ ~(\E raw \in RawKeys : Put(raw)) /\ ~Exited /\ ~Settled
            /\ ~UNCHANGED vars
        BY <4>1 DEF Expire, Put, Exited, Settled, vars, poolVars
      <4>3. ~ \E w \in Workers : MinioStep(w)
        BY <4>1 DEF MinioStep, Download, Upload, DownloadFails, UploadFails, GetOk, GetErr, PutOk, PutErr
      <4> QED BY <1>1, <1>3, <4>2, <4>3 DEF Next
    <3>2. Shutdown /\ (main = "drain" => Drained)
      <4>1. main' # main
        BY <2>3
      <4>2. ~ \E w \in Workers : WorkerStep(w)
        BY <4>1 DEF WorkerStep, Take, Wait, Exit, StartFirstAttempt, StartRetry, AnnounceStarted,
           Succeed, AnnounceCompleted, ScheduleRetry, ArmRetryTimer, Fail, AnnounceFailed
      <4>3. ~(\E j \in timers : RetryTimer(j)) /\ ~Signal /\ ~CommitBatch
        BY <4>1 DEF RetryTimer, Signal, CommitBatch
      <4> QED BY <3>1, <4>2, <4>3 DEF PoolMoves
    <3>3. main = "drain"
      BY <2>3, <3>2 DEF Shutdown, Terminate, StopClose, StopBroadcast, StopReturn
    <3> QED BY <2>1, <3>2, <3>3 DEF Drained
  <2> QED BY <2>2, <2>3
<1> QED BY <1>2, <1>3

LEMMA ExitedStep ==
    ASSUME GwTypeInv, GwPoolInv, ExitedCommitted, [Next]_vars
    PROVE  ExitedCommitted'
<1> USE DEF GwPoolInv
<1> SUFFICES ASSUME main' = "exited"
             PROVE  table' = row' /\ \A w \in Workers : pc'[w] = "exited"
  BY DEF ExitedCommitted
<1>1. CASE UNCHANGED <<main, row, table, pc>>
  BY <1>1 DEF ExitedCommitted
<1>2. CASE \E h \in Handlers : Receive(h) \/ HandlerStep(h)
  <2>1. UNCHANGED main
    BY <1>2 DEF Receive, HandlerStep, SkipDuplicate, MarkSeen, SkipActive, NoActive, CreateTransfer,
       CreateFails, EnqueueJob, AnnounceQueued, Accept, poolVars
  <2> QED BY <1>2, <2>1 DEF Receive, HandlerStep, SkipDuplicate, MarkSeen, SkipActive, NoActive,
       CreateTransfer, CreateFails, EnqueueJob, AnnounceQueued, Accept, HGoto, Up
<1>3. CASE Restart
  BY <1>3 DEF Restart
<1>4. ASSUME NEW w \in Workers, MinioStep(w)
      PROVE  FALSE
  BY <1>4 DEF MinioStep, Download, Upload, DownloadFails, UploadFails, GetOk, GetErr, PutOk, PutErr,
     Goto, ExitedCommitted
<1>5. CASE PoolMoves
  <2>1. ASSUME NEW w \in Workers, WorkerStep(w)
        PROVE  FALSE
    BY <2>1 DEF WorkerStep, Take, Wait, Exit, StartFirstAttempt, StartRetry, AnnounceStarted,
       Succeed, AnnounceCompleted, ScheduleRetry, ArmRetryTimer, Fail, AnnounceFailed, Return, Goto,
       ExitedCommitted
  <2>2. ~(\E j \in timers : RetryTimer(j)) /\ ~Signal /\ ~CommitBatch
    BY DEF RetryTimer, Signal, CommitBatch, Up
  <2>3. CASE Shutdown
    BY <2>3 DEF Shutdown, Terminate, StopClose, StopBroadcast, StopReturn
  <2> QED BY <1>5, <2>1, <2>2, <2>3 DEF PoolMoves
<1>6. CASE (\E k \in Keys : Expire(k)) \/ (\E raw \in RawKeys : Put(raw))
           \/ (Exited /\ UNCHANGED gateVars) \/ Settled \/ UNCHANGED vars
  BY <1>1, <1>6 DEF Expire, Put, Exited, Settled, vars, poolVars
<1> QED BY <1>2, <1>3, <1>4, <1>5, <1>6 DEF Next

\* The row of a request's transfer is of its record's key.
LEMMA InsertedStep ==
    ASSUME GwTypeInv, GwPoolInv, GwPoolInv', InsertedOwn, [Next]_vars
    PROVE  InsertedOwn'
<1> USE DEF GwTypeInv
<1>1. Created \subseteq Begun /\ \A t \in Begun : RowKey(t)' = RowKey(t)
  BY CarriedStep, RowKeyStays DEF GwPoolInv, CreatedBegun
<1>2. ASSUME NEW h \in Handlers, hpc'[h] \in {"enqueue", "announce"},
             hpc[h] \in {"enqueue", "announce"}, tid'[h] = tid[h], Rec(h)' = Rec(h)
      PROVE  RowKey(tid[h])' = KeyOf(Rec(h)')
  <2>1. PICK t \in Created : t = tid[h]
    BY <1>2 DEF HandlersTyped
  <2>2. RowKey(t) = KeyOf(Rec(h))
    BY <1>2, <2>1 DEF InsertedOwn
  <2>3. RowKey(tid[h])' = RowKey(t)'
    BY <1>2, <2>1 DEF RowKey
  <2> QED BY <1>1, <1>2, <2>2, <2>3
<1>3. ASSUME NEW h \in Handlers, hpc'[h] \in {"enqueue", "announce"}
      PROVE  RowKey(tid[h])' = KeyOf(Rec(h)')
  <2>1. CASE CreateTransfer(h)
    <3>1. PICK t \in Transfers \ Begun :
            tid' = [tid EXCEPT ![h] = t] /\ of' = [of EXCEPT ![t] = Rec(h)]
      BY <2>1 DEF CreateTransfer
    <3>2. tid'[h] = t /\ of'[t] = Rec(h) /\ Rec(h)' = Rec(h)
      BY <2>1, <3>1 DEF CreateTransfer, HandlersTyped, TablesTyped, Rec
    <3> QED BY <3>2 DEF RowKey, KeyOf
  <2>2. CASE EnqueueJob(h)
    <3>1. hpc[h] = "enqueue" /\ tid'[h] = tid[h] /\ Rec(h)' = Rec(h)
      BY <2>2 DEF EnqueueJob, HGoto, Rec
    <3> QED BY <1>2, <1>3, <3>1
  <2>3. CASE ~CreateTransfer(h) /\ ~EnqueueJob(h)
    <3>1. hpc[h] = hpc'[h] /\ tid'[h] = tid[h] /\ Rec(h)' = Rec(h)
      <4>1. CASE \E g \in Handlers : Receive(g) \/ HandlerStep(g)
        <5>1. PICK g \in Handlers : Receive(g) \/ HandlerStep(g)
          BY <4>1
        <5>2. g # h
          BY <1>3, <2>3, <5>1 DEF Receive, HandlerStep, SkipDuplicate, MarkSeen, SkipActive, NoActive,
             CreateFails, AnnounceQueued, Accept, HGoto, HandlersTyped
        <5> QED BY <5>1, <5>2, OthersStay
      <4>2. CASE Restart
        BY <1>3, <4>2 DEF Restart
      <4>3. CASE ~(\E g \in Handlers : Receive(g) \/ HandlerStep(g)) /\ ~Restart
        <5>1. UNCHANGED <<hpc, batch, pos, tid>>
          BY <4>3 DEF Next, Expire, Put, MinioStep, Download, Upload, DownloadFails, UploadFails,
             PoolMoves, Settled, vars, gateVars
        <5> QED BY <5>1 DEF Rec
      <4> QED BY <4>1, <4>2, <4>3
    <3> QED BY <1>2, <1>3, <3>1
  <2> QED BY <2>1, <2>2, <2>3
<1> QED BY <1>3 DEF InsertedOwn, KeyOf

\* Whatever a request puts behind it is recorded by then.
LEMMA PassedNow ==
    ASSUME GwTypeInv, GwPoolInv, RecordedInv, NEW h \in Handlers,
           SkipDuplicate(h) \/ SkipActive(h) \/ AnnounceQueued(h)
    PROVE  Recorded(KeyOf(Rec(h)))
<1>1. CASE SkipDuplicate(h)
  BY <1>1 DEF SkipDuplicate, RecordedInv, SeenRecorded
<1>2. CASE SkipActive(h)
  BY <1>2, ActiveIsCreated DEF SkipActive, Recorded
<1>3. CASE AnnounceQueued(h)
  <2>1. hpc[h] = "announce"
    BY <1>3 DEF AnnounceQueued, HGoto
  <2>2. tid[h] \in Created /\ RowKey(tid[h]) = KeyOf(Rec(h))
    BY <2>1 DEF RecordedInv, InsertedOwn, GwTypeInv, HandlersTyped
  <2> QED BY <2>2 DEF Recorded
<1> QED BY <1>1, <1>2, <1>3

\* The records behind the loop: those that were, the one just dealt with, or
\* none, when a request begins or ends.
LEMMA PassedStep ==
    ASSUME GwTypeInv, [Next]_vars, NEW h \in Handlers
    PROVE  \/ batch'[h] = batch[h] /\ pos'[h] = pos[h]
           \/ /\ batch'[h] = batch[h] /\ pos'[h] = pos[h] + 1
              /\ SkipDuplicate(h) \/ SkipActive(h) \/ AnnounceQueued(h)
           \/ pos'[h] = 1
<1> USE DEF GwTypeInv
<1>1. CASE \E g \in Handlers : Receive(g) \/ HandlerStep(g)
  <2>1. PICK g \in Handlers : Receive(g) \/ HandlerStep(g)
    BY <1>1
  <2>2. CASE g # h
    BY <2>1, <2>2, OthersStay
  <2>3. CASE g = h
    <3>1. CASE Receive(h) \/ CreateFails(h) \/ Accept(h)
      BY <3>1 DEF Receive, CreateFails, Accept, Finish, HandlersTyped
    <3>2. CASE SkipDuplicate(h) \/ SkipActive(h) \/ AnnounceQueued(h)
      BY <3>2 DEF SkipDuplicate, SkipActive, AnnounceQueued, NextRecord, HandlersTyped
    <3>3. CASE MarkSeen(h) \/ NoActive(h) \/ CreateTransfer(h) \/ EnqueueJob(h)
      BY <3>3 DEF MarkSeen, NoActive, CreateTransfer, EnqueueJob
    <3> QED BY <2>1, <2>3, <3>1, <3>2, <3>3 DEF HandlerStep
  <2> QED BY <2>2, <2>3
<1>2. CASE Restart
  BY <1>2 DEF Restart
<1>3. CASE ~(\E g \in Handlers : Receive(g) \/ HandlerStep(g)) /\ ~Restart
  BY <1>3 DEF Next, Expire, Put, MinioStep, Download, Upload, DownloadFails, UploadFails, PoolMoves,
     Settled, vars, gateVars
<1> QED BY <1>1, <1>2, <1>3

\* Only MarkSeen adds a mark, only Accept accepts.
LEMMA MarksAndAnswers ==
    ASSUME [Next]_vars
    PROVE  /\ seen' \subseteq seen \/ \E h \in Handlers : MarkSeen(h)
           /\ acked' = acked \/ \E h \in Handlers : Accept(h)
<1>1. CASE \E h \in Handlers : Receive(h) \/ HandlerStep(h)
  BY <1>1 DEF Receive, HandlerStep, SkipDuplicate, SkipActive, NoActive, CreateTransfer, CreateFails,
     EnqueueJob, AnnounceQueued, MarkSeen, Accept
<1>2. CASE ~ \E h \in Handlers : Receive(h) \/ HandlerStep(h)
  BY <1>2 DEF Next, Expire, Put, MinioStep, Download, Upload, DownloadFails, UploadFails, PoolMoves,
     Restart, Settled, vars, gateVars
<1> QED BY <1>1, <1>2

LEMMA RecordedStep ==
    ASSUME CreateMayFail = FALSE, NoRequestLost, GwTypeInv, GwPoolInv, GwPoolInv', RecordedInv,
           [Next]_vars
    PROVE  RecordedInv'
<1>1. QuietShutdown' /\ InsertedOwn' /\ ExitedCommitted'
  BY QuietStep, InsertedStep, ExitedStep DEF RecordedInv
<1>2. \A k : Recorded(k) => Recorded(k)'
  BY RecordedStays DEF RecordedInv
<1>3. SeenRecorded'
  <2>1. ASSUME NEW h \in Handlers, MarkSeen(h)
        PROVE  SeenRecorded'
    <3>1. /\ Marking(h)' /\ Rec(h)' = Rec(h) /\ seen' = seen \union {KeyOf(Rec(h))}
      BY <2>1 DEF MarkSeen, HGoto, Marking, Rec, GwTypeInv, HandlersTyped
    <3>2. PICK k : k = KeyOf(Rec(h))
      OBVIOUS
    <3>3. Recorded(k)'
      BY <3>1, <3>2 DEF Recorded, KeyOf
    <3> QED BY <1>2, <3>1, <3>2, <3>3 DEF RecordedInv, SeenRecorded
  <2>2. CASE seen' \subseteq seen
    BY <1>2, <2>2 DEF RecordedInv, SeenRecorded
  <2> QED BY <2>1, <2>2, MarksAndAnswers
<1>4. PassedRecorded'
  <2>1. ASSUME NEW h \in Handlers, NEW i \in 1..Len(batch'[h]), i < pos'[h]
        PROVE  \E k : k = KeyOf(batch'[h][i]) /\ Recorded(k)'
    <3>0. pos[h] \in Nat /\ Len(batch[h]) \in Nat /\ i \in Nat
      BY BoundsNat DEF GwTypeInv, HandlersTyped
    <3>1. CASE batch'[h] = batch[h] /\ pos'[h] = pos[h]
      <4>1. Recorded(KeyOf(batch[h][i]))
        BY <2>1, <3>1 DEF RecordedInv, PassedRecorded
      <4> QED BY <1>2, <3>1, <4>1
    <3>2. CASE /\ batch'[h] = batch[h] /\ pos'[h] = pos[h] + 1
               /\ SkipDuplicate(h) \/ SkipActive(h) \/ AnnounceQueued(h)
      <4>1. CASE i = pos[h]
        <5>1. Recorded(KeyOf(Rec(h)))
          BY <3>2, PassedNow
        <5>2. Rec(h) = batch'[h][i]
          BY <3>2, <4>1 DEF Rec
        <5> QED BY <1>2, <5>1, <5>2
      <4>2. CASE i # pos[h]
        <5>1. i < pos[h]
          BY <2>1, <3>0, <3>2, <4>2
        <5>2. Recorded(KeyOf(batch[h][i]))
          BY <2>1, <3>2, <5>1 DEF RecordedInv, PassedRecorded
        <5> QED BY <1>2, <3>2, <5>2
      <4> QED BY <4>1, <4>2
    <3>3. CASE pos'[h] = 1
      BY <2>1, <3>3
    <3> QED BY <3>1, <3>2, <3>3, PassedStep
  <2> QED BY <2>1 DEF PassedRecorded, KeyOf
<1>5. AckedIsRecorded'
  <2>1. \A e \in acked : Recorded(KeyOf(e))
    BY DEF RecordedInv, AckedIsRecorded, Recorded, Marking
  <2>2. \A e \in acked' : Recorded(KeyOf(e))
    <3>1. ASSUME NEW h \in Handlers, Accept(h), NEW e \in acked', e \notin acked
          PROVE  Recorded(KeyOf(e))
      <4>1. PICK i \in 1..Len(batch[h]) : e = batch[h][i]
        BY <3>1 DEF Accept
      <4>2. i < pos[h]
        <5>1. ~(pos[h] <= Len(batch[h]))
          BY <3>1 DEF Accept, More
        <5>2. pos[h] \in Nat /\ Len(batch[h]) \in Nat
          BY BoundsNat DEF GwTypeInv, HandlersTyped
        <5> QED BY <5>1, <5>2
      <4> QED BY <4>1, <4>2 DEF RecordedInv, PassedRecorded
    <3> QED BY <2>1, <3>1, MarksAndAnswers
  <2>3. ASSUME NEW e \in acked'
        PROVE  \E k : k = KeyOf(e) /\ Recorded(k)'
    BY <1>2, <2>2
  <2> QED BY <2>3 DEF AckedIsRecorded, Recorded, Marking, KeyOf
<1> QED BY <1>1, <1>3, <1>4, <1>5 DEF RecordedInv

\* A notification is acknowledged only when its key has a row, or the request
\* that marked it is about to insert one: on every way through the loop, with
\* duplicates, answers that are lost, errors of the check and of the copies, and
\* restarts after an orderly shutdown.  It takes inserts that succeed and
\* requests that are not cut off between the mark and the INSERT.
THEOREM GatewayAckedIsRecorded ==
    ASSUME CreateMayFail = FALSE, NoRequestLost
    PROVE  Spec => []AckedIsRecorded
<1>1. Init => RecordedInv
  <2>1. SUFFICES ASSUME Init PROVE RecordedInv
    OBVIOUS
  <2>2. /\ acked = {} /\ seen = {} /\ main = "run"
        /\ \A h \in Handlers : hpc[h] = "free" /\ Len(batch[h]) = 0
    BY <2>1 DEF Init, PoolInit
  <2> QED BY <2>2 DEF RecordedInv, SeenRecorded, PassedRecorded, InsertedOwn, QuietShutdown,
                      ExitedCommitted, AckedIsRecorded
<1>2. GwTypeInv /\ GwPoolInv /\ GwPoolInv' /\ RecordedInv /\ [Next]_vars => RecordedInv'
  BY RecordedStep
<1>3. RecordedInv => AckedIsRecorded
  BY DEF RecordedInv
<1> QED BY <1>1, <1>2, <1>3, GwInvariant, PTL DEF Spec
=============================================================================
