----------------------- MODULE TransferManagerProofs ------------------------
(***************************************************************************)
(* Proofs about the worker pool, for any number of workers and transfers,  *)
(* any retry budgets, any throttle, and any set of transfers whose updates *)
(* may fail.                                                               *)
(***************************************************************************)
EXTENDS TransferManager, FiniteSetTheorems, TLAPS

\* What Enqueue and the loop's pop do to the queue, index by index.
LEMMA QueueFacts ==
    ASSUME NEW q \in Seq(TransferJob)
    PROVE  /\ \A j \in TransferJob :
                /\ Append(q, j) \in Seq(TransferJob)
                /\ Len(Append(q, j)) = Len(q) + 1
                /\ \A i \in 1..(Len(q) + 1) :
                     Append(q, j)[i] = IF i = Len(q) + 1 THEN j ELSE q[i]
           /\ q # <<>> =>
                /\ Head(q) \in TransferJob /\ Head(q) = q[1]
                /\ Tail(q) \in Seq(TransferJob)
                /\ Len(q) \in Nat \ {0} /\ Len(Tail(q)) = Len(q) - 1
                /\ \A i \in 1..(Len(q) - 1) : Tail(q)[i] = q[i + 1]
  OBVIOUS

\* Appending a job of another transfer keeps the queue free of duplicates.
LEMMA AppendDistinct ==
    ASSUME NEW q \in Seq(TransferJob), NEW j \in TransferJob,
           \A i, k \in 1..Len(q) : q[i].id = q[k].id => i = k,
           \A i \in 1..Len(q) : q[i].id # j.id
    PROVE  \A i, k \in 1..Len(Append(q, j)) :
               Append(q, j)[i].id = Append(q, j)[k].id => i = k
  BY QueueFacts

\* Every job there is belongs to a transfer.
LEMMA JobIds ==
    ASSUME PoolTypeOK
    PROVE  /\ \A i \in 1..Len(queue) : queue[i].id \in Transfers
           /\ \A j \in timers : j.id \in Transfers
           /\ \A v \in Workers : pc[v] \in Busy => job[v].id \in Transfers
<1>1. \A j \in TransferJob : j.id \in Transfers
  BY DEF TransferJob
<1>2. \A i \in 1..Len(queue) : queue[i] \in TransferJob
  BY DEF PoolTypeOK
<1> QED
  BY <1>1, <1>2 DEF PoolTypeOK

\* broadcast() keeps the feed well typed whatever the queue's depth.
LEMMA BroadcastType ==
    ASSUME NEW t \in Transfers, NEW e \in Events,
           feed \in [Transfers -> Seq(Events)], Broadcast(t, e)
    PROVE  feed' \in [Transfers -> Seq(Events)]
  BY DEF Broadcast

\* UpdateTransfer keeps both copies well typed, whether or not it succeeds.
LEMMA UpdateType ==
    ASSUME NEW t \in Transfers, NEW new \in Transfer,
           mem \in [Transfers -> Transfer], row \in [Transfers -> Transfer],
           UpdateTransfer(t, new)
    PROVE  mem' \in [Transfers -> Transfer] /\ row' \in [Transfers -> Transfer]
  BY DEF UpdateTransfer

\* The values written to a Transfer are Transfers.
LEMMA MarkTypes ==
    ASSUME NEW r \in Transfer
    PROVE  /\ MarkInProgress(r) \in Transfer
           /\ MarkSuccess(r) \in Transfer
           /\ \A n \in Nat : MarkRetrying(r, n) \in Transfer
           /\ MarkFailed(r) \in Transfer
           /\ ResetForRetry(r) \in Transfer
<1> USE DEF Transfer, Status, Active, Terminal
<1>1. MarkInProgress(r) \in Transfer BY DEF MarkInProgress
<1>2. MarkSuccess(r) \in Transfer BY DEF MarkSuccess
<1>3. ASSUME NEW n \in Nat PROVE MarkRetrying(r, n) \in Transfer BY DEF MarkRetrying
<1>4. MarkFailed(r) \in Transfer BY DEF MarkFailed
<1>5. ResetForRetry(r) \in Transfer BY DEF ResetForRetry
<1> QED BY <1>1, <1>2, <1>3, <1>4, <1>5

\* job.RetryCount++ yields a job of the same transfer.
LEMMA NextAttemptType ==
    ASSUME NEW j \in TransferJob
    PROVE  /\ NextAttempt(j) \in TransferJob
           /\ NextAttempt(j).id = j.id
           /\ NextAttempt(j).retryCount = j.retryCount + 1
  BY DEF NextAttempt, TransferJob

LEMMA PoolTypeInit ==
    ASSUME PoolInit
    PROVE  PoolTypeOK
<1>1. NoTransfer \in Transfer
  BY DEF NoTransfer, NewTransfer, Transfer
<1>2. <<>> \in Seq(TransferJob) /\ <<>> \in Seq(Events)
  OBVIOUS
<1>3. /\ pc \in [Workers -> Idle \union Busy]
      /\ job \in [Workers -> TransferJob \union {NoJob}]
      /\ \A w \in Workers : pc[w] \notin Busy
  BY DEF PoolInit, Idle, Busy
<1>4. /\ mem \in [Transfers -> Transfer]
      /\ row \in [Transfers -> Transfer] /\ table \in [Transfers -> Transfer]
      /\ feed \in [Transfers -> Seq(Events)]
  BY <1>1, <1>2 DEF PoolInit
<1> QED
  BY <1>2, <1>3, <1>4 DEF PoolInit, PoolTypeOK, Phases

\* Every goroutine's step keeps every variable in its type.
LEMMA PoolTypeStep ==
    ASSUME PoolTypeOK, [PoolNext]_poolVars
    PROVE  PoolTypeOK'
<1> USE MaxRetriesNat DEF PoolTypeOK
<1>1. ASSUME NEW w \in Workers, Take(w) PROVE PoolTypeOK'
  BY <1>1, QueueFacts DEF Take, Goto, Idle, Busy
<1>2. ASSUME NEW w \in Workers, Wait(w) \/ Exit(w) PROVE PoolTypeOK'
  BY <1>2 DEF Wait, Exit, Goto, Idle, Busy
<1>3. ASSUME NEW w \in Workers, StartFirstAttempt(w) PROVE PoolTypeOK'
  <2>1. job[w] \in TransferJob /\ job[w].id \in Transfers
    BY <1>3 DEF StartFirstAttempt, Goto, Busy, TransferJob
  <2>2. MarkInProgress(mem[job[w].id]) \in Transfer
    BY <2>1, MarkTypes
  <2>3. mem' \in [Transfers -> Transfer] /\ row' \in [Transfers -> Transfer]
    BY <1>3, <2>1, <2>2, UpdateType DEF StartFirstAttempt
  <2> QED
    BY <1>3, <2>1, <2>3 DEF StartFirstAttempt, Goto, Idle, Busy
<1>4. ASSUME NEW w \in Workers, StartRetry(w) PROVE PoolTypeOK'
  BY <1>4 DEF StartRetry, Goto, Idle, Busy
<1>5. ASSUME NEW w \in Workers, AnnounceStarted(w) PROVE PoolTypeOK'
  <2>1. job[w].id \in Transfers
    BY <1>5 DEF AnnounceStarted, Goto, Busy, TransferJob
  <2>2. feed' \in [Transfers -> Seq(Events)]
    BY <1>5, <2>1, BroadcastType DEF AnnounceStarted, Events
  <2> QED
    BY <1>5, <2>2 DEF AnnounceStarted, Goto, Idle, Busy
<1>6. ASSUME NEW w \in Workers, MinioAnswers(w) PROVE PoolTypeOK'
  BY <1>6 DEF MinioAnswers, GetOk, GetErr, PutOk, PutErr, Goto, Idle, Busy
<1>7. ASSUME NEW w \in Workers, Succeed(w) PROVE PoolTypeOK'
  <2>1. job[w] \in TransferJob /\ job[w].id \in Transfers
    BY <1>7 DEF Succeed, Goto, Busy, TransferJob
  <2>2. MarkSuccess(mem[job[w].id]) \in Transfer
    BY <2>1, MarkTypes
  <2>3. mem' \in [Transfers -> Transfer] /\ row' \in [Transfers -> Transfer]
    BY <1>7, <2>1, <2>2, UpdateType DEF Succeed
  <2> QED
    BY <1>7, <2>1, <2>3 DEF Succeed, Goto, Idle, Busy
<1>8. ASSUME NEW w \in Workers, AnnounceCompleted(w) PROVE PoolTypeOK'
  <2>1. job[w].id \in Transfers
    BY <1>8 DEF AnnounceCompleted, Return, Goto, Busy, TransferJob
  <2>2. feed' \in [Transfers -> Seq(Events)]
    BY <1>8, <2>1, BroadcastType DEF AnnounceCompleted, Events
  <2> QED
    BY <1>8, <2>2 DEF AnnounceCompleted, Return, Goto, Idle, Busy
<1>9. ASSUME NEW w \in Workers, ScheduleRetry(w) PROVE PoolTypeOK'
  <2>1. /\ job[w] \in TransferJob /\ job[w].id \in Transfers
        /\ job[w].retryCount + 1 \in Nat
    BY <1>9 DEF ScheduleRetry, Goto, Busy, TransferJob
  <2>2. MarkRetrying(mem[job[w].id], job[w].retryCount + 1) \in Transfer
    BY <2>1, MarkTypes
  <2>3. mem' \in [Transfers -> Transfer] /\ row' \in [Transfers -> Transfer]
    BY <1>9, <2>1, <2>2, UpdateType DEF ScheduleRetry
  <2>4. NextAttempt(job[w]) \in TransferJob
    BY <2>1, NextAttemptType
  <2> QED
    BY <1>9, <2>3, <2>4 DEF ScheduleRetry, Goto, Idle, Busy
<1>10. ASSUME NEW w \in Workers, ArmRetryTimer(w) PROVE PoolTypeOK'
  <2>1. job[w].id \in Transfers /\ job[w] \in TransferJob
    BY <1>10 DEF ArmRetryTimer, Return, Goto, Busy, TransferJob
  <2>2. feed' \in [Transfers -> Seq(Events)]
    BY <1>10, <2>1, BroadcastType DEF ArmRetryTimer, Events
  <2> QED
    BY <1>10, <2>1, <2>2 DEF ArmRetryTimer, Return, Goto, Idle, Busy
<1>11. ASSUME NEW w \in Workers, Fail(w) PROVE PoolTypeOK'
  <2>1. job[w] \in TransferJob /\ job[w].id \in Transfers
    BY <1>11 DEF Fail, Goto, Busy, TransferJob
  <2>2. MarkFailed(mem[job[w].id]) \in Transfer
    BY <2>1, MarkTypes
  <2>3. mem' \in [Transfers -> Transfer] /\ row' \in [Transfers -> Transfer]
    BY <1>11, <2>1, <2>2, UpdateType DEF Fail
  <2> QED
    BY <1>11, <2>1, <2>3 DEF Fail, Goto, Idle, Busy
<1>12. ASSUME NEW w \in Workers, AnnounceFailed(w) PROVE PoolTypeOK'
  <2>1. job[w].id \in Transfers
    BY <1>12 DEF AnnounceFailed, Return, Goto, Busy, TransferJob
  <2>2. feed' \in [Transfers -> Seq(Events)]
    BY <1>12, <2>1, BroadcastType DEF AnnounceFailed, Events
  <2> QED
    BY <1>12, <2>2 DEF AnnounceFailed, Return, Goto, Idle, Busy
<1>13. ASSUME NEW j \in timers, RetryTimer(j) PROVE PoolTypeOK'
  <2>1. j \in TransferJob /\ j.id \in Transfers
    BY DEF TransferJob
  <2>2. mem' \in [Transfers -> Transfer]
    BY <1>13, <2>1, MarkTypes DEF RetryTimer
  <2>3. queue' \in Seq(TransferJob) /\ signals' \in Nat
    BY <1>13, <2>1, QueueFacts DEF RetryTimer, Enqueue
  <2> QED
    BY <1>13, <2>2, <2>3 DEF RetryTimer
<1>14. CASE Signal \/ CommitBatch
  BY <1>14 DEF Signal, CommitBatch, Goto, Idle, Busy
<1>15. ASSUME NEW t \in Transfers, Submit(t) PROVE PoolTypeOK'
  <2>1. [id |-> t, retryCount |-> 0] \in TransferJob
    BY DEF TransferJob
  <2>2. queue' \in Seq(TransferJob) /\ signals' \in Nat
    BY <1>15, <2>1, QueueFacts DEF Submit, Enqueue
  <2>3. NewTransfer \in Transfer
    BY DEF NewTransfer, Transfer, Status, Active
  <2> QED
    BY <1>15, <2>2, <2>3 DEF Submit
<1>16. CASE Shutdown
  BY <1>16 DEF Shutdown, Terminate, StopClose, StopBroadcast, StopReturn,
               Phases, Idle, Busy
<1>17. CASE Exited \/ UNCHANGED poolVars
  BY <1>17 DEF Exited, poolVars
<1>18. ASSUME NEW t \in Transfers, AnnounceSubmitted(t) PROVE PoolTypeOK'
  <2>1. feed' \in [Transfers -> Seq(Events)]
    BY <1>18, BroadcastType DEF AnnounceSubmitted, Events
  <2> QED
    BY <1>18, <2>1 DEF AnnounceSubmitted
<1> QED
  BY <1>1, <1>2, <1>3, <1>4, <1>5, <1>6, <1>7, <1>8, <1>9, <1>10, <1>11, <1>12,
     <1>13, <1>14, <1>15, <1>16, <1>17, <1>18
     DEF PoolNext, PoolStep, WorkerStep

\* Type correctness of the pool: a worker inside process() always holds a job.
THEOREM PoolTypeCorrect == PoolSpec => []PoolTypeOK
<1>1. PoolInit => PoolTypeOK
  BY PoolTypeInit
<1>2. PoolTypeOK /\ [PoolNext]_poolVars => PoolTypeOK'
  BY PoolTypeStep
<1> QED BY <1>1, <1>2, PTL DEF PoolSpec

-----------------------------------------------------------------------------
(***************************************************************************)
(* Ownership.  A job moves between the queue, a worker and a timer; it is  *)
(* created only for a transfer without a row, hence without a job.         *)
(***************************************************************************)

\* Steps that move no job, start or end no process() call and remove no row.
LEMMA OwnershipKept ==
    ASSUME PoolTypeOK, OwnershipInv,
           queue' = queue, timers' = timers,
           \A w \in Workers : /\ pc'[w] \in Busy => pc[w] \in Busy
                              /\ pc'[w] \in Busy => job'[w].id = job[w].id,
           Created \subseteq Created'
    PROVE  OwnershipInv'
<1>1. Queued' = Queued /\ Held' \subseteq Held /\ Delayed' = Delayed
  BY DEF Queued, Held, Delayed
<1>2. QueuedOnce' /\ DelayedOnce'
  BY DEF OwnershipInv, OneOwner, QueuedOnce, DelayedOnce
<1>3. HeldOnce'
  BY DEF OwnershipInv, OneOwner, HeldOnce
<1>4. OnePlace'
  BY <1>1 DEF OwnershipInv, OneOwner, OnePlace
<1>5. OwnedHasRow'
  BY <1>1 DEF OwnershipInv, OwnedHasRow, Owned
<1> QED BY <1>2, <1>3, <1>4, <1>5 DEF OwnershipInv, OneOwner

\* UpdateTransfer with a real status never removes a row.
LEMMA UpdateKeepsRows ==
    ASSUME NEW t \in Transfers, NEW new \in Transfer, new.status \in Status,
           row \in [Transfers -> Transfer], UpdateTransfer(t, new)
    PROVE  Created \subseteq Created'
  BY DEF UpdateTransfer, Created, Status, Active, Terminal

\* The statuses the marks assign.
LEMMA MarkStatus ==
    ASSUME NEW r \in Transfer
    PROVE  /\ MarkInProgress(r).status = "in_progress"
           /\ MarkSuccess(r).status = "success"
           /\ \A n \in Nat : MarkRetrying(r, n).status = "retrying"
           /\ MarkFailed(r).status = "failed"
           /\ ResetForRetry(r).status = "pending"
  BY DEF MarkInProgress, MarkSuccess, MarkRetrying, MarkFailed, ResetForRetry, Transfer

\* The inductive step of the ownership invariant, action by action.
LEMMA OwnershipStep ==
    ASSUME PoolTypeOK, OwnershipInv, PoolNext
    PROVE  OwnershipInv'
<1> USE DEF PoolTypeOK
<1>1. ASSUME NEW w \in Workers, Take(w) PROVE OwnershipInv'
  <2> DEFINE h == Head(queue)
  <2>1. /\ h \in TransferJob /\ h.id \in Transfers /\ h = queue[1]
        /\ Len(queue) \in Nat \ {0}
        /\ Len(queue') = Len(queue) - 1
        /\ \A i \in 1..Len(queue') : queue'[i] = queue[i + 1]
    BY <1>1, QueueFacts DEF Take, TransferJob
  <2>2. /\ job'[w] = h /\ pc[w] \notin Busy
        /\ \A v \in Workers : v # w => pc'[v] = pc[v] /\ job'[v] = job[v]
    BY <1>1 DEF Take, Goto, Busy
  <2>3. h.id \in Queued /\ timers' = timers /\ row' = row
    <3>1. 1 \in 1..Len(queue) /\ queue[1].id = h.id
      BY <2>1
    <3> QED
      BY <1>1, <3>1 DEF Take, Queued
  <2> HIDE DEF h
  <2>4. /\ Queued' \subseteq Queued \ {h.id}
        /\ Held' \subseteq Held \union {h.id}
        /\ Delayed' = Delayed
    <3>1. Queued' \subseteq Queued \ {h.id}
      <4> SUFFICES ASSUME NEW i \in 1..Len(queue')
                   PROVE  queue'[i].id \in Queued /\ queue'[i].id # h.id
        BY DEF Queued
      <4>1. i + 1 \in 1..Len(queue) /\ 1 \in 1..Len(queue) /\ i + 1 # 1
        BY <2>1
      <4>2. queue[i + 1].id = queue'[i].id /\ queue[1].id = h.id
        BY <2>1
      <4> QED
        BY <4>1, <4>2 DEF Queued, OwnershipInv, OneOwner, QueuedOnce
    <3> QED
      BY <3>1, <2>2, <2>3 DEF Held, Delayed
  <2>5. QueuedOnce'
    BY <2>1, SMTT(40) DEF OwnershipInv, OneOwner, QueuedOnce
  <2>6. HeldOnce'
    <3>1. h.id \notin Held /\ HeldOnce
      BY <2>1, <2>3 DEF OwnershipInv, OneOwner, OnePlace
    <3>2. \A v \in Workers : pc[v] \in Busy => job[v].id # h.id
      BY <3>1 DEF Held
    <3>3. ASSUME NEW u \in Workers, NEW v \in Workers, pc'[u] \in Busy, pc'[v] \in Busy,
                 job'[u].id = job'[v].id
          PROVE  u = v
      BY <2>2, <3>1, <3>2, <3>3 DEF HeldOnce
    <3> QED BY <3>3 DEF HeldOnce
  <2>7. DelayedOnce'
    BY <2>3 DEF OwnershipInv, OneOwner, DelayedOnce
  <2>8. OnePlace' /\ OwnedHasRow'
    BY <2>1, <2>3, <2>4 DEF OwnershipInv, OneOwner, OnePlace, OwnedHasRow, Owned, Created
  <2> QED
    BY <2>5, <2>6, <2>7, <2>8 DEF OwnershipInv, OneOwner
<1>2. ASSUME NEW w \in Workers, Wait(w) \/ Exit(w) \/ StartRetry(w) PROVE OwnershipInv'
  BY <1>2, OwnershipKept DEF Wait, Exit, StartRetry, Goto, Busy, Created
<1>3. ASSUME NEW w \in Workers, MinioAnswers(w) PROVE OwnershipInv'
  BY <1>3, OwnershipKept DEF MinioAnswers, GetOk, GetErr, PutOk, PutErr, Goto, Busy, Created
<1>4. ASSUME NEW w \in Workers,
             AnnounceStarted(w) \/ AnnounceCompleted(w) \/ AnnounceFailed(w)
      PROVE  OwnershipInv'
  BY <1>4, OwnershipKept
     DEF AnnounceStarted, AnnounceCompleted, AnnounceFailed, Return, Goto, Busy, Created
<1>5. ASSUME NEW w \in Workers,
             StartFirstAttempt(w) \/ Succeed(w) \/ ScheduleRetry(w) \/ Fail(w)
      PROVE  OwnershipInv'
  <2>1. /\ job[w] \in TransferJob /\ job[w].id \in Transfers
        /\ job[w].retryCount + 1 \in Nat
    BY <1>5 DEF StartFirstAttempt, Succeed, ScheduleRetry, Fail, Goto, Busy, TransferJob
  <2>2. PICK new \in Transfer : new.status \in Status /\ UpdateTransfer(job[w].id, new)
    BY <1>5, <2>1, MarkTypes, MarkStatus, ZenonT(60)
       DEF StartFirstAttempt, Succeed, ScheduleRetry, Fail, Status, Active, Terminal
  <2>3. Created \subseteq Created'
    BY <2>1, <2>2, UpdateKeepsRows
  <2>4. \A v \in Workers : /\ pc'[v] \in Busy => pc[v] \in Busy
                           /\ pc'[v] \in Busy => job'[v].id = job[v].id
    BY <1>5, <2>1, NextAttemptType
       DEF StartFirstAttempt, Succeed, ScheduleRetry, Fail, Goto, Busy
  <2>5. queue' = queue /\ timers' = timers
    BY <1>5 DEF StartFirstAttempt, Succeed, ScheduleRetry, Fail
  <2> QED
    BY <2>3, <2>4, <2>5, OwnershipKept
<1>6. ASSUME NEW w \in Workers, ArmRetryTimer(w) PROVE OwnershipInv'
  <2> DEFINE j == job[w]
  <2>1. /\ j \in TransferJob /\ j.id \in Transfers /\ pc[w] \in Busy
        /\ timers' = timers \union {j} /\ queue' = queue /\ row' = row
    BY <1>6 DEF ArmRetryTimer, Return, Goto, Busy, TransferJob
  <2>2. /\ pc'[w] \notin Busy
        /\ \A v \in Workers : v # w => pc'[v] = pc[v] /\ job'[v] = job[v]
    BY <1>6 DEF ArmRetryTimer, Return, Goto, Busy
  <2>3. j.id \in Held
    BY <2>1 DEF Held
  <2> HIDE DEF j
  <2>4. /\ Queued' = Queued
        /\ Held' \subseteq Held \ {j.id}
        /\ Delayed' \subseteq Delayed \union {j.id}
    <3>1. Held' \subseteq Held \ {j.id}
      BY <2>1, <2>2 DEF Held, OwnershipInv, OneOwner, HeldOnce, j
    <3> QED
      BY <3>1, <2>1 DEF Queued, Delayed
  <2>5. DelayedOnce'
    <3>1. j.id \notin Delayed /\ DelayedOnce
      BY <2>3 DEF OwnershipInv, OneOwner, OnePlace
    <3>2. \A k \in timers : k.id # j.id
      BY <3>1 DEF Delayed
    <3> QED
      BY <2>1, <3>1, <3>2 DEF DelayedOnce
  <2>6. HeldOnce' /\ QueuedOnce'
    <3>1. HeldOnce'
      <4>1. HeldOnce
        BY DEF OwnershipInv, OneOwner
      <4>2. \A v \in Workers : pc'[v] \in Busy => pc[v] \in Busy /\ job'[v] = job[v]
        BY <2>2
      <4> QED
        BY <4>1, <4>2 DEF HeldOnce
    <3>2. QueuedOnce'
      BY <2>1 DEF OwnershipInv, OneOwner, QueuedOnce
    <3> QED
      BY <3>1, <3>2
  <2>7. OnePlace' /\ OwnedHasRow'
    BY <2>1, <2>3, <2>4 DEF OwnershipInv, OneOwner, OnePlace, OwnedHasRow, Owned, Created
  <2> QED
    BY <2>5, <2>6, <2>7 DEF OwnershipInv, OneOwner
<1>7. ASSUME NEW j \in timers, RetryTimer(j) PROVE OwnershipInv'
  <2>1. /\ j \in TransferJob /\ j.id \in Transfers /\ j.id \in Delayed
        /\ Len(queue) \in Nat
        /\ Len(queue') = Len(queue) + 1
        /\ \A i \in 1..Len(queue') :
              queue'[i] = IF i = Len(queue) + 1 THEN j ELSE queue[i]
    BY <1>7, QueueFacts DEF RetryTimer, Enqueue, TransferJob, Delayed
  <2>2. timers' = timers \ {j} /\ pc' = pc /\ job' = job /\ row' = row
    BY <1>7 DEF RetryTimer
  <2>3. /\ Queued' \subseteq Queued \union {j.id}
        /\ Held' = Held
        /\ Delayed' \subseteq Delayed \ {j.id}
    <3>1. Queued' \subseteq Queued \union {j.id}
      <4> SUFFICES ASSUME NEW i \in 1..Len(queue')
                   PROVE  queue'[i].id \in Queued \/ queue'[i].id = j.id
        BY DEF Queued
      <4>1. CASE i = Len(queue) + 1
        BY <4>1, <2>1
      <4>2. CASE i \in 1..Len(queue)
        BY <4>2, <2>1 DEF Queued
      <4> QED
        BY <4>1, <4>2, <2>1
    <3>2. Delayed' \subseteq Delayed \ {j.id}
      BY <2>2 DEF Delayed, OwnershipInv, OneOwner, DelayedOnce
    <3> QED
      BY <3>1, <3>2, <2>2 DEF Held
  <2>4. QueuedOnce'
    <3>1. \A i \in 1..Len(queue) : queue[i].id # j.id
      BY <2>1 DEF Queued, OwnershipInv, OneOwner, OnePlace
    <3> QED
      BY <1>7, <2>1, <3>1, AppendDistinct
         DEF OwnershipInv, OneOwner, QueuedOnce, RetryTimer, Enqueue
  <2>5. HeldOnce' /\ DelayedOnce'
    BY <2>2 DEF OwnershipInv, OneOwner, HeldOnce, DelayedOnce
  <2>6. OnePlace' /\ OwnedHasRow'
    BY <2>1, <2>2, <2>3 DEF OwnershipInv, OneOwner, OnePlace, OwnedHasRow, Owned, Created
  <2> QED
    BY <2>4, <2>5, <2>6 DEF OwnershipInv, OneOwner
<1>8. CASE Signal
  BY <1>8, OwnershipKept DEF Signal, Goto, Busy, Created
<1>9. ASSUME NEW s \in Transfers, Submit(s) PROVE OwnershipInv'
  <2> DEFINE j == [id |-> s, retryCount |-> 0]
  <2>1. j \in TransferJob /\ j.id = s
    BY DEF TransferJob
  <2>2. queue' = Append(queue, j)
    BY <1>9 DEF Submit, Enqueue
  <2> HIDE DEF j
  <2>3. /\ Len(queue) \in Nat
        /\ Len(queue') = Len(queue) + 1
        /\ \A i \in 1..Len(queue') :
              queue'[i] = IF i = Len(queue) + 1 THEN j ELSE queue[i]
    BY <2>1, <2>2, QueueFacts
  <2>4. s \notin Owned /\ timers' = timers /\ pc' = pc /\ job' = job
    BY <1>9 DEF Submit, OwnershipInv, OwnedHasRow
  <2>5. s \in Created' /\ Created \subseteq Created'
    BY <1>9 DEF Submit, Created, NewTransfer
  <2>6. /\ Queued' \subseteq Queued \union {s}
        /\ Held' = Held /\ Delayed' = Delayed
    <3>1. ASSUME NEW i \in 1..Len(queue')
          PROVE  queue'[i].id \in Queued \union {s}
      <4>1. CASE i = Len(queue) + 1
        BY <2>1, <2>3, <4>1
      <4>2. CASE i # Len(queue) + 1
        <5>1. i \in 1..Len(queue) /\ queue'[i] = queue[i]
          <6> HIDE DEF PoolTypeOK
          <6> QED BY <2>3, <4>2
        <5> QED BY <5>1 DEF Queued
      <4> QED BY <4>1, <4>2
    <3>2. Queued' \subseteq Queued \union {s}
      BY <3>1 DEF Queued
    <3>3. Held' = Held /\ Delayed' = Delayed
      BY <2>4 DEF Held, Delayed
    <3> QED BY <3>2, <3>3
  <2>7. QueuedOnce'
    <3>1. \A i \in 1..Len(queue) : queue[i].id # s
      BY <2>4 DEF Owned, Queued
    <3> QED
      BY <2>1, <2>2, <3>1, AppendDistinct DEF OwnershipInv, OneOwner, QueuedOnce
  <2>8. HeldOnce' /\ DelayedOnce'
    BY <2>4 DEF OwnershipInv, OneOwner, HeldOnce, DelayedOnce
  <2>9. OnePlace' /\ OwnedHasRow'
    BY <2>4, <2>5, <2>6 DEF OwnershipInv, OneOwner, OnePlace, OwnedHasRow, Owned
  <2> QED
    BY <2>7, <2>8, <2>9 DEF OwnershipInv, OneOwner
<1>10. CASE Shutdown
  BY <1>10, OwnershipKept
     DEF Shutdown, Terminate, StopClose, StopBroadcast, StopReturn, Busy, Created
<1>11. CASE Exited
  BY <1>11, OwnershipKept DEF Exited, poolVars, Created
<1>12. CASE CommitBatch
  BY <1>12, OwnershipKept DEF CommitBatch, Created
<1>13. ASSUME NEW t \in Transfers, AnnounceSubmitted(t) PROVE OwnershipInv'
  BY <1>13, OwnershipKept DEF AnnounceSubmitted, Created
<1> QED
  BY <1>1, <1>2, <1>3, <1>4, <1>5, <1>6, <1>7, <1>8, <1>9, <1>10, <1>11, <1>12, <1>13
     DEF PoolNext, PoolStep, WorkerStep

-----------------------------------------------------------------------------
(***************************************************************************)
(* Records.  Only the owner of a transfer writes it, so each owner finds   *)
(* the record as the previous owner left it.                               *)
(***************************************************************************)

\* A transfer held by a worker has no other job.
LEMMA HolderIsAlone ==
    ASSUME OneOwner, NEW w \in Workers, pc[w] \in Busy
    PROVE  /\ \A i \in 1..Len(queue) : queue[i].id # job[w].id
           /\ \A j \in timers : j.id # job[w].id
           /\ \A v \in Workers : v # w /\ pc[v] \in Busy => job[v].id # job[w].id
<1>1. job[w].id \in Held
  BY DEF Held
<1>2. job[w].id \notin Queued /\ job[w].id \notin Delayed
  BY <1>1 DEF OneOwner, OnePlace
<1> QED
  BY <1>2 DEF Queued, Delayed, OneOwner, HeldOnce

\* Each mark turns a coherent record in the status it starts from into a
\* coherent record within the budget.
LEMMA MarksCohere ==
    ASSUME NEW t \in Transfers, NEW r \in Transfer, Coherent(r), WithinBudget(r, t)
    PROVE  /\ r.status \in {"pending", "in_progress"} =>
                /\ Coherent(MarkInProgress(r)) /\ WithinBudget(MarkInProgress(r), t)
                /\ MarkInProgress(r).retryCount = r.retryCount
                /\ Coherent(MarkSuccess(r)) /\ WithinBudget(MarkSuccess(r), t)
                /\ MarkSuccess(r).retryCount = r.retryCount
                /\ \A n \in Nat : n <= MaxRetries[t] =>
                     /\ Coherent(MarkRetrying(r, n)) /\ WithinBudget(MarkRetrying(r, n), t)
                     /\ MarkRetrying(r, n).retryCount = n
                /\ r.retryCount >= MaxRetries[t] =>
                     Coherent(MarkFailed(r)) /\ WithinBudget(MarkFailed(r), t)
                /\ MarkFailed(r).retryCount = r.retryCount
           /\ r.status = "retrying" =>
                /\ Coherent(ResetForRetry(r)) /\ WithinBudget(ResetForRetry(r), t)
                /\ ResetForRetry(r).retryCount = r.retryCount
<1> USE MaxRetriesNat DEF Transfer, Coherent, WithinBudget, Terminal
<1>1. ASSUME r.status \in {"pending", "in_progress"}
      PROVE  /\ Coherent(MarkInProgress(r)) /\ WithinBudget(MarkInProgress(r), t)
             /\ MarkInProgress(r).retryCount = r.retryCount
  BY <1>1 DEF MarkInProgress
<1>2. ASSUME r.status \in {"pending", "in_progress"}
      PROVE  /\ Coherent(MarkSuccess(r)) /\ WithinBudget(MarkSuccess(r), t)
             /\ MarkSuccess(r).retryCount = r.retryCount
  BY <1>2 DEF MarkSuccess
<1>3. ASSUME r.status \in {"pending", "in_progress"}, NEW n \in Nat, n <= MaxRetries[t]
      PROVE  /\ Coherent(MarkRetrying(r, n)) /\ WithinBudget(MarkRetrying(r, n), t)
             /\ MarkRetrying(r, n).retryCount = n
  BY <1>3 DEF MarkRetrying
<1>4. ASSUME r.status \in {"pending", "in_progress"}
      PROVE  /\ r.retryCount >= MaxRetries[t] =>
                  Coherent(MarkFailed(r)) /\ WithinBudget(MarkFailed(r), t)
             /\ MarkFailed(r).retryCount = r.retryCount
  BY <1>4 DEF MarkFailed
<1>5. ASSUME r.status = "retrying"
      PROVE  /\ Coherent(ResetForRetry(r)) /\ WithinBudget(ResetForRetry(r), t)
             /\ ResetForRetry(r).retryCount = r.retryCount
  BY <1>5 DEF ResetForRetry
<1> QED
  BY <1>1, <1>2, <1>3, <1>4, <1>5

\* Steps that write no record and only move a worker between positions in
\* which it expects the same of its record.  The open batch may commit.
LEMMA RecordsKept ==
    ASSUME PoolTypeOK, RecordInv,
           queue' = queue, timers' = timers, mem' = mem, row' = row,
           table' = table \/ table' = row,
           \A v \in Workers : pc'[v] \in Busy =>
               /\ job'[v] = job[v] /\ pc[v] \in Busy
               /\ \/ pc'[v] = pc[v]
                  \/ pc[v] \in Unfinished /\ pc'[v] \in Unfinished
    PROVE  RecordInv'
<1>1. JobsCurrent'
  BY DEF RecordInv, JobsCurrent, Unfinished, Busy
<1>2. LiveRowIsActive'
  BY DEF RecordInv, LiveRowIsActive, Unfinished, Busy
<1>3. MemCoherent'
  BY DEF RecordInv, MemCoherent, Coherent, WithinBudget
<1>4. RowCoherent' /\ RetryBudget' /\ TableIsBehind'
  <2> SUFFICES ASSUME NEW t \in Transfers
               PROVE  /\ Coherent(row'[t]) /\ Coherent(table'[t])
                      /\ WithinBudget(row'[t], t) /\ WithinBudget(table'[t], t)
                      /\ table'[t].status \in Terminal => row'[t] = table'[t]
                      /\ table'[t].status # "absent" => t \in Created'
    BY DEF RowCoherent, RetryBudget, TableIsBehind, Coherent, WithinBudget
  <2>1. CASE table' = table
    BY <2>1 DEF RecordInv, RowCoherent, RetryBudget, TableIsBehind, Created
  <2>2. CASE table' = row
    BY <2>2 DEF RecordInv, RowCoherent, RetryBudget, Created
  <2> QED BY <2>1, <2>2
<1> QED BY <1>1, <1>2, <1>3, <1>4 DEF RecordInv

\* What is committed stays behind what is written when an unfinished row is.
LEMMA BehindKept ==
    ASSUME PoolTypeOK, RecordInv, NEW t \in Transfers, table' = table,
           row[t] = table[t], row[t].status \notin Terminal,
           \A u \in Transfers : u # t => row'[u] = row[u],
           row'[t].status # "absent",
           Coherent(row'[t]), WithinBudget(row'[t], t)
    PROVE  RowCoherent' /\ RetryBudget' /\ TableIsBehind'
<1> SUFFICES ASSUME NEW u \in Transfers
             PROVE  /\ Coherent(row'[u]) /\ Coherent(table'[u])
                    /\ WithinBudget(row'[u], u) /\ WithinBudget(table'[u], u)
                    /\ table'[u].status \in Terminal => row'[u] = table'[u]
                    /\ table'[u].status # "absent" => u \in Created'
  BY DEF RowCoherent, RetryBudget, TableIsBehind, Coherent, WithinBudget
<1>1. CASE u = t
  BY <1>1 DEF RecordInv, RowCoherent, RetryBudget, Created
<1>2. CASE u # t
  BY <1>2 DEF RecordInv, RowCoherent, RetryBudget, TableIsBehind, Created
<1> QED BY <1>1, <1>2

\* Steps in which a worker writes the record it holds.
LEMMA RecordsUpdated ==
    ASSUME PoolTypeOK, OneOwner, RecordInv,
           NEW w \in Workers, pc[w] \in Unfinished,
           NEW p \in Busy, pc' = [pc EXCEPT ![w] = p],
           NEW new \in Transfer, UpdateTransfer(job[w].id, new),
           Coherent(new), WithinBudget(new, job[w].id),
           queue' = queue, timers' = timers, table' = table,
           job'[w].id = job[w].id, job'[w].retryCount = new.retryCount,
           \A v \in Workers : v # w => job'[v] = job[v],
           p \in Unfinished => new.status = "in_progress",
           p = "retrying"  => new.status = "retrying",
           p = "completed" => new.status = "success",
           p = "failed"    => new.status = "failed"
    PROVE  RecordInv'
<1> DEFINE t == job[w].id
<1> USE DEF PoolTypeOK
<1>1. /\ t \in Transfers /\ mem'[t] = new /\ row[t] = table[t]
      /\ \A u \in Transfers : u # t => mem'[u] = mem[u] /\ row'[u] = row[u]
      /\ row'[t] = new \/ row'[t] = row[t]
  BY DEF UpdateTransfer, Unfinished, TransferJob
<1>2. /\ \A i \in 1..Len(queue) : queue[i].id # t /\ queue[i].id \in Transfers
      /\ \A j \in timers : j.id # t /\ j.id \in Transfers
      /\ \A v \in Workers : v # w /\ pc[v] \in Busy =>
             job[v].id # t /\ job[v].id \in Transfers
  <2>1. pc[w] \in Busy
    BY DEF Unfinished
  <2> HIDE DEF PoolTypeOK
  <2> QED
    BY <2>1, JobIds, HolderIsAlone
<1>3. pc'[w] = p /\ \A v \in Workers : v # w => pc'[v] = pc[v]
  OBVIOUS
<1> HIDE DEF PoolTypeOK, t
<1>4. JobsCurrent'
  <2>1. \A i \in 1..Len(queue') :
          /\ mem'[queue'[i].id].status = "pending"
          /\ mem'[queue'[i].id].retryCount = queue'[i].retryCount
    BY <1>1, <1>2 DEF RecordInv, JobsCurrent
  <2>2. \A j \in timers' :
          mem'[j.id].status = "retrying" /\ mem'[j.id].retryCount = j.retryCount
    BY <1>1, <1>2 DEF RecordInv, JobsCurrent
  <2>3. \A v \in Workers : pc'[v] \in Busy =>
          LET m == mem'[job'[v].id] IN
          /\ m.retryCount = job'[v].retryCount
          /\ pc'[v] \in Unfinished => m.status \in {"pending", "in_progress"}
          /\ pc'[v] = "retrying"  => m.status = "retrying"
          /\ pc'[v] = "completed" => m.status = "success"
          /\ pc'[v] = "failed"    => m.status = "failed"
    <3> SUFFICES ASSUME NEW v \in Workers, pc'[v] \in Busy
                 PROVE  LET m == mem'[job'[v].id] IN
                        /\ m.retryCount = job'[v].retryCount
                        /\ pc'[v] \in Unfinished => m.status \in {"pending", "in_progress"}
                        /\ pc'[v] = "retrying"  => m.status = "retrying"
                        /\ pc'[v] = "completed" => m.status = "success"
                        /\ pc'[v] = "failed"    => m.status = "failed"
      OBVIOUS
    <3>1. CASE v = w
      BY <3>1, <1>1, <1>3 DEF t
    <3>2. CASE v # w
      BY <3>2, <1>1, <1>2, <1>3 DEF RecordInv, JobsCurrent
    <3> QED BY <3>1, <3>2
  <2> QED BY <2>1, <2>2, <2>3 DEF JobsCurrent
<1>5. LiveRowIsActive'
  <2>1. \A v \in Workers : pc'[v] \in Unfinished \union {"retrying"} =>
                             row'[job'[v].id].status \in Active
    <3>1. row[t].status \in Active
      BY DEF RecordInv, LiveRowIsActive, t
    <3>2. p \in Unfinished \union {"retrying"} => row'[t].status \in Active
      BY <1>1, <3>1 DEF Active
    <3> QED
      BY <3>2, <1>1, <1>2, <1>3 DEF RecordInv, LiveRowIsActive, t, Unfinished, Busy
  <2> QED
    BY <2>1, <1>1, <1>2 DEF RecordInv, LiveRowIsActive
<1>6. MemCoherent'
  BY <1>1 DEF RecordInv, MemCoherent, Coherent, WithinBudget, t
<1>7. RowCoherent' /\ RetryBudget' /\ TableIsBehind'
  <2>1. row[t].status \in Active /\ Coherent(row[t]) /\ WithinBudget(row[t], t)
    BY <1>1 DEF RecordInv, LiveRowIsActive, RowCoherent, RetryBudget, t
  <2>2. new.status # "absent"
    BY DEF Busy, Unfinished
  <2>3. row'[t].status # "absent" /\ Coherent(row'[t]) /\ WithinBudget(row'[t], t)
    BY <1>1, <2>1, <2>2 DEF t, Active
  <2>4. row[t].status \notin Terminal
    BY <2>1 DEF Active, Terminal
  <2> QED BY <1>1, <2>3, <2>4, BehindKept
<1> QED BY <1>4, <1>5, <1>6, <1>7 DEF RecordInv

\* Steps that enqueue a job for a transfer nobody else owns.
LEMMA RecordsEnqueued ==
    ASSUME PoolTypeOK, RecordInv,
           NEW j \in TransferJob, NEW t \in Transfers, t = j.id,
           NEW new \in Transfer, mem' = [mem EXCEPT ![t] = new],
           new.status = "pending", new.retryCount = j.retryCount,
           Coherent(new), WithinBudget(new, t),
           queue' = Append(queue, j), pc' = pc, job' = job,
           t \notin Queued, t \notin Held,
           \A k \in timers' : k \in timers /\ k.id # t,
           \A u \in Transfers : u # t => row'[u] = row[u],
           row'[t].status \in Active,
           RowCoherent' /\ RetryBudget' /\ TableIsBehind'
    PROVE  RecordInv'
<1>1. /\ Len(queue) \in Nat /\ Len(queue') = Len(queue) + 1
      /\ \A i \in 1..Len(queue') :
            \/ i = Len(queue) + 1 /\ queue'[i] = j
            \/ i \in 1..Len(queue) /\ queue'[i] = queue[i]
  BY QueueFacts DEF PoolTypeOK
<1>2. /\ mem'[t] = new
      /\ \A u \in Transfers : u # t => mem'[u] = mem[u]
  BY DEF PoolTypeOK
<1>3. /\ \A i \in 1..Len(queue) : queue[i].id # t /\ queue[i].id \in Transfers
      /\ \A k \in timers : k.id \in Transfers
      /\ \A v \in Workers : pc[v] \in Busy => job[v].id # t /\ job[v].id \in Transfers
  BY JobIds DEF Queued, Held
<1>4. JobsCurrent'
  <2>1. \A i \in 1..Len(queue') :
          /\ mem'[queue'[i].id].status = "pending"
          /\ mem'[queue'[i].id].retryCount = queue'[i].retryCount
    BY <1>1, <1>2, <1>3 DEF RecordInv, JobsCurrent
  <2>2. \A k \in timers' :
          mem'[k.id].status = "retrying" /\ mem'[k.id].retryCount = k.retryCount
    BY <1>2, <1>3 DEF RecordInv, JobsCurrent
  <2>3. \A v \in Workers : pc[v] \in Busy => mem'[job[v].id] = mem[job[v].id]
    BY <1>2, <1>3
  <2> QED
    BY <2>1, <2>2, <2>3 DEF RecordInv, JobsCurrent
<1>5. LiveRowIsActive'
  <2>1. \A i \in 1..Len(queue') : row'[queue'[i].id].status \in Active
    BY <1>1, <1>3 DEF RecordInv, LiveRowIsActive
  <2>2. \A k \in timers' : row'[k.id].status \in Active
    BY <1>3 DEF RecordInv, LiveRowIsActive
  <2>3. \A v \in Workers : pc[v] \in Unfinished \union {"retrying"} =>
                             row'[job[v].id].status \in Active
    BY <1>3 DEF RecordInv, LiveRowIsActive, Unfinished, Busy
  <2> QED
    BY <2>1, <2>2, <2>3 DEF LiveRowIsActive
<1>6. MemCoherent'
  BY <1>2 DEF RecordInv, MemCoherent, Coherent, WithinBudget
<1> QED BY <1>4, <1>5, <1>6 DEF RecordInv

\* A worker that is about to write finds its record coherent, within budget,
\* and with the retry count its job carries.
LEMMA HeldRecord ==
    ASSUME PoolTypeOK, RecordInv, NEW w \in Workers, pc[w] \in Unfinished
    PROVE  /\ job[w] \in TransferJob /\ job[w].id \in Transfers
           /\ job[w].retryCount \in Nat
           /\ mem[job[w].id] \in Transfer
           /\ mem[job[w].id].status \in {"pending", "in_progress"}
           /\ mem[job[w].id].retryCount = job[w].retryCount
           /\ Coherent(mem[job[w].id])
           /\ WithinBudget(mem[job[w].id], job[w].id)
<1>1. pc[w] \in Busy
  BY DEF Unfinished
<1>2. /\ job[w] \in TransferJob /\ job[w].id \in Transfers
      /\ job[w].retryCount \in Nat /\ mem[job[w].id] \in Transfer
  BY <1>1 DEF PoolTypeOK, TransferJob
<1> QED
  BY <1>1, <1>2 DEF RecordInv, JobsCurrent, MemCoherent

\* The inductive step of the record invariant, action by action.
LEMMA RecordStep ==
    ASSUME PoolTypeOK, OwnershipInv, RecordInv, PoolNext
    PROVE  RecordInv'
<1>0. OneOwner
  BY DEF OwnershipInv
<1>1. ASSUME NEW w \in Workers, Take(w) PROVE RecordInv'
  <2>1. /\ Head(queue) = queue[1] /\ 1 \in 1..Len(queue)
        /\ \A i \in 1..Len(queue') : queue'[i] = queue[i + 1] /\ i + 1 \in 1..Len(queue)
    BY <1>1, QueueFacts DEF Take, PoolTypeOK
  <2>2. /\ pc'[w] = "process" /\ job'[w] = queue[1]
        /\ \A v \in Workers : v # w => pc'[v] = pc[v] /\ job'[v] = job[v]
        /\ mem' = mem /\ row' = row /\ table' = table /\ timers' = timers
    BY <1>1, <2>1 DEF Take, Goto, PoolTypeOK
  <2>3. JobsCurrent'
    <3>1. \A v \in Workers : pc'[v] \in Busy =>
            LET m == mem'[job'[v].id] IN
            /\ m.retryCount = job'[v].retryCount
            /\ pc'[v] \in Unfinished => m.status \in {"pending", "in_progress"}
            /\ pc'[v] = "retrying"  => m.status = "retrying"
            /\ pc'[v] = "completed" => m.status = "success"
            /\ pc'[v] = "failed"    => m.status = "failed"
      BY <2>1, <2>2 DEF RecordInv, JobsCurrent
    <3> QED
      BY <2>1, <2>2, <3>1 DEF RecordInv, JobsCurrent
  <2>4. LiveRowIsActive'
    BY <2>1, <2>2, SMTT(40) DEF RecordInv, LiveRowIsActive
  <2>5. MemCoherent' /\ RowCoherent' /\ RetryBudget' /\ TableIsBehind'
    BY <2>2 DEF RecordInv, MemCoherent, RowCoherent, RetryBudget, TableIsBehind, Created,
                Coherent, WithinBudget
  <2> QED BY <2>3, <2>4, <2>5 DEF RecordInv
<1>2. ASSUME NEW w \in Workers, Wait(w) \/ Exit(w) \/ StartRetry(w) PROVE RecordInv'
  BY <1>2, RecordsKept DEF Wait, Exit, StartRetry, Goto, Busy, Unfinished, PoolTypeOK
<1>3. ASSUME NEW w \in Workers, MinioAnswers(w) PROVE RecordInv'
  BY <1>3, RecordsKept
     DEF MinioAnswers, GetOk, GetErr, PutOk, PutErr, Goto, Busy, Unfinished, PoolTypeOK
<1>4. ASSUME NEW w \in Workers,
             AnnounceStarted(w) \/ AnnounceCompleted(w) \/ AnnounceFailed(w)
      PROVE  RecordInv'
  BY <1>4, RecordsKept
     DEF AnnounceStarted, AnnounceCompleted, AnnounceFailed, Return, Goto, Busy,
         Unfinished, PoolTypeOK
<1>5. ASSUME NEW w \in Workers, StartFirstAttempt(w) PROVE RecordInv'
  <2> DEFINE new == MarkInProgress(mem[job[w].id])
  <2>1. pc[w] \in Unfinished /\ "started" \in Busy
    BY <1>5 DEF StartFirstAttempt, Goto, Unfinished, Busy
  <2>2. /\ new \in Transfer /\ Coherent(new) /\ WithinBudget(new, job[w].id)
        /\ new.retryCount = job[w].retryCount /\ new.status = "in_progress"
    <3> DEFINE r == mem[job[w].id]
    <3>1. /\ r \in Transfer /\ r.status \in {"pending", "in_progress"}
          /\ Coherent(r) /\ WithinBudget(r, job[w].id) /\ job[w].id \in Transfers
          /\ r.retryCount = job[w].retryCount
      BY <2>1, HeldRecord
    <3> HIDE DEF r
    <3> QED
      BY <3>1, MarksCohere, MarkTypes, MarkStatus DEF r
  <2>3. /\ UpdateTransfer(job[w].id, new) /\ pc' = [pc EXCEPT ![w] = "started"]
        /\ queue' = queue /\ timers' = timers /\ table' = table /\ job' = job
    BY <1>5 DEF StartFirstAttempt, Goto
  <2> HIDE DEF new
  <2> QED
    BY <1>0, <2>1, <2>2, <2>3, RecordsUpdated
<1>6. ASSUME NEW w \in Workers, Succeed(w) PROVE RecordInv'
  <2> DEFINE new == MarkSuccess(mem[job[w].id])
  <2>1. pc[w] \in Unfinished /\ "completed" \in Busy \ Unfinished
    BY <1>6 DEF Succeed, Goto, Unfinished, Busy
  <2>2. /\ new \in Transfer /\ Coherent(new) /\ WithinBudget(new, job[w].id)
        /\ new.retryCount = job[w].retryCount /\ new.status = "success"
    <3> DEFINE r == mem[job[w].id]
    <3>1. /\ r \in Transfer /\ r.status \in {"pending", "in_progress"}
          /\ Coherent(r) /\ WithinBudget(r, job[w].id) /\ job[w].id \in Transfers
          /\ r.retryCount = job[w].retryCount
      BY <2>1, HeldRecord
    <3> HIDE DEF r
    <3> QED
      BY <3>1, MarksCohere, MarkTypes, MarkStatus DEF r
  <2>3. /\ UpdateTransfer(job[w].id, new) /\ pc' = [pc EXCEPT ![w] = "completed"]
        /\ queue' = queue /\ timers' = timers /\ table' = table /\ job' = job
    BY <1>6 DEF Succeed, Goto
  <2> HIDE DEF new
  <2> QED
    BY <1>0, <2>1, <2>2, <2>3, RecordsUpdated
<1>7. ASSUME NEW w \in Workers, ScheduleRetry(w) PROVE RecordInv'
  <2> DEFINE n == job[w].retryCount + 1
             new == MarkRetrying(mem[job[w].id], n)
  <2>1. pc[w] \in Unfinished /\ "retrying" \in Busy \ Unfinished
    BY <1>7 DEF ScheduleRetry, Goto, Unfinished, Busy
  <2>2. n \in Nat /\ n <= MaxRetries[job[w].id]
    BY <1>7, <2>1, HeldRecord, MaxRetriesNat DEF ScheduleRetry
  <2>3. /\ new \in Transfer /\ Coherent(new) /\ WithinBudget(new, job[w].id)
        /\ new.retryCount = n /\ new.status = "retrying"
    <3> DEFINE r == mem[job[w].id]
    <3>1. /\ r \in Transfer /\ r.status \in {"pending", "in_progress"}
          /\ Coherent(r) /\ WithinBudget(r, job[w].id) /\ job[w].id \in Transfers
          /\ r.retryCount = job[w].retryCount
      BY <2>1, HeldRecord
    <3> HIDE DEF r
    <3> QED
      BY <2>2, <3>1, MarksCohere, MarkTypes, MarkStatus DEF r
  <2>4. /\ UpdateTransfer(job[w].id, new) /\ pc' = [pc EXCEPT ![w] = "retrying"]
        /\ queue' = queue /\ timers' = timers /\ table' = table
    BY <1>7 DEF ScheduleRetry, Goto
  <2>5. /\ job'[w].id = job[w].id /\ job'[w].retryCount = n
        /\ \A v \in Workers : v # w => job'[v] = job[v]
    <3>1. job' = [job EXCEPT ![w] = NextAttempt(job[w])] /\ job[w] \in TransferJob
      BY <1>7, <2>1, HeldRecord DEF ScheduleRetry
    <3> QED
      BY <3>1, NextAttemptType DEF PoolTypeOK
  <2> HIDE DEF n, new
  <2> QED
    BY <1>0, <2>1, <2>3, <2>4, <2>5, RecordsUpdated
<1>8. ASSUME NEW w \in Workers, Fail(w) PROVE RecordInv'
  <2> DEFINE new == MarkFailed(mem[job[w].id])
  <2>1. pc[w] \in Unfinished /\ "failed" \in Busy \ Unfinished
    BY <1>8 DEF Fail, Goto, Unfinished, Busy
  <2>2. job[w].retryCount >= MaxRetries[job[w].id]
    BY <1>8 DEF Fail
  <2>3. /\ new \in Transfer /\ Coherent(new) /\ WithinBudget(new, job[w].id)
        /\ new.retryCount = job[w].retryCount /\ new.status = "failed"
    <3> DEFINE r == mem[job[w].id]
    <3>1. /\ r \in Transfer /\ r.status \in {"pending", "in_progress"}
          /\ Coherent(r) /\ WithinBudget(r, job[w].id) /\ job[w].id \in Transfers
          /\ r.retryCount = job[w].retryCount
      BY <2>1, HeldRecord
    <3> HIDE DEF r
    <3> QED
      BY <2>2, <3>1, MarksCohere, MarkTypes, MarkStatus DEF r
  <2>4. /\ UpdateTransfer(job[w].id, new) /\ pc' = [pc EXCEPT ![w] = "failed"]
        /\ queue' = queue /\ timers' = timers /\ table' = table /\ job' = job
    BY <1>8 DEF Fail, Goto
  <2> HIDE DEF new
  <2> QED
    BY <1>0, <2>1, <2>3, <2>4, RecordsUpdated
<1>9. ASSUME NEW w \in Workers, ArmRetryTimer(w) PROVE RecordInv'
  <2>1. /\ pc[w] = "retrying" /\ pc'[w] = "lock"
        /\ \A v \in Workers : v # w => pc'[v] = pc[v] /\ job'[v] = job[v]
        /\ timers' = timers \union {job[w]}
        /\ queue' = queue /\ mem' = mem /\ row' = row /\ table' = table
    BY <1>9 DEF ArmRetryTimer, Return, Goto, PoolTypeOK
  <2>2. "lock" \notin Busy /\ "lock" \notin Unfinished /\ "retrying" \in Busy
    BY DEF Busy, Unfinished
  <2>3. JobsCurrent'
    BY <2>1, <2>2 DEF RecordInv, JobsCurrent
  <2>4. LiveRowIsActive'
    BY <2>1, <2>2 DEF RecordInv, LiveRowIsActive
  <2>5. MemCoherent' /\ RowCoherent' /\ RetryBudget' /\ TableIsBehind'
    BY <2>1 DEF RecordInv, MemCoherent, RowCoherent, RetryBudget, TableIsBehind, Created,
                Coherent, WithinBudget
  <2> QED BY <2>3, <2>4, <2>5 DEF RecordInv
<1>10. ASSUME NEW j \in timers, RetryTimer(j) PROVE RecordInv'
  <2> DEFINE new == ResetForRetry(mem[j.id])
  <2>1. j \in TransferJob /\ j.id \in Transfers /\ mem[j.id] \in Transfer
    BY DEF PoolTypeOK, TransferJob
  <2>2. /\ mem[j.id].status = "retrying" /\ mem[j.id].retryCount = j.retryCount
        /\ Coherent(mem[j.id]) /\ WithinBudget(mem[j.id], j.id)
    BY <2>1 DEF RecordInv, JobsCurrent, MemCoherent
  <2>3. /\ new \in Transfer /\ Coherent(new) /\ WithinBudget(new, j.id)
        /\ new.status = "pending" /\ new.retryCount = j.retryCount
    BY <2>1, <2>2, MarksCohere, MarkTypes, MarkStatus
  <2>4. /\ mem' = [mem EXCEPT ![j.id] = new] /\ row' = row /\ table' = table
        /\ queue' = Append(queue, j) /\ timers' = timers \ {j}
        /\ pc' = pc /\ job' = job
    BY <1>10 DEF RetryTimer, Enqueue
  <2>5. /\ j.id \notin Queued /\ j.id \notin Held
        /\ \A k \in timers' : k \in timers /\ k.id # j.id
    <3>1. j.id \in Delayed
      BY DEF Delayed
    <3> QED
      BY <1>0, <2>4, <3>1 DEF OneOwner, OnePlace, DelayedOnce
  <2>6. row'[j.id].status \in Active /\ RowCoherent' /\ RetryBudget' /\ TableIsBehind'
    BY <2>1, <2>4 DEF RecordInv, LiveRowIsActive, RowCoherent, RetryBudget, TableIsBehind,
                     Created, Coherent, WithinBudget
  <2> HIDE DEF new
  <2> QED
    BY <2>1, <2>3, <2>4, <2>5, <2>6, RecordsEnqueued
<1>11. ASSUME NEW s \in Transfers, Submit(s) PROVE RecordInv'
  <2> DEFINE j == [id |-> s, retryCount |-> 0]
  <2>1. j \in TransferJob /\ j.id = s /\ j.retryCount = 0
    BY DEF TransferJob
  <2>2. /\ NewTransfer \in Transfer /\ NewTransfer.status = "pending"
        /\ NewTransfer.retryCount = 0
        /\ Coherent(NewTransfer) /\ WithinBudget(NewTransfer, s)
    BY MaxRetriesNat
       DEF NewTransfer, Transfer, Status, Active, Terminal, Coherent, WithinBudget
  <2>3. /\ mem' = [mem EXCEPT ![s] = NewTransfer] /\ row' = [row EXCEPT ![s] = NewTransfer]
        /\ queue' = Append(queue, j) /\ timers' = timers
        /\ pc' = pc /\ job' = job
    BY <1>11 DEF Submit, Enqueue
  <2>4. s \notin Queued /\ s \notin Held /\ \A k \in timers' : k \in timers /\ k.id # s
    <3>1. s \notin Owned
      BY <1>11 DEF Submit, OwnershipInv, OwnedHasRow
    <3> QED
      BY <2>3, <3>1 DEF Owned, Delayed
  <2>5. /\ row'[s] = NewTransfer /\ row[s].status = "absent" /\ table' = table
        /\ \A u \in Transfers : u # s => row'[u] = row[u]
    BY <1>11, <2>3 DEF Submit, Created, PoolTypeOK
  <2>6. table[s].status = "absent"
    BY <1>11 DEF Submit, RecordInv, TableIsBehind
  <2>7. RowCoherent' /\ RetryBudget' /\ TableIsBehind'
    <3> SUFFICES ASSUME NEW u \in Transfers
                 PROVE  /\ Coherent(row'[u]) /\ Coherent(table'[u])
                        /\ WithinBudget(row'[u], u) /\ WithinBudget(table'[u], u)
                        /\ table'[u].status \in Terminal => row'[u] = table'[u]
                        /\ table'[u].status # "absent" => u \in Created'
      BY DEF RowCoherent, RetryBudget, TableIsBehind, Coherent, WithinBudget
    <3>1. CASE u = s
      BY <2>2, <2>5, <2>6, <3>1 DEF RecordInv, RowCoherent, RetryBudget, Terminal
    <3>2. CASE u # s
      BY <2>5, <3>2 DEF RecordInv, RowCoherent, RetryBudget, TableIsBehind, Created
    <3> QED BY <3>1, <3>2
  <2> HIDE DEF j
  <2> QED
    BY <2>1, <2>2, <2>3, <2>4, <2>5, <2>7, RecordsEnqueued DEF Active
<1>12. CASE Signal
  BY <1>12, RecordsKept DEF Signal, Goto, Busy, PoolTypeOK
<1>13. CASE Shutdown
  BY <1>13, RecordsKept
     DEF Shutdown, Terminate, StopClose, StopBroadcast, StopReturn, Busy
<1>14. CASE Exited
  BY <1>14, RecordsKept DEF Exited, poolVars
<1>15. CASE CommitBatch
  BY <1>15, RecordsKept DEF CommitBatch
<1>16. ASSUME NEW t \in Transfers, AnnounceSubmitted(t) PROVE RecordInv'
  BY <1>16, RecordsKept DEF AnnounceSubmitted
<1> QED
  BY <1>1, <1>2, <1>3, <1>4, <1>5, <1>6, <1>7, <1>8, <1>9, <1>10, <1>11, <1>12,
     <1>13, <1>14, <1>15, <1>16
     DEF PoolNext, PoolStep, WorkerStep

\* The three invariants together, for the temporal theorems below.
LEMMA PoolRecordsInit ==
    ASSUME PoolInit
    PROVE  OwnershipInv /\ RecordInv
<1>1. OwnershipInv
  BY DEF PoolInit, OwnershipInv, OneOwner, QueuedOnce, HeldOnce, DelayedOnce, OnePlace,
         OwnedHasRow, Owned, Queued, Held, Delayed, Busy
<1>2. Coherent(NoTransfer) /\ \A t \in Transfers : WithinBudget(NoTransfer, t)
  BY MaxRetriesNat DEF NoTransfer, NewTransfer, Coherent, WithinBudget, Terminal
<1>3. MemCoherent /\ RowCoherent /\ RetryBudget /\ TableIsBehind
  <2> NoTransfer.status = "absent"
    BY DEF NoTransfer, NewTransfer
  <2> QED
    BY <1>2 DEF PoolInit, MemCoherent, RowCoherent, RetryBudget, TableIsBehind, Terminal
<1>4. JobsCurrent /\ LiveRowIsActive
  BY DEF PoolInit, JobsCurrent, LiveRowIsActive, Busy, Unfinished
<1> QED BY <1>1, <1>3, <1>4 DEF RecordInv

LEMMA PoolRecordsStep ==
    ASSUME PoolTypeOK, OwnershipInv, RecordInv, [PoolNext]_poolVars
    PROVE  OwnershipInv' /\ RecordInv'
<1>1. CASE UNCHANGED poolVars
  BY <1>1, OwnershipKept, RecordsKept DEF poolVars, Created
<1>2. CASE PoolNext
  BY <1>2, OwnershipStep, RecordStep
<1> QED BY <1>1, <1>2

LEMMA PoolInvariants == PoolSpec => [](PoolTypeOK /\ OwnershipInv /\ RecordInv)
<1>1. PoolInit => OwnershipInv /\ RecordInv
  BY PoolRecordsInit
<1>2. PoolTypeOK /\ OwnershipInv /\ RecordInv /\ [PoolNext]_poolVars => OwnershipInv' /\ RecordInv'
  BY PoolRecordsStep
<1> QED BY <1>1, <1>2, PoolTypeCorrect, PTL DEF PoolSpec

\* No two goroutines ever hold the same transfer: its unlocked heap record is
\* reachable from one queue slot, one worker or one retry timer at a time.
THEOREM PoolOneOwner == PoolSpec => []OneOwner
<1>1. OwnershipInv => OneOwner
  BY DEF OwnershipInv
<1> QED
  BY <1>1, PoolInvariants, PTL

\* What the database says of a transfer is never a mixture of two of its
\* states, even when some of the pool's updates are lost.
THEOREM PoolRowCoherent == PoolSpec => []RowCoherent
<1>1. RecordInv => RowCoherent
  BY DEF RecordInv
<1> QED
  BY <1>1, PoolInvariants, PTL

\* A transfer is retried at most MaxRetries times and given up only then.
THEOREM PoolRetryBudget == PoolSpec => []RetryBudget
<1>1. RecordInv => RetryBudget
  BY DEF RecordInv
<1> QED
  BY <1>1, PoolInvariants, PTL

\* What is committed as finished is written by no step of the pool, and a commit
\* finds it as it was.
LEMMA TerminalKept ==
    ASSUME PoolTypeOK, RecordInv, [PoolNext]_poolVars, NEW t \in Transfers,
           table[t].status \in Terminal
    PROVE  table'[t] = table[t] /\ row'[t] = table[t]
<1>0. row[t] = table[t] /\ row[t].status \in Terminal
  BY DEF RecordInv, TableIsBehind
<1>1. ASSUME NEW w \in Workers,
             StartFirstAttempt(w) \/ Succeed(w) \/ ScheduleRetry(w) \/ Fail(w)
      PROVE  row'[t] = row[t] /\ table' = table
  <2>1. pc[w] \in Unfinished
    BY <1>1 DEF StartFirstAttempt, Succeed, ScheduleRetry, Fail, Goto, Unfinished, Busy
  <2>2. t # job[w].id
    BY <1>0, <2>1 DEF RecordInv, LiveRowIsActive, Active, Terminal
  <2>3. (\E new : UpdateTransfer(job[w].id, new)) /\ table' = table
    BY <1>1 DEF StartFirstAttempt, Succeed, ScheduleRetry, Fail
  <2> QED
    BY <2>2, <2>3 DEF UpdateTransfer, PoolTypeOK
<1>2. ASSUME NEW s \in Transfers, Submit(s) PROVE row'[t] = row[t] /\ table' = table
  BY <1>0, <1>2 DEF Submit, Created, PoolTypeOK, Terminal
<1>3. ASSUME NEW w \in Workers,
             \/ Take(w) \/ Wait(w) \/ Exit(w) \/ StartRetry(w)
             \/ AnnounceStarted(w) \/ AnnounceCompleted(w) \/ ArmRetryTimer(w)
             \/ AnnounceFailed(w) \/ MinioAnswers(w)
      PROVE  row' = row /\ table' = table
  BY <1>3 DEF Take, Wait, Exit, StartRetry, AnnounceStarted, AnnounceCompleted,
              ArmRetryTimer, AnnounceFailed, MinioAnswers, GetOk, GetErr, PutOk, PutErr
<1>4. ASSUME \/ \E j \in timers : RetryTimer(j)
             \/ \E s \in Transfers : AnnounceSubmitted(s)
             \/ Signal \/ CommitBatch \/ Shutdown \/ Exited \/ UNCHANGED poolVars
      PROVE  row' = row /\ (table' = table \/ table' = row)
  BY <1>4 DEF RetryTimer, AnnounceSubmitted, Signal, CommitBatch, Shutdown, Terminate,
              StopClose, StopBroadcast, StopReturn, Exited, poolVars
<1>5. row'[t] = row[t] /\ (table' = table \/ table' = row)
  BY <1>1, <1>2, <1>3, <1>4 DEF PoolNext, PoolStep, WorkerStep
<1> QED BY <1>0, <1>5

\* A row that a reader has seen as success or failed is never written again, in
\* the committed table or in a batch that is open.
THEOREM PoolTerminalIsFinal == PoolSpec => TerminalIsFinal
<1>1. PoolTypeOK /\ RecordInv /\ [PoolNext]_poolVars =>
        [\A t \in Transfers : table[t].status \in Terminal =>
            table'[t] = table[t] /\ row'[t] = table[t]]_poolVars
  BY TerminalKept
<1> QED
  BY <1>1, PoolInvariants, PTL DEF PoolSpec, TerminalIsFinal

-----------------------------------------------------------------------------
\* Wakeups.

\* Workers that are about to look at the queue.
Looking == {w \in Workers : pc[w] = "lock"}

\* closed is set where main says so, and after Stop's Broadcast nobody sleeps.
StopPhase ==
    /\ closed = TRUE <=> main \in {"broadcast", "wait", "exited"}
    /\ main \in {"wait", "exited"} => \A w \in Workers : pc[w] # "wait"

WakeInv == NoLostWakeup /\ StopPhase

\* Moving one worker changes the number of those looking by at most one.
LEMMA LookingCount ==
    ASSUME pc \in [Workers -> Idle \union Busy], NEW w \in Workers, NEW p,
           pc' = [pc EXCEPT ![w] = p]
    PROVE  /\ Cardinality(Looking) \in Nat
           /\ pc[w] = "lock" /\ p # "lock" =>
                /\ Cardinality(Looking') = Cardinality(Looking) - 1
                /\ Cardinality(Looking) \in Nat \ {0}
           /\ pc[w] # "lock" /\ p = "lock" => Cardinality(Looking') = Cardinality(Looking) + 1
           /\ pc[w] # "lock" /\ p # "lock" => Looking' = Looking
<1>1. IsFiniteSet(Looking)
  <2>1. Looking \subseteq Workers
    BY DEF Looking
  <2> QED BY <2>1, WorkersFinite, FS_Subset
<1>2. Cardinality(Looking) \in Nat
  BY <1>1, FS_CardinalityType
<1>3. \A v \in Workers : pc'[v] = IF v = w THEN p ELSE pc[v]
  OBVIOUS
<1>4. ASSUME pc[w] = "lock", p # "lock"
      PROVE  /\ Cardinality(Looking') = Cardinality(Looking) - 1
             /\ Cardinality(Looking) \in Nat \ {0}
  <2>1. Looking' = Looking \ {w} /\ w \in Looking
    BY <1>3, <1>4 DEF Looking
  <2>2. Cardinality(Looking) # 0
    BY <1>1, <2>1, FS_EmptySet
  <2> QED BY <1>1, <1>2, <2>1, <2>2, FS_RemoveElement
<1>5. ASSUME pc[w] # "lock", p = "lock"
      PROVE  Cardinality(Looking') = Cardinality(Looking) + 1
  <2>1. Looking' = Looking \union {w} /\ w \notin Looking
    BY <1>3, <1>5 DEF Looking
  <2> QED BY <1>1, <2>1, FS_AddElement
<1>6. ASSUME pc[w] # "lock", p # "lock"
      PROVE  Looking' = Looking
  BY <1>3, <1>6 DEF Looking
<1> QED BY <1>2, <1>4, <1>5, <1>6

\* A step that puts nobody to sleep and keeps the count up keeps the invariant.
LEMMA WakeKept ==
    ASSUME WakeInv, UNCHANGED <<closed, main>>,
           \A v \in Workers : pc'[v] = "wait" => pc[v] = "wait",
           (\E v \in Workers : pc'[v] = "wait") /\ Len(queue) <= signals + Cardinality(Looking)
             => Len(queue') <= signals' + Cardinality(Looking')
    PROVE  WakeInv'
  BY DEF WakeInv, NoLostWakeup, StopPhase, Looking

\* A job that is added has a Signal to come.
LEMMA WakeEnqueued ==
    ASSUME PoolTypeOK, WakeInv, NEW j \in TransferJob, Enqueue(j), UNCHANGED <<pc, closed, main>>
    PROVE  WakeInv'
<1>1. queue \in Seq(TransferJob) /\ Len(queue) \in Nat /\ signals \in Nat
  BY DEF PoolTypeOK
<1>2. Cardinality(Looking) \in Nat
  <2>1. Looking \subseteq Workers
    BY DEF Looking
  <2> QED BY <2>1, WorkersFinite, FS_Subset, FS_CardinalityType
<1>3. Len(queue') = Len(queue) + 1 /\ signals' = signals + 1
  BY <1>1, QueueFacts DEF Enqueue
<1>4. Looking' = Looking
  BY DEF Looking
<1>5. Len(queue) <= signals + Cardinality(Looking) => Len(queue') <= signals' + Cardinality(Looking')
  BY <1>1, <1>2, <1>3, <1>4
<1> QED BY <1>5, WakeKept

LEMMA WakeStep ==
    ASSUME PoolTypeOK, WakeInv, PoolNext
    PROVE  WakeInv'
<1>0. /\ queue \in Seq(TransferJob) /\ Len(queue) \in Nat /\ signals \in Nat
      /\ pc \in [Workers -> Idle \union Busy] /\ Cardinality(Looking) \in Nat
  <2>1. queue \in Seq(TransferJob) /\ signals \in Nat /\ pc \in [Workers -> Idle \union Busy]
    BY DEF PoolTypeOK
  <2>2. Cardinality(Looking) \in Nat
    <3>1. Looking \subseteq Workers
      BY DEF Looking
    <3> QED BY <3>1, WorkersFinite, FS_Subset, FS_CardinalityType
  <2> QED BY <2>1, <2>2
<1>1. ASSUME NEW w \in Workers, Take(w)
      PROVE  WakeInv'
  <2>1. /\ pc[w] = "lock" /\ pc' = [pc EXCEPT ![w] = "process"]
        /\ queue # <<>> /\ queue' = Tail(queue) /\ UNCHANGED <<signals, closed, main>>
    BY <1>1 DEF Take, Goto
  <2>2. Cardinality(Looking') = Cardinality(Looking) - 1
    <3>1. ASSUME NEW p, p # "lock", pc' = [pc EXCEPT ![w] = p]
          PROVE  Cardinality(Looking') = Cardinality(Looking) - 1
      BY <1>0, <2>1, <3>1, LookingCount
    <3>2. "process" # "lock"
      OBVIOUS
    <3> QED BY <2>1, <3>1, <3>2, Zenon
  <2>3. Len(queue') = Len(queue) - 1
    BY <1>0, <2>1, QueueFacts
  <2>4. Len(queue) <= signals + Cardinality(Looking) => Len(queue') <= signals' + Cardinality(Looking')
    BY <1>0, <2>1, <2>2, <2>3
  <2>5. \A v \in Workers : pc'[v] = "wait" => pc[v] = "wait"
    BY <1>0, <2>1
  <2> QED BY <2>1, <2>4, <2>5, WakeKept
<1>2. ASSUME NEW w \in Workers, Wait(w) \/ Exit(w)
      PROVE  WakeInv'
  <2>1. Cardinality(Looking') \in Nat
    <3>1. Looking' \subseteq Workers
      BY DEF Looking
    <3> QED BY <3>1, WorkersFinite, FS_Subset, FS_CardinalityType
  <2>2. Len(queue') = 0 /\ signals' \in Nat
    BY <1>0, <1>2 DEF Wait, Exit
  <2>3. Len(queue') <= signals' + Cardinality(Looking')
    BY <2>1, <2>2
  <2>4. CASE Wait(w)
    <3>1. closed # TRUE /\ closed' = closed /\ main' = main
      BY <2>4 DEF Wait
    <3> QED BY <2>3, <3>1 DEF WakeInv, NoLostWakeup, StopPhase, Looking
  <2>5. CASE Exit(w)
    <3>1. \A v \in Workers : pc'[v] = "wait" => pc[v] = "wait"
      BY <1>0, <2>5 DEF Exit, Goto
    <3>2. UNCHANGED <<closed, main>>
      BY <2>5 DEF Exit
    <3> QED BY <2>3, <3>1, <3>2, WakeKept
  <2> QED BY <1>2, <2>4, <2>5
<1>3. ASSUME NEW w \in Workers,
             \/ StartFirstAttempt(w) \/ StartRetry(w) \/ AnnounceStarted(w)
             \/ Succeed(w) \/ ScheduleRetry(w) \/ Fail(w) \/ MinioAnswers(w)
      PROVE  WakeInv'
  <2>1. PICK p \in Busy : /\ pc' = [pc EXCEPT ![w] = p] /\ pc[w] \in Busy
    BY <1>3 DEF StartFirstAttempt, StartRetry, AnnounceStarted, Succeed, ScheduleRetry, Fail,
                MinioAnswers, GetOk, GetErr, PutOk, PutErr, Goto, Busy
  <2>2. UNCHANGED <<queue, signals, closed, main>>
    BY <1>3 DEF StartFirstAttempt, StartRetry, AnnounceStarted, Succeed, ScheduleRetry, Fail,
                MinioAnswers, GetOk, GetErr, PutOk, PutErr
  <2>3. p # "lock" /\ p # "wait" /\ pc[w] # "lock"
    BY <2>1 DEF Busy
  <2>4. Looking' = Looking
    BY <1>0, <2>1, <2>3, LookingCount
  <2>5. \A v \in Workers : pc'[v] = "wait" => pc[v] = "wait"
    BY <1>0, <2>1, <2>3
  <2> QED BY <2>2, <2>4, <2>5, WakeKept
<1>4. ASSUME NEW w \in Workers,
             AnnounceCompleted(w) \/ ArmRetryTimer(w) \/ AnnounceFailed(w)
      PROVE  WakeInv'
  <2>1. /\ pc' = [pc EXCEPT ![w] = "lock"] /\ pc[w] # "lock"
        /\ UNCHANGED <<queue, signals, closed, main>>
    BY <1>4 DEF AnnounceCompleted, ArmRetryTimer, AnnounceFailed, Return, Goto
  <2>2. Cardinality(Looking') = Cardinality(Looking) + 1
    BY <1>0, <2>1, LookingCount
  <2>3. Len(queue) <= signals + Cardinality(Looking) => Len(queue') <= signals' + Cardinality(Looking')
    BY <1>0, <2>1, <2>2
  <2>4. \A v \in Workers : pc'[v] = "wait" => pc[v] = "wait"
    BY <1>0, <2>1
  <2> QED BY <2>1, <2>3, <2>4, WakeKept
<1>5. ASSUME NEW j \in TransferJob, Enqueue(j), UNCHANGED <<pc, closed, main>>
      PROVE  WakeInv'
  BY <1>5, WakeEnqueued
<1>6. ASSUME NEW j \in timers, RetryTimer(j)
      PROVE  WakeInv'
  <2>1. j \in TransferJob
    BY DEF PoolTypeOK
  <2> QED BY <1>5, <1>6, <2>1 DEF RetryTimer
<1>7. ASSUME NEW t \in Transfers, Submit(t)
      PROVE  WakeInv'
  <2>1. [id |-> t, retryCount |-> 0] \in TransferJob
    BY DEF TransferJob
  <2> QED BY <1>5, <1>7, <2>1 DEF Submit
<1>8. CASE Signal
  <2>1. signals > 0 /\ signals' = signals - 1 /\ UNCHANGED <<queue, closed, main>>
    BY <1>8 DEF Signal
  <2>2. CASE \E w \in Workers : Goto(w, "wait", "lock")
    <3>1. PICK w \in Workers : pc[w] = "wait" /\ pc' = [pc EXCEPT ![w] = "lock"]
      BY <2>2 DEF Goto
    <3>2. Cardinality(Looking') = Cardinality(Looking) + 1
      BY <1>0, <3>1, LookingCount
    <3>3. Len(queue) <= signals + Cardinality(Looking) => Len(queue') <= signals' + Cardinality(Looking')
      BY <1>0, <2>1, <3>2
    <3>4. \A v \in Workers : pc'[v] = "wait" => pc[v] = "wait"
      BY <1>0, <3>1
    <3> QED BY <2>1, <3>3, <3>4, WakeKept
  <2>3. CASE (\A w \in Workers : pc[w] # "wait") /\ pc' = pc
    BY <2>1, <2>3, WakeKept
  <2> QED BY <1>8, <2>2, <2>3 DEF Signal
<1>9. CASE Terminate \/ StopReturn
  BY <1>9 DEF Terminate, StopReturn, WakeInv, NoLostWakeup, StopPhase
<1>10. CASE StopClose
  BY <1>10 DEF StopClose, WakeInv, NoLostWakeup, StopPhase
<1>11. CASE StopBroadcast
  <2>1. \A v \in Workers : pc'[v] # "wait"
    BY <1>11 DEF StopBroadcast
  <2> QED BY <1>11, <2>1 DEF StopBroadcast, WakeInv, NoLostWakeup, StopPhase
<1>12. CASE Exited
  BY <1>12 DEF Exited, poolVars, WakeInv, NoLostWakeup, StopPhase
<1>13. CASE CommitBatch \/ \E t \in Transfers : AnnounceSubmitted(t)
  <2>1. UNCHANGED <<queue, signals, pc, closed, main>>
    BY <1>13 DEF CommitBatch, AnnounceSubmitted
  <2> QED BY <2>1 DEF WakeInv, NoLostWakeup, StopPhase
<1> QED
  BY <1>1, <1>2, <1>3, <1>4, <1>6, <1>7, <1>8, <1>9, <1>10, <1>11, <1>12, <1>13
     DEF PoolNext, PoolStep, WorkerStep, Shutdown

\* No wakeup is lost: a job that is queued while workers sleep always has a Signal
\* on its way or a worker about to look, although Enqueue signals only after it
\* has released the lock, and no worker sleeps through Stop.
THEOREM PoolNoLostWakeup == PoolSpec => []NoLostWakeup
<1>1. PoolInit => WakeInv
  BY DEF PoolInit, WakeInv, NoLostWakeup, StopPhase
<1>2. PoolTypeOK /\ WakeInv /\ [PoolNext]_poolVars => WakeInv'
  <2>1. WakeInv /\ UNCHANGED poolVars => WakeInv'
    BY DEF poolVars, WakeInv, NoLostWakeup, StopPhase
  <2> QED BY <2>1, WakeStep
<1>3. WakeInv => NoLostWakeup
  BY DEF WakeInv
<1> QED BY <1>1, <1>2, <1>3, PoolTypeCorrect, PTL DEF PoolSpec

-----------------------------------------------------------------------------
\* What each step does to the set of transfers in the hands of the pool.

LEMMA OwnedMember ==
    ASSUME NEW t
    PROVE  t \in Owned <=> \/ \E i \in 1..Len(queue) : queue[i].id = t
                           \/ \E v \in Workers : pc[v] \in Busy /\ job[v].id = t
                           \/ \E j \in timers : j.id = t
<1>1. t \in Queued <=> \E i \in 1..Len(queue) : queue[i].id = t
  BY DEF Queued
<1>2. t \in Held <=> \E v \in Workers : pc[v] \in Busy /\ job[v].id = t
  BY DEF Held
<1>3. t \in Delayed <=> \E j \in timers : j.id = t
  BY DEF Delayed
<1> QED BY <1>1, <1>2, <1>3 DEF Owned

LEMMA OwnedMemberNext ==
    ASSUME NEW t
    PROVE  t \in Owned' <=> \/ \E i \in 1..Len(queue') : queue'[i].id = t
                            \/ \E v \in Workers : pc'[v] \in Busy /\ job'[v].id = t
                            \/ \E j \in timers' : j.id = t
<1>1. t \in Queued' <=> \E i \in 1..Len(queue') : queue'[i].id = t
  BY DEF Queued
<1>2. t \in Held' <=> \E v \in Workers : pc'[v] \in Busy /\ job'[v].id = t
  BY DEF Held
<1>3. t \in Delayed' <=> \E j \in timers' : j.id = t
  BY DEF Delayed
<1> QED BY <1>1, <1>2, <1>3 DEF Owned

\* Nobody enters or leaves process(), nothing is queued or delayed.
LEMMA OwnedStays ==
    ASSUME UNCHANGED <<queue, timers>>,
           \A v \in Workers : /\ pc'[v] \in Busy <=> pc[v] \in Busy
                              /\ pc[v] \in Busy => job'[v].id = job[v].id
    PROVE  Owned' = Owned
<1>1. Queued' = Queued
  BY DEF Queued
<1>2. Delayed' = Delayed
  BY DEF Delayed
<1>3. ASSUME NEW t
      PROVE  t \in Held' <=> t \in Held
  BY DEF Held
<1> QED BY <1>1, <1>2, <1>3 DEF Owned

\* The head of the queue moves into the hands of a worker.
LEMMA OwnedTaken ==
    ASSUME PoolTypeOK, NEW w \in Workers, Take(w)
    PROVE  Owned' = Owned
<1>1. /\ Head(queue) = queue[1] /\ Len(queue) \in Nat \ {0} /\ Len(queue') = Len(queue) - 1
      /\ \A i \in 1..Len(queue') : queue'[i] = queue[i + 1] /\ i + 1 \in 1..Len(queue)
  BY QueueFacts DEF Take, PoolTypeOK
<1>2. /\ pc[w] \notin Busy /\ pc'[w] \in Busy /\ job'[w] = queue[1] /\ timers' = timers
      /\ \A v \in Workers : v # w => pc'[v] = pc[v] /\ job'[v] = job[v]
  BY <1>1 DEF Take, Goto, PoolTypeOK, Busy
<1>3. ASSUME NEW t \in Owned
      PROVE  t \in Owned'
  <2>1. CASE \E i \in 1..Len(queue) : queue[i].id = t
    <3>1. PICK i \in 1..Len(queue) : queue[i].id = t
      BY <2>1
    <3>2. CASE i = 1
      BY <1>2, <3>1, <3>2, OwnedMemberNext
    <3>3. CASE i # 1
      <4>1. i - 1 \in 1..Len(queue') /\ i - 1 + 1 = i
        BY <1>1, <3>3
      <4>2. queue'[i - 1] = queue[i]
        BY <1>1, <4>1
      <4> QED BY <3>1, <4>1, <4>2, OwnedMemberNext
    <3> QED BY <3>2, <3>3
  <2>2. CASE \E v \in Workers : pc[v] \in Busy /\ job[v].id = t
    BY <1>2, <2>2, OwnedMemberNext
  <2>3. CASE \E j \in timers : j.id = t
    BY <1>2, <2>3, OwnedMemberNext
  <2> QED BY <2>1, <2>2, <2>3, OwnedMember
<1>4. ASSUME NEW t \in Owned'
      PROVE  t \in Owned
  <2>1. CASE \E i \in 1..Len(queue') : queue'[i].id = t
    BY <1>1, <2>1, OwnedMember
  <2>2. CASE \E v \in Workers : pc'[v] \in Busy /\ job'[v].id = t
    <3>1. PICK v \in Workers : pc'[v] \in Busy /\ job'[v].id = t
      BY <2>2
    <3>2. CASE v = w
      <4> 1 \in 1..Len(queue) /\ queue[1].id = t
        BY <1>1, <1>2, <3>1, <3>2
      <4> QED BY OwnedMember
    <3>3. CASE v # w
      BY <1>2, <3>1, <3>3, OwnedMember
    <3> QED BY <3>2, <3>3
  <2>3. CASE \E j \in timers' : j.id = t
    BY <1>2, <2>3, OwnedMember
  <2> QED BY <2>1, <2>2, <2>3, OwnedMemberNext
<1> QED BY <1>3, <1>4

\* process() returns: the transfer is nobody's any more.
LEMMA OwnedReleased ==
    ASSUME PoolTypeOK, OneOwner, NEW w \in Workers, pc[w] \in Busy,
           Return(w, pc[w]), UNCHANGED <<queue, timers>>
    PROVE  Owned' = Owned \ {job[w].id}
<1>1. /\ \A i \in 1..Len(queue) : queue[i].id # job[w].id
      /\ \A j \in timers : j.id # job[w].id
      /\ \A v \in Workers : v # w /\ pc[v] \in Busy => job[v].id # job[w].id
  BY HolderIsAlone
<1>2. /\ pc'[w] \notin Busy
      /\ \A v \in Workers : v # w => pc'[v] = pc[v] /\ job'[v] = job[v]
  BY DEF Return, Goto, PoolTypeOK, Busy
<1>3. ASSUME NEW t
      PROVE  t \in Owned' <=> t \in Owned /\ t # job[w].id
  BY <1>1, <1>2, OwnedMember, OwnedMemberNext
<1> QED BY <1>3

\* The job moves from the worker to its timer.
LEMMA OwnedArmed ==
    ASSUME PoolTypeOK, NEW w \in Workers, ArmRetryTimer(w)
    PROVE  Owned' = Owned
<1>1. /\ pc[w] \in Busy /\ pc'[w] \notin Busy /\ queue' = queue
      /\ timers' = timers \union {job[w]}
      /\ \A v \in Workers : v # w => pc'[v] = pc[v] /\ job'[v] = job[v]
  BY DEF ArmRetryTimer, Return, Goto, PoolTypeOK, Busy
<1>2. ASSUME NEW t
      PROVE  t \in Owned' <=> t \in Owned
  BY <1>1, OwnedMember, OwnedMemberNext
<1> QED BY <1>2

\* A job enters the queue, from its timer or as a new one.
LEMMA OwnedEnqueued ==
    ASSUME PoolTypeOK, NEW j \in TransferJob, Enqueue(j), UNCHANGED <<pc, job>>,
           \A k : (k \in timers \/ k = j) <=> (k \in timers' \/ k = j)
    PROVE  Owned' = Owned \union {j.id}
<1>1. /\ Len(queue) \in Nat /\ Len(queue') = Len(queue) + 1
      /\ \A i \in 1..(Len(queue) + 1) : queue'[i] = IF i = Len(queue) + 1 THEN j ELSE queue[i]
  BY QueueFacts DEF Enqueue, PoolTypeOK
<1>2. ASSUME NEW t
      PROVE  (\E i \in 1..Len(queue') : queue'[i].id = t) <=>
               t = j.id \/ \E i \in 1..Len(queue) : queue[i].id = t
  <2>1. \A i : i \in 1..Len(queue') <=> i \in 1..Len(queue) \/ i = Len(queue) + 1
    BY <1>1
  <2>2. queue'[Len(queue) + 1] = j /\ \A i \in 1..Len(queue) : queue'[i] = queue[i]
    BY <1>1
  <2> QED BY <2>1, <2>2, Zenon
<1>3. ASSUME NEW t
      PROVE  t \in Owned' <=> t \in Owned \/ t = j.id
  <2>1. t = j.id \/ (\E k \in timers' : k.id = t) <=> t = j.id \/ (\E k \in timers : k.id = t)
    OBVIOUS
  <2> QED BY <1>2, <2>1, OwnedMember, OwnedMemberNext
<1> QED BY <1>3

-----------------------------------------------------------------------------
\* Unfinished transfers are in the hands of the pool.

MemCarried == \A t \in Transfers : mem[t].status \in Active => t \in Owned

\* The transfers whose updates are not lost.
Kept == Transfers \ UpdateMayFail

\* Their row is the heap record, except between a retry timer's reset, which is
\* not written, and the next update.
RowIsMem ==
    \A t \in Kept :
      \/ row[t] = mem[t]
      \/ /\ row[t].status = "retrying" /\ mem[t].status = "pending"
         /\ row[t].retryCount = mem[t].retryCount

CarryInv == MemCarried /\ RowIsMem

LEMMA UpdateEffect ==
    ASSUME PoolTypeOK, NEW t \in Transfers, NEW new, UpdateTransfer(t, new)
    PROVE  /\ mem'[t] = new /\ \A u \in Transfers : u # t => mem'[u] = mem[u]
           /\ t \in Kept => row'[t] = new
           /\ \A u \in Transfers : u # t => row'[u] = row[u]
  BY DEF UpdateTransfer, PoolTypeOK, Kept

\* The retry counts the marks assign.
LEMMA MarkCounts ==
    ASSUME NEW r \in Transfer
    PROVE  /\ MarkInProgress(r).retryCount = r.retryCount
           /\ MarkSuccess(r).retryCount = r.retryCount
           /\ \A n \in Nat : MarkRetrying(r, n).retryCount = n
           /\ MarkFailed(r).retryCount = r.retryCount
           /\ ResetForRetry(r).retryCount = r.retryCount
  BY DEF MarkInProgress, MarkSuccess, MarkRetrying, MarkFailed, ResetForRetry, Transfer

\* The steps that write a record: who, which record, and what becomes of its status.
LEMMA WriterSteps ==
    ASSUME PoolTypeOK, RecordInv, NEW w \in Workers,
           StartFirstAttempt(w) \/ Succeed(w) \/ ScheduleRetry(w) \/ Fail(w)
    PROVE  /\ pc[w] \in Unfinished /\ pc'[w] \in Busy /\ job[w].id \in Transfers
           /\ \A v \in Workers : v # w => pc'[v] = pc[v] /\ job'[v] = job[v]
           /\ job'[w].id = job[w].id /\ UNCHANGED <<queue, timers, feed>>
           /\ \E new \in Transfer :
                /\ UpdateTransfer(job[w].id, new)
                /\ new.status # "pending" /\ new.status \in Status
                /\ new.retryCount \in Nat /\ new.retryCount = job'[w].retryCount
                /\ pc'[w] # "retrying" => job'[w] = job[w]
                /\ pc'[w] = "retrying" => job'[w].retryCount = job[w].retryCount + 1
                /\ StartFirstAttempt(w) => new.status = "in_progress"
                /\ pc'[w] = "completed" => new.status = "success"
                /\ pc'[w] = "failed" => new.status = "failed"
<1> DEFINE r == mem[job[w].id]
<1>1. pc[w] \in Unfinished
  BY DEF StartFirstAttempt, Succeed, ScheduleRetry, Fail, Goto, Unfinished, Busy
<1>2. /\ job[w] \in TransferJob /\ job[w].id \in Transfers /\ job[w].retryCount \in Nat
      /\ r \in Transfer /\ r.retryCount = job[w].retryCount
  BY <1>1, HeldRecord
<1>3. /\ UNCHANGED <<queue, timers, feed>>
      /\ \A v \in Workers : v # w => pc'[v] = pc[v] /\ job'[v] = job[v]
  BY DEF StartFirstAttempt, Succeed, ScheduleRetry, Fail, Goto, PoolTypeOK
<1> HIDE DEF r
<1>4. CASE StartFirstAttempt(w)
  <2>1. /\ pc'[w] = "started" /\ job' = job
        /\ UpdateTransfer(job[w].id, MarkInProgress(r))
    BY <1>4 DEF StartFirstAttempt, Goto, PoolTypeOK, r
  <2>2. /\ MarkInProgress(r) \in Transfer /\ MarkInProgress(r).status = "in_progress"
        /\ MarkInProgress(r).retryCount = r.retryCount
    BY <1>2, MarkTypes, MarkStatus, MarkCounts
  <2> QED BY <1>1, <1>2, <1>3, <2>1, <2>2 DEF Busy, Status, Active
<1>5. CASE Succeed(w)
  <2>1. /\ pc[w] = "success" /\ pc'[w] = "completed" /\ job' = job
        /\ UpdateTransfer(job[w].id, MarkSuccess(r))
    BY <1>5 DEF Succeed, Goto, PoolTypeOK, r
  <2>2. /\ MarkSuccess(r) \in Transfer /\ MarkSuccess(r).status = "success"
        /\ MarkSuccess(r).retryCount = r.retryCount
    BY <1>2, MarkTypes, MarkStatus, MarkCounts
  <2>3. ~StartFirstAttempt(w)
    BY <2>1 DEF StartFirstAttempt, Goto
  <2> QED BY <1>1, <1>2, <1>3, <2>1, <2>2, <2>3 DEF Busy, Status, Terminal
<1>6. CASE ScheduleRetry(w)
  <2>1. /\ pc[w] = "error" /\ pc'[w] = "retrying" /\ job'[w] = NextAttempt(job[w])
        /\ UpdateTransfer(job[w].id, MarkRetrying(r, job[w].retryCount + 1))
    BY <1>6 DEF ScheduleRetry, Goto, PoolTypeOK, r
  <2>2. /\ MarkRetrying(r, job[w].retryCount + 1) \in Transfer
        /\ MarkRetrying(r, job[w].retryCount + 1).status = "retrying"
        /\ MarkRetrying(r, job[w].retryCount + 1).retryCount = job[w].retryCount + 1
    <3> job[w].retryCount + 1 \in Nat
      BY <1>2
    <3> QED BY <1>2, MarkTypes, MarkStatus, MarkCounts, Zenon
  <2>3. job'[w].id = job[w].id /\ job'[w].retryCount = job[w].retryCount + 1
    BY <1>2, <2>1, NextAttemptType
  <2>4. ~StartFirstAttempt(w)
    BY <2>1 DEF StartFirstAttempt, Goto
  <2> QED BY <1>1, <1>2, <1>3, <2>1, <2>2, <2>3, <2>4 DEF Busy, Status, Active
<1>7. CASE Fail(w)
  <2>1. /\ pc[w] = "error" /\ pc'[w] = "failed" /\ job' = job
        /\ UpdateTransfer(job[w].id, MarkFailed(r))
    BY <1>7 DEF Fail, Goto, PoolTypeOK, r
  <2>2. /\ MarkFailed(r) \in Transfer /\ MarkFailed(r).status = "failed"
        /\ MarkFailed(r).retryCount = r.retryCount
    BY <1>2, MarkTypes, MarkStatus, MarkCounts
  <2>3. ~StartFirstAttempt(w)
    BY <2>1 DEF StartFirstAttempt, Goto
  <2> QED BY <1>1, <1>2, <1>3, <2>1, <2>2, <2>3 DEF Busy, Status, Terminal
<1> QED BY <1>4, <1>5, <1>6, <1>7

LEMMA CarryStep ==
    ASSUME PoolTypeOK, OwnershipInv, RecordInv, CarryInv, PoolNext
    PROVE  CarryInv'
<1>0. OneOwner
  BY DEF OwnershipInv
<1>1. ASSUME Owned' = Owned, UNCHANGED <<mem, row>>
      PROVE  CarryInv'
  BY <1>1 DEF CarryInv, MemCarried, RowIsMem
<1>2. ASSUME NEW w \in Workers, Take(w)
      PROVE  CarryInv'
  BY <1>1, <1>2, OwnedTaken DEF Take
<1>3. ASSUME NEW w \in Workers,
             \/ Wait(w) \/ Exit(w) \/ StartRetry(w) \/ AnnounceStarted(w) \/ MinioAnswers(w)
      PROVE  CarryInv'
  <2>1. \A v \in Workers : /\ pc'[v] \in Busy <=> pc[v] \in Busy
                           /\ pc[v] \in Busy => job'[v].id = job[v].id
    BY <1>3 DEF Wait, Exit, StartRetry, AnnounceStarted, MinioAnswers, GetOk, GetErr, PutOk,
                PutErr, Goto, Busy, PoolTypeOK
  <2>2. UNCHANGED <<queue, timers, mem, row>>
    BY <1>3 DEF Wait, Exit, StartRetry, AnnounceStarted, MinioAnswers, GetOk, GetErr, PutOk, PutErr
  <2> QED BY <1>1, <2>1, <2>2, OwnedStays
<1>4. ASSUME NEW w \in Workers,
             StartFirstAttempt(w) \/ Succeed(w) \/ ScheduleRetry(w) \/ Fail(w)
      PROVE  CarryInv'
  <2> DEFINE t == job[w].id
  <2>1. PICK new \in Transfer : UpdateTransfer(t, new)
    BY <1>4, WriterSteps
  <2>2. /\ t \in Transfers /\ pc[w] \in Busy /\ pc'[w] \in Busy /\ job'[w].id = t
        /\ \A v \in Workers : v # w => pc'[v] = pc[v] /\ job'[v] = job[v]
        /\ UNCHANGED <<queue, timers>>
    BY <1>4, WriterSteps DEF Unfinished
  <2>3. Owned' = Owned /\ t \in Owned
    BY <2>2, OwnedStays, OwnedMember
  <2> HIDE DEF t
  <2>4. /\ mem'[t] = new /\ \A u \in Transfers : u # t => mem'[u] = mem[u]
        /\ t \in Kept => row'[t] = new
        /\ \A u \in Transfers : u # t => row'[u] = row[u]
    BY <2>1, <2>2, UpdateEffect
  <2> QED BY <2>3, <2>4 DEF CarryInv, MemCarried, RowIsMem, Kept
<1>5. ASSUME NEW w \in Workers, AnnounceCompleted(w) \/ AnnounceFailed(w)
      PROVE  CarryInv'
  <2>1. /\ pc[w] \in {"completed", "failed"} /\ Return(w, pc[w])
        /\ UNCHANGED <<queue, timers, mem, row>>
    BY <1>5 DEF AnnounceCompleted, AnnounceFailed, Return, Goto
  <2>2. pc[w] \in Busy
    BY <2>1 DEF Busy
  <2>3. Owned' = Owned \ {job[w].id}
    BY <1>0, <2>1, <2>2, OwnedReleased
  <2>4. mem[job[w].id].status \notin Active
    BY <2>1, <2>2 DEF RecordInv, JobsCurrent, Active
  <2> QED BY <2>1, <2>3, <2>4 DEF CarryInv, MemCarried, RowIsMem
<1>6. ASSUME NEW w \in Workers, ArmRetryTimer(w)
      PROVE  CarryInv'
  BY <1>1, <1>6, OwnedArmed DEF ArmRetryTimer
<1>7. ASSUME NEW j \in timers, RetryTimer(j)
      PROVE  CarryInv'
  <2> DEFINE t == j.id
  <2>1. /\ j \in TransferJob /\ t \in Transfers /\ mem[t] \in Transfer
        /\ mem[t].status = "retrying"
    BY DEF PoolTypeOK, TransferJob, RecordInv, JobsCurrent
  <2>2. Owned' = Owned \union {t}
    BY <1>7, <2>1, OwnedEnqueued DEF RetryTimer
  <2>3. t \in Owned
    BY OwnedMember
  <2>4. /\ mem'[t] = ResetForRetry(mem[t]) /\ row' = row
        /\ \A u \in Transfers : u # t => mem'[u] = mem[u]
    BY <1>7, <2>1 DEF RetryTimer, PoolTypeOK
  <2>5. mem'[t].status = "pending" /\ mem'[t].retryCount = mem[t].retryCount
    BY <2>1, <2>4, MarkStatus, MarkCounts
  <2> HIDE DEF t
  <2>6. MemCarried'
    BY <2>2, <2>3, <2>4 DEF CarryInv, MemCarried
  <2>7. t \in Kept => row[t] = mem[t]
    BY <2>1 DEF CarryInv, RowIsMem
  <2>8. RowIsMem'
    BY <2>1, <2>4, <2>5, <2>7 DEF CarryInv, RowIsMem, Kept
  <2> QED BY <2>6, <2>8 DEF CarryInv
<1>8. ASSUME NEW t \in Transfers, Submit(t)
      PROVE  CarryInv'
  <2> DEFINE j == [id |-> t, retryCount |-> 0]
  <2>1. j \in TransferJob /\ j.id = t
    BY DEF TransferJob
  <2>2. Enqueue(j) /\ UNCHANGED <<pc, job, timers>>
    BY <1>8 DEF Submit
  <2> HIDE DEF j
  <2>3. Owned' = Owned \union {t}
    BY <2>1, <2>2, OwnedEnqueued
  <2>4. /\ mem'[t] = NewTransfer /\ row'[t] = NewTransfer
        /\ \A u \in Transfers : u # t => mem'[u] = mem[u] /\ row'[u] = row[u]
    BY <1>8 DEF Submit, PoolTypeOK
  <2> QED BY <2>3, <2>4 DEF CarryInv, MemCarried, RowIsMem, Kept
<1>9. CASE Signal \/ CommitBatch \/ Shutdown \/ Exited \/ \E t \in Transfers : AnnounceSubmitted(t)
  <2>1. UNCHANGED <<queue, timers, mem, row, job>>
    BY <1>9 DEF Signal, CommitBatch, AnnounceSubmitted, Shutdown, Terminate, StopClose,
                StopBroadcast, StopReturn, Exited, poolVars
  <2>2. \A v \in Workers : pc'[v] \in Busy <=> pc[v] \in Busy
    <3>1. CASE Signal
      BY <3>1 DEF Signal, Goto, Busy, PoolTypeOK
    <3>2. CASE StopBroadcast
      BY <3>2 DEF StopBroadcast, Busy
    <3>3. CASE Terminate \/ StopClose \/ StopReturn \/ Exited
      BY <3>3 DEF Terminate, StopClose, StopReturn, Exited, poolVars
    <3>4. CASE CommitBatch \/ \E t \in Transfers : AnnounceSubmitted(t)
      BY <3>4 DEF CommitBatch, AnnounceSubmitted
    <3> QED BY <1>9, <3>1, <3>2, <3>3, <3>4 DEF Shutdown
  <2> QED BY <1>1, <2>1, <2>2, OwnedStays
<1> QED
  BY <1>2, <1>3, <1>4, <1>5, <1>6, <1>7, <1>8, <1>9 DEF PoolNext, PoolStep, WorkerStep

LEMMA PoolCarry == PoolSpec => []CarryInv
<1>1. PoolInit => CarryInv
  BY DEF PoolInit, CarryInv, MemCarried, RowIsMem, Kept, NoTransfer, NewTransfer, Active
<1>2. PoolTypeOK /\ OwnershipInv /\ RecordInv /\ CarryInv /\ [PoolNext]_poolVars => CarryInv'
  <2>1. CarryInv /\ UNCHANGED poolVars => CarryInv'
    <3>1. UNCHANGED poolVars => Owned' = Owned
      BY OwnedStays DEF poolVars
    <3> QED BY <3>1 DEF CarryInv, MemCarried, RowIsMem, poolVars
  <2> QED BY <2>1, CarryStep
<1> QED BY <1>1, <1>2, PoolInvariants, PTL DEF PoolSpec

\* No path through process(), scheduleRetry and its timer drops a transfer: one
\* that is not finished has its job in the queue, with a worker or with a timer,
\* also when updates of its row are lost.
THEOREM PoolActiveIsOwned == PoolSpec => []ActiveIsOwned
<1>1. PoolTypeOK /\ CarryInv => ActiveIsOwned
  <2> SUFFICES ASSUME PoolTypeOK, CarryInv, NEW t \in Transfers,
                      mem[t].status \in Active \/ (row[t].status \in Active /\ t \notin UpdateMayFail)
               PROVE  t \in Owned
    BY DEF ActiveIsOwned
  <2>1. mem[t].status \in Active
    BY DEF CarryInv, RowIsMem, Kept, Active
  <2> QED BY <2>1 DEF CarryInv, MemCarried
<1> QED BY <1>1, PoolCarry, PoolInvariants, PTL

-----------------------------------------------------------------------------
\* Events.

RetryingEvents(f) == {k \in 1..Len(f) : f[k] = "retrying"}

\* What the submitter alone tells.
QueuedUpTo(f, n) == \A k \in 1..n : f[k] = "queued"
QueuedAfter(f, i) == \A k \in i + 1..Len(f) : f[k] = "queued"
OnlyQueued(f) == QueuedUpTo(f, Len(f))

\* EventsFollowRow for one transfer.
FeedOK(f, r) ==
    \A i \in 1..Len(f) :
        /\ f[i] = "started" => QueuedUpTo(f, i - 1) /\ r.status # "pending"
        /\ f[i] = "completed" => QueuedAfter(f, i) /\ r.status = "success"
        /\ f[i] = "failed" => QueuedAfter(f, i) /\ r.status = "failed"
        /\ Cardinality({k \in 1..i : f[k] = "retrying"}) <= r.retryCount

NoFinal(f) == \A i \in 1..Len(f) : f[i] \notin {"completed", "failed"}

FeedRows ==
    \A t \in Transfers :
        /\ t \in Kept => /\ FeedOK(feed[t], row[t])
                         /\ Cardinality(RetryingEvents(feed[t])) <= row[t].retryCount
        /\ t \notin Created => feed[t] = <<>>

\* While the pool has a transfer its final event is still to come.
FeedOpen == \A t \in Owned : NoFinal(feed[t])

\* A first attempt has not been announced by a worker; a retry that was counted has
\* not been announced before its timer is set.
FeedFresh ==
    /\ \A i \in 1..Len(queue) : queue[i].retryCount = 0 => OnlyQueued(feed[queue[i].id])
    /\ \A j \in timers : j.retryCount # 0
    /\ \A w \in Workers :
        /\ pc[w] \in {"process", "started"} /\ job[w].retryCount = 0
             => OnlyQueued(feed[job[w].id])
        /\ pc[w] = "started" =>
             /\ job[w].retryCount = 0
             /\ job[w].id \in Kept => row[job[w].id].status # "pending"
        /\ pc[w] = "retrying" =>
             /\ job[w].retryCount # 0
             /\ job[w].id \in Kept =>
                  Cardinality(RetryingEvents(feed[job[w].id])) < row[job[w].id].retryCount

FeedInv == FeedRows /\ FeedOpen /\ FeedFresh

LEMMA IndexSetFinite ==
    ASSUME NEW n \in Nat, NEW S, S \subseteq 1..n
    PROVE  IsFiniteSet(S) /\ Cardinality(S) \in Nat
<1>1. IsFiniteSet(1..n)
  <2>1. 1 \in Int /\ n \in Int
    OBVIOUS
  <2> QED BY <2>1, FS_Interval
<1>2. S \in SUBSET (1..n)
  OBVIOUS
<1>3. IsFiniteSet(S)
  BY <1>1, <1>2, FS_Subset, Zenon
<1> QED BY <1>3, FS_CardinalityType

\* An event is added at the end.
LEMMA RetryingCount ==
    ASSUME NEW f \in Seq(Events), NEW e \in Events
    PROVE  LET g == Append(f, e)
           IN  /\ Cardinality(RetryingEvents(f)) \in Nat
               /\ e = "retrying" => Cardinality(RetryingEvents(g)) = Cardinality(RetryingEvents(f)) + 1
               /\ e # "retrying" => RetryingEvents(g) = RetryingEvents(f)
               /\ \A i \in 1..Len(f) : {k \in 1..i : g[k] = "retrying"} = {k \in 1..i : f[k] = "retrying"}
<1> DEFINE g == Append(f, e)
<1>1. /\ Len(f) \in Nat /\ Len(g) = Len(f) + 1 /\ g[Len(f) + 1] = e
      /\ \A i \in 1..Len(f) : g[i] = f[i]
  OBVIOUS
<1> HIDE DEF g
<1>2. IsFiniteSet(RetryingEvents(f))
  <2>1. RetryingEvents(f) \subseteq 1..Len(f)
    BY DEF RetryingEvents
  <2> QED BY <1>1, <2>1, IndexSetFinite
<1>3. Cardinality(RetryingEvents(f)) \in Nat
  BY <1>2, FS_CardinalityType
<1>4. ASSUME e = "retrying"
      PROVE  Cardinality(RetryingEvents(g)) = Cardinality(RetryingEvents(f)) + 1
  <2>1. RetryingEvents(g) = RetryingEvents(f) \union {Len(f) + 1}
    BY <1>1, <1>4 DEF RetryingEvents
  <2>2. Len(f) + 1 \notin RetryingEvents(f)
    BY <1>1 DEF RetryingEvents
  <2> QED BY <1>2, <2>1, <2>2, FS_AddElement
<1>5. ASSUME e # "retrying"
      PROVE  RetryingEvents(g) = RetryingEvents(f)
  BY <1>1, <1>5 DEF RetryingEvents
<1>6. ASSUME NEW i \in 1..Len(f)
      PROVE  {k \in 1..i : g[k] = "retrying"} = {k \in 1..i : f[k] = "retrying"}
  <2>1. \A k \in 1..i : k \in 1..Len(f)
    BY <1>1
  <2> QED BY <1>1, <2>1
<1> QED BY <1>3, <1>4, <1>5, <1>6 DEF g

\* The row changes while the transfer's final event is still to come.
LEMMA FeedRowChanges ==
    ASSUME NEW f \in Seq(Events), NEW r \in Transfer, NEW s \in Transfer, FeedOK(f, r), NoFinal(f),
           Cardinality(RetryingEvents(f)) <= r.retryCount,
           s.status # "pending", s.retryCount >= r.retryCount
    PROVE  FeedOK(f, s) /\ Cardinality(RetryingEvents(f)) <= s.retryCount
<1>1. r.retryCount \in Nat /\ s.retryCount \in Nat /\ Len(f) \in Nat
  BY DEF Transfer
<1>2. Cardinality(RetryingEvents(f)) \in Nat
  <2>1. RetryingEvents(f) \subseteq 1..Len(f)
    BY DEF RetryingEvents
  <2> QED BY <1>1, <2>1, IndexSetFinite
<1>3. Cardinality(RetryingEvents(f)) <= s.retryCount
  BY <1>1, <1>2
<1>4. ASSUME NEW i \in 1..Len(f)
      PROVE  Cardinality({k \in 1..i : f[k] = "retrying"}) <= s.retryCount
  <2>1. Cardinality({k \in 1..i : f[k] = "retrying"}) \in Nat
    <3>1. {k \in 1..i : f[k] = "retrying"} \subseteq 1..i
      OBVIOUS
    <3>2. i \in Nat
      BY <1>1
    <3> QED BY <3>1, <3>2, IndexSetFinite
  <2>2. Cardinality({k \in 1..i : f[k] = "retrying"}) <= r.retryCount
    BY DEF FeedOK
  <2> QED BY <1>1, <2>1, <2>2
<1>5. FeedOK(f, s)
  BY <1>4 DEF FeedOK, NoFinal
<1> QED BY <1>3, <1>5

\* QueuedUpTo and QueuedAfter as an event is added.
LEMMA QueuedGrows ==
    ASSUME NEW f \in Seq(Events), NEW e \in Events
    PROVE  /\ \A i \in 1..Len(f) : QueuedUpTo(f, i - 1) => QueuedUpTo(Append(f, e), i - 1)
           /\ OnlyQueued(f) => QueuedUpTo(Append(f, e), Len(f))
           /\ e = "queued" /\ OnlyQueued(f) => OnlyQueued(Append(f, e))
           /\ e = "queued" => \A i \in 1..Len(f) : QueuedAfter(f, i) => QueuedAfter(Append(f, e), i)
           /\ QueuedAfter(Append(f, e), Len(f) + 1)
<1> DEFINE g == Append(f, e)
<1>1. /\ Len(f) \in Nat /\ Len(g) = Len(f) + 1 /\ g[Len(f) + 1] = e
      /\ \A i \in 1..Len(f) : g[i] = f[i]
  OBVIOUS
<1> HIDE DEF g
<1> QED BY <1>1 DEF QueuedUpTo, QueuedAfter, OnlyQueued, g

\* An event is announced that the row bears out.
LEMMA FeedGrows ==
    ASSUME NEW f \in Seq(Events), NEW r \in Transfer, NEW e \in Events, FeedOK(f, r),
           e # "queued" => NoFinal(f),
           Cardinality(RetryingEvents(f)) <= r.retryCount,
           e = "started" => OnlyQueued(f) /\ r.status # "pending",
           e = "completed" => r.status = "success",
           e = "failed" => r.status = "failed",
           e = "retrying" => Cardinality(RetryingEvents(f)) < r.retryCount
    PROVE  /\ FeedOK(Append(f, e), r)
           /\ Cardinality(RetryingEvents(Append(f, e))) <= r.retryCount
<1> DEFINE g == Append(f, e)
<1>1. /\ Len(f) \in Nat /\ Len(g) = Len(f) + 1 /\ g[Len(f) + 1] = e
      /\ \A i \in 1..Len(f) : g[i] = f[i]
      /\ r.retryCount \in Nat
  BY DEF Transfer
<1>2. /\ Cardinality(RetryingEvents(f)) \in Nat
      /\ e = "retrying" => Cardinality(RetryingEvents(g)) = Cardinality(RetryingEvents(f)) + 1
      /\ e # "retrying" => RetryingEvents(g) = RetryingEvents(f)
      /\ \A i \in 1..Len(f) : {k \in 1..i : g[k] = "retrying"} = {k \in 1..i : f[k] = "retrying"}
  BY RetryingCount
<1>3. /\ \A i \in 1..Len(f) : QueuedUpTo(f, i - 1) => QueuedUpTo(g, i - 1)
      /\ OnlyQueued(f) => QueuedUpTo(g, Len(f))
      /\ e = "queued" => \A i \in 1..Len(f) : QueuedAfter(f, i) => QueuedAfter(g, i)
      /\ QueuedAfter(g, Len(f) + 1)
  BY QueuedGrows
<1> HIDE DEF g
<1>4. Cardinality(RetryingEvents(g)) <= r.retryCount
  BY <1>1, <1>2
<1>5. ASSUME NEW i \in 1..Len(f)
      PROVE  /\ g[i] = "started" => QueuedUpTo(g, i - 1) /\ r.status # "pending"
             /\ g[i] = "completed" => QueuedAfter(g, i) /\ r.status = "success"
             /\ g[i] = "failed" => QueuedAfter(g, i) /\ r.status = "failed"
             /\ Cardinality({k \in 1..i : g[k] = "retrying"}) <= r.retryCount
  BY <1>1, <1>2, <1>3 DEF FeedOK, NoFinal
<1>6. {k \in 1..Len(f) + 1 : g[k] = "retrying"} = RetryingEvents(g)
  BY <1>1 DEF RetryingEvents
<1>7. FeedOK(g, r)
  <2> SUFFICES ASSUME NEW i \in 1..Len(g)
               PROVE  /\ g[i] = "started" => QueuedUpTo(g, i - 1) /\ r.status # "pending"
                      /\ g[i] = "completed" => QueuedAfter(g, i) /\ r.status = "success"
                      /\ g[i] = "failed" => QueuedAfter(g, i) /\ r.status = "failed"
                      /\ Cardinality({k \in 1..i : g[k] = "retrying"}) <= r.retryCount
    BY DEF FeedOK
  <2>1. CASE i \in 1..Len(f)
    BY <1>5, <2>1
  <2>2. CASE i = Len(f) + 1
    <3> i - 1 = Len(f)
      BY <1>1, <2>2
    <3> QED BY <1>1, <1>3, <1>4, <1>6, <2>2
  <2> QED BY <1>1, <2>1, <2>2
<1> QED BY <1>4, <1>7 DEF g

\* An event that is not final leaves the final one still to come.
LEMMA StillOpen ==
    ASSUME NEW f \in Seq(Events), NEW e \in Events \ {"completed", "failed"}, NoFinal(f)
    PROVE  NoFinal(Append(f, e))
  BY DEF NoFinal

LEMMA BroadcastEffect ==
    ASSUME PoolTypeOK, NEW t \in Transfers, NEW e, Broadcast(t, e)
    PROVE  /\ feed'[t] = feed[t] \/ feed'[t] = Append(feed[t], e)
           /\ \A u \in Transfers : u # t => feed'[u] = feed[u]
  BY DEF Broadcast, PoolTypeOK

\* The parts of the invariant as the steps use them.
LEMMA FeedFacts ==
    ASSUME PoolTypeOK, FeedRows, NEW t \in Transfers
    PROVE  /\ feed[t] \in Seq(Events) /\ row[t] \in Transfer /\ row[t].retryCount \in Nat
           /\ t \in Kept => /\ FeedOK(feed[t], row[t])
                            /\ Cardinality(RetryingEvents(feed[t])) <= row[t].retryCount
  BY DEF PoolTypeOK, FeedRows, Transfer

\* A worker writes the row of the transfer it holds.
LEMMA FeedWritten ==
    ASSUME PoolTypeOK, OwnershipInv, RecordInv, CarryInv,
           FeedRows, FeedOpen, FeedFresh, NEW w \in Workers,
           StartFirstAttempt(w) \/ Succeed(w) \/ ScheduleRetry(w) \/ Fail(w)
    PROVE  FeedRows' /\ FeedOpen' /\ FeedFresh'
<1> DEFINE t == job[w].id
<1>1. /\ t \in Transfers /\ pc[w] \in Unfinished /\ pc[w] \in Busy /\ pc'[w] \in Busy
      /\ job'[w].id = t
      /\ \A v \in Workers : v # w => pc'[v] = pc[v] /\ job'[v] = job[v]
      /\ UNCHANGED <<queue, timers, feed>>
  BY WriterSteps DEF Unfinished
<1>2. PICK new \in Transfer :
         /\ UpdateTransfer(t, new)
         /\ new.status # "pending" /\ new.status \in Status
         /\ new.retryCount = job'[w].retryCount
         /\ pc'[w] # "retrying" => job'[w] = job[w]
         /\ pc'[w] = "retrying" => job'[w].retryCount = job[w].retryCount + 1
  BY WriterSteps
<1>3. /\ t \in Kept => row'[t] = new
      /\ \A u \in Transfers : u # t => row'[u] = row[u]
  BY <1>1, <1>2, UpdateEffect
<1>4. /\ \A i \in 1..Len(queue) : queue[i].id # t
      /\ \A j \in timers : j.id # t
      /\ \A v \in Workers : v # w /\ pc[v] \in Busy => job[v].id # t
  BY <1>1, HolderIsAlone DEF OwnershipInv
<1>5. /\ job[w].retryCount \in Nat /\ mem[t].retryCount = job[w].retryCount
      /\ t \in Kept => row[t].retryCount = job[w].retryCount
  <2>1. job[w].retryCount \in Nat /\ mem[t].retryCount = job[w].retryCount
    BY <1>1, HeldRecord
  <2> QED BY <1>1, <2>1 DEF CarryInv, RowIsMem
<1>6. Owned' = Owned /\ t \in Owned
  BY <1>1, OwnedStays, OwnedMember
<1>7. NoFinal(feed[t])
  BY <1>6 DEF FeedOpen
<1>8. job[w].retryCount <= new.retryCount
  BY <1>2, <1>5
<1>9. /\ feed[t] \in Seq(Events) /\ row[t] \in Transfer
      /\ t \in Kept => /\ FeedOK(feed[t], row[t])
                       /\ Cardinality(RetryingEvents(feed[t])) <= row[t].retryCount
      /\ Cardinality(RetryingEvents(feed[t])) \in Nat
  <2>1. feed[t] \in Seq(Events) /\ "started" \in Events
    BY <1>1, FeedFacts DEF Events
  <2> QED BY <1>1, <2>1, FeedFacts, RetryingCount
<1> HIDE DEF t
<1>10. t \in Kept => /\ FeedOK(feed[t], new)
                     /\ Cardinality(RetryingEvents(feed[t])) <= new.retryCount
  BY <1>2, <1>5, <1>7, <1>8, <1>9, FeedRowChanges
<1>11. \A u \in Transfers : u \notin Created' => u \notin Created
  <2>1. Created \subseteq Created'
    BY <1>1, <1>2, UpdateKeepsRows DEF PoolTypeOK, t
  <2> QED BY <2>1
<1>12. FeedRows'
  <2> SUFFICES ASSUME NEW u \in Transfers
               PROVE  /\ u \in Kept => /\ FeedOK(feed'[u], row'[u])
                                       /\ Cardinality(RetryingEvents(feed'[u])) <= row'[u].retryCount
                      /\ u \notin Created' => feed'[u] = <<>>
    BY DEF FeedRows, Kept
  <2>1. u \notin Created' => feed'[u] = <<>>
    BY <1>1, <1>11 DEF FeedRows
  <2>2. CASE u = t
    BY <1>1, <1>3, <1>10, <2>1, <2>2
  <2>3. CASE u # t
    BY <1>1, <1>3, <2>1, <2>3 DEF FeedRows
  <2> QED BY <2>2, <2>3
<1>13. FeedOpen'
  BY <1>1, <1>6 DEF FeedOpen
<1>14. FeedFresh'
  <2>1. /\ \A i \in 1..Len(queue') : queue'[i].retryCount = 0 => OnlyQueued(feed'[queue'[i].id])
        /\ \A j \in timers' : j.retryCount # 0
    BY <1>1 DEF FeedFresh
  <2>2. ASSUME NEW v \in Workers, v # w
        PROVE  /\ pc'[v] \in {"process", "started"} /\ job'[v].retryCount = 0 => OnlyQueued(feed'[job'[v].id])
               /\ pc'[v] = "started" =>
                    /\ job'[v].retryCount = 0
                    /\ job'[v].id \in Kept => row'[job'[v].id].status # "pending"
               /\ pc'[v] = "retrying" =>
                    /\ job'[v].retryCount # 0
                    /\ job'[v].id \in Kept =>
                         Cardinality(RetryingEvents(feed'[job'[v].id])) < row'[job'[v].id].retryCount
    <3>1. pc'[v] = pc[v] /\ job'[v] = job[v] /\ feed' = feed
      BY <1>1, <2>2
    <3>2. pc[v] \in Busy => row'[job[v].id] = row[job[v].id]
      BY <1>3, <1>4, <2>2, JobIds
    <3>3. {"process", "started", "retrying"} \subseteq Busy
      BY DEF Busy
    <3> QED BY <3>1, <3>2, <3>3 DEF FeedFresh
  <2>3. pc'[w] \in {"process", "started"} => StartFirstAttempt(w) /\ pc[w] = "process" /\ pc'[w] = "started"
    BY DEF StartFirstAttempt, Succeed, ScheduleRetry, Fail, Goto, PoolTypeOK
  <2>4. pc'[w] \in {"process", "started"} /\ job'[w].retryCount = 0 => OnlyQueued(feed'[job'[w].id])
    BY <1>1, <1>2, <2>3 DEF FeedFresh, t
  <2>5. pc'[w] = "started" =>
          job'[w].retryCount = 0 /\ (job'[w].id \in Kept => row'[job'[w].id].status # "pending")
    <3>1. StartFirstAttempt(w) => job[w].retryCount = 0 /\ job' = job
      BY DEF StartFirstAttempt
    <3> QED BY <1>1, <1>2, <1>3, <2>3, <3>1
  <2>6. ASSUME pc'[w] = "retrying"
        PROVE  /\ job'[w].retryCount # 0
               /\ job'[w].id \in Kept =>
                    Cardinality(RetryingEvents(feed'[job'[w].id])) < row'[job'[w].id].retryCount
    <3>1. /\ job'[w].retryCount = job[w].retryCount + 1
          /\ t \in Kept => row'[t].retryCount = job[w].retryCount + 1
      BY <1>2, <1>3, <2>6
    <3>2. t \in Kept => Cardinality(RetryingEvents(feed[t])) < job[w].retryCount + 1
      BY <1>5, <1>9
    <3>3. job[w].retryCount + 1 # 0
      BY <1>5
    <3> QED BY <1>1, <3>1, <3>2, <3>3
  <2> QED BY <2>1, <2>2, <2>4, <2>5, <2>6 DEF FeedFresh, Kept
<1> QED BY <1>12, <1>13, <1>14

\* A worker announces what it has written.
LEMMA FeedAnnounced ==
    ASSUME PoolTypeOK, OwnershipInv, RecordInv, CarryInv,
           FeedRows, FeedOpen, FeedFresh, NEW w \in Workers,
           \/ AnnounceStarted(w) \/ AnnounceCompleted(w)
           \/ ArmRetryTimer(w) \/ AnnounceFailed(w)
    PROVE  FeedRows' /\ FeedOpen' /\ FeedFresh'
<1> DEFINE t == job[w].id
           count == Cardinality(RetryingEvents(feed[t]))
<1>1. /\ pc[w] \in {"started", "completed", "retrying", "failed"} /\ pc[w] \in Busy
      /\ pc'[w] \in {"get", "lock"}
      /\ \A v \in Workers : v # w => pc'[v] = pc[v] /\ job'[v] = job[v]
      /\ UNCHANGED <<queue, row>>
      /\ timers' = IF pc[w] = "retrying" THEN timers \union {job[w]} ELSE timers
      /\ Broadcast(t, pc[w])
  BY DEF AnnounceStarted, AnnounceCompleted, ArmRetryTimer, AnnounceFailed, Return, Goto,
         PoolTypeOK, Busy
<1>2. t \in Transfers /\ pc[w] \in Events
  BY <1>1, JobIds DEF Events
<1>3. /\ feed'[t] = feed[t] \/ feed'[t] = Append(feed[t], pc[w])
      /\ \A u \in Transfers : u # t => feed'[u] = feed[u]
  BY <1>1, <1>2, BroadcastEffect
<1>4. /\ \A i \in 1..Len(queue) : queue[i].id # t /\ queue[i].id \in Transfers
      /\ \A j \in timers : j.id # t
      /\ \A v \in Workers : v # w /\ pc[v] \in Busy => job[v].id # t /\ job[v].id \in Transfers
  BY <1>1, HolderIsAlone, JobIds DEF OwnershipInv
<1>5. /\ feed[t] \in Seq(Events) /\ row[t] \in Transfer
      /\ t \in Kept => FeedOK(feed[t], row[t]) /\ count <= row[t].retryCount
  BY <1>2, FeedFacts
<1>6. t \in Owned /\ NoFinal(feed[t])
  BY <1>1, OwnedMember DEF FeedOpen
<1>7. /\ pc[w] = "retrying" => job[w].retryCount # 0
      /\ t \in Kept => /\ pc[w] = "started" => OnlyQueued(feed[t]) /\ row[t].status # "pending"
                       /\ pc[w] = "completed" => row[t].status = "success"
                       /\ pc[w] = "failed" => row[t].status = "failed"
                       /\ pc[w] = "retrying" => count < row[t].retryCount
  <2>1. /\ pc[w] = "completed" => mem[t].status = "success"
        /\ pc[w] = "failed" => mem[t].status = "failed"
    BY <1>1 DEF RecordInv, JobsCurrent
  <2>2. t \in Kept /\ mem[t].status # "pending" => row[t] = mem[t]
    BY <1>2 DEF CarryInv, RowIsMem
  <2>3. /\ pc[w] = "retrying" => job[w].retryCount # 0
        /\ t \in Kept => /\ pc[w] = "started" => OnlyQueued(feed[t]) /\ row[t].status # "pending"
                         /\ pc[w] = "retrying" => count < row[t].retryCount
    BY DEF FeedFresh
  <2> QED BY <2>1, <2>2, <2>3
<1>8. Owned' \subseteq Owned
  <2>1. CASE pc[w] = "started"
    <3>1. AnnounceStarted(w)
      BY <2>1 DEF AnnounceStarted, AnnounceCompleted, ArmRetryTimer, AnnounceFailed, Return, Goto
    <3>2. \A v \in Workers : /\ pc'[v] \in Busy <=> pc[v] \in Busy
                             /\ pc[v] \in Busy => job'[v].id = job[v].id
      BY <3>1 DEF AnnounceStarted, Goto, Busy, PoolTypeOK
    <3> QED BY <3>1, <3>2, OwnedStays DEF AnnounceStarted
  <2>2. CASE pc[w] = "retrying"
    <3>1. ArmRetryTimer(w)
      BY <2>2 DEF AnnounceStarted, AnnounceCompleted, ArmRetryTimer, AnnounceFailed, Return, Goto
    <3> QED BY <3>1, OwnedArmed
  <2>3. CASE pc[w] \in {"completed", "failed"}
    <3>1. Return(w, pc[w]) /\ UNCHANGED <<queue, timers>>
      BY <2>3 DEF AnnounceStarted, AnnounceCompleted, ArmRetryTimer, AnnounceFailed, Return, Goto
    <3> QED BY <1>1, <3>1, OwnedReleased DEF OwnershipInv
  <2> QED BY <1>1, <2>1, <2>2, <2>3
<1>9. t \in Owned' => pc[w] \notin {"completed", "failed"}
  <2> SUFFICES ASSUME pc[w] \in {"completed", "failed"}
               PROVE  t \notin Owned'
    OBVIOUS
  <2>1. Return(w, pc[w]) /\ UNCHANGED <<queue, timers>>
    BY DEF AnnounceStarted, AnnounceCompleted, ArmRetryTimer, AnnounceFailed, Return, Goto
  <2>2. Owned' = Owned \ {t}
    BY <1>1, <2>1, OwnedReleased DEF OwnershipInv
  <2> QED BY <2>2
<1> HIDE DEF t, count
<1>10. t \in Kept => /\ FeedOK(feed'[t], row[t])
                     /\ Cardinality(RetryingEvents(feed'[t])) <= row[t].retryCount
  <2> SUFFICES ASSUME t \in Kept
               PROVE  /\ FeedOK(feed'[t], row[t])
                      /\ Cardinality(RetryingEvents(feed'[t])) <= row[t].retryCount
    OBVIOUS
  <2>1. CASE feed'[t] = feed[t]
    BY <1>5, <2>1 DEF count
  <2>2. CASE feed'[t] = Append(feed[t], pc[w])
    <3> DEFINE e == pc[w]
               f == feed[t]
               r == row[t]
    <3>1. /\ f \in Seq(Events) /\ r \in Transfer /\ e \in Events /\ FeedOK(f, r) /\ NoFinal(f)
          /\ Cardinality(RetryingEvents(f)) <= r.retryCount
          /\ e = "started" => OnlyQueued(f) /\ r.status # "pending"
          /\ e = "completed" => r.status = "success"
          /\ e = "failed" => r.status = "failed"
          /\ e = "retrying" => Cardinality(RetryingEvents(f)) < r.retryCount
      BY <1>2, <1>5, <1>6, <1>7 DEF count
    <3> HIDE DEF e, f, r
    <3>2. /\ FeedOK(Append(f, e), r)
          /\ Cardinality(RetryingEvents(Append(f, e))) <= r.retryCount
      BY <3>1, FeedGrows
    <3> QED BY <2>2, <3>2 DEF e, f, r
  <2> QED BY <1>3, <2>1, <2>2
<1>14. pc[w] \notin {"completed", "failed"} => NoFinal(feed'[t])
  BY <1>2, <1>3, <1>5, <1>6, StillOpen
<1>11. FeedRows'
  <2>1. t \in Created
    BY <1>6 DEF OwnershipInv, OwnedHasRow
  <2>2. Created' = Created
    BY <1>1 DEF Created
  <2> SUFFICES ASSUME NEW u \in Transfers
               PROVE  /\ u \in Kept => /\ FeedOK(feed'[u], row'[u])
                                       /\ Cardinality(RetryingEvents(feed'[u])) <= row'[u].retryCount
                      /\ u \notin Created' => feed'[u] = <<>>
    BY DEF FeedRows, Kept
  <2>3. CASE u = t
    BY <1>1, <1>10, <2>1, <2>2, <2>3
  <2>4. CASE u # t
    BY <1>1, <1>3, <2>2, <2>4 DEF FeedRows
  <2> QED BY <2>3, <2>4
<1>12. FeedOpen'
  <2> SUFFICES ASSUME NEW u \in Owned'
               PROVE  NoFinal(feed'[u])
    BY DEF FeedOpen
  <2>1. u \in Owned /\ u \in Transfers
    BY <1>8 DEF OwnershipInv, OwnedHasRow, Created
  <2>2. CASE u = t
    BY <1>9, <1>14, <2>2
  <2>3. CASE u # t
    BY <1>3, <2>1, <2>3 DEF FeedOpen
  <2> QED BY <2>2, <2>3
<1>13. FeedFresh'
  <2>1. \A i \in 1..Len(queue') : queue'[i].retryCount = 0 => OnlyQueued(feed'[queue'[i].id])
    BY <1>1, <1>3, <1>4 DEF FeedFresh
  <2>2. \A j \in timers' : j.retryCount # 0
    BY <1>1, <1>7 DEF FeedFresh
  <2>3. ASSUME NEW v \in Workers, v # w
        PROVE  /\ pc'[v] \in {"process", "started"} /\ job'[v].retryCount = 0 => OnlyQueued(feed'[job'[v].id])
               /\ pc'[v] = "started" =>
                    /\ job'[v].retryCount = 0
                    /\ job'[v].id \in Kept => row'[job'[v].id].status # "pending"
               /\ pc'[v] = "retrying" =>
                    /\ job'[v].retryCount # 0
                    /\ job'[v].id \in Kept =>
                         Cardinality(RetryingEvents(feed'[job'[v].id])) < row'[job'[v].id].retryCount
    <3>1. pc'[v] = pc[v] /\ job'[v] = job[v] /\ row' = row
      BY <1>1, <2>3
    <3>2. pc[v] \in Busy => feed'[job[v].id] = feed[job[v].id]
      BY <1>3, <1>4, <2>3
    <3>3. {"process", "started", "retrying"} \subseteq Busy
      BY DEF Busy
    <3> QED BY <3>1, <3>2, <3>3 DEF FeedFresh
  <2>4. pc'[w] \notin {"process", "started", "retrying"}
    BY <1>1
  <2> QED BY <2>1, <2>2, <2>3, <2>4 DEF FeedFresh
<1> QED BY <1>11, <1>12, <1>13

\* The other steps write no row and announce nothing.
LEMMA FeedMoved ==
    ASSUME PoolTypeOK, OwnershipInv, RecordInv, FeedRows, FeedOpen, FeedFresh,
           \/ \E w \in Workers : Take(w) \/ Wait(w) \/ Exit(w) \/ StartRetry(w) \/ MinioAnswers(w)
           \/ \E j \in timers : RetryTimer(j)
           \/ Signal \/ CommitBatch \/ Shutdown \/ UNCHANGED poolVars
    PROVE  FeedRows' /\ FeedOpen' /\ FeedFresh'
<1>1. feed' = feed /\ row' = row
  BY DEF Take, Wait, Exit, StartRetry, MinioAnswers, GetOk, GetErr, PutOk, PutErr, RetryTimer,
         Signal, CommitBatch, Shutdown, Terminate, StopClose, StopBroadcast, StopReturn, poolVars
<1>2. FeedRows'
  BY <1>1 DEF FeedRows, Created
<1>3. ASSUME NEW w \in Workers, Take(w)
      PROVE  FeedOpen' /\ FeedFresh'
  <2>1. /\ Head(queue) = queue[1] /\ 1 \in 1..Len(queue)
        /\ \A i \in 1..Len(queue') : queue'[i] = queue[i + 1] /\ i + 1 \in 1..Len(queue)
    BY <1>3, QueueFacts DEF Take, PoolTypeOK
  <2>2. /\ pc'[w] = "process" /\ job'[w] = queue[1] /\ timers' = timers
        /\ \A v \in Workers : v # w => pc'[v] = pc[v] /\ job'[v] = job[v]
    BY <1>3, <2>1 DEF Take, Goto, PoolTypeOK
  <2>3. FeedOpen'
    BY <1>1, <1>3, OwnedTaken DEF FeedOpen
  <2>4. FeedFresh'
    BY <1>1, <2>1, <2>2, SMTT(40) DEF FeedFresh
  <2> QED BY <2>3, <2>4
<1>4. ASSUME NEW j \in timers, RetryTimer(j)
      PROVE  FeedOpen' /\ FeedFresh'
  <2>1. j \in TransferJob
    BY DEF PoolTypeOK
  <2>2. Owned' = Owned \union {j.id} /\ j.id \in Owned
    BY <1>4, <2>1, OwnedEnqueued, OwnedMember DEF RetryTimer
  <2>3. /\ Len(queue) \in Nat /\ Len(queue') = Len(queue) + 1
        /\ \A i \in 1..(Len(queue) + 1) : queue'[i] = IF i = Len(queue) + 1 THEN j ELSE queue[i]
    BY <1>4, <2>1, QueueFacts DEF RetryTimer, Enqueue, PoolTypeOK
  <2>4. \A i \in 1..Len(queue') : queue'[i] = j \/ (i \in 1..Len(queue) /\ queue'[i] = queue[i])
    BY <2>3
  <2>5. j.retryCount # 0 /\ timers' \subseteq timers /\ pc' = pc /\ job' = job
    BY <1>4 DEF RetryTimer, FeedFresh
  <2>6. FeedOpen'
    BY <1>1, <2>2 DEF FeedOpen
  <2>7. FeedFresh'
    BY <1>1, <2>4, <2>5 DEF FeedFresh
  <2> QED BY <2>6, <2>7
<1>5. CASE \/ \E w \in Workers : Wait(w) \/ Exit(w) \/ StartRetry(w) \/ MinioAnswers(w)
           \/ Signal \/ CommitBatch \/ Shutdown \/ UNCHANGED poolVars
  <2>1. UNCHANGED <<queue, timers, job>>
    BY <1>5 DEF Wait, Exit, StartRetry, MinioAnswers, GetOk, GetErr, PutOk, PutErr, Signal,
                CommitBatch, Shutdown, Terminate, StopClose, StopBroadcast, StopReturn, poolVars
  <2>2. \A v \in Workers :
           /\ pc'[v] \in Busy <=> pc[v] \in Busy
           /\ pc'[v] \in {"process", "started", "retrying"} => pc'[v] = pc[v]
    <3>1. CASE \E w \in Workers : Wait(w) \/ Exit(w) \/ StartRetry(w)
      BY <3>1 DEF Wait, Exit, StartRetry, Goto, Busy, PoolTypeOK
    <3>2. CASE \E w \in Workers : MinioAnswers(w)
      BY <3>2 DEF MinioAnswers, GetOk, GetErr, PutOk, PutErr, Goto, Busy, PoolTypeOK
    <3>3. CASE Signal
      BY <3>3 DEF Signal, Goto, Busy, PoolTypeOK
    <3>4. CASE StopBroadcast
      BY <3>4 DEF StopBroadcast, Busy
    <3>5. CASE CommitBatch \/ Terminate \/ StopClose \/ StopReturn \/ UNCHANGED poolVars
      BY <3>5 DEF CommitBatch, Terminate, StopClose, StopReturn, poolVars
    <3> QED BY <1>5, <3>1, <3>2, <3>3, <3>4, <3>5 DEF Shutdown
  <2>3. Owned' = Owned
    BY <2>1, <2>2, OwnedStays
  <2>4. FeedOpen'
    BY <1>1, <2>3 DEF FeedOpen
  <2>5. FeedFresh'
    BY <1>1, <2>1, <2>2 DEF FeedFresh
  <2> QED BY <1>2, <2>4, <2>5
<1> QED BY <1>2, <1>3, <1>4, <1>5

LEMMA FeedSubmitted ==
    ASSUME PoolTypeOK, OwnershipInv, FeedRows, FeedOpen, FeedFresh, NEW t \in Transfers, Submit(t)
    PROVE  FeedRows' /\ FeedOpen' /\ FeedFresh'
<1> DEFINE j == [id |-> t, retryCount |-> 0]
<1>1. j \in TransferJob /\ j.id = t
  BY DEF TransferJob
<1>2. /\ Enqueue(j) /\ UNCHANGED <<pc, job, timers, feed>> /\ t \notin Created
      /\ row'[t] = NewTransfer /\ \A u \in Transfers : u # t => row'[u] = row[u]
  BY DEF Submit, PoolTypeOK
<1> HIDE DEF j
<1>3. Owned' = Owned \union {t} /\ t \notin Owned
  BY <1>1, <1>2, OwnedEnqueued DEF OwnershipInv, OwnedHasRow
<1>4. feed[t] = <<>> /\ NoFinal(<<>>) /\ OnlyQueued(<<>>)
  BY <1>2 DEF FeedRows, NoFinal, OnlyQueued, QueuedUpTo
<1>5. FeedRows'
  <2>1. FeedOK(<<>>, NewTransfer) /\ Cardinality(RetryingEvents(<<>>)) <= NewTransfer.retryCount
    <3>1. RetryingEvents(<<>>) = {} /\ NewTransfer.retryCount = 0
      BY DEF RetryingEvents, NewTransfer
    <3> QED BY <3>1, FS_EmptySet DEF FeedOK
  <2>2. \A u \in Transfers : u \notin Created' => u \notin Created
    BY <1>2 DEF Created
  <2> QED BY <1>2, <1>4, <2>1, <2>2 DEF FeedRows
<1>6. FeedOpen'
  BY <1>2, <1>3, <1>4 DEF FeedOpen
<1>7. FeedFresh'
  <2>1. /\ Len(queue) \in Nat /\ Len(queue') = Len(queue) + 1
        /\ \A i \in 1..(Len(queue) + 1) : queue'[i] = IF i = Len(queue) + 1 THEN j ELSE queue[i]
    BY <1>1, <1>2, QueueFacts DEF Enqueue, PoolTypeOK
  <2>2. \A i \in 1..Len(queue') : queue'[i] = j \/ (i \in 1..Len(queue) /\ queue'[i] = queue[i])
    BY <2>1
  <2>3. \A v \in Workers : pc[v] \in Busy => job[v].id # t /\ job[v].id \in Transfers
    BY <1>3, OwnedMember, JobIds
  <2>4. {"process", "started", "retrying"} \subseteq Busy
    BY DEF Busy
  <2>5. ASSUME NEW v \in Workers
        PROVE  /\ pc'[v] \in {"process", "started"} /\ job'[v].retryCount = 0 => OnlyQueued(feed'[job'[v].id])
               /\ pc'[v] = "started" =>
                    /\ job'[v].retryCount = 0
                    /\ job'[v].id \in Kept => row'[job'[v].id].status # "pending"
               /\ pc'[v] = "retrying" =>
                    /\ job'[v].retryCount # 0
                    /\ job'[v].id \in Kept =>
                         Cardinality(RetryingEvents(feed'[job'[v].id])) < row'[job'[v].id].retryCount
    BY <1>2, <2>3, <2>4 DEF FeedFresh
  <2>6. /\ \A i \in 1..Len(queue') : queue'[i].retryCount = 0 => OnlyQueued(feed'[queue'[i].id])
        /\ \A k \in timers' : k.retryCount # 0
    BY <1>1, <1>2, <1>4, <2>2 DEF FeedFresh
  <2> QED BY <2>5, <2>6 DEF FeedFresh
<1> QED BY <1>5, <1>6, <1>7

\* The submitter's event says nothing a worker's later event relies on.
LEMMA FeedQueued ==
    ASSUME PoolTypeOK, FeedRows, FeedOpen, FeedFresh, NEW t \in Transfers, AnnounceSubmitted(t)
    PROVE  FeedRows' /\ FeedOpen' /\ FeedFresh'
<1>1. /\ UNCHANGED <<queue, pc, job, timers, row>> /\ t \in Created
      /\ feed'[t] = feed[t] \/ feed'[t] = Append(feed[t], "queued")
      /\ \A u \in Transfers : u # t => feed'[u] = feed[u]
  BY BroadcastEffect DEF AnnounceSubmitted
<1>2. ASSUME NEW u \in Transfers
      PROVE  /\ u \in Kept => /\ FeedOK(feed'[u], row[u])
                              /\ Cardinality(RetryingEvents(feed'[u])) <= row[u].retryCount
             /\ NoFinal(feed[u]) => NoFinal(feed'[u])
             /\ OnlyQueued(feed[u]) => OnlyQueued(feed'[u])
             /\ RetryingEvents(feed'[u]) = RetryingEvents(feed[u])
  <2>1. CASE feed'[u] = feed[u]
    BY <2>1, FeedFacts
  <2>2. CASE feed'[u] = Append(feed[u], "queued")
    <3> DEFINE f == feed[u]
    <3>1. /\ f \in Seq(Events) /\ "queued" \in Events \ {"completed", "failed"}
          /\ row[u] \in Transfer
          /\ u \in Kept => FeedOK(f, row[u]) /\ Cardinality(RetryingEvents(f)) <= row[u].retryCount
      BY FeedFacts DEF Events
    <3> HIDE DEF f
    <3>2. u \in Kept => /\ FeedOK(Append(f, "queued"), row[u])
                        /\ Cardinality(RetryingEvents(Append(f, "queued"))) <= row[u].retryCount
      BY <3>1, FeedGrows
    <3>3. NoFinal(f) => NoFinal(Append(f, "queued"))
      BY <3>1, StillOpen
    <3>4. OnlyQueued(f) => OnlyQueued(Append(f, "queued"))
      BY <3>1, QueuedGrows
    <3>5. RetryingEvents(Append(f, "queued")) = RetryingEvents(f)
      BY <3>1, RetryingCount
    <3> QED BY <2>2, <3>2, <3>3, <3>4, <3>5 DEF f
  <2> QED BY <1>1, <2>1, <2>2
<1>3. FeedRows'
  BY <1>1, <1>2 DEF FeedRows, Created, Kept
<1>4. FeedOpen'
  <2>1. Owned' = Owned /\ \A u \in Owned : u \in Transfers
    <3>1. Owned' = Owned
      BY <1>1, OwnedStays
    <3>2. \A u \in Owned : u \in Transfers
      BY OwnedMember, JobIds
    <3> QED BY <3>1, <3>2
  <2> QED BY <1>2, <2>1 DEF FeedOpen
<1>5. FeedFresh'
  <2>1. /\ \A i \in 1..Len(queue) : queue[i].id \in Transfers
        /\ \A v \in Workers : pc[v] \in {"process", "started", "retrying"} => job[v].id \in Transfers
    BY JobIds DEF Busy
  <2>2. \A i \in 1..Len(queue') : queue'[i].retryCount = 0 => OnlyQueued(feed'[queue'[i].id])
    BY <1>1, <1>2, <2>1 DEF FeedFresh
  <2>3. ASSUME NEW v \in Workers
        PROVE  /\ pc'[v] \in {"process", "started"} /\ job'[v].retryCount = 0 => OnlyQueued(feed'[job'[v].id])
               /\ pc'[v] = "started" =>
                    /\ job'[v].retryCount = 0
                    /\ job'[v].id \in Kept => row'[job'[v].id].status # "pending"
               /\ pc'[v] = "retrying" =>
                    /\ job'[v].retryCount # 0
                    /\ job'[v].id \in Kept =>
                         Cardinality(RetryingEvents(feed'[job'[v].id])) < row'[job'[v].id].retryCount
    BY <1>1, <1>2, <2>1 DEF FeedFresh
  <2> QED BY <1>1, <2>2, <2>3 DEF FeedFresh, Kept
<1> QED BY <1>3, <1>4, <1>5

LEMMA PoolFeed == PoolSpec => []FeedInv
<1>1. PoolInit => FeedInv
  <2> SUFFICES ASSUME PoolInit
               PROVE  FeedRows /\ FeedOpen /\ FeedFresh
    BY DEF FeedInv
  <2>1. FeedOK(<<>>, NoTransfer) /\ Cardinality(RetryingEvents(<<>>)) <= NoTransfer.retryCount
    <3>1. RetryingEvents(<<>>) = {} /\ NoTransfer.retryCount = 0
      BY DEF RetryingEvents, NewTransfer, NoTransfer
    <3> QED BY <3>1, FS_EmptySet DEF FeedOK
  <2>2. FeedRows
    BY <2>1 DEF PoolInit, FeedRows
  <2>3. FeedOpen /\ FeedFresh
    <3>1. \A t : t \notin Owned
      BY OwnedMember DEF PoolInit, Busy
    <3> QED BY <3>1 DEF PoolInit, FeedOpen, FeedFresh
  <2> QED BY <2>2, <2>3
<1>2. PoolTypeOK /\ OwnershipInv /\ RecordInv /\ CarryInv /\ FeedInv /\ [PoolNext]_poolVars => FeedInv'
  <2> SUFFICES ASSUME PoolTypeOK, OwnershipInv, RecordInv, CarryInv, FeedRows, FeedOpen, FeedFresh,
                      [PoolNext]_poolVars
               PROVE  FeedRows' /\ FeedOpen' /\ FeedFresh'
    BY DEF FeedInv
  <2>1. CASE \E w \in Workers : WorkerStep(w) \/ MinioAnswers(w)
    BY <2>1, FeedWritten, FeedAnnounced, FeedMoved DEF WorkerStep
  <2>2. CASE \/ \E j \in timers : RetryTimer(j)
             \/ Signal \/ CommitBatch \/ Shutdown \/ Exited \/ UNCHANGED poolVars
    BY <2>2, FeedMoved DEF Exited
  <2>3. CASE \E t \in Transfers : Submit(t)
    BY <2>3, FeedSubmitted
  <2>4. CASE \E t \in Transfers : AnnounceSubmitted(t)
    BY <2>4, FeedQueued
  <2> QED BY <2>1, <2>2, <2>3, <2>4 DEF PoolNext, PoolStep
<1> QED BY <1>1, <1>2, PoolInvariants, PoolCarry, PTL DEF PoolSpec

\* What a worker tells the dashboard of a transfer is already written and answered
\* (its commit may be still to come), its final event comes once, no event of a
\* worker follows it and no retry is announced twice.  The submitter's "queued" is
\* announced without a lock and may come before, between or after them.
THEOREM PoolEventsFollowRow == PoolSpec => []EventsFollowRow
<1>1. FeedInv => EventsFollowRow
  BY DEF FeedInv, FeedRows, FeedOK, EventsFollowRow, LastOfWorker, QueuedUpTo, QueuedAfter, Kept
<1> QED BY <1>1, PoolFeed, PTL
=============================================================================
