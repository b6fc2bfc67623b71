--------------------------- MODULE TransferManager ---------------------------
(***************************************************************************)
(* The transfer worker pool: internal/transfer/manager.go and worker.go.   *)
(*                                                                         *)
(* Workers sleep on a condition variable, pop the head of an unbounded     *)
(* queue and copy one object from the source MinIO to the destination      *)
(* MinIO.  A failed copy is retried from a timer until the retry budget is *)
(* spent.  The transfer is a heap record (mem) shared through a pointer by *)
(* the job in the queue, the worker and the timer; its database row (row)  *)
(* is only what the last UpdateTransfer that succeeded wrote.  The writer  *)
(* answers a statement inside its open transaction: the caller goes on,    *)
(* while every other connection reads the committed table (table).         *)
(*                                                                         *)
(* A lock-protected section is one step.  Signal and Broadcast run after   *)
(* the unlock and are steps of their own.                                  *)
(***************************************************************************)
EXTENDS Integers, Sequences, FiniteSets

CONSTANTS
    Workers,             \* the worker goroutines (Transfer.WorkerPoolSize)
    Transfers,           \* transfer ids
    MaxRetries,          \* job.MaxRetries of each transfer
    BroadcastThrottle,   \* broadcastThrottle: no events above this depth
    NoJob,               \* a worker outside process() holds none
    UpdateMayFail        \* transfers whose UpdateTransfer may fail (it is only logged)

ASSUME WorkersFinite == IsFiniteSet(Workers)
ASSUME MaxRetriesNat == MaxRetries \in [Transfers -> Nat]
ASSUME ThrottleInt   == BroadcastThrottle \in Int
ASSUME MayFailSubset == UpdateMayFail \subseteq Transfers

VARIABLES
    queue,     \* manager.queue
    closed,    \* manager.closed
    signals,   \* Enqueue calls that released the lock and have yet to Signal
    pc, job,   \* each worker's position and the job it holds
    timers,    \* pending time.AfterFunc callbacks, each with its job
    mem,       \* the Transfer records on the heap
    row,       \* the rows of table transfers as the writer's transaction has them
    table,     \* the rows as committed: what every reader sees
    feed,      \* events handed to the hub, per transfer
    main       \* where main() is in its shutdown sequence

poolVars == <<queue, closed, signals, pc, job, timers, mem, row, table, feed, main>>

-----------------------------------------------------------------------------
\* Values

Active   == {"pending", "in_progress", "retrying"}
Terminal == {"success", "failed"}
Status   == Active \union Terminal

\* A Transfer.  Times, sizes and messages are kept as "is it set".
Transfer == [status : Status \union {"absent"}, retryCount : Nat,
             errorMessage : BOOLEAN, startedAt : BOOLEAN, completedAt : BOOLEAN,
             nextRetryAt : BOOLEAN, transferred : BOOLEAN]

NewTransfer == [status |-> "pending", retryCount |-> 0, errorMessage |-> FALSE,
                startedAt |-> FALSE, completedAt |-> FALSE,
                nextRetryAt |-> FALSE, transferred |-> FALSE]

NoTransfer == [NewTransfer EXCEPT !.status = "absent"]

TransferJob == [id : Transfers, retryCount : Nat]

Events == {"queued", "started", "completed", "retrying", "failed"}

\* A worker's positions: outside process(), and inside it.
Idle == {"lock", "wait", "exited"}
Busy == {"process", "started", "get", "put", "success", "completed",
         "error", "retrying", "failed"}

\* main(): running, ctx cancelled and HTTP draining, then the steps of Stop.
Phases == {"run", "drain", "broadcast", "wait", "exited"}

Up        == main # "exited"
Cancelled == main # "run"      \* the ctx given to Start is the signal context

\* The transfers that have a row.
Created == {t \in Transfers : row[t].status # "absent"}

-----------------------------------------------------------------------------
\* Building blocks

\* Variant: the Signal is forgotten.
EnqueueUnsignalled(j) == queue' = Append(queue, j) /\ signals' = signals

\* Enqueue up to its Unlock.  The Signal is still to come.
Enqueue(j) ==
    /\ queue' = Append(queue, j)
    /\ signals' = signals + 1

\* t is changed on the heap, then UpdateTransfer executes and is answered.  Its
\* batch was begun after the one with t's previous write had committed, and has
\* yet to commit.  On an error, and when that commit is not going to succeed,
\* the row keeps what it had.
UpdateTransfer(t, new) ==
    /\ row[t] = table[t]
    /\ mem' = [mem EXCEPT ![t] = new]
    /\ \/ row' = [row EXCEPT ![t] = new]
       \/ t \in UpdateMayFail /\ row' = row

\* broadcast(): per-transfer events only while the queue is short.
Broadcast(t, event) ==
    feed' = IF Len(queue) <= BroadcastThrottle
            THEN [feed EXCEPT ![t] = Append(@, event)]
            ELSE feed

\* The fields each step of a transfer's life assigns, all others kept.
MarkInProgress(r) == [r EXCEPT !.status = "in_progress", !.startedAt = TRUE]

MarkSuccess(r) == [r EXCEPT !.status = "success", !.completedAt = TRUE,
                            !.transferred = TRUE]

MarkRetrying(r, n) == [r EXCEPT !.status = "retrying", !.retryCount = n,
                                !.errorMessage = TRUE, !.nextRetryAt = TRUE]

MarkFailed(r) == [r EXCEPT !.status = "failed", !.errorMessage = TRUE,
                           !.completedAt = TRUE]

\* Variant: NextRetryAt is not cleared.
ResetStatusOnly(r) == [r EXCEPT !.status = "pending", !.errorMessage = FALSE,
                                !.startedAt = FALSE, !.completedAt = FALSE]

ResetForRetry(r) == [r EXCEPT !.status = "pending", !.errorMessage = FALSE,
                              !.startedAt = FALSE, !.completedAt = FALSE,
                              !.nextRetryAt = FALSE]

Goto(w, from, to) == pc[w] = from /\ pc' = [pc EXCEPT ![w] = to]

\* process() returns and the job goes out of scope.
Return(w, from) == Goto(w, from, "lock") /\ job' = [job EXCEPT ![w] = NoJob]

-----------------------------------------------------------------------------
\* The worker loop of Start

Take(w) ==
    /\ Goto(w, "lock", "process")
    /\ queue # <<>>
    /\ job' = [job EXCEPT ![w] = Head(queue)]
    /\ queue' = Tail(queue)
    /\ UNCHANGED <<closed, signals, timers, mem, row, table, feed, main>>

\* cond.Wait: joins the waiters before the lock is released.
Wait(w) ==
    /\ Goto(w, "lock", "wait")
    /\ queue = <<>> /\ ~closed
    /\ UNCHANGED <<queue, closed, signals, job, timers, mem, row, table, feed, main>>

Exit(w) ==
    /\ Goto(w, "lock", "exited")
    /\ queue = <<>> /\ closed
    /\ UNCHANGED <<queue, closed, signals, job, timers, mem, row, table, feed, main>>

-----------------------------------------------------------------------------
\* process

StartFirstAttempt(w) ==
    /\ Goto(w, "process", "started")
    /\ job[w].retryCount = 0
    /\ UpdateTransfer(job[w].id, MarkInProgress(mem[job[w].id]))
    /\ UNCHANGED <<queue, closed, signals, job, timers, table, feed, main>>

\* Variant: a retry is announced like a first attempt.
StartRetryAnnounced(w) ==
    /\ Goto(w, "process", "started")
    /\ job[w].retryCount > 0
    /\ UNCHANGED <<queue, closed, signals, job, timers, mem, row, table, feed, main>>

StartRetry(w) ==
    /\ Goto(w, "process", "get")
    /\ job[w].retryCount > 0
    /\ UNCHANGED <<queue, closed, signals, job, timers, mem, row, table, feed, main>>

AnnounceStarted(w) ==
    /\ Goto(w, "started", "get")
    /\ Broadcast(job[w].id, "started")
    /\ UNCHANGED <<queue, closed, signals, job, timers, mem, row, table, main>>

\* doTransfer.  The calls carry ctx: once it is cancelled a download cannot
\* begin; an upload under way may still be answered.
GetOk(w) ==
    /\ Goto(w, "get", "put")
    /\ ~Cancelled
    /\ UNCHANGED <<queue, closed, signals, job, timers, mem, row, table, feed, main>>

GetErr(w) ==
    /\ Goto(w, "get", "error")
    /\ UNCHANGED <<queue, closed, signals, job, timers, mem, row, table, feed, main>>

PutOk(w) ==
    /\ Goto(w, "put", "success")
    /\ UNCHANGED <<queue, closed, signals, job, timers, mem, row, table, feed, main>>

PutErr(w) ==
    /\ Goto(w, "put", "error")
    /\ UNCHANGED <<queue, closed, signals, job, timers, mem, row, table, feed, main>>

Succeed(w) ==
    /\ Goto(w, "success", "completed")
    /\ UpdateTransfer(job[w].id, MarkSuccess(mem[job[w].id]))
    /\ UNCHANGED <<queue, closed, signals, job, timers, table, feed, main>>

AnnounceCompleted(w) ==
    /\ Return(w, "completed")
    /\ Broadcast(job[w].id, "completed")
    /\ UNCHANGED <<queue, closed, signals, timers, mem, row, table, main>>

\* scheduleRetry works on its own copy of the job: job.RetryCount++.
NextAttempt(j) == [j EXCEPT !.retryCount = @ + 1]

\* Variant: one retry too many.
ScheduleRetryOffByOne(w) ==
    /\ Goto(w, "error", "retrying")
    /\ job[w].retryCount <= MaxRetries[job[w].id]
    /\ job' = [job EXCEPT ![w] = NextAttempt(@)]
    /\ UpdateTransfer(job[w].id, MarkRetrying(mem[job[w].id],
                                             job[w].retryCount + 1))
    /\ UNCHANGED <<queue, closed, signals, timers, table, feed, main>>

\* Variant: the job is let go before the timer has it.
ScheduleRetryForgets(w) ==
    /\ Goto(w, "error", "retrying")
    /\ job[w].retryCount < MaxRetries[job[w].id]
    /\ job' = [job EXCEPT ![w] = NoJob]
    /\ UpdateTransfer(job[w].id, MarkRetrying(mem[job[w].id],
                                             job[w].retryCount + 1))
    /\ UNCHANGED <<queue, closed, signals, timers, table, feed, main>>

\* scheduleRetry up to and including its UpdateTransfer.
ScheduleRetry(w) ==
    /\ Goto(w, "error", "retrying")
    /\ job[w].retryCount < MaxRetries[job[w].id]
    /\ job' = [job EXCEPT ![w] = NextAttempt(@)]
    /\ UpdateTransfer(job[w].id, MarkRetrying(mem[job[w].id],
                                             job[w].retryCount + 1))
    /\ UNCHANGED <<queue, closed, signals, timers, table, feed, main>>

\* Variant: no timer once the shutdown began.
ArmUnlessCancelled(w) ==
    /\ Return(w, "retrying")
    /\ Broadcast(job[w].id, "retrying")
    /\ timers' = IF Cancelled THEN timers ELSE timers \union {job[w]}
    /\ UNCHANGED <<queue, closed, signals, mem, row, table, main>>

\* The rest of scheduleRetry: the event, then the timer that owns the job.
ArmRetryTimer(w) ==
    /\ Return(w, "retrying")
    /\ Broadcast(job[w].id, "retrying")
    /\ timers' = timers \union {job[w]}
    /\ UNCHANGED <<queue, closed, signals, mem, row, table, main>>

\* Variant: the failure is announced but not written.
FailUnrecorded(w) ==
    /\ Goto(w, "error", "failed")
    /\ job[w].retryCount >= MaxRetries[job[w].id]
    /\ mem' = [mem EXCEPT ![job[w].id] = MarkFailed(@)]
    /\ UNCHANGED <<queue, closed, signals, job, timers, row, table, feed, main>>

Fail(w) ==
    /\ Goto(w, "error", "failed")
    /\ job[w].retryCount >= MaxRetries[job[w].id]
    /\ UpdateTransfer(job[w].id, MarkFailed(mem[job[w].id]))
    /\ UNCHANGED <<queue, closed, signals, job, timers, table, feed, main>>

AnnounceFailed(w) ==
    /\ Return(w, "failed")
    /\ Broadcast(job[w].id, "failed")
    /\ UNCHANGED <<queue, closed, signals, timers, mem, row, table, main>>

-----------------------------------------------------------------------------
\* Timers, signals, and the callers of the pool

\* Variant: a ticker in place of a one-shot timer.
RetryTicker(j) ==
    /\ Up
    /\ j \in timers
    /\ mem' = [mem EXCEPT ![j.id] = ResetForRetry(@)]
    /\ Enqueue(j)
    /\ UNCHANGED <<closed, pc, job, timers, row, table, feed, main>>

\* The AfterFunc callback: resets the heap record (not the row), enqueues.
RetryTimer(j) ==
    /\ Up
    /\ j \in timers
    /\ timers' = timers \ {j}
    /\ mem' = [mem EXCEPT ![j.id] = ResetForRetry(@)]
    /\ Enqueue(j)
    /\ UNCHANGED <<closed, pc, job, row, table, feed, main>>

\* cond.Signal of one Enqueue: wakes one waiter, or nobody if none waits.
Signal ==
    /\ Up
    /\ signals > 0
    /\ signals' = signals - 1
    /\ \/ \E w \in Workers : Goto(w, "wait", "lock")
       \/ (\A w \in Workers : pc[w] # "wait") /\ pc' = pc
    /\ UNCHANGED <<queue, closed, job, timers, mem, row, table, feed, main>>

\* A client of the pool: inserts a new transfer and enqueues its job.
Submit(t) ==
    /\ Up
    /\ t \notin Created
    /\ row' = [row EXCEPT ![t] = NewTransfer]
    /\ mem' = [mem EXCEPT ![t] = NewTransfer]
    /\ Enqueue([id |-> t, retryCount |-> 0])
    /\ UNCHANGED <<closed, pc, job, timers, table, feed, main>>

\* The same client's event, once the job is in the queue and at most once; a
\* worker may have finished the job by then.  An event the throttle drops
\* leaves no trace.
AnnounceSubmitted(t) ==
    /\ Up
    /\ t \in Created
    /\ \A i \in 1..Len(feed[t]) : feed[t][i] # "queued"
    /\ Broadcast(t, "queued")
    /\ UNCHANGED <<queue, closed, signals, pc, job, timers, mem, row, table, main>>

\* The writer commits the batch whose statements it has answered.
CommitBatch ==
    /\ Up
    /\ table # row
    /\ table' = row
    /\ UNCHANGED <<queue, closed, signals, pc, job, timers, mem, row, feed, main>>

\* SIGTERM, or a server that could not go on: ctx is cancelled and main stops
\* waiting for it.
Terminate ==
    /\ main = "run"
    /\ main' = "drain"
    /\ UNCHANGED <<queue, closed, signals, pc, job, timers, mem, row, table, feed>>

\* After srv.Shutdown returned (drained, or timed out): Stop.
StopClose ==
    /\ main = "drain"
    /\ main' = "broadcast"
    /\ closed' = TRUE
    /\ UNCHANGED <<queue, signals, pc, job, timers, mem, row, table, feed>>

\* Variant: Stop wakes one worker.
StopSignal ==
    /\ main = "broadcast"
    /\ main' = "wait"
    /\ \/ \E w \in Workers : Goto(w, "wait", "lock")
       \/ (\A w \in Workers : pc[w] # "wait") /\ pc' = pc
    /\ UNCHANGED <<queue, closed, signals, job, timers, mem, row, table, feed>>

StopBroadcast ==
    /\ main = "broadcast"
    /\ main' = "wait"
    /\ pc' = [w \in Workers |-> IF pc[w] = "wait" THEN "lock" ELSE pc[w]]
    /\ UNCHANGED <<queue, closed, signals, job, timers, mem, row, table, feed>>

\* wg.Wait returns, main's deferred store.Close lets the writer commit what is
\* left, main returns and the process is gone with its memory.
StopReturn ==
    /\ main = "wait"
    /\ \A w \in Workers : pc[w] = "exited"
    /\ main' = "exited"
    /\ table' = row
    /\ UNCHANGED <<queue, closed, signals, pc, job, timers, mem, row, feed>>

\* Nothing runs after the process exited.
Exited == main = "exited" /\ UNCHANGED poolVars

-----------------------------------------------------------------------------

PoolInit ==
    /\ queue = <<>> /\ closed = FALSE /\ signals = 0
    /\ pc = [w \in Workers |-> "lock"]
    /\ job = [w \in Workers |-> NoJob]
    /\ timers = {}
    /\ mem = [t \in Transfers |-> NoTransfer]
    /\ row = [t \in Transfers |-> NoTransfer] /\ table = row
    /\ feed = [t \in Transfers |-> <<>>]
    /\ main = "run"

\* The steps a worker takes by itself, and those MinIO answers.
WorkerStep(w) ==
    \/ Take(w) \/ Wait(w) \/ Exit(w)
    \/ StartFirstAttempt(w) \/ StartRetry(w) \/ AnnounceStarted(w)
    \/ Succeed(w) \/ AnnounceCompleted(w)
    \/ ScheduleRetry(w) \/ ArmRetryTimer(w)
    \/ Fail(w) \/ AnnounceFailed(w)

MinioAnswers(w) == GetOk(w) \/ GetErr(w) \/ PutOk(w) \/ PutErr(w)

Shutdown == Terminate \/ StopClose \/ StopBroadcast \/ StopReturn

\* Everything the pool does once a job is enqueued.
PoolStep ==
    \/ \E w \in Workers : WorkerStep(w) \/ MinioAnswers(w)
    \/ \E j \in timers : RetryTimer(j)
    \/ Signal
    \/ CommitBatch
    \/ Shutdown

PoolNext ==
    \/ PoolStep
    \/ \E t \in Transfers : Submit(t) \/ AnnounceSubmitted(t)
    \/ Exited

PoolSpec == PoolInit /\ [][PoolNext]_poolVars

-----------------------------------------------------------------------------
\* Properties

\* Every variable has its type, and a worker inside process() holds a job.
PoolTypeOK ==
    /\ queue \in Seq(TransferJob)
    /\ closed \in BOOLEAN
    /\ signals \in Nat
    /\ pc \in [Workers -> Idle \union Busy]
    /\ job \in [Workers -> TransferJob \union {NoJob}]
    /\ \A w \in Workers : pc[w] \in Busy => job[w] \in TransferJob
    /\ timers \subseteq TransferJob
    /\ mem \in [Transfers -> Transfer]
    /\ row \in [Transfers -> Transfer] /\ table \in [Transfers -> Transfer]
    /\ feed \in [Transfers -> Seq(Events)]
    /\ main \in Phases

\* Where the jobs of transfers can be.
Queued  == {queue[i].id : i \in 1..Len(queue)}
Held    == {job[w].id : w \in {v \in Workers : pc[v] \in Busy}}
Delayed == {j.id : j \in timers}
Owned   == Queued \union Held \union Delayed

QueuedOnce  == \A i, j \in 1..Len(queue) : queue[i].id = queue[j].id => i = j
HeldOnce    == \A w, v \in Workers :
                 pc[w] \in Busy /\ pc[v] \in Busy /\ job[w].id = job[v].id => w = v
DelayedOnce == \A j, k \in timers : j.id = k.id => j = k
OnePlace    == /\ Queued \intersect Held = {}
               /\ Queued \intersect Delayed = {}
               /\ Held \intersect Delayed = {}

\* The heap record of a transfer is shared by pointer and not locked: what
\* keeps two goroutines from writing it at once is that its job is in at most
\* one place - one queue slot, one worker, or one retry timer.
OneOwner == QueuedOnce /\ HeldOnce /\ DelayedOnce /\ OnePlace

\* No wakeup is lost between Enqueue's Unlock and its Signal: while a worker
\* sleeps, every queued job has a Signal on its way or a worker about to look
\* at the queue; and a sleeper that outlives Stop's close has Stop's Broadcast
\* still ahead of it.
NoLostWakeup ==
    (\E w \in Workers : pc[w] = "wait") =>
        /\ Len(queue) <= signals + Cardinality({w \in Workers : pc[w] = "lock"})
        /\ closed => main = "broadcast"

\* While the process is up, a transfer that is not finished is in the hands of
\* the pool: no path through process() drops a job.
ActiveIsOwned ==
    Up => \A t \in Transfers :
            \/ mem[t].status \in Active
            \/ row[t].status \in Active /\ t \notin UpdateMayFail
            => t \in Owned

Coherent(r) ==
    /\ r.errorMessage <=> r.status \in {"retrying", "failed"}
    /\ r.nextRetryAt  <=> r.status = "retrying"
    /\ r.completedAt  <=> r.status \in Terminal
    /\ r.transferred  <=> r.status = "success"

\* The row's error, retry time, completion time and byte count are those of
\* its status, for the writer and for every reader, although scheduleRetry, the
\* timer and process() each reset only some of them and an UpdateTransfer in
\* between may be lost.
RowCoherent == \A t \in Transfers : Coherent(row[t]) /\ Coherent(table[t])

WithinBudget(r, t) ==
    /\ r.retryCount <= MaxRetries[t]
    /\ r.status = "failed" => r.retryCount = MaxRetries[t]

\* A transfer is given up exactly when its retries are spent, and the retry
\* count in the row never exceeds the budget.
RetryBudget ==
    \A t \in Transfers : WithinBudget(row[t], t) /\ WithinBudget(table[t], t)

\* Nothing but the submitter's late event comes after position i of t's events.
LastOfWorker(t, i) == \A k \in i + 1..Len(feed[t]) : feed[t][k] = "queued"

\* A dashboard event tells what the writer has already written and answered (its
\* commit may be still to come): the worker's first event is "started" or the
\* copy needs none, a final event comes once and no event of a worker follows
\* it, and there is one "retrying" event per counted retry at most.  Only the
\* submitter's "queued" may come anywhere, also after the final one.
EventsFollowRow ==
    \A t \in Transfers \ UpdateMayFail : \A i \in 1..Len(feed[t]) :
      /\ feed[t][i] = "started" =>
           /\ \A k \in 1..i - 1 : feed[t][k] = "queued"
           /\ row[t].status # "pending"
      /\ feed[t][i] = "completed" => LastOfWorker(t, i) /\ row[t].status = "success"
      /\ feed[t][i] = "failed" => LastOfWorker(t, i) /\ row[t].status = "failed"
      /\ Cardinality({k \in 1..i : feed[t][k] = "retrying"}) <= row[t].retryCount

\* What a reader has seen finished is final: no late retry timer, no second
\* worker and no lost update reopens it, neither in the table nor in a batch that
\* is open.
TerminalIsFinal ==
    [][\A t \in Transfers : table[t].status \in Terminal =>
           table'[t] = table[t] /\ row'[t] = table[t]]_poolVars

\* Unless the process is told to stop, every transfer handed to the pool ends
\* as success or failed in the committed table.
EveryTransferFinishes ==
    \A t \in Transfers :
        t \in Created ~> (table[t].status \in Terminal \/ Cancelled)

\* Once SIGTERM arrives, Stop returns: every worker, asleep or busy, exits.
StopCompletes == Cancelled ~> ~Up

-----------------------------------------------------------------------------
\* The invariants that make the ones above inductive

\* A job exists only for a transfer whose row exists, so that a new transfer
\* cannot meet an old job.
OwnedHasRow == Owned \subseteq Created

OwnershipInv == OneOwner /\ OwnedHasRow

Unfinished == Busy \ {"retrying", "completed", "failed"}

\* The heap record says where its job is, and the job's copy of the retry
\* count is the record's.
JobsCurrent ==
    /\ \A i \in 1..Len(queue) :
          /\ mem[queue[i].id].status = "pending"
          /\ mem[queue[i].id].retryCount = queue[i].retryCount
    /\ \A j \in timers :
          /\ mem[j.id].status = "retrying"
          /\ mem[j.id].retryCount = j.retryCount
    /\ \A w \in Workers : pc[w] \in Busy =>
          LET m == mem[job[w].id] IN
          /\ m.retryCount = job[w].retryCount
          /\ pc[w] \in Unfinished => m.status \in {"pending", "in_progress"}
          /\ pc[w] = "retrying"  => m.status = "retrying"
          /\ pc[w] = "completed" => m.status = "success"
          /\ pc[w] = "failed"    => m.status = "failed"

MemCoherent == \A t \in Transfers : Coherent(mem[t]) /\ WithinBudget(mem[t], t)

\* Whoever is still going to work on a transfer finds its row unfinished.
LiveRowIsActive ==
    /\ \A i \in 1..Len(queue) : row[queue[i].id].status \in Active
    /\ \A j \in timers : row[j.id].status \in Active
    /\ \A w \in Workers : pc[w] \in Unfinished \union {"retrying"} =>
                              row[job[w].id].status \in Active

\* A reader is never ahead of the writer: what it sees finished is final for the
\* writer too, and what it sees at all the writer has inserted.
TableIsBehind ==
    \A t \in Transfers :
        /\ table[t].status \in Terminal => row[t] = table[t]
        /\ table[t].status # "absent" => t \in Created

RecordInv ==
    /\ JobsCurrent /\ MemCoherent /\ LiveRowIsActive /\ RowCoherent /\ RetryBudget
    /\ TableIsBehind
=============================================================================
