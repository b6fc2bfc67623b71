------------------------------ MODULE Gateway -------------------------------
(***************************************************************************)
(* From a MinIO notification to the copied object: the webhook handler's   *)
(* record loop (internal/webhook/handler.go), its in-memory deduper        *)
(* (dedup.go) and the database check behind it (HasActiveTransfer), on top *)
(* of the worker pool of TransferManager, with restarts of the process.    *)
(*                                                                         *)
(* Only one app is modelled: every query and every dedup key is prefixed   *)
(* with the app's id, so apps do not meet in this code.  The requests are  *)
(* those that passed routing, authentication and parsing.                  *)
(***************************************************************************)
EXTENDS TransferManager

CONSTANTS
    Handlers,       \* request goroutines
    Keys,           \* object keys
    RawKeys,        \* object keys as a notification spells them
    Unescape,       \* url.PathUnescape, falling back to the raw key
    MaxPuts,        \* bound: uploads to the source bucket
    MaxBatch,       \* bound: records in one notification
    MaxRestarts,    \* bound: crashes and restarts of the process
    None,           \* no notification, no transfer id
    CreateMayFail,  \* may CreateTransfer return an error?
    ReadMayFail,    \* may HasActiveTransfer return an error?
    MayTerminate,   \* is the process sent a SIGTERM?
    MayCrash,       \* may the process die without one?
    SlowHandler     \* may a handler outlast the dedup window before it INSERTs,
                    \* or the 30 seconds srv.Shutdown waits for it?

ASSUME UnescapeMaps == Unescape \in [RawKeys -> Keys]
ASSUME BoundsNat    == MaxPuts \in Nat /\ MaxBatch \in Nat \ {0} /\ MaxRestarts \in Nat
ASSUME FlagsBool    ==
    {CreateMayFail, ReadMayFail, MayTerminate, MayCrash, SlowHandler} \subseteq BOOLEAN

VARIABLES
    hpc, batch, pos, \* each handler's position, event.Records, loop index
    tid,             \* the id of the transfer it is creating
    seen,            \* deduper.entries: the keys inside the dedup window
    of,              \* the notification each transfer row was created for
    outbox, acked,   \* MinIO's undelivered and its accepted notifications
    src, dst, got,   \* object versions: source, destination, download in hand
    restarts

gateVars == <<hpc, batch, pos, tid, seen, of, outbox, acked, src, dst, got, restarts>>
vars     == <<poolVars, gateVars>>

-----------------------------------------------------------------------------

Event == [raw : RawKeys, ver : 1..MaxPuts]

ASSUME NoneApart == None \notin Event

KeyOf(e)  == Unescape[e.raw]
RowKey(t) == KeyOf(of[t])

\* The transfers that were ever given an id, also if a crash took their row.
Begun == {t \in Transfers : of[t] # None}

\* Variant: only pending rows count.
HasPendingTransfer(k) ==
    \E t \in Begun : RowKey(t) = k /\ table[t].status = "pending"

\* HasActiveTransfer: a pending, in_progress or retrying row of this key has been
\* committed.
HasActiveTransfer(k) ==
    \E t \in Begun : RowKey(t) = k /\ table[t].status \in Active

\* An INSERT of this key was answered and has not committed.
Inserting(k) ==
    \E t \in Begun : RowKey(t) = k /\ t \in Created /\ table[t].status = "absent"

HandlerPC == {"free", "record", "check", "create", "enqueue", "announce"}

\* The record the loop is at, if any is left.
More(h) == pos[h] <= Len(batch[h])
Rec(h)  == batch[h][pos[h]]

HGoto(h, from, to) == Up /\ hpc[h] = from /\ hpc' = [hpc EXCEPT ![h] = to]

\* continue: on to the next record.
NextRecord(h) == pos' = [pos EXCEPT ![h] = @ + 1]

-----------------------------------------------------------------------------
\* The handler

\* Variant: the loop starts at the second record.
ReceiveFromSecond(h) ==
    /\ main = "run"
    /\ HGoto(h, "free", "record")
    /\ \E n \in 1..MaxBatch : \E records \in [1..n -> outbox] :
         batch' = [batch EXCEPT ![h] = records]
    /\ pos' = [pos EXCEPT ![h] = 2]
    /\ UNCHANGED <<poolVars, tid, seen, of, outbox, acked, src, dst, got, restarts>>

\* ServeHTTP is entered with a batch of notifications.  The listener is
\* closed once the shutdown began.
Receive(h) ==
    /\ main = "run"
    /\ HGoto(h, "free", "record")
    /\ \E n \in 1..MaxBatch : \E records \in [1..n -> outbox] :
         batch' = [batch EXCEPT ![h] = records]
    /\ pos' = [pos EXCEPT ![h] = 1]
    /\ UNCHANGED <<poolVars, tid, seen, of, outbox, acked, src, dst, got, restarts>>

\* IsDuplicate: test and mark under the deduper's lock.
SkipDuplicate(h) ==
    /\ HGoto(h, "record", "record")
    /\ More(h) /\ KeyOf(Rec(h)) \in seen
    /\ NextRecord(h)
    /\ UNCHANGED <<poolVars, batch, tid, seen, of, outbox, acked, src, dst, got, restarts>>

\* Variant: the key is tested but not marked.
TestUnmarked(h) ==
    /\ HGoto(h, "record", "check")
    /\ More(h) /\ KeyOf(Rec(h)) \notin seen
    /\ UNCHANGED <<poolVars, batch, pos, tid, seen, of, outbox, acked, src, dst, got,
                   restarts>>

MarkSeen(h) ==
    /\ HGoto(h, "record", "check")
    /\ More(h) /\ KeyOf(Rec(h)) \notin seen
    /\ seen' = seen \union {KeyOf(Rec(h))}
    /\ UNCHANGED <<poolVars, batch, pos, tid, of, outbox, acked, src, dst, got, restarts>>

SkipActive(h) ==
    /\ HGoto(h, "check", "record")
    /\ HasActiveTransfer(KeyOf(Rec(h)))
    /\ NextRecord(h)
    /\ UNCHANGED <<poolVars, batch, tid, seen, of, outbox, acked, src, dst, got, restarts>>

\* The check's error is discarded and its answer is then false.
NoActive(h) ==
    /\ HGoto(h, "check", "create")
    /\ ~HasActiveTransfer(KeyOf(Rec(h))) \/ ReadMayFail
    /\ UNCHANGED <<poolVars, batch, pos, tid, seen, of, outbox, acked, src, dst, got, restarts>>

\* CreateTransfer with a fresh uuid.
CreateTransfer(h) ==
    /\ HGoto(h, "create", "enqueue")
    /\ \E t \in Transfers \ Begun :
         /\ tid' = [tid EXCEPT ![h] = t]
         /\ of'  = [of EXCEPT ![t] = Rec(h)]
         /\ row' = [row EXCEPT ![t] = NewTransfer]
         /\ mem' = [mem EXCEPT ![t] = NewTransfer]
    /\ UNCHANGED <<queue, closed, signals, pc, job, timers, table, feed, main,
                   batch, pos, seen, outbox, acked, src, dst, got, restarts>>

\* The request is over; its goroutine is gone.
Finish(h) ==
    /\ batch' = [batch EXCEPT ![h] = <<>>]
    /\ pos' = [pos EXCEPT ![h] = 1]

\* CreateTransfer fails: 500, and the records that are left are not looked at.
CreateFails(h) ==
    /\ CreateMayFail
    /\ HGoto(h, "create", "free")
    /\ Finish(h)
    /\ UNCHANGED <<poolVars, tid, seen, of, outbox, acked, src, dst, got, restarts>>

\* Variant: the id is gone before the event is sent.
EnqueueForgets(h) ==
    /\ HGoto(h, "enqueue", "announce")
    /\ Enqueue([id |-> tid[h], retryCount |-> 0])
    /\ tid' = [tid EXCEPT ![h] = None]
    /\ UNCHANGED <<closed, pc, job, timers, mem, row, table, feed, main,
                   batch, pos, seen, of, outbox, acked, src, dst, got, restarts>>

EnqueueJob(h) ==
    /\ HGoto(h, "enqueue", "announce")
    /\ Enqueue([id |-> tid[h], retryCount |-> 0])
    /\ UNCHANGED <<closed, pc, job, timers, mem, row, table, feed, main,
                   batch, pos, tid, seen, of, outbox, acked, src, dst, got, restarts>>

AnnounceQueued(h) ==
    /\ HGoto(h, "announce", "record")
    /\ Broadcast(tid[h], "queued")
    /\ tid' = [tid EXCEPT ![h] = None]
    /\ NextRecord(h)
    /\ UNCHANGED <<queue, closed, signals, pc, job, timers, mem, row, table, main,
                   batch, seen, of, outbox, acked, src, dst, got, restarts>>

\* 202 Accepted for the whole batch.  MinIO gets the answer and forgets the
\* notifications, or does not (timeout, lost connection) and will send again.
Accept(h) ==
    /\ HGoto(h, "record", "free")
    /\ ~More(h)
    /\ Finish(h)
    /\ LET events == {batch[h][i] : i \in 1..Len(batch[h])} IN
       \/ /\ outbox' = outbox \ events
          /\ acked' = acked \union events
       \/ UNCHANGED <<outbox, acked>>
    /\ UNCHANGED <<poolVars, tid, seen, of, src, dst, got, restarts>>

\* time.Since(t) >= window: the entry is treated as absent (and swept later).
Expire(k) ==
    /\ Up /\ k \in seen
    /\ SlowHandler \/ /\ ~Inserting(k)
                      /\ \A h \in Handlers :
                           hpc[h] \in {"check", "create"} => KeyOf(Rec(h)) # k
    /\ seen' = seen \ {k}
    /\ UNCHANGED <<poolVars, hpc, batch, pos, tid, of, outbox, acked, src, dst, got,
                   restarts>>

HandlerStep(h) ==
    \/ SkipDuplicate(h) \/ MarkSeen(h) \/ SkipActive(h) \/ NoActive(h)
    \/ CreateTransfer(h) \/ CreateFails(h) \/ EnqueueJob(h) \/ AnnounceQueued(h)
    \/ Accept(h)

-----------------------------------------------------------------------------
\* MinIO and the pool's copies

\* An upload to the source bucket; MinIO queues its notification.
Put(raw) ==
    LET k == Unescape[raw] IN
    /\ Cardinality(outbox \union acked) < MaxPuts
    /\ src' = [src EXCEPT ![k] = @ + 1]
    /\ outbox' = outbox \union {[raw |-> raw, ver |-> src[k] + 1]}
    /\ UNCHANGED <<poolVars, hpc, batch, pos, tid, seen, of, acked, dst, got, restarts>>

\* GetObject opens whatever version the source has by now.
Download(w) ==
    /\ GetOk(w)
    /\ got' = [got EXCEPT ![w] = src[RowKey(job[w].id)]]
    /\ UNCHANGED <<hpc, batch, pos, tid, seen, of, outbox, acked, src, dst, restarts>>

Upload(w) ==
    /\ PutOk(w)
    /\ dst' = [dst EXCEPT ![RowKey(job[w].id)] = got[w]]
    /\ got' = [got EXCEPT ![w] = 0]
    /\ UNCHANGED <<hpc, batch, pos, tid, seen, of, outbox, acked, src, restarts>>

\* An upload that returns an error may have reached the destination.
UploadFails(w) ==
    /\ PutErr(w)
    /\ \/ dst' = [dst EXCEPT ![RowKey(job[w].id)] = got[w]]
       \/ dst' = dst
    /\ got' = [got EXCEPT ![w] = 0]
    /\ UNCHANGED <<hpc, batch, pos, tid, seen, of, outbox, acked, src, restarts>>

DownloadFails(w) == GetErr(w) /\ UNCHANGED gateVars

MinioStep(w) == Download(w) \/ DownloadFails(w) \/ Upload(w) \/ UploadFails(w)

\* srv.Shutdown returns when no request is left.
Drained == SlowHandler \/ \A h \in Handlers : hpc[h] = "free"

PoolMoves ==
    /\ \/ \E w \in Workers : WorkerStep(w)
       \/ \E j \in timers : RetryTimer(j)
       \/ Signal
       \/ CommitBatch
       \/ MayTerminate /\ (main = "drain" => Drained) /\ Shutdown
    /\ UNCHANGED gateVars

\* The process dies or has exited and a new one starts: memory is empty, the
\* database is as it was committed (a batch left open is gone), and nothing
\* re-reads the rows left active in it.
Restart ==
    /\ restarts < MaxRestarts
    /\ MayCrash \/ main = "exited"
    /\ restarts' = restarts + 1
    /\ queue' = <<>> /\ closed' = FALSE /\ signals' = 0 /\ timers' = {}
    /\ pc' = [w \in Workers |-> "lock"] /\ job' = [w \in Workers |-> NoJob]
    /\ mem' = [t \in Transfers |-> NoTransfer]
    /\ feed' = [t \in Transfers |-> <<>>]
    /\ main' = "run"
    /\ hpc' = [h \in Handlers |-> "free"]
    /\ batch' = [h \in Handlers |-> <<>>] /\ pos' = [h \in Handlers |-> 1]
    /\ tid' = [h \in Handlers |-> None]
    /\ seen' = {}
    /\ got' = [w \in Workers |-> 0]
    /\ row' = table
    /\ UNCHANGED <<table, of, outbox, acked, src, dst>>

-----------------------------------------------------------------------------

\* Nothing is left to do, or the bound on rows keeps the handlers from going on.
Settled ==
    /\ queue = <<>> /\ signals = 0 /\ timers = {}
    /\ \A w \in Workers : pc[w] = "wait"
    /\ \A h \in Handlers : \/ hpc[h] = "free"
                           \/ hpc[h] = "create" /\ Begun = Transfers
    /\ UNCHANGED vars

Init ==
    /\ PoolInit
    /\ hpc = [h \in Handlers |-> "free"]
    /\ batch = [h \in Handlers |-> <<>>] /\ pos = [h \in Handlers |-> 1]
    /\ tid = [h \in Handlers |-> None]
    /\ seen = {}
    /\ of = [t \in Transfers |-> None]
    /\ outbox = {} /\ acked = {}
    /\ src = [k \in Keys |-> 0] /\ dst = [k \in Keys |-> 0]
    /\ got = [w \in Workers |-> 0]
    /\ restarts = 0

Next ==
    \/ \E h \in Handlers : Receive(h) \/ HandlerStep(h)
    \/ \E k \in Keys : Expire(k)
    \/ \E raw \in RawKeys : Put(raw)
    \/ \E w \in Workers : MinioStep(w)
    \/ PoolMoves
    \/ Restart
    \/ Exited /\ UNCHANGED gateVars
    \/ Settled

Spec == Init /\ [][Next]_vars

\* On top of the pool's fairness: request goroutines run to their reply, the
\* batch writer commits, and MinIO answers downloads and uploads.
Fairness ==
    /\ \A h \in Handlers : WF_vars(HandlerStep(h))
    /\ \A w \in Workers :
         /\ WF_vars(WorkerStep(w) /\ UNCHANGED gateVars)
         /\ WF_vars(MinioStep(w))
    /\ WF_vars((\E j \in timers : RetryTimer(j)) /\ UNCHANGED gateVars)
    /\ WF_vars(Signal /\ UNCHANGED gateVars)
    /\ WF_vars(CommitBatch /\ UNCHANGED gateVars)

FairSpec == Spec /\ Fairness

-----------------------------------------------------------------------------
\* Properties

\* Every variable of the handler side has its type, and a handler that is at a
\* record has one.
GatewayTypeOK ==
    /\ hpc \in [Handlers -> HandlerPC]
    /\ batch \in [Handlers -> Seq(Event)]
    /\ pos \in [Handlers -> 1..MaxBatch + 1]
    /\ tid \in [Handlers -> Transfers \union {None}]
    /\ \A h \in Handlers :
         /\ hpc[h] \in HandlerPC \ {"free", "record"} => More(h)
         /\ hpc[h] \in {"enqueue", "announce"} => tid[h] \in Created
    /\ seen \subseteq Keys
    /\ of \in [Transfers -> Event \union {None}]
    /\ outbox \subseteq Event /\ acked \subseteq Event
    /\ src \in [Keys -> 0..MaxPuts] /\ dst \in [Keys -> 0..MaxPuts]
    /\ got \in [Workers -> 0..MaxPuts]
    /\ restarts \in 0..MaxRestarts

\* Transfers somebody in this process is still going to work on.
Carried ==
    Queued \union Delayed
    \union {job[w].id : w \in {v \in Workers : pc[v] \in Unfinished \union {"retrying"}}}
    \union {tid[h] : h \in {g \in Handlers : hpc[g] = "enqueue"}}

\* Unfinished, for the writer or for a reader.
SeenActive(t) == row[t].status \in Active \/ table[t].status \in Active

\* The deduper and the database check together let at most one unfinished
\* transfer of a key into the table, whatever notifications arrive on however
\* many connections, whenever a batch commits and the process restarts.
OneActivePerKey ==
    \A t, u \in Begun :
        RowKey(t) = RowKey(u) /\ SeenActive(t) /\ SeenActive(u) => t = u

\* The gateway implements Mirror: an id is a transfer that was begun, and it is
\* under way as long as somebody carries it.  Because copies of a key never
\* overlap, also when UpdateTransfer fails and the table lags behind the pool, a
\* slow upload cannot overwrite the result of a later one.
Abstract == INSTANCE Mirror
    WITH begun <- Begun, work <- {<<t, RowKey(t)>> : t \in Carried}

MirrorsSource == Abstract!MirrorSpec

\* A notification answered with 202 has a transfer row of its key, in the table or
\* in the open batch, or the handler that marked the key as seen is still on its
\* way to the INSERT.
AckedIsRecorded ==
    \A e \in acked :
        \/ \E t \in Created : RowKey(t) = KeyOf(e)
        \/ \E h \in Handlers : hpc[h] \in {"check", "create"} /\ KeyOf(Rec(h)) = KeyOf(e)

\* A transfer that is finished, but not yet for a reader: its worker was answered
\* and may have let go of it, and the batch with its final UPDATE is still open.
Finishing(t) == row[t].status \in Terminal /\ row[t] # table[t]

\* A row that a reader finds unfinished has a job, or a handler about to enqueue
\* it, or its final UPDATE is about to commit: nothing else that
\* HasActiveTransfer finds holds back a notification.
ActiveRowIsCarried ==
    Up => \A t \in Begun : table[t].status \in Active => t \in Carried \/ Finishing(t)

\* Every notification that was accepted leads to a finished transfer of its
\* key in the committed table, unless the process is told to stop.
AckedEventFinishes ==
    \A k \in Keys :
        (\E e \in acked : KeyOf(e) = k) ~>
            (Cancelled \/ \E t \in Begun : RowKey(t) = k /\ table[t].status \in Terminal)

\* A record skipped by the database check is skipped because its transfer is
\* under way, or over but for the commit.
SkippedIsCarried ==
    [][\A h \in Handlers :
         hpc[h] = "check" /\ hpc'[h] = "record" =>
             \E t \in Begun : RowKey(t) = KeyOf(Rec(h)) /\ (t \in Carried \/ Finishing(t))]_vars
=============================================================================
