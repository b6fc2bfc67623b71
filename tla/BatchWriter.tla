----------------------------- MODULE BatchWriter ----------------------------
(***************************************************************************)
(* internal/storage/batch.go: the goroutine through which CreateTransfer   *)
(* and UpdateTransfer write.  exec puts a request into a bounded channel   *)
(* and waits for its answer; run collects requests into batches, and flush *)
(* executes a batch in one SQLite transaction.  The process may die at any *)
(* time; the database then has what was committed.                         *)
(***************************************************************************)
EXTENDS Naturals, Sequences, FiniteSets

CONSTANTS
    Requests,       \* calls of exec
    ChanCap,        \* writeChanCap
    BatchMax,       \* batchMaxSize
    DBMayFail       \* may Begin, Exec or Commit return an error?

ASSUME CapPositive   == ChanCap \in Nat \ {0}
ASSUME BatchPositive == BatchMax \in Nat \ {0}
ASSUME DBFlag        == DBMayFail \in BOOLEAN

VARIABLES
    ch,        \* the request channel
    stop,      \* close(bw.stop) happened
    wpc,       \* where run() is
    final,     \* the flush under way is the one of the stop branch
    batch,     \* run's local batch
    next,      \* flush's loop index
    tx,        \* requests executed in the open transaction
    db,        \* requests whose effect is committed, in order
    done,      \* what was sent to each request's done channel
    sent,      \* requests in the order they entered the channel
    gone       \* how the process ended under a caller that had no answer yet

bwVars == <<ch, stop, wpc, final, batch, next, tx, db, done, sent, gone>>

Elems(s) == {s[i] : i \in 1..Len(s)}

Answers == {"ok", "err"}
WriterPC == {"off", "select", "drain", "stopping", "flush", "exec", "ended"}

Answer(r, a) == done' = [done EXCEPT ![r] = Append(@, a)]

-----------------------------------------------------------------------------
\* exec: blocks while the channel is full, then for the answer in done.
Send(r) ==
    /\ wpc # "off"
    /\ r \notin Elems(sent)
    /\ Len(ch) < ChanCap
    /\ ch' = Append(ch, r)
    /\ sent' = Append(sent, r)
    /\ UNCHANGED <<stop, wpc, final, batch, next, tx, db, done, gone>>

\* close: the process is shutting down.
Close ==
    /\ wpc # "off" /\ ~stop
    /\ stop' = TRUE
    /\ UNCHANGED <<ch, wpc, final, batch, next, tx, db, done, sent, gone>>

\* Variant: the batch is filled from the front.
CollectFront ==
    /\ ch # <<>>
    /\ batch' = <<Head(ch)>> \o batch
    /\ ch' = Tail(ch)
    /\ UNCHANGED <<stop, final, next, tx, db, done, sent, gone>>

Collect ==
    /\ ch # <<>>
    /\ batch' = Append(batch, Head(ch))
    /\ ch' = Tail(ch)
    /\ UNCHANGED <<stop, final, next, tx, db, done, sent, gone>>

\* run's select.  Several cases may be ready; any of them may be taken.
Receive == wpc = "select" /\ wpc' = "drain" /\ Collect

\* Variant: only full batches are flushed.
TickFull ==
    /\ wpc = "select" /\ Len(batch) >= BatchMax
    /\ wpc' = "flush"
    /\ UNCHANGED <<ch, stop, final, batch, next, tx, db, done, sent, gone>>

Tick ==
    /\ wpc = "select" /\ batch # <<>>
    /\ wpc' = "flush"
    /\ UNCHANGED <<ch, stop, final, batch, next, tx, db, done, sent, gone>>

StopCase ==
    /\ wpc = "select" /\ stop
    /\ wpc' = "stopping"
    /\ UNCHANGED <<ch, stop, final, batch, next, tx, db, done, sent, gone>>

\* Variant: no limit on the batch.
DrainAll == wpc = "drain" /\ wpc' = wpc /\ Collect

\* drain: takes what is ready, up to a full batch; a full batch is flushed.
Drain == wpc = "drain" /\ Len(batch) < BatchMax /\ wpc' = wpc /\ Collect

Drained ==
    /\ wpc = "drain"
    /\ Len(batch) >= BatchMax \/ ch = <<>>
    /\ wpc' = IF Len(batch) >= BatchMax THEN "flush" ELSE "select"
    /\ UNCHANGED <<ch, stop, final, batch, next, tx, db, done, sent, gone>>

\* The stop branch takes everything left, however much, and flushes once.
StopDrain == wpc = "stopping" /\ wpc' = wpc /\ Collect

StopDrained ==
    /\ wpc = "stopping" /\ ch = <<>>
    /\ final' = TRUE
    /\ wpc' = IF batch # <<>> THEN "flush" ELSE "ended"
    /\ UNCHANGED <<ch, stop, batch, next, tx, db, done, sent, gone>>

-----------------------------------------------------------------------------
\* flush returns: batch[:0], and run goes on or returns.
Flushed ==
    /\ batch' = <<>>
    /\ wpc' = IF final THEN "ended" ELSE "select"

Begin ==
    /\ wpc = "flush"
    /\ wpc' = "exec" /\ next' = 1
    /\ UNCHANGED <<ch, stop, final, batch, tx, db, done, sent, gone>>

BeginFails ==
    /\ DBMayFail
    /\ wpc = "flush"
    /\ done' = [r \in Requests |->
                  IF r \in Elems(batch) THEN Append(done[r], "err") ELSE done[r]]
    /\ Flushed
    /\ UNCHANGED <<ch, stop, final, next, tx, db, sent, gone>>

\* One tx.Exec; its outcome is answered at once, before the Commit.
Exec ==
    /\ wpc = "exec" /\ next <= Len(batch)
    /\ \/ tx' = Append(tx, batch[next]) /\ Answer(batch[next], "ok")
       \/ DBMayFail /\ tx' = tx /\ Answer(batch[next], "err")
    /\ next' = next + 1
    /\ UNCHANGED <<ch, stop, wpc, final, batch, db, sent, gone>>

\* A Commit error is logged; the callers were answered already.
Commit ==
    /\ wpc = "exec" /\ next > Len(batch)
    /\ db' = db \o tx \/ (DBMayFail /\ db' = db)
    /\ tx' = <<>>
    /\ Flushed
    /\ UNCHANGED <<ch, stop, final, next, done, sent, gone>>

-----------------------------------------------------------------------------
\* newBatchWriter.
Open ==
    /\ wpc = "off"
    /\ wpc' = "select"
    /\ UNCHANGED <<ch, stop, final, batch, next, tx, db, done, sent, gone>>

\* The process ends: its memory is lost and an open transaction rolled back.
Die(how) ==
    /\ ch' = <<>> /\ stop' = FALSE /\ wpc' = "off" /\ final' = FALSE
    /\ batch' = <<>> /\ next' = 1 /\ tx' = <<>>
    /\ gone' = [r \in Requests |->
                  IF r \in Elems(ch) \union Elems(batch) /\ done[r] = <<>>
                  THEN how ELSE gone[r]]
    /\ UNCHANGED <<db, done, sent>>

Crash == wpc # "off" /\ Die("crash")

\* run returned: close returns, and main with it.
Exit == wpc = "ended" /\ Die("exit")

BWInit ==
    /\ ch = <<>> /\ stop = FALSE /\ wpc = "off" /\ final = FALSE
    /\ batch = <<>> /\ next = 1 /\ tx = <<>> /\ db = <<>>
    /\ done = [r \in Requests |-> <<>>]
    /\ sent = <<>>
    /\ gone = [r \in Requests |-> "no"]

WriterStep ==
    \/ Receive \/ Tick \/ StopCase \/ Drain \/ Drained \/ StopDrain \/ StopDrained
    \/ Begin \/ BeginFails \/ Exec \/ Commit

-----------------------------------------------------------------------------
\* Properties

\* Every variable has its type; a batch is bounded except in the stop branch.
BWTypeOK ==
    /\ ch \in Seq(Requests) /\ Len(ch) <= ChanCap
    /\ stop \in BOOLEAN /\ final \in BOOLEAN
    /\ wpc \in WriterPC
    /\ batch \in Seq(Requests)
    /\ wpc # "stopping" /\ ~final => Len(batch) <= BatchMax
    /\ next \in 1..Len(batch) + 1 \/ wpc # "exec"
    /\ tx \in Seq(Requests) /\ db \in Seq(Requests) /\ sent \in Seq(Requests)
    /\ done \in [Requests -> Seq(Answers)]
    /\ gone \in [Requests -> {"no", "crash", "exit"}]

\* No caller of exec waits for ever: a request sent before the writer is told to
\* stop is answered unless the process crashes; one that races with close, and
\* may enter the channel after run has returned, at the latest ends with the
\* process, which does not wait for it.
NobodyWaitsForEver ==
    \A r \in Requests :
        /\ (r \in Elems(sent) /\ ~stop /\ gone[r] = "no") ~>
             (done[r] # <<>> \/ gone[r] = "crash")
        /\ (r \in Elems(sent)) ~> (done[r] # <<>> \/ gone[r] # "no")
-----------------------------------------------------------------------------
\* What the writer has accepted and not yet answered, in order.
Unanswered ==
    (IF wpc = "exec" THEN SubSeq(batch, next, Len(batch)) ELSE batch) \o ch

\* What each caller has been told.
Told ==
    [r \in Requests |-> IF done[r] = <<>> THEN "none"
                       ELSE IF Len(done[r]) = 1 THEN done[r][1] ELSE "twice"]

Serial == INSTANCE SerialWriter WITH
    queue   <- Unanswered,
    answer  <- Told,
    open    <- tx,
    durable <- db

\* Channel, batches and transactions together are a writer that serves requests
\* one by one in the order of their arrival.  Each is answered at most once (a
\* second answer would block the writer for good) and none is lost while the
\* process is there; one answered with an error has no effect, and a later write
\* never takes effect, or survives a failure, without an earlier one of its batch
\* that was answered with success.
WritesAreSerial == Serial!SerialSpec
=============================================================================
