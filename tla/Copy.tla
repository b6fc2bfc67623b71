-------------------------------- MODULE Copy ---------------------------------
(***************************************************************************)
(* The copies of the worker pool with the MinIO clients they go through:   *)
(* internal/storage/minio.go under doTransfer (internal/transfer).  A      *)
(* client is made for the settings of the first job that needs it and then *)
(* shared by every job whose settings have the same cache key.             *)
(*                                                                         *)
(* The settings a job carries were fixed when it was created; two jobs of  *)
(* one app differ when the app was changed in between.  The parts of a     *)
(* cache key are assumed to have no "|".                                   *)
(***************************************************************************)
EXTENDS TransferManager, Backoff

CONSTANTS
    Endpoints, AccessKeys,
    Others,      \* SecretKey, UseSSL and Region
    Malformed,   \* endpoints minio.New refuses
    ConfOf,      \* job.App.Src and job.App.Dst of each transfer
    Absent,      \* no client
    Bases,       \* bound: values of BackoffSecs
    MaxAttempt   \* bound: attempts the back-off is looked at for

MinIOConfig == [endpoint : Endpoints, accessKey : AccessKeys,
                skipTLSVerify : BOOLEAN, other : Others]

ASSUME ConfOfType == ConfOf \in [Transfers -> [{"src", "dst"} -> MinIOConfig]]
ASSUME AbsentIsNoConfig == Absent \notin MinIOConfig
ASSUME MalformedAreEndpoints == Malformed \subseteq Endpoints
ASSUME BackoffBounds == Bases \subseteq Nat /\ MaxAttempt \in Nat

VARIABLES
    clients,    \* MinIOClient.clients
    call,       \* how far each worker is in clientFor
    client      \* the client it has made or was given

copyVars  == <<clients, call, client>>
cpoolVars == <<poolVars, copyVars>>

\* Variant: verification of certificates is not part of the key.
KeyWithoutTLS(cfg) == <<cfg.endpoint, cfg.accessKey, TRUE>>

cacheKey(cfg) == <<cfg.endpoint, cfg.accessKey, cfg.skipTLSVerify>>

CacheKeys == Endpoints \X AccessKeys \X BOOLEAN

\* The settings the worker's call is about: app.Src to get, app.Dst to put.
Conf(w) == ConfOf[job[w].id][IF pc[w] = "get" THEN "src" ELSE "dst"]

CallGoto(w, from, to) == call[w] = from /\ call' = [call EXCEPT ![w] = to]

-----------------------------------------------------------------------------
\* clientFor

\* GetObject or PutObject was entered, and the cache has a client.
Load(w) ==
    /\ pc[w] \in {"get", "put"} /\ CallGoto(w, "none", "have")
    /\ clients[cacheKey(Conf(w))] # Absent
    /\ client' = [client EXCEPT ![w] = clients[cacheKey(Conf(w))]]
    /\ UNCHANGED <<poolVars, clients>>

\* It has none: a client is made from the job's settings, outside any lock.
New(w) ==
    /\ pc[w] \in {"get", "put"} /\ CallGoto(w, "none", "made")
    /\ clients[cacheKey(Conf(w))] = Absent
    /\ Conf(w).endpoint \notin Malformed
    /\ client' = [client EXCEPT ![w] = Conf(w)]
    /\ UNCHANGED <<poolVars, clients>>

\* minio.New refuses the endpoint: the call fails before anything is sent.
NewFails(w) ==
    /\ call[w] = "none"
    /\ GetErr(w) \/ PutErr(w)
    /\ clients[cacheKey(Conf(w))] = Absent
    /\ Conf(w).endpoint \in Malformed
    /\ UNCHANGED copyVars

\* Variant: Store, the last writer wins.
StoreLast(w) ==
    /\ CallGoto(w, "made", "have")
    /\ clients' = [clients EXCEPT ![cacheKey(Conf(w))] = client[w]]
    /\ UNCHANGED <<poolVars, client>>

\* LoadOrStore: the first writer wins and everybody goes on with its client.
LoadOrStore(w) ==
    LET k == cacheKey(Conf(w)) IN
    /\ CallGoto(w, "made", "have")
    /\ clients' = [clients EXCEPT ![k] = IF @ = Absent THEN client[w] ELSE @]
    /\ client' = [client EXCEPT ![w] = clients'[k]]
    /\ UNCHANGED poolVars

ClientStep(w) == Load(w) \/ New(w) \/ NewFails(w) \/ LoadOrStore(w)

\* MinIO answers, or the request fails on the way (also when ctx is cancelled).
Answered(w) ==
    /\ MinioAnswers(w)
    /\ CallGoto(w, "have", "none")
    /\ client' = [client EXCEPT ![w] = Absent]
    /\ UNCHANGED clients

-----------------------------------------------------------------------------
CopyInit ==
    /\ PoolInit
    /\ clients = [k \in CacheKeys |-> Absent]
    /\ call = [w \in Workers |-> "none"]
    /\ client = [w \in Workers |-> Absent]

CopyNext ==
    \/ \E w \in Workers : ClientStep(w) \/ Answered(w)
    \/ /\ \/ \E w \in Workers : WorkerStep(w)
          \/ \E j \in timers : RetryTimer(j)
          \/ Signal \/ CommitBatch \/ Shutdown
          \/ \E t \in Transfers : Submit(t) \/ AnnounceSubmitted(t)
          \/ Exited
       /\ UNCHANGED copyVars

\* Goroutines (the batch writer's among them), runtime timers and Stop make
\* progress, and MinIO answers every request it is sent; nobody has to send a
\* SIGTERM or a webhook.
CopyFairness ==
    /\ \A w \in Workers :
         /\ WF_cpoolVars(WorkerStep(w) /\ UNCHANGED copyVars)
         /\ WF_cpoolVars(ClientStep(w))
         /\ WF_cpoolVars(Answered(w))
    /\ WF_cpoolVars((\E j \in timers : RetryTimer(j)) /\ UNCHANGED copyVars)
    /\ WF_cpoolVars(Signal /\ UNCHANGED copyVars)
    /\ WF_cpoolVars(CommitBatch /\ UNCHANGED copyVars)
    /\ WF_cpoolVars((StopClose \/ StopBroadcast \/ StopReturn) /\ UNCHANGED copyVars)

CopySpec == CopyInit /\ [][CopyNext]_cpoolVars /\ CopyFairness

-----------------------------------------------------------------------------
\* Properties

\* However many workers miss the cache at once, all copies with one cache key
\* that are under way go through one client, the cached one: no worker is left
\* with a connection pool nobody else has.
OneClientPerKey ==
    \A w \in Workers : call[w] = "have" => client[w] = clients[cacheKey(Conf(w))]

\* A copy may go through a client that was made for another job, but never one
\* for another endpoint or account, or one that checks certificates when its own
\* settings do not (or the other way round).
ClientFitsJob ==
    \A w \in Workers : call[w] = "have" =>
        /\ client[w].endpoint = Conf(w).endpoint
        /\ client[w].accessKey = Conf(w).accessKey
        /\ client[w].skipTLSVerify = Conf(w).skipTLSVerify

\* From the retry a timer waits for to the last attempt, and for any base, also
\* where the product leaves the machine integer: the wait is between the minimum
\* and the maximum and, with a positive base, no longer than the exponential it
\* stands for.  With a base up to the maximum an overflow never shortens it: from
\* the attempt on that would exceed the maximum, any wait up to it may be drawn.
BackoffIsCappedExponential ==
    \A j \in timers : \A secs \in Bases, n \in j.retryCount..MaxAttempt :
        /\ Longest(secs, n) \in MinDelay..MaxDelay - 1
        /\ secs > 0 => \/ Longest(secs, n) = MinDelay
                       \/ Longest(secs, n) < Intended(secs, n)
        /\ secs > 0 /\ secs * Second <= MaxDelay /\ Intended(secs, n) >= MaxDelay =>
             Longest(secs, n) = MaxDelay - 1
=============================================================================
