----------------------------- MODULE CopyProofs ------------------------------
(***************************************************************************)
(* Proofs about the copies and the MinIO clients they go through, for any  *)
(* number of workers and transfers, any settings of their apps and any     *)
(* endpoints minio.New refuses.                                            *)
(***************************************************************************)
EXTENDS Copy, TransferManagerProofs, FunctionTheorems

-----------------------------------------------------------------------------
\* The pool under the copies

\* Between the pool's variables, what the copies do is what the pool does: asking
\* for a client moves no worker, and a copy is answered as the pool expects.
LEMMA CopyStepIsPoolStep ==
    ASSUME [CopyNext]_cpoolVars
    PROVE  [PoolNext]_poolVars
<1>1. CASE \E w \in Workers : ClientStep(w)
  <2> PICK w \in Workers : ClientStep(w)
    BY <1>1
  <2>1. CASE Load(w) \/ New(w) \/ LoadOrStore(w)
    BY <2>1 DEF Load, New, LoadOrStore
  <2>2. CASE NewFails(w)
    BY <2>2 DEF NewFails, PoolNext, PoolStep, MinioAnswers
  <2> QED BY <2>1, <2>2 DEF ClientStep
<1>2. CASE \E w \in Workers : Answered(w)
  BY <1>2 DEF Answered, PoolNext, PoolStep
<1>3. CASE CopyNext /\ UNCHANGED copyVars /\ ~\E w \in Workers : ClientStep(w) \/ Answered(w)
  BY <1>3 DEF CopyNext, PoolNext, PoolStep
<1>4. CASE UNCHANGED cpoolVars
  BY <1>4 DEF cpoolVars
<1> QED BY <1>1, <1>2, <1>3, <1>4 DEF CopyNext

\* The copies implement the pool as it is specified by itself: what is proved of
\* the pool for any answer of MinIO holds with the client cache underneath.
THEOREM CopyImplementsPool == CopySpec => PoolSpec
<1>1. CopyInit => PoolInit
  BY DEF CopyInit
<1>2. [CopyNext]_cpoolVars => [PoolNext]_poolVars
  BY CopyStepIsPoolStep
<1> QED BY <1>1, <1>2, PTL DEF CopySpec, PoolSpec

\* What a worker tells the dashboard of a transfer is already written and answered,
\* in the order PoolEventsFollowRow has it, also when a copy fails for want of a
\* client before anything is sent.
THEOREM CopyEventsFollowRow == CopySpec => []EventsFollowRow
BY CopyImplementsPool, PoolEventsFollowRow, PTL

-----------------------------------------------------------------------------
\* The client cache

\* The inductive invariant, part by part.

CopyTypeOK ==
    /\ clients \in [CacheKeys -> MinIOConfig \union {Absent}]
    /\ call \in [Workers -> {"none", "made", "have"}]
    /\ client \in [Workers -> MinIOConfig \union {Absent}]

\* A worker asks for a client only in the middle of a copy, so that the settings
\* its call is about stay the same until it is answered.
CallsInCopies == \A w \in Workers : call[w] # "none" => pc[w] \in {"get", "put"}

\* A cached client was made from settings that have its key.
CachedFitsKey == \A k \in CacheKeys : clients[k] # Absent => cacheKey(clients[k]) = k

\* A client that is made and not cached yet is that of the worker's own job, and
\* a client in use is the cached one.
ClientsHeld ==
    \A w \in Workers :
        /\ call[w] = "made" => client[w] = Conf(w)
        /\ call[w] = "have" => /\ client[w] # Absent
                               /\ client[w] = clients[cacheKey(Conf(w))]

CopyInv == CopyTypeOK /\ CallsInCopies /\ CachedFitsKey /\ ClientsHeld

LEMMA CacheKeyType == \A c \in MinIOConfig : cacheKey(c) \in CacheKeys
BY DEF MinIOConfig, cacheKey, CacheKeys

LEMMA ConfType ==
    ASSUME PoolTypeOK, NEW w \in Workers, pc[w] \in {"get", "put"}
    PROVE  Conf(w) \in MinIOConfig /\ cacheKey(Conf(w)) \in CacheKeys
<1>1. job[w].id \in Transfers
  BY DEF PoolTypeOK, Busy, TransferJob
<1>2. Conf(w) \in MinIOConfig
  BY <1>1, ConfOfType DEF Conf
<1> QED BY <1>2, CacheKeyType

\* Outside the calls to MinIO, a worker in the middle of a copy stays there.
LEMMA CopyUndisturbed ==
    ASSUME PoolTypeOK,
           \/ \E v \in Workers : WorkerStep(v)
           \/ \E j \in timers : RetryTimer(j)
           \/ Signal \/ CommitBatch \/ Shutdown
           \/ \E t \in Transfers : Submit(t) \/ AnnounceSubmitted(t)
           \/ Exited \/ UNCHANGED poolVars,
           NEW w \in Workers, pc[w] \in {"get", "put"}
    PROVE  pc'[w] = pc[w] /\ job'[w] = job[w]
<1>1. CASE \E v \in Workers : WorkerStep(v)
  <2> PICK v \in Workers : WorkerStep(v)
    BY <1>1
  <2>1. v # w
    BY DEF WorkerStep, Take, Wait, Exit, StartFirstAttempt, StartRetry, AnnounceStarted, Succeed,
           AnnounceCompleted, ScheduleRetry, ArmRetryTimer, Fail, AnnounceFailed, Return, Goto
  <2> QED BY <2>1 DEF WorkerStep, Take, Wait, Exit, StartFirstAttempt, StartRetry, AnnounceStarted,
           Succeed, AnnounceCompleted, ScheduleRetry, ArmRetryTimer, Fail, AnnounceFailed, Return,
           Goto, PoolTypeOK
<1>2. CASE Signal
  BY <1>2 DEF Signal, Goto, PoolTypeOK
<1>3. CASE Shutdown
  BY <1>3 DEF Shutdown, Terminate, StopClose, StopBroadcast, StopReturn
<1>4. CASE \/ \E j \in timers : RetryTimer(j)
           \/ \E t \in Transfers : Submit(t) \/ AnnounceSubmitted(t)
           \/ CommitBatch \/ Exited \/ UNCHANGED poolVars
  BY <1>4 DEF RetryTimer, Submit, AnnounceSubmitted, CommitBatch, Exited, poolVars
<1> QED BY <1>1, <1>2, <1>3, <1>4

LEMMA CopyInvStep ==
    ASSUME PoolTypeOK, CopyInv, [CopyNext]_cpoolVars
    PROVE  CopyInv'
<1> USE DEF CopyInv
<1>1. ASSUME NEW w \in Workers, Load(w) \/ New(w)
      PROVE  CopyInv'
  <2>1. /\ pc[w] \in {"get", "put"} /\ UNCHANGED <<poolVars, clients>>
        /\ call[w] = "none" /\ call'[w] \in {"made", "have"}
        /\ \A v \in Workers : v # w => call'[v] = call[v] /\ client'[v] = client[v]
    BY <1>1 DEF Load, New, CallGoto, CopyTypeOK
  <2>2. Conf(w) \in MinIOConfig /\ cacheKey(Conf(w)) \in CacheKeys
    BY <2>1, ConfType
  <2>3. CopyTypeOK'
    BY <1>1, <2>1, <2>2 DEF Load, New, CallGoto, CopyTypeOK
  <2>4. \A v \in Workers : Conf(v)' = Conf(v)
    BY <2>1 DEF Conf, poolVars
  <2>5. /\ call'[w] = "made" => client'[w] = Conf(w)
        /\ call'[w] = "have" => /\ client'[w] # Absent
                                /\ client'[w] = clients[cacheKey(Conf(w))]
    BY <1>1, <2>2 DEF Load, New, CallGoto, CopyTypeOK
  <2>6. ClientsHeld'
    BY <2>1, <2>4, <2>5 DEF ClientsHeld, cacheKey
  <2>7. CallsInCopies' /\ CachedFitsKey'
    BY <2>1 DEF CallsInCopies, CachedFitsKey, poolVars, cacheKey
  <2> QED BY <2>3, <2>6, <2>7
<1>2. ASSUME NEW w \in Workers, LoadOrStore(w)
      PROVE  CopyInv'
  <2> DEFINE k == cacheKey(Conf(w))
  <2>1. /\ call[w] = "made" /\ pc[w] \in {"get", "put"} /\ client[w] = Conf(w)
        /\ UNCHANGED poolVars
    BY <1>2 DEF LoadOrStore, CallGoto, CallsInCopies, ClientsHeld
  <2>2. Conf(w) \in MinIOConfig /\ k \in CacheKeys /\ Conf(w) # Absent
    BY <2>1, ConfType, AbsentIsNoConfig
  <2>3. /\ clients'[k] = IF clients[k] = Absent THEN Conf(w) ELSE clients[k]
        /\ \A l \in CacheKeys : l # k => clients'[l] = clients[l]
        /\ clients'[k] # Absent /\ clients'[k] \in MinIOConfig
    BY <1>2, <2>1, <2>2 DEF LoadOrStore, CopyTypeOK
  <2>4. /\ client'[w] = clients'[k] /\ call'[w] = "have"
        /\ \A v \in Workers : v # w => call'[v] = call[v] /\ client'[v] = client[v]
    BY <1>2 DEF LoadOrStore, CallGoto, CopyTypeOK
  <2>5. CopyTypeOK'
    BY <1>2, <2>1, <2>2, <2>3 DEF LoadOrStore, CallGoto, CopyTypeOK
  <2>6. \A v \in Workers : Conf(v)' = Conf(v)
    BY <2>1 DEF Conf, poolVars
  <2>7. CachedFitsKey'
    BY <2>3 DEF CachedFitsKey, cacheKey
  <2>8. ASSUME NEW v \in Workers
        PROVE  /\ call'[v] = "made" => client'[v] = Conf(v)
               /\ call'[v] = "have" => /\ client'[v] # Absent
                                       /\ client'[v] = clients'[cacheKey(Conf(v))]
    <3>1. CASE v = w
      BY <3>1, <2>3, <2>4
    <3>2. CASE v # w
      <4>1. call[v] = "have" => cacheKey(Conf(v)) \in CacheKeys
        BY ConfType DEF CallsInCopies
      <4>2. call[v] = "have" => clients'[cacheKey(Conf(v))] = clients[cacheKey(Conf(v))]
        BY <4>1, <2>3 DEF ClientsHeld
      <4> QED BY <3>2, <4>2, <2>4 DEF ClientsHeld
    <3> QED BY <3>1, <3>2
  <2>9. ClientsHeld'
    BY <2>6, <2>8 DEF ClientsHeld, cacheKey
  <2>10. CallsInCopies'
    BY <2>1, <2>4 DEF CallsInCopies, poolVars
  <2> QED BY <2>5, <2>7, <2>9, <2>10
<1>3. ASSUME NEW w \in Workers, NewFails(w) \/ Answered(w)
      PROVE  CopyInv'
  <2>1. /\ \A v \in Workers : v # w => pc'[v] = pc[v] /\ call'[v] = call[v]
                                       /\ client'[v] = client[v]
        /\ job' = job /\ clients' = clients
        /\ call'[w] = "none"
    BY <1>3 DEF NewFails, Answered, MinioAnswers, GetOk, GetErr, PutOk, PutErr, Goto, CallGoto,
                copyVars, CopyTypeOK, PoolTypeOK
  <2>2. CopyTypeOK'
    BY <1>3 DEF NewFails, Answered, CallGoto, copyVars, CopyTypeOK
  <2>3. \A v \in Workers : v # w => Conf(v)' = Conf(v)
    BY <2>1 DEF Conf
  <2>4. ClientsHeld'
    BY <2>1, <2>3 DEF ClientsHeld, cacheKey
  <2>5. CallsInCopies' /\ CachedFitsKey'
    BY <2>1 DEF CallsInCopies, CachedFitsKey, cacheKey
  <2> QED BY <2>2, <2>4, <2>5
<1>4. CASE /\ \/ \E v \in Workers : WorkerStep(v)
              \/ \E j \in timers : RetryTimer(j)
              \/ Signal \/ CommitBatch \/ Shutdown
              \/ \E t \in Transfers : Submit(t) \/ AnnounceSubmitted(t)
              \/ Exited \/ UNCHANGED poolVars
           /\ UNCHANGED copyVars
  <2>1. UNCHANGED <<clients, call, client>>
    BY <1>4 DEF copyVars
  <2>2. ASSUME NEW w \in Workers, call[w] # "none"
        PROVE  /\ pc'[w] = pc[w] /\ pc[w] \in {"get", "put"}
               /\ Conf(w)' = Conf(w)
    <3>1. pc[w] \in {"get", "put"}
      BY <2>2 DEF CallsInCopies
    <3>2. pc'[w] = pc[w] /\ job'[w] = job[w]
      BY <1>4, <3>1, CopyUndisturbed
    <3> QED BY <3>1, <3>2 DEF Conf
  <2>3. CopyTypeOK' /\ CachedFitsKey'
    BY <2>1 DEF CopyTypeOK, CachedFitsKey, cacheKey
  <2>4. CallsInCopies'
    BY <2>1, <2>2 DEF CallsInCopies
  <2>5. ClientsHeld'
    BY <2>1, <2>2 DEF ClientsHeld, cacheKey
  <2> QED BY <2>3, <2>4, <2>5
<1> QED BY <1>1, <1>2, <1>3, <1>4 DEF CopyNext, ClientStep, cpoolVars

LEMMA CopyInvariant == CopySpec => []CopyInv
<1>1. CopyInit => CopyInv
  BY DEF CopyInit, CopyInv, CopyTypeOK, CallsInCopies, CachedFitsKey, ClientsHeld
<1>2. PoolTypeOK /\ CopyInv /\ [CopyNext]_cpoolVars => CopyInv'
  BY CopyInvStep
<1> QED BY <1>1, <1>2, CopyImplementsPool, PoolTypeCorrect, PTL DEF CopySpec

\* Whichever of the workers that missed the cache at once stores its client
\* first, all the others go on with that one.
THEOREM CopyOneClientPerKey == CopySpec => []OneClientPerKey
<1>1. CopyInv => OneClientPerKey
  BY DEF CopyInv, ClientsHeld, OneClientPerKey
<1> QED BY <1>1, CopyInvariant, PTL

\* No copy goes through a client of another endpoint or account, or one that
\* treats certificates differently, whatever settings share the cache.
THEOREM CopyClientFitsJob == CopySpec => []ClientFitsJob
<1>1. PoolTypeOK /\ CopyInv => ClientFitsJob
  <2> SUFFICES ASSUME PoolTypeOK, CopyInv, NEW w \in Workers, call[w] = "have"
               PROVE  /\ client[w].endpoint = Conf(w).endpoint
                      /\ client[w].accessKey = Conf(w).accessKey
                      /\ client[w].skipTLSVerify = Conf(w).skipTLSVerify
    BY DEF ClientFitsJob
  <2>1. cacheKey(Conf(w)) \in CacheKeys
    BY ConfType DEF CopyInv, CallsInCopies
  <2>2. cacheKey(client[w]) = cacheKey(Conf(w))
    BY <2>1 DEF CopyInv, ClientsHeld, CachedFitsKey
  <2> QED BY <2>2 DEF cacheKey
<1> QED BY <1>1, CopyInvariant, CopyImplementsPool, PoolTypeCorrect, PTL

-----------------------------------------------------------------------------
\* The back-off

\* Powers of two, as numbers of subsets: they are positive, they multiply, they
\* grow, and each is twice the one before.
LEMMA PowerIsCount ==
    ASSUME NEW n \in Nat
    PROVE  /\ IsFiniteSet(SUBSET (1..n)) /\ Cardinality(SUBSET (1..n)) = 2^n
           /\ 2^n \in Nat /\ 2^n > 0
<1>1. IsFiniteSet(1..n) /\ Cardinality(1..n) = n
  BY FS_Interval
<1>2. IsFiniteSet(SUBSET (1..n)) /\ Cardinality(SUBSET (1..n)) = 2^n
  BY <1>1, FS_SUBSET
<1>3. Cardinality(SUBSET (1..n)) \in Nat /\ Cardinality(SUBSET (1..n)) # 0
  BY <1>2, FS_CardinalityType, FS_EmptySet
<1> QED BY <1>2, <1>3

\* Powers multiply: a set of numbers up to m + n is its part up to m and the
\* rest, moved down by m.
LEMMA PowerAdds ==
    ASSUME NEW m \in Nat, NEW n \in Nat
    PROVE  2^(m + n) = 2^m * 2^n
<1> DEFINE A == SUBSET (1..m)
           B == SUBSET (1..n)
           C == SUBSET (1..(m + n))
           Raised(U) == {i \in (m + 1)..(m + n) : i - m \in U}
           f == [z \in A \X B |-> z[1] \union Raised(z[2])]
<1>1. /\ IsFiniteSet(A) /\ Cardinality(A) = 2^m /\ IsFiniteSet(B) /\ Cardinality(B) = 2^n
      /\ IsFiniteSet(C) /\ Cardinality(C) = 2^(m + n)
  BY PowerIsCount, m + n \in Nat
<1>2. IsFiniteSet(A \X B) /\ Cardinality(A \X B) = Cardinality(A) * Cardinality(B)
  <2> HIDE DEF A, B
  <2> QED BY <1>1, FS_Product
<1>3. ASSUME NEW T \in A, NEW U \in B
      PROVE  T \union Raised(U) \in C
  <2>1. 1..m \subseteq 1..(m + n) /\ (m + 1)..(m + n) \subseteq 1..(m + n)
    OBVIOUS
  <2> QED BY <2>1
<1>4. ASSUME NEW T \in A, NEW U \in B
      PROVE  /\ T = (T \union Raised(U)) \intersect (1..m)
             /\ U = {i \in 1..n : i + m \in T \union Raised(U)}
  <2>1. Raised(U) \intersect (1..m) = {}
    OBVIOUS
  <2>2. \A i \in 1..n : i + m \notin T /\ i + m \in (m + 1)..(m + n) /\ (i + m) - m = i
    OBVIOUS
  <2>3. \A i \in 1..n : i + m \in T \union Raised(U) <=> i \in U
    BY <2>2
  <2>4. T = (T \union Raised(U)) \intersect (1..m)
    <3> HIDE DEF Raised
    <3> QED BY <2>1
  <2> QED BY <2>3, <2>4
<1>5. ASSUME NEW V \in C
      PROVE  /\ V \intersect (1..m) \in A
             /\ {i \in 1..n : i + m \in V} \in B
             /\ V = (V \intersect (1..m)) \union Raised({i \in 1..n : i + m \in V})
  <2>1. \A i \in 1..(m + n) : i \in 1..m \/ i \in (m + 1)..(m + n)
    OBVIOUS
  <2>2. \A i \in (m + 1)..(m + n) : i \in 1..(m + n) /\ i - m \in 1..n /\ (i - m) + m = i
    OBVIOUS
  <2>3. Raised({i \in 1..n : i + m \in V}) = V \intersect ((m + 1)..(m + n))
    BY <2>2
  <2> QED BY <2>1, <2>3
<1>6. f \in Bijection(A \X B, C)
  <2>1. f \in [A \X B -> C]
    <3> HIDE DEF A, B, C, Raised
    <3> QED BY <1>3
  <2>2. \A y, z \in A \X B : f[y] = f[z] => y = z
    <3> SUFFICES ASSUME NEW y \in A \X B, NEW z \in A \X B, f[y] = f[z]
                 PROVE  y = z
      OBVIOUS
    <3>1. y[1] \in A /\ y[2] \in B /\ z[1] \in A /\ z[2] \in B
      BY DEF A, B
    <3>2. y[1] \union Raised(y[2]) = z[1] \union Raised(z[2])
      BY DEF f
    <3>3. y[1] = z[1] /\ y[2] = z[2]
      <4> DEFINE V == y[1] \union Raised(y[2])
      <4>1. /\ y[1] = V \intersect (1..m) /\ y[2] = {i \in 1..n : i + m \in V}
        BY <1>4, <3>1
      <4>2. V = z[1] \union Raised(z[2])
        BY <3>2
      <4> HIDE DEF V
      <4>3. /\ z[1] = V \intersect (1..m) /\ z[2] = {i \in 1..n : i + m \in V}
        <5>1. /\ z[1] = (z[1] \union Raised(z[2])) \intersect (1..m)
              /\ z[2] = {i \in 1..n : i + m \in z[1] \union Raised(z[2])}
          BY <1>4, <3>1
        <5> HIDE DEF Raised
        <5> QED BY <4>2, <5>1
      <4> QED BY <4>1, <4>3
    <3> HIDE DEF A, B
    <3> QED BY <3>3
  <2>3. \A V \in C : \E z \in A \X B : f[z] = V
    <3> SUFFICES ASSUME NEW V \in C
                 PROVE  \E z \in A \X B : f[z] = V
      OBVIOUS
    <3> DEFINE z == <<V \intersect (1..m), {i \in 1..n : i + m \in V}>>
    <3>1. z \in A \X B
      BY <1>5
    <3>2. f[z] = V
      BY <1>5, <3>1
    <3> QED BY <3>1, <3>2
  <2> HIDE DEF A, B, C, f
  <2> QED BY <2>1, <2>2, <2>3 DEF Bijection, Injection, Surjection, IsInjective
<1>7. Cardinality(A \X B) = Cardinality(C)
  <2> HIDE DEF A, B, C, f
  <2> QED BY <1>1, <1>2, <1>6, FS_Bijection DEF ExistsBijection
<1> HIDE DEF A, B, C
<1> QED BY <1>1, <1>2, <1>7

LEMMA PowerGrows ==
    ASSUME NEW m \in Nat, NEW n \in Nat, m <= n
    PROVE  2^m <= 2^n
<1>1. PICK d \in Nat : n = m + d
  BY n - m \in Nat
<1>2. 2^n = 2^m * 2^d
  BY <1>1, PowerAdds
<1>3. PICK a \in Nat, b \in Nat : a = 2^m /\ b = 2^d /\ b > 0
  BY PowerIsCount
<1>4. a <= a * b
  BY <1>3
<1> QED BY <1>2, <1>3, <1>4

LEMMA PowerDoubles ==
    ASSUME NEW n \in Nat
    PROVE  2^(n + 1) = 2^n + 2^n
<1>1. 2^1 = 2
  OBVIOUS
<1>2. 2^n \in Nat
  BY PowerIsCount
<1>3. 2^(n + 1) = 2^n * 2^1
  BY PowerAdds
<1> QED BY <1>1, <1>2, <1>3

\* A value that fits is not changed by the wrap-around, and what is dropped from
\* another one is a multiple of 2^Width.
LEMMA WrapFits ==
    /\ \A x \in Int : Wrap(x) \in Int
    /\ \A x \in Nat : x < 2^(Width - 1) => Wrap(x) = x
    /\ \A x \in Nat : \E q \in Nat : x = q * 2^Width + Wrap(x)
<1>0. Width \in Nat \ {0}
  BY BackoffConstants
<1>1. PICK v \in Nat : Width = v + 1
  <2>1. Width - 1 \in Nat /\ Width = (Width - 1) + 1
    BY <1>0
  <2> QED BY <2>1, Zenon
<1>2. /\ 2^v \in Nat /\ 2^v > 0 /\ 2^(v + 1) \in Nat /\ 2^(v + 1) > 0
      /\ 2^(v + 1) = 2^v + 2^v
  BY PowerIsCount, PowerDoubles, v + 1 \in Nat
<1>3. PICK h \in Nat, m \in Nat : h = 2^v /\ m = 2^(v + 1)
  BY <1>2
<1>4. h > 0 /\ m > 0 /\ h + h = m
  BY <1>2, <1>3
<1>5. h = 2^(Width - 1) /\ m = 2^Width
  <2>1. Width - 1 = v
    BY <1>1
  <2> QED BY <1>1, <1>3, <2>1
<1>6. \A x \in Int : Wrap(x) = ((x + h) % m) - h
  BY <1>5 DEF Wrap
<1>7. \A x \in Int : (x + h) % m \in Int
  BY <1>4
<1>8. \A x \in Nat : x < h => (x + h) % m = x + h
  BY <1>4
<1>9. ASSUME NEW x \in Nat
      PROVE  \E q \in Nat : x = q * m + Wrap(x)
  <2>1. /\ (x + h) \div m \in Nat
        /\ x + h = m * ((x + h) \div m) + ((x + h) % m)
    BY <1>4
  <2>2. PICK q \in Nat, r \in Int : x + h = m * q + r /\ r = (x + h) % m
    <3>1. (x + h) % m \in Int
      BY <1>7
    <3> QED BY <2>1, <3>1, Zenon
  <2>3. x = q * m + (r - h)
    BY <2>2
  <2> QED BY <1>6, <2>2, <2>3
<1>10. \A x \in Int : Wrap(x) \in Int
  BY <1>6, <1>7
<1>11. ASSUME NEW x \in Nat, x < h
       PROVE  Wrap(x) = x
  <2>1. (x + h) % m = x + h
    BY <1>8, <1>11
  <2>2. Wrap(x) = (x + h) - h
    BY <1>6, <2>1
  <2> QED BY <2>2
<1> QED BY <1>5, <1>9, <1>10, <1>11

\* Whatever the base and the attempt, and however often the product wrapped
\* around: the range rand.Int63n draws from is never empty, the wait is at least
\* the minimum and below the maximum and, with a positive base, it is the minimum
\* or shorter than the exponential it stands for.
THEOREM BackoffStaysInBounds ==
    ASSUME NEW secs \in Nat, NEW n \in Nat \ {0}
    PROVE  /\ Longest(secs, n) \in MinDelay..(MaxDelay - 1)
           /\ secs > 0 => Longest(secs, n) = MinDelay \/ Longest(secs, n) < Intended(secs, n)
<1> DEFINE s == Shifted(secs, n)
           x == secs * Second
           p == 2^(n - 1)
<1>1. /\ MinDelay \in Nat /\ MinDelay > 0 /\ MaxDelay \in Nat /\ MinDelay < MaxDelay
      /\ MaxDelay < 2^(Width - 1) /\ Second \in Nat /\ Second > 0 /\ Width \in Nat
  BY BackoffConstants
<1>2. p \in Nat /\ p > 0
  BY PowerIsCount, n - 1 \in Nat
<1>3. x \in Nat /\ (secs > 0 => x > 0)
  BY <1>1
<1>4. s = IF n > Width THEN 0 ELSE Wrap(Wrap(x) * p)
  BY DEF Shifted
<1>5. Intended(secs, n) = x * p
  BY DEF Intended
<1> HIDE DEF s, x, p
<1>6. s \in Int
  <2>1. Wrap(x) \in Int
    BY <1>3, WrapFits
  <2>2. Wrap(x) * p \in Int
    BY <1>2, <2>1
  <2> QED BY <1>4, <2>2, WrapFits
<1>7. Longest(secs, n) \in MinDelay..(MaxDelay - 1)
  BY <1>1, <1>6 DEF Clamp, Longest, s
<1>8. ASSUME secs > 0, x * p < MaxDelay
      PROVE  s = x * p /\ x * p > 0
  <2>1. x * p \in Nat /\ x <= x * p /\ p <= x * p
    BY <1>2, <1>3, <1>8
  <2>2. Wrap(x) = x /\ Wrap(x * p) = x * p
    <3>1. x < 2^(Width - 1) /\ x * p < 2^(Width - 1)
      <4>1. PICK h \in Nat : h = 2^(Width - 1)
        BY BackoffConstants, PowerIsCount, Width - 1 \in Nat
      <4>2. MaxDelay < h
        BY <1>1, <4>1
      <4>3. x < h /\ x * p < h
        BY <1>1, <1>3, <1>8, <2>1, <4>2
      <4> QED BY <4>1, <4>3
    <3> QED BY <1>3, <2>1, <3>1, WrapFits
  <2>3. ~(n > Width)
    <3> SUFFICES ASSUME n > Width
                 PROVE  FALSE
      OBVIOUS
    <3>1. PICK v \in Nat : v = Width - 1
      BY BackoffConstants
    <3>2. PICK u \in Nat : u = n - 1
      OBVIOUS
    <3>3. 2^v <= 2^u
      BY <1>1, <3>1, <3>2, PowerGrows
    <3>4. 2^v = 2^(Width - 1) /\ 2^u = p
      BY <3>1, <3>2 DEF p
    <3> QED BY <1>1, <1>2, <1>8, <2>1, <3>3, <3>4, PowerIsCount
  <2> QED BY <1>4, <1>2, <1>3, <1>8, <2>1, <2>2, <2>3
<1>9. ASSUME secs > 0
      PROVE  Longest(secs, n) = MinDelay \/ Longest(secs, n) < x * p
  <2>1. x * p \in Nat
    BY <1>2, <1>3
  <2>2. CASE x * p < MaxDelay
    BY <1>1, <1>8, <1>9, <2>1, <2>2 DEF Clamp, Longest, s
  <2>3. CASE ~(x * p < MaxDelay)
    BY <1>1, <1>7, <2>1, <2>3
  <2> QED BY <2>2, <2>3
<1> QED BY <1>5, <1>7, <1>9

\* No number of seconds up to an hour, counted in units of 512 nanoseconds, is
\* just above a multiple of 2^23 (of 2^32 nanoseconds).
Spread(s, g, r) == s * 1953125 # g * 8388608 + r

LEMMA SecondsAreSpread ==
    ASSUME NEW s \in Int, NEW g \in Int, NEW r \in Int,
           1 <= s, s <= 3600, 1 <= g, 1 <= r, r <= 838
    PROVE  Spread(s, g, r)
BY SMTT(60) DEF Spread

\* The powers of two as a function, so that the steps below reason about them from
\* the next three lemmas only.
Power == [i \in Nat |-> 2^i]

LEMMA PowerFacts ==
    /\ \A i \in Nat : Power[i] = 2^i /\ Power[i] \in Nat \ {0}
    /\ Power[1] = 2
    /\ \A i, j \in Nat : Power[i + j] = Power[i] * Power[j]
<1>1. \A i \in Nat : Power[i] = 2^i /\ Power[i] \in Nat \ {0}
  <2> SUFFICES ASSUME NEW i \in Nat
               PROVE  Power[i] = 2^i /\ Power[i] \in Nat \ {0}
    OBVIOUS
  <2>1. Power[i] = 2^i
    BY DEF Power
  <2>2. 2^i \in Nat /\ 2^i > 0
    BY PowerIsCount
  <2> QED BY <2>1, <2>2
<1>2. 2^1 = 2
  OBVIOUS
<1>3. \A i, j \in Nat : i + j \in Nat /\ 2^(i + j) = 2^i * 2^j
  BY PowerAdds
<1>4. Power[1] = 2
  BY <1>1, <1>2, 1 \in Nat
<1>5. ASSUME NEW i \in Nat, NEW j \in Nat
      PROVE  Power[i + j] = Power[i] * Power[j]
  <2>1. Power[i] = 2^i /\ Power[j] = 2^j /\ Power[i + j] = 2^(i + j)
    BY <1>1, i + j \in Nat
  <2> QED BY <1>3, <2>1
<1> QED BY <1>1, <1>4, <1>5

LEMMA PowerType == \A i \in Nat : Power[i] \in Nat \ {0}
BY PowerFacts

LEMMA PowerProduct ==
    ASSUME NEW i \in Nat, NEW j \in Nat, NEW n \in Nat, n = i + j
    PROVE  Power[n] = Power[i] * Power[j]
BY PowerFacts

\* A larger power is a multiple of a smaller one.
LEMMA PowerDivides ==
    ASSUME NEW i \in Nat, NEW j \in Nat, i <= j
    PROVE  Power[i] <= Power[j] /\ \E d \in Nat \ {0} : Power[j] = d * Power[i]
<1>1. PICK e \in Nat : j = i + e
  BY j - i \in Nat
<1>2. Power[j] = Power[i] * Power[e]
  BY <1>1, PowerProduct
<1>3. PICK b \in Nat \ {0}, d \in Nat \ {0} : b = Power[i] /\ d = Power[e]
  BY PowerFacts
<1>4. b * d = d * b /\ b <= b * d
  OBVIOUS
<1> QED BY <1>2, <1>3, <1>4

LEMMA PowerValues ==
    /\ Power[9] = 512 /\ Power[23] = 8388608 /\ Power[32] = 4294967296
    /\ Power[33] = 8589934592 /\ Power[42] = 4398046511104
<1>1. Power[1] = 2
  BY PowerFacts
<1>2. Power[2] = 4
  <2>1. Power[2] = Power[1] * Power[1]
    BY PowerProduct, 2 = 1 + 1
  <2> QED BY <1>1, <2>1, SMT
<1>3. Power[4] = 16
  <2>1. Power[4] = Power[2] * Power[2]
    BY PowerProduct, 4 = 2 + 2
  <2> QED BY <1>2, <2>1, SMT
<1>4. Power[5] = 32
  <2>1. Power[5] = Power[4] * Power[1]
    BY PowerProduct, 5 = 4 + 1
  <2> QED BY <1>1, <1>3, <2>1, SMT
<1>5. Power[9] = 512
  <2>1. Power[9] = Power[5] * Power[4]
    BY PowerProduct, 9 = 5 + 4
  <2> QED BY <1>3, <1>4, <2>1, SMT
<1>6. Power[18] = 262144
  <2>1. Power[18] = Power[9] * Power[9]
    BY PowerProduct, 18 = 9 + 9
  <2> QED BY <1>5, <2>1, SMT
<1>7. Power[23] = 8388608
  <2>1. Power[23] = Power[18] * Power[5]
    BY PowerProduct, 23 = 18 + 5
  <2> QED BY <1>4, <1>6, <2>1, SMT
<1>8. Power[32] = 4294967296
  <2>1. Power[32] = Power[23] * Power[9]
    BY PowerProduct, 32 = 23 + 9
  <2> QED BY <1>5, <1>7, <2>1, SMT
<1>9. Power[33] = 8589934592
  <2>1. Power[33] = Power[32] * Power[1]
    BY PowerProduct, 33 = 32 + 1
  <2> QED BY <1>1, <1>8, <2>1, SMT
<1>10. Power[42] = 4398046511104
  <2>1. Power[42] = Power[33] * Power[9]
    BY PowerProduct, 42 = 33 + 9
  <2> QED BY <1>5, <1>9, <2>1, SMT
<1> QED BY <1>5, <1>7, <1>8, <1>9, <1>10, SMT

\* If a product with 2^k leaves the remainder rest after q multiples of 2^(k+l),
\* the rest is a multiple of 2^k itself, by what a leaves above a multiple of 2^l.
LEMMA RestIsMultiple ==
    ASSUME NEW k \in Nat, NEW l \in Nat, NEW a \in Nat, NEW q \in Nat \ {0},
           NEW rest \in Nat \ {0}, NEW n \in Nat, n = k + l, a * Power[k] = q * Power[n] + rest
    PROVE  a - q * Power[l] > 0 /\ rest = Power[k] * (a - q * Power[l])
<1>1. PICK p \in Nat \ {0}, c \in Nat \ {0} : p = Power[k] /\ c = Power[l]
  BY PowerFacts
<1>2. a * p = q * (p * c) + rest
  <2>1. Power[n] = Power[k] * Power[l]
    BY PowerProduct
  <2> QED BY <1>1, <2>1
<1>3. PICK r \in Int : r = a - q * c
  OBVIOUS
<1>4. p * (a - q * c) = a * p - q * (p * c)
  OBVIOUS
<1>5. rest = p * r
  BY <1>2, <1>3, <1>4
<1>6. r > 0
  <2>1. r <= 0 => p * r <= 0
    OBVIOUS
  <2> QED BY <1>5, <2>1
<1> QED BY <1>1, <1>3, <1>5, <1>6

\* An hour or less in nanoseconds, times a power of two below 2^64, wrapped around
\* at 2^64, is never a positive number below an hour.
WrapsTo(secs, k, q, rest) == (secs * 1000000000) * Power[k] = q * Power[64] + rest

IsLong(rest) == rest >= 3600000000000

LEMMA WrappedIsLong ==
    ASSUME NEW secs \in Nat, NEW k \in Nat, NEW q \in Nat, NEW rest \in Nat,
           0 < secs, secs <= 3600, k <= 64, 0 < q, 0 < rest, WrapsTo(secs, k, q, rest)
    PROVE  IsLong(rest)
<1>1. SUFFICES ASSUME rest < 3600000000000
               PROVE  FALSE
  BY SMT DEF IsLong
<1>2. PICK a \in Nat : a = secs * 1000000000 /\ a <= 3600000000000 /\ rest < 3600000000000
  BY <1>1, SMT
<1>11. PICK l \in Nat : k \in Nat /\ 64 = k + l
  BY 64 - k \in Nat, SMT
<1> DEFINE p == Power[k]
           c == Power[l]
           r == a - q * c
<1>3. p \in Nat /\ c \in Nat
  BY <1>11, PowerType, SMT
<1>4. r \in Nat \ {0} /\ rest = p * r
  <2>1. 64 \in Nat /\ a * Power[k] = q * Power[64] + rest
    BY <1>2, SMT DEF WrapsTo
  <2>2. a - q * Power[l] > 0
    BY <1>11, <2>1, RestIsMultiple, SMT
  <2>3. rest = Power[k] * (a - q * Power[l])
    BY <1>11, <2>1, RestIsMultiple, SMT
  <2> QED BY <1>3, <2>2, <2>3, SMT
<1>5. a = q * c + r
  BY <1>3, SMT
<1> HIDE DEF p, c, r
<1>6. p <= rest /\ c <= a
  <2>1. p <= p * r /\ c <= q * c
    BY <1>3, <1>4, SMT
  <2>2. PICK b \in Nat : b = q * c
    BY <1>3, SMT
  <2> QED BY <1>3, <1>4, <1>5, <2>1, <2>2, SMT
\* The cofactor c is at most an hour and the power p is below one: k is 23 to 41.
<1>7. k >= 23
  <2>1. SUFFICES ASSUME l >= 42
                 PROVE  FALSE
    BY <1>11, SMT
  <2>2. Power[42] <= c
    BY <1>3, <2>1, PowerDivides, SMT DEF c
  <2>3. 4398046511104 <= c
    BY <2>2, PowerValues, SMT
  <2> QED BY <1>2, <1>3, <1>6, <2>3, SMT
<1>8. k < 42
  <2>1. SUFFICES ASSUME k >= 42
                 PROVE  FALSE
    BY SMT
  <2>2. Power[42] <= p
    BY <1>3, <2>1, PowerDivides, SMT DEF p
  <2>3. 4398046511104 <= p
    BY <2>2, PowerValues, SMT
  <2> QED BY <1>2, <1>3, <1>6, <2>3, SMT
\* Up to 32 the cofactor is a multiple of 2^32 and r is at most 2^42 / 2^23 ...
<1>9. CASE k <= 32
  <2>1. PICK d \in Nat \ {0} : c = d * 4294967296
    <3>1. PICK i \in Nat : l = i + 32
      BY <1>9, <1>11, l - 32 \in Nat, SMT
    <3>2. c = Power[i] * Power[32]
      BY <3>1, PowerProduct, SMT DEF c
    <3>3. Power[i] \in Nat \ {0}
      BY PowerType, SMT
    <3> QED BY <3>2, <3>3, PowerValues, SMT
  <2>2. PICK g \in Nat \ {0} : g = q * d
    BY SMT
  <2>3. a = g * 4294967296 + r
    <3>1. q * (d * 4294967296) = (q * d) * 4294967296
      BY SMT
    <3> QED BY <1>3, <1>4, <1>5, <2>1, <2>2, <3>1, SMT
  <2>4. p >= 8388608
    <3>1. Power[23] <= p
      BY <1>7, PowerDivides, SMT DEF p
    <3> QED BY <3>1, PowerValues, SMT
  <2>5. r * 8388608 <= rest
    BY <1>3, <1>4, <2>4, SMT
  <2> DEFINE u == secs * 1953125 - g * 8388608
  <2>6. u \in Int /\ secs * 1953125 = g * 8388608 + u
    BY SMT
  <2>7. r = 512 * u
    BY <1>2, <1>4, <2>3, SMT
  <2> HIDE DEF u
  <2>8. 1 <= u /\ u <= 838
    BY <1>2, <1>4, <2>5, <2>6, <2>7, SMT
  <2>9. secs \in Int /\ g \in Int /\ 1 <= secs /\ secs <= 3600 /\ 1 <= g
    BY SMT
  <2>10. Spread(secs, g, u)
    BY <2>6, <2>8, <2>9, SecondsAreSpread, SMT
  <2> QED BY <2>6, <2>10, SMT DEF Spread
\* ... and above it is a multiple of 2^9, and r is less than 2^42 / 2^33 = 2^9.
<1>10. CASE k >= 33
  <2>1. PICK d \in Nat \ {0} : c = d * 512
    <3>1. PICK i \in Nat : l = i + 9
      BY <1>8, <1>11, l - 9 \in Nat, SMT
    <3>2. c = Power[i] * Power[9]
      BY <3>1, PowerProduct, SMT DEF c
    <3>3. Power[i] \in Nat \ {0}
      BY PowerType, SMT
    <3> QED BY <3>2, <3>3, PowerValues, SMT
  <2>2. PICK g \in Nat \ {0} : g = q * d
    BY SMT
  <2>3. a = g * 512 + r
    <3>1. q * (d * 512) = (q * d) * 512
      BY SMT
    <3> QED BY <1>3, <1>4, <1>5, <2>1, <2>2, <3>1, SMT
  <2>4. p >= 8589934592
    <3>1. Power[33] <= p
      BY <1>10, PowerDivides, SMT DEF p
    <3> QED BY <3>1, PowerValues, SMT
  <2>5. r * 8589934592 <= rest
    BY <1>3, <1>4, <2>4, SMT
  <2>6. r = 512 * (secs * 1953125 - g)
    BY <1>2, <1>4, <2>3, SMT
  <2>7. 0 < r /\ r < 512
    BY <1>2, <1>4, <2>5, SMT
  <2> QED BY <2>6, <2>7, SMT
<1> QED BY <1>9, <1>10, SMT

\* With the durations the code has - nanoseconds in 64 bits and a maximum of one
\* hour - an overflow never shortens a wait: for every base up to the maximum and
\* every attempt whose exponential would reach it, any wait below it may be drawn.
THEOREM OverflowNeverShortens ==
    ASSUME NEW secs \in Nat \ {0}, NEW n \in Nat \ {0}
    PROVE  GoDurations /\ secs * Second <= MaxDelay /\ Intended(secs, n) >= MaxDelay =>
             Longest(secs, n) = MaxDelay - 1
<1>0. SUFFICES ASSUME GoDurations, secs * Second <= MaxDelay, Intended(secs, n) >= MaxDelay
               PROVE  Longest(secs, n) = MaxDelay - 1
  OBVIOUS
<1>1. /\ Width \in Nat \ {0} /\ MinDelay \in Nat /\ MaxDelay \in Nat /\ MinDelay < MaxDelay
      /\ Second \in Nat
  BY BackoffConstants
<1>2. Width = 64 /\ Second = 1000000000 /\ MaxDelay = 3600000000000
  BY <1>0, SMT DEF GoDurations
<1>3. PICK a \in Nat : a = secs * Second
  BY <1>1
<1>4. a <= MaxDelay
  BY <1>0, <1>3
<1>5. PICK k \in Nat : n = k + 1
  <2>1. n - 1 \in Nat /\ n = (n - 1) + 1
    OBVIOUS
  <2> QED BY <2>1, Zenon
<1> DEFINE s == Shifted(secs, n)
<1>6. Intended(secs, n) = a * Power[k]
  <2>1. n - 1 = k
    BY <1>5
  <2>2. Intended(secs, n) = a * 2^k
    BY <1>3, <2>1 DEF Intended
  <2> QED BY <2>2, PowerFacts
<1>7. Wrap(a) = a
  <2>1. a < 2^(Width - 1)
    <3>1. PICK h \in Nat : h = 2^(Width - 1)
      BY <1>1, PowerIsCount, Width - 1 \in Nat
    <3>2. MaxDelay < h
      BY <3>1, BackoffConstants
    <3>3. a < h
      BY <1>1, <1>4, <3>2
    <3> QED BY <3>1, <3>3
  <2> QED BY <2>1, WrapFits
<1>8. s = IF n > Width THEN 0 ELSE Wrap(a * Power[k])
  <2>1. n - 1 = k
    BY <1>5
  <2>2. s = IF n > Width THEN 0 ELSE Wrap(Wrap(a) * 2^k)
    BY <1>3, <2>1 DEF Shifted
  <2> QED BY <1>7, <2>2, PowerFacts
<1> HIDE DEF s
\* Such a product is not wrapped, or wrapped to nothing, a negative number or an
\* hour or more.
<1>9. s \in Int /\ (s <= 0 \/ s >= MaxDelay)
  <2>1. CASE n > Width
    BY <1>8, <2>1
  <2>2. CASE ~(n > Width)
    <3>1. PICK x \in Nat : x = a * Power[k]
      BY PowerType
    <3>2. s = Wrap(x) /\ x >= MaxDelay
      BY <1>0, <1>6, <1>8, <2>2, <3>1
    <3>3. s \in Int
      BY <3>2, WrapFits
    <3>4. PICK q \in Nat : x = q * Power[Width] + s
      <4>1. PICK q \in Nat : x = q * 2^Width + Wrap(x)
        BY WrapFits
      <4>2. Power[Width] = 2^Width
        BY <1>1, PowerFacts
      <4> QED BY <3>2, <4>1, <4>2
    <3>5. CASE q = 0
      <4>1. Power[Width] \in Nat
        BY <1>1, PowerType
      <4>2. x = s
        BY <3>3, <3>4, <3>5, <4>1
      <4> QED BY <3>2, <3>3, <4>2
    <3>6. CASE q # 0 /\ s > 0
      <4>1. 0 < secs /\ secs <= 3600
        BY <1>2, <1>3, <1>4, SMT
      <4>2. k <= 64
        BY <1>2, <1>5, <2>2, SMT
      <4>3. WrapsTo(secs, k, q, s)
        BY <1>2, <1>3, <3>1, <3>4, SMT DEF WrapsTo
      <4>4. 0 < q /\ s \in Nat /\ 0 < s
        BY <3>3, <3>6
      <4>5. IsLong(s)
        BY <4>1, <4>2, <4>3, <4>4, WrappedIsLong
      <4> QED BY <1>2, <3>3, <4>5, SMT DEF IsLong
    <3> QED BY <3>3, <3>5, <3>6
  <2> QED BY <2>1, <2>2
<1>10. Clamp(s) = MaxDelay
  BY <1>1, <1>9 DEF Clamp
<1> QED BY <1>1, <1>10 DEF Longest, s

\* The wait of a retry, on the way

\* A job on a timer, or about to get one, has its attempt counted.
TimersCounted ==
    /\ \A j \in timers : j.retryCount > 0
    /\ \A w \in Workers : pc[w] = "retrying" => job[w].retryCount > 0

LEMMA TimersCountedStep ==
    ASSUME PoolTypeOK, TimersCounted, [PoolNext]_poolVars
    PROVE  TimersCounted'
<1>1. ASSUME NEW w \in Workers, ScheduleRetry(w) PROVE TimersCounted'
  <2>1. job[w] \in TransferJob
    BY <1>1 DEF ScheduleRetry, Goto, PoolTypeOK, Busy
  <2>2. job[w].retryCount \in Nat /\ NextAttempt(job[w]).retryCount = job[w].retryCount + 1
    BY <2>1, NextAttemptType DEF TransferJob
  <2>3. /\ timers' = timers /\ job' = [job EXCEPT ![w] = NextAttempt(job[w])]
        /\ pc' = [pc EXCEPT ![w] = "retrying"]
    BY <1>1 DEF ScheduleRetry, Goto
  <2> QED BY <2>2, <2>3 DEF TimersCounted, PoolTypeOK
<1>2. ASSUME NEW w \in Workers, ArmRetryTimer(w) PROVE TimersCounted'
  <2>1. /\ pc[w] = "retrying" /\ timers' = timers \union {job[w]}
        /\ pc' = [pc EXCEPT ![w] = "lock"] /\ job' = [job EXCEPT ![w] = NoJob]
    BY <1>2 DEF ArmRetryTimer, Return, Goto
  <2> QED BY <2>1 DEF TimersCounted, PoolTypeOK
<1>3. ASSUME NEW w \in Workers, WorkerStep(w) \/ MinioAnswers(w),
             ~ScheduleRetry(w), ~ArmRetryTimer(w)
      PROVE  TimersCounted'
  <2>1. /\ timers' = timers
        /\ \A v \in Workers : pc'[v] = "retrying" => pc[v] = "retrying" /\ job'[v] = job[v]
    BY <1>3 DEF PoolTypeOK, WorkerStep, MinioAnswers, Take, Wait, Exit, StartFirstAttempt,
       StartRetry, AnnounceStarted, Succeed, AnnounceCompleted, Fail, AnnounceFailed,
       GetOk, GetErr, PutOk, PutErr, Goto, Return
  <2> QED BY <2>1 DEF TimersCounted
<1>4. ASSUME NEW j \in timers, RetryTimer(j) PROVE TimersCounted'
  BY <1>4 DEF RetryTimer, TimersCounted
<1>5. CASE Signal
  <2>1. /\ timers' = timers /\ job' = job
        /\ \A v \in Workers : pc'[v] = "retrying" => pc[v] = "retrying"
    BY <1>5 DEF Signal, Goto, PoolTypeOK
  <2> QED BY <2>1 DEF TimersCounted
<1>6. CASE Shutdown
  <2>1. /\ timers' = timers /\ job' = job
        /\ \A v \in Workers : pc'[v] = "retrying" => pc[v] = "retrying"
    BY <1>6 DEF Shutdown, Terminate, StopClose, StopBroadcast, StopReturn, PoolTypeOK
  <2> QED BY <2>1 DEF TimersCounted
<1>7. CASE \/ \E t \in Transfers : Submit(t) \/ AnnounceSubmitted(t)
           \/ CommitBatch \/ Exited \/ UNCHANGED poolVars
  BY <1>7 DEF Submit, AnnounceSubmitted, CommitBatch, Exited, poolVars, TimersCounted
<1> QED BY <1>1, <1>2, <1>3, <1>4, <1>5, <1>6, <1>7 DEF PoolNext, PoolStep

\* Every job that waits for its retry waits as the code means it to, now and in all
\* its attempts to come: at least the minimum, below the maximum, no longer than
\* the exponential, and never shorter because the product left its 64 bits.
THEOREM CopyBackoffIsCapped == GoDurations => (CopySpec => []BackoffIsCappedExponential)
<1>0. SUFFICES ASSUME GoDurations
               PROVE  CopySpec => []BackoffIsCappedExponential
  OBVIOUS
<1>1. PoolInit => TimersCounted
  BY DEF PoolInit, TimersCounted
<1>2. PoolTypeOK /\ TimersCounted /\ [PoolNext]_poolVars => TimersCounted'
  BY TimersCountedStep
<1>3. PoolTypeOK /\ TimersCounted => BackoffIsCappedExponential
  <2> SUFFICES ASSUME PoolTypeOK, TimersCounted,
                      NEW j \in timers, NEW secs \in Bases, NEW n \in j.retryCount..MaxAttempt
               PROVE  /\ Longest(secs, n) \in MinDelay..MaxDelay - 1
                      /\ secs > 0 => \/ Longest(secs, n) = MinDelay
                                     \/ Longest(secs, n) < Intended(secs, n)
                      /\ secs > 0 /\ secs * Second <= MaxDelay /\ Intended(secs, n) >= MaxDelay =>
                           Longest(secs, n) = MaxDelay - 1
    BY Zenon DEF BackoffIsCappedExponential
  <2>1. secs \in Nat /\ MaxAttempt \in Nat
    BY BackoffBounds
  <2>2. n \in Nat \ {0}
    <3>1. j.retryCount \in Nat /\ j.retryCount > 0
      BY DEF PoolTypeOK, TransferJob, TimersCounted
    <3> QED BY <2>1, <3>1
  <2>3. /\ Longest(secs, n) \in MinDelay..MaxDelay - 1
        /\ secs > 0 => Longest(secs, n) = MinDelay \/ Longest(secs, n) < Intended(secs, n)
    BY <2>1, <2>2, BackoffStaysInBounds
  <2>4. ASSUME secs > 0, secs * Second <= MaxDelay, Intended(secs, n) >= MaxDelay
        PROVE  Longest(secs, n) = MaxDelay - 1
    <3>1. secs \in Nat \ {0}
      BY <2>1, <2>4
    <3> QED BY <1>0, <2>2, <2>4, <3>1, OverflowNeverShortens
  <2> QED BY <2>3, <2>4
<1> QED BY <1>1, <1>2, <1>3, CopyImplementsPool, PoolTypeCorrect, PTL DEF PoolSpec
=============================================================================
