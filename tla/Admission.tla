------------------------------ MODULE Admission -----------------------------
(***************************************************************************)
(* What a webhook request goes through before its records are looked at:   *)
(* the first half of ServeHTTP (internal/webhook/handler.go), the cache of *)
(* resolved apps (appcache.go) and the token check (validator.go), while   *)
(* the API of Registry changes groups and apps underneath.                 *)
(*                                                                         *)
(* Time passes in ticks.  A request may take up to Lag ticks between its   *)
(* query and Set; Get, Verify and what is between them take none.  A name  *)
(* is assumed to have no colon, so that the cache's key "group:app" stands *)
(* for the route.                                                          *)
(***************************************************************************)
EXTENDS Registry

CONSTANTS
    Hooks,       \* webhook request goroutines
    Routes,      \* the <<group slug, app slug>> pairs of their URLs
    TTL,         \* appCacheTTL
    Lag,         \* bound: ticks between a query and the Set that follows
    MaxTime      \* bound: ticks

ASSUME RoutesAreNames == Routes \subseteq Names \X Names
ASSUME TimesNat       == {TTL, Lag, MaxTime} \subseteq Nat

VARIABLES
    now,
    cache,       \* appCache.entries
    hk,          \* each request's position
    url, token,  \* the route it came by, the Authorization it carries
    snap,        \* the decrypted app it goes by
    readAt,      \* when it queried the database
    changed      \* when what a route to each app leads to last changed

hookVars == <<cache, hk, url, token, snap, readAt>>
admVars  == <<regVars, now, hookVars, changed>>

\* decryptAppCreds: a copy of the row with the secrets opened.
DecryptAppCreds(row) ==
    [row EXCEPT !.side = [s \in Sides |-> [@[s] EXCEPT !.secret = Decrypt(@)]]]

\* An app's webhook secret is random, so the app's id stands for it.
OpenApp    == {DecryptAppCreds(r) : r \in App}
Entry      == [id : AppIds, app : OpenApp]
CacheEntry == [id : AppIds, app : OpenApp, expires : 0..MaxTime + TTL]

\* GetAppByRoute: the app that {group name}/{app name} leads to now.
Lookup(r) ==
    {a \in AppIds : HasApp(a) /\ group[app[a].group].name = r[1] /\ app[a].name = r[2]}

DbKept == UNCHANGED <<regVars, now, changed>>

HookGoto(h, from, to) == hk[h] = from /\ hk' = [hk EXCEPT ![h] = to]

\* The request is answered and its goroutine is gone.
Reply(h, from) ==
    /\ HookGoto(h, from, "free")
    /\ url' = [url EXCEPT ![h] = Absent] /\ token' = [token EXCEPT ![h] = Absent]
    /\ snap' = [snap EXCEPT ![h] = Absent] /\ readAt' = [readAt EXCEPT ![h] = 0]
    /\ cache' = cache

-----------------------------------------------------------------------------
Arrive(h) ==
    /\ HookGoto(h, "free", "get")
    /\ \E r \in Routes, a \in AppIds \union {Absent} :
         url' = [url EXCEPT ![h] = r] /\ token' = [token EXCEPT ![h] = a]
    /\ DbKept /\ UNCHANGED <<cache, snap, readAt>>

\* appCache.Get: an entry counts until its expiry has passed.
Fresh(r) == cache[r] # Absent /\ now <= cache[r].expires

\* Variant: a hit prolongs the entry.
CacheHitSlides(h) ==
    /\ HookGoto(h, "get", "verify")
    /\ Fresh(url[h])
    /\ snap' = [snap EXCEPT ![h] = [id |-> cache[url[h]].id, app |-> cache[url[h]].app]]
    /\ cache' = [cache EXCEPT ![url[h]].expires = now + TTL]
    /\ DbKept /\ UNCHANGED <<url, token, readAt>>

CacheHit(h) ==
    /\ HookGoto(h, "get", "verify")
    /\ Fresh(url[h])
    /\ snap' = [snap EXCEPT ![h] = [id |-> cache[url[h]].id, app |-> cache[url[h]].app]]
    /\ DbKept /\ UNCHANGED <<cache, url, token, readAt>>

\* Variant: the credentials are not decrypted.
ResolveSealed(h) ==
    /\ HookGoto(h, "get", "set")
    /\ ~Fresh(url[h])
    /\ \E a \in Lookup(url[h]) :
         /\ app[a].enabled
         /\ snap' = [snap EXCEPT ![h] = [id |-> a, app |-> app[a]]]
    /\ readAt' = [readAt EXCEPT ![h] = now]
    /\ DbKept /\ UNCHANGED <<cache, url, token>>

\* The query found an enabled app, and its credentials are decrypted.
Resolve(h) ==
    /\ HookGoto(h, "get", "set")
    /\ ~Fresh(url[h])
    /\ \E a \in Lookup(url[h]) :
         /\ app[a].enabled
         /\ snap' = [snap EXCEPT ![h] = [id |-> a, app |-> DecryptAppCreds(app[a])]]
    /\ readAt' = [readAt EXCEPT ![h] = now]
    /\ DbKept /\ UNCHANGED <<cache, url, token>>

\* No app, or a disabled one: 404.
NotFound(h) ==
    /\ Reply(h, "get")
    /\ ~Fresh(url[h])
    /\ \A a \in Lookup(url[h]) : ~app[a].enabled
    /\ DbKept

\* The query (404) or the decryption (500) returns an error.
LookupFails(h) ==
    /\ Reply(h, "get")
    /\ ~Fresh(url[h])
    /\ DbKept

CacheSet(h) ==
    /\ HookGoto(h, "set", "verify")
    /\ cache' = [cache EXCEPT ![url[h]] =
                   [id |-> snap[h].id, app |-> snap[h].app, expires |-> now + TTL]]
    /\ DbKept /\ UNCHANGED <<url, token, snap, readAt>>

\* Verify against the secret of the app in hand, cached or not.
VerifyOk(h) ==
    /\ HookGoto(h, "verify", "records")
    /\ token[h] = snap[h].id
    /\ DbKept /\ UNCHANGED <<cache, url, token, snap, readAt>>

Unauthorized(h) ==
    /\ Reply(h, "verify")
    /\ token[h] # snap[h].id
    /\ DbKept

\* The record loop INSERTs for the app in hand; if the app is gone the INSERT
\* fails on its reference and the answer is 500.
Record(h) ==
    /\ Reply(h, "records")
    /\ \E t \in TransferIds : CreateTransfer(t, snap[h].id)
    /\ UNCHANGED <<now, changed>>

\* Nothing is inserted: every record was skipped, or the INSERT failed.
NoRecord(h) ==
    /\ Reply(h, "records")
    /\ DbKept

\* appCache.cleanup drops what has expired.
Cleanup ==
    /\ cache' = [r \in Routes |-> IF Fresh(r) THEN cache[r] ELSE Absent]
    /\ UNCHANGED <<regVars, now, changed, hk, url, token, snap, readAt>>

Tick ==
    /\ now < MaxTime
    /\ \A h \in Hooks : /\ hk[h] # "verify"
                        /\ hk[h] = "set" => now < readAt[h] + Lag
    /\ now' = now + 1
    /\ UNCHANGED <<regVars, hookVars, changed>>

\* A step of the API, and the apps whose routes it changed.
ApiMoves ==
    /\ \/ \E r \in Requests : ApiStep(r)
       \/ \E t \in TransferIds : FinishTransfer(t)
    /\ changed' = [a \in AppIds |->
         IF \/ app'[a] # app[a]
            \/ HasApp(a) /\ group'[app[a].group] # group[app[a].group]
         THEN now ELSE changed[a]]
    /\ UNCHANGED <<now, hookVars>>

-----------------------------------------------------------------------------
AdmInit ==
    /\ RegInit
    /\ now = 0
    /\ cache = [r \in Routes |-> Absent]
    /\ hk = [h \in Hooks |-> "free"]
    /\ url = [h \in Hooks |-> Absent] /\ token = [h \in Hooks |-> Absent]
    /\ snap = [h \in Hooks |-> Absent] /\ readAt = [h \in Hooks |-> 0]
    /\ changed = [a \in AppIds |-> 0]

HookStep(h) ==
    \/ Arrive(h) \/ CacheHit(h) \/ Resolve(h) \/ NotFound(h) \/ LookupFails(h)
    \/ CacheSet(h) \/ VerifyOk(h) \/ Unauthorized(h) \/ Record(h) \/ NoRecord(h)

AdmNext == (\E h \in Hooks : HookStep(h)) \/ Cleanup \/ Tick \/ ApiMoves

AdmSpec == AdmInit /\ [][AdmNext]_admVars

-----------------------------------------------------------------------------
\* Properties

\* Every variable of a webhook request has its type.
AdmissionTypeOK ==
    /\ now \in 0..MaxTime
    /\ cache \in [Routes -> CacheEntry \union {Absent}]
    /\ hk \in [Hooks -> {"free", "get", "set", "verify", "records"}]
    /\ url \in [Hooks -> Routes \union {Absent}]
    /\ token \in [Hooks -> AppIds \union {Absent}]
    /\ snap \in [Hooks -> Entry \union {Absent}]
    /\ readAt \in [Hooks -> 0..MaxTime] /\ changed \in [AppIds -> 0..MaxTime]
    /\ \A h \in Hooks :
         /\ hk[h] # "free" => url[h] \in Routes
         /\ hk[h] \in {"set", "verify", "records"} => snap[h] \in Entry

\* What the request goes by is what its route leads to now.
UpToDate(h) ==
    LET a == snap[h].id IN
    a \in Lookup(url[h]) /\ app[a].enabled /\ DecryptAppCreds(app[a]) = snap[h].app

\* A request is let in, or turned away, by outdated data for a limited time only:
\* an app that was disabled, deleted, renamed or given new settings is seen as it
\* was for at most the cache's TTL and one slow query.
StaleAtMostTTL ==
    [][\A h \in Hooks : hk[h] = "verify" /\ hk'[h] # "verify" =>
         UpToDate(h) \/ now - changed[snap[h].id] <= TTL + Lag]_admVars
=============================================================================
