--------------------------- MODULE AdmissionProofs ---------------------------
(***************************************************************************)
(* Proofs about the app cache and the token check, for any API traffic,    *)
(* any set of webhook requests and routes, any TTL and any slow query.     *)
(***************************************************************************)
EXTENDS Admission, RegistryProofs

\* The inductive invariant, part by part.

\* A copy of an app, taken by a route, is what the route leads to now.
Current(r, id, copy) ==
    id \in Lookup(r) /\ app[id].enabled /\ DecryptAppCreds(app[id]) = copy

\* An entry outlives a change of its app by the TTL and one slow query at most.
CacheBounded ==
    \A r \in Routes : cache[r] # Absent =>
        /\ cache[r].expires <= now + TTL
        /\ \/ Current(r, cache[r].id, cache[r].app)
           \/ cache[r].expires <= changed[cache[r].id] + TTL + Lag

\* What a request has queried was right when it did.
QueryBounded ==
    \A h \in Hooks : hk[h] = "set" =>
        /\ readAt[h] <= now /\ now <= readAt[h] + Lag
        /\ \/ Current(url[h], snap[h].id, snap[h].app)
           \/ readAt[h] <= changed[snap[h].id]

\* What a request is verified against is current, or was not long ago.
VerifyBounded ==
    \A h \in Hooks : hk[h] = "verify" =>
        \/ Current(url[h], snap[h].id, snap[h].app)
        \/ now - changed[snap[h].id] <= TTL + Lag

\* No change is in the future.
ChangedBefore == \A a \in AppIds : changed[a] <= now

AdmInv ==
    /\ RegInv /\ AdmissionTypeOK
    /\ CacheBounded /\ QueryBounded /\ VerifyBounded /\ ChangedBefore

-----------------------------------------------------------------------------
\* Entries of the cache and copies in hand: types of what is built and read.
LEMMA EntryTypes ==
    /\ \A a \in AppIds, x \in OpenApp : [id |-> a, app |-> x] \in Entry
    /\ \A a \in AppIds, x \in OpenApp, e \in 0..MaxTime + TTL :
         [id |-> a, app |-> x, expires |-> e] \in CacheEntry
    /\ \A e \in Entry : e.id \in AppIds /\ e.app \in OpenApp
    /\ \A e \in CacheEntry :
         e.id \in AppIds /\ e.app \in OpenApp /\ e.expires \in 0..MaxTime + TTL
    /\ \A x \in App : DecryptAppCreds(x) \in OpenApp
  BY DEF Entry, CacheEntry, OpenApp

\* A copy stays current as long as its app and the app's group do not change.
LEMMA CurrentKept ==
    ASSUME NEW r, NEW id \in AppIds, NEW copy, Current(r, id, copy),
           app'[id] = app[id], group'[app[id].group] = group[app[id].group]
    PROVE  Current(r, id, copy)'
  BY DEF Current, Lookup, HasApp

\* Before the first request there is nothing to be wrong.
LEMMA AdmInvInit == AdmInit => AdmInv
<1> SUFFICES ASSUME AdmInit PROVE AdmInv
  OBVIOUS
<1> USE TimesNat DEF AdmInit
<1>1. RegInv
  BY RegInvInit
<1>2. AdmissionTypeOK
  <2>1. now \in 0..MaxTime /\ changed \in [AppIds -> 0..MaxTime]
    OBVIOUS
  <2>2. /\ hk \in [Hooks -> {"free", "get", "set", "verify", "records"}]
        /\ readAt \in [Hooks -> 0..MaxTime]
    OBVIOUS
  <2> QED
    BY <2>1, <2>2 DEF AdmissionTypeOK
<1>3. CacheBounded /\ QueryBounded /\ VerifyBounded /\ ChangedBefore
  BY DEF CacheBounded, QueryBounded, VerifyBounded, ChangedBefore
<1> QED
  BY <1>1, <1>2, <1>3 DEF AdmInv

\* Answering a request, with or without a new transfer row, keeps the invariant.
LEMMA ReplyKeeps ==
    ASSUME AdmInv, NEW h \in Hooks, NEW from, Reply(h, from),
           RegInv', UNCHANGED <<group, app, now, changed>>
    PROVE  AdmInv'
<1> USE TimesNat DEF AdmInv
<1>1. AdmissionTypeOK'
  BY DEF Reply, HookGoto, AdmissionTypeOK
<1>2. /\ \A k \in Hooks : hk'[k] # "free" => k # h
      /\ \A k \in Hooks \ {h} : /\ hk'[k] = hk[k] /\ url'[k] = url[k] /\ snap'[k] = snap[k]
                                /\ readAt'[k] = readAt[k]
      /\ cache' = cache
  BY DEF Reply, HookGoto, AdmissionTypeOK
<1>3. \A r, id, copy : Current(r, id, copy)' <=> Current(r, id, copy)
  BY DEF Current, Lookup, HasApp
<1>4. CacheBounded'
  BY <1>2, <1>3 DEF CacheBounded
<1>5. QueryBounded'
  BY <1>2, <1>3 DEF QueryBounded
<1>6. VerifyBounded'
  BY <1>2, <1>3 DEF VerifyBounded
<1> QED
  BY <1>1, <1>4, <1>5, <1>6 DEF ChangedBefore

\* The steps of a webhook request keep it.
LEMMA AdmInvHook ==
    ASSUME AdmInv, NEW h \in Hooks, HookStep(h) PROVE AdmInv'
<1> USE TimesNat DEF AdmInv
<1>0. ASSUME DbKept
      PROVE  /\ RegInv' /\ now' = now /\ changed' = changed /\ ChangedBefore'
             /\ group' = group /\ app' = app
             /\ \A r, id, copy : Current(r, id, copy)' <=> Current(r, id, copy)
  <2>1. UNCHANGED regVars /\ now' = now /\ changed' = changed
    BY <1>0 DEF DbKept
  <2>2. group' = group /\ app' = app
    BY <2>1 DEF regVars
  <2>3. \A r, id, copy : Current(r, id, copy)' <=> Current(r, id, copy)
    BY <2>2 DEF Current, Lookup, HasApp
  <2> QED
    BY <2>1, <2>2, <2>3, RegInvNext DEF ChangedBefore
<1>1. ASSUME Arrive(h) PROVE AdmInv'
  <2>1. PICK r \in Routes, a \in AppIds \union {Absent} :
          url' = [url EXCEPT ![h] = r] /\ token' = [token EXCEPT ![h] = a]
    BY <1>1 DEF Arrive
  <2>2. /\ DbKept /\ hk' = [hk EXCEPT ![h] = "get"] /\ UNCHANGED <<cache, snap, readAt>>
        /\ hk[h] = "free"
    BY <1>1 DEF Arrive, HookGoto
  <2>3. AdmissionTypeOK'
    BY <1>0, <2>1, <2>2 DEF AdmissionTypeOK
  <2>4. \A k \in Hooks : hk'[k] \in {"set", "verify"} => hk'[k] = hk[k] /\ url'[k] = url[k]
    BY <2>1, <2>2 DEF AdmissionTypeOK
  <2>5. CacheBounded' /\ QueryBounded' /\ VerifyBounded'
    BY <1>0, <2>2, <2>4 DEF CacheBounded, QueryBounded, VerifyBounded
  <2> QED
    BY <1>0, <2>2, <2>3, <2>5
<1>2. ASSUME CacheHit(h) PROVE AdmInv'
  <2> DEFINE e == cache[url[h]]
             copy == [id |-> e.id, app |-> e.app]
  <2>1. /\ DbKept /\ hk' = [hk EXCEPT ![h] = "verify"] /\ UNCHANGED <<cache, url, token, readAt>>
        /\ hk[h] = "get" /\ snap' = [snap EXCEPT ![h] = copy]
        /\ e # Absent /\ now <= e.expires
    BY <1>2 DEF CacheHit, HookGoto, Fresh
  <2>2. url[h] \in Routes /\ e \in CacheEntry
    BY <2>1 DEF AdmissionTypeOK
  <2>3. copy \in Entry /\ copy.id = e.id /\ copy.app = e.app
    BY <2>2, EntryTypes
  <2>4. \/ Current(url[h], e.id, e.app)
        \/ now - changed[e.id] <= TTL + Lag
    <3>1. /\ e.expires \in Nat /\ changed[e.id] \in Nat /\ now \in Nat
      BY <2>2, EntryTypes DEF AdmissionTypeOK
    <3>2. \/ Current(url[h], e.id, e.app)
          \/ e.expires <= changed[e.id] + TTL + Lag
      BY <2>1, <2>2 DEF CacheBounded
    <3> QED
      BY <2>1, <3>1, <3>2
  <2> HIDE DEF copy, e
  <2>5. AdmissionTypeOK'
    BY <1>0, <2>1, <2>2, <2>3 DEF AdmissionTypeOK
  <2>6. /\ snap'[h] = copy /\ hk'[h] = "verify"
        /\ \A k \in Hooks \ {h} : snap'[k] = snap[k] /\ hk'[k] = hk[k]
    BY <2>1 DEF AdmissionTypeOK
  <2>7. CacheBounded' /\ QueryBounded'
    BY <1>0, <2>1, <2>6 DEF CacheBounded, QueryBounded
  <2>8. VerifyBounded'
    BY <1>0, <2>1, <2>3, <2>4, <2>6 DEF VerifyBounded
  <2> QED
    BY <1>0, <2>1, <2>5, <2>7, <2>8
<1>3. ASSUME Resolve(h) PROVE AdmInv'
  <2>1. PICK a \in Lookup(url[h]) :
          /\ app[a].enabled
          /\ snap' = [snap EXCEPT ![h] = [id |-> a, app |-> DecryptAppCreds(app[a])]]
    BY <1>3 DEF Resolve
  <2> DEFINE copy == [id |-> a, app |-> DecryptAppCreds(app[a])]
  <2>2. /\ DbKept /\ hk' = [hk EXCEPT ![h] = "set"] /\ UNCHANGED <<cache, url, token>>
        /\ hk[h] = "get" /\ readAt' = [readAt EXCEPT ![h] = now]
    BY <1>3 DEF Resolve, HookGoto
  <2>3. a \in AppIds /\ app[a] \in App
    BY <2>1 DEF Lookup, HasApp, RegInv, RegistryTypeOK
  <2>4. copy \in Entry /\ Current(url[h], copy.id, copy.app)
    BY <2>1, <2>3, EntryTypes DEF Current
  <2>5. snap' = [snap EXCEPT ![h] = copy]
    BY <2>1
  <2> HIDE DEF copy
  <2>6. AdmissionTypeOK'
    BY <1>0, <2>2, <2>4, <2>5 DEF AdmissionTypeOK
  <2>7. /\ snap'[h] = copy /\ hk'[h] = "set" /\ readAt'[h] = now
        /\ \A k \in Hooks \ {h} : /\ snap'[k] = snap[k] /\ hk'[k] = hk[k]
                                  /\ readAt'[k] = readAt[k]
    BY <2>2, <2>5 DEF AdmissionTypeOK
  <2>8. CacheBounded' /\ VerifyBounded'
    BY <1>0, <2>2, <2>7 DEF CacheBounded, VerifyBounded
  <2>9. now <= now /\ now <= now + Lag
    BY DEF AdmissionTypeOK
  <2>10. QueryBounded'
    BY <1>0, <2>2, <2>4, <2>7, <2>9 DEF QueryBounded
  <2> QED
    BY <1>0, <2>2, <2>6, <2>8, <2>10
<1>4. ASSUME NotFound(h) \/ LookupFails(h) \/ Unauthorized(h) \/ NoRecord(h) PROVE AdmInv'
  <2>1. DbKept /\ \E from \in {"get", "verify", "records"} : Reply(h, from)
    BY <1>4 DEF NotFound, LookupFails, Unauthorized, NoRecord
  <2> QED
    BY <1>0, <2>1, ReplyKeeps
<1>5. ASSUME CacheSet(h) PROVE AdmInv'
  <2> DEFINE r == url[h]
             e == [id |-> snap[h].id, app |-> snap[h].app, expires |-> now + TTL]
  <2>1. /\ DbKept /\ hk' = [hk EXCEPT ![h] = "verify"] /\ UNCHANGED <<url, token, snap, readAt>>
        /\ hk[h] = "set" /\ cache' = [cache EXCEPT ![r] = e]
    BY <1>5 DEF CacheSet, HookGoto
  <2>2. /\ r \in Routes /\ snap[h] \in Entry /\ now \in Nat /\ now + TTL \in 0..MaxTime + TTL
        /\ readAt[h] \in Nat
    BY <2>1 DEF AdmissionTypeOK
  <2>3. /\ e \in CacheEntry /\ e.id = snap[h].id /\ e.app = snap[h].app
        /\ e.expires = now + TTL /\ snap[h].id \in AppIds
    BY <2>2, EntryTypes
  <2>4. changed[snap[h].id] \in Nat
    BY <2>3 DEF AdmissionTypeOK
  <2>5. /\ now <= readAt[h] + Lag
        /\ \/ Current(r, e.id, e.app)
           \/ readAt[h] <= changed[snap[h].id]
    BY <2>1, <2>3 DEF QueryBounded
  <2>6. \/ Current(r, e.id, e.app)
        \/ /\ now + TTL <= changed[snap[h].id] + TTL + Lag
           /\ now - changed[snap[h].id] <= TTL + Lag
    BY <2>2, <2>4, <2>5
  <2> HIDE DEF e, r
  <2>7. AdmissionTypeOK'
    BY <1>0, <2>1, <2>2, <2>3 DEF AdmissionTypeOK
  <2>8. cache'[r] = e /\ \A q \in Routes \ {r} : cache'[q] = cache[q]
    BY <2>1, <2>2 DEF AdmissionTypeOK
  <2>9. hk'[h] = "verify" /\ \A k \in Hooks \ {h} : hk'[k] = hk[k]
    BY <2>1 DEF AdmissionTypeOK
  <2>10. CacheBounded'
    <3>1. now + TTL <= now + TTL
      BY <2>2
    <3> QED
      BY <1>0, <2>1, <2>3, <2>6, <2>8, <3>1 DEF CacheBounded
  <2>11. QueryBounded'
    BY <1>0, <2>1, <2>9 DEF QueryBounded
  <2>12. VerifyBounded'
    BY <1>0, <2>1, <2>3, <2>6, <2>9 DEF VerifyBounded, r
  <2> QED
    BY <1>0, <2>1, <2>7, <2>10, <2>11, <2>12
<1>6. ASSUME VerifyOk(h) PROVE AdmInv'
  <2>1. /\ DbKept /\ hk' = [hk EXCEPT ![h] = "records"]
        /\ UNCHANGED <<cache, url, token, snap, readAt>> /\ hk[h] = "verify"
    BY <1>6 DEF VerifyOk, HookGoto
  <2>2. AdmissionTypeOK'
    BY <1>0, <2>1 DEF AdmissionTypeOK
  <2>3. \A k \in Hooks : hk'[k] \in {"set", "verify"} => hk'[k] = hk[k]
    BY <2>1 DEF AdmissionTypeOK
  <2>4. CacheBounded' /\ QueryBounded' /\ VerifyBounded'
    BY <1>0, <2>1, <2>3 DEF CacheBounded, QueryBounded, VerifyBounded
  <2> QED
    BY <1>0, <2>1, <2>2, <2>4
<1>7. ASSUME Record(h) PROVE AdmInv'
  <2>1. PICK t \in TransferIds : CreateTransfer(t, snap[h].id)
    BY <1>7 DEF Record
  <2>2. Reply(h, "records") /\ now' = now /\ changed' = changed
    BY <1>7 DEF Record
  <2>3. snap[h].id \in AppIds
    BY <2>2, EntryTypes DEF Reply, HookGoto, AdmissionTypeOK
  <2>4. RegInv' /\ group' = group /\ app' = app
    BY <2>1, <2>3, RegInvTransfers DEF CreateTransfer
  <2> QED
    BY <2>2, <2>4, ReplyKeeps
<1> QED
  BY <1>1, <1>2, <1>3, <1>4, <1>5, <1>6, <1>7 DEF HookStep

\* So do the cache's cleanup, the clock, and every request of the API.
LEMMA AdmInvNext == AdmInv /\ [AdmNext]_admVars => AdmInv'
<1> SUFFICES ASSUME AdmInv, [AdmNext]_admVars PROVE AdmInv'
  OBVIOUS
<1> USE TimesNat DEF AdmInv
<1>0. ASSUME UNCHANGED regVars
      PROVE  /\ RegInv'
             /\ \A r, id, copy : Current(r, id, copy)' <=> Current(r, id, copy)
  BY <1>0, RegInvNext DEF regVars, Current, Lookup, HasApp
<1>1. ASSUME Cleanup PROVE AdmInv'
  <2>1. /\ UNCHANGED regVars /\ UNCHANGED <<now, changed, hk, url, token, snap, readAt>>
        /\ \A r \in Routes : cache'[r] = cache[r] \/ cache'[r] = Absent
    BY <1>1 DEF Cleanup
  <2>2. AdmissionTypeOK'
    <3>1. cache' \in [Routes -> CacheEntry \union {Absent}]
      BY <1>1 DEF Cleanup, AdmissionTypeOK
    <3> QED
      BY <2>1, <3>1 DEF AdmissionTypeOK
  <2>3. CacheBounded' /\ QueryBounded' /\ VerifyBounded' /\ ChangedBefore'
    BY <1>0, <2>1 DEF CacheBounded, QueryBounded, VerifyBounded, ChangedBefore
  <2> QED
    BY <1>0, <2>1, <2>2, <2>3
<1>2. ASSUME Tick PROVE AdmInv'
  <2>1. /\ UNCHANGED regVars /\ UNCHANGED <<cache, hk, url, token, snap, readAt, changed>>
        /\ now' = now + 1 /\ now < MaxTime
        /\ \A h \in Hooks : hk[h] # "verify" /\ (hk[h] = "set" => now < readAt[h] + Lag)
    BY <1>2 DEF Tick, hookVars
  <2>2. AdmissionTypeOK'
    BY <2>1 DEF AdmissionTypeOK
  <2>3. ChangedBefore' /\ VerifyBounded'
    BY <2>1 DEF AdmissionTypeOK, ChangedBefore, VerifyBounded
  <2>4. QueryBounded'
    <3>1. ASSUME NEW h \in Hooks, hk[h] = "set"
          PROVE  readAt[h] <= now' /\ now' <= readAt[h] + Lag
      BY <2>1, <3>1 DEF AdmissionTypeOK, QueryBounded
    <3> QED
      BY <1>0, <2>1, <3>1 DEF QueryBounded
  <2>5. CacheBounded'
    <3>1. ASSUME NEW r \in Routes, cache[r] # Absent PROVE cache[r].expires <= now' + TTL
      <4>1. cache[r].expires \in Nat /\ now \in Nat /\ cache[r].expires <= now + TTL
        BY <3>1, EntryTypes DEF AdmissionTypeOK, CacheBounded
      <4> QED
        BY <2>1, <4>1
    <3> QED
      BY <1>0, <2>1, <3>1 DEF CacheBounded
  <2> QED
    BY <1>0, <2>1, <2>2, <2>3, <2>4, <2>5
<1>3. ASSUME ApiMoves PROVE AdmInv'
  <2>1. RegNext /\ UNCHANGED <<now, cache, hk, url, token, snap, readAt>>
    BY <1>3 DEF ApiMoves, RegNext, hookVars
  <2>2. RegInv'
    BY <2>1, RegInvNext
  <2>3. ASSUME NEW a \in AppIds
        PROVE  /\ changed'[a] = now \/ changed'[a] = changed[a]
               /\ changed'[a] # now => /\ app'[a] = app[a]
                                       /\ HasApp(a) => group'[app[a].group] = group[app[a].group]
    BY <1>3 DEF ApiMoves
  <2>4. now \in Nat /\ \A a \in AppIds : changed[a] \in Nat /\ changed[a] <= now
    BY DEF AdmissionTypeOK, ChangedBefore
  <2>5. \A a \in AppIds : /\ changed'[a] \in Nat /\ changed[a] <= changed'[a]
                          /\ changed'[a] <= now
    BY <2>3, <2>4
  <2>6. AdmissionTypeOK'
    <3>1. changed' \in [AppIds -> 0..MaxTime]
      BY <1>3 DEF ApiMoves, AdmissionTypeOK
    <3> QED
      BY <2>1, <3>1 DEF AdmissionTypeOK
  <2>7. ASSUME NEW r, NEW a \in AppIds, NEW copy, Current(r, a, copy)
        PROVE  Current(r, a, copy)' \/ changed'[a] = now
    <3>1. HasApp(a)
      BY <2>7 DEF Current, Lookup
    <3> QED
      BY <2>3, <2>7, <3>1, CurrentKept
  <2>8. CacheBounded'
    <3> SUFFICES ASSUME NEW r \in Routes, cache[r] # Absent
                 PROVE  /\ cache[r].expires <= now + TTL
                        /\ \/ Current(r, cache[r].id, cache[r].app)'
                           \/ cache[r].expires <= changed'[cache[r].id] + TTL + Lag
      BY <2>1 DEF CacheBounded
    <3> DEFINE e == cache[r].expires
               a == cache[r].id
    <3>1. a \in AppIds /\ e \in Nat /\ e <= now + TTL
      BY EntryTypes DEF AdmissionTypeOK, CacheBounded
    <3>2. CASE Current(r, a, cache[r].app)
      <4>1. CASE changed'[a] = now
        BY <2>4, <3>1, <4>1
      <4> QED
        BY <2>1, <2>7, <3>1, <3>2, <4>1
    <3>3. CASE e <= changed[a] + TTL + Lag
      BY <2>4, <2>5, <3>1, <3>3
    <3> QED
      BY <3>1, <3>2, <3>3 DEF CacheBounded
  <2>9. QueryBounded'
    <3> SUFFICES ASSUME NEW h \in Hooks, hk[h] = "set"
                 PROVE  /\ readAt[h] <= now /\ now <= readAt[h] + Lag
                        /\ \/ Current(url[h], snap[h].id, snap[h].app)'
                           \/ readAt[h] <= changed'[snap[h].id]
      BY <2>1 DEF QueryBounded
    <3> DEFINE a == snap[h].id
    <3>1. a \in AppIds /\ readAt[h] \in Nat /\ readAt[h] <= now /\ now <= readAt[h] + Lag
      BY EntryTypes DEF AdmissionTypeOK, QueryBounded
    <3>2. CASE Current(url[h], a, snap[h].app)
      BY <2>1, <2>7, <3>1, <3>2
    <3>3. CASE readAt[h] <= changed[a]
      BY <2>4, <2>5, <3>1, <3>3
    <3> QED
      BY <3>1, <3>2, <3>3 DEF QueryBounded
  <2>10. VerifyBounded'
    <3> SUFFICES ASSUME NEW h \in Hooks, hk[h] = "verify"
                 PROVE  \/ Current(url[h], snap[h].id, snap[h].app)'
                        \/ now - changed'[snap[h].id] <= TTL + Lag
      BY <2>1 DEF VerifyBounded
    <3> DEFINE a == snap[h].id
    <3>1. a \in AppIds
      BY EntryTypes DEF AdmissionTypeOK
    <3>2. CASE Current(url[h], a, snap[h].app)
      <4>1. CASE changed'[a] = now
        BY <2>4, <4>1
      <4> QED
        BY <2>1, <2>7, <3>1, <3>2, <4>1
    <3>3. CASE now - changed[a] <= TTL + Lag
      BY <2>4, <2>5, <3>1, <3>3
    <3> QED
      BY <3>2, <3>3 DEF VerifyBounded
  <2>11. ChangedBefore'
    BY <2>1, <2>5 DEF ChangedBefore
  <2> QED
    BY <2>2, <2>6, <2>8, <2>9, <2>10, <2>11
<1>4. CASE UNCHANGED admVars
  <2>1. /\ UNCHANGED regVars
        /\ UNCHANGED <<now, cache, hk, url, token, snap, readAt, changed>>
    BY <1>4 DEF admVars, hookVars
  <2> QED
    BY <1>0, <2>1 DEF AdmissionTypeOK, CacheBounded, QueryBounded, VerifyBounded,
       ChangedBefore
<1> QED
  BY <1>1, <1>2, <1>3, <1>4, AdmInvHook DEF AdmNext

-----------------------------------------------------------------------------
\* The invariant holds whatever webhooks and API requests do.
LEMMA AdmInvHolds == AdmSpec => []AdmInv
  BY AdmInvInit, AdmInvNext, PTL DEF AdmSpec

\* Type correctness: whatever a request goes by is a decrypted copy of an app.
THEOREM AdmissionTypeCorrect == AdmSpec => []AdmissionTypeOK
<1>1. AdmInv => AdmissionTypeOK
  BY DEF AdmInv
<1> QED
  BY <1>1, AdmInvHolds, PTL

\* The webhook's INSERT, made for an app that was resolved earlier, leaves no
\* orphan either: the tables' integrity survives stale cache entries.
THEOREM AdmissionNoOrphans == AdmSpec => []NoOrphans
<1>1. AdmInv => NoOrphans
  BY DEF AdmInv, RegInv
<1> QED
  BY <1>1, AdmInvHolds, PTL

\* A request is verified by outdated data for at most the TTL and one slow query
\* after the app, or its group, was changed.
THEOREM AdmissionStaleAtMostTTL == AdmSpec => StaleAtMostTTL
<1>1. AdmInv /\ [AdmNext]_admVars =>
        [\A h \in Hooks : hk[h] = "verify" /\ hk'[h] # "verify" =>
           UpToDate(h) \/ now - changed[snap[h].id] <= TTL + Lag]_admVars
  BY DEF AdmInv, VerifyBounded, Current, UpToDate
<1> QED
  BY <1>1, AdmInvHolds, PTL DEF AdmSpec, StaleAtMostTTL
=============================================================================
