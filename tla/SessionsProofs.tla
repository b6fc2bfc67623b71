--------------------------- MODULE SessionsProofs ----------------------------
(***************************************************************************)
(* Proofs about the dashboard's sessions, for any number of requests and   *)
(* tokens, any configuration files, any TTL and any delay between the      *)
(* reading of the clock and the lock.                                      *)
(***************************************************************************)
EXTENDS Sessions, TLAPS

\* The inductive invariant, part by part.

\* A process only runs on a configuration that validate accepted.
RunsValidated == up => Validate(conf)

\* What a request has shown by the time it is past each check.
RequestsHold ==
    \A c \in Clients :
        /\ req[c].token \in issued \union Forged \union {NoToken}
        /\ hpc[c] \in {"lock", "accepted", "confirmed"} =>
             /\ up /\ conf.authEnabled
             /\ req[c].kind # "login" => req[c].token \in issued \union Forged
        /\ hpc[c] \in {"accepted", "confirmed"} =>
             req[c].kind # "login" /\ req[c].token \in issued
        /\ hpc[c] = "confirmed" =>
             req[c].word # "empty" /\ req[c].word = conf.password

\* A token that is dead has no entry in the map.
DeadIsGone == \A t \in dead : sessions[t] = NoExpiry

\* A request waits for the lock with a clock reading that is at most Lag old.
ReadingIsFresh ==
    \A c \in Clients : /\ at[c] <= now
                       /\ hpc[c] = "lock" => now <= at[c] + Lag

\* Only a token that was handed out has an entry, and its expiry is the last use
\* plus the TTL, up to one delay; and a token that is not dead has lost its entry
\* only after the TTL less one delay.
ExpiryTracksUse ==
    \A t \in Cookies :
        /\ lastUse[t] <= now
        /\ Live(t) => /\ t \in issued
                      /\ sessions[t] <= lastUse[t] + TTL
                      /\ lastUse[t] + TTL <= sessions[t] + Lag
        /\ t \in issued \ dead /\ ~Live(t) => now - lastUse[t] > TTL - Lag

SessInv ==
    /\ SessTypeOK /\ RunsValidated /\ RequestsHold /\ DeadIsGone
    /\ ReadingIsFresh /\ ExpiryTracksUse

-----------------------------------------------------------------------------
\* The defaults leave a configuration a configuration.
LEMMA DefaultsType ==
    ASSUME NEW raw \in RawConfig
    PROVE  ApplyDefaults(raw) \in RawConfig
<1> DEFINE p == IF raw.port = 0 THEN 8080 ELSE raw.port
           w == IF raw.workerPoolSize = 0 THEN 50 ELSE raw.workerPoolSize
<1>1. p \in Int /\ w \in Int
  BY DEF RawConfig
<1> HIDE DEF p, w
<1>2. [raw EXCEPT !.port = p, !.workerPoolSize = w] \in RawConfig
  BY <1>1 DEF RawConfig
<1>3. ApplyDefaults(raw) = [raw EXCEPT !.port = p, !.workerPoolSize = w]
  BY DEF ApplyDefaults, p, w
<1> QED
  BY <1>2, <1>3

\* What an accepted configuration guarantees: the pool has a worker, the port is
\* one, and with auth the password is neither blank nor a placeholder.
LEMMA ValidatedFacts ==
    ASSUME NEW cfg \in RawConfig, Validate(cfg)
    PROVE  /\ cfg.port \in Ports /\ cfg.workerPoolSize >= 1
           /\ cfg.tlsCert = cfg.tlsKey
           /\ cfg.authEnabled => cfg.password = "real"
  BY DEF Validate, IsSet, TrimSpace, RawConfig, Words

\* A blank request is a request.
LEMMA NoRequestType == NoRequest \in Request
  BY DEF NoRequest, Request, Kinds, Words

\* Answering a request without touching the sessions keeps the invariant.
LEMMA ReplyKeeps ==
    ASSUME SessInv, NEW c \in Clients, NEW from, Reply(c, from),
           UNCHANGED <<now, starts, conf, up, sessions, issued, dead, lastUse>>
    PROVE  SessInv'
<1> USE SessionsTimes DEF SessInv
<1>1. SessTypeOK'
  BY NoRequestType DEF SessTypeOK, Reply, HGoto
<1>2. RunsValidated'
  BY DEF RunsValidated
<1>3. RequestsHold'
  BY DEF RequestsHold, Reply, HGoto, SessTypeOK, NoRequest
<1>4. DeadIsGone'
  BY DEF DeadIsGone
<1>5. ReadingIsFresh'
  BY DEF ReadingIsFresh, Reply, HGoto, SessTypeOK
<1>6. ExpiryTracksUse'
  BY DEF ExpiryTracksUse, Live
<1> QED
  BY <1>1, <1>2, <1>3, <1>4, <1>5, <1>6

\* The invariant holds before the first start.
LEMMA SessInvInit == SessInit => SessInv
<1> SUFFICES ASSUME SessInit PROVE SessInv
  OBVIOUS
<1> USE SessionsTimes, ConfigsTyped DEF SessInit
<1>1. conf \in RawConfig
  <2>1. PICK raw \in RawConfigs : conf = ApplyDefaults(raw)
    OBVIOUS
  <2> QED
    BY <2>1, DefaultsType
<1>2. SessTypeOK
  <2>1. /\ sessions \in [Cookies -> 0..MaxTime + TTL \union {NoExpiry}]
        /\ lastUse \in [Cookies -> 0..MaxTime]
    OBVIOUS
  <2>2. /\ hpc \in [Clients -> {"free", "clock", "lock", "accepted", "confirmed"}]
        /\ req \in [Clients -> Request] /\ at \in [Clients -> 0..MaxTime]
    BY NoRequestType
  <2>3. now \in 0..MaxTime /\ starts \in 0..MaxStarts
    OBVIOUS
  <2>4. /\ up \in BOOLEAN /\ ~up /\ dead \subseteq issued
        /\ issued \subseteq Tokens
    OBVIOUS
  <2> QED
    BY <1>1, <2>1, <2>2, <2>3, <2>4 DEF SessTypeOK
<1>3. RequestsHold
  BY DEF RequestsHold, NoRequest
<1>4. ReadingIsFresh
  BY DEF ReadingIsFresh
<1>5. ExpiryTracksUse
  BY DEF ExpiryTracksUse, Live
<1> QED
  BY <1>2, <1>3, <1>4, <1>5 DEF SessInv, RunsValidated, DeadIsGone

\* The invariant is kept by every step: of the process, of the clock, and of each
\* request between its arrival and its answer.
LEMMA SessInvNext == SessInv /\ [SessNext]_sessVars => SessInv'
<1> SUFFICES ASSUME SessInv, [SessNext]_sessVars PROVE SessInv'
  OBVIOUS
<1> USE SessionsTimes, SessionsFresh, ForgedUnknown DEF SessInv, Cookies
<1>1. ASSUME NEW raw \in RawConfigs, Start(raw) PROVE SessInv'
  <2>1. conf' \in RawConfig /\ (up' => Validate(conf'))
    BY <1>1, ConfigsTyped, DefaultsType DEF Start
  <2>2. SessTypeOK'
    <3>1. up' \in BOOLEAN
      BY <1>1 DEF Start, Validate
    <3> QED
      BY <1>1, <2>1, <3>1, ValidatedFacts DEF Start, SessTypeOK
  <2>3. RequestsHold'
    BY <1>1 DEF Start, RequestsHold
  <2> QED
    BY <1>1, <2>1, <2>2, <2>3 DEF Start, RunsValidated, DeadIsGone, ReadingIsFresh,
       ExpiryTracksUse, Live
<1>2. ASSUME Stop PROVE SessInv'
  <2>1. SessTypeOK'
    <3>1. sessions' \in [Cookies -> 0..MaxTime + TTL \union {NoExpiry}]
      BY <1>2 DEF Stop
    <3>2. /\ hpc' \in [Clients -> {"free", "clock", "lock", "accepted", "confirmed"}]
          /\ req' \in [Clients -> Request] /\ at' \in [Clients -> 0..MaxTime]
      BY <1>2, NoRequestType DEF Stop
    <3> QED
      BY <1>2, <3>1, <3>2 DEF Stop, SessTypeOK
  <2>2. RequestsHold'
    BY <1>2 DEF Stop, RequestsHold, NoRequest
  <2>3. DeadIsGone'
    BY <1>2 DEF Stop, SessTypeOK, DeadIsGone
  <2>4. ExpiryTracksUse'
    BY <1>2 DEF Stop, SessTypeOK, ExpiryTracksUse, Live
  <2> QED
    BY <1>2, <2>1, <2>2, <2>3, <2>4 DEF Stop, RunsValidated, ReadingIsFresh, SessTypeOK
<1>3. ASSUME NEW c \in Clients, Arrive(c) PROVE SessInv'
  <2>1. PICK r \in Request : /\ r.token \in issued \union Forged \union {NoToken}
                             /\ req' = [req EXCEPT ![c] = r]
    BY <1>3 DEF Arrive
  <2>2. SessTypeOK'
    BY <1>3, <2>1 DEF Arrive, HGoto, SessTypeOK
  <2>3. RequestsHold'
    BY <1>3, <2>1 DEF Arrive, HGoto, SessTypeOK, RequestsHold
  <2>4. ReadingIsFresh'
    BY <1>3 DEF Arrive, HGoto, SessTypeOK, ReadingIsFresh
  <2> QED
    BY <1>3, <2>2, <2>3, <2>4 DEF Arrive, RunsValidated, DeadIsGone, ExpiryTracksUse, Live
<1>4. ASSUME NEW c \in Clients,
             PassThrough(c) \/ Unauthorized(c) \/ Serve(c) \/ Unconfirmed(c) \/ Mutate(c)
      PROVE  SessInv'
  BY <1>4, ReplyKeeps DEF PassThrough, Unauthorized, Serve, Unconfirmed, Mutate
<1>5. ASSUME NEW c \in Clients, ReadClock(c) PROVE SessInv'
  <2>1. SessTypeOK'
    BY <1>5 DEF ReadClock, HGoto, SessTypeOK
  <2>2. RequestsHold'
    BY <1>5 DEF ReadClock, HGoto, SessTypeOK, RequestsHold
  <2>3. ReadingIsFresh'
    BY <1>5 DEF ReadClock, HGoto, SessTypeOK, ReadingIsFresh
  <2> QED
    BY <1>5, <2>1, <2>2, <2>3 DEF ReadClock, RunsValidated, DeadIsGone, ExpiryTracksUse, Live
<1>6. ASSUME NEW c \in Clients, Login(c) PROVE SessInv'
  <2>1. PICK t \in Tokens \ issued :
          /\ sessions' = [u \in Cookies |-> IF u = t THEN at[c] + TTL
                                            ELSE IF Expired(u, at[c]) THEN NoExpiry
                                            ELSE sessions[u]]
          /\ issued' = issued \union {t}
          /\ lastUse' = [lastUse EXCEPT ![t] = now]
    BY <1>6 DEF Login
  <2>2. /\ now' = now /\ up' = up /\ conf' = conf /\ starts' = starts /\ dead' = dead
        /\ hpc' = [hpc EXCEPT ![c] = "free"] /\ req' = [req EXCEPT ![c] = NoRequest]
        /\ at' = [at EXCEPT ![c] = 0] /\ hpc[c] = "lock"
    BY <1>6 DEF Login, Reply, HGoto
  <2>3. SessTypeOK'
    BY <2>1, <2>2, NoRequestType DEF SessTypeOK
  <2>4. RequestsHold'
    BY <2>1, <2>2 DEF SessTypeOK, RequestsHold, NoRequest
  <2>5. DeadIsGone'
    BY <2>1, <2>2 DEF SessTypeOK, DeadIsGone
  <2>6. ReadingIsFresh'
    BY <2>2 DEF SessTypeOK, ReadingIsFresh
  <2>7. ExpiryTracksUse'
    <3>1. at[c] \in Nat /\ now \in Nat /\ at[c] <= now /\ now <= at[c] + Lag
      BY <2>2 DEF SessTypeOK, ReadingIsFresh
    <3>2. ASSUME NEW u \in Cookies, u # t
          PROVE  /\ lastUse'[u] = lastUse[u] /\ lastUse[u] \in Nat /\ lastUse[u] <= now
                 /\ sessions'[u] = IF Expired(u, at[c]) THEN NoExpiry ELSE sessions[u]
                 /\ u \in issued' <=> u \in issued
      BY <2>1, <2>2, <3>2 DEF SessTypeOK, ExpiryTracksUse
    <3>3. ASSUME NEW u \in Cookies, u # t, Expired(u, at[c])
          PROVE  now - lastUse[u] > TTL - Lag
      BY <3>1, <3>2, <3>3 DEF Expired, Live, ExpiryTracksUse, SessTypeOK
    <3>4. /\ lastUse'[t] = now /\ sessions'[t] = at[c] + TTL
          /\ at[c] + TTL # NoExpiry /\ t \in issued'
      BY <2>1, <3>1 DEF SessTypeOK
    <3>5. ASSUME NEW u \in Cookies, u # t
          PROVE  /\ lastUse'[u] <= now'
                 /\ Live(u)' => /\ u \in issued'
                                /\ sessions'[u] <= lastUse'[u] + TTL
                                /\ lastUse'[u] + TTL <= sessions'[u] + Lag
                 /\ u \in issued' \ dead' /\ ~Live(u)' => now' - lastUse'[u] > TTL - Lag
      BY <2>2, <3>2, <3>3, <3>5 DEF ExpiryTracksUse, Live
    <3>6. /\ lastUse'[t] <= now' /\ Live(t)'
          /\ sessions'[t] <= lastUse'[t] + TTL /\ lastUse'[t] + TTL <= sessions'[t] + Lag
      BY <2>2, <3>1, <3>4 DEF Live
    <3> QED
      BY <3>4, <3>5, <3>6 DEF ExpiryTracksUse
  <2> QED
    BY <2>2, <2>3, <2>4, <2>5, <2>6, <2>7 DEF RunsValidated
<1>7. ASSUME NEW c \in Clients, Logout(c) PROVE SessInv'
  <2>0. /\ req[c].token \in issued \union Forged \union {NoToken}
        /\ issued \subseteq Tokens /\ dead \subseteq issued
    BY DEF RequestsHold, SessTypeOK
  <2>1. SessTypeOK'
    BY <1>7, NoRequestType DEF Logout, Reply, HGoto, SessTypeOK, RequestsHold
  <2>2. RequestsHold'
    BY <1>7 DEF Logout, Reply, HGoto, SessTypeOK, RequestsHold, NoRequest
  <2>3. DeadIsGone'
    BY <1>7, <2>0 DEF Logout, DeadIsGone
  <2>4. ReadingIsFresh'
    BY <1>7 DEF Logout, Reply, HGoto, SessTypeOK, ReadingIsFresh
  <2>5. ExpiryTracksUse'
    <3>1. ASSUME NEW t \in Cookies, t # req[c].token
          PROVE  sessions'[t] = sessions[t] /\ (t \in issued' \ dead' <=> t \in issued \ dead)
      BY <1>7, <3>1 DEF Logout
    <3>2. ASSUME NEW t \in Cookies, t = req[c].token
          PROVE  sessions'[t] = NoExpiry /\ (t \in dead' \/ t \notin issued')
      BY <1>7, <2>0, <3>2 DEF Logout
    <3> QED
      BY <1>7, <3>1, <3>2 DEF Logout, ExpiryTracksUse, Live
  <2> QED
    BY <1>7, <2>1, <2>2, <2>3, <2>4, <2>5 DEF Logout, RunsValidated
<1>8. ASSUME NEW c \in Clients, Accept(c) PROVE SessInv'
  <2>0. req[c].token \in Cookies /\ Live(req[c].token)
    BY <1>8 DEF Accept, HGoto, SessTypeOK, RequestsHold, Cookies
  <2>1. /\ req[c].token \in Cookies /\ req[c].token \in issued /\ at[c] \in Nat
        /\ at[c] <= now /\ now <= at[c] + Lag /\ at[c] + TTL # NoExpiry
        /\ req[c].token \notin dead
    BY <1>8, <2>0 DEF Accept, HGoto, SessTypeOK, ReadingIsFresh, DeadIsGone, Live,
       ExpiryTracksUse
  <2>2. SessTypeOK'
    BY <1>8, <2>1 DEF Accept, HGoto, SessTypeOK
  <2>3. RequestsHold'
    BY <1>8, <2>1 DEF Accept, HGoto, SessTypeOK, RequestsHold
  <2>4. DeadIsGone'
    BY <1>8, <2>1 DEF Accept, SessTypeOK, DeadIsGone
  <2>5. ReadingIsFresh'
    BY <1>8 DEF Accept, HGoto, SessTypeOK, ReadingIsFresh
  <2>6. ExpiryTracksUse'
    BY <1>8, <2>1 DEF Accept, SessTypeOK, ExpiryTracksUse, Live
  <2> QED
    BY <1>8, <2>2, <2>3, <2>4, <2>5, <2>6 DEF Accept, RunsValidated
<1>9. ASSUME NEW c \in Clients, Refuse(c) PROVE SessInv'
  <2>1. req[c].token \in issued \union Forged
    BY <1>9 DEF Refuse, Reply, HGoto, RequestsHold
  <2>2. SessTypeOK'
    BY <1>9, <2>1, NoRequestType DEF Refuse, Reply, HGoto, SessTypeOK
  <2>3. RequestsHold'
    BY <1>9 DEF Refuse, Reply, HGoto, SessTypeOK, RequestsHold, NoRequest
  <2>4. DeadIsGone'
    BY <1>9, <2>1 DEF Refuse, SessTypeOK, DeadIsGone
  <2>5. ReadingIsFresh'
    BY <1>9 DEF Refuse, Reply, HGoto, SessTypeOK, ReadingIsFresh
  <2>6. ExpiryTracksUse'
    BY <1>9 DEF Refuse, SessTypeOK, ExpiryTracksUse, Live
  <2> QED
    BY <1>9, <2>2, <2>3, <2>4, <2>5, <2>6 DEF Refuse, RunsValidated
<1>10. ASSUME NEW c \in Clients, Confirm(c) PROVE SessInv'
  <2>1. SessTypeOK'
    BY <1>10 DEF Confirm, HGoto, SessTypeOK
  <2>2. RequestsHold'
    BY <1>10 DEF Confirm, HGoto, SessTypeOK, RequestsHold
  <2>3. ReadingIsFresh'
    BY <1>10 DEF Confirm, HGoto, SessTypeOK, ReadingIsFresh
  <2> QED
    BY <1>10, <2>1, <2>2, <2>3 DEF Confirm, RunsValidated, DeadIsGone, ExpiryTracksUse, Live
<1>11. ASSUME Tick PROVE SessInv'
  <2>1. SessTypeOK'
    BY <1>11 DEF Tick, SessTypeOK
  <2>2. ReadingIsFresh'
    BY <1>11 DEF Tick, SessTypeOK, ReadingIsFresh
  <2>3. ExpiryTracksUse'
    BY <1>11 DEF Tick, SessTypeOK, ExpiryTracksUse, Live
  <2> QED
    BY <1>11, <2>1, <2>2, <2>3 DEF Tick, RunsValidated, RequestsHold, DeadIsGone
<1>12. ASSUME UNCHANGED sessVars PROVE SessInv'
  BY <1>12 DEF sessVars, SessTypeOK, RunsValidated, RequestsHold, DeadIsGone,
     ReadingIsFresh, ExpiryTracksUse, Live
<1> QED
  BY <1>1, <1>2, <1>3, <1>4, <1>5, <1>6, <1>7, <1>8, <1>9, <1>10, <1>11, <1>12
     DEF SessNext, RequestStep, Over

-----------------------------------------------------------------------------
\* The invariant holds of every state the process can reach.
LEMMA SessInvHolds == SessSpec => []SessInv
  BY SessInvInit, SessInvNext, PTL DEF SessSpec

\* Type correctness; and a process never runs on a configuration whose port, pool
\* size or TLS files validate should have refused.
THEOREM SessTypeCorrect == SessSpec => []SessTypeOK
<1>1. SessInv => SessTypeOK
  BY DEF SessInv
<1> QED
  BY <1>1, SessInvHolds, PTL

\* With auth enabled no handler that changes data runs without a token that was
\* issued, although clients send cookies of any value, and the real password:
\* Authed's lookup, and RequireConfirm behind RequireSession, on top of
\* what validate refuses at start.
THEOREM SessMutationsConfirmed == SessSpec => []MutationsAreConfirmed
<1>1. SessInv => MutationsAreConfirmed
  <2> SUFFICES ASSUME SessInv, NEW c \in Clients, hpc[c] = "confirmed"
               PROVE  req[c].token \in issued /\ req[c].word = "real"
    BY DEF MutationsAreConfirmed
  <2>1. up /\ conf \in RawConfig /\ conf.authEnabled /\ Validate(conf)
    BY DEF SessInv, RequestsHold, RunsValidated, SessTypeOK
  <2> QED
    BY <2>1, ValidatedFacts DEF SessInv, RequestsHold
<1> QED
  BY <1>1, SessInvHolds, PTL

\* Authed says yes only in its locked section, for a token with an entry that had
\* not expired at its clock reading.
LEMMA AcceptedFacts ==
    ASSUME SessInv, [SessNext]_sessVars, NEW c \in Clients, Accepted(c)
    PROVE  Accept(c)
<1> USE DEF Accepted, SessInv
<1>1. ASSUME NEW d \in Clients, RequestStep(d), d # c PROVE FALSE
  BY <1>1 DEF RequestStep, Arrive, PassThrough, ReadClock, Unauthorized, Login,
     Logout, Accept, Refuse, Serve, Confirm, Unconfirmed, Mutate, Reply, HGoto, SessTypeOK
<1>2. ASSUME RequestStep(c) PROVE Accept(c)
  BY <1>2 DEF RequestStep, Arrive, PassThrough, ReadClock, Unauthorized, Login,
     Logout, Refuse, Serve, Confirm, Unconfirmed, Mutate, Reply, HGoto, SessTypeOK
<1>3. ASSUME NEW raw \in RawConfigs, Start(raw) PROVE FALSE
  BY <1>3 DEF Start
<1>4. ~Stop /\ ~Tick /\ ~UNCHANGED sessVars
  BY DEF Stop, Tick, sessVars
<1> QED
  BY <1>1, <1>2, <1>3, <1>4 DEF SessNext, Over

\* It says no only there, for a token without an entry or with an expired one.
LEMMA RefusedFacts ==
    ASSUME SessInv, [SessNext]_sessVars, NEW c \in Clients, Refused(c)
    PROVE  Refuse(c)
<1> USE DEF Refused, SessInv
<1>1. ASSUME NEW d \in Clients, RequestStep(d), d # c PROVE FALSE
  BY <1>1 DEF RequestStep, Arrive, PassThrough, ReadClock, Unauthorized, Login,
     Logout, Accept, Refuse, Serve, Confirm, Unconfirmed, Mutate, Reply, HGoto, SessTypeOK
<1>2. ASSUME RequestStep(c) PROVE Refuse(c)
  BY <1>2 DEF RequestStep, Arrive, PassThrough, ReadClock, Unauthorized, Login,
     Logout, Accept, Serve, Confirm, Unconfirmed, Mutate, Reply, HGoto, SessTypeOK
<1>3. ASSUME NEW raw \in RawConfigs, Start(raw) PROVE FALSE
  BY <1>3 DEF Start
<1>4. ~Stop /\ ~Tick /\ ~UNCHANGED sessVars
  BY DEF Stop, Tick, sessVars
<1> QED
  BY <1>1, <1>2, <1>3, <1>4 DEF SessNext, Over

\* No request brings a session back that was logged out, refused or given
\* out by an earlier process, wherever it stood between clock and lock.
THEOREM SessDeadStaysDead == SessSpec => DeadStaysDead
<1>1. SessInv /\ [SessNext]_sessVars =>
        [\A c \in Clients : Accepted(c) => req[c].token \notin dead]_sessVars
  BY AcceptedFacts DEF SessInv, DeadIsGone, Accept, Live
<1> QED
  BY <1>1, SessInvHolds, PTL DEF SessSpec, DeadStaysDead

\* A session nobody used for the TTL and one delay is not accepted.
THEOREM SessIdleEnds == SessSpec => IdleSessionEnds
<1>1. SessInv /\ [SessNext]_sessVars =>
        [\A c \in Clients : Accepted(c) =>
           now - lastUse[req[c].token] <= TTL + Lag]_sessVars
  <2> SUFFICES ASSUME SessInv, [SessNext]_sessVars, NEW c \in Clients, Accepted(c)
               PROVE  now - lastUse[req[c].token] <= TTL + Lag
    OBVIOUS
  <2> DEFINE t == req[c].token
  <2>1. /\ hpc[c] = "lock" /\ req[c].kind # "login" /\ Live(t) /\ ~Expired(t, at[c])
    BY AcceptedFacts DEF Accept, HGoto
  <2>2. t \in Cookies /\ at[c] \in Nat /\ now \in Nat /\ now <= at[c] + Lag
    BY <2>1 DEF SessInv, RequestsHold, SessTypeOK, ReadingIsFresh, Cookies
  <2>3. /\ sessions[t] \in Nat /\ lastUse[t] \in Nat
        /\ at[c] <= sessions[t] /\ sessions[t] <= lastUse[t] + TTL
    BY <2>1, <2>2, SessionsTimes DEF SessInv, SessTypeOK, ExpiryTracksUse, Expired, Live
  <2> QED
    BY <2>2, <2>3, SessionsTimes
<1> QED
  BY <1>1, SessInvHolds, PTL DEF SessSpec, IdleSessionEnds

\* An issued token that is refused was ended, or was not used for the TTL less one delay.
THEOREM SessActiveKept == SessSpec => ActiveSessionIsKept
<1>1. SessInv /\ [SessNext]_sessVars =>
        [\A c \in Clients : Refused(c) /\ req[c].token \in issued =>
           \/ req[c].token \in dead
           \/ now - lastUse[req[c].token] > TTL - Lag]_sessVars
  <2> SUFFICES ASSUME SessInv, [SessNext]_sessVars, NEW c \in Clients, Refused(c),
                      req[c].token \in issued, req[c].token \notin dead
               PROVE  now - lastUse[req[c].token] > TTL - Lag
    OBVIOUS
  <2> DEFINE t == req[c].token
  <2>1. /\ hpc[c] = "lock" /\ req[c].kind # "login" /\ (~Live(t) \/ Expired(t, at[c]))
    BY RefusedFacts DEF Refuse, Reply, HGoto
  <2>2. /\ t \in issued /\ t \in Cookies /\ at[c] \in Nat /\ now \in Nat /\ at[c] <= now
        /\ lastUse[t] \in Nat
    BY <2>1 DEF SessInv, SessTypeOK, ReadingIsFresh, Cookies
  <2>3. CASE ~Live(t)
    BY <2>2, <2>3 DEF SessInv, ExpiryTracksUse
  <2>4. CASE Expired(t, at[c])
    <3>1. /\ sessions[t] \in Nat /\ at[c] > sessions[t]
          /\ lastUse[t] + TTL <= sessions[t] + Lag
      BY <2>2, <2>4, SessionsTimes DEF SessInv, SessTypeOK, ExpiryTracksUse, Expired, Live
    <3> QED
      BY <2>2, <3>1, SessionsTimes
  <2> QED
    BY <2>1, <2>3, <2>4
<1> QED
  BY <1>1, SessInvHolds, PTL DEF SessSpec, ActiveSessionIsKept
=============================================================================
