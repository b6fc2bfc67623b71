------------------------------ MODULE Sessions -------------------------------
(***************************************************************************)
(* The dashboard's sessions: internal/auth/auth.go, in front of the API,   *)
(* the WebSocket and the pages as internal/server/router.go mounts it, in  *)
(* a process that main starts with a validated configuration.              *)
(*                                                                         *)
(* Time passes in ticks.  Authed and handleLogin read the clock before     *)
(* they take the lock; up to Lag ticks may pass in between.                *)
(***************************************************************************)
EXTENDS Config

CONSTANTS
    RawConfigs,    \* configuration files the process is started with
    Clients,       \* request goroutines
    Tokens,        \* random session tokens
    Forged,        \* cookie values no login ever hands out
    NoToken,       \* a request without a cookie
    NoExpiry,      \* no entry in the map
    TTL,           \* sessionTTL
    Lag,           \* bound: ticks between time.Now and Lock
    MaxTime,       \* bound: ticks
    MaxStarts      \* bound: starts of the process

ASSUME ConfigsTyped   == RawConfigs \subseteq RawConfig
ASSUME SessionsTimes  == {TTL, Lag, MaxTime, MaxStarts} \subseteq Nat
ASSUME SessionsFresh  == NoExpiry \notin Nat /\ NoToken \notin Tokens \union Forged
ASSUME ForgedUnknown  == Forged \intersect Tokens = {}

VARIABLES
    now, starts,
    conf,       \* the configuration in force
    up,         \* is there a process?
    sessions,   \* Service.sessions: the expiry of each token
    hpc, req,   \* each request's position, and what it carries
    at,         \* the clock as it read it
    issued,     \* tokens handed out, in all lives of the process
    dead,       \* tokens that were logged out, refused as expired, or given out
                \* by a process that is gone
    lastUse     \* when each token was last accepted, or issued

sessVars == <<now, starts, conf, up, sessions, hpc, req, at, issued, dead, lastUse>>

\* GET and mutating requests under /api; what only asks Authed: the WebSocket's
\* upgrade, /api/auth/session and the pages; login and logout.
Kinds == {"get", "mutate", "look", "login", "logout"}

\* What a session cookie may say.
Cookies == Tokens \union Forged

Request == [kind : Kinds, token : Cookies \union {NoToken}, word : Words]

HGoto(c, from, to) == up /\ hpc[c] = from /\ hpc' = [hpc EXCEPT ![c] = to]

NoRequest == [kind |-> "look", token |-> NoToken, word |-> "empty"]

\* The request is answered.
Reply(c, from) ==
    /\ HGoto(c, from, "free")
    /\ req' = [req EXCEPT ![c] = NoRequest] /\ at' = [at EXCEPT ![c] = 0]

\* gcLocked
Live(t)    == sessions[t] # NoExpiry
Expired(t, clock) == Live(t) /\ clock > sessions[t]

-----------------------------------------------------------------------------
\* main: Load, then everything else; an invalid configuration ends the process.
Start(raw) ==
    /\ ~up /\ starts < MaxStarts
    /\ starts' = starts + 1
    /\ up' = Validate(ApplyDefaults(raw))
    /\ conf' = ApplyDefaults(raw)
    /\ UNCHANGED <<now, sessions, hpc, req, at, issued, dead, lastUse>>

\* The process ends, and its memory with it.
Stop ==
    /\ up /\ up' = FALSE
    /\ sessions' = [t \in Cookies |-> NoExpiry]
    /\ hpc' = [c \in Clients |-> "free"]
    /\ req' = [c \in Clients |-> NoRequest] /\ at' = [c \in Clients |-> 0]
    /\ dead' = dead \union issued
    /\ UNCHANGED <<now, starts, conf, issued, lastUse>>

\* A client sends a token that was handed out at some time, or anything else; a
\* random token is not guessed before it is handed out.
Arrive(c) ==
    /\ HGoto(c, "free", "clock")
    /\ \E r \in Request :
         /\ r.token \in issued \union Forged \union {NoToken}
         /\ r.kind \in {"get", "look", "logout"} => r.word = "empty"
         /\ r.kind = "login" => r.token = NoToken
         /\ req' = [req EXCEPT ![c] = r]
    /\ UNCHANGED <<now, starts, conf, up, sessions, at, issued, dead, lastUse>>

\* With auth disabled every check passes, and a login gives no token.
PassThrough(c) ==
    /\ Reply(c, "clock") /\ ~conf.authEnabled
    /\ req[c].kind # "logout"
    /\ UNCHANGED <<now, starts, conf, up, sessions, issued, dead, lastUse>>

\* now := time.Now(), once the cookie, or the credentials, have been looked at.
ReadClock(c) ==
    /\ HGoto(c, "clock", "lock") /\ conf.authEnabled
    /\ \/ req[c].kind = "login" /\ req[c].word = conf.password
       \/ req[c].kind \in {"get", "mutate", "look"} /\ req[c].token # NoToken
    /\ at' = [at EXCEPT ![c] = now]
    /\ UNCHANGED <<now, starts, conf, up, sessions, req, issued, dead, lastUse>>

\* No cookie, or wrong credentials (also a wrong user name): 401.
Unauthorized(c) ==
    /\ Reply(c, "clock") /\ conf.authEnabled
    /\ \/ req[c].kind = "login"
       \/ req[c].kind \in {"get", "mutate", "look"} /\ req[c].token = NoToken
    /\ UNCHANGED <<now, starts, conf, up, sessions, issued, dead, lastUse>>

\* handleLogin's locked section: expired sessions go, the new token comes.
Login(c) ==
    /\ Reply(c, "lock") /\ req[c].kind = "login"
    /\ \E t \in Tokens \ issued :
         /\ sessions' = [u \in Cookies |-> IF u = t THEN at[c] + TTL
                                           ELSE IF Expired(u, at[c]) THEN NoExpiry
                                           ELSE sessions[u]]
         /\ issued' = issued \union {t}
         /\ lastUse' = [lastUse EXCEPT ![t] = now]
    /\ UNCHANGED <<now, starts, conf, up, dead>>

\* Variant: only the cookie is cleared.
LogoutCookieOnly(c) ==
    /\ Reply(c, "clock") /\ req[c].kind = "logout"
    /\ dead' = dead \union ({req[c].token} \intersect issued)
    /\ UNCHANGED <<now, starts, conf, up, sessions, issued, lastUse>>

\* handleLogout
Logout(c) ==
    /\ Reply(c, "clock") /\ req[c].kind = "logout"
    /\ sessions' = [t \in Cookies |-> IF t = req[c].token THEN NoExpiry ELSE sessions[t]]
    /\ dead' = dead \union ({req[c].token} \intersect issued)
    /\ UNCHANGED <<now, starts, conf, up, issued, lastUse>>

\* Variant: the expiry is left to the next login's gcLocked.
AcceptExpired(c) ==
    LET t == req[c].token IN
    /\ HGoto(c, "lock", "accepted") /\ req[c].kind # "login"
    /\ Live(t)
    /\ sessions' = [sessions EXCEPT ![t] = at[c] + TTL]
    /\ lastUse' = [lastUse EXCEPT ![t] = now]
    /\ UNCHANGED <<now, starts, conf, up, req, at, issued, dead>>

\* Variant: a cookie without an entry passes like one that has not expired.
AcceptUnknown(c) ==
    LET t == req[c].token IN
    /\ HGoto(c, "lock", "accepted") /\ req[c].kind # "login"
    /\ ~Expired(t, at[c])
    /\ sessions' = [sessions EXCEPT ![t] = at[c] + TTL]
    /\ lastUse' = [lastUse EXCEPT ![t] = now]
    /\ UNCHANGED <<now, starts, conf, up, req, at, issued, dead>>

\* Variant: no sliding expiry.
AcceptFixed(c) ==
    LET t == req[c].token IN
    /\ HGoto(c, "lock", "accepted") /\ req[c].kind # "login"
    /\ Live(t) /\ ~Expired(t, at[c])
    /\ lastUse' = [lastUse EXCEPT ![t] = now]
    /\ UNCHANGED <<now, starts, conf, up, sessions, req, at, issued, dead>>

\* Authed's locked section: the session is there and prolonged.
Accept(c) ==
    LET t == req[c].token IN
    /\ HGoto(c, "lock", "accepted") /\ req[c].kind # "login"
    /\ Live(t) /\ ~Expired(t, at[c])
    /\ sessions' = [sessions EXCEPT ![t] = at[c] + TTL]
    /\ lastUse' = [lastUse EXCEPT ![t] = now]
    /\ UNCHANGED <<now, starts, conf, up, req, at, issued, dead>>

\* It is not there, or expired and then deleted.
Refuse(c) ==
    LET t == req[c].token IN
    /\ Reply(c, "lock") /\ req[c].kind # "login"
    /\ ~Live(t) \/ Expired(t, at[c])
    /\ sessions' = [sessions EXCEPT ![t] = NoExpiry]
    /\ dead' = dead \union ({t} \intersect issued)
    /\ UNCHANGED <<now, starts, conf, up, issued, lastUse>>

\* Behind RequireSession: a GET, or a check that is all the route asks for.
Serve(c) ==
    /\ Reply(c, "accepted") /\ req[c].kind # "mutate"
    /\ UNCHANGED <<now, starts, conf, up, sessions, issued, dead, lastUse>>

\* RequireConfirm: the password again, or 428 and 403.
Confirm(c) ==
    /\ HGoto(c, "accepted", "confirmed") /\ req[c].kind = "mutate"
    /\ req[c].word # "empty" /\ req[c].word = conf.password
    /\ UNCHANGED <<now, starts, conf, up, sessions, req, at, issued, dead, lastUse>>

Unconfirmed(c) ==
    /\ Reply(c, "accepted") /\ req[c].kind = "mutate"
    /\ req[c].word = "empty" \/ req[c].word # conf.password
    /\ UNCHANGED <<now, starts, conf, up, sessions, issued, dead, lastUse>>

\* The API's handler runs.
Mutate(c) ==
    /\ Reply(c, "confirmed")
    /\ UNCHANGED <<now, starts, conf, up, sessions, issued, dead, lastUse>>

Tick ==
    /\ now < MaxTime
    /\ \A c \in Clients : hpc[c] = "lock" => now < at[c] + Lag
    /\ now' = now + 1
    /\ UNCHANGED <<starts, conf, up, sessions, hpc, req, at, issued, dead, lastUse>>

\* The bounds are reached.
Over == now = MaxTime /\ UNCHANGED sessVars

-----------------------------------------------------------------------------
SessInit ==
    /\ now = 0 /\ starts = 0 /\ up = FALSE
    /\ conf \in {ApplyDefaults(raw) : raw \in RawConfigs}
    /\ sessions = [t \in Cookies |-> NoExpiry]
    /\ hpc = [c \in Clients |-> "free"] /\ req = [c \in Clients |-> NoRequest]
    /\ at = [c \in Clients |-> 0]
    /\ issued = {} /\ dead = {} /\ lastUse = [t \in Cookies |-> 0]

RequestStep(c) ==
    \/ Arrive(c) \/ PassThrough(c) \/ ReadClock(c) \/ Unauthorized(c)
    \/ Login(c) \/ Logout(c) \/ Accept(c) \/ Refuse(c)
    \/ Serve(c) \/ Confirm(c) \/ Unconfirmed(c) \/ Mutate(c)

SessNext ==
    \/ \E raw \in RawConfigs : Start(raw)
    \/ \E c \in Clients : RequestStep(c)
    \/ Stop \/ Tick \/ Over

SessSpec == SessInit /\ [][SessNext]_sessVars

-----------------------------------------------------------------------------
\* Properties

\* Every variable has its type, and a process runs on a sane configuration.
SessTypeOK ==
    /\ now \in 0..MaxTime /\ starts \in 0..MaxStarts /\ up \in BOOLEAN
    /\ conf \in RawConfig
    /\ up => /\ conf.port \in Ports /\ conf.workerPoolSize >= 1
             /\ conf.tlsCert = conf.tlsKey
    /\ sessions \in [Cookies -> 0..MaxTime + TTL \union {NoExpiry}]
    /\ hpc \in [Clients -> {"free", "clock", "lock", "accepted", "confirmed"}]
    /\ req \in [Clients -> Request] /\ at \in [Clients -> 0..MaxTime]
    /\ dead \subseteq issued /\ issued \subseteq Tokens
    /\ lastUse \in [Cookies -> 0..MaxTime]

\* Authed's verdict on a request's token.
Accepted(c) == hpc[c] = "lock" /\ hpc'[c] = "accepted"
Refused(c)  == hpc[c] = "lock" /\ req[c].kind # "login" /\ hpc'[c] = "free" /\ up'

\* A token that was logged out, that was once refused, or that an earlier process
\* gave out is never accepted again: no request that is between
\* its clock reading and the lock brings a deleted session back.
DeadStaysDead ==
    [][\A c \in Clients : Accepted(c) => req[c].token \notin dead]_sessVars

\* A session nobody used ends: a token is not accepted when its last use is more
\* than the TTL, and one delay between clock and lock, ago.
IdleSessionEnds ==
    [][\A c \in Clients : Accepted(c) =>
         now - lastUse[req[c].token] <= TTL + Lag]_sessVars

\* A session in use is kept: a token that was handed out is refused only if it was
\* ended, or not used
\* for the TTL less one delay.  A late request may set the expiry back to less
\* than another one has set it to, but not further.
ActiveSessionIsKept ==
    [][\A c \in Clients : Refused(c) /\ req[c].token \in issued =>
         \/ req[c].token \in dead
         \/ now - lastUse[req[c].token] > TTL - Lag]_sessVars

\* With auth enabled, whatever the configuration file says, a handler that changes
\* data runs only for a request with a token that a login handed out, whatever else
\* clients send as a cookie, and with the password that was set: never for a blank
\* one or for the placeholder of a variable that is missing.
MutationsAreConfirmed ==
    \A c \in Clients : hpc[c] = "confirmed" =>
        /\ req[c].token \in issued
        /\ req[c].word = "real"
=============================================================================
