------------------------------- MODULE Config --------------------------------
(***************************************************************************)
(* internal/config/loader.go: what the process makes of its configuration  *)
(* file before it starts anything.  Of a string the code only asks whether *)
(* it is empty, blank, or a ${VAR} that the environment did not replace.   *)
(***************************************************************************)
EXTENDS Integers

Words == {"empty", "blank", "placeholder", "real"}

\* The settings validate looks at, as they are in the file.
RawConfig == [secretKey : Words, port : Int, workerPoolSize : Int,
              tlsCert : BOOLEAN, tlsKey : BOOLEAN,
              authEnabled : BOOLEAN, password : Words]

Ports == 1..65535

\* What is not set gets its default.  Host, timeouts, database, dedup window and
\* logging are treated the same way and have no constraint.
ApplyDefaults(cfg) ==
    [cfg EXCEPT !.port = IF @ = 0 THEN 8080 ELSE @,
                !.workerPoolSize = IF @ = 0 THEN 50 ELSE @]

TrimSpace(w) == IF w = "blank" THEN "empty" ELSE w
IsSet(w)     == TrimSpace(w) # "empty" /\ w # "placeholder"

\* Variant: a password only has to be there.
ValidateNonEmpty(cfg) ==
    /\ IsSet(cfg.secretKey)
    /\ cfg.port \in Ports
    /\ cfg.workerPoolSize >= 1
    /\ cfg.tlsCert = cfg.tlsKey
    /\ cfg.authEnabled => cfg.password # "empty"

\* Variant: the pool may be empty.
ValidateAnyPool(cfg) ==
    /\ IsSet(cfg.secretKey)
    /\ cfg.port \in Ports
    /\ cfg.tlsCert = cfg.tlsKey
    /\ cfg.authEnabled => IsSet(cfg.password)

Validate(cfg) ==
    /\ IsSet(cfg.secretKey)
    /\ cfg.port \in Ports
    /\ cfg.workerPoolSize >= 1
    /\ cfg.tlsCert = cfg.tlsKey
    /\ cfg.authEnabled => IsSet(cfg.password)
=============================================================================
