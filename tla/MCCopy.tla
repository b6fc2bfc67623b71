------------------------------- MODULE MCCopy --------------------------------
(* A small instance of Copy for TLC. *)
EXTENDS Copy, TLC

CONSTANTS w1, w2, t1, t2, e1, bad, u1, s1, s2

MCWorkers == {w1, w2}
MCTransfers == {t1, t2}
MCMaxRetries == (t1 :> 2) @@ (t2 :> 0)

\* Below every queue length: the events are left out.
MCNoEvents == -1

\* With 10 units to a second and a maximum of 40 seconds: zero, one, the minimum,
\* the maximum and its neighbours, and bases above it.
MCBases == {0, 1, 5, 6, 17, 39, 40, 41, 100}

MCEndpoints == {e1, bad}
MCAccessKeys == {u1}
MCOthers == {s1, s2}
MCMalformed == {bad}

\* Two jobs of one account, the second after its secret key was changed; t1 is
\* copied to the same server without checking its certificate, t2 to an
\* endpoint that is no endpoint.
MCConf(e, skip, s) ==
    [endpoint |-> e, accessKey |-> u1, skipTLSVerify |-> skip, other |-> s]
MCConfOf ==
    (t1 :> [src |-> MCConf(e1, FALSE, s1), dst |-> MCConf(e1, TRUE, s1)]) @@
    (t2 :> [src |-> MCConf(e1, FALSE, s2), dst |-> MCConf(bad, FALSE, s2)])
=============================================================================
