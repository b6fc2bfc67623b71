----------------------------- MODULE MCGateway ------------------------------
(* Small instances of Gateway for TLC. *)
EXTENDS Gateway, TLC

CONSTANTS w1, w2, t1, t2, h1, h2, k1, r1, r2

MCWorkers == {w1, w2}
MCOneWorker == {w1}
MCTransfers == {t1, t2}
MCHandlers == {h1, h2}

\* One key with one spelling.
MCOneKey == {k1}
MCOneRawKey == {r1}
MCUnescapeOne == [r \in MCOneRawKey |-> k1]

\* One key with two spellings.
MCRawKeys == {r1, r2}
MCUnescapeSame == [r \in MCRawKeys |-> k1]

\* Below every queue length: the events are left out.
MCNoEvents == -1

MCRetryOnce == [t \in MCTransfers |-> 1]
MCNoRetry == [t \in MCTransfers |-> 0]

MCSymmetry == Permutations(Workers) \union Permutations(Handlers)
                \union Permutations(Transfers)
=============================================================================
