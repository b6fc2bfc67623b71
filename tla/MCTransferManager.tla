------------------------- MODULE MCTransferManager --------------------------
(* Small instances of TransferManager for TLC. *)
EXTENDS TransferManager, TLC

CONSTANTS w1, w2, t1, t2

MCWorkers == {w1, w2}
MCTransfers == {t1, t2}

\* The updates of one transfer may be lost, those of the other are not.
MCLossy == {t1}

\* Each is tried, retried from the timer once, and then given up.
MCMaxRetries == [t \in MCTransfers |-> 1]

MCSymmetry == Permutations(Workers)
=============================================================================
