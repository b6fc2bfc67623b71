----------------------------- MODULE MCRegistry -----------------------------
(* A small instance of Registry for TLC. *)
EXTENDS Registry, TLC

CONSTANTS g1, g2, a1, a2, t1, n1, c1, s1, r1, r2

MCGroupIds == {g1, g2}
MCAppIds == {a1, a2}
MCTransferIds == {t1}
MCNames == {NoName, n1}
MCSides == {"src"}
MCConfs == {c1}
MCSecrets == {NoSecret, s1}
MCRequests == {r1, r2}

MCSymmetry == Permutations(MCGroupIds) \union Permutations(MCAppIds)
                \union Permutations(MCRequests)
=============================================================================
