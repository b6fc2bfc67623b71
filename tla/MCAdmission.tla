---------------------------- MODULE MCAdmission -----------------------------
(* Small instances of Admission for TLC. *)
EXTENDS Admission, TLC

CONSTANTS g1, a1, a2, t1, n1, c1, s1, r1, h1, h2

MCGroupIds == {g1}
MCAppIds == {a1, a2}
MCOneApp == {a1}
MCTransferIds == {t1}
MCNoTransfers == {}
MCNames == {NoName, n1}
MCSides == {"src"}
MCConfs == {c1}
MCSecrets == {NoSecret}
MCRequests == {r1}
MCHooks == {h1, h2}
MCOneHook == {h1}
MCRoutes == {<<n1, n1>>}

MCSymmetry == Permutations(MCHooks)
=============================================================================
