----------------------------- MODULE MCSessions ------------------------------
(* A small instance of Sessions for TLC. *)
EXTENDS Sessions, TLC

CONSTANTS c1, c2, k1, k2, f1

MCClients == {c1, c2}
MCTokens == {k1, k2}
MCForged == {f1}

\* One file with auth, one without, one whose password variable is missing from
\* the environment, and one with a negative pool size.
MCGood == [secretKey |-> "real", port |-> 0, workerPoolSize |-> 0,
           tlsCert |-> FALSE, tlsKey |-> FALSE,
           authEnabled |-> TRUE, password |-> "real"]
MCRawConfigs ==
    {MCGood,
     [MCGood EXCEPT !.authEnabled = FALSE, !.password = "empty"],
     [MCGood EXCEPT !.password = "placeholder"],
     [MCGood EXCEPT !.workerPoolSize = -1]}

MCSymmetry == Permutations(Clients) \union Permutations(Tokens)
=============================================================================
