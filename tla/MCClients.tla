------------------------------ MODULE MCClients ------------------------------
(***************************************************************************)
(* Small instances of Clients.                                             *)
(***************************************************************************)
EXTENDS Clients

CONSTANTS a, b, d

ThreeClients == {a, b, d}

Setup(clients, single, may, paths, psk, add, commits, pkgs, crash) ==
    [clients |-> clients, single |-> single, mayBranch |-> "branch" \in may, mayReInit |-> "reinit" \in may,
     mayJoin |-> "join" \in may, paths |-> paths, psks |-> psk, mayAdd |-> add,
     maxCommits |-> commits, maxPackages |-> pkgs, maxCrashes |-> crash]

\* Two joiners of one Welcome with an external PSK; external commits with
\* resumption PSKs, with an external PSK, and of two newcomers; a branch; a reinitialization.
SixSetups ==
    {Setup({a, b, d}, TRUE, {}, BOOLEAN, {"external"}, 2, 1, 1, 1),
     Setup({a, b}, FALSE, {"join"}, {TRUE}, {"resumption"}, 1, 3, 1, 1),
     Setup({a, b}, FALSE, {"join"}, {TRUE}, {"external"}, 1, 2, 1, 1),
     Setup({a, b, d}, FALSE, {"join"}, {TRUE}, {}, 1, 2, 1, 1),
     Setup({a, b}, FALSE, {"branch"}, {TRUE}, {}, 1, 3, 2, 1),
     Setup({a, b}, FALSE, {"reinit"}, {TRUE}, {}, 1, 3, 2, 1)}
=============================================================================
