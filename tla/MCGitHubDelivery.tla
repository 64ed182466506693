-------------------------- MODULE MCGitHubDelivery --------------------------
(* GitHubDelivery for TLC.                                                 *)
EXTENDS GitHubDelivery, TLC

CONSTANTS p1, p2, d1, d2

(* A handover between two servers whose transactions fail, with one        *)
(* delivery; and one server with two deliveries, one a lifecycle event.    *)
Handover ==
    {[ahead |-> {p1, p2}, mail |-> {d1}, rearms |-> MaxRearms,
      dbErrors |-> TRUE]}
Serving ==
    {[ahead |-> {p1}, mail |-> {d1, d2}, rearms |-> 0, dbErrors |-> FALSE]}
Alone ==
    {[ahead |-> {p1}, mail |-> {d1}, rearms |-> 0, dbErrors |-> FALSE]}

Symmetry == Permutations(Process)
=============================================================================
