------------------------------- MODULE MCJobs -------------------------------
(* Jobs for TLC.                                                           *)
EXTENDS Jobs, TLC

CONSTANTS j1, j2

(* Two analyses across a handover; two that share one failing server; one  *)
(* across a handover between failing servers that serve early.             *)
Handover == [ahead |-> {1, 2}, coming |-> {j1, j2},
             earlyHttp |-> FALSE, dbErrors |-> FALSE]
Failing  == [ahead |-> {1}, coming |-> {j1, j2},
             earlyHttp |-> FALSE, dbErrors |-> TRUE]
Early    == [ahead |-> {1, 2}, coming |-> {j1},
             earlyHttp |-> TRUE, dbErrors |-> TRUE]

Scenes      == {Handover, Failing, Early}
EarlyScenes == {[ahead |-> {1, 2}, coming |-> {j1},
                 earlyHttp |-> TRUE, dbErrors |-> FALSE]}
=============================================================================
