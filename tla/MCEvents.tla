------------------------------ MODULE MCEvents ------------------------------
(* Events for TLC, in the run of the deliveries: beside their scenes there *)
(* is one in which no server and no mail is left, and any three of the     *)
(* transactions below run instead.  Neither part touches the other.        *)
EXTENDS MCGitHubDelivery, Events

NobodyAhead ==
    {[ahead |-> {}, mail |-> {}, rearms |-> MaxRearms, dbErrors |-> FALSE]}

HandoverOrNobody == Handover \cup NobodyAhead

(* Analyses 1 and 2 are of one organization, 3 is of another.              *)
MCOrgOf == <<1, 1, 2>>

MCWorks ==
    <<<<"start", 1>>, <<"finish", 1>>, <<"export", 1>>, <<"export", 3>>,
      <<"feedback", 3>>, <<"delete", 1>>, <<"delete", 3>>, <<"cleanup", 0>>,
      <<"recover", 0>>, <<"discard", 0>>>>

MCInit ==
    /\ Init
    /\ LET threads == IF \A p \in Process : phase[p] = "down" THEN Thread ELSE {}
       IN  EventsInit(threads, {1, 2})

MCNext ==
    \/ Next /\ UNCHANGED eventsVars
    \/ EventsNext /\ UNCHANGED vars

MCSpec == MCInit /\ [][MCNext]_<<vars, eventsVars>>
=============================================================================
