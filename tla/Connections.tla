---------------------------- MODULE Connections ----------------------------
(***************************************************************************)
(* The GitHub installation of one organization and the connections of its  *)
(* projects to repositories: what the operator registers, owners connect   *)
(* and disconnect, and GitHub takes away (server/github_routes.py and the  *)
(* two places of github_service.py that revoke).                           *)
(*                                                                         *)
(* A route holds the row of the organization from authorized_org() to its  *)
(* end (`Unlocked' says that none does).  Revocations do not ask for it:   *)
(* the handler of an event and a failed delivery write beside a route.     *)
(* `ready' and `existing' are projects of module Workspace, the ones not   *)
(* archived and all; a connection goes with its project.                   *)
(***************************************************************************)
EXTENDS Naturals, FiniteSets

CONSTANTS Project,      \* identifiers
          Repository,   \* repositories of the account that has the App
          Connector     \* threads that serve connect

ASSUME ConnectionsAssumption == Repository # {}

VARIABLES provider,     \* GitHub: the installation, what it grants
          events,       \* webhook deliveries received and not handled yet
          installation, \* github_installations.status, "none" without a row
          operator,     \* register_installation(): "idle" or "answered"
          connection,   \* [project -> row], for the projects that have one
          connecting,   \* [thread -> what it knows], for the busy threads
          serving,      \* the projects for whom a delivery is being served
          grounds       \* history: what an active connection rests on

connectionVars == <<provider, events, installation, operator, connection,
                    connecting, serving, grounds>>

Row == [repository : Repository,
        status : {"active", "disconnected", "revoked"}]

(* asked: the first transaction has ended.  answered: GitHub said yes.     *)
(* locked: the second one has read what it decides on.  `overtaken': a     *)
(* revocation of this repository was handled since GitHub's answer.        *)
Attempt == [project : Project, repository : Repository,
            stage : {"asked", "answered", "locked"},
            seen : {"none", "active", "disconnected", "revoked"},
            overtaken : BOOLEAN]

Event == [n : Nat, kind : {"suspended", "deleted", "removed"},
          repository : Repository]

ConnectionsTypeOK ==
    /\ provider \in [status : {"active", "suspended", "deleted"},
                     granted : SUBSET Repository, moves : Nat]
    /\ events \subseteq Event
    /\ installation \in {"none", "active", "suspended", "deleted"}
    /\ operator \in {"idle", "answered"}
    /\ DOMAIN connection \subseteq Project
    /\ \A p \in DOMAIN connection : connection[p] \in Row
    /\ DOMAIN connecting \subseteq Connector
    /\ \A t \in DOMAIN connecting : connecting[t] \in Attempt
    /\ serving \in [Project -> {"none", "claimed", "refused"}]
    /\ grounds \in [Project -> {"none", "stale", "fresh"}]

ConnectionsInit ==
    /\ provider = [status |-> "active", granted |-> Repository, moves |-> 0]
    /\ events = {} /\ installation = "none" /\ operator = "idle"
    /\ connection = <<>> /\ connecting = <<>>
    /\ serving = [p \in Project |-> "none"]
    /\ grounds = [p \in Project |-> "none"]

Without(f, x) == [y \in DOMAIN f \ {x} |-> f[y]]
With(f, x, v) == [y \in DOMAIN f \cup {x} |-> IF y = x THEN v ELSE f[y]]

Unlocked == \A t \in DOMAIN connecting : connecting[t].stage # "locked"

(* The join of _claim(), and active().                                     *)
Usable(p) ==
    /\ p \in DOMAIN connection /\ connection[p].status = "active"
    /\ installation = "active"

-----------------------------------------------------------------------------
(* GitHub.  Somebody there suspends the App, lifts the suspension, removes *)
(* it for good, takes a repository away from it or gives it back.  Events  *)
(* may be handled late and in any order; nothing listens to the others.    *)

Move(status, granted, posted) ==
    /\ provider' = [status |-> status, granted |-> granted,
                    moves |-> provider.moves + 1]
    /\ events' = events \cup [n : {provider.moves}, kind : posted[1],
                              repository : posted[2]]
    /\ UNCHANGED <<installation, operator, connection, connecting, serving,
                   grounds>>

ProviderMoves(limit) ==
    /\ provider.moves < limit
    /\ provider.status # "deleted"
    /\ \/ \E s \in {"suspended", "deleted"} \ {provider.status} :
             Move(s, provider.granted,
                  <<{s}, {CHOOSE r \in Repository : TRUE}>>)
       \/ provider.status = "suspended" /\ Move("active", provider.granted, <<{}, {}>>)
       \/ \E r \in provider.granted :
             Move(provider.status, provider.granted \ {r}, <<{"removed"}, {r}>>)
       \/ \E r \in Repository \ provider.granted :
             Move(provider.status, provider.granted \cup {r}, <<{}, {}>>)

-----------------------------------------------------------------------------
(* Revocation.                                                             *)

SetRevoked(projects) ==
    connection' = [p \in DOMAIN connection |->
        IF p \in projects THEN [connection[p] EXCEPT !.status = "revoked"]
        ELSE connection[p]]

Unground(projects) ==
    grounds' = [p \in Project |-> IF p \in projects THEN "none" ELSE grounds[p]]

Concerns(e, repository) == e.kind # "removed" \/ repository = e.repository

Concerned(e) == {p \in DOMAIN connection : Concerns(e, connection[p].repository)}

(* What an event does beside its revocations.  A connect that GitHub       *)
(* answered before it was handled may commit after it.                     *)
Handle(e) ==
    /\ e \in events /\ events' = events \ {e}
    /\ installation' = IF installation = "none" \/ e.kind = "removed"
                       THEN installation ELSE e.kind
    /\ Unground(Concerned(e))
    /\ connecting' = [t \in DOMAIN connecting |->
          [connecting[t] EXCEPT !.overtaken =
              \/ @
              \/ /\ connecting[t].stage # "asked"
                 /\ Concerns(e, connecting[t].repository)]]
    /\ UNCHANGED <<provider, operator, serving>>

(* Mutant of Lifecycle: a suspension changes the installation alone.       *)
LifecycleStatusOnly(e) ==
    /\ Handle(e)
    /\ SetRevoked(IF e.kind = "removed" THEN Concerned(e) ELSE {})

(* _lifecycle(), without the row of the organization.                      *)
Lifecycle(e) ==
    /\ Handle(e)
    /\ SetRevoked(Concerned(e))

(* A delivery is claimed for a connection in use, and process() looks once *)
(* more before it asks GitHub.                                             *)
Serve(p) ==
    /\ Usable(p) /\ serving[p] = "none"
    /\ serving' = [serving EXCEPT ![p] = "claimed"]
    /\ UNCHANGED <<provider, events, installation, operator, connection,
                   connecting, grounds>>

(* GitHubAPI.installation() finds the App suspended; any other answer ends *)
(* the delivery without a word about the connection.                       *)
Ask(p) ==
    /\ serving[p] = "claimed"
    /\ serving' = [serving EXCEPT ![p] =
          IF Usable(p) /\ provider.status = "suspended" THEN "refused" ELSE "none"]
    /\ UNCHANGED <<provider, events, installation, operator, connection,
                   connecting, grounds>>

(* The transaction of _run() that revokes.                                 *)
RevokeRefused(p) ==
    /\ serving[p] = "refused"
    /\ serving' = [serving EXCEPT ![p] = "none"]
    /\ SetRevoked({p}) /\ Unground({p})
    /\ UNCHANGED <<provider, events, installation, operator, connecting>>

-----------------------------------------------------------------------------
(* register_installation(): GitHub is asked before the row is locked.      *)
AskRegistration ==
    /\ operator = "idle" /\ provider.status = "active"
    /\ operator' = "answered"
    /\ UNCHANGED <<provider, events, installation, connection, connecting,
                   serving, grounds>>

Register ==
    /\ operator = "answered" /\ operator' = "idle"
    /\ Unlocked
    /\ installation' = "active"
    /\ UNCHANGED <<provider, events, connection, connecting, serving, grounds>>

-----------------------------------------------------------------------------
(* connect: a transaction, three calls of GitHub, another transaction.     *)

connectOnly == <<provider, events, installation, operator, serving>>

Continue(t, stage) == connecting' = [connecting EXCEPT ![t].stage = stage]

BeginConnect(t, p, r, ready) ==
    /\ t \notin DOMAIN connecting /\ Unlocked
    /\ p \in ready /\ installation = "active"
    /\ connecting' = With(connecting, t,
          [project |-> p, repository |-> r, stage |-> "asked",
           seen |-> "none", overtaken |-> FALSE])
    /\ UNCHANGED <<connectOnly, connection, grounds>>

(* installation(), installation_token() and repository(); the last answer  *)
(* counts.                                                                 *)
Verify(t) ==
    /\ t \in DOMAIN connecting /\ connecting[t].stage = "asked"
    /\ provider.status = "active"
    /\ connecting[t].repository \in provider.granted
    /\ Continue(t, "answered")
    /\ UNCHANGED <<connectOnly, connection, grounds>>

(* The lock, and everything read again.  A project keeps its repository.   *)
Reread(t, ready) ==
    /\ t \in DOMAIN connecting /\ connecting[t].stage = "answered"
    /\ Unlocked
    /\ LET p == connecting[t].project IN
         /\ p \in ready /\ installation = "active"
         /\ p \in DOMAIN connection =>
               connection[p].repository = connecting[t].repository
         /\ connecting' = [connecting EXCEPT
               ![t].stage = "locked",
               ![t].seen = IF p \in DOMAIN connection
                           THEN connection[p].status ELSE "none"]
    /\ UNCHANGED <<connectOnly, connection, grounds>>

Taken(r) == \E p \in DOMAIN connection : connection[p].repository = r

(* The commit: a new row, unless the repository has one; else the status,  *)
(* which is written only if it was another when it was read.               *)
Connect(t) ==
    /\ t \in DOMAIN connecting /\ connecting[t].stage = "locked"
    /\ LET me == connecting[t]
           p == me.project
       IN  /\ me.seen = "none" => ~Taken(me.repository)
           /\ connection' = IF me.seen = "active" THEN connection
                 ELSE With(connection, p, [repository |-> me.repository,
                                           status |-> "active"])
           /\ grounds' = [grounds EXCEPT ![p] =
                 IF connection'[p].status # "active" THEN @
                 ELSE IF me.overtaken THEN "stale" ELSE "fresh"]
    /\ connecting' = Without(connecting, t)
    /\ UNCHANGED connectOnly

(* Any error of any stage: 404, 409, a failed transaction.                 *)
ConnectFails(t) ==
    /\ t \in DOMAIN connecting
    /\ connecting' = Without(connecting, t)
    /\ UNCHANGED <<connectOnly, connection, grounds>>

Disconnect(p) ==
    /\ Unlocked
    /\ p \in DOMAIN connection
    /\ connection' = [connection EXCEPT ![p].status = "disconnected"]
    /\ UNCHANGED <<connectOnly, connecting, grounds>>

(* The rows of deleted projects.                                           *)
Cascade(existing) ==
    /\ connection' = [p \in DOMAIN connection \cap existing |-> connection[p]]
    /\ UNCHANGED <<connectOnly, connecting, grounds>>

-----------------------------------------------------------------------------
(* Safety: once a revocation has been handled, the connection comes back   *)
(* into use only by a connect that GitHub approved; neither the end of the *)
(* suspension, nor a new registration, nor an old event do that            *)
(* (docs/github.md:95-99).  A connect that GitHub had answered before may  *)
(* still commit: `grounds' is "stale" then.                                *)
RevocationLasts == \A p \in Project : Usable(p) => grounds[p] # "none"
=============================================================================
