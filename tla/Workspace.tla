----------------------------- MODULE Workspace -----------------------------
(***************************************************************************)
(* One organization: its plan, projects, policies, monthly usage and       *)
(* analyses, and the transactions that read and change them under the row  *)
(* lock of the organization (server/lifecycle.py, app.py, quotas.py,       *)
(* persistence.py, plans.py, admin.py, and the two transactions of         *)
(* server/github_service.py that admit work).                              *)
(*                                                                         *)
(* A route goes through authorized_org(): it locks the row, expires every  *)
(* object it has read before and reads it again.  What it decides, it      *)
(* decides under the lock, so such a route is one step here.  Three        *)
(* transactions read first and lock later, and are two steps or more:      *)
(* create_analysis (which refreshes the project), the claim of a GitHub    *)
(* delivery (which does not), and cleanup().                               *)
(*                                                                         *)
(* Its members are those of module Members, its GitHub installation and    *)
(* connections those of module Connections; elsewhere a caller is one who  *)
(* may call.  Not here: the slots and states of an analysis (module Jobs), *)
(* the delivery row (GitHubDelivery), its run (GitHubPublish), and the     *)
(* rows of other organizations (Events).                                   *)
(***************************************************************************)
EXTENDS Members, Connections, FiniteSetsExt

CONSTANTS Analysis,           \* identifiers; one is used again after its row
          Request,            \* threads that submit or claim an analysis
          Rules,              \* contents of a policy
          None,               \* no policy, no analysis
          Plan,               \* plan codes
          Entitled,           \* [Plan -> Entitlements]: the table of plans.py
          Batch,              \* limit of cleanup()
          Bounds              \* what a behaviour may use, see Bound

Entitlements == [projects : Nat, analyses : Nat, retention : Nat,
                 members : Nat,
                 advanced : BOOLEAN, organization : BOOLEAN, team : BOOLEAN]

(* The bounds of the model: edits of policies, days that pass, the plans   *)
(* and identifiers in use.  A behaviour keeps the one it starts with.      *)
Bound == [edits : Nat, days : Nat, plan : SUBSET Plan, project : SUBSET Project,
          analysis : SUBSET Analysis, request : SUBSET Request,
          people : SUBSET User, guest : SUBSET User,
          knock : SUBSET (Visitor \X User),
          connector : SUBSET Connector, moves : Nat]

Policy   == [rules : Rules \cup {None}, version : Nat]
Snapshot == [source : {"project", "organization", "default"}, version : Nat,
             rules : Rules \cup {None}]

AnalysisRow == [of : Project, by : {"http", "github"}, created : Nat,
                snapshot : Snapshot]

ASSUME WorkspaceAssumption ==
    /\ None \notin Rules \cup AnalysisRow
    /\ Entitled \in [Plan -> Entitlements]
    /\ "free" \in Plan
    /\ Batch \in Nat \ {0}
    /\ Bounds \subseteq Bound

VARIABLES bound,     \* the bounds of this behaviour
          plan,      \* organizations.plan
          org,       \* the policy of the organization
          project,   \* [Project -> state and policy]
          used,      \* usage.analyses of the current month
          analysis,  \* [Analysis -> row or None]
          today,     \* the clock, in days
          req,       \* [Request -> what the thread has read and captured]
          sweep,     \* cleanup(): its clock and its candidates
          moments,   \* history: [Request -> policies in force since its read]
          torn       \* history: who captured a policy that never was in force

store == <<plan, org, project, used, analysis>>
vars  == <<bound, store, today, req, sweep, moments, torn, memberVars,
          connectionVars>>

Idle == [stage |-> "idle"]

(* looked: objects read, lock not yet taken.  claimed: the delivery is     *)
(* QUEUED with its policy in hand.  running: process() found the           *)
(* connection active.                                                      *)
RequestState ==
    {Idle}
    \cup [stage : {"looked"}, kind : {"http", "github"}, of : Project,
          seen : [state : {"active", "archived"}, policy : Policy]]
    \cup [stage : {"claimed", "running"}, of : Project, policy : Snapshot]

StoreTypeOK ==
    /\ bound \in Bounds
    /\ plan \in Plan
    /\ org \in Policy
    /\ project \in [Project -> [state : {"none", "active", "archived", "deleted"},
                                policy : Policy]]
    /\ used \in Nat /\ \E c \in Plan : used <= Entitled[c].analyses
    /\ analysis \in [Analysis -> AnalysisRow \cup {None}]
    /\ \A a \in Analysis : analysis[a] # None => analysis[a].created <= today
    /\ today \in 0 .. bound.days
    /\ req \in [Request -> RequestState]
    /\ sweep \in {Idle} \cup [stage : {"chosen"}, now : 0 .. today,
                              chosen : SUBSET Analysis]
    /\ moments \in [Request -> SUBSET Snapshot]
    /\ torn \subseteq {"http", "github"}

TypeOK == StoreTypeOK /\ MembersTypeOK /\ ConnectionsTypeOK

NoPolicy == [rules |-> None, version |-> 0]

Init ==
    /\ bound \in Bounds
    /\ plan = "free"
    /\ org = NoPolicy
    /\ project = [p \in Project |-> [state |-> "none", policy |-> NoPolicy]]
    /\ used = 0
    /\ analysis = [a \in Analysis |-> None]
    /\ today = 0
    /\ req = [r \in Request |-> Idle]
    /\ sweep = Idle
    /\ moments = [r \in Request |-> {}]
    /\ torn = {}
    /\ MembersInit
    /\ ConnectionsInit

-----------------------------------------------------------------------------
(* Reading the rows.                                                       *)

Limits == Entitled[plan]

Exists(p) == project[p].state \in {"active", "archived"}

ActiveProjects == {p \in Project : project[p].state = "active"}

(* Mutant of EffectivePolicy: the project's rules under the                *)
(* organization's version.                                                 *)
EffectiveOrgVersion(c, o, p) ==
    IF Entitled[c].advanced /\ p.rules # None
      THEN [source |-> "project", version |-> o.version, rules |-> p.rules]
    ELSE IF Entitled[c].organization /\ o.rules # None
      THEN [source |-> "organization", version |-> o.version, rules |-> o.rules]
    ELSE [source |-> "default", version |-> 1, rules |-> None]

(* An entitled policy of the project, else one of the organization, else   *)
(* the default.                                                            *)
EffectivePolicy(c, o, p) ==
    IF Entitled[c].advanced /\ p.rules # None
      THEN [source |-> "project", version |-> p.version, rules |-> p.rules]
    ELSE IF Entitled[c].organization /\ o.rules # None
      THEN [source |-> "organization", version |-> o.version, rules |-> o.rules]
    ELSE [source |-> "default", version |-> 1, rules |-> None]

InForce(p) == EffectivePolicy(plan, org, project[p].policy)

(* visible_analysis(): at the exact cutoff a row has expired.              *)
Visible(a) == analysis[a] # None /\ analysis[a].created > today - Limits.retention

Expired(a) == analysis[a] # None /\ ~Visible(a)

(* quota("projects") and quota("analyses_per_month").                      *)
ProjectFits == Cardinality(ActiveProjects) < Limits.projects

(* Mutant of AnalysisFits: one too many.                                   *)
AnalysisFitsTwice == used <= Limits.analyses

AnalysisFits == used < Limits.analyses

-----------------------------------------------------------------------------
(* Plans, projects and policies.                                           *)

AssignPlan(c) ==
    /\ c \in bound.plan
    /\ plan' = c
    /\ UNCHANGED <<org, project, used, analysis, today, req, sweep, torn>>

SetState(p, s) == project' = [project EXCEPT ![p].state = s]

CreateProject(p) ==
    /\ p \in bound.project
    /\ project[p].state = "none"
    /\ p = CHOOSE q \in bound.project : project[q].state = "none"
    /\ ProjectFits
    /\ SetState(p, "active")
    /\ UNCHANGED <<plan, org, used, analysis, today, req, sweep, torn>>

Archive(p) ==
    /\ project[p].state = "active"
    /\ SetState(p, "archived")
    /\ UNCHANGED <<plan, org, used, analysis, today, req, sweep, torn>>

Restore(p) ==
    /\ project[p].state = "archived"
    /\ ProjectFits
    /\ SetState(p, "active")
    /\ UNCHANGED <<plan, org, used, analysis, today, req, sweep, torn>>

(* The analyses of the project go with it.                                 *)
DeleteProject(p) ==
    /\ Exists(p)
    /\ SetState(p, "deleted")
    /\ analysis' = [a \in Analysis |->
                      IF analysis[a] # None /\ analysis[a].of = p
                        THEN None ELSE analysis[a]]
    /\ UNCHANGED <<plan, org, used, today, req, sweep, torn>>

Edits == org.version + MapThenSumSet(LAMBDA p : project[p].policy.version, Project)

Edited(policy, rules) == [rules |-> rules, version |-> policy.version + 1]

(* Setting a policy needs the entitlement, clearing it does not.           *)
EditProjectPolicy(p, rules) ==
    /\ Edits < bound.edits
    /\ Exists(p)
    /\ rules # None => Limits.advanced
    /\ project' = [project EXCEPT ![p].policy = Edited(@, rules)]
    /\ UNCHANGED <<plan, org, used, analysis, today, req, sweep, torn>>

EditOrgPolicy(rules) ==
    /\ Edits < bound.edits
    /\ rules # None => Limits.organization
    /\ org' = Edited(org, rules)
    /\ UNCHANGED <<plan, project, used, analysis, today, req, sweep, torn>>

-----------------------------------------------------------------------------
(* Submitting an analysis.                                                 *)

(* The read before the lock.  The claim of a delivery ignores it at once   *)
(* when the project is archived; create_analysis looks only later.         *)
Look(r, kind, p) ==
    /\ r \in bound.request
    /\ req[r] = Idle
    /\ Exists(p)
    /\ kind = "github" => project[p].state = "active"
    /\ req' = [req EXCEPT ![r] = [stage |-> "looked", kind |-> kind, of |-> p,
                                  seen |-> project[p]]]
    /\ UNCHANGED <<store, today, sweep, torn>>

(* The route answers with an error, the provider refuses, no slot is free: *)
(* the thread is done.                                                     *)
GiveUp(r) ==
    /\ req[r] # Idle
    /\ req' = [req EXCEPT ![r] = Idle]
    /\ UNCHANGED <<store, today, sweep, torn>>

(* The policy a request captures, and whether it was in force at some      *)
(* moment since the request began to read.                                 *)
Capture(r, kind, policy) ==
    torn' = IF policy \in moments[r] THEN torn ELSE torn \cup {kind}

(* An identifier is new: no row has it, and no candidate of a cleanup.     *)
Fresh(a) == analysis[a] = None /\ (sweep # Idle => a \notin sweep.chosen)

(* The row of the analysis and its charge, in one transaction.             *)
Admit(r, kind, policy) ==
    \E a \in bound.analysis :
        /\ Fresh(a)
        /\ a = CHOOSE b \in bound.analysis : Fresh(b)
        /\ analysis' = [analysis EXCEPT ![a] =
               [of |-> req[r].of, by |-> kind, created |-> today, snapshot |-> policy]]
        /\ used' = used + 1
        /\ req' = [req EXCEPT ![r] = Idle]

(* Mutant of AdmitHttp: the project is not refreshed under the lock.       *)
AdmitHttpUnrefreshed(r) ==
    /\ req[r].stage = "looked"
    /\ req[r].kind = "http"
    /\ Exists(req[r].of)
    /\ req[r].seen.state = "active"
    /\ AnalysisFits
    /\ LET policy == EffectivePolicy(plan, org, req[r].seen.policy) IN
           /\ Capture(r, "http", policy)
           /\ Admit(r, "http", policy)
    /\ UNCHANGED <<plan, org, project, today, sweep>>

(* create_analysis: lock, read again, check, charge, insert.               *)
AdmitHttp(r) ==
    /\ req[r].stage = "looked"
    /\ req[r].kind = "http"
    /\ project[req[r].of].state = "active"
    /\ AnalysisFits
    /\ LET policy == InForce(req[r].of) IN
           /\ Capture(r, "http", policy)
           /\ Admit(r, "http", policy)
    /\ UNCHANGED <<plan, org, project, today, sweep>>

(* _claim(): lock_org() reads the organization again, but the project is   *)
(* the object read before the lock.                                        *)
Claim(r) ==
    /\ req[r].stage = "looked"
    /\ req[r].kind = "github"
    /\ LET policy == EffectivePolicy(plan, org, req[r].seen.policy) IN
           /\ Capture(r, "github", policy)
           /\ req' = [req EXCEPT ![r] =
                        [stage |-> "claimed", of |-> req[r].of, policy |-> policy]]
    /\ UNCHANGED <<store, today, sweep>>

(* process() starts with active().                                         *)
Process(r) ==
    /\ req[r].stage = "claimed"
    /\ project[req[r].of].state = "active"
    /\ req' = [req EXCEPT ![r].stage = "running"]
    /\ UNCHANGED <<store, today, sweep, torn>>

(* After the provider's answers: the row, with the policy captured by the  *)
(* claim.  A deleted project has taken the connection with it.             *)
AdmitGitHub(r) ==
    /\ req[r].stage = "running"
    /\ Exists(req[r].of)
    /\ AnalysisFits
    /\ Admit(r, "github", req[r].policy)
    /\ UNCHANGED <<plan, org, project, today, sweep, torn>>

-----------------------------------------------------------------------------
(* Deletion and retention.                                                 *)

DeleteAnalysis(a) ==
    /\ analysis[a] # None
    /\ analysis' = [analysis EXCEPT ![a] = None]
    /\ UNCHANGED <<plan, org, project, used, today, req, sweep, torn>>

(* A day passes; the first day of a month has a usage row of its own.      *)
NextDay ==
    /\ today < bound.days
    /\ today' = today + 1
    /\ used' \in {used, 0}
    /\ UNCHANGED <<plan, org, project, analysis, req, sweep, torn>>

(* cleanup() reads its clock and, without a lock, the oldest of the rows   *)
(* that the plans let expire.                                              *)
Choose ==
    /\ sweep = Idle
    /\ LET expired == {a \in Analysis : Expired(a)} IN
         \E chosen \in SUBSET expired :
           /\ chosen # {}
           /\ Cardinality(chosen) <= Batch
           /\ Cardinality(chosen) = Batch \/ chosen = expired
           /\ \A a \in chosen, b \in expired \ chosen :
                  analysis[a].created <= analysis[b].created
           /\ sweep' = [stage |-> "chosen", now |-> today, chosen |-> chosen]
    /\ UNCHANGED <<store, today, req, torn>>

(* cutoff(org, now), with the plan read under the lock.                    *)
Cutoff == sweep.now - Limits.retention

Remove(ids) ==
    /\ analysis' = [a \in Analysis |-> IF a \in ids THEN None ELSE analysis[a]]
    /\ sweep' = Idle
    /\ UNCHANGED <<plan, org, project, used, today, req, torn>>

(* Mutants of Cleanup: no second look; another boundary than the first     *)
(* look.                                                                   *)
CleanupChosen ==
    /\ sweep.stage = "chosen"
    /\ Remove(sweep.chosen)

CleanupPastCutoff ==
    /\ sweep.stage = "chosen"
    /\ Remove({a \in sweep.chosen : analysis[a] # None /\ analysis[a].created < Cutoff})

(* The row lock, the second look at the candidates, the deletion.          *)
Cleanup ==
    /\ sweep.stage = "chosen"
    /\ Remove({a \in sweep.chosen : analysis[a] # None /\ analysis[a].created <= Cutoff})

-----------------------------------------------------------------------------
Editing ==
    \/ \E c \in Plan : AssignPlan(c)
    \/ \E rules \in Rules \cup {None} : EditOrgPolicy(rules)
    \/ \E p \in Project :
         \/ CreateProject(p) \/ Archive(p) \/ Restore(p) \/ DeleteProject(p)
         \/ \E rules \in Rules \cup {None} : EditProjectPolicy(p, rules)

Submitting ==
    \E r \in Request :
        \/ \E kind \in {"http", "github"}, p \in Project : Look(r, kind, p)
        \/ GiveUp(r) \/ AdmitHttp(r) \/ Claim(r) \/ Process(r) \/ AdmitGitHub(r)

Retaining ==
    (\E a \in Analysis : DeleteAnalysis(a)) \/ NextDay \/ Choose \/ Cleanup

(* The history of a read: every policy in force from the read to the lock. *)
Observe ==
    moments' = [r \in Request |->
        IF req'[r].stage # "looked" THEN {}
        ELSE (IF req[r] = Idle THEN {} ELSE moments[r])
             \cup {EffectivePolicy(plan', org', project'[req'[r].of].policy)}]

(* The routes of module Members, under the plan in force.                  *)
Membering ==
    \/ \E actor \in bound.people :
          \/ \E u \in bound.people, new \in Role \cup {Nothing} :
                ChangeMember(actor, u, new, Limits)
          \/ \E i \in Invitation, u \in bound.guest, as \in Role \ {"owner"} :
                Invite(actor, i, u, as, Limits, today)
    \/ \E u \in bound.people, i \in Invitation : Revoke(u, i)
    \/ \E v \in Visitor :
          \/ \E u \in User, i \in Invitation :
                <<v, u>> \in bound.knock /\ FindInvitation(v, u, i)
          \/ Accept(v, Limits, today) \/ AcceptRefused(v, Limits, today)

(* The routes of module Connections, and what happens beside them.         *)
Connecting ==
    LET ready == {p \in bound.project : project[p].state = "active"} IN
    \/ ProviderMoves(bound.moves)
    \/ bound.connector # {} /\ (AskRegistration \/ Register)
    \/ \E e \in events : Lifecycle(e)
    \/ \E p \in Project :
          Serve(p) \/ Ask(p) \/ RevokeRefused(p) \/ Disconnect(p)
    \/ \E t \in bound.connector :
          \/ \E p \in ready, r \in Repository : BeginConnect(t, p, r, ready)
          \/ Verify(t) \/ Reread(t, ready) \/ Connect(t) \/ ConnectFails(t)

(* Nothing of this commits while a connect holds the row of the            *)
(* organization; connections go with their projects.                       *)
Beside ==
    /\ Unlocked
    /\ Observe
    /\ Cascade({p \in Project : Exists(p)'})
    /\ UNCHANGED <<bound, memberVars>>

Next ==
    \/ (Editing \/ Submitting \/ Retaining) /\ Beside
    \/ /\ Membering
       /\ UNCHANGED <<bound, store, today, req, sweep, moments, torn, connectionVars>>
    \/ /\ Connecting
       /\ UNCHANGED <<bound, store, today, req, sweep, moments, torn, memberVars>>

Spec == Init /\ [][Next]_vars

(* Fairness: the retention thread (BR_RETENTION_SWEEP_SECONDS) or the      *)
(* operator's timer runs cleanup() again and again, each run to its end.   *)
Fairness == WF_vars(Choose /\ Beside) /\ WF_vars(Cleanup /\ Beside)

FairSpec == Spec /\ Fairness

-----------------------------------------------------------------------------
(* Action property: an upload is judged under a policy that was in force at*)
(* some moment of its request, although the project is first read without  *)
(* the lock and may be edited together with the organization before the    *)
(* lock is granted (docs/policy.md:25-27; create_analysis refreshes); and  *)
(* it never starts on a project archived or deleted while the request      *)
(* waited (app.py:705-707).                                                *)
Started == {a \in Analysis : analysis[a] = None /\ analysis'[a] # None}

UploadIsLicit ==
    [][ \A a \in Started : analysis'[a].by = "http"
          => "http" \notin torn' /\ project[analysis'[a].of].state = "active" ]_vars

(* Safety: the delivery of a webhook, too, is judged under a policy that   *)
(* was in force (docs/policy.md:25-27, docs/github.md:204-205).            *)
DeliveryPolicyWasInForce == "github" \notin torn

(* Safety: a policy is known by its source and version.  Whatever order    *)
(* edits, clearings and plan changes come in, no two snapshots of one      *)
(* source name different rules by one version (docs/policy.md:25-28).      *)
Snapshots(p) ==
    {InForce(p)} \cup
    {analysis[a].snapshot : a \in {b \in Analysis : analysis[b] # None /\ analysis[b].of = p}}

VersionNamesRules ==
    \A p, q \in Project : \A s \in Snapshots(p), t \in Snapshots(q) :
        /\ s.source = t.source
        /\ s.version = t.version
        /\ s.source = "project" => p = q
        => s.rules = t.rules

(* Action property: a downgrade may leave more than the plan allows, but   *)
(* from then on no way of getting more is open: neither creating nor       *)
(* restoring a project, neither inviting nor accepting an invitation of    *)
(* before; and whatever creates an analysis, an upload or a delivery with  *)
(* a policy of long ago, pays one unit of the current month and plan, which*)
(* nothing refunds (docs/api.md:167).                                      *)
ProjectsFit ==
    Cardinality(ActiveProjects') > Cardinality(ActiveProjects)
    => Cardinality(ActiveProjects') <= Limits'.projects

SeatsFit ==
    \/ Cardinality(Member') > Cardinality(Member)
    \/ Seats(today)' > Seats(today)
    => Seats(today)' <= Limits'.members

StartsArePaid ==
    /\ used' = used + Cardinality(Started) \/ today' # today
    /\ Started # {} => used' <= Limits.analyses

WithinPlan == [][ProjectsFit /\ SeatsFit /\ StartsArePaid]_vars

(* Action property: an invitation admits the person it is addressed to, in *)
(* the role it names, at most once and never after it was revoked or has   *)
(* expired, also when several requests hold it while they wait for the     *)
(* lock (accept_invite refreshes it).                                      *)
InvitationAdmitsOnce ==
    [][ \A u \in User : role[u] = Nothing /\ role'[u] # Nothing
                         => JoinedBy(u, today) ]_vars

(* Action property: cleanup() deletes nothing that a reader may still see  *)
(* under the plan in force, although it chose its candidates under an      *)
(* earlier one (docs/data-lifecycle.md:66-67).                             *)
CleanupSparesVisible ==
    [][ sweep # Idle /\ sweep' = Idle
        => \A a \in Analysis : Visible(a) => analysis'[a] = analysis[a] ]_vars

(* Liveness: in bounded batches, oldest first, cleanup() reaches every     *)
(* expired analysis, also one exactly at its cutoff; an upgrade may make   *)
(* it visible again before (docs/data-lifecycle.md:12-13, 59-67).          *)
ExpiredGoes == \A a \in Analysis : Expired(a) ~> ~Expired(a)
=============================================================================
