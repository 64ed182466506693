--------------------------- MODULE WorkspaceProofs ---------------------------
(***************************************************************************)
(* Theorems about module Workspace, with the members and connections it is *)
(* composed with.                                                          *)
(***************************************************************************)
EXTENDS Workspace, FiniteSetTheorems, TLAPS

-----------------------------------------------------------------------------
(* The types.                                                              *)

LEMMA BoundTyped ==
    ASSUME bound \in Bounds
    PROVE  /\ bound.edits \in Nat /\ bound.days \in Nat /\ bound.moves \in Nat
           /\ bound.plan \subseteq Plan /\ bound.project \subseteq Project
           /\ bound.analysis \subseteq Analysis /\ bound.request \subseteq Request
           /\ bound.people \subseteq User /\ bound.guest \subseteq User
           /\ bound.knock \subseteq Visitor \X User
           /\ bound.connector \subseteq Connector
  BY WorkspaceAssumption DEF Bound

LEMMA LimitsTyped ==
    ASSUME NEW c \in Plan
    PROVE  Entitled[c] \in Entitlements
  BY WorkspaceAssumption

LEMMA EffectiveTyped ==
    ASSUME NEW c \in Plan, NEW o \in Policy, NEW q \in Policy
    PROVE  EffectivePolicy(c, o, q) \in Snapshot
  BY WorkspaceAssumption DEF EffectivePolicy, Policy, Snapshot

(* The transactions of the store keep its types; the history of the reads  *)
(* comes from their results.                                               *)
RowsTypeOK ==
    /\ bound \in Bounds
    /\ plan \in Plan
    /\ org \in Policy
    /\ project \in [Project -> [state : {"none", "active", "archived", "deleted"},
                                policy : Policy]]
    /\ used \in Nat /\ \E c \in Plan : used <= Entitled[c].analyses
    /\ analysis \in [Analysis -> AnalysisRow \cup {None}]
    /\ \A a \in Analysis : analysis[a] # None => analysis[a].created <= today
    /\ today \in 0 .. bound.days
    /\ req \in [Request -> RequestState]
    /\ sweep \in {Idle} \cup [stage : {"chosen"}, now : 0 .. today,
                              chosen : SUBSET Analysis]
    /\ torn \subseteq {"http", "github"}

LEMMA EditingTyped ==
    ASSUME RowsTypeOK, Editing, bound' = bound
    PROVE  RowsTypeOK'
  <1> USE WorkspaceAssumption DEF RowsTypeOK, SetState, Policy, Edited
  <1>1. ASSUME NEW c \in Plan, AssignPlan(c) PROVE RowsTypeOK'
    BY <1>1 DEF AssignPlan
  <1>2. ASSUME NEW x \in Rules \cup {None}, EditOrgPolicy(x) PROVE RowsTypeOK'
    BY <1>2 DEF EditOrgPolicy
  <1>3. ASSUME NEW p \in Project, CreateProject(p) PROVE RowsTypeOK'
    <2>1. /\ project' = [project EXCEPT ![p].state = "active"]
          /\ UNCHANGED <<plan, org, used, analysis, today, req, sweep, torn>>
      BY <1>3 DEF CreateProject
    <2> QED BY <2>1
  <1>4. ASSUME NEW p \in Project, Archive(p) PROVE RowsTypeOK'
    BY <1>4 DEF Archive
  <1>5. ASSUME NEW p \in Project, Restore(p) PROVE RowsTypeOK'
    BY <1>5 DEF Restore
  <1>6. ASSUME NEW p \in Project, DeleteProject(p) PROVE RowsTypeOK'
    BY <1>6 DEF DeleteProject
  <1>7. ASSUME NEW p \in Project, NEW x \in Rules \cup {None},
               EditProjectPolicy(p, x)
        PROVE  RowsTypeOK'
    BY <1>7 DEF EditProjectPolicy
  <1> HIDE DEF RowsTypeOK
  <1> QED BY <1>1, <1>2, <1>3, <1>4, <1>5, <1>6, <1>7 DEF Editing

LEMMA SubmittingTyped ==
    ASSUME RowsTypeOK, Submitting, bound' = bound
    PROVE  RowsTypeOK'
  <1> USE WorkspaceAssumption DEF RowsTypeOK, RequestState, Idle, store
  <1>1. ASSUME NEW r \in Request, NEW kind \in {"http", "github"},
               NEW p \in Project, Look(r, kind, p)
        PROVE  RowsTypeOK'
    BY <1>1 DEF Look, Exists
  <1>2. ASSUME NEW r \in Request, GiveUp(r) PROVE RowsTypeOK'
    BY <1>2 DEF GiveUp
  <1>3. ASSUME NEW r \in Request, NEW kind \in {"http", "github"},
               NEW policy \in Snapshot, req[r].stage # "idle",
               AnalysisFits, Admit(r, kind, policy)
        PROVE  /\ used' \in Nat /\ \E c \in Plan : used' <= Entitled[c].analyses
               /\ analysis' \in [Analysis -> AnalysisRow \cup {None}]
               /\ \A a \in Analysis : analysis'[a] # None => analysis'[a].created <= today
               /\ req' \in [Request -> RequestState]
    <2>1. PICK a \in Analysis :
             /\ analysis' = [analysis EXCEPT ![a] =
                  [of |-> req[r].of, by |-> kind, created |-> today,
                   snapshot |-> policy]]
             /\ used' = used + 1
             /\ req' = [req EXCEPT ![r] = Idle]
      BY <1>3, BoundTyped DEF Admit
    <2>2. req[r].of \in Project
      BY <1>3
    <2>3. [of |-> req[r].of, by |-> kind, created |-> today, snapshot |-> policy]
            \in AnalysisRow
      BY <2>2, BoundTyped DEF AnalysisRow
    <2>4. Entitled[plan].analyses \in Nat
      BY LimitsTyped DEF Entitlements
    <2>5. used + 1 <= Entitled[plan].analyses
      BY <1>3, <2>4 DEF AnalysisFits, Limits
    <2> QED BY <2>1, <2>3, <2>5, BoundTyped
  <1>4. ASSUME NEW r \in Request, AdmitHttp(r) PROVE RowsTypeOK'
    <2>1. req[r].of \in Project /\ req[r].stage # "idle"
      BY <1>4 DEF AdmitHttp
    <2>2. InForce(req[r].of) \in Snapshot
      BY <2>1, EffectiveTyped DEF InForce
    <2>3. AnalysisFits /\ Admit(r, "http", InForce(req[r].of))
      BY <1>4 DEF AdmitHttp
    <2>4. torn' \subseteq {"http", "github"}
      BY <1>4 DEF AdmitHttp, Capture
    <2>5. UNCHANGED <<plan, org, project, today, sweep>>
      BY <1>4 DEF AdmitHttp
    <2> QED BY <1>3, <2>1, <2>2, <2>3, <2>4, <2>5
  <1>5. ASSUME NEW r \in Request, Claim(r) PROVE RowsTypeOK'
    <2> DEFINE policy == EffectivePolicy(plan, org, req[r].seen.policy)
    <2>1. req[r].of \in Project /\ req[r].seen.policy \in Policy
      BY <1>5 DEF Claim
    <2>2. policy \in Snapshot
      BY <2>1, EffectiveTyped
    <2> HIDE DEF policy
    <2>3. /\ req' = [req EXCEPT ![r] =
                       [stage |-> "claimed", of |-> req[r].of, policy |-> policy]]
          /\ torn' \subseteq {"http", "github"}
          /\ UNCHANGED <<store, today, sweep>>
      BY <1>5 DEF Claim, Capture, policy
    <2> QED BY <2>1, <2>2, <2>3
  <1>6. ASSUME NEW r \in Request, Process(r) PROVE RowsTypeOK'
    BY <1>6 DEF Process
  <1>7. ASSUME NEW r \in Request, AdmitGitHub(r) PROVE RowsTypeOK'
    <2>1. req[r].policy \in Snapshot /\ req[r].stage # "idle"
      BY <1>7 DEF AdmitGitHub
    <2>2. AnalysisFits /\ Admit(r, "github", req[r].policy)
      BY <1>7 DEF AdmitGitHub
    <2>3. UNCHANGED <<plan, org, project, today, sweep, torn>>
      BY <1>7 DEF AdmitGitHub
    <2> QED BY <1>3, <2>1, <2>2, <2>3
  <1> HIDE DEF RowsTypeOK
  <1> QED BY <1>1, <1>2, <1>4, <1>5, <1>6, <1>7 DEF Submitting

LEMMA RetainingTyped ==
    ASSUME RowsTypeOK, Retaining, bound' = bound
    PROVE  RowsTypeOK'
  <1> USE WorkspaceAssumption, BoundTyped DEF RowsTypeOK, store
  <1>1. ASSUME NEW a \in Analysis, DeleteAnalysis(a) PROVE RowsTypeOK'
    BY <1>1 DEF DeleteAnalysis
  <1>2. ASSUME NextDay PROVE RowsTypeOK'
    <2>1. 0 <= Entitled["free"].analyses
      BY LimitsTyped DEF Entitlements
    <2>2. /\ used' \in Nat /\ \E c \in Plan : used' <= Entitled[c].analyses
      BY <1>2, <2>1 DEF NextDay
    <2>3. today' \in 0 .. bound.days /\ today' = today + 1 /\ today \in Nat
      BY <1>2 DEF NextDay
    <2>4. UNCHANGED <<plan, org, project, analysis, req, sweep, torn>>
      BY <1>2 DEF NextDay
    <2>5. \A a \in Analysis : analysis[a] # None => analysis[a].created \in Nat
      BY DEF AnalysisRow
    <2>6. \A a \in Analysis : analysis'[a] # None => analysis'[a].created <= today'
      BY <2>3, <2>4, <2>5
    <2>7. sweep' \in {Idle} \cup [stage : {"chosen"}, now : 0 .. today',
                              chosen : SUBSET Analysis]
      BY <2>3, <2>4
    <2> QED BY <2>2, <2>3, <2>4, <2>6, <2>7
  <1>3. ASSUME Choose PROVE RowsTypeOK'
    BY <1>3 DEF Choose
  <1>4. ASSUME Cleanup PROVE RowsTypeOK'
    BY <1>4 DEF Cleanup, Remove
  <1> HIDE DEF RowsTypeOK
  <1> QED BY <1>1, <1>2, <1>3, <1>4 DEF Retaining

LEMMA ObserveTyped ==
    ASSUME StoreTypeOK, RowsTypeOK', Observe
    PROVE  StoreTypeOK'
  <1>1. ASSUME NEW r \in Request, req'[r].stage = "looked"
        PROVE  EffectivePolicy(plan', org', project'[req'[r].of].policy) \in Snapshot
    <2>1. req'[r].of \in Project
      BY <1>1 DEF RowsTypeOK, RequestState, Idle
    <2> QED BY <2>1, EffectiveTyped DEF RowsTypeOK
  <1>2. moments' \in [Request -> SUBSET Snapshot]
    BY <1>1 DEF Observe, StoreTypeOK
  <1> QED BY <1>2 DEF StoreTypeOK, RowsTypeOK

LEMMA BesideTyped ==
    ASSUME StoreTypeOK, Editing \/ Submitting \/ Retaining, Observe,
           bound' = bound
    PROVE  StoreTypeOK'
  <1>1. RowsTypeOK
    BY DEF StoreTypeOK, RowsTypeOK
  <1> QED BY <1>1, EditingTyped, SubmittingTyped, RetainingTyped, ObserveTyped

LEMMA MembersTyped ==
    ASSUME MembersTypeOK, Membering, bound \in Bounds, today \in Nat
    PROVE  MembersTypeOK'
  <1> USE MembersAssumption, BoundTyped DEF MembersTypeOK
  <1>1. ASSUME NEW actor \in User, NEW u \in User, NEW new \in Role \cup {Nothing},
               ChangeMember(actor, u, new, Limits)
        PROVE  MembersTypeOK'
    BY <1>1 DEF ChangeMember
  <1>2. ASSUME NEW actor \in User, NEW i \in Invitation, NEW u \in User,
               NEW as \in Role \ {"owner"}, Invite(actor, i, u, as, Limits, today)
        PROVE  MembersTypeOK'
    <2>1. [email |-> u, role |-> as, expires |-> today + InviteDays,
           accepted |-> FALSE, revoked |-> FALSE] \in InvitationRow
      <3>1. today + InviteDays \in Nat
        OBVIOUS
      <3> HIDE DEF MembersTypeOK
      <3> QED BY ONLY <3>1, as \in Role \ {"owner"}, u \in User
        DEF InvitationRow
    <2> QED BY <1>2, <2>1 DEF Invite
  <1>3. ASSUME NEW u \in User, NEW i \in Invitation, Revoke(u, i)
        PROVE  MembersTypeOK'
    <2>1. invitation[i] \in InvitationRow
      BY <1>3 DEF Revoke
    <2>2. [invitation[i] EXCEPT !.revoked = TRUE] \in InvitationRow
      <3> DEFINE it == invitation[i]
      <3> HIDE DEF it, MembersTypeOK
      <3>1. it \in InvitationRow
        BY <2>1 DEF it
      <3>2. [it EXCEPT !.revoked = TRUE] \in InvitationRow
        BY ONLY <3>1 DEF InvitationRow
      <3> QED BY <3>2 DEF it
    <2>3. /\ invitation' = [invitation EXCEPT
                             ![i] = [invitation[i] EXCEPT !.revoked = TRUE]]
          /\ UNCHANGED <<role, accepting>>
      BY <1>3 DEF Revoke
    <2> QED BY <2>2, <2>3
  <1>4. ASSUME NEW v \in Visitor, NEW u \in User, NEW i \in Invitation,
               FindInvitation(v, u, i)
        PROVE  MembersTypeOK'
    BY <1>4 DEF FindInvitation
  <1>5. ASSUME NEW v \in Visitor, Accept(v, Limits, today) PROVE MembersTypeOK'
    <2> DEFINE i == accepting[v].id
               u == accepting[v].by
               row == invitation[i]
    <2>1. i \in Invitation /\ u \in User
      BY <1>5 DEF Accept
    <2>2. row \in InvitationRow
      BY <1>5, <2>1 DEF Accept, Admissible, Open
    <2>3. /\ role' = [role EXCEPT ![u] = row.role]
          /\ invitation' = [invitation EXCEPT ![i].accepted = TRUE]
          /\ accepting' = [accepting EXCEPT ![v] = Nothing]
      BY <1>5 DEF Accept, Join
    <2>4. row.role \in Role
      BY <2>2 DEF InvitationRow
    <2>5. [row EXCEPT !.accepted = TRUE] \in InvitationRow
      BY <2>2 DEF InvitationRow
    <2> QED BY <2>1, <2>3, <2>4, <2>5
  <1>6. ASSUME NEW v \in Visitor, AcceptRefused(v, Limits, today)
        PROVE  MembersTypeOK'
    BY <1>6 DEF AcceptRefused
  <1> HIDE DEF MembersTypeOK
  <1> QED BY <1>1, <1>2, <1>3, <1>4, <1>5, <1>6 DEF Membering

LEMMA ConnectionsTyped ==
    ASSUME ConnectionsTypeOK, Connecting, bound \in Bounds
    PROVE  ConnectionsTypeOK'
  <1> USE BoundTyped DEF ConnectionsTypeOK
  <1>1. ASSUME ProviderMoves(bound.moves) PROVE ConnectionsTypeOK'
    <2>1. ASSUME NEW s \in {"active", "suspended", "deleted"},
                 NEW granted \in SUBSET Repository,
                 NEW kinds \in SUBSET {"suspended", "deleted", "removed"},
                 NEW rs \in SUBSET Repository,
                 Move(s, granted, <<kinds, rs>>)
          PROVE  ConnectionsTypeOK'
      <3>1. provider.moves \in Nat /\ provider.moves + 1 \in Nat
        OBVIOUS
      <3>2. provider' \in [status : {"active", "suspended", "deleted"},
                           granted : SUBSET Repository, moves : Nat]
        BY <2>1, <3>1 DEF Move
      <3>3. [n : {provider.moves}, kind : kinds, repository : rs] \subseteq Event
        BY <3>1 DEF Event
      <3>4. events' = events \cup [n : {provider.moves}, kind : kinds, repository : rs]
        BY <2>1 DEF Move
      <3>5. UNCHANGED <<installation, operator, connection, connecting, serving,
                        grounds>>
        BY <2>1 DEF Move
      <3> QED BY <3>2, <3>3, <3>4, <3>5
    <2>2. (CHOOSE r \in Repository : TRUE) \in Repository
      BY ConnectionsAssumption
    <2> HIDE DEF ConnectionsTypeOK
    <2>3. provider.granted \in SUBSET Repository
          /\ provider.status \in {"active", "suspended", "deleted"}
      BY DEF ConnectionsTypeOK
    <2>4. ASSUME NEW s \in {"suspended", "deleted"},
                 Move(s, provider.granted, <<{s}, {CHOOSE r \in Repository : TRUE}>>)
          PROVE  ConnectionsTypeOK'
      <3> DEFINE posted == {CHOOSE r \in Repository : TRUE}
                 kind == {s}
      <3>1. posted \in SUBSET Repository
        BY <2>2
      <3>2. kind \in SUBSET {"suspended", "deleted", "removed"}
        OBVIOUS
      <3>3. Move(s, provider.granted, <<kind, posted>>)
        BY <2>4
      <3>4. s \in {"active", "suspended", "deleted"}
        OBVIOUS
      <3> HIDE DEF posted, kind
      <3> QED BY <2>1, <2>3, <3>1, <3>2, <3>3, <3>4
    <2>5. ASSUME Move("active", provider.granted, <<{}, {}>>)
          PROVE  ConnectionsTypeOK'
      <3>1. {} \in SUBSET Repository /\ {} \in SUBSET {"suspended", "deleted", "removed"}
        OBVIOUS
      <3> QED BY <2>1, <2>3, <2>5, <3>1
    <2>6. ASSUME NEW r \in Repository,
                 Move(provider.status, provider.granted \ {r}, <<{"removed"}, {r}>>)
          PROVE  ConnectionsTypeOK'
      BY <2>1, <2>3, <2>6
    <2>7. ASSUME NEW r \in Repository,
                 Move(provider.status, provider.granted \cup {r}, <<{}, {}>>)
          PROVE  ConnectionsTypeOK'
      <3>1. {} \in SUBSET Repository /\ {} \in SUBSET {"suspended", "deleted", "removed"}
        OBVIOUS
      <3>2. provider.granted \cup {r} \in SUBSET Repository
        BY <2>3
      <3> QED BY <2>1, <2>3, <2>7, <3>1, <3>2
    <2> QED BY <1>1, <2>3, <2>4, <2>5, <2>6, <2>7 DEF ProviderMoves
  <1>2. ASSUME AskRegistration \/ Register PROVE ConnectionsTypeOK'
    BY <1>2 DEF AskRegistration, Register
  <1>3. ASSUME NEW e \in events, Lifecycle(e) PROVE ConnectionsTypeOK'
    <2>1. Handle(e) /\ SetRevoked(Concerned(e))
      BY <1>3 DEF Lifecycle
    <2>2. /\ DOMAIN connection' \subseteq Project
          /\ \A p \in DOMAIN connection' : connection'[p] \in Row
      BY <2>1 DEF SetRevoked, Row
    <2>3. /\ DOMAIN connecting' \subseteq Connector
          /\ \A t \in DOMAIN connecting' : connecting'[t] \in Attempt
      <3>1. connecting' = [t \in DOMAIN connecting |->
               [connecting[t] EXCEPT !.overtaken =
                  \/ @
                  \/ /\ connecting[t].stage # "asked"
                     /\ Concerns(e, connecting[t].repository)]]
        BY <2>1 DEF Handle
      <3>2. ASSUME NEW t \in DOMAIN connecting
            PROVE  connecting'[t] \in Attempt
        <4> DEFINE o == \/ connecting[t].overtaken
                        \/ /\ connecting[t].stage # "asked"
                           /\ Concerns(e, connecting[t].repository)
        <4>1. connecting[t] \in Attempt
          OBVIOUS
        <4>2. connecting'[t] = [connecting[t] EXCEPT !.overtaken = o]
          BY <3>1
        <4>3. o \in BOOLEAN
          OBVIOUS
        <4> HIDE DEF o
        <4> QED BY <4>1, <4>2, <4>3 DEF Attempt
      <3>3. DOMAIN connecting' = DOMAIN connecting
        BY <3>1
      <3> QED BY <3>2, <3>3
    <2>4. grounds' \in [Project -> {"none", "stale", "fresh"}]
      BY <2>1 DEF Handle, Unground
    <2>5. /\ installation' \in {"none", "active", "suspended", "deleted"}
          /\ events' \subseteq Event
          /\ UNCHANGED <<provider, operator, serving>>
      BY <2>1 DEF Handle, Event
    <2> QED BY <2>2, <2>3, <2>4, <2>5
  <1>4. ASSUME NEW p \in Project, Serve(p) PROVE ConnectionsTypeOK'
    BY <1>4 DEF Serve
  <1>5. ASSUME NEW p \in Project, Ask(p) PROVE ConnectionsTypeOK'
    BY <1>5 DEF Ask
  <1>6. ASSUME NEW p \in Project, RevokeRefused(p) PROVE ConnectionsTypeOK'
    BY <1>6 DEF RevokeRefused, SetRevoked, Unground, Row
  <1>7. ASSUME NEW p \in Project, Disconnect(p) PROVE ConnectionsTypeOK'
    BY <1>7 DEF Disconnect, connectOnly, Row
  <1>8. ASSUME NEW t \in Connector, NEW p \in Project, NEW r \in Repository,
               NEW ready \in SUBSET Project, BeginConnect(t, p, r, ready)
        PROVE  ConnectionsTypeOK'
    BY <1>8 DEF BeginConnect, With, Attempt, connectOnly
  <1>9. ASSUME NEW t \in Connector, Verify(t) PROVE ConnectionsTypeOK'
    BY <1>9 DEF Verify, Continue, Attempt, connectOnly
  <1>10. ASSUME NEW t \in Connector, NEW ready \in SUBSET Project, Reread(t, ready)
         PROVE  ConnectionsTypeOK'
    BY <1>10 DEF Reread, Attempt, Row, connectOnly
  <1>11. ASSUME NEW t \in Connector, Connect(t) PROVE ConnectionsTypeOK'
    BY <1>11 DEF Connect, With, Without, Attempt, Row, connectOnly
  <1>12. ASSUME NEW t \in Connector, ConnectFails(t) PROVE ConnectionsTypeOK'
    BY <1>12 DEF ConnectFails, Without, connectOnly
  <1>13. {p \in bound.project : project[p].state = "active"} \in SUBSET Project
    OBVIOUS
  <1> HIDE DEF ConnectionsTypeOK
  <1> QED
    BY <1>1, <1>2, <1>3, <1>4, <1>5, <1>6, <1>7, <1>8, <1>9, <1>10, <1>11,
       <1>12, <1>13 DEF Connecting

LEMMA CascadeTyped ==
    ASSUME ConnectionsTypeOK, NEW existing, Cascade(existing)
    PROVE  ConnectionsTypeOK'
  BY DEF ConnectionsTypeOK, Cascade, connectOnly

LEMMA TypeStep ==
    ASSUME TypeOK, [Next]_vars
    PROVE  TypeOK'
  <1>1. bound \in Bounds /\ today \in Nat
    BY BoundTyped DEF TypeOK, StoreTypeOK
  <1>2. ASSUME (Editing \/ Submitting \/ Retaining) /\ Beside PROVE TypeOK'
    <2>1. StoreTypeOK'
      BY <1>2, BesideTyped DEF TypeOK, Beside
    <2>2. MembersTypeOK'
      BY <1>2 DEF TypeOK, Beside, MembersTypeOK, memberVars
    <2>3. ConnectionsTypeOK'
      BY <1>2, CascadeTyped DEF TypeOK, Beside
    <2> QED BY <2>1, <2>2, <2>3 DEF TypeOK
  <1>3. ASSUME UNCHANGED <<bound, store, today, req, sweep, moments, torn>>
        PROVE  StoreTypeOK'
    BY <1>3 DEF TypeOK, StoreTypeOK, store
  <1>4. ASSUME UNCHANGED memberVars PROVE MembersTypeOK'
    BY <1>4 DEF TypeOK, MembersTypeOK, memberVars
  <1>5. ASSUME UNCHANGED connectionVars PROVE ConnectionsTypeOK'
    BY <1>5 DEF TypeOK, ConnectionsTypeOK, connectionVars
  <1>6. ASSUME Membering, UNCHANGED <<bound, store, today, req, sweep, moments,
                                      torn, connectionVars>>
        PROVE  TypeOK'
    BY <1>1, <1>3, <1>5, <1>6, MembersTyped DEF TypeOK
  <1>7. ASSUME Connecting, UNCHANGED <<bound, store, today, req, sweep, moments,
                                       torn, memberVars>>
        PROVE  TypeOK'
    BY <1>1, <1>3, <1>4, <1>7, ConnectionsTyped DEF TypeOK
  <1>8. ASSUME UNCHANGED vars PROVE TypeOK'
    BY <1>3, <1>4, <1>5, <1>8 DEF vars, TypeOK
  <1> QED BY <1>2, <1>6, <1>7, <1>8 DEF Next

LEMMA TypeInit ==
    ASSUME Init
    PROVE  TypeOK
  <1>1. StoreTypeOK
    <2>1. 0 <= Entitled["free"].analyses
      BY WorkspaceAssumption, LimitsTyped DEF Entitlements
    <2>2. 0 \in 0 .. bound.days
      BY BoundTyped DEF Init
    <2> QED BY <2>1, <2>2, WorkspaceAssumption
            DEF Init, StoreTypeOK, NoPolicy, Policy, RequestState
  <1>2. MembersTypeOK
    BY MembersAssumption DEF Init, MembersInit, MembersTypeOK, Role, Managers
  <1>3. ConnectionsTypeOK
    BY DEF Init, ConnectionsInit, ConnectionsTypeOK
  <1> QED BY <1>1, <1>2, <1>3 DEF TypeOK

-----------------------------------------------------------------------------
(* Members.  What is counted is finite, and an owner remains.              *)

SeatsInv == /\ IsFiniteSet(Member)
            /\ \A day \in Nat : IsFiniteSet(Pending(day))
            /\ OwnerRemains

(* Seats are taken and given back one at a time.                           *)
LEMMA SeatsInit ==
    ASSUME Init
    PROVE  SeatsInv
  <1> USE MembersAssumption DEF Init, MembersInit, Role, Managers
  <1>1. Member = {Founder} /\ Owners = {Founder}
    BY DEF Member, Owners
  <1>2. \A day \in Nat : Pending(day) = {}
    BY DEF Pending, Open
  <1> QED BY <1>1, <1>2, FS_Singleton, FS_EmptySet DEF SeatsInv, OwnerRemains

LEMMA ChangeEffect ==
    ASSUME MembersTypeOK, NEW actor \in User, NEW u \in User,
           NEW new \in Role \cup {Nothing}, NEW limits,
           ChangeMember(actor, u, new, limits)
    PROVE  /\ Member' = IF new = Nothing THEN Member \ {u} ELSE Member
           /\ \A day : Pending(day)' = Pending(day)
           /\ \A v \in User : role[v] = Nothing => role'[v] = Nothing
  BY DEF ChangeMember, MayChange, Member, Pending, MembersTypeOK

LEMMA InviteEffect ==
    ASSUME MembersTypeOK, NEW actor, NEW i \in Invitation, NEW u \in User,
           NEW as \in Role \ {"owner"}, NEW limits, NEW day \in Nat,
           Invite(actor, i, u, as, limits, day)
    PROVE  /\ UNCHANGED <<Member, role>>
           /\ Seats(day) < limits.members
           /\ Pending(day)' = Pending(day) \cup {i}
           /\ i \notin Pending(day)
           /\ \A d \in Nat : Pending(d)' \subseteq Pending(d) \cup {i}
  <1>1. [email |-> u, role |-> as, expires |-> day + InviteDays,
         accepted |-> FALSE, revoked |-> FALSE] # Nothing
    <2>1. day + InviteDays \in Nat
      BY MembersAssumption
    <2>2. [email |-> u, role |-> as, expires |-> day + InviteDays,
           accepted |-> FALSE, revoked |-> FALSE] \in InvitationRow
      BY <2>1 DEF InvitationRow
    <2> QED BY <2>2, MembersAssumption
  <1>2. day + InviteDays > day
    BY MembersAssumption
  <1> QED BY <1>1, <1>2 DEF Invite, Member, Pending, Open, MembersTypeOK

LEMMA RevokeEffect ==
    ASSUME MembersTypeOK, NEW actor, NEW i \in Invitation, Revoke(actor, i)
    PROVE  /\ UNCHANGED <<Member, role>>
           /\ \A day : Pending(day)' \subseteq Pending(day)
  BY DEF Revoke, Member, Pending, Open, MembersTypeOK, InvitationRow

LEMMA AcceptEffect ==
    ASSUME MembersTypeOK, NEW v \in Visitor, NEW limits, NEW day,
           Accept(v, limits, day)
    PROVE  \E u \in User, i \in Invitation :
             /\ role[u] = Nothing
             /\ Open(invitation[i], day)
             /\ invitation[i].email = u
             /\ role' = [role EXCEPT ![u] = invitation[i].role]
             /\ invitation[i].role \in Role
             /\ invitation'[i].accepted
             /\ limits.team /\ Seats(day) <= limits.members
             /\ Member' = Member \cup {u} /\ u \notin Member
             /\ i \in Pending(day)
             /\ \A d : Pending(d)' = Pending(d) \ {i}
  <1> DEFINE i == accepting[v].id
             u == accepting[v].by
             row == invitation[i]
  <1>1. i \in Invitation /\ u \in User
    BY DEF Accept, MembersTypeOK
  <1>2. Admissible(row, u, limits, day)
    BY DEF Accept
  <1>3. row \in InvitationRow
    BY <1>1, <1>2 DEF Admissible, Open, MembersTypeOK
  <1>4. /\ role' = [role EXCEPT ![u] = row.role]
        /\ invitation' = [invitation EXCEPT ![i].accepted = TRUE]
    BY DEF Accept, Join
  <1>5. row.role \in Role /\ row.role # Nothing
    BY <1>3, MembersAssumption DEF InvitationRow
  <1>6. /\ Open(row, day) /\ row.email = u /\ limits.team
        /\ role[u] = Nothing /\ Seats(day) <= limits.members
    BY <1>2 DEF Admissible
  <1>7. /\ invitation'[i].accepted
        /\ \A j \in Invitation \ {i} : invitation'[j] = invitation[j]
    BY <1>1, <1>3, <1>4 DEF MembersTypeOK, InvitationRow
  <1>8. Member' = Member \cup {u} /\ u \notin Member
    BY <1>1, <1>4, <1>5, <1>6 DEF Member, MembersTypeOK
  <1>9. \A d : Pending(d)' = Pending(d) \ {i}
    BY <1>1, <1>7 DEF Pending, Open
  <1>10. i \in Pending(day)
    BY <1>1, <1>6 DEF Pending
  <1> QED BY <1>1, <1>4, <1>5, <1>6, <1>7, <1>8, <1>9, <1>10

LEMMA SeatsStep ==
    ASSUME TypeOK, SeatsInv, [Next]_vars
    PROVE  SeatsInv'
  <1> USE DEF TypeOK
  <1>0. today \in Nat /\ bound \in Bounds
    BY BoundTyped DEF StoreTypeOK
  <1>1. ASSUME UNCHANGED <<role, invitation>> PROVE SeatsInv'
    BY <1>1 DEF SeatsInv, Member, Pending, OwnerRemains, Owners
  <1>2. ASSUME NEW actor \in User, NEW u \in User, NEW new \in Role \cup {Nothing},
               ChangeMember(actor, u, new, Limits)
        PROVE  SeatsInv'
    <2>1. IsFiniteSet(Member') /\ \A day \in Nat : IsFiniteSet(Pending(day)')
      <3>1. /\ Member' = IF new = Nothing THEN Member \ {u} ELSE Member
            /\ \A day : Pending(day)' = Pending(day)
        BY <1>2, ChangeEffect
      <3>2. Member' \subseteq Member
        BY <3>1
      <3>3. \A day \in Nat : Pending(day)' = Pending(day)
        BY <3>1
      <3> QED BY <3>2, <3>3, FS_Subset DEF SeatsInv
    <2>2. Owners \ {u} \subseteq Owners'
      BY <1>2 DEF ChangeMember, Owners, MembersTypeOK
    <2>3. ASSUME u \in Owners, new # "owner" PROVE Owners \ {u} # {}
      <3>1. Cardinality(Owners) > 1
        BY <1>2, <2>3 DEF ChangeMember, MayChange, Owners
      <3>2. IsFiniteSet(Owners)
        <4>1. Owners \subseteq Member
          BY MembersAssumption DEF Owners, Member, Role, Managers
        <4> QED BY <4>1, FS_Subset DEF SeatsInv
      <3>3. Cardinality(Owners \ {u}) = Cardinality(Owners) - 1
        BY <2>3, <3>2, FS_RemoveElement
      <3>4. Cardinality(Owners \ {u}) # 0
        BY <3>1, <3>2, <3>3, FS_CardinalityType
      <3> QED BY <3>4, FS_EmptySet
    <2>4. ASSUME u \in Owners, new = "owner" PROVE u \in Owners'
      BY <1>2, <2>4 DEF ChangeMember, Owners, MembersTypeOK
    <2>5. Owners # {}
      BY DEF SeatsInv, OwnerRemains
    <2>6. Owners' # {}
      BY <2>2, <2>3, <2>4, <2>5
    <2> QED BY <2>1, <2>6 DEF SeatsInv, OwnerRemains
  <1>3. ASSUME NEW actor \in User, NEW i \in Invitation, NEW u \in User,
               NEW as \in Role \ {"owner"}, Invite(actor, i, u, as, Limits, today)
        PROVE  SeatsInv'
    <2>1. UNCHANGED <<Member, Owners>>
      BY <1>0, <1>3, InviteEffect DEF Owners
    <2>2. ASSUME NEW d \in Nat PROVE IsFiniteSet(Pending(d)')
      <3>1. IsFiniteSet(Pending(d) \cup {i})
        BY FS_AddElement DEF SeatsInv
      <3>2. Pending(d)' \subseteq Pending(d) \cup {i}
        BY <1>0, <1>3, InviteEffect
      <3> QED BY <3>1, <3>2, FS_Subset
    <2> QED BY <2>1, <2>2 DEF SeatsInv, OwnerRemains
  <1>4. ASSUME NEW u \in User, NEW i \in Invitation, Revoke(u, i)
        PROVE  SeatsInv'
    <2>1. UNCHANGED <<Member, Owners>>
      BY <1>4, RevokeEffect DEF Owners
    <2>2. \A d \in Nat : IsFiniteSet(Pending(d)')
      BY <1>4, RevokeEffect, FS_Subset DEF SeatsInv
    <2> QED BY <2>1, <2>2 DEF SeatsInv, OwnerRemains
  <1>5. ASSUME NEW v \in Visitor, Accept(v, Limits, today) PROVE SeatsInv'
    <2>1. PICK u \in User, i \in Invitation :
             /\ role[u] = Nothing
             /\ role' = [role EXCEPT ![u] = invitation[i].role]
             /\ Member' = Member \cup {u}
             /\ \A d : Pending(d)' = Pending(d) \ {i}
      BY <1>5, AcceptEffect
    <2>2. IsFiniteSet(Member') /\ \A d \in Nat : IsFiniteSet(Pending(d)')
      BY <2>1, FS_AddElement, FS_RemoveElement DEF SeatsInv
    <2>3. Owners \subseteq Owners'
      BY <2>1, MembersAssumption DEF Owners, MembersTypeOK, Role, Managers
    <2> QED BY <2>2, <2>3 DEF SeatsInv, OwnerRemains
  <1>6. ASSUME NEW v, NEW u, NEW i, FindInvitation(v, u, i) PROVE SeatsInv'
    BY <1>1, <1>6 DEF FindInvitation
  <1>7. ASSUME NEW v, AcceptRefused(v, Limits, today) PROVE SeatsInv'
    BY <1>1, <1>7 DEF AcceptRefused
  <1>8. CASE Membering
    <2> HIDE DEF TypeOK
    <2> QED BY <1>0, <1>2, <1>3, <1>4, <1>5, <1>6, <1>7, <1>8, BoundTyped
      DEF Membering
  <1>9. CASE UNCHANGED memberVars
    BY <1>1, <1>9 DEF memberVars
  <1> HIDE DEF TypeOK
  <1> QED BY <1>8, <1>9 DEF Next, Beside, vars

-----------------------------------------------------------------------------
(* Connections: an active one rests on an approval.                        *)

GroundsInv ==
    \A p \in DOMAIN connection : connection[p].status = "active" => grounds[p] # "none"

LEMMA GroundsStep ==
    ASSUME TypeOK, GroundsInv, [Next]_vars
    PROVE  GroundsInv'
  <1> USE DEF TypeOK, ConnectionsTypeOK, GroundsInv
  <1>0. UNCHANGED <<connection, grounds>> => GroundsInv'
    OBVIOUS
  <1>1. ASSUME ProviderMoves(bound.moves) PROVE GroundsInv'
    BY <1>0, <1>1 DEF ProviderMoves, Move
  <1>2. ASSUME AskRegistration \/ Register PROVE GroundsInv'
    BY <1>0, <1>2 DEF AskRegistration, Register
  <1>3. ASSUME NEW e \in events, Lifecycle(e) PROVE GroundsInv'
    BY <1>3 DEF Lifecycle, Handle, SetRevoked, Unground, Row
  <1>4. ASSUME NEW p \in Project, Serve(p) \/ Ask(p) PROVE GroundsInv'
    BY <1>0, <1>4 DEF Serve, Ask
  <1>5. ASSUME NEW p \in Project, RevokeRefused(p) PROVE GroundsInv'
    BY <1>5 DEF RevokeRefused, SetRevoked, Unground, Row
  <1>6. ASSUME NEW p \in Project, Disconnect(p) PROVE GroundsInv'
    BY <1>6 DEF Disconnect, connectOnly, Row
  <1>7. ASSUME NEW t, NEW p, NEW r, NEW ready,
               BeginConnect(t, p, r, ready) \/ Verify(t) \/ Reread(t, ready)
                 \/ ConnectFails(t)
        PROVE  GroundsInv'
    BY <1>0, <1>7 DEF BeginConnect, Verify, Reread, ConnectFails
  <1>8. ASSUME NEW t, Connect(t) PROVE GroundsInv'
    BY <1>8 DEF Connect, With, Row, Attempt
  <1>9. ASSUME Cascade({p \in Project : Exists(p)'}) PROVE GroundsInv'
    BY <1>9 DEF Cascade
  <1>10. CASE Connecting
    <2> HIDE DEF TypeOK, ConnectionsTypeOK, GroundsInv
    <2> QED BY <1>1, <1>2, <1>3, <1>4, <1>5, <1>6, <1>7, <1>8, <1>10
      DEF Connecting
  <1>11. CASE UNCHANGED connectionVars
    BY <1>0, <1>11 DEF connectionVars
  <1> HIDE DEF TypeOK, ConnectionsTypeOK, GroundsInv
  <1> QED BY <1>9, <1>10, <1>11 DEF Next, Beside, vars

-----------------------------------------------------------------------------
(* Reads and captures: while an upload waits, the policy now in force is   *)
(* among those in force since it began to read.                            *)

WaitingInv ==
    /\ "http" \notin torn
    /\ \A r \in Request : req[r].stage = "looked" => InForce(req[r].of) \in moments[r]

LEMMA WaitingBeside ==
    ASSUME TypeOK, WaitingInv, TypeOK', Editing \/ Submitting \/ Retaining, Beside
    PROVE  WaitingInv'
  <1>1. "http" \notin torn'
    <2>1. ASSUME NEW r \in Request, AdmitHttp(r) PROVE "http" \notin torn'
      BY <2>1 DEF AdmitHttp, Capture, WaitingInv
    <2>2. ASSUME NEW r \in Request, Claim(r) PROVE "http" \notin torn'
      BY <2>2 DEF Claim, Capture, WaitingInv
    <2>3. ASSUME UNCHANGED torn PROVE "http" \notin torn'
      BY <2>3 DEF WaitingInv
    <2> QED
      BY <2>1, <2>2, <2>3
      DEF Editing, Submitting, Retaining, AssignPlan, EditOrgPolicy,
          CreateProject,
          Archive, Restore, DeleteProject, EditProjectPolicy, Look, GiveUp, Process,
          AdmitGitHub, DeleteAnalysis, NextDay, Choose, Cleanup, Remove
  <1>2. ASSUME NEW r \in Request, req'[r].stage = "looked"
        PROVE  InForce(req[r].of)' \in moments'[r]
    BY <1>2 DEF Beside, Observe, InForce
  <1> QED BY <1>1, <1>2 DEF WaitingInv

LEMMA WaitingStep ==
    ASSUME TypeOK, WaitingInv, TypeOK', [Next]_vars
    PROVE  WaitingInv'
  <1>1. ASSUME UNCHANGED <<store, req, moments, torn>> PROVE WaitingInv'
    BY <1>1 DEF WaitingInv, InForce, store
  <1> QED BY <1>1, WaitingBeside DEF Next, vars

-----------------------------------------------------------------------------
(* Policies.  Whoever knows a policy of a project: the project, a request  *)
(* that has read it, a request or an analysis that has captured it.        *)

Captured(p) ==
    {analysis[a].snapshot :
        a \in {b \in Analysis : analysis[b] # None /\ analysis[b].of = p}}
    \cup
    {req[r].policy :
        r \in {q \in Request : req[q].stage \in {"claimed", "running"} /\ req[q].of = p}}

SeenPolicies(p) ==
    {project[p].policy}
    \cup
    {req[r].seen.policy : r \in {q \in Request : req[q].stage = "looked" /\ req[q].of = p}}

AsPolicies(snapshots, source) ==
    {[rules |-> s.rules, version |-> s.version] :
        s \in {t \in snapshots : t.source = source}}

ProjectPolicies(p) == SeenPolicies(p) \cup AsPolicies(Captured(p), "project")

OrgPolicies ==
    {org} \cup UNION {AsPolicies(Captured(p), "organization") : p \in Project}

DefaultPolicies == UNION {AsPolicies(Captured(p), "default") : p \in Project}

(* No version above the current one, and one policy by version.            *)
Consistent(policies, current) ==
    \A x, y \in policies :
        x.version <= current.version /\ (x.version = y.version => x = y)

NamesInv ==
    /\ \A p \in Project : Consistent(ProjectPolicies(p), project[p].policy)
    /\ Consistent(OrgPolicies, org)
    /\ \A x \in DefaultPolicies : x.rules = None

(* An edit adds the policy of the next version, nothing else adds one.     *)
LEMMA ConsistentStep ==
    ASSUME NEW A \in SUBSET Policy, NEW B, NEW c \in A, NEW d \in Policy,
           Consistent(A, c),
           B \subseteq A \cup {d},
           d = c \/ d.version = c.version + 1
    PROVE  Consistent(B, d)
  BY DEF Consistent, Policy

LEMMA CapturedTyped ==
    ASSUME StoreTypeOK, NEW p \in Project
    PROVE  /\ Captured(p) \subseteq Snapshot
           /\ SeenPolicies(p) \subseteq Policy
           /\ ProjectPolicies(p) \subseteq Policy
  <1> USE DEF StoreTypeOK, RequestState, Idle
  <1>1. Captured(p) \subseteq Snapshot
    BY DEF Captured, AnalysisRow
  <1>2. SeenPolicies(p) \subseteq Policy
    BY DEF SeenPolicies
  <1>3. AsPolicies(Captured(p), "project") \subseteq Policy
    BY <1>1 DEF AsPolicies, Snapshot, Policy
  <1> QED BY <1>1, <1>2, <1>3 DEF ProjectPolicies

(* What a transaction may capture: a policy captured before, or the one    *)
(* in force for what was read of the project.                              *)
MayCapture(p) ==
    Captured(p) \cup {EffectivePolicy(plan, org, x) : x \in SeenPolicies(p)}

LEMMA CapturedStep ==
    ASSUME TypeOK, TypeOK', Editing \/ Submitting \/ Retaining, NEW p \in Project
    PROVE  Captured(p)' \subseteq MayCapture(p)
  <1> USE DEF TypeOK, StoreTypeOK
  <1>1. ASSUME UNCHANGED req,
               \A a \in Analysis : analysis'[a] \in {None, analysis[a]}
        PROVE  Captured(p)' \subseteq MayCapture(p)
    BY <1>1 DEF Captured, MayCapture
  <1>2. ASSUME Editing PROVE Captured(p)' \subseteq MayCapture(p)
    <2>1. UNCHANGED req /\ \A a \in Analysis : analysis'[a] \in {None, analysis[a]}
      BY <1>2
        DEF Editing, AssignPlan, EditOrgPolicy, CreateProject, Archive,
            Restore,
                  DeleteProject, EditProjectPolicy
    <2> QED BY <1>1, <2>1
  <1>3. ASSUME Retaining PROVE Captured(p)' \subseteq MayCapture(p)
    <2>1. UNCHANGED req /\ \A a \in Analysis : analysis'[a] \in {None, analysis[a]}
      BY <1>3
        DEF Retaining, DeleteAnalysis, NextDay, Choose, Cleanup, Remove, store
    <2> QED BY <1>1, <2>1
  <1>4. ASSUME NEW r \in Request, NEW next \in RequestState,
               req' = [req EXCEPT ![r] = next], UNCHANGED analysis,
               next.stage \in {"claimed", "running"} /\ next.of = p
                 => next.policy \in MayCapture(p)
        PROVE  Captured(p)' \subseteq MayCapture(p)
    BY <1>4 DEF Captured, MayCapture
  <1>5. ASSUME NEW r \in Request, NEW kind, NEW policy, Admit(r, kind, policy),
               req[r].of = p => policy \in MayCapture(p)
        PROVE  Captured(p)' \subseteq MayCapture(p)
    <2>1. PICK a \in bound.analysis :
             /\ analysis' = [analysis EXCEPT ![a] =
                  [of |-> req[r].of, by |-> kind, created |-> today,
                   snapshot |-> policy]]
             /\ req' = [req EXCEPT ![r] = Idle]
      BY <1>5 DEF Admit
    <2>2. \A q \in Request : req'[q].stage \in {"claimed", "running"} => req'[q] = req[q]
      BY <2>1 DEF Idle
    <2>3. \A b \in Analysis : \/ analysis'[b] = analysis[b]
                              \/ analysis'[b].of = req[r].of /\ analysis'[b].snapshot = policy
      BY <2>1
    <2> QED BY <1>5, <2>2, <2>3 DEF Captured, MayCapture
  <1>6. ASSUME NEW r \in Request, NEW kind, NEW q \in Project, Look(r, kind, q)
        PROVE  Captured(p)' \subseteq MayCapture(p)
    <2>1. \A t \in Request : req'[t].stage \in {"claimed", "running"} => req'[t] = req[t]
      BY <1>6 DEF Look
    <2> QED BY <1>6, <2>1 DEF Captured, MayCapture, Look, store
  <1>7. ASSUME NEW r \in Request, GiveUp(r) PROVE Captured(p)' \subseteq MayCapture(p)
    <2>1. \A t \in Request : req'[t].stage \in {"claimed", "running"} => req'[t] = req[t]
      BY <1>7 DEF GiveUp, Idle
    <2> QED BY <1>7, <2>1 DEF Captured, MayCapture, GiveUp, store
  <1>8. ASSUME NEW r \in Request, AdmitHttp(r) PROVE Captured(p)' \subseteq MayCapture(p)
    <2>1. Admit(r, "http", InForce(req[r].of))
      BY <1>8 DEF AdmitHttp
    <2>2. InForce(p) \in MayCapture(p)
      BY DEF MayCapture, SeenPolicies, InForce
    <2> QED BY <1>5, <2>1, <2>2
  <1>9. ASSUME NEW r \in Request, Claim(r) PROVE Captured(p)' \subseteq MayCapture(p)
    <2> DEFINE policy == EffectivePolicy(plan, org, req[r].seen.policy)
    <2>1. req[r].of = p => policy \in MayCapture(p)
      BY <1>9 DEF Claim, MayCapture, SeenPolicies
    <2> HIDE DEF policy
    <2>2. req' = [req EXCEPT ![r] =
                     [stage |-> "claimed", of |-> req[r].of, policy |-> policy]]
          /\ UNCHANGED analysis
      BY <1>9 DEF Claim, policy, store
    <2>3. \A t \in Request : req'[t].stage \in {"claimed", "running"} =>
              \/ req'[t] = req[t]
              \/ req'[t].of = req[r].of /\ req'[t].policy = policy
      BY <2>2
    <2> QED BY <2>1, <2>2, <2>3 DEF Captured, MayCapture
  <1>10. ASSUME NEW r \in Request, Process(r) PROVE Captured(p)' \subseteq MayCapture(p)
    <2>1. \A t \in Request : /\ req'[t].stage \in {"claimed", "running"} =>
                                  req[t].stage \in {"claimed", "running"}
                             /\ req'[t].stage \in {"claimed", "running"} =>
                                  req'[t].of = req[t].of /\ req'[t].policy = req[t].policy
      BY <1>10 DEF Process, RequestState, Idle
    <2> QED BY <1>10, <2>1 DEF Captured, MayCapture, Process, store
  <1>11. ASSUME NEW r \in Request, AdmitGitHub(r)
         PROVE  Captured(p)' \subseteq MayCapture(p)
    <2>1. Admit(r, "github", req[r].policy) /\ req[r].stage = "running"
      BY <1>11 DEF AdmitGitHub
    <2>2. req[r].of = p => req[r].policy \in MayCapture(p)
      BY <2>1 DEF Captured, MayCapture
    <2> QED BY <1>5, <2>1, <2>2
  <1> HIDE DEF TypeOK, StoreTypeOK
  <1>12. ASSUME Submitting PROVE Captured(p)' \subseteq MayCapture(p)
    BY <1>6, <1>7, <1>8, <1>9, <1>10, <1>11, <1>12 DEF Submitting
  <1> QED BY <1>2, <1>3, <1>12

LEMMA SeenStep ==
    ASSUME TypeOK, TypeOK', Editing \/ Submitting \/ Retaining, NEW p \in Project
    PROVE  SeenPolicies(p)' \subseteq SeenPolicies(p) \cup {project'[p].policy}
  <1> USE DEF TypeOK, StoreTypeOK
  <1>1. ASSUME UNCHANGED req
        PROVE  SeenPolicies(p)' \subseteq SeenPolicies(p) \cup {project'[p].policy}
    BY <1>1 DEF SeenPolicies
  <1>2. ASSUME Editing \/ Retaining PROVE UNCHANGED req
    BY <1>2
      DEF Editing, Retaining, AssignPlan, EditOrgPolicy, CreateProject,
          Archive, Restore,
         DeleteProject, EditProjectPolicy, DeleteAnalysis, NextDay, Choose, Cleanup,
         Remove, store
  <1>3. ASSUME NEW r \in Request,
               \A t \in Request : t # r => req'[t] = req[t],
               req'[r].stage = "looked" /\ req'[r].of = p
                 => req'[r].seen.policy = project'[p].policy
        PROVE  SeenPolicies(p)' \subseteq SeenPolicies(p) \cup {project'[p].policy}
    BY <1>3 DEF SeenPolicies
  <1>4. ASSUME NEW r \in Request, NEW kind, NEW q \in Project, Look(r, kind, q)
        PROVE  SeenPolicies(p)' \subseteq SeenPolicies(p) \cup {project'[p].policy}
    BY <1>3, <1>4 DEF Look, store
  <1>5. ASSUME NEW r \in Request, GiveUp(r) \/ Claim(r) \/ Process(r)
        PROVE  SeenPolicies(p)' \subseteq SeenPolicies(p) \cup {project'[p].policy}
    <2>1. req'[r].stage # "looked" /\ \A t \in Request : t # r => req'[t] = req[t]
      BY <1>5 DEF GiveUp, Claim, Process, Idle, RequestState
    <2> QED BY <1>3, <2>1
  <1>6. ASSUME NEW r \in Request, AdmitHttp(r) \/ AdmitGitHub(r)
        PROVE  SeenPolicies(p)' \subseteq SeenPolicies(p) \cup {project'[p].policy}
    <2>1. req' = [req EXCEPT ![r] = Idle]
      BY <1>6 DEF AdmitHttp, AdmitGitHub, Admit
    <2>2. req'[r].stage # "looked" /\ \A t \in Request : t # r => req'[t] = req[t]
      BY <2>1 DEF Idle
    <2> QED BY <1>3, <2>2
  <1> HIDE DEF TypeOK, StoreTypeOK
  <1> QED BY <1>1, <1>2, <1>4, <1>5, <1>6 DEF Submitting

(* The policies in force change by edits alone.                            *)
NextPolicy(old, new) == new = old \/ new.version = old.version + 1

LEMMA EditStep ==
    ASSUME TypeOK, Editing \/ Submitting \/ Retaining
    PROVE  /\ NextPolicy(org, org')
           /\ \A p \in Project : NextPolicy(project[p].policy, project'[p].policy)
  <1> DEFINE Goal == /\ NextPolicy(org, org')
                     /\ \A p \in Project : NextPolicy(project[p].policy, project'[p].policy)
  <1> USE DEF TypeOK, StoreTypeOK, NextPolicy, Edited
  <1>1. ASSUME UNCHANGED <<org, project>> PROVE Goal
    BY <1>1
  <1>2. ASSUME NEW p \in Project, NEW s, SetState(p, s), UNCHANGED org PROVE Goal
    BY <1>2 DEF SetState
  <1>3. ASSUME NEW p \in Project, NEW x, EditProjectPolicy(p, x) PROVE Goal
    BY <1>3 DEF EditProjectPolicy
  <1>4. ASSUME NEW x, EditOrgPolicy(x) PROVE Goal
    BY <1>4 DEF EditOrgPolicy
  <1> HIDE DEF Goal, TypeOK, StoreTypeOK, NextPolicy, Edited
  <1>5. ASSUME NEW p \in Project,
               CreateProject(p) \/ Archive(p) \/ Restore(p) \/ DeleteProject(p)
        PROVE  Goal
    BY <1>2, <1>5 DEF CreateProject, Archive, Restore, DeleteProject
  <1>6. ASSUME Editing PROVE Goal
    <2>1. ASSUME NEW c, AssignPlan(c) PROVE Goal
      BY <1>1, <2>1 DEF AssignPlan
    <2> QED BY <1>3, <1>4, <1>5, <1>6, <2>1 DEF Editing
  <1>7. ASSUME Submitting PROVE Goal
    BY <1>1, <1>7
      DEF Submitting, Look, GiveUp, AdmitHttp, Claim, Process, AdmitGitHub,
          store
  <1>8. ASSUME Retaining PROVE Goal
    BY <1>1, <1>8
      DEF Retaining, DeleteAnalysis, NextDay, Choose, Cleanup, Remove, store
  <1> QED BY <1>6, <1>7, <1>8 DEF Goal

(* What MayCapture adds to the policies of each source.                    *)
LEMMA MayCapturePolicies ==
    ASSUME TypeOK, NEW p \in Project
    PROVE  /\ AsPolicies(MayCapture(p), "project") \subseteq ProjectPolicies(p)
           /\ AsPolicies(MayCapture(p), "organization")
                \subseteq AsPolicies(Captured(p), "organization") \cup {org}
           /\ \A x \in AsPolicies(MayCapture(p), "default") :
                x \in AsPolicies(Captured(p), "default") \/ x.rules = None
  <1>1. SeenPolicies(p) \subseteq Policy /\ org \in Policy /\ plan \in Plan
    BY CapturedTyped DEF TypeOK, StoreTypeOK
  <1>2. ASSUME NEW x \in SeenPolicies(p)
        PROVE  LET s == EffectivePolicy(plan, org, x)
                   y == [rules |-> s.rules, version |-> s.version]
               IN  \/ s.source = "project" /\ y = x
                   \/ s.source = "organization" /\ y = org
                   \/ s.source = "default" /\ y.rules = None
    BY <1>1 DEF EffectivePolicy, Policy
  <1>3. ASSUME NEW source,
               NEW y \in AsPolicies(MayCapture(p), source)
        PROVE  \/ y \in AsPolicies(Captured(p), source)
               \/ source = "project" /\ y \in SeenPolicies(p)
               \/ source = "organization" /\ y = org
               \/ source = "default" /\ y.rules = None
    <2>1. PICK s \in MayCapture(p) :
             s.source = source /\ y = [rules |-> s.rules, version |-> s.version]
      BY <1>3 DEF AsPolicies
    <2>2. CASE s \in Captured(p)
      BY <2>1, <2>2 DEF AsPolicies
    <2>3. ASSUME NEW x \in SeenPolicies(p), s = EffectivePolicy(plan, org, x)
          PROVE  \/ source = "project" /\ y \in SeenPolicies(p)
                 \/ source = "organization" /\ y = org
                 \/ source = "default" /\ y.rules = None
      BY <1>2, <2>1, <2>3
    <2> QED BY <2>2, <2>3 DEF MayCapture
  <1> QED BY <1>3 DEF ProjectPolicies

LEMMA AsPoliciesMonotone ==
    ASSUME NEW A, NEW B, A \subseteq B, NEW source
    PROVE  AsPolicies(A, source) \subseteq AsPolicies(B, source)
  BY DEF AsPolicies

LEMMA NamesBeside ==
    ASSUME TypeOK, TypeOK', NamesInv, Editing \/ Submitting \/ Retaining
    PROVE  NamesInv'
  <1>1. ASSUME NEW p \in Project
        PROVE  Captured(p)' \subseteq MayCapture(p)
    BY CapturedStep
  <1>2. ASSUME NEW p \in Project, NEW source
        PROVE  AsPolicies(Captured(p)', source) \subseteq AsPolicies(MayCapture(p), source)
    BY <1>1, AsPoliciesMonotone
  <1>3. /\ org \in Policy /\ org' \in Policy
        /\ \A p \in Project : project[p].policy \in Policy /\ project'[p].policy \in Policy
    BY DEF TypeOK, StoreTypeOK
  <1>4. ASSUME NEW p \in Project
        PROVE  Consistent(ProjectPolicies(p)', project'[p].policy)
    <2>1. ProjectPolicies(p)' \subseteq ProjectPolicies(p) \cup {project'[p].policy}
      BY <1>2, SeenStep, MayCapturePolicies DEF ProjectPolicies, AsPolicies
    <2>2. ProjectPolicies(p) \in SUBSET Policy
      BY CapturedTyped DEF TypeOK
    <2>3. project[p].policy \in ProjectPolicies(p)
      BY DEF ProjectPolicies, SeenPolicies
    <2>4. Consistent(ProjectPolicies(p), project[p].policy)
      BY DEF NamesInv
    <2>5. NextPolicy(project[p].policy, project'[p].policy)
      BY EditStep
    <2> QED BY <1>3, <2>1, <2>2, <2>3, <2>4, <2>5, ConsistentStep
      DEF NextPolicy
  <1>5. Consistent(OrgPolicies', org')
    <2>1. OrgPolicies' \subseteq OrgPolicies \cup {org'}
      BY <1>2, MayCapturePolicies DEF OrgPolicies
    <2>2. OrgPolicies \in SUBSET Policy
      <3>1. ASSUME NEW p \in Project
            PROVE  AsPolicies(Captured(p), "organization") \subseteq Policy
        BY CapturedTyped DEF AsPolicies, Snapshot, Policy, TypeOK
      <3> QED BY <1>3, <3>1 DEF OrgPolicies
    <2>3. org \in OrgPolicies
      BY DEF OrgPolicies
    <2>4. Consistent(OrgPolicies, org)
      BY DEF NamesInv
    <2>5. NextPolicy(org, org')
      BY EditStep
    <2> QED BY <1>3, <2>1, <2>2, <2>3, <2>4, <2>5, ConsistentStep
      DEF NextPolicy
  <1>6. \A x \in DefaultPolicies' : x.rules = None
    <2>1. ASSUME NEW p \in Project, NEW x \in AsPolicies(Captured(p)', "default")
          PROVE  x.rules = None
      BY <1>2, MayCapturePolicies DEF NamesInv, DefaultPolicies
    <2> QED BY <2>1 DEF DefaultPolicies
  <1> QED BY <1>4, <1>5, <1>6 DEF NamesInv

LEMMA NamesStep ==
    ASSUME TypeOK, TypeOK', NamesInv, [Next]_vars
    PROVE  NamesInv'
  <1>1. ASSUME UNCHANGED <<store, req>> PROVE NamesInv'
    <2>1. \A p \in Project : UNCHANGED <<Captured(p), SeenPolicies(p)>>
      BY <1>1 DEF Captured, SeenPolicies, store
    <2>2. \A p \in Project : UNCHANGED ProjectPolicies(p)
      BY <2>1 DEF ProjectPolicies, AsPolicies
    <2>3. UNCHANGED <<OrgPolicies, DefaultPolicies, org, project>>
      BY <1>1, <2>1 DEF OrgPolicies, DefaultPolicies, AsPolicies, store
    <2> QED BY <2>2, <2>3 DEF NamesInv, Consistent
  <1> QED BY <1>1, NamesBeside DEF Next, vars

(* The policies of snapshots are those of the invariant.                   *)
LEMMA NamesGive ==
    ASSUME TypeOK, NamesInv
    PROVE  VersionNamesRules
  <1>1. ASSUME NEW p \in Project, NEW s \in Snapshots(p)
        PROVE  LET y == [rules |-> s.rules, version |-> s.version] IN
               \/ s.source = "project" /\ y \in ProjectPolicies(p)
               \/ s.source = "organization" /\ y \in OrgPolicies
               \/ s.source = "default" /\ s.rules = None
    <2>1. s \in MayCapture(p)
      BY DEF Snapshots, MayCapture, Captured, SeenPolicies, InForce
    <2> DEFINE y == [rules |-> s.rules, version |-> s.version]
    <2>2. y \in AsPolicies(MayCapture(p), s.source)
      BY <2>1 DEF AsPolicies
    <2>3. s.source \in {"project", "organization", "default"}
      <3>1. s \in Snapshot
        <4>1. InForce(p) \in Snapshot
          BY EffectiveTyped DEF TypeOK, StoreTypeOK, InForce
        <4> QED BY <4>1, CapturedTyped DEF Snapshots, Captured, TypeOK
      <3> QED BY <3>1 DEF Snapshot
    <2>4. s.source = "project" => y \in ProjectPolicies(p)
      BY <2>2, MayCapturePolicies
    <2>5. s.source = "organization" => y \in OrgPolicies
      BY <2>2, MayCapturePolicies DEF OrgPolicies
    <2>6. s.source = "default" => s.rules = None
      BY <2>2, MayCapturePolicies DEF NamesInv, DefaultPolicies
    <2> QED BY <2>3, <2>4, <2>5, <2>6
  <1>2. ASSUME NEW p \in Project, NEW q \in Project, NEW s \in Snapshots(p),
               NEW t \in Snapshots(q), s.source = t.source, s.version = t.version,
               s.source = "project" => p = q
        PROVE  s.rules = t.rules
    <2> DEFINE y == [rules |-> s.rules, version |-> s.version]
               z == [rules |-> t.rules, version |-> t.version]
    <2>1. CASE s.source = "project"
      BY <1>1, <1>2, <2>1 DEF NamesInv, Consistent
    <2>2. CASE s.source = "organization"
      BY <1>1, <1>2, <2>2 DEF NamesInv, Consistent
    <2>3. CASE s.source = "default"
      BY <1>1, <1>2, <2>3
    <2> QED BY <1>1, <2>1, <2>2, <2>3
  <1> QED BY <1>2 DEF VersionNamesRules

LEMMA NamesInit ==
    ASSUME Init
    PROVE  NamesInv
  <1>1. \A p \in Project : Captured(p) = {} /\ SeenPolicies(p) = {NoPolicy}
    BY DEF Init, Captured, SeenPolicies, Idle
  <1>2. \A p \in Project : ProjectPolicies(p) = {NoPolicy}
    BY <1>1 DEF ProjectPolicies, AsPolicies
  <1>3. OrgPolicies = {NoPolicy} /\ DefaultPolicies = {}
    BY <1>1 DEF OrgPolicies, DefaultPolicies, AsPolicies, Init
  <1> QED BY <1>2, <1>3 DEF NamesInv, Consistent, NoPolicy, Init

-----------------------------------------------------------------------------
(* The invariant.                                                          *)

ActiveInv == IsFiniteSet(ActiveProjects)

IInv == TypeOK /\ SeatsInv /\ GroundsInv /\ WaitingInv /\ NamesInv /\ ActiveInv

(* What becomes of the projects in use.                                    *)
LEMMA ActiveEffect ==
    ASSUME TypeOK, [Next]_vars
    PROVE  \/ ActiveProjects' \subseteq ActiveProjects
           \/ /\ ProjectFits /\ UNCHANGED plan
              /\ \E p \in Project :
                    p \notin ActiveProjects /\ ActiveProjects' = ActiveProjects \cup {p}
  <1> DEFINE Less == ActiveProjects' \subseteq ActiveProjects
             More == /\ ProjectFits /\ UNCHANGED plan
                     /\ \E p \in Project :
                          /\ p \notin ActiveProjects
                          /\ ActiveProjects' = ActiveProjects \cup {p}
  <1> USE DEF TypeOK, StoreTypeOK
  <1>1. ASSUME UNCHANGED project PROVE Less
    BY <1>1 DEF ActiveProjects
  <1>2. ASSUME NEW p \in Project, NEW s \in {"archived", "deleted"}, SetState(p, s)
        PROVE  Less
    BY <1>2 DEF ActiveProjects, SetState
  <1>3. ASSUME NEW p \in Project, SetState(p, "active"), project[p].state # "active",
               ProjectFits, UNCHANGED plan
        PROVE  More
    BY <1>3 DEF ActiveProjects, SetState
  <1>4. ASSUME NEW p \in Project, NEW x, EditProjectPolicy(p, x) PROVE Less
    BY <1>4 DEF ActiveProjects, EditProjectPolicy
  <1> HIDE DEF Less, More, TypeOK, StoreTypeOK
  <1>5. ASSUME NEW p \in Project, CreateProject(p) \/ Restore(p) PROVE More
    BY <1>3, <1>5 DEF CreateProject, Restore
  <1>6. ASSUME NEW p \in Project, Archive(p) \/ DeleteProject(p) PROVE Less
    BY <1>2, <1>6 DEF Archive, DeleteProject
  <1>7. ASSUME Editing PROVE Less \/ More
    <2>1. ASSUME NEW x, AssignPlan(x) \/ EditOrgPolicy(x) PROVE Less
      BY <1>1, <2>1 DEF AssignPlan, EditOrgPolicy
    <2> QED BY <1>4, <1>5, <1>6, <1>7, <2>1 DEF Editing
  <1>8. ASSUME Submitting \/ Retaining PROVE Less
    BY <1>1, <1>8
    DEF Submitting, Retaining, Look, GiveUp, AdmitHttp, Claim, Process,
        AdmitGitHub,
        DeleteAnalysis, NextDay, Choose, Cleanup, Remove, store
  <1>9. Less \/ More
    BY <1>1, <1>7, <1>8 DEF Next, vars, store
  <1> QED BY <1>9 DEF Less, More

LEMMA ActiveStep ==
    ASSUME TypeOK, ActiveInv, [Next]_vars
    PROVE  ActiveInv'
  BY ActiveEffect, FS_Subset, FS_AddElement DEF ActiveInv

(* IInv is an invariant, and so are its conjuncts.                         *)
THEOREM InvariantHolds == Spec => []IInv
  <1>1. Init => IInv
    <2> SUFFICES ASSUME Init PROVE IInv
      OBVIOUS
    <2>1. GroundsInv
      BY DEF Init, ConnectionsInit, GroundsInv
    <2>2. WaitingInv
      BY DEF Init, WaitingInv, Idle
    <2>3. ActiveProjects = {}
      BY DEF Init, ActiveProjects
    <2>4. ActiveInv
      BY <2>3, FS_EmptySet DEF ActiveInv
    <2> QED BY <2>1, <2>2, <2>4, TypeInit, SeatsInit, NamesInit DEF IInv
  <1>2. IInv /\ [Next]_vars => IInv'
    <2> SUFFICES ASSUME IInv, [Next]_vars PROVE IInv'
      OBVIOUS
    <2>1. TypeOK'
      BY TypeStep DEF IInv
    <2>2. SeatsInv' /\ GroundsInv' /\ ActiveInv'
      BY SeatsStep, GroundsStep, ActiveStep DEF IInv
    <2>3. WaitingInv' /\ NamesInv'
      BY <2>1, WaitingStep, NamesStep DEF IInv
    <2> QED BY <2>1, <2>2, <2>3 DEF IInv
  <1> QED BY <1>1, <1>2, PTL DEF Spec

(* Every variable keeps its type.                                          *)
THEOREM TypeCorrect == Spec => []TypeOK
  <1>1. IInv => TypeOK
    BY DEF IInv
  <1> QED BY <1>1, InvariantHolds, PTL

(* Whatever is demoted and removed, somebody can manage the owners.        *)
THEOREM OwnersRemain == Spec => []OwnerRemains
  <1>1. IInv => OwnerRemains
    BY DEF IInv, SeatsInv
  <1> QED BY <1>1, InvariantHolds, PTL

(* A revoked connection comes back only by a connect.                      *)
THEOREM RevocationsLast == Spec => []RevocationLasts
  <1>1. IInv => RevocationLasts
    BY DEF IInv, GroundsInv, RevocationLasts, Usable
  <1> QED BY <1>1, InvariantHolds, PTL

(* A source and a version name one policy.                                 *)
THEOREM VersionsNameRules == Spec => []VersionNamesRules
  <1>1. IInv => VersionNamesRules
    BY NamesGive DEF IInv
  <1> QED BY <1>1, InvariantHolds, PTL

-----------------------------------------------------------------------------
(* Steps.                                                                  *)

(* An analysis is started by an admission, one at a time, and paid.        *)
LEMMA AdmitEffect ==
    ASSUME TypeOK, NEW r \in Request, NEW kind \in {"http", "github"},
           NEW policy \in Snapshot, req[r].of \in Project, AnalysisFits,
           Admit(r, kind, policy)
    PROVE  \E a \in Analysis : /\ Started = {a}
                               /\ analysis'[a].by = kind
                               /\ analysis'[a].of = req[r].of
                               /\ used' = used + 1 /\ used' <= Limits.analyses
  <1> USE DEF TypeOK, StoreTypeOK
  <1> DEFINE row == [of |-> req[r].of, by |-> kind, created |-> today,
                     snapshot |-> policy]
  <1>1. row \in AnalysisRow
    BY BoundTyped DEF AnalysisRow
  <1>2. row # None
    BY <1>1, WorkspaceAssumption
  <1>3. PICK a \in Analysis : /\ analysis[a] = None
                              /\ analysis' = [analysis EXCEPT ![a] = row]
                              /\ used' = used + 1
    BY BoundTyped DEF Admit, Fresh
  <1>4. row.by = kind /\ row.of = req[r].of
    OBVIOUS
  <1>5. used + 1 <= Limits.analyses
    <2>1. Limits.analyses \in Nat
      BY LimitsTyped DEF Limits, Entitlements
    <2> QED BY <2>1 DEF AnalysisFits
  <1> HIDE DEF row
  <1>6. Started = {a} /\ analysis'[a] = row
    BY <1>2, <1>3 DEF Started
  <1> QED BY <1>3, <1>4, <1>5, <1>6

LEMMA StartedEffect ==
    ASSUME TypeOK, [Next]_vars
    PROVE  \/ Started = {} /\ (used' = used \/ today' # today)
           \/ \E r \in Request :
                AdmitHttp(r) /\ \E a \in Analysis :
                   /\ Started = {a} /\ analysis'[a].of = req[r].of
                   /\ used' = used + 1 /\ used' <= Limits.analyses
           \/ \E r \in Request :
                AdmitGitHub(r) /\ \E a \in Analysis :
                   /\ Started = {a} /\ analysis'[a].by = "github"
                   /\ used' = used + 1 /\ used' <= Limits.analyses
  <1> DEFINE Quiet == Started = {} /\ (used' = used \/ today' # today)
             Http  == \E r \in Request :
                        AdmitHttp(r) /\ \E a \in Analysis :
                           /\ Started = {a} /\ analysis'[a].of = req[r].of
                           /\ used' = used + 1 /\ used' <= Limits.analyses
             Hook  == \E r \in Request :
                        AdmitGitHub(r) /\ \E a \in Analysis :
                           /\ Started = {a} /\ analysis'[a].by = "github"
                           /\ used' = used + 1 /\ used' <= Limits.analyses
  <1> USE DEF TypeOK, StoreTypeOK
  <1>1. ASSUME UNCHANGED used, \A a \in Analysis : analysis'[a] \in {None, analysis[a]}
        PROVE  Quiet
    BY <1>1 DEF Started
  <1>2. ASSUME UNCHANGED <<used, analysis>> PROVE Quiet
    BY <1>2 DEF Started
  <1>3. ASSUME NextDay PROVE Quiet
    BY <1>3, BoundTyped DEF NextDay, Started
  <1>4. ASSUME NEW r \in Request, AdmitHttp(r) PROVE Http
    <2>1. req[r].of \in Project
      BY <1>4 DEF AdmitHttp, RequestState, Idle
    <2>2. InForce(req[r].of) \in Snapshot
      BY <2>1, EffectiveTyped DEF InForce
    <2>3. AnalysisFits /\ Admit(r, "http", InForce(req[r].of))
      BY <1>4 DEF AdmitHttp
    <2>4. \E a \in Analysis : /\ Started = {a} /\ analysis'[a].of = req[r].of
                              /\ used' = used + 1 /\ used' <= Limits.analyses
      BY <2>1, <2>2, <2>3, AdmitEffect
    <2> QED BY <1>4, <2>4
  <1>5. ASSUME NEW r \in Request, AdmitGitHub(r) PROVE Hook
    <2>1. req[r].of \in Project /\ req[r].policy \in Snapshot
      BY <1>5 DEF AdmitGitHub, RequestState, Idle
    <2>2. AnalysisFits /\ Admit(r, "github", req[r].policy)
      BY <1>5 DEF AdmitGitHub
    <2>3. \E a \in Analysis : /\ Started = {a} /\ analysis'[a].by = "github"
                              /\ used' = used + 1 /\ used' <= Limits.analyses
      BY <2>1, <2>2, AdmitEffect
    <2> QED BY <1>5, <2>3
  <1>6. ASSUME NEW p \in Project, DeleteProject(p) PROVE Quiet
    BY <1>1, <1>6 DEF DeleteProject
  <1>7. ASSUME NEW a \in Analysis, DeleteAnalysis(a) PROVE Quiet
    BY <1>1, <1>7 DEF DeleteAnalysis
  <1>8. ASSUME Cleanup PROVE Quiet
    BY <1>1, <1>8 DEF Cleanup, Remove
  <1> HIDE DEF Quiet, Http, Hook, TypeOK, StoreTypeOK
  <1>9. ASSUME Editing PROVE Quiet
    BY <1>2, <1>6, <1>9
      DEF Editing, AssignPlan, EditOrgPolicy, CreateProject, Archive,
                            Restore, EditProjectPolicy
  <1>10. ASSUME Submitting PROVE Quiet \/ Http \/ Hook
    BY <1>2, <1>4, <1>5, <1>10
      DEF Submitting, Look, GiveUp, Claim, Process, store
  <1>11. ASSUME Retaining PROVE Quiet
    BY <1>2, <1>3, <1>7, <1>8, <1>11 DEF Retaining, Choose, store
  <1>12. Quiet \/ Http \/ Hook
    BY <1>2, <1>9, <1>10, <1>11 DEF Next, vars, store
  <1> QED BY <1>12 DEF Quiet, Http, Hook

(* An upload is judged under a policy that was in force during its request,*)
(* on a project that is neither archived nor deleted.                      *)
THEOREM UploadsAreLicit == Spec => UploadIsLicit
  <1>1. ASSUME IInv, IInv', [Next]_vars
        PROVE  \A a \in Started : analysis'[a].by = "http"
                 => "http" \notin torn' /\ project[analysis'[a].of].state = "active"
    <2>1. "http" \notin torn'
      BY <1>1 DEF IInv, WaitingInv
    <2>2. ASSUME NEW a \in Started, analysis'[a].by = "http"
          PROVE  project[analysis'[a].of].state = "active"
      BY <1>1, <2>2, StartedEffect DEF IInv, AdmitHttp
    <2> QED BY <2>1, <2>2
  <1>2. IInv /\ IInv' /\ [Next]_vars
          => [\A a \in Started : analysis'[a].by = "http"
                => "http" \notin torn' /\ project[analysis'[a].of].state = "active"]_vars
    BY <1>1
  <1> QED BY <1>2, InvariantHolds, PTL DEF Spec, UploadIsLicit

(* What cleanup() deletes is expired under the plan in force.              *)
THEOREM CleanupSpares == Spec => CleanupSparesVisible
  <1> DEFINE A == sweep # Idle /\ sweep' = Idle
                    => \A a \in Analysis : Visible(a) => analysis'[a] = analysis[a]
  <1>1. ASSUME TypeOK, [Next]_vars PROVE A
    <2>1. ASSUME UNCHANGED sweep \/ Choose PROVE A
      BY <2>1 DEF Choose
    <2>2. ASSUME Cleanup PROVE A
      <3>1. /\ today \in Nat /\ sweep.now \in Nat /\ sweep.now <= today
            /\ Limits.retention \in Nat
        BY <1>1, <2>2, BoundTyped, LimitsTyped
        DEF TypeOK, StoreTypeOK, Cleanup, Limits, Entitlements, Idle
      <3>2. \A a \in Analysis : analysis[a] # None => analysis[a].created \in Nat
        BY <1>1 DEF TypeOK, StoreTypeOK, AnalysisRow
      <3>3. \A a \in Analysis : Visible(a) =>
               analysis[a] # None /\ ~ (analysis[a].created <= Cutoff)
        BY <3>1, <3>2 DEF Visible, Cutoff
      <3> QED BY <2>2, <3>3 DEF Cleanup, Remove
    <2> HIDE DEF A
    <2>3. ASSUME Editing \/ Submitting PROVE A
      BY <2>1, <2>3
      DEF Editing, Submitting, AssignPlan, EditOrgPolicy, CreateProject,
          Archive, Restore,
          DeleteProject, EditProjectPolicy, Look, GiveUp, AdmitHttp, Claim, Process,
          AdmitGitHub, store
    <2>4. ASSUME Retaining PROVE A
      BY <2>1, <2>2, <2>4 DEF Retaining, DeleteAnalysis, NextDay
    <2> QED BY <1>1, <2>1, <2>3, <2>4 DEF Next, vars
  <1>2. TypeOK /\ [Next]_vars => [A]_vars
    BY <1>1
  <1> QED BY <1>2, TypeCorrect, PTL DEF Spec, CleanupSparesVisible

(* Memberships come from open invitations, one from each.                  *)
THEOREM InvitationsAdmitOnce == Spec => InvitationAdmitsOnce
  <1> DEFINE A == \A u \in User : role[u] = Nothing /\ role'[u] # Nothing
                                    => JoinedBy(u, today)
  <1>1. ASSUME TypeOK, [Next]_vars PROVE A
    <2>1. ASSUME UNCHANGED role PROVE A
      BY <2>1
    <2>2. ASSUME NEW actor \in User, NEW u \in User, NEW new \in Role \cup {Nothing},
                 ChangeMember(actor, u, new, Limits)
          PROVE  A
      BY <1>1, <2>2, ChangeEffect DEF TypeOK
    <2>3. ASSUME NEW v \in Visitor, Accept(v, Limits, today) PROVE A
      <3>1. PICK u \in User, i \in Invitation :
               /\ Open(invitation[i], today)
               /\ invitation[i].email = u
               /\ role' = [role EXCEPT ![u] = invitation[i].role]
               /\ invitation'[i].accepted
        BY <1>1, <2>3, AcceptEffect DEF TypeOK
      <3>2. role'[u] = invitation[i].role /\ \A w \in User \ {u} : role'[w] = role[w]
        BY <1>1, <3>1 DEF TypeOK, MembersTypeOK
      <3> QED BY <3>1, <3>2 DEF JoinedBy
    <2> HIDE DEF A
    <2>4. ASSUME Membering PROVE A
      <3>1. bound.people \subseteq User
        BY <1>1, BoundTyped DEF TypeOK, StoreTypeOK
      <3> QED BY <2>1, <2>2, <2>3, <2>4, <3>1
              DEF Membering, Invite, Revoke, FindInvitation, AcceptRefused
    <2> QED BY <1>1, <2>1, <2>4 DEF Next, Beside, memberVars, vars
  <1>2. TypeOK /\ [Next]_vars => [A]_vars
    BY <1>1
  <1> QED BY <1>2, TypeCorrect, PTL DEF Spec, InvitationAdmitsOnce

(* Seats: a step that takes one leaves no more taken than the plan has.    *)
LEMMA SeatsShrink ==
    ASSUME SeatsInv, today \in Nat, today' \in Nat,
           Member' \subseteq Member, Pending(today)' \subseteq Pending(today)
    PROVE  /\ Cardinality(Member') <= Cardinality(Member)
           /\ Seats(today)' <= Seats(today)
           /\ Cardinality(Member) \in Nat /\ Cardinality(Member') \in Nat
           /\ Seats(today) \in Nat /\ Seats(today)' \in Nat
  <1>1. IsFiniteSet(Member) /\ IsFiniteSet(Pending(today))
    BY DEF SeatsInv
  <1>2. /\ IsFiniteSet(Member') /\ Cardinality(Member') <= Cardinality(Member)
        /\ IsFiniteSet(Pending(today)')
        /\ Cardinality(Pending(today)') <= Cardinality(Pending(today))
    BY <1>1, FS_Subset
  <1>3. /\ Cardinality(Member) \in Nat /\ Cardinality(Member') \in Nat
        /\ Cardinality(Pending(today)) \in Nat /\ Cardinality(Pending(today)') \in Nat
    BY <1>1, <1>2, FS_CardinalityType
  <1>4. /\ Seats(today) = Cardinality(Member) + Cardinality(Pending(today))
        /\ Seats(today)' = Cardinality(Member') + Cardinality(Pending(today)')
    BY DEF Seats
  <1> QED BY <1>2, <1>3, <1>4

LEMMA SeatsEffect ==
    ASSUME TypeOK, SeatsInv, [Next]_vars
    PROVE  SeatsFit
  <1>0. today \in Nat /\ bound \in Bounds /\ plan \in Plan /\ MembersTypeOK
    BY BoundTyped DEF TypeOK, StoreTypeOK
  <1>1. Limits.members \in Nat
    BY <1>0, LimitsTyped DEF Limits, Entitlements
  <1>2. IsFiniteSet(Member) /\ IsFiniteSet(Pending(today))
    BY <1>0 DEF SeatsInv
  <1>3. Cardinality(Member) \in Nat /\ Cardinality(Pending(today)) \in Nat
    BY <1>2, FS_CardinalityType
  <1>4. ASSUME today' \in Nat, Member' \subseteq Member,
               Pending(today)' \subseteq Pending(today)
        PROVE  SeatsFit
    <2>1. /\ Cardinality(Member') <= Cardinality(Member)
          /\ Seats(today)' <= Seats(today)
          /\ Cardinality(Member) \in Nat /\ Cardinality(Member') \in Nat
          /\ Seats(today) \in Nat /\ Seats(today)' \in Nat
      BY <1>0, <1>4, SeatsShrink
    <2> QED BY <2>1 DEF SeatsFit
  <1>5. ASSUME UNCHANGED memberVars, today' \in Nat, today' >= today
        PROVE  SeatsFit
    <2>1. Member' = Member
      BY <1>5 DEF Member, memberVars
    <2>2. ASSUME NEW i \in Invitation, Open(invitation[i], today)
          PROVE  invitation[i].expires \in Nat
      BY <1>0, <2>2 DEF MembersTypeOK, InvitationRow, Open
    <2>3. ASSUME NEW i \in Invitation, Open(invitation[i], today)'
          PROVE  Open(invitation[i], today)
      <3>1. invitation' = invitation
        BY <1>5 DEF memberVars
      <3>2. invitation[i].expires \in Nat
        BY <1>0, <2>3, <3>1 DEF MembersTypeOK, InvitationRow, Open
      <3> QED BY <1>0, <1>5, <2>3, <3>1, <3>2 DEF Open
    <2>4. Pending(today)' \subseteq Pending(today)
      BY <2>3 DEF Pending
    <2> QED BY <1>4, <1>5, <2>1, <2>4
  <1>6. ASSUME Membering, UNCHANGED <<plan, today>> PROVE SeatsFit
    <2>0. today' \in Nat /\ Limits' = Limits
      BY <1>0, <1>6 DEF Limits
    <2>1. ASSUME NEW actor \in User, NEW u \in User, NEW new \in Role \cup {Nothing},
                 ChangeMember(actor, u, new, Limits)
          PROVE  SeatsFit
      <3>1. /\ Member' = IF new = Nothing THEN Member \ {u} ELSE Member
            /\ \A day : Pending(day)' = Pending(day)
        BY <1>0, <2>1, ChangeEffect
      <3>2. Member' \subseteq Member
        BY <3>1
      <3>3. Pending(today)' = Pending(today)
        BY <1>6, <3>1 DEF Pending
      <3> QED BY <1>4, <2>0, <3>2, <3>3
    <2>2. ASSUME NEW actor \in User, NEW i \in Invitation, NEW u \in User,
                 NEW as \in Role \ {"owner"}, Invite(actor, i, u, as, Limits, today)
          PROVE  SeatsFit
      <3>1. /\ Member' = Member
            /\ Seats(today) < Limits.members
            /\ Pending(today)' = Pending(today) \cup {i}
            /\ i \notin Pending(today)
        BY <1>0, <1>6, <2>2, InviteEffect DEF Pending
      <3>2. Cardinality(Pending(today)') = Cardinality(Pending(today)) + 1
        BY <1>2, <3>1, FS_AddElement
      <3>3. Seats(today)' = Seats(today) + 1
        BY <1>3, <3>1, <3>2 DEF Seats
      <3>4. Seats(today) \in Nat
        BY <1>3 DEF Seats
      <3> QED BY <1>1, <2>0, <3>1, <3>3, <3>4 DEF SeatsFit
    <2>3. ASSUME NEW u \in User, NEW i \in Invitation, Revoke(u, i) PROVE SeatsFit
      <3>1. Member' = Member /\ \A day : Pending(day)' \subseteq Pending(day)
        BY <1>0, <2>3, RevokeEffect
      <3>2. Pending(today)' \subseteq Pending(today)
        BY <1>6, <3>1 DEF Pending
      <3> QED BY <1>4, <2>0, <3>1, <3>2
    <2>4. ASSUME NEW v \in Visitor, Accept(v, Limits, today) PROVE SeatsFit
      <3>1. PICK u \in User, i \in Invitation :
               /\ Seats(today) <= Limits.members
               /\ Member' = Member \cup {u} /\ u \notin Member
               /\ i \in Pending(today)
               /\ \A d : Pending(d)' = Pending(d) \ {i}
        BY <1>0, <2>4, AcceptEffect
      <3>2. Pending(today)' = Pending(today) \ {i}
        BY <1>6, <3>1 DEF Pending
      <3>3. Cardinality(Member') = Cardinality(Member) + 1
        BY <1>2, <3>1, FS_AddElement
      <3>5. Cardinality(Pending(today)') = Cardinality(Pending(today)) - 1
        BY <1>2, <3>1, <3>2, FS_RemoveElement
      <3>4. Seats(today)' = Seats(today)
        BY <1>3, <3>3, <3>5 DEF Seats
      <3> QED BY <2>0, <3>1, <3>4 DEF SeatsFit
    <2>5. ASSUME NEW v, NEW u, NEW i, FindInvitation(v, u, i) PROVE SeatsFit
      <3>1. Member' = Member /\ Pending(today)' = Pending(today)
        BY <1>6, <2>5 DEF FindInvitation, Member, Pending
      <3> QED BY <1>4, <2>0, <3>1
    <2>6. ASSUME NEW v \in Visitor, AcceptRefused(v, Limits, today) PROVE SeatsFit
      <3>1. Member' = Member /\ Pending(today)' = Pending(today)
        BY <1>6, <2>6 DEF AcceptRefused, Member, Pending
      <3> QED BY <1>4, <2>0, <3>1
    <2> QED BY <1>0, <1>6, <2>1, <2>2, <2>3, <2>4, <2>5, <2>6, BoundTyped
      DEF Membering
  <1>7. ASSUME UNCHANGED memberVars PROVE SeatsFit
    <2>1. today' \in Nat /\ today' >= today
      <3>1. today' = today \/ NextDay
        BY <1>7
          DEF Next, vars, Editing, Submitting, Retaining, AssignPlan,
              EditOrgPolicy,
           CreateProject, Archive, Restore, DeleteProject, EditProjectPolicy, Look, GiveUp,
           AdmitHttp, Claim, Process, AdmitGitHub, DeleteAnalysis, Choose, Cleanup, Remove
      <3> QED BY <1>0, <3>1 DEF NextDay
    <2> QED BY <1>5, <1>7, <2>1
  <1>8. UNCHANGED memberVars \/ (Membering /\ UNCHANGED <<plan, today>>)
    BY DEF Next, Beside, vars, store
  <1> QED BY <1>6, <1>7, <1>8

(* A project more is a project the plan in force allows.                   *)
LEMMA ProjectsEffect ==
    ASSUME TypeOK, ActiveInv, [Next]_vars
    PROVE  ProjectsFit
  <1>1. CASE ActiveProjects' \subseteq ActiveProjects
    <2>1. /\ Cardinality(ActiveProjects') <= Cardinality(ActiveProjects)
          /\ Cardinality(ActiveProjects') \in Nat /\ Cardinality(ActiveProjects) \in Nat
      BY <1>1, FS_Subset, FS_CardinalityType DEF ActiveInv
    <2> QED BY <2>1 DEF ProjectsFit
  <1>2. ASSUME ProjectFits, UNCHANGED plan, NEW p \in Project, p \notin ActiveProjects,
               ActiveProjects' = ActiveProjects \cup {p}
        PROVE  ProjectsFit
    <2>1. /\ Cardinality(ActiveProjects') = Cardinality(ActiveProjects) + 1
          /\ Cardinality(ActiveProjects) \in Nat
      BY <1>2, FS_AddElement, FS_CardinalityType DEF ActiveInv
    <2>2. Limits' = Limits /\ Limits.projects \in Nat
      BY <1>2, LimitsTyped DEF Limits, Entitlements, TypeOK, StoreTypeOK
    <2> QED BY <1>2, <2>1, <2>2 DEF ProjectsFit, ProjectFits
  <1> QED BY <1>1, <1>2, ActiveEffect

(* Whoever gets more has it from the plan in force.                        *)
THEOREM PlanIsKept == Spec => WithinPlan
  <1>1. ASSUME IInv, [Next]_vars PROVE ProjectsFit /\ SeatsFit /\ StartsArePaid
    <2>1. ProjectsFit /\ SeatsFit
      BY <1>1, ProjectsEffect, SeatsEffect DEF IInv
    <2>2. StartsArePaid
      <3>1. CASE Started = {} /\ (used' = used \/ today' # today)
        <4>1. used + 0 = used
          BY <1>1 DEF IInv, TypeOK, StoreTypeOK
        <4> QED BY <3>1, <4>1, FS_EmptySet DEF StartsArePaid
      <3>2. ASSUME NEW a \in Analysis, Started = {a}, used' = used + 1,
                   used' <= Limits.analyses
            PROVE  StartsArePaid
        BY <3>2, FS_Singleton DEF StartsArePaid
      <3> QED BY <1>1, <3>1, <3>2, StartedEffect DEF IInv
    <2> QED BY <2>1, <2>2
  <1>2. IInv /\ [Next]_vars => [ProjectsFit /\ SeatsFit /\ StartsArePaid]_vars
    BY <1>1
  <1> QED BY <1>2, InvariantHolds, PTL DEF Spec, WithinPlan
=============================================================================
