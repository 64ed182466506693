------------------------------ MODULE Members ------------------------------
(***************************************************************************)
(* The members of one organization and its invitations (server/lifecycle.py*)
(* and quotas.py).                                                         *)
(*                                                                         *)
(* Every route here locks the row of the organization and reads again what *)
(* it has read before (authorized_org(), or refresh(invite)), so it is one *)
(* step under the lock, but for one thing: who accepts an invitation finds *)
(* it by its token first and waits for the lock with the row in hand.      *)
(* Limits, the plan in force, and day, the clock, are those of module      *)
(* Workspace; the routes read the clock more than once, here it stands     *)
(* still during a step.                                                    *)
(***************************************************************************)
EXTENDS Integers, FiniteSets

CONSTANTS User,         \* accounts, each with one verified e-mail address
          Founder,      \* who created the organization
          Invitation,   \* identifiers
          Visitor,      \* threads that serve accept_invite
          Nothing,      \* no role, no invitation, no invitation found
          InviteDays    \* an invitation expires after so many days (7)

Managers == {"owner", "admin"}
Role     == Managers \cup {"developer"}    \* a viewer is like a developer

InvitationRow == [email : User, role : Role \ {"owner"}, expires : Nat,
                  accepted : BOOLEAN, revoked : BOOLEAN]

ASSUME MembersAssumption ==
    /\ Founder \in User
    /\ InviteDays \in Nat \ {0}
    /\ Nothing \notin Role \cup InvitationRow

VARIABLES role,         \* [User -> Role or Nothing]: the memberships
          invitation,   \* [Invitation -> row or Nothing]
          accepting     \* [Visitor -> what the thread has read, or Nothing]

memberVars == <<role, invitation, accepting>>

MembersTypeOK ==
    /\ role \in [User -> Role \cup {Nothing}]
    /\ invitation \in [Invitation -> InvitationRow \cup {Nothing}]
    /\ accepting \in [Visitor -> {Nothing} \cup
                        [by : User, id : Invitation, seen : InvitationRow]]

MembersInit ==
    /\ role = [u \in User |-> IF u = Founder THEN "owner" ELSE Nothing]
    /\ invitation = [i \in Invitation |-> Nothing]
    /\ accepting = [v \in Visitor |-> Nothing]

-----------------------------------------------------------------------------
Member == {u \in User : role[u] # Nothing}
Owners == {u \in User : role[u] = "owner"}

Open(row, day) ==
    row # Nothing /\ ~row.accepted /\ ~row.revoked /\ row.expires > day

Pending(day) == {i \in Invitation : Open(invitation[i], day)}

(* What the quota of members counts: the seats taken and promised.         *)
Seats(day) == Cardinality(Member) + Cardinality(Pending(day))

-----------------------------------------------------------------------------
(* member_target(): whom `actor' may give the role `new', or Nothing to    *)
(* remove: only owners touch owners, giving a role needs the plan, and an  *)
(* owner stays.                                                            *)

(* Mutant of MayChange: the owners are not counted when one is removed.    *)
MayChangeUncounted(actor, target, new, limits) ==
    /\ role[actor] \in Managers
    /\ role[target] # Nothing
    /\ "owner" \in {role[target], new} => role[actor] = "owner"
    /\ new # Nothing => limits.team
    /\ role[target] = "owner" /\ new \notin {"owner", Nothing}
       => Cardinality(Owners) > 1

MayChange(actor, target, new, limits) ==
    /\ role[actor] \in Managers
    /\ role[target] # Nothing
    /\ "owner" \in {role[target], new} => role[actor] = "owner"
    /\ new # Nothing => limits.team
    /\ role[target] = "owner" /\ new # "owner" => Cardinality(Owners) > 1

(* update_member and remove_member.                                        *)
ChangeMember(actor, target, new, limits) ==
    /\ MayChange(actor, target, new, limits)
    /\ role' = [role EXCEPT ![target] = new]
    /\ UNCHANGED <<invitation, accepting>>

(* Mutant of Invite: quota("members") counts the members only.             *)
InviteMembersOnly(actor, i, email, as, limits, day) ==
    /\ invitation[i] = Nothing
    /\ role[actor] \in Managers
    /\ limits.team
    /\ Cardinality(Member) < limits.members
    /\ invitation' = [invitation EXCEPT ![i] =
           [email |-> email, role |-> as, expires |-> day + InviteDays,
            accepted |-> FALSE, revoked |-> FALSE]]
    /\ UNCHANGED <<role, accepting>>

(* invite: quota("members") counts the pending invitations as well.        *)
Invite(actor, i, email, as, limits, day) ==
    /\ invitation[i] = Nothing
    /\ role[actor] \in Managers
    /\ limits.team
    /\ Seats(day) < limits.members
    /\ invitation' = [invitation EXCEPT ![i] =
           [email |-> email, role |-> as, expires |-> day + InviteDays,
            accepted |-> FALSE, revoked |-> FALSE]]
    /\ UNCHANGED <<role, accepting>>

(* revoke_invite, whatever became of the invitation.                       *)
Revoke(actor, i) ==
    /\ role[actor] \in Managers
    /\ invitation[i] # Nothing
    /\ invitation' = [invitation EXCEPT ![i].revoked = TRUE]
    /\ UNCHANGED <<role, accepting>>

-----------------------------------------------------------------------------
(* accept_invite.                                                          *)

(* The row is found by its token; then the thread waits for the lock.      *)
FindInvitation(v, u, i) ==
    /\ accepting[v] = Nothing
    /\ invitation[i] # Nothing
    /\ accepting' = [accepting EXCEPT ![v] =
                        [by |-> u, id |-> i, seen |-> invitation[i]]]
    /\ UNCHANGED <<role, invitation>>

(* The user may have it: open, addressed to them, not a member yet, and    *)
(* the seats, this one included, within the plan.                          *)
Admissible(row, u, limits, day) ==
    /\ Open(row, day)
    /\ row.email = u
    /\ limits.team
    /\ role[u] = Nothing
    /\ Seats(day) <= limits.members

Join(v, row) ==
    LET i == accepting[v].id IN
    /\ role' = [role EXCEPT ![accepting[v].by] = row.role]
    /\ invitation' = [invitation EXCEPT ![i].accepted = TRUE]
    /\ accepting' = [accepting EXCEPT ![v] = Nothing]

(* Mutant of Accept: the invitation is not refreshed under the lock.       *)
AcceptUnrefreshed(v, limits, day) ==
    /\ accepting[v] # Nothing
    /\ Admissible(accepting[v].seen, accepting[v].by, limits, day)
    /\ Join(v, accepting[v].seen)

(* Under the lock, with the row as it is now.                              *)
Accept(v, limits, day) ==
    /\ accepting[v] # Nothing
    /\ LET row == invitation[accepting[v].id] IN
         /\ Admissible(row, accepting[v].by, limits, day)
         /\ Join(v, row)

(* 402 or 404.                                                             *)
AcceptRefused(v, limits, day) ==
    /\ accepting[v] # Nothing
    /\ ~Admissible(invitation[accepting[v].id], accepting[v].by, limits, day)
    /\ accepting' = [accepting EXCEPT ![v] = Nothing]
    /\ UNCHANGED <<role, invitation>>

-----------------------------------------------------------------------------
(* Safety: through whatever demotions and removals, also of each other, an *)
(* organization keeps somebody who can manage its owners.                  *)
OwnerRemains == Owners # {}

(* A membership comes from an invitation that was open when it was given,  *)
(* is used up by it, and was addressed to the new member.                  *)
JoinedBy(u, day) ==
    \E i \in Invitation :
        /\ Open(invitation[i], day) /\ invitation'[i].accepted
        /\ invitation[i].email = u
        /\ role'[u] = invitation[i].role
=============================================================================
