----------------------------- MODULE Memberships -----------------------------
(***************************************************************************)
(* Memberships and invitations of one organisation: create_organization,   *)
(* the invitation service (create, accept, revoke) and member updates.     *)
(*                                                                         *)
(* Every request is one READ COMMITTED transaction of several statements.  *)
(* The variables hold the committed rows; what a request has read, deleted *)
(* or inserted and not committed is its own (seen), and the row locks it   *)
(* holds follow from its pc:                                               *)
(*   - the organisation row, FOR UPDATE, by a member update;               *)
(*   - the invitation row, FOR UPDATE, by an acceptance;                   *)
(*   - the membership row, FOR UPDATE, by an acceptance.  The foreign-key  *)
(*     check of inserted membership roles and the status update wait for   *)
(*     it;                                                                 *)
(*   - the organisation row, KEY SHARE, by an acceptance that inserted a   *)
(*     membership: a member update's FOR UPDATE waits for it;              *)
(*   - the unique entries (membership, role) of uncommitted insertions.    *)
(* Steps that nothing can interleave with are one action with the next     *)
(* wait.  A verified e-mail address is the user who owns it; lists, tokens *)
(* and views are reads and are left out.                                   *)
(***************************************************************************)
EXTENDS Naturals, FiniteSets

CONSTANTS
    Users,         \* workforce users
    Roles,         \* roles a request may name
    Owner,         \* the global owner role
    ManagerRoles,  \* roles with organization.members.manage
    Assignable,    \* tenant roles and the global owner and admin roles
    Invites,       \* invitation rows
    RoleLists,     \* role lists of the requests considered
    Updates,       \* member update payloads considered
    Requests       \* concurrently served requests

ASSUME MembershipAssumption ==
    /\ Owner \in Assignable
    /\ Assignable \subseteq Roles
    /\ RoleLists \subseteq (SUBSET Roles) \ {{}}
    /\ Updates \subseteq [roles : SUBSET Roles, status : {"keep", "active", "suspended"}]
    /\ IsFiniteSet(Users)

VARIABLES
    org,     \* whether the tenants row exists
    member,  \* committed memberships and their roles
    inv,     \* committed invitations
    pc,      \* next statement of each request
    arg,     \* its arguments
    seen     \* what it read, deleted or inserted

vars == <<org, member, inv, pc, arg, seen>>

NoUser == "no user"
NoInvite == "no invitation"

Member == [status : {"none", "active", "suspended"}, roles : SUBSET Roles]

Invite == [status : {"absent", "pending", "accepted", "revoked"},
           email : Users \cup {NoUser}, roles : SUBSET Roles,
           expired : BOOLEAN, acceptedBy : Users \cup {NoUser}]

Steps == {"idle", "u_lock", "u_check", "u_delete", "u_insert", "u_finish",
          "a_lock", "a_member", "a_roles", "a_commit", "r_read", "r_write",
          "c_check", "c_insert"}

(* An update's target, an acceptance's or a creation's user.               *)
Args == [caller : Users \cup {NoUser}, user : Users \cup {NoUser},
         inv : Invites \cup {NoInvite}, roles : SUBSET Roles,
         status : {"keep", "active", "suspended"}, expired : BOOLEAN]

Seen == [status : {"none", "active", "suspended"}, roles : SUBSET Roles]

TypeOK ==
    /\ org \in BOOLEAN
    /\ member \in [Users -> Member]
    /\ inv \in [Invites -> Invite]
    /\ pc \in [Requests -> Steps]
    /\ arg \in [Requests -> Args]
    /\ seen \in [Requests -> Seen]

NoSeen == [status |-> "none", roles |-> {}]
NoArg == [caller |-> NoUser, user |-> NoUser, inv |-> NoInvite, roles |-> {},
          status |-> "keep", expired |-> FALSE]

Init ==
    /\ org = FALSE
    /\ member = [u \in Users |-> [status |-> "none", roles |-> {}]]
    /\ inv = [i \in Invites |-> [status |-> "absent", email |-> NoUser, roles |-> {},
                                 expired |-> FALSE, acceptedBy |-> NoUser]]
    /\ pc = [r \in Requests |-> "idle"]
    /\ arg = [r \in Requests |-> NoArg]
    /\ seen = [r \in Requests |-> NoSeen]

-----------------------------------------------------------------------------

Manages(u) == member[u].status = "active" /\ member[u].roles \cap ManagerRoles # {}

ActiveOwners == {u \in Users : member[u].status = "active" /\ Owner \in member[u].roles}

Updating(r) == pc[r] \in {"u_check", "u_delete", "u_insert", "u_finish"}

(* Mutants: the acceptance reads its rows without FOR UPDATE.              *)
InviteNotLocked(r, i) == FALSE
MemberNotLocked(r, u) == FALSE

HoldsInvite(r, i) == pc[r] \in {"a_member", "a_roles", "a_commit"} /\ arg[r].inv = i
HoldsMember(r, u) == /\ pc[r] \in {"a_roles", "a_commit"} /\ arg[r].user = u
                     /\ seen[r].status # "none"
InsertedMember(r) == pc[r] \in {"a_roles", "a_commit"} /\ seen[r].status = "none"

(* Uncommitted (membership, role) entries of request r for user u.         *)
Inserted(r, u) ==
    IF arg[r].user # u THEN {}
    ELSE IF pc[r] = "u_finish" THEN arg[r].roles
    ELSE IF pc[r] = "a_commit" THEN seen[r].roles
    ELSE {}

Start(r, step, a) ==
    /\ pc[r] = "idle"
    /\ org
    /\ pc' = [pc EXCEPT ![r] = step]
    /\ arg' = [arg EXCEPT ![r] = a]
    /\ UNCHANGED <<org, member, inv, seen>>

Goto(r, step) == pc' = [pc EXCEPT ![r] = step] /\ UNCHANGED arg

(* The request answers, successfully or not, and its transaction is over.  *)
Finish(r) ==
    /\ pc' = [pc EXCEPT ![r] = "idle"]
    /\ arg' = [arg EXCEPT ![r] = NoArg]
    /\ seen' = [seen EXCEPT ![r] = NoSeen]

(* An error response or a lost connection rolls the transaction back.      *)
Rollback(r) == Finish(r) /\ UNCHANGED <<org, member, inv>>

Fail(r) == pc[r] # "idle" /\ Rollback(r)

-----------------------------------------------------------------------------
(* create_organization: tenant, active membership and owner role commit    *)
(* together; a second creation meets the unique slug and changes nothing.  *)
create_organization(u) ==
    /\ ~org
    /\ org' = TRUE
    /\ member' = [member EXCEPT ![u] = [status |-> "active", roles |-> {Owner}]]
    /\ UNCHANGED <<inv, pc, arg, seen>>

-----------------------------------------------------------------------------
(* update_member                                                           *)

update_member(r, caller, target, u) ==
    Start(r, "u_lock", [NoArg EXCEPT !.caller = caller, !.user = target,
                                     !.roles = u.roles, !.status = u.status])

(* Mutant: the caller's permission is not checked.                         *)
PermissionNotChecked(r) ==
    /\ pc[r] = "u_lock"
    /\ \A s \in Requests : ~Updating(s) /\ ~InsertedMember(s)
    /\ LET t == member[arg[r].user] IN
       IF t.status # "none"
         THEN /\ Goto(r, "u_check")
              /\ seen' = [seen EXCEPT ![r].status = t.status]
              /\ UNCHANGED <<org, member, inv>>
         ELSE Rollback(r)

(* Mutant: the organisation row is read without FOR UPDATE.                *)
OrganizationNotLocked(r) ==
    /\ pc[r] = "u_lock"
    /\ LET t == member[arg[r].user] IN
       IF Manages(arg[r].caller) /\ t.status # "none"
         THEN /\ Goto(r, "u_check")
              /\ seen' = [seen EXCEPT ![r].status = t.status]
              /\ UNCHANGED <<org, member, inv>>
         ELSE Rollback(r)

(* lock_organization, then the permission check and the target's row.  An  *)
(* empty role list stands for a payload without roleIds.                   *)
lock_organization(r) ==
    /\ pc[r] = "u_lock"
    /\ \A s \in Requests : ~Updating(s) /\ ~InsertedMember(s)
    /\ LET t == member[arg[r].user] IN
       IF Manages(arg[r].caller) /\ t.status # "none"
         THEN /\ Goto(r, "u_check")
              /\ seen' = [seen EXCEPT ![r].status = t.status]
              /\ UNCHANGED <<org, member, inv>>
         ELSE Rollback(r)

removes_active_owner(r, current) ==
    LET next_status == IF arg[r].status = "keep" THEN seen[r].status ELSE arg[r].status
        next_roles  == IF arg[r].roles = {} THEN current ELSE arg[r].roles
    IN  /\ seen[r].status = "active" /\ Owner \in current
        /\ ~(next_status = "active" /\ Owner \in next_roles)

(* Mutant: the refusal leaves the transaction and its lock open.           *)
RefusalKeepsLock(r) ==
    /\ pc[r] = "u_check"
    /\ arg[r].roles \subseteq Assignable
    /\ removes_active_owner(r, member[arg[r].user].roles) => Cardinality(ActiveOwners) > 1
    /\ Goto(r, IF arg[r].roles = {} THEN "u_finish" ELSE "u_delete")
    /\ UNCHANGED <<org, member, inv, seen>>

(* The target's roles, the requested roles and the owner count.            *)
check_last_owner(r) ==
    /\ pc[r] = "u_check"
    /\ IF /\ arg[r].roles \subseteq Assignable
          /\ removes_active_owner(r, member[arg[r].user].roles) =>
                Cardinality(ActiveOwners) > 1
         THEN /\ Goto(r, IF arg[r].roles = {} THEN "u_finish" ELSE "u_delete")
              /\ UNCHANGED <<org, member, inv, seen>>
         ELSE Rollback(r)

(* replace_membership_roles: DELETE sees the committed rows, ...           *)
delete_roles(r) ==
    /\ pc[r] = "u_delete"
    /\ Goto(r, "u_insert")
    /\ seen' = [seen EXCEPT ![r].roles = member[arg[r].user].roles]
    /\ UNCHANGED <<org, member, inv>>

(* ... and INSERT waits for uncommitted equal entries and fails on those   *)
(* committed since the DELETE.                                             *)
insert_roles(r) ==
    /\ pc[r] = "u_insert"
    /\ \A s \in Requests : arg[r].roles \cap Inserted(s, arg[r].user) = {}
    /\ IF arg[r].roles \cap (member[arg[r].user].roles \ seen[r].roles) = {}
         THEN Goto(r, "u_finish") /\ UNCHANGED <<org, member, inv, seen>>
         ELSE Rollback(r)

(* The foreign-key check of the new roles and the status update wait for   *)
(* the membership row, then the transaction commits.  The status column is *)
(* written only when it differs from the value read earlier.               *)
commit_update(r) ==
    /\ pc[r] = "u_finish"
    /\ \A s \in Requests : ~HoldsMember(s, arg[r].user)
    /\ LET t == member[arg[r].user]
           status == IF arg[r].status \in {"keep", seen[r].status} THEN t.status ELSE arg[r].status
           roles == IF arg[r].roles = {} THEN t.roles ELSE (t.roles \ seen[r].roles) \cup arg[r].roles
       IN  member' = [member EXCEPT ![arg[r].user] = [status |-> status, roles |-> roles]]
    /\ Finish(r)
    /\ UNCHANGED <<org, inv>>

-----------------------------------------------------------------------------
(* create_invitation                                                       *)

(* Bound: a creation starts only while an invitation row is left for it.   *)
RowLeft == Cardinality({r \in Requests : pc[r] \in {"c_check", "c_insert"}})
             < Cardinality({i \in Invites : inv[i].status = "absent"})

create_invitation(r, caller, email, roles) ==
    /\ RowLeft
    /\ Start(r, "c_check", [NoArg EXCEPT !.caller = caller, !.user = email, !.roles = roles])

check_create(r) ==
    /\ pc[r] = "c_check"
    /\ IF Manages(arg[r].caller) /\ arg[r].roles \subseteq Assignable
         THEN Goto(r, "c_insert") /\ UNCHANGED <<org, member, inv, seen>>
         ELSE Rollback(r)

PendingFor(email) == {i \in Invites : inv[i].status = "pending" /\ inv[i].email = email}

NewInvite(email, roles) == [status |-> "pending", email |-> email, roles |-> roles,
                            expired |-> FALSE, acceptedBy |-> NoUser]

(* The partial unique index on pending invitations makes the INSERT wait   *)
(* for an acceptance of the address's invitation; the tenant foreign key   *)
(* waits for a member update.  An expired invitation is still pending.     *)
insert_invitation(r) ==
    /\ pc[r] = "c_insert"
    /\ \A s \in Requests : /\ ~Updating(s)
                           /\ \A i \in PendingFor(arg[r].user) : ~HoldsInvite(s, i)
    /\ IF PendingFor(arg[r].user) # {}
         THEN Rollback(r)
         ELSE /\ \E i \in Invites :
                    /\ inv[i].status = "absent"
                    /\ inv' = [inv EXCEPT ![i] = NewInvite(arg[r].user, arg[r].roles)]
              /\ Finish(r)
              /\ UNCHANGED <<org, member>>

-----------------------------------------------------------------------------
(* accept_invitation.  The clock is read before the transaction begins.    *)

accept_invitation(r, user, i) ==
    /\ inv[i].status # "absent"
    /\ Start(r, "a_lock", [NoArg EXCEPT !.user = user, !.inv = i, !.expired = inv[i].expired])

is_acceptable(r, i) ==
    /\ inv[i].status = "pending" /\ inv[i].acceptedBy = NoUser
    /\ inv[i].email = arg[r].user
    /\ ~arg[r].expired

lock_invitation(r) ==
    /\ pc[r] = "a_lock"
    /\ \A s \in Requests : ~HoldsInvite(s, arg[r].inv)
    /\ IF is_acceptable(r, arg[r].inv) /\ inv[arg[r].inv].roles \subseteq Assignable
         THEN Goto(r, "a_member") /\ UNCHANGED <<org, member, inv, seen>>
         ELSE Rollback(r)

(* The membership is locked or, when there is none, inserted: the tenant   *)
(* foreign key then waits for a member update.  Only an acceptance by the  *)
(* same user inserts it, and those wait for each other's invitation.       *)
lock_membership(r) ==
    /\ pc[r] = "a_member"
    /\ \A s \in Requests :
          IF member[arg[r].user].status = "none" THEN ~Updating(s) ELSE ~HoldsMember(s, arg[r].user)
    /\ Goto(r, "a_roles")
    /\ seen' = [seen EXCEPT ![r].status = member[arg[r].user].status]
    /\ UNCHANGED <<org, member, inv>>

MissingRoles(r) == inv[arg[r].inv].roles \ member[arg[r].user].roles

(* Existing roles are kept, missing ones inserted.                         *)
add_membership_roles(r) ==
    /\ pc[r] = "a_roles"
    /\ \A s \in Requests : MissingRoles(r) \cap Inserted(s, arg[r].user) = {}
    /\ Goto(r, "a_commit")
    /\ seen' = [seen EXCEPT ![r].roles = MissingRoles(r)]
    /\ UNCHANGED <<org, member, inv>>

(* The membership is inserted as active, or its status written when it was *)
(* read as suspended; the status of an active member is not written.       *)
commit_acceptance(r) ==
    /\ pc[r] = "a_commit"
    /\ member' = [member EXCEPT ![arg[r].user] =
                    [status |-> IF seen[r].status = "active" THEN @.status ELSE "active",
                     roles |-> @.roles \cup seen[r].roles]]
    /\ inv' = [inv EXCEPT ![arg[r].inv].status = "accepted",
                          ![arg[r].inv].acceptedBy = arg[r].user]
    /\ Finish(r)
    /\ UNCHANGED org

(* PostgreSQL aborts one of two transactions that wait for each other: an  *)
(* acceptance for the role entry of an update, the update for the locked   *)
(* membership.                                                             *)
Deadlocked(r, s) ==
    /\ pc[r] = "a_roles" /\ MissingRoles(r) \cap Inserted(s, arg[r].user) # {}
    /\ pc[s] = "u_finish" /\ HoldsMember(r, arg[s].user)

deadlock_detected(r) ==
    /\ \E s \in Requests : Deadlocked(r, s) \/ Deadlocked(s, r)
    /\ Rollback(r)

-----------------------------------------------------------------------------
(* revoke_invitation.  The row is read without a lock; the UPDATE at the   *)
(* end waits for an acceptance that holds it and writes the status column. *)

revoke_invitation(r, caller, i) ==
    /\ inv[i].status # "absent"
    /\ Start(r, "r_read", [NoArg EXCEPT !.caller = caller, !.inv = i, !.expired = inv[i].expired])

read_invitation(r) ==
    /\ pc[r] = "r_read"
    /\ IF Manages(arg[r].caller) /\ inv[arg[r].inv].status = "pending" /\ ~arg[r].expired
         THEN Goto(r, "r_write") /\ UNCHANGED <<org, member, inv, seen>>
         ELSE Rollback(r)

write_revoked(r) ==
    /\ pc[r] = "r_write"
    /\ \A s \in Requests : ~HoldsInvite(s, arg[r].inv)
    /\ inv' = [inv EXCEPT ![arg[r].inv].status = "revoked"]
    /\ Finish(r)
    /\ UNCHANGED <<org, member>>

(* Seven days pass.                                                        *)
Expire(i) ==
    /\ inv[i].status = "pending" /\ ~inv[i].expired
    /\ inv' = [inv EXCEPT ![i].expired = TRUE]
    /\ UNCHANGED <<org, member, pc, arg, seen>>

-----------------------------------------------------------------------------

(* The next statement of a request.                                        *)
Step(r) ==
    \/ lock_organization(r) \/ check_last_owner(r) \/ delete_roles(r)
    \/ insert_roles(r) \/ commit_update(r)
    \/ check_create(r) \/ insert_invitation(r)
    \/ lock_invitation(r) \/ lock_membership(r) \/ add_membership_roles(r)
    \/ commit_acceptance(r) \/ deadlock_detected(r)
    \/ read_invitation(r) \/ write_revoked(r)

Request(r) ==
    \/ \E caller \in Users, target \in Users, u \in Updates : update_member(r, caller, target, u)
    \/ \E caller \in Users, email \in Users, roles \in RoleLists :
          create_invitation(r, caller, email, roles)
    \/ \E user \in Users, i \in Invites : accept_invitation(r, user, i)
    \/ \E caller \in Users, i \in Invites : revoke_invitation(r, caller, i)

Next ==
    \/ \E u \in Users : create_organization(u)
    \/ \E r \in Requests : Request(r) \/ Step(r) \/ Fail(r)
    \/ \E i \in Invites : Expire(i)

(* Each request is served to its end, and PostgreSQL queues the waiters    *)
(* for a row in their order of arrival, so none waits for ever while the   *)
(* row becomes free again and again.                                       *)
Fairness == \A r \in Requests : SF_vars(Step(r))

Spec == Init /\ [][Next]_vars /\ Fairness

-----------------------------------------------------------------------------

(* update_member, "The last active owner cannot be removed": whatever      *)
(* updates and acceptances run side by side, an organisation that exists   *)
(* has an active owner.                                                    *)
HasActiveOwner == org => ActiveOwners # {}

(* update_member checks the caller's permission under the organisation     *)
(* lock, so the caller still manages members when the update commits.      *)
UpdateByManager ==
    [][\A r \in Requests : pc[r] = "u_finish" /\ member' # member /\ pc'[r] = "idle"
                             => Manages(arg[r].caller)]_vars

(* accept_invitation grants membership and roles together with the         *)
(* transition to accepted: the user then is an active member with every    *)
(* invited role, whichever member update ran meanwhile.                    *)
AcceptanceComplete ==
    [][\A i \in Invites : inv'[i].acceptedBy # inv[i].acceptedBy =>
          /\ member'[inv'[i].acceptedBy].status = "active"
          /\ inv[i].roles \subseteq member'[inv'[i].acceptedBy].roles]_vars

(* accept_invitation, "exactly once": an acceptance commits only while its  *)
(* invitation is pending and nobody has accepted it, so neither a second    *)
(* acceptance, of the same user or another, nor one that races with a       *)
(* revocation takes effect.  A revocation may overwrite the status of an    *)
(* accepted invitation, never who accepted it.                              *)
UsedOnce ==
    [][/\ \A r \in Requests : commit_acceptance(r) =>
            inv[arg[r].inv].status = "pending" /\ inv[arg[r].inv].acceptedBy = NoUser
       /\ \A i \in Invites : inv[i].acceptedBy # NoUser =>
            inv'[i].acceptedBy = inv[i].acceptedBy]_vars

ArgsTyped ==
    \A r \in Requests :
       /\ pc[r] \in {"u_lock", "u_check", "u_delete", "u_insert", "u_finish", "c_check", "c_insert"}
            => arg[r].caller \in Users
       /\ pc[r] \notin {"idle", "r_read", "r_write"} => arg[r].user \in Users
       /\ pc[r] \in {"a_lock", "a_member", "a_roles", "a_commit", "r_read", "r_write"}
            => arg[r].inv \in Invites /\ inv[arg[r].inv].status # "absent"
       /\ pc[r] # "idle" => org

OtherOwner(u) == \E v \in ActiveOwners : v # u

(* While an update runs, an owner besides its target is active, or the     *)
(* target is an active owner and stays one.  Before the check it is enough *)
(* that a target read as active still is.                                  *)
OwnerStays(r) ==
    \/ OtherOwner(arg[r].user)
    \/ /\ seen[r].status = "active" /\ member[arg[r].user].status = "active"
       /\ pc[r] = "u_check"
          \/ /\ Owner \in member[arg[r].user].roles
             /\ arg[r].status \in {"keep", "active"}
             /\ arg[r].roles = {} \/ Owner \in arg[r].roles

UpdateInv ==
    /\ \A r, s \in Requests : Updating(r) => (Updating(s) => r = s) /\ ~InsertedMember(s)
    /\ \A r \in Requests : Updating(r) => Manages(arg[r].caller) /\ OwnerStays(r)

AcceptInv ==
    /\ \A i \in Invites : inv[i].status = "absent" => inv[i].acceptedBy = NoUser
    /\ \A r \in Requests, i \in Invites : HoldsInvite(r, i) =>
          /\ inv[i].status = "pending" /\ inv[i].acceptedBy = NoUser
          /\ \A s \in Requests : HoldsInvite(s, i) => r = s
    /\ \A r \in Requests : pc[r] = "a_commit" =>
          inv[arg[r].inv].roles \subseteq member[arg[r].user].roles \cup seen[r].roles
    /\ \A r \in Requests : pc[r] \in {"a_roles", "a_commit"} /\ seen[r].status = "active" =>
          member[arg[r].user].status = "active"

(* The inductive invariant: one update at a time, with an owner to spare   *)
(* and a caller who manages; the invitation of an acceptance stays pending *)
(* and its roles stay present or inserted until it commits, and the member *)
(* it has read as active stays active.                                     *)
MembershipInv == ArgsTyped /\ UpdateInv /\ AcceptInv /\ HasActiveOwner

(* Every request is answered: lock waits end, and a deadlock between an    *)
(* update and an acceptance is broken.                                     *)
EveryRequestAnswered == \A r \in Requests : pc[r] # "idle" ~> pc[r] = "idle"

=============================================================================
