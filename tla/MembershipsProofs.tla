-------------------------- MODULE MembershipsProofs --------------------------
(***************************************************************************)
(* Proofs about Memberships for every set of users, roles, invitations and *)
(* concurrent requests.  The theorems are at the end; IInv, the inductive  *)
(* invariant, is TypeOK with MembershipInv.                                *)
(***************************************************************************)
EXTENDS Memberships, FiniteSetTheorems, TLAPS

IInv == TypeOK /\ MembershipInv

(* A request's own step never looks at another request's arguments: only   *)
(* its pc, arg and seen entries change.                                    *)
Only(r) == \A s \in Requests : s # r => /\ pc'[s] = pc[s] /\ arg'[s] = arg[s]
                                        /\ seen'[s] = seen[s]

(* Two owners at least: one besides any given user.                        *)
LEMMA SecondOwner ==
    ASSUME Cardinality(ActiveOwners) > 1, NEW u
    PROVE  OtherOwner(u)
<1>1. IsFiniteSet(ActiveOwners)
  BY MembershipAssumption, FS_Subset DEF ActiveOwners
<1>2. SUFFICES ASSUME ActiveOwners \subseteq {u} PROVE FALSE
  BY DEF OtherOwner
<1>3. IsFiniteSet({u}) /\ Cardinality({u}) = 1
  BY FS_Singleton
<1>4. Cardinality(ActiveOwners) \in Nat /\ Cardinality(ActiveOwners) <= 1
  BY <1>1, <1>2, <1>3, FS_Subset, FS_CardinalityType
<1> QED
  BY <1>4

(* What the two-way steps do when they do not roll back.                   *)
LEMMA Locked ==
    ASSUME NEW r \in Requests, lock_organization(r), ~Rollback(r)
    PROVE  /\ pc[r] = "u_lock" /\ Goto(r, "u_check")
           /\ \A s \in Requests : ~Updating(s) /\ ~InsertedMember(s)
           /\ Manages(arg[r].caller)
           /\ seen' = [seen EXCEPT ![r].status = member[arg[r].user].status]
           /\ UNCHANGED <<org, member, inv>>
BY DEF lock_organization

LEMMA Created ==
    ASSUME NEW r \in Requests, insert_invitation(r), ~Rollback(r)
    PROVE  /\ pc[r] = "c_insert" /\ Finish(r) /\ UNCHANGED <<org, member>>
           /\ \E i \in Invites :
                /\ inv[i].status = "absent"
                /\ inv' = [inv EXCEPT ![i] = NewInvite(arg[r].user, arg[r].roles)]
BY DEF insert_invitation

-----------------------------------------------------------------------------
(* Type correctness, one variable at a time.                               *)

LEMMA StartType ==
    ASSUME TypeOK, ArgsTyped, NEW r \in Requests, Request(r)
    PROVE  TypeOK'
<1>1. PICK step \in Steps, a \in Args : Start(r, step, a)
  <2>1. CASE \E caller \in Users, target \in Users, u \in Updates : update_member(r, caller, target, u)
    BY <2>1, MembershipAssumption, Zenon DEF update_member, Steps, Args, NoArg
  <2>2. CASE \E caller \in Users, email \in Users, roles \in RoleLists :
                create_invitation(r, caller, email, roles)
    BY <2>2, MembershipAssumption, Zenon DEF create_invitation, Steps, Args, NoArg
  <2>3. CASE \E user \in Users, i \in Invites : accept_invitation(r, user, i)
    BY <2>3, Zenon DEF accept_invitation, Steps, Args, NoArg, TypeOK, Invite
  <2>4. CASE \E caller \in Users, i \in Invites : revoke_invitation(r, caller, i)
    BY <2>4, Zenon DEF revoke_invitation, Steps, Args, NoArg, TypeOK, Invite
  <2> QED
    BY <2>1, <2>2, <2>3, <2>4 DEF Request
<1> QED
  BY <1>1 DEF Start, TypeOK

LEMMA FinishType ==
    ASSUME TypeOK, NEW r \in Requests, Finish(r)
    PROVE  pc' \in [Requests -> Steps] /\ arg' \in [Requests -> Args] /\ seen' \in [Requests -> Seen]
<1>1. NoArg \in Args /\ NoSeen \in Seen
  BY DEF NoArg, NoSeen, Args, Seen
<1> QED
  BY <1>1 DEF Finish, TypeOK, Steps

LEMMA RollbackType ==
    ASSUME TypeOK, NEW r \in Requests, Rollback(r)
    PROVE  TypeOK'
BY FinishType DEF Rollback, TypeOK

LEMMA StepType ==
    ASSUME TypeOK, ArgsTyped, NEW r \in Requests, Step(r)
    PROVE  TypeOK'
<1>1. CASE Rollback(r)
  BY <1>1, RollbackType
<1>2. CASE lock_organization(r) /\ ~Rollback(r)
  <2>1. arg[r].user \in Users
    BY <1>2 DEF lock_organization, ArgsTyped
  <2>2. /\ Goto(r, "u_check") /\ UNCHANGED <<org, member, inv>>
        /\ seen' = [seen EXCEPT ![r].status = member[arg[r].user].status]
    BY <1>2, Locked
  <2> QED
    BY <2>1, <2>2 DEF Goto, TypeOK, Member, Seen, Steps
<1>3. CASE check_last_owner(r) /\ ~Rollback(r)
  BY <1>3 DEF check_last_owner, Goto, TypeOK, Steps
<1>4. CASE delete_roles(r)
  <2>1. arg[r].user \in Users
    BY <1>4 DEF delete_roles, ArgsTyped
  <2> QED
    BY <1>4, <2>1 DEF delete_roles, Goto, TypeOK, Member, Seen, Steps
<1>5. CASE insert_roles(r) /\ ~Rollback(r)
  BY <1>5 DEF insert_roles, Goto, TypeOK, Steps
<1>6. CASE commit_update(r)
  <2>1. arg[r].user \in Users /\ arg[r] \in Args /\ seen[r] \in Seen /\ member[arg[r].user] \in Member
    BY <1>6 DEF commit_update, ArgsTyped, TypeOK
  <2>2. member' \in [Users -> Member]
    BY <1>6, <2>1 DEF commit_update, TypeOK, Member, Args, Seen
  <2> QED
    BY <1>6, <2>2, FinishType DEF commit_update, TypeOK
<1>7. CASE check_create(r) /\ ~Rollback(r)
  BY <1>7 DEF check_create, Goto, TypeOK, Steps
<1>8. CASE insert_invitation(r) /\ ~Rollback(r)
  <2>1. arg[r].user \in Users /\ arg[r].roles \in SUBSET Roles
    BY <1>8 DEF insert_invitation, ArgsTyped, TypeOK, Args
  <2>2. PICK i \in Invites :
              inv' = [inv EXCEPT ![i] = NewInvite(arg[r].user, arg[r].roles)]
    BY <1>8, Created
  <2>3. inv' \in [Invites -> Invite]
    BY <2>1, <2>2 DEF TypeOK, Invite, NewInvite
  <2> QED
    BY <1>8, <2>3, Created, FinishType DEF TypeOK
<1>9. CASE lock_invitation(r) /\ ~Rollback(r)
  BY <1>9 DEF lock_invitation, Goto, TypeOK, Steps
<1>10. CASE lock_membership(r)
  <2>1. arg[r].user \in Users
    BY <1>10 DEF lock_membership, ArgsTyped
  <2> QED
    BY <1>10, <2>1 DEF lock_membership, Goto, TypeOK, Member, Seen, Steps
<1>11. CASE add_membership_roles(r)
  <2>1. arg[r].user \in Users /\ arg[r].inv \in Invites
    BY <1>11 DEF add_membership_roles, ArgsTyped
  <2>2. MissingRoles(r) \in SUBSET Roles
    BY <2>1 DEF MissingRoles, TypeOK, Invite
  <2> QED
    BY <1>11, <2>2 DEF add_membership_roles, Goto, TypeOK, Seen, Steps
<1>12. CASE commit_acceptance(r)
  <2>1. arg[r].user \in Users /\ arg[r].inv \in Invites /\ seen[r].roles \in SUBSET Roles
    BY <1>12 DEF commit_acceptance, ArgsTyped, TypeOK, Seen
  <2>2. member' \in [Users -> Member]
    <3>1. [status |-> IF seen[r].status = "active" THEN member[arg[r].user].status ELSE "active",
           roles |-> member[arg[r].user].roles \cup seen[r].roles] \in Member
      BY <2>1 DEF TypeOK, Member
    <3> QED
      BY <1>12, <3>1, Zenon DEF commit_acceptance, TypeOK
  <2>3. inv' \in [Invites -> Invite]
    <3>1. PICK i \in Invites : i = arg[r].inv
      BY <2>1
    <3>2. inv' = [[inv EXCEPT ![i].status = "accepted"] EXCEPT ![i].acceptedBy = arg[r].user]
      BY <1>12, <3>1 DEF commit_acceptance
    <3>3. PICK f \in [Invites -> Invite] : f = [inv EXCEPT ![i].status = "accepted"]
      <4>1. [inv[i] EXCEPT !.status = "accepted"] \in Invite
        BY DEF TypeOK, Invite
      <4> QED
        BY <4>1, Zenon DEF TypeOK
    <3>4. [f[i] EXCEPT !.acceptedBy = arg[r].user] \in Invite
      BY <2>1 DEF Invite
    <3> QED
      BY <3>2, <3>3, <3>4
  <2> QED
    BY <1>12, <2>2, <2>3, FinishType DEF commit_acceptance, TypeOK
<1>13. CASE deadlock_detected(r)
  BY <1>13, RollbackType DEF deadlock_detected
<1>14. CASE read_invitation(r) /\ ~Rollback(r)
  BY <1>14 DEF read_invitation, Goto, TypeOK, Steps
<1>15. CASE write_revoked(r)
  <2>1. inv \in [Invites -> Invite]
    BY DEF TypeOK
  <2>2. ASSUME NEW i \in Invites PROVE [inv[i] EXCEPT !.status = "revoked"] \in Invite
    BY <2>1 DEF Invite
  <2>3. inv' = [inv EXCEPT ![arg[r].inv] = [inv[arg[r].inv] EXCEPT !.status = "revoked"]]
    BY <1>15 DEF write_revoked
  <2>4. inv' \in [Invites -> Invite]
    BY <2>1, <2>2, <2>3, Zenon
  <2> QED
    BY <1>15, <2>4, FinishType DEF write_revoked, TypeOK
<1> QED
  BY <1>1, <1>2, <1>3, <1>4, <1>5, <1>6, <1>7, <1>8, <1>9, <1>10, <1>11, <1>12, <1>13,
     <1>14, <1>15 DEF Step

-----------------------------------------------------------------------------
(* How far a request's step reaches.                                       *)

LEMMA FinishLocal ==
    ASSUME TypeOK, NEW r \in Requests, Finish(r)
    PROVE  Only(r) /\ pc'[r] = "idle"
BY DEF Finish, Only, TypeOK

LEMMA GotoLocal ==
    ASSUME TypeOK, NEW r \in Requests, NEW step, Goto(r, step),
           \A s \in Requests : s # r => seen'[s] = seen[s]
    PROVE  Only(r) /\ pc'[r] = step /\ arg'[r] = arg[r]
BY DEF Goto, Only, TypeOK

(* What one statement does to the request that executes it.                *)
OwnMove(r) ==
    \/ pc'[r] = "idle"
    \/ /\ arg'[r] = arg[r]
       /\ <<pc[r], pc'[r]>> \in
            {<<"u_lock", "u_check">>, <<"u_check", "u_delete">>, <<"u_check", "u_finish">>,
             <<"u_delete", "u_insert">>, <<"u_insert", "u_finish">>, <<"c_check", "c_insert">>,
             <<"a_lock", "a_member">>, <<"a_member", "a_roles">>, <<"a_roles", "a_commit">>,
             <<"r_read", "r_write">>}

LEMMA StepLocal ==
    ASSUME TypeOK, NEW r \in Requests, Step(r)
    PROVE  Only(r) /\ OwnMove(r) /\ org' = org
<1>1. CASE Rollback(r)
  BY <1>1, FinishLocal DEF Rollback, OwnMove
<1>2. CASE lock_organization(r) /\ ~Rollback(r)
  <2>1. /\ pc[r] = "u_lock" /\ Goto(r, "u_check") /\ org' = org
        /\ seen' = [seen EXCEPT ![r].status = member[arg[r].user].status]
    BY <1>2, Locked
  <2> QED
    BY <2>1, GotoLocal DEF OwnMove, TypeOK
<1>3. CASE check_last_owner(r) /\ ~Rollback(r)
  <2>1. /\ pc[r] = "u_check" /\ UNCHANGED <<org, seen>>
        /\ Goto(r, "u_finish") \/ Goto(r, "u_delete")
    BY <1>3 DEF check_last_owner
  <2> QED
    BY <2>1, GotoLocal DEF OwnMove
<1>4. CASE delete_roles(r)
  <2>1. seen' = [seen EXCEPT ![r].roles = member[arg[r].user].roles]
    BY <1>4 DEF delete_roles
  <2>2. \A s \in Requests : s # r => seen'[s] = seen[s]
    BY <2>1 DEF TypeOK
  <2> QED
    BY <1>4, <2>2, GotoLocal DEF delete_roles, OwnMove
<1>5. CASE insert_roles(r) /\ ~Rollback(r)
  BY <1>5, GotoLocal DEF insert_roles, OwnMove
<1>6. CASE commit_update(r)
  BY <1>6, FinishLocal DEF commit_update, OwnMove
<1>7. CASE check_create(r) /\ ~Rollback(r)
  BY <1>7, GotoLocal DEF check_create, OwnMove
<1>8. CASE insert_invitation(r) /\ ~Rollback(r)
  BY <1>8, Created, FinishLocal DEF OwnMove
<1>9. CASE lock_invitation(r) /\ ~Rollback(r)
  BY <1>9, GotoLocal DEF lock_invitation, OwnMove
<1>10. CASE lock_membership(r)
  <2>1. \A s \in Requests : s # r => seen'[s] = seen[s]
    BY <1>10 DEF lock_membership, TypeOK
  <2> QED
    BY <1>10, <2>1, GotoLocal DEF lock_membership, OwnMove
<1>11. CASE add_membership_roles(r)
  <2>1. \A s \in Requests : s # r => seen'[s] = seen[s]
    BY <1>11 DEF add_membership_roles, TypeOK
  <2> QED
    BY <1>11, <2>1, GotoLocal DEF add_membership_roles, OwnMove
<1>12. CASE commit_acceptance(r)
  BY <1>12, FinishLocal DEF commit_acceptance, OwnMove
<1>13. CASE deadlock_detected(r)
  BY <1>13, FinishLocal DEF deadlock_detected, Rollback, OwnMove
<1>14. CASE read_invitation(r) /\ ~Rollback(r)
  BY <1>14, GotoLocal DEF read_invitation, OwnMove
<1>15. CASE write_revoked(r)
  BY <1>15, FinishLocal DEF write_revoked, OwnMove
<1> QED
  BY <1>1, <1>2, <1>3, <1>4, <1>5, <1>6, <1>7, <1>8, <1>9, <1>10, <1>11, <1>12, <1>13,
     <1>14, <1>15 DEF Step

(* Invitations: a row that exists keeps existing, with its roles.          *)
RowsKept == \A i \in Invites :
                /\ inv[i].status # "absent" =>
                     inv'[i].status # "absent" /\ inv'[i].roles = inv[i].roles
                /\ inv'[i].status = "absent" => inv'[i] = inv[i]

LEMMA StepKeepsRows ==
    ASSUME TypeOK, ArgsTyped, NEW r \in Requests, Step(r)
    PROVE  RowsKept
<1>1. CASE inv' = inv
  BY <1>1 DEF RowsKept
<1>2. CASE insert_invitation(r) /\ ~Rollback(r)
  BY <1>2, Created DEF RowsKept, TypeOK, NewInvite
<1>3. CASE commit_acceptance(r)
  BY <1>3 DEF commit_acceptance, RowsKept, TypeOK, Invite
<1>4. CASE write_revoked(r)
  BY <1>4 DEF write_revoked, RowsKept, TypeOK, Invite
<1> QED
  BY <1>1, <1>2, <1>3, <1>4, Locked, Zenon
     DEF Step, Rollback, check_last_owner, delete_roles, insert_roles, commit_update,
         check_create, insert_invitation, lock_invitation, lock_membership, add_membership_roles,
         deadlock_detected, read_invitation

LEMMA StepArgs ==
    ASSUME TypeOK, ArgsTyped, NEW r \in Requests, Step(r)
    PROVE  ArgsTyped'
<1>1. Only(r) /\ OwnMove(r) /\ org' = org /\ RowsKept
  BY StepLocal, StepKeepsRows
<1> SUFFICES ASSUME NEW s \in Requests
             PROVE  /\ pc'[s] \in {"u_lock", "u_check", "u_delete", "u_insert", "u_finish",
                                   "c_check", "c_insert"} => arg'[s].caller \in Users
                    /\ pc'[s] \notin {"idle", "r_read", "r_write"} => arg'[s].user \in Users
                    /\ pc'[s] \in {"a_lock", "a_member", "a_roles", "a_commit", "r_read", "r_write"}
                         => arg'[s].inv \in Invites /\ inv'[arg'[s].inv].status # "absent"
                    /\ pc'[s] # "idle" => org'
  BY DEF ArgsTyped
<1>2. CASE s # r
  BY <1>1, <1>2 DEF Only, ArgsTyped, RowsKept
<1>3. CASE s = r
  BY <1>1, <1>3 DEF OwnMove, ArgsTyped, RowsKept
<1> QED
  BY <1>2, <1>3

-----------------------------------------------------------------------------
(* Only the commit of an update takes a role or an active status away.     *)

Grows == \A u \in Users : /\ member[u].status = "active" => member'[u].status = "active"
                         /\ member[u].roles \subseteq member'[u].roles

LEMMA StepGrows ==
    ASSUME TypeOK, NEW r \in Requests, Step(r), ~commit_update(r)
    PROVE  Grows
<1>1. CASE member' = member
  BY <1>1 DEF Grows
<1>2. CASE commit_acceptance(r)
  BY <1>2 DEF commit_acceptance, Grows, TypeOK, Member
<1> QED
  BY <1>1, <1>2, Locked, Created, Zenon
     DEF Step, Rollback, check_last_owner, delete_roles, insert_roles,
         check_create, lock_invitation, lock_membership, add_membership_roles,
         deadlock_detected, read_invitation, write_revoked

LEMMA GrowsOwners ==
    ASSUME TypeOK, Grows
    PROVE  /\ ActiveOwners \subseteq ActiveOwners'
           /\ \A u \in Users : Manages(u) => Manages(u)'
BY DEF Grows, ActiveOwners, Manages

LEMMA GrowsStays ==
    ASSUME TypeOK, Grows, NEW s \in Requests, arg[s].user \in Users, OwnerStays(s),
           pc'[s] = pc[s], arg'[s] = arg[s], seen'[s] = seen[s]
    PROVE  OwnerStays(s)'
<1>1. OtherOwner(arg[s].user) => OtherOwner(arg[s].user)'
  BY GrowsOwners DEF OtherOwner
<1> QED
  BY <1>1 DEF OwnerStays, Grows

(* Requests other than updates leave the running update alone.             *)
LEMMA UpdateInvOthers ==
    ASSUME TypeOK, ArgsTyped, UpdateInv, Grows, NEW r \in Requests, Only(r), ~Updating(r)',
           InsertedMember(r)' => InsertedMember(r) \/ \A s \in Requests : ~Updating(s)
    PROVE  UpdateInv'
<1>1. \A s \in Requests : Updating(s)' => Updating(s) /\ s # r
  BY DEF Updating, Only
<1>2. \A s \in Requests : s # r /\ InsertedMember(s)' => InsertedMember(s)
  BY DEF InsertedMember, Only
<1>3. ASSUME NEW s \in Requests, Updating(s)'
      PROVE  Manages(arg[s].caller)' /\ OwnerStays(s)'
  <2>1. /\ s # r /\ pc'[s] = pc[s] /\ arg'[s] = arg[s] /\ seen'[s] = seen[s]
        /\ Manages(arg[s].caller) /\ OwnerStays(s)
        /\ arg[s].caller \in Users /\ arg[s].user \in Users
    BY <1>1, <1>3 DEF UpdateInv, Only, ArgsTyped, Updating
  <2>2. OwnerStays(s)'
    BY <2>1, GrowsStays
  <2>3. Manages(arg[s].caller)'
    BY <2>1, Zenon DEF Manages, Grows
  <2> QED
    BY <2>2, <2>3
<1> QED
  BY <1>1, <1>2, <1>3 DEF UpdateInv

(* The first statements of an update: with the row locked no other update  *)
(* runs, and the reads justify OwnerStays.                                 *)
LEMMA LockStays ==
    ASSUME IInv, NEW r \in Requests, lock_organization(r), ~Rollback(r)
    PROVE  UpdateInv'
<1>1. /\ pc[r] = "u_lock" /\ Goto(r, "u_check") /\ Manages(arg[r].caller)
      /\ \A s \in Requests : ~Updating(s) /\ ~InsertedMember(s)
      /\ seen' = [seen EXCEPT ![r].status = member[arg[r].user].status]
      /\ UNCHANGED <<org, member, inv>>
  BY Locked
<1>2. /\ Only(r) /\ pc'[r] = "u_check" /\ arg'[r] = arg[r]
      /\ seen'[r].status = member[arg[r].user].status
  BY <1>1, GotoLocal DEF IInv, TypeOK, Seen
<1>3. \A s \in Requests : (Updating(s)' => s = r) /\ ~InsertedMember(s)'
  BY <1>1, <1>2 DEF Only, Updating, InsertedMember
<1>4. Manages(arg[r].caller)'
  BY <1>1, <1>2 DEF Manages
<1>5. OwnerStays(r)'
  <2>1. org /\ arg[r].user \in Users /\ ActiveOwners # {}
    BY <1>1 DEF IInv, MembershipInv, ArgsTyped, HasActiveOwner
  <2>2. CASE member[arg[r].user].status = "active"
    BY <1>1, <1>2, <2>2 DEF OwnerStays
  <2>3. CASE member[arg[r].user].status # "active"
    <3>1. OtherOwner(arg[r].user)
      BY <2>1, <2>3 DEF OtherOwner, ActiveOwners
    <3> QED
      BY <1>1, <1>2, <3>1 DEF OwnerStays, OtherOwner, ActiveOwners
  <2> QED
    BY <2>2, <2>3
<1> QED
  BY <1>3, <1>4, <1>5 DEF UpdateInv

LEMMA CheckStays ==
    ASSUME IInv, NEW r \in Requests, check_last_owner(r), ~Rollback(r)
    PROVE  OwnerStays(r)'
<1>1. /\ pc[r] = "u_check" /\ UNCHANGED <<org, member, inv, seen, arg>>
      /\ removes_active_owner(r, member[arg[r].user].roles) => Cardinality(ActiveOwners) > 1
  BY DEF check_last_owner, Goto
<1>2. OwnerStays(r) /\ HasActiveOwner /\ org /\ arg[r].user \in Users
  BY <1>1 DEF IInv, MembershipInv, UpdateInv, Updating, ArgsTyped
<1>3. CASE OtherOwner(arg[r].user)
  BY <1>1, <1>3 DEF OwnerStays, OtherOwner, ActiveOwners
<1>4. CASE ~OtherOwner(arg[r].user)
  <2>1. seen[r].status = "active" /\ member[arg[r].user].status = "active"
    BY <1>2, <1>4 DEF OwnerStays
  <2>2. Owner \in member[arg[r].user].roles
    BY <1>2, <1>4 DEF HasActiveOwner, OtherOwner, ActiveOwners
  <2>3. ~removes_active_owner(r, member[arg[r].user].roles)
    BY <1>1, <1>4, SecondOwner
  <2>4. arg[r].status \in {"keep", "active"} /\ (arg[r].roles = {} \/ Owner \in arg[r].roles)
    BY <2>1, <2>2, <2>3 DEF removes_active_owner, IInv, TypeOK, Args
  <2> QED
    BY <1>1, <2>1, <2>2, <2>4 DEF OwnerStays
<1> QED
  BY <1>3, <1>4

LEMMA StepUpdateInv ==
    ASSUME IInv, NEW r \in Requests, Step(r)
    PROVE  UpdateInv'
<1>1. TypeOK /\ ArgsTyped /\ UpdateInv /\ Only(r) /\ OwnMove(r)
  BY StepLocal DEF IInv, MembershipInv
<1>2. CASE lock_organization(r) /\ ~Rollback(r)
  BY <1>2, LockStays
<1>3. CASE /\ check_last_owner(r) \/ delete_roles(r) \/ insert_roles(r)
           /\ ~Rollback(r)
  <2>1. Updating(r) /\ Updating(r)' /\ UNCHANGED <<member, arg>> /\ seen'[r].status = seen[r].status
    BY <1>1, <1>3 DEF check_last_owner, delete_roles, insert_roles, Goto, Updating, TypeOK, Seen
  <2>2. \A s \in Requests : (Updating(s)' => s = r) /\ ~InsertedMember(s)'
    BY <1>1, <2>1 DEF UpdateInv, Only, Updating, InsertedMember
  <2>3. Manages(arg[r].caller)'
    BY <1>1, <2>1 DEF UpdateInv, Manages
  <2>4. OwnerStays(r)'
    <3>1. CASE check_last_owner(r)
      BY <1>3, <3>1, CheckStays
    <3>2. CASE pc[r] # "u_check"
      <4>1. OwnerStays(r)
        BY <1>1, <2>1 DEF UpdateInv
      <4> QED
        BY <2>1, <3>2, <4>1, Zenon DEF OwnerStays, OtherOwner, ActiveOwners
    <3> QED
      BY <1>3, <3>1, <3>2 DEF delete_roles, insert_roles
  <2> QED
    BY <2>2, <2>3, <2>4 DEF UpdateInv
<1>4. CASE commit_update(r)
  <2>1. Updating(r) /\ pc'[r] = "idle"
    BY <1>1, <1>4, FinishLocal DEF commit_update, Updating
  <2>2. \A s \in Requests : ~Updating(s)'
    BY <1>1, <2>1 DEF UpdateInv, Updating, Only
  <2> QED
    BY <2>2 DEF UpdateInv
<1>5. CASE /\ ~commit_update(r) /\ (Rollback(r) \/ ~(\/ lock_organization(r) \/ check_last_owner(r)
                                                    \/ delete_roles(r) \/ insert_roles(r)))
  <2>1. Grows
    BY <1>1, <1>5, StepGrows
  <2>2. /\ ~Updating(r)'
        /\ InsertedMember(r)' => InsertedMember(r) \/ \A s \in Requests : ~Updating(s)
    <3>1. CASE Rollback(r)
      BY <1>1, <3>1, FinishLocal DEF Rollback, Updating, InsertedMember
    <3>2. CASE lock_membership(r)
      <4>1. /\ pc'[r] = "a_roles" /\ seen'[r].status = member[arg[r].user].status
            /\ member[arg[r].user].status = "none" => \A s \in Requests : ~Updating(s)
        BY <1>1, <3>2 DEF lock_membership, Goto, TypeOK, Seen
      <4> QED
        BY <4>1 DEF Updating, InsertedMember
    <3>3. CASE add_membership_roles(r)
      <4>1. pc[r] = "a_roles" /\ pc'[r] = "a_commit" /\ seen'[r].status = seen[r].status
        BY <1>1, <3>3 DEF add_membership_roles, Goto, TypeOK, Seen
      <4> QED
        BY <4>1 DEF Updating, InsertedMember
    <3>4. CASE pc'[r] \in {"idle", "c_insert", "a_member", "r_write"}
      BY <3>4 DEF Updating, InsertedMember
    <3> QED
      BY <1>1, <1>5, <3>1, <3>2, <3>3, <3>4, FinishLocal, Created
         DEF Step, check_create, lock_invitation, commit_acceptance, deadlock_detected,
             read_invitation, write_revoked, Goto, TypeOK
  <2> QED
    BY <1>1, <2>1, <2>2, UpdateInvOthers
<1> QED
  BY <1>2, <1>3, <1>4, <1>5

LEMMA StepOwner ==
    ASSUME IInv, NEW r \in Requests, Step(r)
    PROVE  HasActiveOwner'
<1>1. TypeOK /\ ArgsTyped /\ UpdateInv /\ HasActiveOwner /\ org' = org
  BY StepLocal DEF IInv, MembershipInv
<1>2. CASE ~commit_update(r)
  BY <1>1, <1>2, StepGrows, GrowsOwners DEF HasActiveOwner
<1>3. CASE commit_update(r)
  <2>1. /\ pc[r] = "u_finish" /\ arg[r].user \in Users /\ OwnerStays(r)
    BY <1>1, <1>3 DEF commit_update, UpdateInv, Updating, ArgsTyped
  <2>2. /\ \A v \in Users : v # arg[r].user => member'[v] = member[v]
        /\ member'[arg[r].user].status =
              IF arg[r].status \in {"keep", seen[r].status} THEN member[arg[r].user].status
              ELSE arg[r].status
        /\ member'[arg[r].user].roles =
              IF arg[r].roles = {} THEN member[arg[r].user].roles
              ELSE (member[arg[r].user].roles \ seen[r].roles) \cup arg[r].roles
    BY <1>1, <1>3, <2>1, Zenon DEF commit_update, TypeOK
  <2>3. CASE OtherOwner(arg[r].user)
    BY <2>2, <2>3 DEF OtherOwner, ActiveOwners, HasActiveOwner
  <2>4. CASE ~OtherOwner(arg[r].user)
    <3>1. arg[r].user \in ActiveOwners'
      BY <2>1, <2>2, <2>4, Zenon DEF OwnerStays, ActiveOwners
    <3> QED
      BY <3>1 DEF HasActiveOwner
  <2> QED
    BY <2>3, <2>4
<1> QED
  BY <1>2, <1>3

-----------------------------------------------------------------------------
(* A held invitation stays pending, and the invited roles stay present.    *)

LEMMA StepHeld ==
    ASSUME IInv, NEW r \in Requests, Step(r), NEW s \in Requests, NEW i \in Invites,
           HoldsInvite(s, i)'
    PROVE  /\ inv'[i].status = "pending" /\ inv'[i].acceptedBy = NoUser
           /\ \A t \in Requests : HoldsInvite(t, i)' => s = t
<1>1. TypeOK /\ ArgsTyped /\ AcceptInv /\ Only(r) /\ OwnMove(r)
  BY StepLocal DEF IInv, MembershipInv
<1>2. CASE lock_invitation(r) /\ ~Rollback(r)
  <2>1. /\ UNCHANGED <<inv, arg>> /\ pc'[r] = "a_member"
        /\ inv[arg[r].inv].status = "pending" /\ inv[arg[r].inv].acceptedBy = NoUser
        /\ \A t \in Requests : ~HoldsInvite(t, arg[r].inv)
    BY <1>1, <1>2, Zenon DEF lock_invitation, is_acceptable, Goto, TypeOK
  <2>2. \A t \in Requests : t # r => (HoldsInvite(t, i)' <=> HoldsInvite(t, i))
    BY <1>1 DEF Only, HoldsInvite
  <2>3. HoldsInvite(r, i)' => i = arg[r].inv
    BY <2>1 DEF HoldsInvite
  <2> QED
    BY <1>1, <2>1, <2>2, <2>3 DEF AcceptInv
<1>3. CASE ~lock_invitation(r) \/ Rollback(r)
  <2>1. \A t \in Requests : HoldsInvite(t, i)' => HoldsInvite(t, i)
    <3>1. ~(pc[r] = "a_lock" /\ pc'[r] = "a_member")
      <4>1. CASE Rollback(r)
        BY <1>1, <4>1, FinishLocal DEF Rollback
      <4>2. CASE ~lock_invitation(r) /\ ~Rollback(r)
        BY <4>2, Locked, Created, Zenon
           DEF Step, check_last_owner, delete_roles, insert_roles, commit_update,
               check_create, lock_membership, add_membership_roles,
               commit_acceptance, deadlock_detected, read_invitation, write_revoked
      <4> QED
        BY <1>3, <4>1, <4>2
    <3> QED
      BY <1>1, <3>1 DEF Only, OwnMove, HoldsInvite
  <2>2. HoldsInvite(s, i) /\ inv[i].status = "pending" /\ inv[i].acceptedBy = NoUser
    BY <1>1, <2>1 DEF AcceptInv
  <2>3. \A t \in Requests : HoldsInvite(t, i)' => s = t
    BY <1>1, <2>1, <2>2 DEF AcceptInv
  <2>4. inv'[i].status = "pending" /\ inv'[i].acceptedBy = NoUser
    <3>1. CASE inv' = inv
      BY <2>2, <3>1
    <3>2. CASE insert_invitation(r) /\ ~Rollback(r)
      BY <1>1, <2>2, <3>2, Created DEF TypeOK
    <3>3. CASE commit_acceptance(r)
      <4>1. HoldsInvite(r, arg[r].inv) /\ pc'[r] = "idle"
        BY <1>1, <3>3, FinishLocal DEF commit_acceptance, HoldsInvite
      <4>2. arg[r].inv # i
        BY <1>1, <2>2, <4>1 DEF AcceptInv, HoldsInvite
      <4> QED
        BY <1>1, <2>2, <3>3, <4>2 DEF commit_acceptance, TypeOK
    <3>4. CASE write_revoked(r)
      <4>1. arg[r].inv # i
        BY <2>2, <3>4 DEF write_revoked
      <4> QED
        BY <1>1, <2>2, <3>4, <4>1 DEF write_revoked, TypeOK
    <3> QED
      BY <3>1, <3>2, <3>3, <3>4, Locked, Zenon
         DEF Step, Rollback, check_last_owner, delete_roles, insert_roles, commit_update,
             check_create, insert_invitation, lock_invitation, lock_membership,
             add_membership_roles, deadlock_detected, read_invitation
  <2> QED
    BY <2>3, <2>4
<1> QED
  BY <1>2, <1>3

(* A membership that another acceptance has locked, or inserted, loses     *)
(* neither its active status nor a role.                                   *)
LEMMA HeldMember ==
    ASSUME IInv, NEW r \in Requests, Step(r), NEW s \in Requests, s # r,
           pc[s] \in {"a_roles", "a_commit"}
    PROVE  LET u == arg[s].user IN
           /\ member[u].status = "active" => member'[u].status = "active"
           /\ member[u].roles \subseteq member'[u].roles
<1>1. TypeOK /\ ArgsTyped /\ UpdateInv /\ arg[s].user \in Users
  BY DEF IInv, MembershipInv, ArgsTyped
<1>2. CASE commit_update(r)
  <2>1. ~HoldsMember(s, arg[r].user) /\ ~InsertedMember(s) /\ arg[r].user \in Users
    BY <1>1, <1>2 DEF commit_update, UpdateInv, Updating, ArgsTyped
  <2>2. arg[s].user # arg[r].user
    BY <2>1 DEF HoldsMember, InsertedMember
  <2> QED
    BY <1>1, <1>2, <2>1, <2>2 DEF commit_update, TypeOK
<1>3. CASE ~commit_update(r)
  BY <1>1, <1>3, StepGrows, Zenon DEF Grows
<1> QED
  BY <1>2, <1>3

LEMMA StepComplete ==
    ASSUME IInv, NEW r \in Requests, Step(r), NEW s \in Requests, pc'[s] = "a_commit"
    PROVE  inv'[arg'[s].inv].roles \subseteq member'[arg'[s].user].roles \cup seen'[s].roles
<1>1. TypeOK /\ ArgsTyped /\ AcceptInv /\ UpdateInv /\ Only(r) /\ OwnMove(r) /\ RowsKept
  BY StepLocal, StepKeepsRows DEF IInv, MembershipInv
<1>2. CASE s = r
  <2>1. pc[r] = "a_roles" /\ arg'[r] = arg[r]
    BY <1>1, <1>2 DEF OwnMove
  <2>2. add_membership_roles(r)
    <3>1. ~Rollback(r)
      BY <1>1, <1>2, FinishLocal DEF Rollback
    <3> QED
      BY <2>1, <3>1
         DEF Step, lock_organization, check_last_owner, delete_roles, insert_roles, commit_update,
             check_create, insert_invitation, lock_invitation, lock_membership,
             commit_acceptance, deadlock_detected, read_invitation, write_revoked
  <2>3. seen'[r].roles = MissingRoles(r) /\ UNCHANGED <<member, inv>>
    BY <1>1, <2>2 DEF add_membership_roles, TypeOK, Seen
  <2> QED
    BY <1>2, <2>1, <2>3 DEF MissingRoles
<1>3. CASE s # r
  <2>1. /\ pc[s] = "a_commit" /\ arg'[s] = arg[s] /\ seen'[s] = seen[s]
        /\ arg[s].inv \in Invites /\ arg[s].user \in Users
        /\ inv[arg[s].inv].status # "absent"
        /\ inv[arg[s].inv].roles \subseteq member[arg[s].user].roles \cup seen[s].roles
    BY <1>1, <1>3, Zenon DEF Only, ArgsTyped, AcceptInv
  <2>2. inv'[arg[s].inv].roles = inv[arg[s].inv].roles
    BY <1>1, <2>1, Zenon DEF RowsKept
  <2>3. member[arg[s].user].roles \subseteq member'[arg[s].user].roles
    BY <1>3, <2>1, HeldMember
  <2> QED
    BY <2>1, <2>2, <2>3
<1> QED
  BY <1>2, <1>3

(* The member an acceptance has read as active is still active.            *)
LEMMA StepActive ==
    ASSUME IInv, NEW r \in Requests, Step(r), NEW s \in Requests,
           pc'[s] \in {"a_roles", "a_commit"}, seen'[s].status = "active"
    PROVE  member'[arg'[s].user].status = "active"
<1>1. TypeOK /\ ArgsTyped /\ AcceptInv /\ Only(r) /\ OwnMove(r)
  BY StepLocal DEF IInv, MembershipInv
<1>2. CASE s = r
  <2>1. pc[r] \in {"a_member", "a_roles"} /\ arg'[r] = arg[r]
    BY <1>1, <1>2 DEF OwnMove
  <2>2. lock_membership(r) \/ add_membership_roles(r)
    <3>1. ~Rollback(r)
      BY <1>1, <1>2, FinishLocal DEF Rollback
    <3> QED
      BY <1>2, <2>1, <3>1
         DEF Step, lock_organization, check_last_owner, delete_roles, insert_roles, commit_update,
             check_create, insert_invitation, lock_invitation,
             commit_acceptance, deadlock_detected, read_invitation, write_revoked
  <2>3. CASE lock_membership(r)
    <3>1. seen'[r].status = member[arg[r].user].status /\ member' = member
      BY <1>1, <2>3 DEF lock_membership, TypeOK, Seen
    <3> QED
      BY <1>2, <2>1, <3>1
  <2>4. CASE add_membership_roles(r)
    <3>1. pc[r] = "a_roles" /\ seen'[r].status = seen[r].status /\ member' = member
      BY <1>1, <2>4 DEF add_membership_roles, TypeOK, Seen
    <3> QED
      BY <1>1, <1>2, <2>1, <3>1 DEF AcceptInv
  <2> QED
    BY <2>2, <2>3, <2>4
<1>3. CASE s # r
  <2>1. /\ pc[s] \in {"a_roles", "a_commit"} /\ arg'[s] = arg[s]
        /\ member[arg[s].user].status = "active"
    BY <1>1, <1>3 DEF Only, AcceptInv
  <2> QED
    BY <1>3, <2>1, HeldMember
<1> QED
  BY <1>2, <1>3

-----------------------------------------------------------------------------
(* The other actions, and the induction step.                              *)

LEMMA RequestInv ==
    ASSUME IInv, NEW r \in Requests, Request(r)
    PROVE  IInv'
<1>1. TypeOK /\ ArgsTyped /\ UpdateInv /\ AcceptInv /\ HasActiveOwner
  BY DEF IInv, MembershipInv
<1>2. TypeOK'
  BY <1>1, StartType
<1>3. /\ UNCHANGED <<org, member, inv, seen>> /\ org /\ Only(r) /\ pc[r] = "idle"
      /\ pc'[r] \in {"u_lock", "c_check", "a_lock", "r_read"}
      /\ pc'[r] \in {"u_lock", "c_check"} => arg'[r].caller \in Users
      /\ pc'[r] # "r_read" => arg'[r].user \in Users
      /\ pc'[r] \in {"a_lock", "r_read"} =>
            arg'[r].inv \in Invites /\ inv[arg'[r].inv].status # "absent"
  <2>1. CASE \E caller \in Users, target \in Users, u \in Updates : update_member(r, caller, target, u)
    BY <1>1, <2>1 DEF update_member, Start, NoArg, Only, TypeOK
  <2>2. CASE \E caller \in Users, email \in Users, roles \in RoleLists :
                create_invitation(r, caller, email, roles)
    BY <1>1, <2>2 DEF create_invitation, Start, NoArg, Only, TypeOK
  <2>3. CASE \E user \in Users, i \in Invites : accept_invitation(r, user, i)
    BY <1>1, <2>3 DEF accept_invitation, Start, NoArg, Only, TypeOK
  <2>4. CASE \E caller \in Users, i \in Invites : revoke_invitation(r, caller, i)
    BY <1>1, <2>4 DEF revoke_invitation, Start, NoArg, Only, TypeOK
  <2> QED
    BY <2>1, <2>2, <2>3, <2>4, Zenon DEF Request
<1>4. ArgsTyped'
  BY <1>1, <1>3 DEF ArgsTyped, Only
<1>5. UpdateInv'
  <2>1. Grows /\ ~Updating(r)' /\ ~InsertedMember(r)'
    BY <1>3 DEF Grows, Updating, InsertedMember
  <2> QED
    BY <1>1, <1>3, <2>1, UpdateInvOthers
<1>6. AcceptInv'
  <2>1. \A s \in Requests, i \in Invites : HoldsInvite(s, i)' => HoldsInvite(s, i)
    BY <1>3 DEF HoldsInvite, Only
  <2>2. \A s \in Requests : pc'[s] \in {"a_roles", "a_commit"} =>
            pc[s] = pc'[s] /\ arg'[s] = arg[s]
    BY <1>3 DEF Only
  <2> QED
    BY <1>1, <1>3, <2>1, <2>2 DEF AcceptInv
<1>7. HasActiveOwner'
  BY <1>1, <1>3 DEF HasActiveOwner, ActiveOwners
<1> QED
  BY <1>2, <1>4, <1>5, <1>6, <1>7 DEF IInv, MembershipInv

LEMMA FailInv ==
    ASSUME IInv, NEW r \in Requests, Rollback(r)
    PROVE  IInv'
<1>1. TypeOK /\ ArgsTyped /\ UpdateInv /\ AcceptInv /\ HasActiveOwner
  BY DEF IInv, MembershipInv
<1>2. TypeOK' /\ Only(r) /\ pc'[r] = "idle" /\ UNCHANGED <<org, member, inv>>
  BY <1>1, RollbackType, FinishLocal DEF Rollback
<1>3. ArgsTyped'
  BY <1>1, <1>2 DEF ArgsTyped, Only
<1>4. UpdateInv'
  <2>1. Grows /\ ~Updating(r)' /\ ~InsertedMember(r)'
    BY <1>2 DEF Grows, Updating, InsertedMember
  <2> QED
    BY <1>1, <1>2, <2>1, UpdateInvOthers
<1>5. AcceptInv'
  <2>1. \A s \in Requests, i \in Invites : HoldsInvite(s, i)' => HoldsInvite(s, i)
    BY <1>2 DEF HoldsInvite, Only
  <2>2. \A s \in Requests : pc'[s] \in {"a_roles", "a_commit"} =>
            pc[s] = pc'[s] /\ arg'[s] = arg[s] /\ seen'[s] = seen[s]
    BY <1>2 DEF Only
  <2> QED
    BY <1>1, <1>2, <2>1, <2>2 DEF AcceptInv
<1>6. HasActiveOwner'
  BY <1>1, <1>2 DEF HasActiveOwner, ActiveOwners
<1> QED
  BY <1>2, <1>3, <1>4, <1>5, <1>6 DEF IInv, MembershipInv

LEMMA CreationInv ==
    ASSUME IInv, NEW u \in Users, create_organization(u)
    PROVE  IInv'
<1>1. TypeOK /\ ArgsTyped /\ ~org /\ org' = TRUE /\ UNCHANGED <<inv, pc, arg, seen>>
  BY DEF IInv, MembershipInv, create_organization
<1>2. \A r \in Requests : pc'[r] = "idle"
  BY <1>1 DEF ArgsTyped
<1>3. TypeOK'
  BY <1>1, MembershipAssumption DEF create_organization, TypeOK, Member
<1>4. u \in ActiveOwners'
  BY <1>1 DEF create_organization, ActiveOwners, TypeOK
<1>5. AcceptInv'
  BY <1>1, <1>2, Zenon DEF IInv, MembershipInv, AcceptInv, HoldsInvite
<1> QED
  BY <1>2, <1>3, <1>4, <1>5 DEF IInv, MembershipInv, ArgsTyped, UpdateInv, HasActiveOwner, Updating

LEMMA ExpireInv ==
    ASSUME IInv, NEW i \in Invites, Expire(i)
    PROVE  IInv'
<1>1. TypeOK /\ ArgsTyped /\ UpdateInv /\ AcceptInv /\ HasActiveOwner
  BY DEF IInv, MembershipInv
<1>2. UNCHANGED <<org, member, pc, arg, seen>> /\ inv' = [inv EXCEPT ![i].expired = TRUE]
  BY DEF Expire
<1>3. \A j \in Invites : /\ inv'[j].status = inv[j].status /\ inv'[j].roles = inv[j].roles
                         /\ inv'[j].acceptedBy = inv[j].acceptedBy
  BY <1>1, <1>2 DEF TypeOK, Invite
<1>4. TypeOK'
  <2>1. [inv[i] EXCEPT !.expired = TRUE] \in Invite
    BY <1>1, Zenon DEF TypeOK, Invite
  <2>2. inv' \in [Invites -> Invite]
    BY <1>1, <1>2, <2>1 DEF TypeOK
  <2> QED
    BY <1>1, <1>2, <2>2 DEF TypeOK
<1>5. ArgsTyped'
  BY <1>1, <1>2, <1>3 DEF ArgsTyped
<1>6. UpdateInv' /\ HasActiveOwner'
  BY <1>1, <1>2 DEF UpdateInv, HasActiveOwner, Updating, InsertedMember, Manages, OwnerStays,
                    OtherOwner, ActiveOwners
<1>7. AcceptInv'
  <2>1. \A r \in Requests, j \in Invites : HoldsInvite(r, j)' <=> HoldsInvite(r, j)
    BY <1>2 DEF HoldsInvite
  <2>2. \A r \in Requests : pc[r] = "a_commit" => arg[r].inv \in Invites
    BY <1>1 DEF ArgsTyped
  <2> QED
    BY <1>1, <1>2, <1>3, <2>1, <2>2 DEF AcceptInv
<1> QED
  BY <1>4, <1>5, <1>6, <1>7 DEF IInv, MembershipInv

LEMMA StepInv ==
    ASSUME IInv, NEW r \in Requests, Step(r)
    PROVE  IInv'
<1>1. TypeOK' /\ ArgsTyped' /\ UpdateInv' /\ HasActiveOwner'
  BY StepType, StepArgs, StepUpdateInv, StepOwner DEF IInv, MembershipInv
<1>2. \A i \in Invites : inv'[i].status = "absent" => inv'[i].acceptedBy = NoUser
  BY StepKeepsRows DEF RowsKept, IInv, MembershipInv, AcceptInv
<1>3. AcceptInv'
  BY <1>2, StepHeld, StepComplete, StepActive DEF AcceptInv
<1> QED
  BY <1>1, <1>3 DEF IInv, MembershipInv

LEMMA NextInv ==
    ASSUME IInv, [Next]_vars
    PROVE  IInv'
<1>1. CASE UNCHANGED vars
  <2>1. TypeOK' /\ ArgsTyped' /\ HasActiveOwner'
    BY <1>1 DEF vars, IInv, TypeOK, MembershipInv, ArgsTyped, HasActiveOwner, ActiveOwners
  <2>2. AcceptInv'
    BY <1>1 DEF vars, IInv, MembershipInv, AcceptInv, HoldsInvite
  <2>3. UpdateInv'
    BY <1>1 DEF vars, IInv, MembershipInv, UpdateInv, Updating, InsertedMember, Manages,
                OwnerStays, OtherOwner, ActiveOwners
  <2> QED
    BY <2>1, <2>2, <2>3 DEF IInv, MembershipInv
<1> QED
  BY <1>1, RequestInv, FailInv, CreationInv, ExpireInv, StepInv DEF Next, Fail

LEMMA InitInv ==
    ASSUME Init
    PROVE  IInv
<1>1. TypeOK
  BY Zenon DEF Init, TypeOK, Member, Invite, Steps, Args, Seen, NoArg, NoSeen
<1> QED
  BY <1>1, Zenon DEF Init, IInv, MembershipInv, ArgsTyped, UpdateInv, AcceptInv, HasActiveOwner,
              Updating, HoldsInvite

-----------------------------------------------------------------------------

(* The inductive invariant holds in every behaviour of the specification.  *)
THEOREM MembershipsInvariant == Spec => []IInv
<1>1. Init => IInv
  BY InitInv
<1>2. IInv /\ [Next]_vars => IInv'
  BY NextInv
<1> QED
  BY <1>1, <1>2, PTL DEF Spec

(* update_member and accept_invitation keep an active owner in every       *)
(* organisation that exists, for any number of concurrent requests.        *)
THEOREM AlwaysAnOwner == Spec => []HasActiveOwner
<1>1. IInv => HasActiveOwner
  BY DEF IInv, MembershipInv
<1> QED
  BY <1>1, MembershipsInvariant, PTL

(* update_member commits only while its caller manages members.            *)
THEOREM ManagersUpdate == Spec => UpdateByManager
<1> DEFINE Act == \A r \in Requests : pc[r] = "u_finish" /\ member' # member /\ pc'[r] = "idle"
                                       => Manages(arg[r].caller)
<1>1. IInv /\ [Next]_vars => [Act]_vars
  BY DEF IInv, MembershipInv, UpdateInv, Updating
<1> QED
  BY <1>1, MembershipsInvariant, PTL DEF Spec, UpdateByManager

(* How acceptedBy can change: the commit of an acceptance that holds the   *)
(* invitation.                                                             *)
LEMMA AcceptedBy ==
    ASSUME IInv, Next, NEW i \in Invites, inv'[i].acceptedBy # inv[i].acceptedBy
    PROVE  \E r \in Requests : /\ commit_acceptance(r) /\ i = arg[r].inv
                               /\ HoldsInvite(r, i) /\ arg[r].user \in Users
                               /\ inv'[i].acceptedBy = arg[r].user
<1>1. TypeOK /\ ArgsTyped
  BY DEF IInv, MembershipInv
<1>2. inv' # inv
  OBVIOUS
<1>3. CASE \E j \in Invites : Expire(j)
  BY <1>1, <1>3 DEF Expire, TypeOK, Invite
<1>4. CASE \E r \in Requests : Step(r)
  <2>1. PICK r \in Requests : Step(r)
    BY <1>4
  <2>2. CASE insert_invitation(r) /\ ~Rollback(r)
    <3>1. PICK j \in Invites : /\ inv[j].status = "absent"
                               /\ inv' = [inv EXCEPT ![j] = NewInvite(arg[r].user, arg[r].roles)]
      BY <2>2, Created
    <3>2. j = i /\ inv'[i].acceptedBy = NoUser
      BY <1>1, <3>1 DEF TypeOK, NewInvite
    <3> QED
      BY <3>1, <3>2 DEF IInv, MembershipInv, AcceptInv
  <2>3. CASE write_revoked(r)
    BY <1>1, <2>3 DEF write_revoked, TypeOK, Invite
  <2>4. CASE commit_acceptance(r)
    <3>1. arg[r].inv \in Invites /\ arg[r].user \in Users
      BY <1>1, <2>4 DEF commit_acceptance, ArgsTyped
    <3>2. i = arg[r].inv /\ inv'[i].acceptedBy = arg[r].user
      BY <1>1, <2>4, <3>1 DEF commit_acceptance, TypeOK, Invite
    <3> QED
      BY <2>4, <3>1, <3>2, Zenon DEF commit_acceptance, HoldsInvite
  <2> QED
    BY <1>2, <2>1, <2>2, <2>3, <2>4, Locked
       DEF Step, Rollback, check_last_owner, delete_roles, insert_roles, commit_update,
           check_create, insert_invitation, lock_invitation, lock_membership,
           add_membership_roles, deadlock_detected, read_invitation
<1> QED
  BY <1>2, <1>3, <1>4, Zenon DEF Next, Request, Fail, Rollback, create_organization, update_member,
     create_invitation, accept_invitation, revoke_invitation, Start

(* accept_invitation leaves its user an active member with every invited   *)
(* role, for any interleaving with member updates.                         *)
THEOREM AcceptancesComplete == Spec => AcceptanceComplete
<1> DEFINE Act == \A i \in Invites : inv'[i].acceptedBy # inv[i].acceptedBy =>
                     /\ member'[inv'[i].acceptedBy].status = "active"
                     /\ inv[i].roles \subseteq member'[inv'[i].acceptedBy].roles
<1>1. ASSUME IInv, Next, NEW i \in Invites, inv'[i].acceptedBy # inv[i].acceptedBy
      PROVE  /\ member'[inv'[i].acceptedBy].status = "active"
             /\ inv[i].roles \subseteq member'[inv'[i].acceptedBy].roles
  <2>1. PICK r \in Requests : /\ commit_acceptance(r) /\ i = arg[r].inv /\ arg[r].user \in Users
                              /\ inv'[i].acceptedBy = arg[r].user
    BY <1>1, AcceptedBy
  <2>2. inv[i].roles \subseteq member[arg[r].user].roles \cup seen[r].roles
    BY <1>1, <2>1, Zenon DEF commit_acceptance, IInv, MembershipInv, AcceptInv
  <2>3. /\ seen[r].status = "active" => member[arg[r].user].status = "active"
        /\ member'[arg[r].user] =
              [status |-> IF seen[r].status = "active" THEN member[arg[r].user].status ELSE "active",
               roles |-> member[arg[r].user].roles \cup seen[r].roles]
    BY <1>1, <2>1, Zenon DEF commit_acceptance, IInv, TypeOK, MembershipInv, AcceptInv
  <2>4. member'[arg[r].user] = [status |-> "active",
                                roles |-> member[arg[r].user].roles \cup seen[r].roles]
    BY <2>3, Zenon
  <2>5. /\ member'[inv'[i].acceptedBy].status = "active"
        /\ member'[inv'[i].acceptedBy].roles = member[arg[r].user].roles \cup seen[r].roles
    BY <2>1, <2>4
  <2> QED
    BY <2>2, <2>5
<1>2. IInv /\ [Next]_vars => [Act]_vars
  BY <1>1
<1> QED
  BY <1>2, MembershipsInvariant, PTL DEF Spec, AcceptanceComplete

(* An acceptance commits only a pending invitation that nobody accepted,   *)
(* and who accepted it never changes, for any number of concurrent         *)
(* acceptances and revocations.                                            *)
THEOREM InvitationsUsedOnce == Spec => UsedOnce
<1> DEFINE Act == /\ \A r \in Requests : commit_acceptance(r) =>
                       inv[arg[r].inv].status = "pending" /\ inv[arg[r].inv].acceptedBy = NoUser
                  /\ \A i \in Invites : inv[i].acceptedBy # NoUser =>
                       inv'[i].acceptedBy = inv[i].acceptedBy
<1>1. ASSUME IInv, NEW r \in Requests, commit_acceptance(r)
      PROVE  inv[arg[r].inv].status = "pending" /\ inv[arg[r].inv].acceptedBy = NoUser
  <2>1. arg[r].inv \in Invites /\ HoldsInvite(r, arg[r].inv)
    BY <1>1 DEF commit_acceptance, HoldsInvite, IInv, MembershipInv, ArgsTyped
  <2> QED
    BY <1>1, <2>1 DEF IInv, MembershipInv, AcceptInv
<1>2. ASSUME IInv, Next, NEW i \in Invites, inv'[i].acceptedBy # inv[i].acceptedBy
      PROVE  inv[i].acceptedBy = NoUser
  BY <1>2, AcceptedBy DEF IInv, MembershipInv, AcceptInv
<1>3. IInv /\ [Next]_vars => [Act]_vars
  BY <1>1, <1>2 DEF vars
<1> QED
  BY <1>3, MembershipsInvariant, PTL DEF Spec, UsedOnce

=============================================================================
