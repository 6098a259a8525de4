---------------------------- MODULE AccessControl ----------------------------
(***************************************************************************)
(* Roles and permissions, class AccessControl of nanocell/admin/roles.py,  *)
(* as AdminCLI sets it up: set_owner is called once, before anything else. *)
(* Every operation takes the id of the user who asks for it and either     *)
(* changes the state or refuses; a refusal is not a step.                  *)
(*                                                                         *)
(* A set of permissions is the set of its bit numbers.                     *)
(***************************************************************************)
EXTENDS Integers, FiniteSets

CONSTANTS
  Users,             \* the node ids
  Owner,             \* the id given to set_owner
  CustomNames,       \* names for create_custom_role
  CustomPermissions  \* the permission sets asked for in create_custom_role

Named == 0 .. 13     \* SEND_MESSAGE .. OWNER, one bit each

SEND_MESSAGE == 0
RECEIVE_MESSAGE == 1
VIEW_USERS == 2
BAN_USER == 3
KICK_USER == 4
VIEW_ADMINS == 5
APPOINT_ADMIN == 6
REVOKE_ADMIN == 7
VIEW_SERVER_STATS == 8
VIEW_PEERS == 11
MANAGE_RELAY == 12

Basic == {SEND_MESSAGE, RECEIVE_MESSAGE}

\* 0xFFFF has two bits more than there are names.
RolePermissions ==
  [user       |-> Basic,
   moderator  |-> Basic \cup {VIEW_USERS, KICK_USER},
   admin      |-> Basic \cup {VIEW_USERS, BAN_USER, KICK_USER, VIEW_ADMINS,
                              VIEW_SERVER_STATS, VIEW_PEERS},
   superadmin |-> Basic \cup {VIEW_USERS, BAN_USER, KICK_USER, VIEW_ADMINS, APPOINT_ADMIN,
                              REVOKE_ADMIN, VIEW_SERVER_STATS, MANAGE_RELAY},
   owner      |-> 0 .. 15]

Predefined == DOMAIN RolePermissions

ASSUME OwnerAssumption == Owner \in Users
ASSUME CustomAssumption ==
  CustomNames \cap Predefined = {} /\ CustomPermissions \subseteq SUBSET Named

VARIABLES
  users,       \* _users: id -> [role, banned]
  roles,       \* _roles: name -> permissions
  delegated    \* (ghost) the owner has given away APPOINT_ADMIN or changed his own role

vars == << users, roles, delegated >>

Init ==
  /\ users = [u \in {Owner} |-> [role |-> "owner", banned |-> FALSE]]
  /\ roles = RolePermissions
  /\ delegated = FALSE

----------------------------------------------------------------------------
Known == DOMAIN users

PermissionsOf(u) == roles[users[u].role]

\* Mutant: a ban takes no permission away.
HasPermissionBanned(u, p) ==
  u \in Known /\ (users[u].role = "owner" \/ p \in PermissionsOf(u))

HasPermission(u, p) ==
  /\ u \in Known
  /\ ~ users[u].banned
  /\ users[u].role = "owner" \/ p \in PermissionsOf(u)

\* Mutant: roles are not compared.
HigherNever(P, Q) == FALSE

\* permissions > permissions compares the two numbers, so the highest bit in
\* which they differ decides.
Higher(P, Q) == \E b \in P \ Q : \A c \in Q \ P : c < b

\* Mutant: a new user gets a role that does not exist.
RegisterGuest(u) ==
  /\ u \notin Known
  /\ users' = [x \in Known \cup {u} |->
                 IF x = u THEN [role |-> "guest", banned |-> FALSE] ELSE users[x]]
  /\ UNCHANGED << roles, delegated >>

RegisterUser(u) ==
  /\ u \notin Known
  /\ users' = [x \in Known \cup {u} |->
                 IF x = u THEN [role |-> "user", banned |-> FALSE] ELSE users[x]]
  /\ UNCHANGED << roles, delegated >>

AppointAdmin(actor, target, role) ==
  /\ HasPermission(actor, APPOINT_ADMIN)
  /\ target \in Known
  /\ role \in DOMAIN roles
  /\ ~ Higher(roles[role], PermissionsOf(actor))
  /\ users' = [users EXCEPT ![target].role = role]
  /\ delegated' = (delegated \/ (actor = Owner /\ (target = Owner \/ APPOINT_ADMIN \in roles[role])))
  /\ UNCHANGED roles

\* Only the id given to set_owner may revoke, whatever its role is by now.
RevokeAdmin(actor, target) ==
  /\ actor = Owner
  /\ target \in Known
  /\ users[target].role # "owner"
  /\ users' = [users EXCEPT ![target].role = "user"]
  /\ UNCHANGED << roles, delegated >>

BanUser(actor, target) ==
  /\ HasPermission(actor, BAN_USER)
  /\ target \in Known
  /\ users[target].role # "owner"
  /\ users' = [users EXCEPT ![target].banned = TRUE]
  /\ UNCHANGED << roles, delegated >>

UnbanUser(actor, target) ==
  /\ HasPermission(actor, BAN_USER)
  /\ target \in Known
  /\ users' = [users EXCEPT ![target].banned = FALSE]
  /\ UNCHANGED << roles, delegated >>

\* Mutant: a custom role may have the name of a role there is.
CreateAnyRole(actor, name, permissions) ==
  /\ actor = Owner
  /\ roles' = [n \in DOMAIN roles \cup {name} |-> IF n = name THEN permissions ELSE roles[n]]
  /\ UNCHANGED << users, delegated >>

CreateCustomRole(actor, name, permissions) ==
  /\ actor = Owner
  /\ name \notin DOMAIN roles
  /\ roles' = [n \in DOMAIN roles \cup {name} |-> IF n = name THEN permissions ELSE roles[n]]
  /\ UNCHANGED << users, delegated >>

Next ==
  \/ \E u \in Users : RegisterUser(u)
  \/ \E actor \in Users, target \in Users :
       \/ \E role \in Predefined \cup CustomNames : AppointAdmin(actor, target, role)
       \/ RevokeAdmin(actor, target)
       \/ BanUser(actor, target)
       \/ UnbanUser(actor, target)
  \/ \E actor \in Users, name \in Predefined \cup CustomNames, permissions \in CustomPermissions :
       CreateCustomRole(actor, name, permissions)

Spec == Init /\ [][Next]_vars

----------------------------------------------------------------------------
(* Type invariant: in particular every user's role exists. *)
TypeOK ==
  /\ Owner \in Known /\ Known \subseteq Users
  /\ \A u \in Known :
       /\ users[u] = [role |-> users[u].role, banned |-> users[u].banned]
       /\ users[u].role \in DOMAIN roles /\ users[u].banned \in BOOLEAN
  /\ Predefined \subseteq DOMAIN roles /\ DOMAIN roles \subseteq Predefined \cup CustomNames
  /\ \A n \in DOMAIN roles : roles[n] \subseteq 0 .. 15
  /\ delegated \in BOOLEAN

(***************************************************************************)
(* Nobody becomes an owner unless somebody who is one, and is not banned,  *)
(* is there to appoint him: appoint_admin's comparison of permission       *)
(* numbers keeps a superadmin, or a custom role with every named           *)
(* permission, from making owners.                                         *)
(***************************************************************************)
OwnersComeFromOwners ==
  [][\A u \in DOMAIN users' :
       users'[u].role = "owner" /\ ~ (u \in Known /\ users[u].role = "owner") =>
         \E w \in Known : users[w].role = "owner" /\ ~ users[w].banned]_vars

SomebodyInCharge ==
  \E w \in Known :
    /\ ~ users[w].banned
    /\ users[w].role = "owner" \/ PermissionsOf(w) \cap {BAN_USER, APPOINT_ADMIN} # {}

(***************************************************************************)
(* Those who may ban and appoint can ban and demote one another, and       *)
(* themselves. Once none of them is left it stays so: what the id given to *)
(* set_owner may still do without a role (revoke, create roles), what new  *)
(* users get and what roles may be redefined lets nobody back in.          *)
(***************************************************************************)
LockoutIsForGood == [][~ SomebodyInCharge => ~ SomebodyInCharge']_vars

(***************************************************************************)
(* The owner loses his role, or is banned, only after an act of his own:   *)
(* as long as he has not changed his own role nor given anybody a role     *)
(* with APPOINT_ADMIN, no sequence of calls by others gets there.          *)
(***************************************************************************)
OwnerKeepsControl ==
  ~ delegated => users[Owner].role = "owner" /\ ~ users[Owner].banned
===============================================================================
