------------------------- MODULE AccessControl_proofs -------------------------
(***************************************************************************)
(* Proofs about AccessControl, for any number of users and custom roles.   *)
(***************************************************************************)
EXTENDS AccessControl, TLAPS

\* The predefined roles never change, and only "owner" has the bits that no
\* permission is named for.
RolesKept ==
  /\ \A n \in Predefined : roles[n] = RolePermissions[n]
  /\ \A n \in DOMAIN roles : n # "owner" => roles[n] \subseteq Named

\* Until the owner delegates he is the only one who may appoint.
OnlyOwnerAppoints ==
  ~ delegated =>
    \A u \in Known : u # Owner => users[u].role # "owner" /\ APPOINT_ADMIN \notin PermissionsOf(u)

\* The inductive invariant.
Inv == TypeOK /\ RolesKept /\ OnlyOwnerAppoints /\ OwnerKeepsControl

LEMMA PredefinedRoles ==
  /\ Predefined = {"user", "moderator", "admin", "superadmin", "owner"}
  /\ RolePermissions["owner"] = 0 .. 15
  /\ \A n \in Predefined : RolePermissions[n] \subseteq 0 .. 15
  /\ \A n \in Predefined : n # "owner" => RolePermissions[n] \subseteq Named
  /\ APPOINT_ADMIN \notin RolePermissions["user"]
<1>1. Predefined = {"user", "moderator", "admin", "superadmin", "owner"}
  BY DEF Predefined, RolePermissions
<1>2. RolePermissions["owner"] = 0 .. 15
  BY DEF RolePermissions
<1>3. RolePermissions["user"] = {0, 1}
  BY DEF RolePermissions, Basic, SEND_MESSAGE, RECEIVE_MESSAGE
<1>4. RolePermissions["moderator"] \subseteq Named
  BY DEF RolePermissions, Basic, Named, SEND_MESSAGE, RECEIVE_MESSAGE, VIEW_USERS, KICK_USER
<1>5. RolePermissions["admin"] \subseteq Named
  BY DEF RolePermissions, Basic, Named, SEND_MESSAGE, RECEIVE_MESSAGE, VIEW_USERS, KICK_USER,
         BAN_USER, VIEW_ADMINS, VIEW_SERVER_STATS, VIEW_PEERS
<1>6. RolePermissions["superadmin"] \subseteq Named
  BY DEF RolePermissions, Basic, Named, SEND_MESSAGE, RECEIVE_MESSAGE, VIEW_USERS, KICK_USER,
         BAN_USER, VIEW_ADMINS, VIEW_SERVER_STATS, APPOINT_ADMIN, REVOKE_ADMIN, MANAGE_RELAY
<1>7. RolePermissions["user"] \subseteq Named
  BY <1>3 DEF Named
<1>8. Named \subseteq 0 .. 15
  BY DEF Named
<1>9. \A n \in Predefined : n # "owner" => RolePermissions[n] \subseteq Named
  BY <1>1, <1>4, <1>5, <1>6, <1>7
<1>10. \A n \in Predefined : RolePermissions[n] \subseteq 0 .. 15
  BY <1>2, <1>8, <1>9
<1>11. APPOINT_ADMIN \notin RolePermissions["user"]
  BY <1>3 DEF APPOINT_ADMIN
<1> QED
  BY <1>1, <1>2, <1>9, <1>10, <1>11

\* A step that touches one user at most, and no role, keeps the type.
LEMMA OneUserChanges ==
  ASSUME TypeOK, NEW u \in Users, NEW role \in DOMAIN roles, NEW banned \in BOOLEAN,
         Known' = Known \cup {u}, users'[u] = [role |-> role, banned |-> banned],
         \A x \in Known \ {u} : users'[x] = users[x],
         roles' = roles, delegated' \in BOOLEAN
  PROVE  TypeOK'
<1>1. ASSUME NEW x \in Known'
      PROVE  /\ users'[x] = [role |-> users'[x].role, banned |-> users'[x].banned]
             /\ users'[x].role \in DOMAIN roles
             /\ users'[x].banned \in BOOLEAN
  <2>1. CASE x = u
    BY <2>1
  <2>2. CASE x # u
    <3>1. x \in Known /\ users'[x] = users[x]
      BY <2>2
    <3> QED
      BY <3>1 DEF TypeOK
  <2> QED
    BY <2>1, <2>2
<1>2. Owner \in Known' /\ Known' \subseteq Users
  BY DEF TypeOK
<1>3. \A n \in DOMAIN roles' : roles'[n] \subseteq 0 .. 15
  BY DEF TypeOK
<1>4. Predefined \subseteq DOMAIN roles' /\ DOMAIN roles' \subseteq Predefined \cup CustomNames
  BY DEF TypeOK
<1> QED
  BY <1>1, <1>2, <1>3, <1>4 DEF TypeOK

LEMMA InitInv == Init => Inv
<1> SUFFICES ASSUME Init
             PROVE  Inv
  OBVIOUS
<1>1. Known = {Owner} /\ users[Owner] = [role |-> "owner", banned |-> FALSE]
  BY DEF Init, Known
<1>2. roles = RolePermissions /\ DOMAIN roles = Predefined /\ delegated = FALSE
  BY DEF Init, Predefined
<1>3. TypeOK
  <2>1. users[Owner].role = "owner" /\ users[Owner].banned = FALSE
    BY <1>1
  <2>2. "owner" \in DOMAIN roles
    BY <1>2, PredefinedRoles
  <2>3. ASSUME NEW u \in Known
        PROVE  /\ users[u] = [role |-> users[u].role, banned |-> users[u].banned]
               /\ users[u].role \in DOMAIN roles /\ users[u].banned \in BOOLEAN
    <3>1. u = Owner
      BY <1>1
    <3>2. users[Owner] = [role |-> users[Owner].role, banned |-> users[Owner].banned]
      BY <1>1, <2>1
    <3> QED
      BY <2>1, <2>2, <3>1, <3>2
  <2>4. \A n \in DOMAIN roles : roles[n] \subseteq 0 .. 15
    BY <1>2, PredefinedRoles
  <2>5. Owner \in Known /\ Known \subseteq Users
    BY <1>1, OwnerAssumption
  <2>6. Predefined \subseteq DOMAIN roles /\ DOMAIN roles \subseteq Predefined \cup CustomNames
    BY <1>2
  <2> QED
    BY <1>2, <2>3, <2>4, <2>5, <2>6 DEF TypeOK
<1>4. RolesKept
  BY <1>2, PredefinedRoles DEF RolesKept
<1>5. OnlyOwnerAppoints
  BY <1>1 DEF OnlyOwnerAppoints
<1>6. OwnerKeepsControl
  BY <1>1 DEF OwnerKeepsControl
<1> QED
  BY <1>3, <1>4, <1>5, <1>6 DEF Inv

LEMMA RegisterUserInv ==
  ASSUME Inv, NEW u \in Users, RegisterUser(u)
  PROVE  Inv'
<1>1. Known' = Known \cup {u} /\ u \notin Known
  BY DEF RegisterUser, Known
<1>2. users'[u] = [role |-> "user", banned |-> FALSE] /\ \A x \in Known : users'[x] = users[x]
  BY DEF RegisterUser, Known
<1>3. UNCHANGED << roles, delegated >>
  BY DEF RegisterUser
<1>4. roles["user"] = RolePermissions["user"] /\ "user" \in DOMAIN roles
  BY PredefinedRoles DEF Inv, TypeOK, RolesKept
<1>5. TypeOK'
  <2>1. TypeOK /\ delegated' \in BOOLEAN
    BY <1>3 DEF Inv, TypeOK
  <2> QED
    BY <1>1, <1>2, <1>3, <1>4, <2>1, OneUserChanges
<1>6. RolesKept'
  BY <1>3 DEF Inv, RolesKept
<1>7. OnlyOwnerAppoints'
  BY <1>1, <1>2, <1>3, <1>4, PredefinedRoles DEF Inv, OnlyOwnerAppoints, PermissionsOf
<1>8. OwnerKeepsControl'
  BY <1>1, <1>2, <1>3 DEF Inv, TypeOK, OwnerKeepsControl
<1> QED
  BY <1>5, <1>6, <1>7, <1>8 DEF Inv

LEMMA AppointAdminInv ==
  ASSUME Inv, NEW actor \in Users, NEW target \in Users, NEW role,
         AppointAdmin(actor, target, role)
  PROVE  Inv'
<1>1. target \in Known /\ role \in DOMAIN roles /\ HasPermission(actor, APPOINT_ADMIN)
  BY DEF AppointAdmin
<1>2. Known' = Known /\ \A x \in Known \ {target} : users'[x] = users[x]
  BY DEF AppointAdmin, Known
<1>3. users'[target] = [role |-> role, banned |-> users[target].banned]
  BY <1>1 DEF AppointAdmin, Known, Inv, TypeOK
<1>4. roles' = roles
  BY DEF AppointAdmin
<1>5. delegated' \in BOOLEAN
  BY DEF AppointAdmin
<1>6. TypeOK'
  <2>1. TypeOK /\ users[target].banned \in BOOLEAN /\ Known' = Known \cup {target}
    BY <1>1, <1>2 DEF Inv, TypeOK
  <2> QED
    BY <1>1, <1>2, <1>3, <1>4, <1>5, <2>1, OneUserChanges
<1>7. RolesKept'
  BY <1>4 DEF Inv, RolesKept
<1>8. ASSUME ~ delegated'
      PROVE  ~ delegated /\ actor = Owner /\ target # Owner /\ APPOINT_ADMIN \notin roles[role]
  <2>1. ~ delegated
    BY <1>8 DEF AppointAdmin
  <2>2. actor = Owner
    BY <1>1, <2>1 DEF HasPermission, Inv, OnlyOwnerAppoints
  <2> QED
    BY <1>8, <2>1, <2>2 DEF AppointAdmin
<1>9. roles["owner"] = 0 .. 15
  BY PredefinedRoles DEF Inv, RolesKept
<1>10. APPOINT_ADMIN \in 0 .. 15
  BY DEF APPOINT_ADMIN
<1>11. OnlyOwnerAppoints'
  <2>1. ASSUME ~ delegated'
        PROVE  role # "owner"
    BY <1>8, <1>9, <1>10, <2>1
  <2> QED
    BY <1>2, <1>3, <1>4, <1>8, <2>1 DEF Inv, OnlyOwnerAppoints, PermissionsOf
<1>12. OwnerKeepsControl'
  BY <1>2, <1>8 DEF Inv, TypeOK, OwnerKeepsControl
<1> QED
  BY <1>6, <1>7, <1>11, <1>12 DEF Inv

LEMMA RevokeAdminInv ==
  ASSUME Inv, NEW actor \in Users, NEW target \in Users, RevokeAdmin(actor, target)
  PROVE  Inv'
<1>1. target \in Known /\ users[target].role # "owner"
  BY DEF RevokeAdmin
<1>2. Known' = Known /\ \A x \in Known \ {target} : users'[x] = users[x]
  BY DEF RevokeAdmin, Known
<1>3. users'[target] = [role |-> "user", banned |-> users[target].banned]
  BY <1>1 DEF RevokeAdmin, Known, Inv, TypeOK
<1>4. UNCHANGED << roles, delegated >>
  BY DEF RevokeAdmin
<1>5. roles["user"] = RolePermissions["user"] /\ "user" \in DOMAIN roles
  BY PredefinedRoles DEF Inv, TypeOK, RolesKept
<1>6. TypeOK'
  <2>1. /\ TypeOK /\ users[target].banned \in BOOLEAN
        /\ Known' = Known \cup {target} /\ delegated' \in BOOLEAN
    BY <1>1, <1>2, <1>4 DEF Inv, TypeOK
  <2> QED
    BY <1>1, <1>2, <1>3, <1>4, <1>5, <2>1, OneUserChanges
<1>7. RolesKept'
  BY <1>4 DEF Inv, RolesKept
<1>8. OnlyOwnerAppoints'
  BY <1>2, <1>3, <1>4, <1>5, PredefinedRoles DEF Inv, OnlyOwnerAppoints, PermissionsOf
<1>9. OwnerKeepsControl'
  BY <1>1, <1>2, <1>4 DEF Inv, TypeOK, OwnerKeepsControl
<1> QED
  BY <1>6, <1>7, <1>8, <1>9 DEF Inv

\* ban_user and unban_user leave every role as it is.
LEMMA BanInv ==
  ASSUME Inv, NEW actor \in Users, NEW target \in Users,
         BanUser(actor, target) \/ UnbanUser(actor, target)
  PROVE  Inv'
<1>1. target \in Known /\ (BanUser(actor, target) => users[target].role # "owner")
  BY DEF BanUser, UnbanUser
<1>2. Known' = Known /\ \A x \in Known \ {target} : users'[x] = users[x]
  BY DEF BanUser, UnbanUser, Known
<1>3. \/ users'[target] = [role |-> users[target].role, banned |-> TRUE] /\ BanUser(actor, target)
      \/ users'[target] = [role |-> users[target].role, banned |-> FALSE]
  <2>1. users[target] = [role |-> users[target].role, banned |-> users[target].banned]
    BY <1>1 DEF Inv, TypeOK
  <2>2. CASE BanUser(actor, target)
    BY <1>1, <2>1, <2>2 DEF BanUser, Known
  <2>3. CASE UnbanUser(actor, target)
    BY <1>1, <2>1, <2>3 DEF UnbanUser, Known
  <2> QED
    BY <2>2, <2>3
<1>4. UNCHANGED << roles, delegated >>
  BY DEF BanUser, UnbanUser
<1>5. TypeOK'
  <2>1. /\ TypeOK /\ users[target].role \in DOMAIN roles
        /\ Known' = Known \cup {target} /\ delegated' \in BOOLEAN
    BY <1>1, <1>2, <1>4 DEF Inv, TypeOK
  <2> QED
    BY <1>1, <1>2, <1>3, <1>4, <2>1, OneUserChanges
<1>6. RolesKept'
  BY <1>4 DEF Inv, RolesKept
<1>7. OnlyOwnerAppoints'
  BY <1>2, <1>3, <1>4 DEF Inv, OnlyOwnerAppoints, PermissionsOf
<1>8. OwnerKeepsControl'
  BY <1>1, <1>2, <1>3, <1>4 DEF Inv, TypeOK, OwnerKeepsControl
<1> QED
  BY <1>5, <1>6, <1>7, <1>8 DEF Inv

LEMMA CreateCustomRoleInv ==
  ASSUME Inv, NEW actor \in Users, NEW name \in Predefined \cup CustomNames,
         NEW permissions \in CustomPermissions, CreateCustomRole(actor, name, permissions)
  PROVE  Inv'
<1>1. name \notin DOMAIN roles /\ DOMAIN roles' = DOMAIN roles \cup {name}
  BY DEF CreateCustomRole
<1>2. roles'[name] = permissions /\ \A n \in DOMAIN roles : roles'[n] = roles[n]
  BY <1>1 DEF CreateCustomRole
<1>3. UNCHANGED << users, delegated >>
  BY DEF CreateCustomRole
<1>4. permissions \subseteq Named /\ Named \subseteq 0 .. 15
  BY CustomAssumption DEF Named
<1>5. Known' = Known
  BY <1>3 DEF Known
<1>6. TypeOK'
  BY <1>1, <1>2, <1>3, <1>4, <1>5 DEF Inv, TypeOK
<1>7. RolesKept'
  BY <1>1, <1>2, <1>4 DEF Inv, TypeOK, RolesKept
<1>8. OnlyOwnerAppoints'
  BY <1>2, <1>3, <1>5 DEF Inv, TypeOK, OnlyOwnerAppoints, PermissionsOf
<1>9. OwnerKeepsControl'
  BY <1>3 DEF Inv, OwnerKeepsControl
<1> QED
  BY <1>6, <1>7, <1>8, <1>9 DEF Inv

LEMMA NextInv == Inv /\ [Next]_vars => Inv'
<1> SUFFICES ASSUME Inv, [Next]_vars
             PROVE  Inv'
  OBVIOUS
<1>1. ASSUME NEW u \in Users, RegisterUser(u)
      PROVE  Inv'
  BY <1>1, RegisterUserInv
<1>2. ASSUME NEW actor \in Users, NEW target \in Users,
             NEW role \in Predefined \cup CustomNames, AppointAdmin(actor, target, role)
      PROVE  Inv'
  BY <1>2, AppointAdminInv
<1>3. ASSUME NEW actor \in Users, NEW target \in Users, RevokeAdmin(actor, target)
      PROVE  Inv'
  BY <1>3, RevokeAdminInv
<1>4. ASSUME NEW actor \in Users, NEW target \in Users,
             BanUser(actor, target) \/ UnbanUser(actor, target)
      PROVE  Inv'
  BY <1>4, BanInv
<1>5. ASSUME NEW actor \in Users, NEW name \in Predefined \cup CustomNames,
             NEW permissions \in CustomPermissions, CreateCustomRole(actor, name, permissions)
      PROVE  Inv'
  BY <1>5, CreateCustomRoleInv
<1>6. CASE UNCHANGED vars
  BY <1>6 DEF Inv, TypeOK, RolesKept, OnlyOwnerAppoints, OwnerKeepsControl, PermissionsOf,
              Known, vars
<1> QED
  BY <1>1, <1>2, <1>3, <1>4, <1>5, <1>6 DEF Next

(***************************************************************************)
(* Roles, bans and appointments keep Inv: the owner keeps control because  *)
(* the predefined roles stay as they are and nobody else appoints before   *)
(* the owner has delegated.                                                *)
(***************************************************************************)
THEOREM Invariant == Spec => []Inv
  BY InitInv, NextInv, PTL DEF Spec

(***************************************************************************)
(* Whatever is registered, appointed, revoked, banned and created, every   *)
(* user has a role that exists.                                            *)
(***************************************************************************)
THEOREM TypeCorrect == Spec => []TypeOK
<1>1. Inv => TypeOK
  BY DEF Inv
<1> QED
  BY <1>1, Invariant, PTL

(***************************************************************************)
(* No sequence of calls by others takes the owner's role away or bans him, *)
(* as long as he has not delegated.                                        *)
(***************************************************************************)
THEOREM OwnerAlwaysKeepsControl == Spec => []OwnerKeepsControl
<1>1. Inv => OwnerKeepsControl
  BY DEF Inv
<1> QED
  BY <1>1, Invariant, PTL

\* Comparing permission sets as numbers puts "owner" above every other role.
LEMMA OwnerIsHighest ==
  ASSUME Inv, NEW u \in Known, users[u].role # "owner"
  PROVE  Higher(roles["owner"], PermissionsOf(u))
<1>1. PermissionsOf(u) \subseteq Named
  BY DEF Inv, TypeOK, RolesKept, PermissionsOf
<1>2. roles["owner"] = 0 .. 15
  BY PredefinedRoles DEF Inv, RolesKept
<1>3. 15 \in roles["owner"] \ PermissionsOf(u)
  BY <1>1, <1>2 DEF Named
<1>4. PermissionsOf(u) \ roles["owner"] = {}
  BY <1>1, <1>2 DEF Named
<1> QED
  BY <1>3, <1>4 DEF Higher

(***************************************************************************)
(* Owners are made by owners only.                                         *)
(***************************************************************************)
THEOREM OwnersOnlyComeFromOwners == Spec => OwnersComeFromOwners
<1> DEFINE A == \A u \in DOMAIN users' :
       users'[u].role = "owner" /\ ~ (u \in Known /\ users[u].role = "owner") =>
         \E w \in Known : users[w].role = "owner" /\ ~ users[w].banned
<1>1. ASSUME Inv, [Next]_vars
      PROVE  A
  <2> SUFFICES ASSUME NEW u \in DOMAIN users', users'[u].role = "owner",
                      ~ (u \in Known /\ users[u].role = "owner")
               PROVE  \E w \in Known : users[w].role = "owner" /\ ~ users[w].banned
    OBVIOUS
  <2>1. ASSUME NEW x \in Users, RegisterUser(x)
        PROVE  FALSE
    BY <2>1 DEF RegisterUser, Known
  <2>2. ASSUME NEW actor \in Users, NEW target \in Users,
               NEW role \in Predefined \cup CustomNames, AppointAdmin(actor, target, role)
        PROVE  \E w \in Known : users[w].role = "owner" /\ ~ users[w].banned
    <3>1. actor \in Known /\ ~ users[actor].banned
      BY <2>2 DEF AppointAdmin, HasPermission
    <3>2. u \in Known /\ u = target /\ role = "owner"
      BY <2>2 DEF AppointAdmin, Known
    <3>3. ~ Higher(roles["owner"], PermissionsOf(actor))
      BY <2>2, <3>2 DEF AppointAdmin
    <3>4. users[actor].role = "owner"
      BY <1>1, <3>1, <3>3, OwnerIsHighest
    <3> QED
      BY <3>1, <3>4
  <2>3. ASSUME NEW actor \in Users, NEW target \in Users,
               RevokeAdmin(actor, target) \/ BanUser(actor, target) \/ UnbanUser(actor, target)
        PROVE  FALSE
    <3>1. u \in Known /\ target \in Known
      BY <2>3 DEF RevokeAdmin, BanUser, UnbanUser, Known
    <3>2. users[target] = [role |-> users[target].role, banned |-> users[target].banned]
      BY <1>1, <3>1 DEF Inv, TypeOK
    <3>3. CASE RevokeAdmin(actor, target)
      BY <3>1, <3>2, <3>3 DEF RevokeAdmin, Known
    <3>4. CASE BanUser(actor, target)
      BY <3>1, <3>2, <3>4 DEF BanUser, Known
    <3>5. CASE UnbanUser(actor, target)
      BY <3>1, <3>2, <3>5 DEF UnbanUser, Known
    <3> QED
      BY <2>3, <3>3, <3>4, <3>5
  <2>4. ASSUME NEW actor \in Users, NEW name \in Predefined \cup CustomNames,
               NEW permissions \in CustomPermissions, CreateCustomRole(actor, name, permissions)
        PROVE  FALSE
    BY <2>4 DEF CreateCustomRole, Known
  <2>5. CASE UNCHANGED vars
    BY <2>5 DEF vars, Known
  <2> QED
    BY <1>1, <2>1, <2>2, <2>3, <2>4, <2>5 DEF Next
<1>2. Inv /\ [Next]_vars => [A]_vars
  BY <1>1
<1> HIDE DEF A
<1>3. Spec => [][A]_vars
  BY <1>2, Invariant, PTL DEF Spec
<1> QED
  BY <1>3 DEF OwnersComeFromOwners, A

----------------------------------------------------------------------------
\* Somebody in charge after a step that lets nobody get a role with the two
\* permissions, nor out of a ban, was in charge before it.
LEMMA NobodyPromoted ==
  ASSUME NEW w \in Known', ~ users'[w].banned,
         users'[w].role = "owner" \/ PermissionsOf(w)' \cap {BAN_USER, APPOINT_ADMIN} # {},
         w \in Known, users'[w].role = users[w].role, users[w].banned => users'[w].banned,
         roles'[users[w].role] = roles[users[w].role]
  PROVE  SomebodyInCharge
<1>1. PermissionsOf(w)' = PermissionsOf(w)
  BY DEF PermissionsOf
<1> QED
  BY <1>1 DEF SomebodyInCharge

(***************************************************************************)
(* Lock-out is for good: who is not in charge gets there by an appointment *)
(* or an unban only, both of which ask for somebody who is.                *)
(***************************************************************************)
THEOREM LockoutAlwaysForGood == Spec => LockoutIsForGood
<1>1. ASSUME Inv, [Next]_vars, SomebodyInCharge'
      PROVE  SomebodyInCharge
  <2>1. PICK w \in Known' :
          /\ ~ users'[w].banned
          /\ users'[w].role = "owner" \/ PermissionsOf(w)' \cap {BAN_USER, APPOINT_ADMIN} # {}
    BY <1>1 DEF SomebodyInCharge
  <2>2. roles["user"] \cap {BAN_USER, APPOINT_ADMIN} = {}
    <3>1. roles["user"] = {0, 1}
      BY <1>1, PredefinedRoles
         DEF Inv, RolesKept, RolePermissions, Basic, SEND_MESSAGE, RECEIVE_MESSAGE
    <3> QED
      BY <3>1 DEF BAN_USER, APPOINT_ADMIN
  <2>3. ASSUME roles' = roles, users'[w].role = "user"
        PROVE  FALSE
    BY <2>1, <2>2, <2>3 DEF PermissionsOf
  <2>4. ASSUME NEW x \in Users, RegisterUser(x)
        PROVE  SomebodyInCharge
    <3>1. CASE w = x
      BY <2>3, <2>4, <3>1 DEF RegisterUser, Known
    <3>2. CASE w # x
      <4>1. w \in Known /\ users'[w] = users[w] /\ roles' = roles
        BY <2>1, <2>4, <3>2 DEF RegisterUser, Known
      <4> QED
        BY <2>1, <4>1, NobodyPromoted
    <3> QED
      BY <3>1, <3>2
  <2>5. ASSUME NEW actor \in Users, NEW target \in Users, RevokeAdmin(actor, target)
        PROVE  SomebodyInCharge
    <3>1. /\ Known' = Known /\ w \in Known /\ roles' = roles /\ target \in Known
          /\ users' = [users EXCEPT ![target].role = "user"]
      BY <2>1, <2>5 DEF RevokeAdmin, Known
    <3>2. CASE w = target
      <4>1. users[w] = [role |-> users[w].role, banned |-> users[w].banned]
        BY <1>1, <3>1 DEF Inv, TypeOK
      <4>2. users'[w].role = "user"
        BY <3>1, <3>2, <4>1 DEF Known
      <4> QED
        BY <2>3, <3>1, <4>2
    <3>3. CASE w # target
      <4>1. users'[w] = users[w]
        BY <3>1, <3>3 DEF Known
      <4> QED
        BY <2>1, <3>1, <4>1, NobodyPromoted
    <3> QED
      BY <3>2, <3>3
  <2>6. ASSUME NEW actor \in Users, HasPermission(actor, APPOINT_ADMIN) \/ HasPermission(actor, BAN_USER)
        PROVE  SomebodyInCharge
    BY <2>6 DEF HasPermission, SomebodyInCharge
  <2>7. ASSUME NEW actor \in Users, NEW name \in Predefined \cup CustomNames,
               NEW permissions \in CustomPermissions, CreateCustomRole(actor, name, permissions)
        PROVE  SomebodyInCharge
    <3>1. w \in Known /\ users' = users
      BY <2>1, <2>7 DEF CreateCustomRole, Known
    <3>2. users[w].role \in DOMAIN roles /\ name \notin DOMAIN roles
      BY <1>1, <2>7, <3>1 DEF Inv, TypeOK, CreateCustomRole
    <3>3. roles'[users[w].role] = roles[users[w].role]
      BY <2>7, <3>2 DEF CreateCustomRole
    <3> QED
      BY <2>1, <3>1, <3>3, NobodyPromoted
  <2>8. CASE UNCHANGED vars
    BY <2>1, <2>8, NobodyPromoted DEF vars, Known
  <2> QED
    BY <1>1, <2>4, <2>5, <2>6, <2>7, <2>8 DEF Next, AppointAdmin, BanUser, UnbanUser
<1>2. Inv /\ [Next]_vars => [~ SomebodyInCharge => ~ SomebodyInCharge']_vars
  BY <1>1
<1> QED
  BY <1>2, Invariant, PTL DEF Spec, LockoutIsForGood
===============================================================================
