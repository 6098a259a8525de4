---------------------------- MODULE AdminConsole ----------------------------
(***************************************************************************)
(* AdminCLI of nanocell/admin/cli.py with its AccessControl and its        *)
(* AuthManager: the owner types commands, users log in and hold sessions,  *)
(* and a program around AccessControl lets other users act as well.        *)
(*                                                                         *)
(* All of it runs in one thread. Most commands are one operation with the  *)
(* owner as actor. appoint is two, and what the second one refuses is not  *)
(* undone in the first: command holds it in between.                       *)
(***************************************************************************)
EXTENDS AccessControl

CONSTANTS
  Tokens,         \* what secrets.token_hex returns, each value once at a time
  SessionLength,  \* 3600 seconds
  MaxTime,        \* (bound) the clock stops there
  None

\* role create asks for the basic permissions.
ASSUME BasicAssumption == Basic \in CustomPermissions
ASSUME SessionAssumption == SessionLength \in Nat /\ MaxTime \in Nat

VARIABLES
  sessions,     \* _sessions: token -> [user, expires]
  now,          \* time.time()
  command,      \* the appoint command that is half done, or None
  bannedSince   \* (ghost) when each banned user was banned

sessionVars == << sessions, now >>
consoleVars == << users, roles, delegated, sessions, now, command, bannedSince >>

ConsoleInit ==
  /\ Init
  /\ sessions = << >> /\ now = 0 /\ command = None
  /\ bannedSince = << >>

----------------------------------------------------------------------------
(* The operations of AccessControl. *)

\* Records when a user's ban begins; goes with every change of users.
NoteBans ==
  bannedSince' = [u \in {x \in DOMAIN users' : users'[x].banned} |->
                    IF u \in DOMAIN bannedSince THEN bannedSince[u] ELSE now]

BetweenCommands == command = None /\ UNCHANGED << sessions, now, command >>

\* What the other users do, and roles beyond those of the commands.
Operate ==
  /\ \/ \E actor \in Users \ {Owner}, target \in Users :
          \/ \E role \in Predefined \cup CustomNames : AppointAdmin(actor, target, role)
          \/ BanUser(actor, target)
          \/ UnbanUser(actor, target)
     \/ \E name \in Predefined \cup CustomNames, permissions \in CustomPermissions \ {Basic} :
          CreateCustomRole(Owner, name, permissions)
  /\ NoteBans /\ BetweenCommands

\* The commands that are one operation. kick, users, admins and stats change
\* nothing.
CmdRevoke(u) == RevokeAdmin(Owner, u) /\ NoteBans /\ BetweenCommands
CmdBan(u) == BanUser(Owner, u) /\ NoteBans /\ BetweenCommands
CmdUnban(u) == UnbanUser(Owner, u) /\ NoteBans /\ BetweenCommands
CmdRoleCreate(name) == CreateCustomRole(Owner, name, Basic) /\ NoteBans /\ BetweenCommands

MayAppoint(role) ==
  /\ HasPermission(Owner, APPOINT_ADMIN)
  /\ role \in DOMAIN roles
  /\ ~ Higher(roles[role], PermissionsOf(Owner))

AppointByOwner(target, role) == AppointAdmin(Owner, target, role)

\* appoint, for a user there is,
CmdAppointKnown(target, role) ==
  AppointByOwner(target, role) /\ NoteBans /\ BetweenCommands

\* and for another one, whom it registers first.
CmdAppoint(target, role) ==
  /\ command = None
  /\ RegisterUser(target)
  /\ command' = [target |-> target, role |-> role]
  /\ NoteBans /\ UNCHANGED sessionVars

\* Then it appoints him. Refused, it leaves him registered.
CmdAppointEnd ==
  /\ command # None
  /\ \/ AppointByOwner(command.target, command.role)
     \/ (~ MayAppoint(command.role) /\ UNCHANGED vars)
  /\ command' = None
  /\ NoteBans /\ UNCHANGED sessionVars

----------------------------------------------------------------------------
(* AuthManager. *)

\* Registers who asks; of a user there is, it changes only what is not modelled.
Authenticate(u) ==
  RegisterUser(u) /\ NoteBans /\ BetweenCommands

\* Mutant: who was registered once may log in.
MayAlwaysLogIn(u) == u \in Known

\* Mutant: a user there is not may log in.
MayLogInUnknown(u) == u \in Known => ~ users[u].banned

MayLogIn(u) == u \in Known /\ ~ users[u].banned

CreateSession(u, t) ==
  /\ MayLogIn(u)
  /\ t \notin DOMAIN sessions
  /\ sessions' = [s \in DOMAIN sessions \cup {t} |->
                    IF s = t THEN [user |-> u, expires |-> now + SessionLength] ELSE sessions[s]]
  /\ command = None
  /\ UNCHANGED << vars, now, command, bannedSince >>

Expired(t) == now > sessions[t].expires

WithoutSession(t) == [s \in DOMAIN sessions \ {t} |-> sessions[s]]

\* The only place that looks at the clock: a session nobody validates stays.
ValidateSession(t) ==
  /\ t \in DOMAIN sessions
  /\ Expired(t)
  /\ sessions' = WithoutSession(t)
  /\ command = None
  /\ UNCHANGED << vars, now, command, bannedSince >>

DestroySession(t) ==
  /\ t \in DOMAIN sessions
  /\ sessions' = WithoutSession(t)
  /\ command = None
  /\ UNCHANGED << vars, now, command, bannedSince >>

Tick ==
  /\ now < MaxTime
  /\ now' = now + 1
  /\ UNCHANGED << vars, sessions, command, bannedSince >>

ConsoleNext ==
  \/ Operate
  \/ \E u \in Users :
       \/ CmdRevoke(u) \/ CmdBan(u) \/ CmdUnban(u) \/ Authenticate(u)
       \/ \E role \in Predefined \cup CustomNames : CmdAppointKnown(u, role) \/ CmdAppoint(u, role)
  \/ CmdAppointEnd
  \/ \E name \in Predefined \cup CustomNames : CmdRoleCreate(name)
  \/ \E t \in Tokens :
       \/ \E u \in Users : CreateSession(u, t)
       \/ ValidateSession(t)
       \/ DestroySession(t)
  \/ Tick

ConsoleSpec == ConsoleInit /\ [][ConsoleNext]_consoleVars

----------------------------------------------------------------------------
(* Type invariant. *)
ConsoleTypeOK ==
  /\ \A t \in DOMAIN sessions :
       /\ t \in Tokens /\ sessions[t].user \in Known
       /\ sessions[t].expires \in 0 .. now + SessionLength
  /\ now \in 0 .. MaxTime
  /\ command # None => command.target \in Known /\ command.role \in Predefined \cup CustomNames
  /\ DOMAIN bannedSince = {u \in Known : users[u].banned}
  /\ \A u \in DOMAIN bannedSince : bannedSince[u] \in 0 .. now

(***************************************************************************)
(* A ban does not end a session: validate_session does not look at the     *)
(* user. It takes hold when the session expires, so nobody is let in by a  *)
(* session longer than its hour after he was banned.                       *)
(***************************************************************************)
BanTakesHold ==
  \A t \in DOMAIN sessions :
    LET u == sessions[t].user
    IN  ~ Expired(t) /\ users[u].banned => now - bannedSince[u] <= SessionLength
===============================================================================
