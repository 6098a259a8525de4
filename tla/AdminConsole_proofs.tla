------------------------- MODULE AdminConsole_proofs -------------------------
(***************************************************************************)
(* What AccessControl_proofs proves of roles holds under the console; and  *)
(* a ban takes hold within the length of a session.                        *)
(***************************************************************************)
EXTENDS AdminConsole, AccessControl_proofs

CommandOK ==
  command # None => command.target \in Users /\ command.role \in Predefined \cup CustomNames

Command == Operate \/ (\E u \in Users : CmdRevoke(u) \/ CmdBan(u) \/ CmdUnban(u) \/ Authenticate(u))
           \/ (\E u \in Users, role \in Predefined \cup CustomNames : CmdAppointKnown(u, role))
           \/ (\E name \in Predefined \cup CustomNames : CmdRoleCreate(name))

\* Outside appoint's two halves the console makes one step of AccessControl at
\* a time; the permissions role create gives are among those that may be given.
LEMMA CommandStep ==
  ASSUME Command
  PROVE  Next /\ NoteBans /\ UNCHANGED << sessions, now, command >>
<1>1. CASE Operate
  BY <1>1, OwnerAssumption DEF Operate, Next, BetweenCommands
<1>2. ASSUME NEW u \in Users, CmdRevoke(u) \/ CmdBan(u) \/ CmdUnban(u) \/ Authenticate(u)
      PROVE  Next /\ NoteBans /\ UNCHANGED << sessions, now, command >>
  BY <1>2, OwnerAssumption
     DEF CmdRevoke, CmdBan, CmdUnban, Authenticate, Next, BetweenCommands
<1>3. ASSUME NEW u \in Users, NEW role \in Predefined \cup CustomNames, CmdAppointKnown(u, role)
      PROVE  Next /\ NoteBans /\ UNCHANGED << sessions, now, command >>
  BY <1>3, OwnerAssumption DEF CmdAppointKnown, AppointByOwner, Next, BetweenCommands
<1>4. ASSUME NEW name \in Predefined \cup CustomNames, CmdRoleCreate(name)
      PROVE  Next /\ NoteBans /\ UNCHANGED << sessions, now, command >>
  BY <1>4, OwnerAssumption, BasicAssumption DEF CmdRoleCreate, Next, BetweenCommands
<1>. QED
  BY <1>1, <1>2, <1>3, <1>4 DEF Command

\* appoint registers in one step and appoints, or not, in the next.
LEMMA AppointStep ==
  ASSUME CommandOK,
         (\E u \in Users, role \in Predefined \cup CustomNames : CmdAppoint(u, role)) \/ CmdAppointEnd
  PROVE  [Next]_vars /\ NoteBans /\ UNCHANGED << sessions, now >> /\ CommandOK'
<1>1. ASSUME NEW u \in Users, NEW role \in Predefined \cup CustomNames, CmdAppoint(u, role)
      PROVE  [Next]_vars /\ NoteBans /\ UNCHANGED << sessions, now >> /\ CommandOK'
  <2>1. RegisterUser(u) /\ NoteBans /\ UNCHANGED << sessions, now >>
    BY <1>1 DEF CmdAppoint, sessionVars
  <2>2. CommandOK'
    BY <1>1 DEF CmdAppoint, CommandOK
  <2>. QED
    BY <2>1, <2>2 DEF Next
<1>2. CASE CmdAppointEnd
  <2>1. NoteBans /\ UNCHANGED << sessions, now >> /\ CommandOK'
    BY <1>2 DEF CmdAppointEnd, sessionVars, CommandOK
  <2>2. command.target \in Users /\ command.role \in Predefined \cup CustomNames
    BY <1>2 DEF CmdAppointEnd, CommandOK
  <2>3. AppointAdmin(Owner, command.target, command.role) \/ UNCHANGED vars
    BY <1>2 DEF CmdAppointEnd, AppointByOwner
  <2>. QED
    BY <2>1, <2>2, <2>3, OwnerAssumption DEF Next
<1>. QED
  BY <1>1, <1>2

SessionStep ==
  \/ \E t \in Tokens : (\E u \in Users : CreateSession(u, t)) \/ ValidateSession(t) \/ DestroySession(t)
  \/ Tick

LEMMA StepKinds ==
  ASSUME [ConsoleNext]_consoleVars
  PROVE  \/ Command
         \/ (\E u \in Users, role \in Predefined \cup CustomNames : CmdAppoint(u, role))
         \/ CmdAppointEnd
         \/ SessionStep
         \/ UNCHANGED consoleVars
  BY DEF ConsoleNext, Command, SessionStep

LEMMA SessionStepUnchanged ==
  ASSUME SessionStep
  PROVE  UNCHANGED << vars, command, bannedSince >>
  BY DEF SessionStep, CreateSession, ValidateSession, DestroySession, Tick

LEMMA ConsoleStep ==
  ASSUME CommandOK, [ConsoleNext]_consoleVars
  PROVE  [Next]_vars /\ CommandOK'
<1>1. CASE Command
  BY <1>1, CommandStep DEF CommandOK
<1>2. CASE (\E u \in Users, role \in Predefined \cup CustomNames : CmdAppoint(u, role)) \/ CmdAppointEnd
  BY <1>2, AppointStep
<1>3. CASE SessionStep
  BY <1>3, SessionStepUnchanged DEF CommandOK
<1>4. CASE UNCHANGED consoleVars
  BY <1>4 DEF consoleVars, vars, CommandOK
<1>. QED
  BY <1>1, <1>2, <1>3, <1>4, StepKinds

LEMMA CommandInvariant == ConsoleSpec => []CommandOK
<1>1. ConsoleInit => CommandOK
  BY DEF ConsoleInit, CommandOK
<1>2. CommandOK /\ [ConsoleNext]_consoleVars => CommandOK'
  BY ConsoleStep
<1>. QED
  BY <1>1, <1>2, PTL DEF ConsoleSpec

\* To users and roles the console does only what AccessControl allows.
LEMMA ConsoleStepsAllowed == ConsoleSpec => Spec
<1>1. ConsoleInit => Init
  BY DEF ConsoleInit
<1>2. CommandOK /\ [ConsoleNext]_consoleVars => [Next]_vars
  BY ConsoleStep
<1>. QED
  BY <1>1, <1>2, CommandInvariant, PTL DEF ConsoleSpec, Spec

(***************************************************************************)
(* Whatever commands the owner gives and whoever else acts, he keeps his   *)
(* role until he delegates.                                                *)
(***************************************************************************)
THEOREM OwnerKeepsConsole == ConsoleSpec => []OwnerKeepsControl
  BY ConsoleStepsAllowed, OwnerAlwaysKeepsControl, PTL

(***************************************************************************)
(* Nor does anything the console adds (commands, logins, appoint in two    *)
(* steps) end a lock-out.                                                  *)
(***************************************************************************)
THEOREM LockoutOfConsoleForGood == ConsoleSpec => LockoutIsForGood
  BY ConsoleStepsAllowed, LockoutAlwaysForGood, PTL

----------------------------------------------------------------------------
(***************************************************************************)
(* The inductive invariant of BanTakesHold. A session of a user who is     *)
(* banned was made before his ban, so it ends no later than a session      *)
(* length after that.                                                      *)
(***************************************************************************)
MadeBeforeBan ==
  \A t \in DOMAIN sessions :
    LET u == sessions[t].user
    IN  users[u].banned => sessions[t].expires <= bannedSince[u] + SessionLength

BansNoted ==
  /\ now \in Nat
  /\ DOMAIN bannedSince = {u \in Known : users[u].banned}
  /\ \A u \in DOMAIN bannedSince : bannedSince[u] \in 0 .. now

SessionsOK ==
  \A t \in DOMAIN sessions :
    /\ t \in Tokens /\ sessions[t].user \in Known
    /\ sessions[t].expires \in 0 .. now + SessionLength

SessionInv == BansNoted /\ SessionsOK /\ MadeBeforeBan

\* No operation forgets a user.
LEMMA KnownGrows ==
  ASSUME TypeOK, [Next]_vars
  PROVE  Known \subseteq Known'
  BY DEF TypeOK, Next, vars, Known, RegisterUser, AppointAdmin, RevokeAdmin, BanUser, UnbanUser,
         CreateCustomRole

LEMMA NoteBansInv ==
  ASSUME TypeOK, TypeOK', [Next]_vars, SessionInv, NoteBans, UNCHANGED << sessions, now >>
  PROVE  SessionInv'
<1>1. Known \subseteq Known'
  BY KnownGrows
<1>2. DOMAIN bannedSince' = {x \in Known' : users'[x].banned}
  BY DEF NoteBans, Known
<1>3. \A u \in DOMAIN bannedSince' :
        bannedSince'[u] = IF u \in DOMAIN bannedSince THEN bannedSince[u] ELSE now
  BY DEF NoteBans
<1>4. BansNoted'
  BY <1>2, <1>3 DEF SessionInv, BansNoted
<1>5. SessionsOK'
  BY <1>1 DEF SessionInv, SessionsOK
<1>6. MadeBeforeBan'
  <2> SUFFICES ASSUME NEW t \in DOMAIN sessions, users'[sessions[t].user].banned
               PROVE  sessions[t].expires <= bannedSince'[sessions[t].user] + SessionLength
    BY DEF MadeBeforeBan
  <2> DEFINE u == sessions[t].user
  <2>1. u \in Known /\ u \in DOMAIN bannedSince'
    BY <1>1, <1>2 DEF SessionInv, SessionsOK
  <2>2. CASE u \in DOMAIN bannedSince
    BY <2>1, <2>2, <1>3 DEF SessionInv, BansNoted, MadeBeforeBan
  <2>3. CASE u \notin DOMAIN bannedSince
    BY <2>1, <2>3, <1>3 DEF SessionInv, SessionsOK
  <2>. QED
    BY <2>2, <2>3
<1>. QED
  BY <1>4, <1>5, <1>6 DEF SessionInv

LEMMA SessionStepInv ==
  ASSUME SessionInv, SessionStep
  PROVE  SessionInv'
<1>0. UNCHANGED << users, roles, command, bannedSince >> /\ Known' = Known
  BY SessionStepUnchanged DEF vars, Known
<1>1. ASSUME NEW t \in Tokens, NEW u \in Users, CreateSession(u, t)
      PROVE  SessionInv'
  <2>1. now' = now /\ u \in Known /\ ~ users[u].banned
    BY <1>1 DEF CreateSession, MayLogIn
  <2>2. /\ DOMAIN sessions' = DOMAIN sessions \cup {t}
        /\ sessions'[t] = [user |-> u, expires |-> now + SessionLength]
        /\ \A s \in DOMAIN sessions : s # t /\ sessions'[s] = sessions[s]
    BY <1>1 DEF CreateSession
  <2>3. BansNoted'
    BY <1>0, <2>1 DEF SessionInv, BansNoted
  <2>4. SessionsOK'
    BY <1>0, <2>1, <2>2, SessionAssumption DEF SessionInv, BansNoted, SessionsOK
  <2>5. MadeBeforeBan'
    BY <1>0, <2>1, <2>2 DEF SessionInv, MadeBeforeBan
  <2>. QED
    BY <2>3, <2>4, <2>5 DEF SessionInv
<1>2. ASSUME NEW t \in Tokens, ValidateSession(t) \/ DestroySession(t)
      PROVE  SessionInv'
  <2>1. /\ DOMAIN sessions' \subseteq DOMAIN sessions
        /\ \A s \in DOMAIN sessions' : sessions'[s] = sessions[s]
        /\ now' = now
    BY <1>2 DEF ValidateSession, DestroySession, WithoutSession
  <2>. QED
    BY <1>0, <2>1 DEF SessionInv, BansNoted, SessionsOK, MadeBeforeBan
<1>3. CASE Tick
  <2>1. now' = now + 1 /\ sessions' = sessions
    BY <1>3 DEF Tick
  <2>2. BansNoted'
    BY <1>0, <2>1 DEF SessionInv, BansNoted
  <2>3. SessionsOK'
    BY <1>0, <2>1, SessionAssumption DEF SessionInv, BansNoted, SessionsOK
  <2>. QED
    BY <1>0, <2>1, <2>2, <2>3 DEF SessionInv, MadeBeforeBan
<1>. QED
  BY <1>1, <1>2, <1>3 DEF SessionStep

LEMMA BanInvStep ==
  ASSUME TypeOK, TypeOK', CommandOK, SessionInv, [ConsoleNext]_consoleVars
  PROVE  SessionInv'
<1>1. CASE Command
  BY <1>1, CommandStep, NoteBansInv
<1>2. CASE (\E u \in Users, role \in Predefined \cup CustomNames : CmdAppoint(u, role)) \/ CmdAppointEnd
  BY <1>2, AppointStep, NoteBansInv
<1>3. CASE SessionStep
  BY <1>3, SessionStepInv
<1>4. CASE UNCHANGED consoleVars
  BY <1>4 DEF consoleVars, SessionInv, BansNoted, SessionsOK, MadeBeforeBan, Known
<1>. QED
  BY <1>1, <1>2, <1>3, <1>4, StepKinds

LEMMA BanInvInit == ConsoleInit => SessionInv
  BY DEF ConsoleInit, Init, SessionInv, BansNoted, SessionsOK, MadeBeforeBan, Known

LEMMA BanInvariant == ConsoleSpec => []SessionInv
<1>1. ConsoleSpec => []TypeOK
  BY ConsoleStepsAllowed, TypeCorrect, PTL
<1>2. TypeOK /\ TypeOK' /\ CommandOK /\ SessionInv /\ [ConsoleNext]_consoleVars => SessionInv'
  BY BanInvStep
<1>. QED
  BY <1>1, <1>2, BanInvInit, CommandInvariant, PTL DEF ConsoleSpec

(***************************************************************************)
(* A session outlives the ban of its user by no more than its length,      *)
(* although nothing in a ban or in validate_session concerns the other.    *)
(***************************************************************************)
THEOREM BanAlwaysTakesHold == ConsoleSpec => []BanTakesHold
<1>1. ASSUME SessionInv
      PROVE  BanTakesHold
  <2> SUFFICES ASSUME NEW t \in DOMAIN sessions, ~ Expired(t), users[sessions[t].user].banned
               PROVE  now - bannedSince[sessions[t].user] <= SessionLength
    BY DEF BanTakesHold
  <2>1. sessions[t].user \in DOMAIN bannedSince
    BY <1>1 DEF SessionInv, BansNoted, SessionsOK
  <2>2. /\ now \in Int /\ SessionLength \in Int /\ sessions[t].expires \in Int
        /\ bannedSince[sessions[t].user] \in Int
    BY <1>1, <2>1, SessionAssumption DEF SessionInv, BansNoted, SessionsOK
  <2>3. now <= sessions[t].expires
    BY <2>2 DEF Expired
  <2>4. sessions[t].expires <= bannedSince[sessions[t].user] + SessionLength
    BY <1>1 DEF SessionInv, MadeBeforeBan
  <2>. QED
    BY <2>2, <2>3, <2>4
<1>. QED
  BY <1>1, BanInvariant, PTL

----------------------------------------------------------------------------
\* What ConsoleTypeOK says besides.
CommandKnown == command # None => command.target \in Known
ClockBounded == now <= MaxTime

LEMMA CommandKnownStep ==
  ASSUME TypeOK, CommandOK, CommandKnown, SessionInv, ClockBounded, [ConsoleNext]_consoleVars
  PROVE  CommandKnown' /\ ClockBounded'
<1>1. Known \subseteq Known'
  BY ConsoleStep, KnownGrows
<1>2. CASE Command
  BY <1>1, <1>2, CommandStep DEF CommandKnown, ClockBounded
<1>3. ASSUME NEW u \in Users, NEW role \in Predefined \cup CustomNames, CmdAppoint(u, role)
      PROVE  CommandKnown' /\ ClockBounded'
  <2>1. u \in Known' /\ command'.target = u /\ now' = now
    BY <1>3 DEF CmdAppoint, RegisterUser, Known, sessionVars
  <2>. QED
    BY <2>1 DEF CommandKnown, ClockBounded
<1>4. CASE CmdAppointEnd
  BY <1>4 DEF CmdAppointEnd, sessionVars, CommandKnown, ClockBounded
<1>5. CASE SessionStep
  <2>1. now' = now \/ (now < MaxTime /\ now' = now + 1)
    BY <1>5 DEF SessionStep, CreateSession, ValidateSession, DestroySession, Tick
  <2>2. now \in Int /\ MaxTime \in Int
    BY SessionAssumption DEF SessionInv, BansNoted
  <2>3. now' <= MaxTime
    BY <2>1, <2>2 DEF ClockBounded
  <2>. QED
    BY <1>1, <1>5, <2>3, SessionStepUnchanged DEF CommandKnown, ClockBounded
<1>6. CASE UNCHANGED consoleVars
  BY <1>6 DEF consoleVars, CommandKnown, ClockBounded, Known
<1>. QED
  BY <1>2, <1>3, <1>4, <1>5, <1>6, StepKinds

(***************************************************************************)
(* The state of the console keeps its type: in particular every session    *)
(* belongs to a user there is, and so does a half-done appointment.        *)
(***************************************************************************)
THEOREM ConsoleTypeCorrect == ConsoleSpec => []ConsoleTypeOK
<1>1. ConsoleSpec => []TypeOK
  BY ConsoleStepsAllowed, TypeCorrect, PTL
<1>2. ConsoleInit => CommandKnown /\ ClockBounded
  BY SessionAssumption DEF ConsoleInit, CommandKnown, ClockBounded
<1>3. TypeOK /\ CommandOK /\ SessionInv /\ CommandKnown /\ ClockBounded /\ [ConsoleNext]_consoleVars
        => CommandKnown' /\ ClockBounded'
  BY CommandKnownStep
<1>4. CommandOK /\ SessionInv /\ CommandKnown /\ ClockBounded => ConsoleTypeOK
  BY SessionAssumption
     DEF CommandOK, SessionInv, BansNoted, SessionsOK, CommandKnown, ClockBounded, ConsoleTypeOK
<1>. QED
  BY <1>1, <1>2, <1>3, <1>4, CommandInvariant, BanInvariant, PTL DEF ConsoleSpec
===============================================================================
