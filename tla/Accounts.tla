-------------------------------- MODULE Accounts --------------------------------
(***************************************************************************)
(* The users of the system and their sessions: UsersService and AuthService *)
(* (modules/users, modules/auth).                                           *)
(*                                                                          *)
(* A login reads the user, compares the password outside any transaction    *)
(* and then writes the counter it read plus one.  A user is created before  *)
(* its roles, one statement each.  A refresh token is the hash of a signed  *)
(* payload (user, role, second of issue), the unique key of refresh_tokens; *)
(* a refresh locks and replaces its row in one transaction.                 *)
(***************************************************************************)
EXTENDS Integers, Sequences, FiniteSets

CONSTANTS
  Member,        \* users
  LoginCall,     \* logins and creations in flight
  RoleName,      \* names of roles besides ADMIN and CUSTOMER
  MaxAttempts,   \* maxFailedAttempts
  Lifetime,      \* of a refresh token
  MaxTime,       \* bound on the clock
  MaxLogins      \* bound on the logins that succeed

ASSUME AccountsAssumption ==
  /\ MaxAttempts \in Nat \ {0} /\ Lifetime \in Nat \ {0}
  /\ MaxTime \in Nat /\ MaxLogins \in Nat
  /\ {"ADMIN", "CUSTOMER"} \cap RoleName = {}

VARIABLES
  user,        \* user[m]: status, failed_attempts, locked_until
  userRoles,   \* userRoles[m]: names of the roles user_roles gives m
  token,       \* rows of refresh_tokens, each with the login it descends from
  clock,
  loginCall,   \* loginCall[c]: what the login or creation c knows
  asked,       \* history: asked[m] is the set of role names m was created with
  failures,    \* history: wrong passwords given for m since its counter was reset
  raced,       \* history: users with two logins at a time
  logins       \* history: logins that succeeded

authVars == <<user, userRoles, token, clock, loginCall, asked, failures, raced, logins>>

AllRoles == RoleName \cup {"ADMIN", "CUSTOMER"}
Access == {"customer", "staff", "admin"}
NoLogin == [stage |-> "none"]
NoUser == [status |-> "none", attempts |-> 0, locked |-> "no"]

AccountsTypeOK ==
  /\ user \in [Member -> [status : {"none", "ACTIVE", "INACTIVE"},
                          attempts : Nat, locked : {"no", "until", "over"}]]
  /\ userRoles \in [Member -> SUBSET AllRoles]
  /\ token \subseteq [of : Member, role : Access, at : 0..MaxTime, login : 1..MaxLogins]
  /\ clock \in 0..MaxTime
  /\ \A c \in LoginCall :
       \/ loginCall[c] = NoLogin
       \/ loginCall[c] \in [stage : {"expired", "compare", "issue"}, of : Member,
                            attempts : Nat, roles : SUBSET AllRoles]
       \/ /\ loginCall[c].stage = "roles" /\ loginCall[c].of \in Member
          /\ loginCall[c].rest \in Seq(AllRoles)
  /\ asked \in [Member -> SUBSET AllRoles]
  /\ failures \in [Member -> Nat]
  /\ raced \subseteq Member /\ logins \in 0..MaxLogins

AccountsInit ==
  /\ user = [m \in Member |-> NoUser]
  /\ userRoles = [m \in Member |-> {}]
  /\ token = {} /\ clock = 0
  /\ loginCall = [c \in LoginCall |-> NoLogin]
  /\ asked = [m \in Member |-> {}]
  /\ failures = [m \in Member |-> 0]
  /\ raced = {} /\ logins = 0

-----------------------------------------------------------------------------
(* Creating users: the row, then the roles one at a time.                   *)

\* register asks for CUSTOMER, createStaffUser for the roles given, the
\* bootstrap for ADMIN; the address is unique.
Requests == {<<"CUSTOMER">>, <<"ADMIN">>} \cup {<<r>> : r \in RoleName}
              \cup {<<"CUSTOMER", r>> : r \in RoleName}

CreateUser(c, m, names) ==
  /\ loginCall[c] = NoLogin
  /\ user[m].status = "none"
  /\ user' = [user EXCEPT ![m].status = "ACTIVE"]
  /\ asked' = [asked EXCEPT ![m] = {names[i] : i \in DOMAIN names}]
  /\ loginCall' = [loginCall EXCEPT ![c] = [stage |-> "roles", of |-> m, rest |-> names]]
  /\ UNCHANGED <<userRoles, token, clock, failures, raced, logins>>

\* The bootstrap finds its user and gives it the role again.
BootstrapFinds(c, m) ==
  /\ loginCall[c] = NoLogin
  /\ user[m].status # "none" /\ "ADMIN" \in asked[m]
  /\ loginCall' = [loginCall EXCEPT ![c] = [stage |-> "roles", of |-> m, rest |-> <<"ADMIN">>]]
  /\ UNCHANGED <<user, userRoles, token, clock, asked, failures, raced, logins>>

AssignRole(c) ==
  /\ loginCall[c].stage = "roles"
  /\ LET call == loginCall[c] IN
     /\ userRoles' = [userRoles EXCEPT ![call.of] = @ \cup {Head(call.rest)}]
     /\ loginCall' = [loginCall EXCEPT ![c] =
          IF Tail(call.rest) = <<>> THEN NoLogin ELSE [call EXCEPT !.rest = Tail(@)]]
  /\ UNCHANGED <<user, token, clock, asked, failures, raced, logins>>

\* Deleting a role takes its user_roles with it.
DeleteRole(r) ==
  /\ \E m \in Member : r \in userRoles[m]
  /\ userRoles' = [m \in Member |-> userRoles[m] \ {r}]
  /\ UNCHANGED <<user, token, clock, loginCall, asked, failures, raced, logins>>

UpdateStatus(m, s) ==
  /\ user[m].status \notin {"none", s}
  /\ user' = [user EXCEPT ![m].status = s]
  /\ UNCHANGED <<userRoles, token, clock, loginCall, asked, failures, raced, logins>>

-----------------------------------------------------------------------------
(* Logging in.                                                              *)

LoggingIn(m) ==
  {c \in LoginCall : loginCall[c].stage \in {"expired", "compare", "issue"}
                       /\ loginCall[c].of = m}

\* A locked or inactive user is turned away here.
LoginReads(c, m) ==
  /\ loginCall[c] = NoLogin
  /\ user[m].status = "ACTIVE" /\ user[m].locked # "until"
  /\ LET over == user[m].locked = "over" IN
       loginCall' = [loginCall EXCEPT ![c] =
         [stage |-> IF over THEN "expired" ELSE "compare", of |-> m,
          attempts |-> IF over THEN 0 ELSE user[m].attempts, roles |-> userRoles[m]]]
  /\ raced' = IF LoggingIn(m) = {} THEN raced ELSE raced \cup {m}
  /\ UNCHANGED <<user, userRoles, token, clock, asked, failures, logins>>

ResetState(m) ==
  /\ user' = [user EXCEPT ![m].attempts = 0, ![m].locked = "no"]
  /\ failures' = [failures EXCEPT ![m] = 0]

LoginResets(c) ==
  /\ loginCall[c].stage = "expired"
  /\ ResetState(loginCall[c].of)
  /\ loginCall' = [loginCall EXCEPT ![c].stage = "compare"]
  /\ UNCHANGED <<userRoles, token, clock, asked, raced, logins>>

\* The password is wrong: the counter that was read plus one; a count below
\* the limit writes that the user is not locked.
LoginFails(c) ==
  /\ loginCall[c].stage = "compare"
  /\ LET m == loginCall[c].of   next == loginCall[c].attempts + 1 IN
     /\ user' = [user EXCEPT ![m].attempts = next,
                             ![m].locked = IF next >= MaxAttempts THEN "until" ELSE "no"]
     /\ failures' = [failures EXCEPT ![m] = @ + 1]
  /\ loginCall' = [loginCall EXCEPT ![c] = NoLogin]
  /\ UNCHANGED <<userRoles, token, clock, asked, raced, logins>>

LoginSucceeds(c) ==
  /\ loginCall[c].stage = "compare"
  /\ ResetState(loginCall[c].of)
  /\ loginCall' = [loginCall EXCEPT ![c].stage = "issue"]
  /\ UNCHANGED <<userRoles, token, clock, asked, raced, logins>>

resolveAccessRole(names) ==
  IF "ADMIN" \in names THEN "admin"
  ELSE IF names \subseteq {"CUSTOMER"} THEN "customer" ELSE "staff"

SameToken(t, m, role) == t.of = m /\ t.role = role /\ t.at = clock

\* A second token of the second is refused by the unique key.
LoginIssues(c) ==
  /\ loginCall[c].stage = "issue"
  /\ logins < MaxLogins
  /\ LET m == loginCall[c].of   role == resolveAccessRole(loginCall[c].roles) IN
       IF \E t \in token : SameToken(t, m, role)
       THEN UNCHANGED <<token, logins>>
       ELSE /\ logins' = logins + 1
            /\ token' = token \cup {[of |-> m, role |-> role, at |-> clock, login |-> logins + 1]}
  /\ loginCall' = [loginCall EXCEPT ![c] = NoLogin]
  /\ UNCHANGED <<user, userRoles, clock, asked, failures, raced>>

\* The process dies, or a statement fails, between two statements.
Abandoned(c) ==
  /\ loginCall[c] # NoLogin
  /\ loginCall' = [loginCall EXCEPT ![c] = NoLogin]
  /\ UNCHANGED <<user, userRoles, token, clock, asked, failures, raced, logins>>

-----------------------------------------------------------------------------
(* Sessions.                                                                *)

Usable(t) == t.at + Lifetime > clock /\ user[t.of].status = "ACTIVE"

\* Mutant: the exchanged token stays usable.
Kept(t) == token

\* What is left of the session's tokens when t was exchanged.
Without(t) == token \ {t}

\* The row is locked until the commit, so the transaction is one step; a token
\* the unique key refuses rolls the deletion back.
Refresh(t) ==
  /\ t \in token /\ Usable(t)
  /\ LET role == resolveAccessRole(userRoles[t.of]) IN
     /\ ~\E s \in token \ {t} : SameToken(s, t.of, role)
     /\ token' = Without(t)
          \cup {[of |-> t.of, role |-> role, at |-> clock, login |-> t.login]}
  /\ UNCHANGED <<user, userRoles, clock, loginCall, asked, failures, raced, logins>>

\* logout with a token, or of every session of the user.
Logout(gone) ==
  /\ gone \subseteq token /\ gone # {}
  /\ \/ Cardinality(gone) = 1
     \/ \E m \in Member : gone = {t \in token : t.of = m}
  /\ token' = token \ gone
  /\ UNCHANGED <<user, userRoles, clock, loginCall, asked, failures, raced, logins>>

\* A second passes; a lock may be over.
Tick ==
  /\ clock < MaxTime
  /\ clock' = clock + 1
  /\ UNCHANGED <<user, userRoles, token, loginCall, asked, failures, raced, logins>>

LockExpires(m) ==
  /\ user[m].locked = "until"
  /\ user' = [user EXCEPT ![m].locked = "over"]
  /\ UNCHANGED <<userRoles, token, clock, loginCall, asked, failures, raced, logins>>

AccountsNext ==
  \/ \E c \in LoginCall :
       \/ \E m \in Member :
            \/ \E names \in Requests : CreateUser(c, m, names)
            \/ BootstrapFinds(c, m) \/ LoginReads(c, m)
       \/ AssignRole(c) \/ LoginResets(c) \/ LoginFails(c) \/ LoginSucceeds(c)
       \/ LoginIssues(c) \/ Abandoned(c)
  \/ \E r \in AllRoles : DeleteRole(r)
  \/ \E m \in Member : LockExpires(m) \/ \E s \in {"ACTIVE", "INACTIVE"} : UpdateStatus(m, s)
  \/ \E t \in token : Refresh(t)
  \/ \E gone \in SUBSET token : Logout(gone)
  \/ Tick

AccountsSpec == AccountsInit /\ [][AccountsNext]_authVars

-----------------------------------------------------------------------------
(* Properties.                                                              *)

\* While the logins of a user come one after the other, its counter is the
\* number of wrong passwords since it was last reset, and it is locked exactly
\* when that number reached the limit, so nobody tries more of them
\* (recordFailedLoginAttempt, resetFailedLoginState; at a time, two failures
\* count as one and a late one unlocks, auth.service.ts:196).
LockFollowsFailures ==
  \A m \in Member \ raced :
    /\ user[m].attempts = failures[m]
    /\ user[m].locked # "no" <=> failures[m] >= MaxAttempts
    /\ failures[m] <= MaxAttempts

Rank(access) == CASE access = "customer" -> 0 [] access = "staff" -> 1 [] access = "admin" -> 2

\* A login has one refresh token at a time, however often it was refreshed,
\* and no token has more access than the roles its user was created with:
\* roles that were lost between two statements, or deleted, only take access
\* away (refresh, issueTokens, resolveAccessRole, createWithPasswordHash).
SessionsStayTheirs ==
  /\ \A s, t \in token : s.login = t.login => s = t
  /\ \A t \in token : Rank(t.role) <= Rank(resolveAccessRole(asked[t.of]))

\* What Accounts is about: the lock, and the sessions behind it.
AccountsAreSound == AccountsTypeOK /\ LockFollowsFailures /\ SessionsStayTheirs
===============================================================================
