------------------------------- MODULE Accounts -------------------------------
(***************************************************************************)
(* First-run setup, sign-in, invitations and applications: the handlers of *)
(* the management API that create what every other table refers to.        *)
(*                                                                         *)
(* Each handler issues its statements one by one, outside a transaction,   *)
(* so callers interleave between them and a call may break off after any.  *)
(* Passwords are right or not worth a step; the login limiter's refusals   *)
(* and an expired cookie are logins and sessions that do not happen.       *)
(***************************************************************************)
EXTENDS Integers, FiniteSets, FiniteSetsExt

CONSTANTS
  Callers, Emails, Names,
  MaxOrgs, MaxUsers, MaxApps

VARIABLES
  orgs,      \* organizations, numbered as they are created
  users,     \* rows [org, email, role]
  sessions,  \* Redis: the signed-in users
  apps,      \* rows [org, slug, status], a slug being [name, n]
  call,      \* per caller, the request its handler is in the middle of
  broken     \* history: organizations whose setup broke off

accountVars == <<orgs, users, sessions, apps, call, broken>>

Free == [at |-> "free"]

AccountsInit ==
  /\ orgs = {} /\ users = {} /\ sessions = {} /\ apps = {} /\ broken = {}
  /\ call = [c \in Callers |-> Free]

Return(c) == call' = [call EXCEPT ![c] = Free]
Goto(c, step) == call' = [call EXCEPT ![c] = step]

-----------------------------------------------------------------------------
(* Rows and their unique indexes *)

(* Users.GetByEmail: any organization's. *)
Known(email) == \E u \in users : u.email = email

(* Users.Create, under UNIQUE (org_id, email). *)
CreateUser_Unindexed(user) == users' = users \cup {user}
CreateUser(user) ==
  /\ ~\E u \in users : u.org = user.org /\ u.email = user.email
  /\ users' = users \cup {user}

(* UniqueSlug: the first of name, name-2, name-3, ... that is free. *)
UniqueSlug(org, name) ==
  LET taken == {a.slug : a \in {b \in apps : b.org = org}}
  IN <<name, Min({n \in 1..MaxApps + 1 : <<name, n>> \notin taken})>>

(* Applications.Create, under UNIQUE (org_id, slug). *)
CreateApp(app) ==
  /\ ~\E a \in apps : a.org = app.org /\ a.slug = app.slug
  /\ apps' = apps \cup {app}

-----------------------------------------------------------------------------
(* Handlers *)

(* handleSetup: is there an organization yet? *)
Setup(c, email) ==
  /\ call[c] = Free /\ orgs = {}
  /\ Goto(c, [at |-> "create_org", email |-> email])
  /\ UNCHANGED <<orgs, users, sessions, apps, broken>>

(* Orgs.Create: nothing keeps a second caller from creating another. *)
SetupOrg(c) ==
  /\ call[c].at = "create_org" /\ Cardinality(orgs) < MaxOrgs
  /\ LET org == Cardinality(orgs) + 1
     IN /\ orgs' = orgs \cup {org}
        /\ Goto(c, [at |-> "create_owner", org |-> org, email |-> call[c].email])
  /\ UNCHANGED <<users, sessions, apps, broken>>

SetupOwner(c) ==
  /\ call[c].at = "create_owner"
  /\ LET user == [org |-> call[c].org, email |-> call[c].email, role |-> "owner"]
     IN CreateUser(user) /\ Goto(c, [at |-> "sign_in", user |-> user])
  /\ UNCHANGED <<orgs, sessions, apps, broken>>

(* Sessions.Create, the end of setup and of handleLogin. *)
SignIn(c) ==
  /\ call[c].at = "sign_in"
  /\ sessions' = sessions \cup {call[c].user}
  /\ Return(c)
  /\ UNCHANGED <<orgs, users, apps, broken>>

(* handleLogin, up to the password: the user is any with that email. *)
Login(c) ==
  /\ call[c] = Free
  /\ \E u \in users : Goto(c, [at |-> "sign_in", user |-> u])
  /\ UNCHANGED <<orgs, users, sessions, apps, broken>>

(* handleLogout, or the session's TTL. *)
Logout ==
  /\ \E s \in sessions : sessions' = sessions \ {s}
  /\ UNCHANGED <<orgs, users, apps, call, broken>>

(* handleInviteUser: the email must be new, then the user is created. *)
Invite(c, email, role) ==
  /\ call[c] = Free /\ ~Known(email)
  /\ \E s \in sessions : Goto(c, [at |-> "create_user", user |-> [org |-> s.org, email |-> email, role |-> role]])
  /\ UNCHANGED <<orgs, users, sessions, apps, broken>>
InviteUser(c) ==
  /\ call[c].at = "create_user" /\ Cardinality(users) < MaxUsers
  /\ CreateUser(call[c].user)
  /\ Return(c)
  /\ UNCHANGED <<orgs, sessions, apps, broken>>

(* handleCreateApplication: the slug is found, then used. *)
CreateApplication(c, name) ==
  /\ call[c] = Free
  /\ \E s \in sessions : Goto(c, [at |-> "create_app",
       app |-> [org |-> s.org, slug |-> UniqueSlug(s.org, name), status |-> "active"]])
  /\ UNCHANGED <<orgs, users, sessions, apps, broken>>
InsertApplication(c) ==
  /\ call[c].at = "create_app" /\ Cardinality(apps) < MaxApps
  /\ CreateApp(call[c].app)
  /\ Return(c)
  /\ UNCHANGED <<orgs, users, sessions, broken>>

(* setApplicationStatus, of an application of the caller's organization. *)
SetApplicationStatus(status) ==
  /\ \E s \in sessions, a \in apps :
       /\ a.org = s.org
       /\ apps' = (apps \ {a}) \cup {[a EXCEPT !.status = status]}
  /\ UNCHANGED <<orgs, users, sessions, call, broken>>

(* A statement fails, a unique index refuses it, or the process stops. *)
BreakOff(c) ==
  /\ call[c] # Free
  /\ Return(c)
  /\ broken' = IF call[c].at = "create_owner" THEN broken \cup {call[c].org} ELSE broken
  /\ UNCHANGED <<orgs, users, sessions, apps>>

AccountsNext ==
  \/ \E c \in Callers :
       \/ \E email \in Emails : Setup(c, email) \/ \E role \in {"owner", "member"} : Invite(c, email, role)
       \/ SetupOrg(c) \/ SetupOwner(c) \/ SignIn(c) \/ Login(c) \/ InviteUser(c) \/ BreakOff(c)
       \/ (\E name \in Names : CreateApplication(c, name)) \/ InsertApplication(c)
  \/ Logout
  \/ \E status \in {"active", "archived"} : SetApplicationStatus(status)

AccountsSpec == AccountsInit /\ [][AccountsNext]_accountVars
-----------------------------------------------------------------------------
(* Whatever calls overlap or break off: every organization has an owner    *)
(* unless its setup is under way or broke off before there was one; every  *)
(* session and every application belongs to rows that exist; and within an *)
(* organization an email names one user and a slug one application, though *)
(* both are looked up one statement before they are taken.                 *)
AccountsAreWhole ==
  /\ \A o \in orgs :
       \/ \E u \in users : u.org = o /\ u.role = "owner"
       \/ o \in broken \/ \E c \in Callers : call[c].at = "create_owner" /\ call[c].org = o
  /\ sessions \subseteq users /\ \A a \in apps : a.org \in orgs
  /\ \A u, v \in users : u.org = v.org /\ u.email = v.email => u = v
  /\ \A a, b \in apps : a.org = b.org /\ a.slug = b.slug => a = b
=============================================================================
