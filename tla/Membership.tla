----------------------------- MODULE Membership -----------------------------
(***************************************************************************)
(* modules/auth and modules/members: registrations, new members and logins *)
(* that race for one email address.  users.email is unique over all        *)
(* tenants; a registration inserts tenant, user and membership in one      *)
(* transaction.  Rows of the tables are numbered in commit order.          *)
(***************************************************************************)
EXTENDS Naturals, Sequences, FiniteSets

CONSTANTS
    Callers,    \* concurrent requests
    Emails,     \* email addresses as clients type them
    LowerCase,  \* LowerCase[e]: e trimmed and in lower case
    MaxAborts   \* bound: transactions that fail or lose their connection

ASSUME MembershipAssumption ==
    /\ Emails # {}
    /\ LowerCase \in [Emails -> Emails]
    /\ \A e \in Emails : LowerCase[LowerCase[e]] = LowerCase[e]
    /\ MaxAborts \in Nat

VARIABLES
    users,        \* users.email, in commit order: a user is a position here
    tenants,      \* how many tenants have been committed
    memberships,  \* rows of memberships
    step,         \* the statement a caller executes next, or its answer
    call,         \* its request
    account,      \* the user a login has read, 0 if it found none
    aborts

memberVars == <<users, tenants, memberships, step, call, account, aborts>>

Role == {"OWNER", "ADMIN", "MEMBER"}

NoCall == [op |-> "none", email |-> CHOOSE e \in Emails : TRUE, tenant |-> 0, known |-> FALSE]

Ended == {"idle", "done", "conflict", "refused", "token"}

MemberInit ==
    /\ users = <<>>
    /\ tenants = 0
    /\ memberships = {}
    /\ step = [c \in Callers |-> "idle"]
    /\ call = [c \in Callers |-> NoCall]
    /\ account = [c \in Callers |-> 0]
    /\ aborts = 0

-----------------------------------------------------------------------------
\* Mutation: spaces are trimmed and the case is kept.
normalizeEmail_TrimOnly(e) == e

normalizeEmail(e) == LowerCase[e]

UserOf(email) == {u \in DOMAIN users : users[u] = normalizeEmail(email)}

\* c has inserted a user and has not committed it.
HoldsEmail(c, email) ==
    step[c] = "commit" /\ normalizeEmail(call[c].email) = normalizeEmail(email)

At(c, next) ==
    /\ step' = [step EXCEPT ![c] = next]
    /\ UNCHANGED call

\* requireRole("OWNER", "ADMIN") has let a member call through: its token is
\* from a login to the tenant.
StartCall(c, op, e, t) ==
    /\ step[c] \in Ended
    /\ op = "member" => \E m \in memberships : m.tenant = t /\ m.role \in {"OWNER", "ADMIN"}
    /\ call' = [call EXCEPT ![c] =
                   [op |-> op, email |-> e, tenant |-> t,
                    known |-> \E u \in DOMAIN users : users[u] = LowerCase[e]]]
    /\ step' = [step EXCEPT ![c] = CASE op = "register" -> "tenant"
                                     [] op = "member" -> "user"
                                     [] op = "login" -> "find"]
    /\ UNCHANGED <<users, tenants, memberships, account, aborts>>

\* Mutation: the tenant is inserted before the transaction.
InsertTenant_OwnTransaction(c) ==
    /\ step[c] = "tenant"
    /\ tenants' = tenants + 1
    /\ At(c, "user")
    /\ UNCHANGED <<users, memberships, account, aborts>>

\* The tenant is not visible before the registration commits.
InsertTenant(c) ==
    /\ step[c] = "tenant"
    /\ At(c, "user")
    /\ UNCHANGED <<users, tenants, memberships, account, aborts>>

\* INSERT INTO users waits for a transaction that has the email in flight;
\* 23505 rolls the tenant back and is answered 409 (errorHandler.js:18).
InsertUser(c) ==
    /\ step[c] = "user"
    /\ \A d \in Callers \ {c} : ~HoldsEmail(d, call[c].email)
    /\ At(c, IF UserOf(call[c].email) = {} THEN "commit" ELSE "conflict")
    /\ UNCHANGED <<users, tenants, memberships, account, aborts>>

CommitUser(c, tenant, role) ==
    /\ step[c] = "commit"
    /\ users' = Append(users, normalizeEmail(call[c].email))
    /\ memberships' = memberships \cup {[user |-> Len(users) + 1, tenant |-> tenant, role |-> role]}
    /\ At(c, "done")
    /\ UNCHANGED <<account, aborts>>

CommitRegistration(c) ==
    /\ call[c].op = "register"
    /\ CommitUser(c, tenants + 1, "OWNER")
    /\ tenants' = tenants + 1

CommitMember(c) ==
    /\ call[c].op = "member"
    /\ \E role \in {"ADMIN", "MEMBER"} : CommitUser(c, call[c].tenant, role)
    /\ UNCHANGED tenants

AbortCall(c) ==
    /\ step[c] \in {"user", "commit"}
    /\ aborts < MaxAborts
    /\ aborts' = aborts + 1
    /\ At(c, "idle")
    /\ UNCHANGED <<users, tenants, memberships, account>>

\* Mutation: a login looks the email up as the client typed it.
FindUser_AsTyped(c) ==
    LET found == {u \in DOMAIN users : users[u] = call[c].email} IN
    /\ step[c] = "find"
    /\ account' = [account EXCEPT ![c] = IF found = {} THEN 0 ELSE CHOOSE u \in found : TRUE]
    /\ At(c, IF found = {} THEN "refused" ELSE "membership")
    /\ UNCHANGED <<users, tenants, memberships, aborts>>

\* loginUser reads the user and, after bcrypt, the membership.  The password
\* is right: a wrong one is refused and changes nothing.
FindUser(c) ==
    LET found == UserOf(call[c].email) IN
    /\ step[c] = "find"
    /\ account' = [account EXCEPT ![c] = IF found = {} THEN 0 ELSE CHOOSE u \in found : TRUE]
    /\ At(c, IF found = {} THEN "refused" ELSE "membership")
    /\ UNCHANGED <<users, tenants, memberships, aborts>>

FindMembership(c) ==
    /\ step[c] = "membership"
    /\ account' = [account EXCEPT ![c] = 0]
    /\ At(c, IF \E m \in memberships : m.user = account[c] THEN "token" ELSE "refused")
    /\ UNCHANGED <<users, tenants, memberships, aborts>>

MemberNext ==
    \E c \in Callers :
        \/ \E e \in Emails : \/ StartCall(c, "register", e, 0) \/ StartCall(c, "login", e, 0)
                             \/ \E t \in 1 .. tenants : StartCall(c, "member", e, t)
        \/ InsertTenant(c) \/ InsertUser(c) \/ CommitRegistration(c) \/ CommitMember(c)
        \/ AbortCall(c) \/ FindUser(c) \/ FindMembership(c)

MemberSpec == MemberInit /\ [][MemberNext]_memberVars

-----------------------------------------------------------------------------
(* Properties *)

\* An email address, however it is spelt, has one user over all tenants,
\* although two registrations or a registration and a new member race for it.
OneUserPerEmail ==
    \A u, v \in DOMAIN users : LowerCase[users[u]] = LowerCase[users[v]] => u = v

\* README.md:570 "a user can belong to only one tenant".  Every user has one
\* membership, of a tenant that exists, and every tenant one OWNER: whoever
\* loses a race, or is rolled back halfway, leaves neither behind.
NothingIsOrphaned ==
    /\ \A u \in DOMAIN users : Cardinality({m \in memberships : m.user = u}) = 1
    /\ \A m \in memberships : m.user \in DOMAIN users /\ m.tenant \in 1 .. tenants
    /\ \A t \in 1 .. tenants :
          Cardinality({m \in memberships : m.tenant = t /\ m.role = "OWNER"}) = 1

\* A user who existed when a login began gets a token from it, however the
\* address is spelt: between its two reads a login never meets a user without
\* a membership.
UsersCanLogIn ==
    \A c \in Callers : call[c].op = "login" /\ call[c].known => step[c] # "refused"
=============================================================================
