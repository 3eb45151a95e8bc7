-------------------------- MODULE Services_proofs --------------------------
(***************************************************************************)
(* What holds of Membership, Shutdown, Limits and Ask for every value of   *)
(* their constants.                                                        *)
(***************************************************************************)
EXTENDS Membership, Shutdown, Limits, Ask, SumTheorems

-----------------------------------------------------------------------------
(* Membership: what a transaction that has its INSERT keeps from others *)

Call == [op: {"none", "register", "member", "login"}, email: Emails, tenant: Nat,
         known: BOOLEAN]

Statements ==
    {"idle", "tenant", "user", "commit", "done", "conflict", "find", "membership", "token", "refused"}

\* What is stored, and the statement a request may be at.
Types ==
    /\ users \in Seq(Emails)
    /\ tenants \in Nat
    /\ memberships \subseteq [user: Nat, tenant: Nat, role: Role]
    /\ call \in [Callers -> Call]
    /\ step \in [Callers -> Statements]
    /\ account \in [Callers -> Nat]
    /\ \A c \in Callers :
          /\ step[c] \in {"user", "commit"} => call[c].op \in {"register", "member"}
          /\ step[c] = "tenant" => call[c].op = "register"
          /\ step[c] \in {"find", "membership"} => call[c].op = "login"

\* Addresses are stored in lower case, each of them once.
Normalized ==
    /\ \A u \in DOMAIN users : LowerCase[users[u]] = users[u]
    /\ \A u, v \in DOMAIN users : users[u] = users[v] => u = v

\* A transaction past its INSERT has its address for itself: no committed user
\* has it, and no other transaction in flight.
EmailIsHeld ==
    \A c \in Callers : step[c] = "commit" =>
        /\ UserOf(call[c].email) = {}
        /\ \A d \in Callers : HoldsEmail(d, call[c].email) => d = c

\* A member call names a tenant that exists.
TenantExists ==
    \A c \in Callers : call[c].op = "member" => call[c].tenant \in 1 .. tenants

\* Rows of memberships point to rows, every user has one, and every tenant has
\* one with the role OWNER.
RowsMatch ==
    /\ \A m \in memberships : m.user \in DOMAIN users /\ m.tenant \in 1 .. tenants
    /\ \A u \in DOMAIN users : \E m \in memberships : m.user = u
    /\ \A m, n \in memberships : m.user = n.user => m = n
    /\ \A t \in 1 .. tenants : \E m \in memberships : m.tenant = t /\ m.role = "OWNER"
    /\ \A m, n \in memberships :
          m.tenant = n.tenant /\ m.role = "OWNER" /\ n.role = "OWNER" => m = n

\* A login whose user existed when it began finds that user.
LoginFinds ==
    \A c \in Callers : call[c].op = "login" =>
        /\ call[c].known => UserOf(call[c].email) # {} /\ step[c] # "refused"
        /\ step[c] = "membership" => account[c] \in DOMAIN users

Inv ==
    /\ Types
    /\ Normalized
    /\ EmailIsHeld
    /\ TenantExists
    /\ RowsMatch
    /\ LoginFinds

\* Before the first request there is nothing to be wrong.
LEMMA InitInv == MemberInit => Inv
<1> SUFFICES ASSUME MemberInit PROVE Inv
  OBVIOUS
<1> USE MembershipAssumption DEF MemberInit
<1>1. NoCall \in Call /\ NoCall.op = "none"
  BY DEF NoCall, Call
<1>2. Types
  BY <1>1 DEF Types, Statements
<1>3. Normalized /\ EmailIsHeld /\ RowsMatch
  BY DEF Normalized, EmailIsHeld, RowsMatch
<1>4. TenantExists /\ LoginFinds
  BY <1>1 DEF TenantExists, LoginFinds
<1> QED
  BY <1>2, <1>3, <1>4 DEF Inv

\* The rows of the tables, and what follows from them alone, are left alone by
\* every step that commits nothing.
LEMMA RowsKept ==
  ASSUME Inv, UNCHANGED <<users, tenants, memberships>>
  PROVE  Normalized' /\ RowsMatch'
BY DEF Inv, Normalized, RowsMatch

\* A new request.
LEMMA StartKeepsInv ==
  ASSUME Inv, NEW c \in Callers, NEW op \in {"register", "member", "login"},
         NEW e \in Emails, NEW t \in Nat,
         op = "member" => t \in 1 .. tenants,
         StartCall(c, op, e, t)
  PROVE  Inv'
<1> USE MembershipAssumption DEF Inv
<1> DEFINE new == [op |-> op, email |-> e, tenant |-> t,
                   known |-> \E u \in DOMAIN users : users[u] = LowerCase[e]]
<1>1. /\ step[c] \in Ended
      /\ call' = [call EXCEPT ![c] = new]
      /\ step' = [step EXCEPT ![c] = CASE op = "register" -> "tenant"
                                       [] op = "member" -> "user"
                                       [] op = "login" -> "find"]
      /\ UNCHANGED <<users, tenants, memberships, account, aborts>>
  BY DEF StartCall
<1>2. new \in Call
  BY DEF Call
<1>3. /\ step'[c] \in {"tenant", "user", "find"}
      /\ op = "register" => step'[c] = "tenant"
      /\ op = "member" => step'[c] = "user"
      /\ op = "login" => step'[c] = "find"
  BY <1>1 DEF Types
<1>4. /\ call'[c] = new
      /\ \A d \in Callers : d # c => call'[d] = call[d] /\ step'[d] = step[d]
  BY <1>1 DEF Types
<1> HIDE DEF new
<1>5. new.op = op /\ new.email = e /\ new.tenant = t
      /\ (new.known <=> \E u \in DOMAIN users : users[u] = LowerCase[e])
  BY DEF new
<1>6. Types'
  <2>1. call' \in [Callers -> Call] /\ step' \in [Callers -> Statements]
    BY <1>1, <1>2, <1>3 DEF Types, Statements
  <2> QED
    BY <1>1, <1>3, <1>4, <1>5, <2>1 DEF Types
<1>7. EmailIsHeld'
  BY <1>1, <1>3, <1>4 DEF EmailIsHeld, HoldsEmail, UserOf, normalizeEmail
<1>8. TenantExists'
  BY <1>1, <1>4, <1>5 DEF TenantExists
<1>9. LoginFinds'
  <2> SUFFICES ASSUME NEW d \in Callers, call'[d].op = "login"
               PROVE  /\ call'[d].known => UserOf(call[d].email)' # {} /\ step'[d] # "refused"
                      /\ step'[d] = "membership" => account[d] \in DOMAIN users
    BY <1>1 DEF LoginFinds
  <2>1. CASE d = c
    BY <2>1, <1>1, <1>3, <1>4, <1>5 DEF UserOf, normalizeEmail
  <2>2. CASE d # c
    BY <2>2, <1>1, <1>4 DEF LoginFinds, UserOf, normalizeEmail
  <2> QED
    BY <2>1, <2>2
<1> QED
  BY <1>1, <1>6, <1>7, <1>8, <1>9, RowsKept

\* The statements before a commit, and a rollback.
LEMMA WaitKeepsInv ==
  ASSUME Inv, NEW c \in Callers,
         InsertTenant(c) \/ InsertUser(c) \/ AbortCall(c)
  PROVE  Inv'
<1> USE MembershipAssumption DEF Inv, At
<1>1. PICK next \in {"user", "commit", "conflict", "idle"} :
        /\ step' = [step EXCEPT ![c] = next]
        /\ next = "user" => step[c] = "tenant"
        /\ next = "commit" => InsertUser(c)
        /\ next # "user" => step[c] \in {"user", "commit"}
  BY DEF InsertTenant, InsertUser, AbortCall
<1>2. UNCHANGED <<users, tenants, memberships, call, account>>
  BY DEF InsertTenant, InsertUser, AbortCall
<1>3. step'[c] = next /\ \A d \in Callers : d # c => step'[d] = step[d]
  BY <1>1 DEF Types
<1>4. call[c].op \in {"register", "member"}
  BY <1>1 DEF Types
<1>5. Types'
  <2>1. step' \in [Callers -> Statements]
    BY <1>1 DEF Types, Statements
  <2> QED
    BY <1>1, <1>2, <1>3, <1>4, <2>1 DEF Types
<1>6. EmailIsHeld'
  <2> USE DEF EmailIsHeld, HoldsEmail, UserOf, normalizeEmail
  <2>1. CASE next = "commit"
    <3>1. /\ UserOf(call[c].email) = {}
          /\ \A d \in Callers \ {c} : ~HoldsEmail(d, call[c].email)
      BY <1>1, <2>1 DEF InsertUser, Types
    <3> QED
      BY <1>2, <1>3, <2>1, <3>1
  <2>2. CASE next # "commit"
    BY <1>2, <1>3, <2>2
  <2> QED
    BY <2>1, <2>2
<1>7. TenantExists'
  BY <1>2 DEF TenantExists
<1>8. LoginFinds'
  BY <1>2, <1>3, <1>4 DEF LoginFinds, UserOf, normalizeEmail
<1> QED
  BY <1>2, <1>5, <1>6, <1>7, <1>8, RowsKept

\* A login reads, and writes nothing.
LEMMA LoginKeepsInv ==
  ASSUME Inv, NEW c \in Callers, FindUser(c) \/ FindMembership(c)
  PROVE  Inv'
<1> USE MembershipAssumption DEF Inv, At
<1>1. call[c].op = "login"
  BY DEF FindUser, FindMembership, Types
<1>2. UNCHANGED <<users, tenants, memberships, call>>
  BY DEF FindUser, FindMembership
<1>3. PICK next \in {"refused", "membership", "token"}, found \in Nat :
        /\ step' = [step EXCEPT ![c] = next]
        /\ account' = [account EXCEPT ![c] = found]
        /\ next = "membership" => found \in DOMAIN users
        /\ call[c].known => next # "refused"
  <2>1. CASE FindUser(c)
    <3> DEFINE S == UserOf(call[c].email)
               found == IF S = {} THEN 0 ELSE CHOOSE u \in S : TRUE
    <3>1. S \subseteq DOMAIN users /\ DOMAIN users \subseteq Nat
      BY DEF UserOf, Types
    <3>2. found \in Nat /\ (S # {} => found \in DOMAIN users)
      BY <3>1
    <3>3. call[c].known => S # {}
      BY <1>1 DEF LoginFinds
    <3>4. /\ step' = [step EXCEPT ![c] = IF S = {} THEN "refused" ELSE "membership"]
          /\ account' = [account EXCEPT ![c] = found]
      BY <2>1 DEF FindUser
    <3> HIDE DEF S, found
    <3>5. CASE S = {}
      BY <3>2, <3>3, <3>4, <3>5
    <3>6. CASE S # {}
      BY <3>2, <3>3, <3>4, <3>6
    <3> QED
      BY <3>5, <3>6
  <2>2. CASE FindMembership(c)
    <3>1. \E m \in memberships : m.user = account[c]
      BY <1>1, <2>2 DEF FindMembership, LoginFinds, RowsMatch
    <3> QED
      BY <2>2, <3>1 DEF FindMembership
  <2> QED
    BY <2>1, <2>2
<1>4. /\ step'[c] = next /\ account'[c] = found
      /\ \A d \in Callers : d # c => step'[d] = step[d] /\ account'[d] = account[d]
  BY <1>3 DEF Types
<1>5. Types'
  <2>1. step' \in [Callers -> Statements] /\ account' \in [Callers -> Nat]
    BY <1>3 DEF Types, Statements
  <2> QED
    BY <1>1, <1>2, <1>4, <2>1 DEF Types
<1>6. EmailIsHeld'
  BY <1>2, <1>4 DEF EmailIsHeld, HoldsEmail, UserOf, normalizeEmail
<1>7. TenantExists'
  BY <1>2 DEF TenantExists
<1>8. LoginFinds'
  BY <1>2, <1>3, <1>4 DEF LoginFinds, UserOf, normalizeEmail
<1> QED
  BY <1>2, <1>5, <1>6, <1>7, <1>8, RowsKept

\* The commit of a registration, which brings its tenant, or of a new member.
LEMMA CommitKeepsInv ==
  ASSUME Inv, NEW c \in Callers, CommitRegistration(c) \/ CommitMember(c)
  PROVE  Inv'
<1> USE MembershipAssumption DEF Inv, At
<1> DEFINE email == normalizeEmail(call[c].email)
           u == Len(users) + 1
<1>1. PICK tenant \in Nat, role \in Role :
        /\ CommitUser(c, tenant, role)
        /\ \/ role = "OWNER" /\ tenant = tenants + 1 /\ tenants' = tenants + 1
           \/ role # "OWNER" /\ tenant \in 1 .. tenants /\ tenants' = tenants
  <2>1. CASE CommitRegistration(c)
    <3>1. tenants + 1 \in Nat /\ "OWNER" \in Role
      BY DEF Types, Role
    <3> QED
      BY <2>1, <3>1 DEF CommitRegistration
  <2>2. CASE CommitMember(c)
    <3>1. PICK role \in {"ADMIN", "MEMBER"} : CommitUser(c, call[c].tenant, role)
      BY <2>2 DEF CommitMember
    <3>2. call[c].tenant \in 1 .. tenants /\ call[c].tenant \in Nat /\ tenants' = tenants
      BY <2>2 DEF CommitMember, TenantExists, Types
    <3> QED
      BY <3>1, <3>2 DEF Role
  <2> QED
    BY <2>1, <2>2
<1> DEFINE row == [user |-> u, tenant |-> tenant, role |-> role]
<1>2. /\ step[c] = "commit"
      /\ users' = Append(users, email)
      /\ memberships' = memberships \cup {row}
      /\ step' = [step EXCEPT ![c] = "done"]
      /\ UNCHANGED <<call, account>>
  BY <1>1 DEF CommitUser
<1>3. email \in Emails /\ LowerCase[email] = email /\ u \in Nat
  BY DEF Types, Call, normalizeEmail
<1>4. /\ DOMAIN users' = DOMAIN users \cup {u} /\ u \notin DOMAIN users
      /\ users'[u] = email /\ \A v \in DOMAIN users : users'[v] = users[v]
      /\ users' \in Seq(Emails)
  BY <1>2, <1>3 DEF Types
<1>5. step'[c] = "done" /\ \A d \in Callers : d # c => step'[d] = step[d]
  BY <1>2 DEF Types
<1>6. row.user = u /\ row.tenant = tenant /\ row.role = role
      /\ row \in [user: Nat, tenant: Nat, role: Role]
  BY <1>3
<1>7. call[c].op \in {"register", "member"}
  BY <1>2 DEF Types
<1> HIDE DEF email, u, row
<1>8. Types'
  <2>1. step' \in [Callers -> Statements] /\ tenants' \in Nat
    BY <1>1, <1>2 DEF Types, Statements
  <2> QED
    BY <1>2, <1>4, <1>5, <1>6, <2>1 DEF Types
<1>9. Normalized'
  <2>1. \A v \in DOMAIN users : users[v] # email
    BY <1>2 DEF EmailIsHeld, UserOf, email
  <2> QED
    BY <1>3, <1>4, <2>1 DEF Normalized
<1>10. EmailIsHeld'
  <2> SUFFICES ASSUME NEW d \in Callers, step'[d] = "commit"
               PROVE  /\ UserOf(call[d].email)' = {}
                      /\ \A f \in Callers : HoldsEmail(f, call[d].email)' => f = d
    BY <1>2 DEF EmailIsHeld
  <2>1. d # c /\ step[d] = "commit"
    BY <1>5
  <2>2. normalizeEmail(call[d].email) # email
    BY <1>2, <2>1 DEF EmailIsHeld, HoldsEmail, email
  <2>3. UserOf(call[d].email)' = {}
    BY <1>2, <1>4, <2>1, <2>2 DEF EmailIsHeld, UserOf, normalizeEmail
  <2>4. ASSUME NEW f \in Callers, HoldsEmail(f, call[d].email)' PROVE f = d
    BY <1>2, <1>5, <2>1, <2>4 DEF EmailIsHeld, HoldsEmail, normalizeEmail
  <2> QED
    BY <2>3, <2>4
<1>11. TenantExists'
  BY <1>1, <1>2 DEF TenantExists, Types
<1>12. RowsMatch'
  <2>1. \A m \in memberships : m.user # u
    BY <1>4 DEF RowsMatch
  <2>2. 1 .. tenants \subseteq 1 .. tenants' /\ tenant \in 1 .. tenants'
    BY <1>1 DEF Types
  <2>3. \A m \in memberships' : m.user \in DOMAIN users' /\ m.tenant \in 1 .. tenants'
    BY <1>2, <1>4, <1>6, <2>2 DEF RowsMatch
  <2>4. \A v \in DOMAIN users' : \E m \in memberships' : m.user = v
    BY <1>2, <1>4, <1>6 DEF RowsMatch
  <2>5. \A m, n \in memberships' : m.user = n.user => m = n
    BY <1>2, <1>6, <2>1 DEF RowsMatch
  <2>6. \A t \in 1 .. tenants' : \E m \in memberships' : m.tenant = t /\ m.role = "OWNER"
    <3>1. \A t \in 1 .. tenants' : t \in 1 .. tenants \/ (role = "OWNER" /\ t = tenant)
      BY <1>1 DEF Types
    <3> QED
      BY <1>2, <1>6, <3>1 DEF RowsMatch
  <2>7. \A m, n \in memberships' :
          m.tenant = n.tenant /\ m.role = "OWNER" /\ n.role = "OWNER" => m = n
    <3>1. role = "OWNER" => \A m \in memberships : m.tenant # tenant
      BY <1>1 DEF RowsMatch, Types
    <3> QED
      BY <1>2, <1>6, <3>1 DEF RowsMatch
  <2> QED
    BY <2>3, <2>4, <2>5, <2>6, <2>7 DEF RowsMatch
<1>13. LoginFinds'
  <2> SUFFICES ASSUME NEW d \in Callers, call[d].op = "login"
               PROVE  /\ call[d].known => UserOf(call[d].email)' # {} /\ step'[d] # "refused"
                      /\ step'[d] = "membership" => account[d] \in DOMAIN users'
    BY <1>2 DEF LoginFinds
  <2>1. d # c
    BY <1>7
  <2>2. UserOf(call[d].email) \subseteq UserOf(call[d].email)'
    BY <1>2, <1>4 DEF UserOf, normalizeEmail
  <2> QED
    BY <1>4, <1>5, <2>1, <2>2 DEF LoginFinds
<1> QED
  BY <1>8, <1>9, <1>10, <1>11, <1>12, <1>13

\* Every step of the specification.
LEMMA NextInv == Inv /\ [MemberNext]_memberVars => Inv'
<1> SUFFICES ASSUME Inv, [MemberNext]_memberVars PROVE Inv'
  OBVIOUS
<1>1. CASE UNCHANGED memberVars
  BY <1>1 DEF memberVars, Inv, Types, Normalized, EmailIsHeld, TenantExists, RowsMatch,
              LoginFinds, UserOf, HoldsEmail, normalizeEmail
<1>2. CASE MemberNext
  <2>1. PICK c \in Callers :
          \/ \E e \in Emails : \/ StartCall(c, "register", e, 0) \/ StartCall(c, "login", e, 0)
                               \/ \E t \in 1 .. tenants : StartCall(c, "member", e, t)
          \/ InsertTenant(c) \/ InsertUser(c) \/ CommitRegistration(c) \/ CommitMember(c)
          \/ AbortCall(c) \/ FindUser(c) \/ FindMembership(c)
    BY <1>2 DEF MemberNext
  <2>2. ASSUME NEW e \in Emails, StartCall(c, "register", e, 0) \/ StartCall(c, "login", e, 0)
        PROVE  Inv'
    BY <2>2, StartKeepsInv
  <2>3. ASSUME NEW e \in Emails, NEW t \in 1 .. tenants, StartCall(c, "member", e, t)
        PROVE  Inv'
    <3>1. t \in Nat
      BY DEF Inv, Types
    <3> QED
      BY <2>3, <3>1, StartKeepsInv
  <2> QED
    BY <2>1, <2>2, <2>3, WaitKeepsInv, LoginKeepsInv, CommitKeepsInv
<1> QED
  BY <1>1, <1>2

\* The invariant of every behaviour.
LEMMA InvAlways == MemberSpec => []Inv
BY InitInv, NextInv, PTL DEF MemberSpec

\* registerUser and createMember: an address has one user over all tenants,
\* for any number of racing requests and any way to spell it.
THEOREM OneUserAlways == MemberSpec => []OneUserPerEmail
<1>1. Inv => OneUserPerEmail
  BY DEF Inv, Normalized, OneUserPerEmail
<1> QED
  BY <1>1, InvAlways, PTL

\* A set of one row.
LEMMA OneRow ==
  ASSUME NEW S, NEW x \in S, \A y \in S : y = x
  PROVE  Cardinality(S) = 1
<1>1. S = {x}
  OBVIOUS
<1> QED
  BY <1>1, FS_Singleton

\* A user has one membership, which is of a tenant that exists, and a tenant
\* has one OWNER, however registrations race and roll back.
THEOREM NothingOrphanedAlways == MemberSpec => []NothingIsOrphaned
<1>1. Inv => NothingIsOrphaned
  <2> SUFFICES ASSUME RowsMatch PROVE NothingIsOrphaned
    BY DEF Inv
  <2>1. ASSUME NEW u \in DOMAIN users
        PROVE  Cardinality({m \in memberships : m.user = u}) = 1
    <3> DEFINE rows == {m \in memberships : m.user = u}
    <3>1. PICK m \in rows : m.user = u
      BY DEF RowsMatch
    <3>2. \A n \in rows : n = m
      BY <3>1 DEF RowsMatch
    <3> HIDE DEF rows
    <3>3. Cardinality(rows) = 1
      BY <3>1, <3>2, OneRow
    <3> QED
      BY <3>3 DEF rows
  <2>2. ASSUME NEW t \in 1 .. tenants
        PROVE  Cardinality({m \in memberships : m.tenant = t /\ m.role = "OWNER"}) = 1
    <3> DEFINE rows == {m \in memberships : m.tenant = t /\ m.role = "OWNER"}
    <3>1. PICK m \in rows : m.tenant = t /\ m.role = "OWNER"
      BY DEF RowsMatch
    <3>2. \A n \in rows : n = m
      BY <3>1 DEF RowsMatch
    <3> HIDE DEF rows
    <3>3. Cardinality(rows) = 1
      BY <3>1, <3>2, OneRow
    <3> QED
      BY <3>3 DEF rows
  <2>3. \A m \in memberships : m.user \in DOMAIN users /\ m.tenant \in 1 .. tenants
    BY DEF RowsMatch
  <2> QED
    BY <2>1, <2>2, <2>3 DEF NothingIsOrphaned
<1> QED
  BY <1>1, InvAlways, PTL

\* A login never meets a user without a membership between its two reads.
THEOREM UsersAlwaysLogIn == MemberSpec => []UsersCanLogIn
<1>1. Inv => UsersCanLogIn
  BY DEF Inv, LoginFinds, UsersCanLogIn
<1> QED
  BY <1>1, InvAlways, PTL

-----------------------------------------------------------------------------
(* Shutdown *)

Resources == {"documentQueue", "invoiceQueue", "redis", "postgres"}

\* The step at which a program closes its HTTP server or a worker, 0 if it has
\* none.
Place(part) ==
    IF part = "http" THEN IF program = "worker" THEN 0 ELSE 1
    ELSE IF program = "api" THEN 0
    ELSE (IF program = "worker" THEN 0 ELSE 1) + (IF part = "invoiceWorker" THEN 1 ELSE 2)

\* A connection that server.close() does not wait for.
Gone == {"closed", "dropped"}

ShutdownTypes ==
    /\ program \in {"api", "api with workers", "worker"}
    /\ process \in {"starting", "up", "killed", "exited 0", "exited 1"}
    /\ awaited \in Nat
    /\ connection \in [Connections -> {"closed", "idle", "busy", "dropped"}]
    /\ job \subseteq Workers

\* A step is called after the ones before it: the HTTP server and the workers
\* from their places on, and nothing they use before they have been passed.
CalledInOrder ==
    /\ \A part \in {"http"} \cup Workers :
          Place(part) # 0 /\ awaited >= Place(part) => part \in called
    /\ \A part \in {"http"} \cup Workers :
          called \cap Resources # {} => awaited > Place(part)

\* What has been passed has drained and takes nothing new, unless its step
\* failed; what a program does not have is not in use.
PassedIsDrained ==
    /\ awaited > Place("http") \/ Place("http") = 0 =>
          "http" \in failed \/ \A c \in Connections : connection[c] \in Gone
    /\ \A w \in Workers :
          awaited > Place(w) \/ Place(w) = 0 => w \in failed \/ w \notin job

ShutdownInv == ShutdownTypes /\ CalledInOrder /\ PassedIsDrained

\* No step of a shutdown has been called.
LEMMA ShutdownStart == ShutdownInit => ShutdownInv
<1> SUFFICES ASSUME ShutdownInit PROVE ShutdownInv
  OBVIOUS
<1>1. ShutdownTypes
  BY DEF ShutdownInit, ShutdownTypes, Workers
<1>2. awaited = 0 /\ called = {} /\ job = {} /\ \A c \in Connections : connection[c] \in Gone
  BY DEF ShutdownInit, Gone
<1>3. \A part : Place(part) \in Nat
  BY DEF Place
<1>4. CalledInOrder
  BY <1>2, <1>3 DEF CalledInOrder
<1>5. PassedIsDrained
  BY <1>2 DEF PassedIsDrained
<1> QED
  BY <1>1, <1>4, <1>5 DEF ShutdownInv

-----------------------------------------------------------------------------
Closable == {"http", "invoiceWorker", "documentWorker"}

\* What is closed before the resources.
LEMMA Closables == Closable = {"http"} \cup Workers
BY DEF Closable, Workers

\* The order of the steps, program by program.
LEMMA StepsAre ==
  ASSUME ShutdownTypes
  PROVE  /\ Len(Steps(program)) \in Nat
         /\ \A n \in 1 .. Len(Steps(program)), part \in {"http"} \cup Workers :
               /\ Steps(program)[n] = part <=> Place(part) = n
               /\ Steps(program)[n] \in Resources => n > Place(part)
         /\ \A part \in {"http"} \cup Workers : Place(part) \in 0 .. Len(Steps(program))
<1> USE Closables DEF Closable, Resources
<1> DEFINE S == Steps(program)
<1>1. CASE program = "api"
  <2>1. S = <<"http", "documentQueue", "invoiceQueue", "redis", "postgres">>
    BY <1>1, Zenon DEF Steps
  <2>2. /\ Len(S) = 5
        /\ S[1] = "http" /\ S[2] = "documentQueue" /\ S[3] = "invoiceQueue" /\ S[4] = "redis"
        /\ S[5] = "postgres"
        /\ Place("http") = 1 /\ Place("invoiceWorker") = 0 /\ Place("documentWorker") = 0
    BY <1>1, <2>1 DEF Place
  <2> HIDE DEF S
  <2>3. ASSUME NEW n \in 1 .. Len(S), NEW part \in Closable
        PROVE  (S[n] = part <=> Place(part) = n) /\ (S[n] \in Resources => n > Place(part))
    <3>1. n \in {1, 2, 3, 4, 5}
      BY <2>2
    <3> QED
      BY <2>2, <3>1
  <2> QED
    BY <2>2, <2>3 DEF S
<1>2. CASE program = "api with workers"
  <2>1. S = <<"http", "invoiceWorker", "documentWorker", "documentQueue", "invoiceQueue",
              "redis", "postgres">>
    BY <1>2, Zenon DEF Steps
  <2>2. Len(S) = 7
    BY <2>1
  <2>3. /\ S[1] = "http" /\ S[2] = "invoiceWorker" /\ S[3] = "documentWorker"
        /\ S[4] = "documentQueue" /\ S[5] = "invoiceQueue" /\ S[6] = "redis" /\ S[7] = "postgres"
    <3>1. S[1] = "http" /\ S[2] = "invoiceWorker"
      BY <2>1
    <3>2. S[3] = "documentWorker" /\ S[4] = "documentQueue"
      BY <2>1
    <3>3. S[5] = "invoiceQueue" /\ S[6] = "redis"
      BY <2>1
    <3>4. S[7] = "postgres"
      BY <2>1
    <3> QED
      BY <3>1, <3>2, <3>3, <3>4
  <2>4. Place("http") = 1 /\ Place("invoiceWorker") = 2 /\ Place("documentWorker") = 3
    <3>1. program # "api" /\ program # "worker"
      BY <1>2
    <3>2. Place("http") = 1 /\ Place("invoiceWorker") = 1 + 1 /\ Place("documentWorker") = 1 + 2
      BY <3>1 DEF Place
    <3> QED
      BY <3>2
  <2> HIDE DEF S
  <2>5. ASSUME NEW n \in 1 .. Len(S), NEW part \in Closable
        PROVE  (S[n] = part <=> Place(part) = n) /\ (S[n] \in Resources => n > Place(part))
    <3>1. n \in {1, 2, 3, 4, 5, 6, 7}
      BY <2>2
    <3> QED
      BY <2>3, <2>4, <3>1
  <2> QED
    BY <2>2, <2>4, <2>5 DEF S
<1>3. CASE program = "worker"
  <2>1. S = <<"invoiceWorker", "documentWorker", "invoiceQueue", "documentQueue", "redis",
              "postgres">>
    BY <1>3, Zenon DEF Steps
  <2>2. /\ Len(S) = 6
        /\ S[1] = "invoiceWorker" /\ S[2] = "documentWorker" /\ S[3] = "invoiceQueue"
        /\ S[4] = "documentQueue" /\ S[5] = "redis" /\ S[6] = "postgres"
        /\ Place("http") = 0 /\ Place("invoiceWorker") = 1 /\ Place("documentWorker") = 2
    BY <1>3, <2>1 DEF Place
  <2> HIDE DEF S
  <2>3. ASSUME NEW n \in 1 .. Len(S), NEW part \in Closable
        PROVE  (S[n] = part <=> Place(part) = n) /\ (S[n] \in Resources => n > Place(part))
    <3>1. n \in {1, 2, 3, 4, 5, 6}
      BY <2>2
    <3> QED
      BY <2>2, <3>1
  <2> QED
    BY <2>2, <2>3 DEF S
<1> QED
  BY <1>1, <1>2, <1>3 DEF ShutdownTypes

\* What a call of a step changes.
LEMMA CallChanges ==
  ASSUME ShutdownTypes, NEW n \in Nat, CallStep(n)
  PROVE  /\ awaited' = n
         /\ n > Len(Steps(program)) => called' = called
         /\ ~(n > Len(Steps(program))) => called' = called \cup {Steps(program)[n]}
         /\ process' \in {"exited 0", process}
         /\ connection' \in [Connections -> {"closed", "idle", "busy", "dropped"}]
         /\ \A c \in Connections : connection'[c] = connection[c] \/ connection'[c] = "closed"
<1>1. CASE n > Len(Steps(program))
  BY <1>1 DEF CallStep, ShutdownTypes
<1>2. CASE ~(n > Len(Steps(program)))
  <2>1. /\ awaited' = n /\ process' = process
        /\ called' = called \cup {Steps(program)[n]}
        /\ \/ connection' = connection
           \/ connection' = [c \in Connections |->
                                 IF connection[c] = "idle" THEN "closed" ELSE connection[c]]
    BY <1>2, Zenon DEF CallStep
  <2> QED
    BY <1>2, <2>1 DEF ShutdownTypes
<1> QED
  BY <1>1, <1>2

\* What a step waits for.
LEMMA DrainedIs ==
  /\ Drained("http") <=> \A c \in Connections : connection[c] \in Gone
  /\ \A w \in Workers : Drained(w) <=> w \notin job
<1>1. Drained("http") <=> \A c \in Connections : connection[c] \in Gone
  BY Zenon DEF Drained, Workers, Gone
<1>2. Drained("invoiceWorker") <=> "invoiceWorker" \notin job
  BY Zenon DEF Drained, Workers
<1>3. Drained("documentWorker") <=> "documentWorker" \notin job
  BY Zenon DEF Drained, Workers
<1> QED
  BY <1>1, <1>2, <1>3 DEF Workers

\* A step is passed when it has settled or failed: then the next one is called.
LEMMA NextStep ==
  ASSUME ShutdownInv, NEW n \in Nat, n = awaited + 1, CallStep(n), UNCHANGED <<program, job>>,
         failed \subseteq failed',
         \A part \in {"http"} \cup Workers :
            Place(part) = awaited /\ awaited # 0 => part \in failed' \/ Drained(part)
  PROVE  ShutdownInv'
<1> USE DEF ShutdownInv
<1>1. awaited' = n /\ awaited \in Nat /\ Len(Steps(program)) \in Nat
  BY CallChanges, StepsAre DEF ShutdownTypes
<1>2. \A part : Place(part)' = Place(part)
  BY DEF Place
<1>3. \A part \in {"http"} \cup Workers :
         Place(part) \in Nat /\ Place(part) <= Len(Steps(program))
  BY StepsAre
<1>4. \A c \in Connections : connection'[c] = connection[c] \/ connection'[c] = "closed"
  BY CallChanges DEF ShutdownTypes
<1>5. ShutdownTypes'
  BY CallChanges DEF ShutdownTypes
<1>6. CalledInOrder'
  <2> SUFFICES ASSUME NEW part \in {"http"} \cup Workers
               PROVE  /\ Place(part) # 0 /\ n >= Place(part) => part \in called'
                      /\ called' \cap Resources # {} => n > Place(part)
    BY <1>1, <1>2 DEF CalledInOrder
  <2>1. /\ Place(part) # 0 /\ awaited >= Place(part) => part \in called
        /\ called \cap Resources # {} => awaited > Place(part)
    BY DEF CalledInOrder
  <2>2. CASE n > Len(Steps(program))
    <3>1. called' = called
      BY <2>2, CallChanges
    <3> QED
      BY <1>1, <1>3, <2>1, <2>2, <3>1
  <2>3. CASE ~(n > Len(Steps(program)))
    <3> DEFINE s == Steps(program)[n]
    <3>1. called' = called \cup {s}
      BY <2>3, CallChanges
    <3>2. n \in 1 .. Len(Steps(program))
      BY <1>1, <2>3
    <3>3. /\ Place(part) = n => s = part
          /\ s \in Resources => n > Place(part)
      BY <3>2, StepsAre
    <3> HIDE DEF s
    <3>4. Place(part) # 0 /\ n >= Place(part) => part \in called'
      <4>1. n >= Place(part) => awaited >= Place(part) \/ Place(part) = n
        BY <1>1, <1>3
      <4> QED
        BY <2>1, <3>1, <3>3, <4>1
    <3>5. called' \cap Resources # {} => n > Place(part)
      <4>1. awaited > Place(part) => n > Place(part)
        BY <1>1, <1>3
      <4> QED
        BY <2>1, <3>1, <3>3, <4>1
    <3> QED
      BY <3>4, <3>5
  <2> QED
    BY <2>2, <2>3
<1>7. PassedIsDrained'
  <2>1. \A part \in {"http"} \cup Workers :
           awaited' > Place(part) => Place(part) = awaited \/ awaited > Place(part)
    BY <1>1, <1>3
  <2>2. awaited' > Place("http") \/ Place("http") = 0 =>
           "http" \in failed' \/ \A c \in Connections : connection'[c] \in Gone
    BY <1>1, <1>4, <2>1, DrainedIs DEF PassedIsDrained, Gone
  <2>3. \A w \in Workers :
           awaited' > Place(w) \/ Place(w) = 0 => w \in failed' \/ w \notin job
    BY <1>1, <2>1, DrainedIs DEF PassedIsDrained
  <2> QED
    BY <1>2, <2>2, <2>3 DEF PassedIsDrained
<1> QED
  BY <1>5, <1>6, <1>7

\* Requests and jobs come only to what has not been called.
LEMMA UseKeepsInv ==
  ASSUME ShutdownInv, UNCHANGED <<program, awaited, called, failed>>, ShutdownTypes',
         \A c \in Connections :
            \/ connection'[c] \in Gone \/ connection[c] \notin Gone
            \/ (Place("http") # 0 /\ "http" \notin called),
         \A w \in job' : w \in job \/ (Place(w) # 0 /\ w \notin called)
  PROVE  ShutdownInv'
<1> USE DEF ShutdownInv
<1>1. \A part : Place(part)' = Place(part)
  BY DEF Place
<1>2. \A part \in {"http"} \cup Workers : Place(part) \in Nat
  BY StepsAre
<1>3. CalledInOrder'
  BY <1>1 DEF CalledInOrder
<1>4. \A part \in {"http"} \cup Workers :
         awaited > Place(part) /\ Place(part) # 0 => part \in called
  <2> SUFFICES ASSUME NEW part \in {"http"} \cup Workers,
                      awaited > Place(part), Place(part) # 0
               PROVE  part \in called
    OBVIOUS
  <2>1. awaited \in Nat /\ Place(part) \in Nat
    BY <1>2 DEF ShutdownTypes
  <2>2. awaited >= Place(part)
    BY <2>1
  <2> QED
    BY <2>2 DEF CalledInOrder
<1>5. PassedIsDrained'
  <2>1. awaited > Place("http") \/ Place("http") = 0 =>
           "http" \in failed \/ \A c \in Connections : connection'[c] \in Gone
    BY <1>4 DEF PassedIsDrained
  <2>2. \A w \in Workers :
           awaited > Place(w) \/ Place(w) = 0 => w \in failed \/ w \notin job'
    BY <1>4 DEF PassedIsDrained
  <2> QED
    BY <1>1, <2>1, <2>2 DEF PassedIsDrained
<1> QED
  BY <1>3, <1>5

-----------------------------------------------------------------------------
\* Every step of the specification.
LEMMA ShutdownStep == ShutdownInv /\ [ShutdownNext]_shutdownVars => ShutdownInv'
<1> SUFFICES ASSUME ShutdownInv, [ShutdownNext]_shutdownVars PROVE ShutdownInv'
  OBVIOUS
<1>1. ShutdownTypes /\ Workers = {"invoiceWorker", "documentWorker"}
  BY DEF ShutdownInv, Workers
<1>2. Place("http") # 0 <=> HasHttp
  BY DEF Place, HasHttp
<1>3. \A w \in Workers : Place(w) # 0 <=> HasWorkers
  BY DEF Place, HasWorkers, Workers
<1>4. CASE Register \/ SignalTooEarly \/ Deadline \/ StepHangs \/ UNCHANGED shutdownVars
  <2>1. UNCHANGED <<program, awaited, called, failed, connection, job>> /\ ShutdownTypes'
    BY <1>1, <1>4 DEF Register, SignalTooEarly, Deadline, StepHangs, shutdownVars, ShutdownTypes
  <2> QED
    BY <2>1 DEF ShutdownInv, CalledInOrder, PassedIsDrained, Place
<1>5. ASSUME NEW c \in Connections, Begin(c) \/ Respond(c) \/ Drop(c) \/ CloseIdle(c) PROVE ShutdownInv'
  <2>1. UNCHANGED <<program, awaited, called, failed, job>> /\ ShutdownTypes'
    BY <1>1, <1>5 DEF Begin, BeginRequest, Respond, Drop, CloseIdle, ShutdownTypes
  <2>2. \A d \in Connections : connection'[d] \in Gone \/ connection[d] \notin Gone
           \/ (HasHttp /\ "http" \notin called)
    BY <1>1, <1>5 DEF Begin, BeginRequest, Respond, Drop, CloseIdle, ShutdownTypes, Gone
  <2> QED
    BY <1>2, <2>1, <2>2, UseKeepsInv
<1>6. ASSUME NEW w \in Workers, TakeJob(w) \/ EndJob(w) PROVE ShutdownInv'
  <2>1. UNCHANGED <<program, awaited, called, failed, connection>> /\ ShutdownTypes'
    BY <1>1, <1>6 DEF TakeJob, EndJob, ShutdownTypes
  <2>2. \A v \in job' : v \in job \/ (Place(v) # 0 /\ v \notin called)
    BY <1>3, <1>6 DEF TakeJob, EndJob
  <2> QED
    BY <2>1, <2>2, UseKeepsInv
<1>7. PICK n \in Nat : awaited \in Nat /\ n = awaited + 1
  <2>1. awaited \in Nat
    BY <1>1 DEF ShutdownTypes
  <2>2. awaited + 1 \in Nat
    BY <2>1
  <2> QED
    BY <2>1, <2>2
<1>8. ASSUME NEW part \in {"http"} \cup Workers, Place(part) = awaited, awaited # 0
      PROVE  Steps(program)[awaited] = part
  <2>1. awaited \in 1 .. Len(Steps(program))
    <3>1. Len(Steps(program)) \in Nat /\ Place(part) \in 0 .. Len(Steps(program))
      BY <1>1, StepsAre
    <3> QED
      BY <1>7, <1>8, <3>1
  <2> QED
    BY <1>1, <1>8, <2>1, StepsAre
<1>9. CASE Signal
  <2>1. awaited = 0 /\ n = 1 /\ CallStep(n) /\ UNCHANGED <<program, job, failed>>
    BY <1>7, <1>9 DEF Signal, ShuttingDown
  <2> QED
    BY <1>7, <2>1, NextStep
<1>10. CASE StepSettles
  <2>1. CallStep(n) /\ UNCHANGED <<program, job, failed>> /\ Drained(Steps(program)[awaited])
    BY <1>7, <1>10 DEF StepSettles
  <2>2. \A part \in {"http"} \cup Workers :
           Place(part) = awaited /\ awaited # 0 => Drained(part)
    BY <1>8, <2>1
  <2> QED
    BY <1>7, <2>1, <2>2, NextStep
<1>11. CASE StepFails
  <2>1. /\ CallStep(n) /\ UNCHANGED <<program, job>>
        /\ failed' = failed \cup {Steps(program)[awaited]}
    BY <1>7, <1>11 DEF StepFails
  <2>2. \A part \in {"http"} \cup Workers :
           Place(part) = awaited /\ awaited # 0 => part \in failed'
    BY <1>8, <2>1
  <2> QED
    BY <1>7, <2>1, <2>2, NextStep
<1> QED
  BY <1>4, <1>5, <1>6, <1>9, <1>10, <1>11 DEF ShutdownNext

\* lib/shutdown.js: in each of the three programs, for any clients that come,
\* stay or drop their connections, any jobs, failing steps and hanging steps, a
\* queue, Redis or PostgreSQL is closed only when no client waits for a request
\* and no job is at work, or the step that was to wait for them failed.
THEOREM NobodyWaitingIsEverCutOff == ShutdownSpec => []NobodyWaitingIsCutOff
<1>1. ShutdownInv => NobodyWaitingIsCutOff
  <2> SUFFICES ASSUME ShutdownInv, called \cap Resources # {}
               PROVE  /\ "http" \in failed \/ \A c \in Connections : connection[c] # "busy"
                      /\ job \subseteq failed
    BY DEF NobodyWaitingIsCutOff, Resources
  <2> QED
    BY DEF ShutdownInv, CalledInOrder, PassedIsDrained, ShutdownTypes, Gone
<1> QED
  BY ShutdownStart, ShutdownStep, <1>1, PTL DEF ShutdownSpec

-----------------------------------------------------------------------------
(* Limits: what the counters of the two limiters are worth *)

Start(w) == w * Window

LimitTypes ==
    /\ now \in Time
    /\ limiter \in {"rateLimit", "llmBudget"}
    /\ counter \in [Windows -> Nat]
    /\ expires \in [Windows -> Nat]
    /\ visit \in [Visitors -> Time \cup {NotVisiting}]
    /\ late \in [Windows -> Nat]
    /\ admitted \in Seq([window: Windows, at: Time])

\* A request is in flight for a tick at most, and an increment is late only
\* after its window has begun.
InFlight ==
    /\ \A v \in Visitors : visit[v] # NotVisiting => visit[v] <= now /\ now <= visit[v] + 1
    /\ \A w \in Windows : late[w] > 0 => Start(w) <= now

\* A request is counted between the start of its window and the tick after it,
\* and the counter lives on for its lifetime from then.
CountedInTime ==
    \A m \in DOMAIN admitted :
        /\ Start(admitted[m].window) <= admitted[m].at
        /\ admitted[m].at <= Start(admitted[m].window) + Window
        /\ admitted[m].at <= now
        /\ admitted[m].at + Lifetime(limiter) <= expires[admitted[m].window]

\* The requests counted in window w, and those of the last window's length.
OfWindow(w) == {m \in DOMAIN admitted : admitted[m].window = w}
Recent(w) == {m \in OfWindow(w) : admitted[m].at + Window > now}

\* What was let through of late is in the counter and within the limit.
RecentAreCounted ==
    \A w \in Windows : Cardinality(Recent(w)) <= counter[w] /\ Cardinality(Recent(w)) <= Limit_

\* The budget's counter has all of its day while the day can still be counted.
DayIsCounted ==
    limiter = "llmBudget" =>
        \A w \in Windows :
            /\ Cardinality(OfWindow(w)) <= Limit_
            /\ now <= Start(w) + Window => Cardinality(OfWindow(w)) <= counter[w]

LimitInv ==
    LimitTypes /\ InFlight /\ CountedInTime /\ RecentAreCounted /\ DayIsCounted /\ BurstIsAtMostTwice

\* Windows do not overlap.
LEMMA WindowsInOrder ==
  ASSUME NEW v \in Nat, NEW w \in Nat, v < w
  PROVE  Start(v) \in Nat /\ Start(w) \in Nat /\ Start(v) + Window <= Start(w)
<1>1. PICK d \in Nat : w = v + 1 + d
  <2>1. w - v - 1 \in Nat /\ w = v + 1 + (w - v - 1)
    OBVIOUS
  <2> QED
    BY <2>1
<1>2. Window \in Nat
  BY LimitsAssumption
<1>3. (v + 1 + d) * Window = v * Window + Window + d * Window
  BY <1>2
<1>4. v * Window \in Nat /\ d * Window \in Nat /\ w * Window \in Nat
  BY <1>2
<1> QED
  BY <1>1, <1>2, <1>3, <1>4 DEF Start

\* A time lies in its window.
LEMMA TimeIsInWindow ==
  ASSUME NEW t \in Time
  PROVE  /\ WindowOf(t) \in Windows
         /\ Start(WindowOf(t)) \in Nat
         /\ Start(WindowOf(t)) <= t
         /\ t < Start(WindowOf(t)) + Window
<1>1. t \in Nat /\ t <= Horizon /\ Window \in Nat /\ Window >= 1 /\ Horizon \in Nat
  BY LimitsAssumption DEF Time
<1>2. PICK q : q = t \div Window
  OBVIOUS
<1>3. q \in Nat /\ q * Window <= t /\ t < q * Window + Window
  BY <1>1, <1>2
<1>4. q * Window \in Nat /\ q <= q * Window
  BY <1>1, <1>3
<1> QED
  BY <1>1, <1>2, <1>3, <1>4 DEF WindowOf, Start, Windows, Time

\* The sets of requests are finite.
LEMMA RequestsAreFinite ==
  ASSUME LimitTypes, NEW S \in SUBSET (DOMAIN admitted)
  PROVE  IsFiniteSet(S) /\ Cardinality(S) \in Nat
<1>1. DOMAIN admitted = 1 .. Len(admitted) /\ Len(admitted) \in Nat
  BY DEF LimitTypes
<1>2. IsFiniteSet(1 .. Len(admitted))
  BY <1>1, FS_Interval
<1> QED
  BY <1>1, <1>2, FS_Subset, FS_CardinalityType

\* What is kept of a request.
LEMMA RequestTypes ==
  ASSUME LimitTypes, NEW m \in DOMAIN admitted
  PROVE  admitted[m].window \in Windows /\ admitted[m].at \in Time /\ admitted[m].at \in Nat
<1>1. PICK T : T = [window: Windows, at: Time]
  OBVIOUS
<1>2. admitted \in Seq(T)
  BY <1>1 DEF LimitTypes
<1>3. admitted[m] \in T
  BY <1>2
<1>4. admitted[m].window \in Windows /\ admitted[m].at \in Time
  BY <1>1, <1>3
<1>5. Horizon \in Nat
  BY LimitsAssumption
<1> QED
  BY <1>4, <1>5 DEF Time

\* An increment counts the requests of the last window's length and, for the
\* budget, those of the whole day.
LEMMA KeyCounts ==
  ASSUME LimitInv, NEW w \in Windows
  PROVE  /\ IncrementedCount(w) \in Nat
         /\ Cardinality(Recent(w)) + 1 <= IncrementedCount(w)
         /\ limiter = "llmBudget" /\ now <= Start(w) + Window
              => Cardinality(OfWindow(w)) + 1 <= IncrementedCount(w)
<1>1. now \in Nat /\ counter[w] \in Nat /\ expires[w] \in Nat /\ Window \in Nat
  BY LimitsAssumption DEF LimitInv, LimitTypes, Time
<1>2. OfWindow(w) \in SUBSET (DOMAIN admitted) /\ Recent(w) \in SUBSET OfWindow(w)
  BY DEF OfWindow, Recent
<1>3. PICK r \in Nat, o \in Nat : r = Cardinality(Recent(w)) /\ o = Cardinality(OfWindow(w))
  <2>1. LimitTypes
    BY DEF LimitInv
  <2> QED
    BY <1>2, <2>1, RequestsAreFinite
<1>4. r <= counter[w]
  BY <1>3 DEF LimitInv, RecentAreCounted
<1>5. limiter = "llmBudget" /\ now <= Start(w) + Window => o <= counter[w]
  BY <1>3 DEF LimitInv, DayIsCounted
<1>6. ASSUME NEW m \in OfWindow(w)
      PROVE  /\ admitted[m].at \in Nat /\ Start(w) \in Int
             /\ Start(w) <= admitted[m].at
             /\ admitted[m].at + Lifetime(limiter) <= expires[w]
  <2>1. m \in DOMAIN admitted /\ admitted[m].window = w
    BY DEF OfWindow
  <2>2. admitted[m].at \in Nat
    BY <2>1, RequestTypes DEF LimitInv
  <2>3. Start(w) \in Int
    BY <1>1 DEF Start, Windows, Time
  <2> QED
    BY <2>1, <2>2, <2>3 DEF LimitInv, CountedInTime
<1>7. CASE expires[w] > now
  BY <1>1, <1>3, <1>4, <1>5, <1>7 DEF IncrementedCount
<1>8. CASE ~(expires[w] > now)
  <2>1. Recent(w) = {}
    <3> SUFFICES ASSUME NEW m \in Recent(w) PROVE FALSE
      OBVIOUS
    <3>1. m \in OfWindow(w) /\ admitted[m].at + Window > now
      BY DEF Recent
    <3>2. Lifetime(limiter) \in Nat /\ Lifetime(limiter) >= Window
      BY <1>1 DEF Lifetime
    <3> QED
      BY <1>1, <1>6, <1>8, <3>1, <3>2
  <2>2. limiter = "llmBudget" /\ now <= Start(w) + Window => OfWindow(w) = {}
    <3> SUFFICES ASSUME limiter = "llmBudget", now <= Start(w) + Window, NEW m \in OfWindow(w)
                 PROVE  FALSE
      OBVIOUS
    <3>1. Lifetime(limiter) = Window + 1
      BY DEF Lifetime
    <3> QED
      BY <1>1, <1>6, <1>8, <3>1
  <2>3. r = 0 /\ (limiter = "llmBudget" /\ now <= Start(w) + Window => o = 0)
    BY <1>3, <2>1, <2>2, FS_EmptySet
  <2>4. IncrementedCount(w) = 1
    BY <1>8 DEF IncrementedCount
  <2> QED
    BY <1>3, <2>3, <2>4
<1> QED
  BY <1>7, <1>8

\* The requests of the last window's length.
LatelyAtMostTwice ==
    Cardinality({m \in DOMAIN admitted : admitted[m].at + Window > now}) <= 2 * Limit_

\* They are of two windows.
LEMMA TwoWindows == LimitTypes /\ CountedInTime /\ RecentAreCounted => LatelyAtMostTwice
<1> SUFFICES ASSUME LimitTypes, CountedInTime, RecentAreCounted
             PROVE  Cardinality({m \in DOMAIN admitted : admitted[m].at + Window > now}) <= 2 * Limit_
  BY DEF LatelyAtMostTwice
<1>1. PICK S : S = {m \in DOMAIN admitted : admitted[m].at + Window > now}
  OBVIOUS
<1>2. now \in Time /\ now \in Nat /\ Window \in Nat /\ Window >= 1 /\ Limit_ \in Nat
  BY LimitsAssumption DEF LimitTypes, Time
<1>3. PICK k : k = WindowOf(now)
  OBVIOUS
<1>4. k \in Windows /\ k \in Nat /\ Start(k) \in Nat /\ Start(k) <= now /\ now < Start(k) + Window
  BY <1>2, <1>3, TimeIsInWindow DEF Windows, Time
<1>5. PICK j \in Windows : k # 0 => j = k - 1
  BY <1>4, LimitsAssumption DEF Windows, Time
<1>6. ASSUME NEW m \in S PROVE m \in Recent(k) \/ m \in Recent(j)
  <2>1. m \in DOMAIN admitted /\ admitted[m].at + Window > now
    BY <1>1
  <2>2. PICK u, at : u = admitted[m].window /\ at = admitted[m].at
    OBVIOUS
  <2>3. u \in Windows /\ u \in Nat /\ at \in Nat
    BY <2>1, <2>2, RequestTypes DEF Windows, Time
  <2>4. Start(u) <= at /\ at <= Start(u) + Window /\ at <= now
    BY <2>1, <2>2 DEF CountedInTime
  <2>5. Start(u) \in Nat
    BY <1>2, <2>3 DEF Start
  <2>6. ~(k < u)
    <3>1. k < u => Start(k) + Window <= Start(u)
      BY <1>4, <2>3, WindowsInOrder
    <3> QED
      BY <1>2, <1>4, <2>3, <2>4, <2>5, <3>1
  <2>7. k # 0 => ~(u < k - 1)
    <3> SUFFICES ASSUME k # 0, u < k - 1 PROVE FALSE
      OBVIOUS
    <3>1. k - 1 \in Nat /\ k - 1 < k
      BY <1>4
    <3>2. Start(u) + Window <= Start(k - 1) /\ Start(k - 1) \in Nat
      BY <2>3, <3>1, WindowsInOrder
    <3>3. Start(k - 1) + Window <= Start(k)
      BY <1>4, <3>1, WindowsInOrder
    <3> QED
      BY <1>2, <1>4, <2>1, <2>2, <2>3, <2>4, <2>5, <3>2, <3>3
  <2>8. u = k \/ u = j
    BY <1>4, <1>5, <2>3, <2>6, <2>7
  <2> QED
    BY <2>1, <2>2, <2>8 DEF Recent, OfWindow
<1>7. IsFiniteSet(Recent(k)) /\ IsFiniteSet(Recent(j))
  <2>1. Recent(k) \in SUBSET (DOMAIN admitted) /\ Recent(j) \in SUBSET (DOMAIN admitted)
    BY DEF Recent, OfWindow
  <2> QED
    BY <2>1, RequestsAreFinite
<1>8. PICK a \in Nat, b \in Nat : a = Cardinality(Recent(k)) /\ b = Cardinality(Recent(j))
  BY <1>7, FS_CardinalityType
<1>9. a <= Limit_ /\ b <= Limit_
  BY <1>4, <1>5, <1>8 DEF RecentAreCounted
<1>10. PICK U : U = Recent(k) \cup Recent(j)
  OBVIOUS
<1>11. IsFiniteSet(U) /\ Cardinality(U) \in Nat /\ Cardinality(U) <= a + b
  <2>1. /\ IsFiniteSet(U)
        /\ Cardinality(U) = a + b - Cardinality(Recent(k) \cap Recent(j))
    BY <1>7, <1>8, <1>10, FS_Union
  <2>2. Cardinality(Recent(k) \cap Recent(j)) \in Nat
    BY <1>7, FS_Intersection, FS_CardinalityType
  <2> QED
    BY <1>8, <2>1, <2>2, FS_CardinalityType
<1>12. S \subseteq U
  BY <1>6, <1>10
<1>13. Cardinality(S) <= Cardinality(U) /\ Cardinality(S) \in Nat
  BY <1>11, <1>12, FS_Subset, FS_CardinalityType
<1>14. Cardinality(S) <= 2 * Limit_
  BY <1>2, <1>8, <1>9, <1>11, <1>13
<1> QED
  BY <1>1, <1>14

\* No request has come.
LEMMA LimitStart == LimitInit => LimitInv
<1> SUFFICES ASSUME LimitInit PROVE LimitInv
  OBVIOUS
<1> USE LimitsAssumption DEF LimitInit
<1>1. DOMAIN admitted = {} /\ \A w \in Windows : Recent(w) = {} /\ OfWindow(w) = {}
  BY DEF Recent, OfWindow
<1>2. LimitTypes
  <2>1. admitted \in Seq([window: Windows, at: Time])
    OBVIOUS
  <2>2. now \in Time /\ counter \in [Windows -> Nat] /\ expires \in [Windows -> Nat]
    BY DEF Time
  <2>3. visit \in [Visitors -> Time \cup {NotVisiting}] /\ late \in [Windows -> Nat]
    OBVIOUS
  <2> QED
    BY <2>1, <2>2, <2>3 DEF LimitTypes
<1>3. InFlight
  BY DEF InFlight
<1>4. CountedInTime /\ BurstIsAtMostTwice
  BY <1>1 DEF CountedInTime, BurstIsAtMostTwice
<1>5. RecentAreCounted /\ DayIsCounted
  <2>1. \A w \in Windows : Cardinality(Recent(w)) = 0 /\ Cardinality(OfWindow(w)) = 0
    BY <1>1, FS_EmptySet
  <2>2. Limit_ \in Nat /\ \A w \in Windows : counter[w] = 0
    OBVIOUS
  <2> QED
    BY <2>1, <2>2 DEF RecentAreCounted, DayIsCounted
<1> QED
  BY <1>2, <1>3, <1>4, <1>5 DEF LimitInv

\* What is kept of the requests after one more.
LEMMA OneMoreRequest ==
  ASSUME LimitTypes, NEW w \in Windows,
         admitted' = Append(admitted, [window |-> w, at |-> now])
  PROVE  /\ Len(admitted) \in Nat
         /\ DOMAIN admitted = 1 .. Len(admitted)
         /\ DOMAIN admitted' = 1 .. Len(admitted) + 1
         /\ \A m \in DOMAIN admitted : admitted'[m] = admitted[m]
         /\ admitted'[Len(admitted) + 1].window = w
         /\ admitted'[Len(admitted) + 1].at = now
         /\ admitted' \in Seq([window: Windows, at: Time])
<1>1. PICK T, e : T = [window: Windows, at: Time] /\ e = [window |-> w, at |-> now]
  OBVIOUS
<1>2. e \in T /\ e.window = w /\ e.at = now
  BY <1>1 DEF LimitTypes
<1>3. admitted \in Seq(T)
  BY <1>1 DEF LimitTypes
<1>4. /\ Append(admitted, e) \in Seq(T)
      /\ Len(admitted) \in Nat
      /\ DOMAIN admitted = 1 .. Len(admitted)
      /\ DOMAIN Append(admitted, e) = 1 .. Len(admitted) + 1
      /\ \A m \in 1 .. Len(admitted) : Append(admitted, e)[m] = admitted[m]
      /\ Append(admitted, e)[Len(admitted) + 1] = e
  BY <1>2, <1>3
<1>5. admitted' = Append(admitted, e)
  BY <1>1
<1> QED
  BY <1>1, <1>2, <1>4, <1>5

\* An increment that lets nobody through.
LEMMA IncrementKeeps ==
  ASSUME LimitInv, NEW w \in Windows, Start(w) <= now, Increment(w),
         UNCHANGED <<now, limiter, admitted>>
  PROVE  /\ counter' \in [Windows -> Nat] /\ expires' \in [Windows -> Nat]
         /\ CountedInTime' /\ RecentAreCounted' /\ DayIsCounted' /\ BurstIsAtMostTwice'
<1>1. /\ now \in Nat /\ Window \in Nat /\ counter \in [Windows -> Nat]
      /\ expires \in [Windows -> Nat] /\ LimitTypes
  BY LimitsAssumption DEF LimitInv, LimitTypes, Time
<1>2. Lifetime(limiter) \in Nat /\ Lifetime(limiter)' = Lifetime(limiter)
  BY <1>1 DEF Lifetime
<1>3. PICK c \in Nat, l \in Nat : c = IncrementedCount(w) /\ l = Lifetime(limiter)
  BY <1>2, KeyCounts
<1>4. /\ counter' = [counter EXCEPT ![w] = c]
      /\ expires' = [expires EXCEPT ![w] = now + l]
  BY <1>3 DEF Increment
<1>5. counter' \in [Windows -> Nat] /\ expires' \in [Windows -> Nat]
  BY <1>1, <1>4
<1>6. CountedInTime'
  <2> SUFFICES ASSUME NEW m \in DOMAIN admitted
               PROVE  admitted[m].at + l <= expires'[admitted[m].window]
    BY <1>2, <1>3 DEF LimitInv, CountedInTime, Start
  <2>1. PICK u, at : u = admitted[m].window /\ at = admitted[m].at
    OBVIOUS
  <2>2. u \in Windows /\ at \in Nat /\ at <= now /\ at + l <= expires[u]
    BY <1>1, <1>3, <2>1, RequestTypes DEF LimitInv, CountedInTime
  <2>3. at + l <= expires'[u]
    BY <1>1, <1>3, <1>4, <2>2
  <2> QED
    BY <2>1, <2>3
<1>7. \A u \in Windows : Recent(u)' = Recent(u) /\ OfWindow(u)' = OfWindow(u)
  BY DEF Recent, OfWindow
<1>8. Cardinality(Recent(w)) \in Nat /\ Cardinality(OfWindow(w)) \in Nat
  <2>1. Recent(w) \in SUBSET (DOMAIN admitted) /\ OfWindow(w) \in SUBSET (DOMAIN admitted)
    BY DEF Recent, OfWindow
  <2> QED
    BY <1>1, <2>1, RequestsAreFinite
<1>9. /\ Cardinality(Recent(w)) <= c
      /\ limiter = "llmBudget" /\ now <= Start(w) + Window => Cardinality(OfWindow(w)) <= c
  <2>1. PICK r \in Nat, o \in Nat : r = Cardinality(Recent(w)) /\ o = Cardinality(OfWindow(w))
    BY <1>8
  <2>2. r + 1 <= c /\ (limiter = "llmBudget" /\ now <= Start(w) + Window => o + 1 <= c)
    BY <1>3, <2>1, KeyCounts
  <2> QED
    BY <1>3, <2>1, <2>2
<1>10. RecentAreCounted'
  <2> SUFFICES ASSUME NEW u \in Windows
               PROVE  Cardinality(Recent(u)) <= counter'[u] /\ Cardinality(Recent(u)) <= Limit_
    BY <1>7 DEF RecentAreCounted
  <2> QED
    BY <1>1, <1>4, <1>9 DEF LimitInv, RecentAreCounted
<1>11. DayIsCounted'
  <2> SUFFICES ASSUME limiter = "llmBudget", NEW u \in Windows
               PROVE  /\ Cardinality(OfWindow(u)) <= Limit_
                      /\ now <= Start(u) + Window => Cardinality(OfWindow(u)) <= counter'[u]
    BY <1>7 DEF DayIsCounted, Start
  <2> QED
    BY <1>1, <1>4, <1>9 DEF LimitInv, DayIsCounted
<1>12. BurstIsAtMostTwice'
  BY DEF LimitInv, BurstIsAtMostTwice
<1> QED
  BY <1>5, <1>6, <1>10, <1>11, <1>12

\* An increment that lets its request through.
LEMMA CountKeeps ==
  ASSUME LimitInv, NEW w \in Windows, Start(w) <= now, now <= Start(w) + Window, Increment(w),
         ~Exceeds(IncrementedCount(w)), UNCHANGED <<now, limiter>>,
         visit' \in [Visitors -> Time \cup {NotVisiting}], UNCHANGED late,
         admitted' = Append(admitted, [window |-> w, at |-> now])
  PROVE  LimitTypes' /\ CountedInTime' /\ RecentAreCounted' /\ DayIsCounted' /\ BurstIsAtMostTwice'
<1>1. /\ now \in Nat /\ Window \in Nat /\ Window >= 1 /\ Limit_ \in Nat /\ LimitTypes
      /\ counter \in [Windows -> Nat] /\ expires \in [Windows -> Nat]
  BY LimitsAssumption DEF LimitInv, LimitTypes, Time
<1>2. Lifetime(limiter) \in Nat /\ Lifetime(limiter)' = Lifetime(limiter)
  BY <1>1 DEF Lifetime
<1>3. PICK c \in Nat, l \in Nat : c = IncrementedCount(w) /\ l = Lifetime(limiter)
  BY <1>2, KeyCounts
<1>4. /\ counter' = [counter EXCEPT ![w] = c]
      /\ expires' = [expires EXCEPT ![w] = now + l]
      /\ c <= Limit_
  BY <1>1, <1>3 DEF Increment, Exceeds
<1>5. counter' \in [Windows -> Nat] /\ expires' \in [Windows -> Nat]
  BY <1>1, <1>4
<1>6. PICK n : n = Len(admitted)
  OBVIOUS
<1>7. /\ n \in Nat /\ DOMAIN admitted = 1 .. n /\ DOMAIN admitted' = 1 .. n + 1
      /\ \A m \in 1 .. n : admitted'[m] = admitted[m]
      /\ admitted'[n + 1].window = w /\ admitted'[n + 1].at = now
      /\ admitted' \in Seq([window: Windows, at: Time])
  BY <1>1, <1>6, OneMoreRequest
<1>8. CountedInTime'
  <2> SUFFICES ASSUME NEW m \in DOMAIN admitted'
               PROVE  /\ Start(admitted'[m].window) <= admitted'[m].at
                      /\ admitted'[m].at <= Start(admitted'[m].window) + Window
                      /\ admitted'[m].at <= now
                      /\ admitted'[m].at + l <= expires'[admitted'[m].window]
    BY <1>2, <1>3 DEF CountedInTime, Start
  <2>1. CASE m = n + 1
    BY <1>1, <1>4, <1>7, <2>1
  <2>2. CASE m # n + 1
    <3>1. m \in DOMAIN admitted /\ admitted'[m] = admitted[m]
      BY <1>7, <2>2
    <3>2. PICK u, at : u = admitted[m].window /\ at = admitted[m].at
      OBVIOUS
    <3>3. /\ u \in Windows /\ at \in Nat /\ at <= now /\ at + l <= expires[u]
          /\ Start(u) <= at /\ at <= Start(u) + Window
      BY <1>1, <1>3, <3>1, <3>2, RequestTypes DEF LimitInv, CountedInTime
    <3>4. at + l <= expires'[u]
      BY <1>1, <1>3, <1>4, <3>3
    <3> QED
      BY <3>1, <3>2, <3>3, <3>4
  <2> QED
    BY <2>1, <2>2
<1>9. /\ \A u \in Windows \ {w} : Recent(u)' = Recent(u) /\ OfWindow(u)' = OfWindow(u)
      /\ Recent(w)' = Recent(w) \cup {n + 1} /\ n + 1 \notin Recent(w)
      /\ OfWindow(w)' = OfWindow(w) \cup {n + 1} /\ n + 1 \notin OfWindow(w)
  <2>1. \A m \in DOMAIN admitted' : m \in DOMAIN admitted \/ m = n + 1
    BY <1>7
  <2>2. n + 1 \in DOMAIN admitted' /\ n + 1 \notin DOMAIN admitted /\ now + Window > now
    BY <1>1, <1>7
  <2>3. \A m \in DOMAIN admitted : m \in DOMAIN admitted' /\ admitted'[m] = admitted[m]
    BY <1>7
  <2>4. \A u \in Windows \ {w} : OfWindow(u)' = OfWindow(u)
    BY <1>7, <2>1, <2>2, <2>3 DEF OfWindow
  <2>5. OfWindow(w)' = OfWindow(w) \cup {n + 1} /\ n + 1 \notin OfWindow(w)
    BY <1>7, <2>1, <2>2, <2>3 DEF OfWindow
  <2>6. \A u \in Windows \ {w} : Recent(u)' = Recent(u)
    BY <2>3, <2>4 DEF Recent, OfWindow
  <2>7. Recent(w)' = Recent(w) \cup {n + 1} /\ n + 1 \notin Recent(w)
    BY <1>7, <2>2, <2>3, <2>5 DEF Recent, OfWindow
  <2> QED
    BY <2>4, <2>5, <2>6, <2>7
<1>10. PICK r \in Nat, o \in Nat : /\ r = Cardinality(Recent(w)) /\ o = Cardinality(OfWindow(w))
                                   /\ Cardinality(Recent(w)') = r + 1
                                   /\ Cardinality(OfWindow(w)') = o + 1
  <2>1. Recent(w) \in SUBSET (DOMAIN admitted) /\ OfWindow(w) \in SUBSET (DOMAIN admitted)
    BY DEF Recent, OfWindow
  <2>2. /\ IsFiniteSet(Recent(w)) /\ Cardinality(Recent(w)) \in Nat
        /\ IsFiniteSet(OfWindow(w)) /\ Cardinality(OfWindow(w)) \in Nat
    BY <1>1, <2>1, RequestsAreFinite
  <2>3. /\ Cardinality(Recent(w) \cup {n + 1}) = Cardinality(Recent(w)) + 1
        /\ Cardinality(OfWindow(w) \cup {n + 1}) = Cardinality(OfWindow(w)) + 1
    BY <1>9, <2>2, FS_AddElement
  <2> QED
    BY <1>9, <2>2, <2>3
<1>11. r + 1 <= c /\ (limiter = "llmBudget" => o + 1 <= c)
  BY <1>3, <1>10, KeyCounts
<1>12. RecentAreCounted'
  <2> SUFFICES ASSUME NEW u \in Windows
               PROVE  Cardinality(Recent(u)') <= counter'[u] /\ Cardinality(Recent(u)') <= Limit_
    BY DEF RecentAreCounted
  <2>1. CASE u = w
    BY <1>1, <1>3, <1>4, <1>10, <1>11, <2>1
  <2>2. CASE u # w
    <3>1. counter'[u] = counter[u] /\ Recent(u)' = Recent(u)
      BY <1>1, <1>4, <1>9, <2>2
    <3> QED
      BY <3>1 DEF LimitInv, RecentAreCounted
  <2> QED
    BY <2>1, <2>2
<1>13. DayIsCounted'
  <2> SUFFICES ASSUME limiter = "llmBudget", NEW u \in Windows
               PROVE  /\ Cardinality(OfWindow(u)') <= Limit_
                      /\ now <= Start(u) + Window => Cardinality(OfWindow(u)') <= counter'[u]
    BY DEF DayIsCounted, Start
  <2>1. CASE u = w
    BY <1>1, <1>3, <1>4, <1>10, <1>11, <2>1
  <2>2. CASE u # w
    <3>1. counter'[u] = counter[u] /\ OfWindow(u)' = OfWindow(u)
      BY <1>1, <1>4, <1>9, <2>2
    <3> QED
      BY <3>1 DEF LimitInv, DayIsCounted
  <2> QED
    BY <2>1, <2>2
<1>14. LimitTypes'
  BY <1>5, <1>7 DEF LimitInv, LimitTypes
<1>15. BurstIsAtMostTwice'
  <2>1. LatelyAtMostTwice'
    BY <1>8, <1>12, <1>14, TwoWindows, PTL
  <2> SUFFICES ASSUME NEW i \in 1 .. n + 1
               PROVE  Cardinality({m \in 1 .. i : admitted'[m].at + Window > admitted'[i].at})
                        <= 2 * Limit_
    BY <1>7 DEF BurstIsAtMostTwice
  <2>2. CASE i = n + 1
    BY <1>7, <2>1, <2>2 DEF LatelyAtMostTwice
  <2>3. CASE i # n + 1
    <3>1. i \in 1 .. n /\ \A m \in 1 .. i : admitted'[m] = admitted[m]
      BY <1>7, <2>3
    <3>2. {m \in 1 .. i : admitted'[m].at + Window > admitted'[i].at}
             = {m \in 1 .. i : admitted[m].at + Window > admitted[i].at}
      BY <1>7, <3>1
    <3>3. Cardinality({m \in 1 .. i : admitted[m].at + Window > admitted[i].at}) <= 2 * Limit_
      BY <1>7, <3>1 DEF LimitInv, BurstIsAtMostTwice
    <3> QED
      BY <3>2, <3>3
  <2> QED
    BY <2>2, <2>3
<1> QED
  BY <1>8, <1>12, <1>13, <1>14, <1>15

\* One step per action.
LEMMA LimitStep == LimitInv /\ [LimitNext]_limitVars => LimitInv'
<1> SUFFICES ASSUME LimitInv, [LimitNext]_limitVars PROVE LimitInv'
  OBVIOUS
<1>1. /\ now \in Time /\ now \in Nat /\ Horizon \in Nat /\ Window \in Nat /\ Window >= 1
      /\ limiter \in {"rateLimit", "llmBudget"}
      /\ counter \in [Windows -> Nat] /\ expires \in [Windows -> Nat] /\ late \in [Windows -> Nat]
      /\ visit \in [Visitors -> Time \cup {NotVisiting}]
      /\ Time \subseteq Nat /\ NotVisiting \notin Time
  BY LimitsAssumption DEF LimitInv, LimitTypes, Time, NotVisiting
<1>2. ASSUME NEW v \in Visitors, visit[v] # NotVisiting
      PROVE  LET w == WindowOf(visit[v]) IN
             w \in Windows /\ Start(w) <= now /\ now <= Start(w) + Window
  <2>1. PICK t, w : t = visit[v] /\ w = WindowOf(visit[v])
    OBVIOUS
  <2>2. t \in Time /\ t \in Nat /\ t <= now /\ now <= t + 1
    BY <1>1, <1>2, <2>1 DEF LimitInv, InFlight
  <2>3. w \in Windows /\ Start(w) \in Nat /\ Start(w) <= t /\ t < Start(w) + Window
    BY <2>1, <2>2, TimeIsInWindow
  <2> QED
    BY <1>1, <2>1, <2>2, <2>3
<1>3. ASSUME NEW v \in Visitors, Leave(v)
      PROVE  /\ visit' \in [Visitors -> Time \cup {NotVisiting}]
             /\ \A u \in Visitors : visit'[u] # NotVisiting => visit'[u] = visit[u]
  BY <1>1, <1>3 DEF Leave
<1>4. CASE UNCHANGED limitVars
  BY <1>4 DEF limitVars, LimitInv, LimitTypes, InFlight, CountedInTime, RecentAreCounted, Recent,
              OfWindow, DayIsCounted, BurstIsAtMostTwice
<1>5. ASSUME NEW v \in Visitors, Arrive(v) PROVE LimitInv'
  <2>1. /\ visit' = [visit EXCEPT ![v] = now]
        /\ UNCHANGED <<now, limiter, counter, expires, late, admitted>>
    BY <1>5 DEF Arrive
  <2>2. LimitTypes' /\ InFlight'
    BY <1>1, <2>1 DEF LimitInv, LimitTypes, InFlight
  <2> QED
    BY <2>1, <2>2 DEF LimitInv, CountedInTime, RecentAreCounted, Recent, OfWindow, DayIsCounted,
                      BurstIsAtMostTwice
<1>6. ASSUME NEW v \in Visitors, Count(v) PROVE LimitInv'
  <2>1. PICK w : w = WindowOf(visit[v])
    OBVIOUS
  <2>2. /\ visit[v] # NotVisiting /\ Increment(w) /\ Leave(v)
        /\ UNCHANGED <<now, limiter, late>>
        /\ admitted' = IF Exceeds(IncrementedCount(w)) THEN admitted
                       ELSE Append(admitted, [window |-> w, at |-> now])
    BY <1>6, <2>1 DEF Count
  <2>3. w \in Windows /\ Start(w) <= now /\ now <= Start(w) + Window
    BY <1>2, <2>1, <2>2
  <2>4. /\ visit' \in [Visitors -> Time \cup {NotVisiting}]
        /\ \A u \in Visitors : visit'[u] # NotVisiting => visit'[u] = visit[u]
    BY <1>3, <2>2
  <2>5. InFlight'
    BY <2>2, <2>4 DEF LimitInv, InFlight, Start
  <2>6. CASE Exceeds(IncrementedCount(w))
    <3>1. /\ counter' \in [Windows -> Nat] /\ expires' \in [Windows -> Nat]
          /\ CountedInTime' /\ RecentAreCounted' /\ DayIsCounted' /\ BurstIsAtMostTwice'
      BY <2>2, <2>3, <2>6, IncrementKeeps
    <3>2. LimitTypes'
      BY <2>2, <2>4, <2>6, <3>1 DEF LimitInv, LimitTypes
    <3> QED
      BY <2>5, <3>1, <3>2 DEF LimitInv
  <2>7. CASE ~Exceeds(IncrementedCount(w))
    BY <2>2, <2>3, <2>4, <2>5, <2>7, CountKeeps DEF LimitInv
  <2> QED
    BY <2>6, <2>7
<1>7. ASSUME NEW v \in Visitors, FailOpen(v) PROVE LimitInv'
  <2>1. PICK w : w = WindowOf(visit[v])
    OBVIOUS
  <2>2. /\ visit[v] # NotVisiting /\ Leave(v)
        /\ late' = [late EXCEPT ![w] = @ + 1] \/ late' = late
        /\ UNCHANGED <<now, limiter, counter, expires, admitted>>
    BY <1>7, <2>1 DEF FailOpen
  <2>3. w \in Windows /\ Start(w) <= now
    BY <1>2, <2>1, <2>2
  <2>4. /\ visit' \in [Visitors -> Time \cup {NotVisiting}]
        /\ \A u \in Visitors : visit'[u] # NotVisiting => visit'[u] = visit[u]
    BY <1>3, <2>2
  <2>5. late' \in [Windows -> Nat] /\ \A u \in Windows \ {w} : late'[u] = late[u]
    BY <1>1, <2>2, <2>3
  <2>6. LimitTypes'
    BY <2>2, <2>4, <2>5 DEF LimitInv, LimitTypes
  <2>7. InFlight'
    BY <2>2, <2>3, <2>4, <2>5 DEF LimitInv, InFlight, Start
  <2> QED
    BY <2>2, <2>6, <2>7 DEF LimitInv, CountedInTime, RecentAreCounted, Recent, OfWindow,
                            DayIsCounted, BurstIsAtMostTwice
<1>8. ASSUME NEW w \in Windows, LateIncrement(w) PROVE LimitInv'
  <2>1. /\ late[w] > 0 /\ late' = [late EXCEPT ![w] = @ - 1] /\ Increment(w)
        /\ UNCHANGED <<now, limiter, visit, admitted>>
    BY <1>8 DEF LateIncrement
  <2>2. Start(w) <= now
    BY <2>1 DEF LimitInv, InFlight
  <2>3. /\ counter' \in [Windows -> Nat] /\ expires' \in [Windows -> Nat]
        /\ CountedInTime' /\ RecentAreCounted' /\ DayIsCounted' /\ BurstIsAtMostTwice'
    BY <2>1, <2>2, IncrementKeeps
  <2>4. late' \in [Windows -> Nat] /\ \A u \in Windows : late'[u] > 0 => late[u] > 0
    BY <1>1, <2>1
  <2>5. LimitTypes' /\ InFlight'
    BY <2>1, <2>3, <2>4 DEF LimitInv, LimitTypes, InFlight, Start
  <2> QED
    BY <2>3, <2>5 DEF LimitInv
<1>9. CASE Tick
  <2>1. /\ now < Horizon /\ now' = now + 1
        /\ \A v \in Visitors : visit[v] = NotVisiting \/ visit[v] = now
        /\ UNCHANGED <<limiter, counter, expires, visit, late, admitted>>
    BY <1>9 DEF Tick
  <2>2. now' \in Time /\ now' \in Nat
    BY <1>1, <2>1 DEF Time
  <2>3. LimitTypes'
    BY <2>1, <2>2 DEF LimitInv, LimitTypes
  <2>4. InFlight'
    <3>1. \A v \in Visitors : visit'[v] # NotVisiting => visit'[v] <= now' /\ now' <= visit'[v] + 1
      BY <1>1, <2>1
    <3>2. ASSUME NEW w \in Windows, late[w] > 0 PROVE Start(w) <= now + 1
      <4>1. Start(w) \in Nat /\ Start(w) <= now
        BY <1>1, <3>2 DEF LimitInv, InFlight, Start, Windows
      <4> QED
        BY <1>1, <4>1
    <3> QED
      BY <2>1, <3>1, <3>2 DEF InFlight, Start
  <2>5. CountedInTime'
    <3> SUFFICES ASSUME NEW m \in DOMAIN admitted PROVE admitted[m].at <= now + 1
      BY <2>1 DEF LimitInv, CountedInTime, Start, Lifetime
    <3> QED
      BY <1>1, RequestTypes DEF LimitInv, CountedInTime
  <2>6. \A w \in Windows : Recent(w)' \in SUBSET Recent(w) /\ OfWindow(w)' = OfWindow(w)
    <3> SUFFICES ASSUME NEW w \in Windows, NEW m \in DOMAIN admitted,
                        admitted[m].at + Window > now + 1
                 PROVE  admitted[m].at + Window > now
      BY <2>1 DEF Recent, OfWindow
    <3> QED
      BY <1>1, RequestTypes DEF LimitInv
  <2>7. RecentAreCounted'
    <3> SUFFICES ASSUME NEW w \in Windows
                 PROVE  Cardinality(Recent(w)') <= counter[w] /\ Cardinality(Recent(w)') <= Limit_
      BY <2>1 DEF RecentAreCounted
    <3>1. Recent(w) \in SUBSET (DOMAIN admitted)
      BY DEF Recent, OfWindow
    <3>2. IsFiniteSet(Recent(w)) /\ Cardinality(Recent(w)) \in Nat
      BY <3>1, RequestsAreFinite DEF LimitInv
    <3>3. PICK r \in Nat, s \in Nat :
             r = Cardinality(Recent(w)) /\ s = Cardinality(Recent(w)') /\ s <= r
      BY <2>6, <3>2, FS_Subset, FS_CardinalityType
    <3>4. r <= counter[w] /\ r <= Limit_ /\ counter[w] \in Nat /\ Limit_ \in Nat
      BY <1>1, <3>3, LimitsAssumption DEF LimitInv, RecentAreCounted
    <3> QED
      BY <3>3, <3>4
  <2>8. DayIsCounted'
    <3> SUFFICES ASSUME limiter = "llmBudget", NEW w \in Windows
                 PROVE  /\ Cardinality(OfWindow(w)) <= Limit_
                        /\ now + 1 <= Start(w) + Window => Cardinality(OfWindow(w)) <= counter[w]
      BY <2>1, <2>6 DEF DayIsCounted, Start
    <3>1. Start(w) \in Nat
      BY <1>1 DEF Start, Windows
    <3>2. now + 1 <= Start(w) + Window => now <= Start(w) + Window
      BY <1>1, <3>1
    <3> QED
      BY <3>2 DEF LimitInv, DayIsCounted
  <2>9. BurstIsAtMostTwice'
    BY <2>1 DEF LimitInv, BurstIsAtMostTwice
  <2> QED
    BY <2>3, <2>4, <2>5, <2>7, <2>8, <2>9 DEF LimitInv
<1> QED
  BY <1>4, <1>5, <1>6, <1>7, <1>8, <1>9 DEF LimitNext

\* The invariant of every behaviour of a limiter.
LEMMA LimitInvAlways == LimitSpec => []LimitInv
BY LimitStart, LimitStep, PTL DEF LimitSpec

\* llmBudget.js: no day has more counted requests than the budget, whatever
\* the budget, the length of a day, and the increments that come late.
THEOREM DailyBudgetAlwaysHolds == LimitSpec => []DailyBudgetHolds
<1>1. LimitInv => DailyBudgetHolds
  <2> SUFFICES ASSUME LimitInv, limiter = "llmBudget", NEW n \in DOMAIN admitted
               PROVE  Cardinality({m \in DOMAIN admitted : admitted[m].window = admitted[n].window})
                        <= Limit_
    BY DEF DailyBudgetHolds
  <2>1. PICK w \in Windows : w = admitted[n].window
    BY RequestTypes DEF LimitInv
  <2>2. Cardinality(OfWindow(w)) <= Limit_
    BY DEF LimitInv, DayIsCounted
  <2> QED
    BY <2>1, <2>2 DEF OfWindow
<1> QED
  BY <1>1, LimitInvAlways, PTL

\* rateLimit.js: no stretch of a window's length has more than twice the limit.
THEOREM BurstIsAlwaysAtMostTwice == LimitSpec => []BurstIsAtMostTwice
<1>1. LimitInv => BurstIsAtMostTwice
  BY DEF LimitInv
<1> QED
  BY <1>1, LimitInvAlways, PTL

-----------------------------------------------------------------------------
(* Ask: whom the budget has let call *)

\* Requests that were given a unit of the budget.
Metered == {a \in Askers : charged[a] /\ ask[a] # "LLM_BUDGET_EXCEEDED"}

AskStages ==
    {"idle", "empty", "floor", "budget", "call", "calling", "answered", "abstained", "failed",
     "LLM_BUDGET_EXCEEDED", "documents_processing", "no_documents"}

AskTypes ==
    /\ ask \in [Askers -> AskStages]
    /\ tries \in [Askers -> Nat]
    /\ charged \in [Askers -> BOOLEAN]
    /\ unmetered \in [Askers -> BOOLEAN]
    /\ DOMAIN cited = Askers
    /\ DOMAIN sent = Askers
    /\ spent \in Nat

\* Only an answer has citations, and no request is charged or calls the
\* provider before it has met the budget.
Progress ==
    \A a \in Askers :
        /\ ask[a] # "answered" => cited[a] = {}
        /\ ask[a] \in {"idle", "empty", "floor", "budget"} => ~charged[a] /\ tries[a] = 0
        /\ ask[a] = "call" => tries[a] <= 1 /\ (charged[a] \/ unmetered[a])
        /\ tries[a] <= 2
        /\ tries[a] > 0 => a \in Metered \/ unmetered[a]
        /\ ask[a] = "LLM_BUDGET_EXCEEDED" => tries[a] = 0

\* Each unit of the budget is given once.
UnitsAreGivenOnce ==
    Cardinality(Metered) <= spent /\ Cardinality(Metered) <= Budget

AskInv == AskTypes /\ Progress /\ UnitsAreGivenOnce /\ CitesWhatWasSent /\ AbstainingIsFree

\* No request has come.
LEMMA AskStart == AskInit => AskInv
<1> SUFFICES ASSUME AskInit PROVE AskInv
  OBVIOUS
<1> USE DEF AskInit
<1>1. AskTypes
  <2>1. charged \in [Askers -> BOOLEAN] /\ unmetered \in [Askers -> BOOLEAN]
    BY Zenon
  <2>2. ask \in [Askers -> AskStages] /\ tries \in [Askers -> Nat] /\ spent \in Nat
    BY DEF AskStages
  <2>3. DOMAIN cited = Askers /\ DOMAIN sent = Askers
    OBVIOUS
  <2> QED
    BY <2>1, <2>2, <2>3 DEF AskTypes
<1>2. Metered = {}
  BY DEF Metered
<1>3. Progress
  BY <1>2 DEF Progress
<1>4. UnitsAreGivenOnce
  BY <1>2, FS_EmptySet, AskAssumption DEF UnitsAreGivenOnce
<1>5. CitesWhatWasSent /\ AbstainingIsFree
  BY DEF CitesWhatWasSent, AbstainingIsFree
<1> QED
  BY <1>1, <1>3, <1>4, <1>5 DEF AskInv

\* A step of request a that leaves the budget alone.
LEMMA UnmeteredStep ==
  ASSUME AskInv, NEW a \in Askers, NEW from, NEW to \in AskStages,
         from # "budget", to # "LLM_BUDGET_EXCEEDED", from # "LLM_BUDGET_EXCEEDED",
         ask[a] = from, ask' = [ask EXCEPT ![a] = to],
         UNCHANGED <<charged, unmetered, spent>>,
         \A b \in Askers \ {a} : tries'[b] = tries[b] /\ cited'[b] = cited[b] /\ sent'[b] = sent[b],
         tries' \in [Askers -> Nat], DOMAIN cited' = Askers, DOMAIN sent' = Askers,
         to # "answered" => cited'[a] = {},
         to = "answered" => cited'[a] # {},
         cited'[a] \subseteq ToSet(sent'[a]),
         tries'[a] >= tries[a], tries'[a] <= 2,
         to \in {"idle", "empty", "floor", "budget"} => ~charged[a] /\ tries'[a] = 0,
         to = "call" => tries'[a] <= 1 /\ (charged[a] \/ unmetered[a]),
         tries'[a] > 0 => charged[a] \/ unmetered[a],
         from = "call" => tries'[a] > 0
  PROVE  AskInv'
<1>1. ask'[a] = to /\ \A b \in Askers \ {a} : ask'[b] = ask[b]
  BY DEF AskInv, AskTypes
<1>2. Metered' = Metered
  BY <1>1 DEF Metered
<1>3. AskTypes'
  BY <1>1 DEF AskInv, AskTypes
<1>4. Progress'
  BY <1>1, <1>2 DEF AskInv, Progress, Metered
<1>5. UnitsAreGivenOnce'
  BY <1>2 DEF AskInv, UnitsAreGivenOnce
<1>6. CitesWhatWasSent'
  BY <1>1 DEF AskInv, CitesWhatWasSent
<1>7. AbstainingIsFree'
  <2>1. charged[a] => tries'[a] > 0 \/ to = "call"
    <3>1. tries[a] \in Nat /\ tries'[a] \in Nat
      BY DEF AskInv, AskTypes
    <3>2. charged[a] => from = "call" \/ tries[a] > 0
      BY DEF AskInv, AbstainingIsFree
    <3> QED
      BY <3>1, <3>2
  <2> QED
    BY <1>1, <2>1 DEF AskInv, AbstainingIsFree
<1> QED
  BY <1>3, <1>4, <1>5, <1>6, <1>7 DEF AskInv

\* The document steps and a stutter.
LEMMA AskIdles == AskInv /\ UNCHANGED askVars => AskInv'
BY DEF askVars, AskInv, AskTypes, Progress, Metered, UnitsAreGivenOnce, CitesWhatWasSent,
       AbstainingIsFree

\* The steps before and after the budget.
LEMMA AskStepKeeps ==
  ASSUME AskInv, NEW a \in Askers,
         \/ Retrieve(a) \/ ReasonForEmpty(a) \/ BelowFloor(a) \/ BuildAndLoad(a)
         \/ CallOnce(a) \/ RetryCall(a) \/ CallFails(a) \/ Answer(a) \/ AbstainAfterModel(a)
  PROVE  AskInv'
<1>0. /\ ask \in [Askers -> AskStages] /\ tries \in [Askers -> Nat]
      /\ DOMAIN cited = Askers /\ DOMAIN sent = Askers /\ tries[a] \in Nat
  BY DEF AskInv, AskTypes
<1>1. cited[a] \subseteq ToSet(sent[a])
  BY DEF AskInv, CitesWhatWasSent
<1>2. /\ ask[a] # "answered" => cited[a] = {}
      /\ ask[a] \in {"idle", "empty", "floor", "budget"} => ~charged[a] /\ tries[a] = 0
      /\ ask[a] = "call" => tries[a] <= 1 /\ (charged[a] \/ unmetered[a])
      /\ tries[a] <= 2
      /\ tries[a] > 0 => charged[a] \/ unmetered[a]
  BY DEF AskInv, Progress, Metered
<1>3. ASSUME NEW from \in {"idle", "empty", "floor"}, ask[a] = from,
             NEW to \in {"empty", "floor", "budget", "failed", "abstained",
                         "documents_processing", "no_documents"},
             ask' = [ask EXCEPT ![a] = to],
             UNCHANGED <<cited, tries, charged, unmetered, spent>>,
             DOMAIN sent' = Askers, \A b \in Askers \ {a} : sent'[b] = sent[b]
      PROVE  AskInv'
  <2>1. cited'[a] = {} /\ tries'[a] = 0
    BY <1>2, <1>3
  <2>2. to \in AskStages
    BY DEF AskStages
  <2>3. /\ tries' \in [Askers -> Nat] /\ DOMAIN cited' = Askers
        /\ tries'[a] >= tries[a] /\ tries'[a] <= 2 /\ cited'[a] \subseteq ToSet(sent'[a])
        /\ \A b \in Askers \ {a} : tries'[b] = tries[b] /\ cited'[b] = cited[b] /\ sent'[b] = sent[b]
    BY <1>0, <1>3, <2>1
  <2>4. /\ to # "LLM_BUDGET_EXCEEDED" /\ to # "answered" /\ to # "call"
        /\ from # "LLM_BUDGET_EXCEEDED" /\ from # "budget" /\ from # "call"
        /\ ~charged[a] /\ ~(tries'[a] > 0)
    BY <1>0, <1>2, <1>3, <2>1
  <2> QED
    BY <1>3, <2>1, <2>2, <2>3, <2>4, UnmeteredStep
<1>4. CASE Retrieve(a)
  <2>1. PICK to \in {"empty", "floor"} : ask' = [ask EXCEPT ![a] = to]
    BY <1>4 DEF Retrieve, Continue
  <2>2. ask[a] = "idle" /\ UNCHANGED <<sent, cited, tries, charged, unmetered, spent>>
    BY <1>4 DEF Retrieve
  <2> QED
    BY <1>0, <1>3, <2>1, <2>2
<1>5. CASE ReasonForEmpty(a)
  <2>1. PICK to \in {"documents_processing", "no_documents"} : ask' = [ask EXCEPT ![a] = to]
    BY <1>5 DEF ReasonForEmpty, Continue
  <2>2. ask[a] = "empty" /\ UNCHANGED <<sent, cited, tries, charged, unmetered, spent>>
    BY <1>5 DEF ReasonForEmpty, Continue
  <2> QED
    BY <1>0, <1>3, <2>1, <2>2
<1>6. CASE BelowFloor(a)
  <2>1. /\ ask[a] = "floor" /\ ask' = [ask EXCEPT ![a] = "abstained"]
        /\ sent' = [sent EXCEPT ![a] = <<>>]
        /\ UNCHANGED <<cited, tries, charged, unmetered, spent>>
    BY <1>6 DEF BelowFloor, Continue, Forget
  <2> QED
    BY <1>0, <1>3, <2>1
<1>7. CASE BuildAndLoad(a)
  <2>1. PICK to \in {"budget", "failed"} : ask' = [ask EXCEPT ![a] = to]
    BY <1>7 DEF BuildAndLoad, Continue
  <2>2. PICK n : sent' = [sent EXCEPT ![a] = SubSeq(retrieved[a], 1, n)]
    BY <1>7 DEF BuildAndLoad, BuildPrompt
  <2>3. ask[a] = "floor" /\ UNCHANGED <<cited, tries, charged, unmetered, spent>>
    BY <1>7 DEF BuildAndLoad, Continue
  <2> QED
    BY <1>0, <1>3, <2>1, <2>2, <2>3
<1>8. CASE CallOnce(a)
  <2>1. /\ ask[a] = "call" /\ ask' = [ask EXCEPT ![a] = "calling"]
        /\ tries' = [tries EXCEPT ![a] = @ + 1]
        /\ UNCHANGED <<sent, cited, charged, unmetered, spent>>
    BY <1>8 DEF CallOnce, Continue
  <2>2. /\ tries' \in [Askers -> Nat] /\ tries'[a] = tries[a] + 1
        /\ \A b \in Askers \ {a} : tries'[b] = tries[b]
    BY <1>0, <2>1
  <2>3. "calling" \in AskStages
    BY DEF AskStages
  <2>4. tries'[a] > 0 /\ tries'[a] >= tries[a] /\ tries'[a] <= 2
    BY <1>0, <1>2, <2>1, <2>2
  <2> QED
    BY <1>0, <1>1, <1>2, <2>1, <2>2, <2>3, <2>4, UnmeteredStep
<1>9. CASE RetryCall(a)
  <2>1. /\ ask[a] = "calling" /\ ask' = [ask EXCEPT ![a] = "call"] /\ tries[a] = 1
        /\ UNCHANGED <<sent, cited, tries, charged, unmetered, spent>>
    BY <1>9 DEF RetryCall, Continue
  <2>2. "call" \in AskStages
    BY DEF AskStages
  <2>3. /\ tries' \in [Askers -> Nat] /\ DOMAIN cited' = Askers /\ DOMAIN sent' = Askers
        /\ tries'[a] >= tries[a] /\ tries'[a] <= 1 /\ tries'[a] <= 2
        /\ cited'[a] = {} /\ cited'[a] \subseteq ToSet(sent'[a])
        /\ \A b \in Askers \ {a} : tries'[b] = tries[b] /\ cited'[b] = cited[b] /\ sent'[b] = sent[b]
    BY <1>0, <1>1, <1>2, <2>1
  <2>4. charged[a] \/ unmetered[a]
    BY <1>2, <2>1
  <2> QED
    BY <2>1, <2>2, <2>3, <2>4, UnmeteredStep
<1>10. CASE CallFails(a) \/ AbstainAfterModel(a)
  <2>1. PICK to \in {"failed", "abstained"} : ask' = [ask EXCEPT ![a] = to]
    BY <1>10 DEF CallFails, AbstainAfterModel, Continue
  <2>2. /\ ask[a] = "calling" /\ sent' = [sent EXCEPT ![a] = <<>>]
        /\ UNCHANGED <<cited, tries, charged, unmetered, spent>>
    BY <1>10 DEF CallFails, AbstainAfterModel, Continue, Forget
  <2>3. to \in AskStages /\ cited'[a] = {}
    BY <1>2, <2>2 DEF AskStages
  <2>4. /\ tries' \in [Askers -> Nat] /\ DOMAIN cited' = Askers /\ DOMAIN sent' = Askers
        /\ tries'[a] >= tries[a] /\ tries'[a] <= 2 /\ cited'[a] \subseteq ToSet(sent'[a])
        /\ \A b \in Askers \ {a} : tries'[b] = tries[b] /\ cited'[b] = cited[b] /\ sent'[b] = sent[b]
    BY <1>0, <1>2, <2>2, <2>3
  <2>5. tries'[a] > 0 => charged[a] \/ unmetered[a]
    BY <1>2, <2>2
  <2> QED
    BY <2>1, <2>2, <2>3, <2>4, <2>5, UnmeteredStep
<1>11. CASE Answer(a)
  <2>1. PICK valid : /\ valid \subseteq DOMAIN sent[a] /\ valid # {}
                     /\ cited' = [cited EXCEPT ![a] = {sent[a][n] : n \in valid}]
    BY <1>11 DEF Answer, SourcesOf
  <2>2. /\ ask[a] = "calling" /\ ask' = [ask EXCEPT ![a] = "answered"]
        /\ UNCHANGED <<sent, tries, charged, unmetered, spent>>
    BY <1>11 DEF Answer, Continue
  <2>3. /\ cited'[a] = {sent[a][n] : n \in valid} /\ DOMAIN cited' = Askers
        /\ \A b \in Askers \ {a} : cited'[b] = cited[b]
    BY <1>0, <2>1
  <2>4. cited'[a] # {} /\ cited'[a] \subseteq ToSet(sent'[a])
    BY <2>1, <2>2, <2>3 DEF ToSet
  <2>5. "answered" \in AskStages
    BY DEF AskStages
  <2>6. /\ tries' \in [Askers -> Nat] /\ DOMAIN sent' = Askers
        /\ tries'[a] >= tries[a] /\ tries'[a] <= 2
        /\ \A b \in Askers \ {a} : tries'[b] = tries[b] /\ cited'[b] = cited[b] /\ sent'[b] = sent[b]
    BY <1>0, <1>2, <2>2, <2>3
  <2>7. tries'[a] > 0 => charged[a] \/ unmetered[a]
    BY <1>2, <2>2
  <2> QED
    BY <2>2, <2>3, <2>4, <2>5, <2>6, <2>7, UnmeteredStep
<1> QED
  BY <1>4, <1>5, <1>6, <1>7, <1>8, <1>9, <1>10, <1>11

\* A unit of the budget, or an answer that there is none left.
LEMMA SpendKeeps ==
  ASSUME AskInv, NEW a \in Askers, Spend(a)
  PROVE  AskInv'
<1>1. PICK to : to = IF spent + 1 > Budget THEN "LLM_BUDGET_EXCEEDED" ELSE "call"
  OBVIOUS
<1>2. /\ ask[a] = "budget" /\ ask' = [ask EXCEPT ![a] = to]
      /\ spent' = spent + 1 /\ charged' = [charged EXCEPT ![a] = TRUE]
      /\ UNCHANGED <<sent, cited, tries, unmetered>>
  BY <1>1 DEF Spend, Continue
<1>3. /\ ask'[a] = to /\ charged'[a] /\ ~charged[a] /\ tries[a] = 0 /\ cited[a] = {}
      /\ \A b \in Askers \ {a} : ask'[b] = ask[b] /\ charged'[b] = charged[b]
  BY <1>2 DEF AskInv, AskTypes, Progress
<1>4. AskTypes'
  <2>1. charged' \in [Askers -> BOOLEAN]
    BY <1>2, Zenon DEF AskInv, AskTypes
  <2>2. ask' \in [Askers -> AskStages]
    BY <1>1, <1>2 DEF AskInv, AskTypes, AskStages
  <2> QED
    BY <1>2, <2>1, <2>2 DEF AskInv, AskTypes
<1>5. spent \in Nat /\ Budget \in Nat /\ IsFiniteSet(Metered) /\ a \notin Metered
  <2>1. IsFiniteSet(Metered)
    BY AskAssumption, FS_Subset DEF Metered
  <2> QED
    BY <1>3, <2>1, AskAssumption DEF AskInv, AskTypes, Metered
<1>6. /\ to = "call" => Metered' = Metered \cup {a}
      /\ to # "call" => Metered' = Metered
  BY <1>1, <1>3 DEF Metered
<1>7. UnitsAreGivenOnce'
  <2>1. PICK n \in Nat : n = Cardinality(Metered)
    BY <1>5, FS_CardinalityType
  <2>2. n <= spent /\ n <= Budget
    BY <2>1 DEF AskInv, UnitsAreGivenOnce
  <2>3. CASE to = "call"
    <3>1. Cardinality(Metered') = n + 1
      BY <1>5, <1>6, <2>1, <2>3, FS_AddElement
    <3>2. spent + 1 <= Budget
      BY <1>1, <1>5, <2>3
    <3> QED
      BY <1>2, <1>5, <2>2, <3>1, <3>2 DEF UnitsAreGivenOnce
  <2>4. CASE to # "call"
    BY <1>2, <1>5, <1>6, <2>1, <2>2, <2>4 DEF UnitsAreGivenOnce
  <2> QED
    BY <2>3, <2>4
<1>8. Progress'
  <2>1. \A b \in Askers \ {a} : b \in Metered => b \in Metered'
    BY <1>6
  <2>2. to \in {"call", "LLM_BUDGET_EXCEEDED"}
    BY <1>1
  <2> QED
    BY <1>2, <1>3, <2>1, <2>2 DEF AskInv, Progress
<1>9. CitesWhatWasSent'
  BY <1>1, <1>2, <1>3 DEF AskInv, CitesWhatWasSent
<1>10. AbstainingIsFree'
  BY <1>1, <1>2, <1>3 DEF AskInv, AbstainingIsFree
<1> QED
  BY <1>4, <1>7, <1>8, <1>9, <1>10 DEF AskInv

\* The limiter fails open.
LEMMA SpendFailsKeeps ==
  ASSUME AskInv, NEW a \in Askers, SpendFails(a)
  PROVE  AskInv'
<1>1. /\ ask[a] = "budget" /\ ask' = [ask EXCEPT ![a] = "call"]
      /\ unmetered' = [unmetered EXCEPT ![a] = TRUE]
      /\ spent' \in {spent, spent + 1}
      /\ UNCHANGED <<sent, cited, tries, charged>>
  BY DEF SpendFails, Continue
<1>2. /\ ask'[a] = "call" /\ unmetered'[a] /\ ~charged[a] /\ tries[a] = 0 /\ cited[a] = {}
      /\ \A b \in Askers \ {a} : ask'[b] = ask[b] /\ unmetered'[b] = unmetered[b]
  BY <1>1 DEF AskInv, AskTypes, Progress
<1>3. Metered' = Metered
  BY <1>1, <1>2 DEF Metered
<1>4. AskTypes'
  <2>1. unmetered' \in [Askers -> BOOLEAN]
    BY <1>1, Zenon DEF AskInv, AskTypes
  <2>2. ask' \in [Askers -> AskStages] /\ spent' \in Nat
    BY <1>1 DEF AskInv, AskTypes, AskStages
  <2> QED
    BY <1>1, <2>1, <2>2 DEF AskInv, AskTypes
<1>5. UnitsAreGivenOnce'
  <2>1. PICK n \in Nat : n = Cardinality(Metered)
    <3>1. IsFiniteSet(Metered)
      BY AskAssumption, FS_Subset DEF Metered
    <3> QED
      BY <3>1, FS_CardinalityType
  <2>2. n <= spent /\ n <= Budget /\ spent \in Nat
    BY <2>1 DEF AskInv, UnitsAreGivenOnce, AskTypes
  <2>3. n <= spent'
    BY <1>1, <2>2
  <2> QED
    BY <1>3, <2>1, <2>2, <2>3 DEF UnitsAreGivenOnce
<1>6. Progress'
  BY <1>1, <1>2, <1>3 DEF AskInv, Progress
<1>7. CitesWhatWasSent' /\ AbstainingIsFree'
  BY <1>1, <1>2 DEF AskInv, CitesWhatWasSent, AbstainingIsFree
<1> QED
  BY <1>4, <1>5, <1>6, <1>7 DEF AskInv

\* Every step of the specification.
LEMMA AskNextKeeps == AskInv /\ [AskNext]_<<vars, askVars>> => AskInv'
<1> SUFFICES ASSUME AskInv, [AskNext]_<<vars, askVars>> PROVE AskInv'
  OBVIOUS
<1>1. CASE UNCHANGED askVars
  BY <1>1, AskIdles
<1>2. ASSUME NEW a \in Askers, Retrieve(a) \/ AskStep(a) PROVE AskInv'
  BY <1>2, AskStepKeeps, SpendKeeps, SpendFailsKeeps DEF AskStep
<1> QED
  BY <1>1, <1>2 DEF AskNext

\* Each request of Metered has a unit of its own, and makes at most two calls,
\* as does each that the limiter failed open for.
LEMMA UnitsBoundCalls == AskInv => CallsAreBudgeted
<1> SUFFICES ASSUME AskInv PROVE CallsAreBudgeted
  OBVIOUS
<1>1. PICK U, C : U = {a \in Askers : unmetered[a]} /\ C = Metered \cup U
  OBVIOUS
<1>2. C \in SUBSET Askers /\ IsFiniteSet(Askers) /\ IsFiniteSet(Metered) /\ IsFiniteSet(U)
  <2>1. Metered \subseteq Askers /\ U \subseteq Askers
    BY <1>1 DEF Metered
  <2> QED
    BY <1>1, <2>1, AskAssumption, FS_Subset
<1>3. /\ \A a \in Askers : tries[a] \in Nat
      /\ \A a \in C : tries[a] <= 2
      /\ \A a \in Askers \ C : tries[a] = 0
  <2>1. \A a \in Askers : tries[a] \in Nat
    BY DEF AskInv, AskTypes
  <2>2. \A a \in Askers : tries[a] <= 2 /\ (tries[a] > 0 => a \in C)
    BY <1>1 DEF AskInv, Progress
  <2> QED
    BY <1>2, <2>1, <2>2
<1>4. SumFunctionOnSet(tries, Askers) <= Cardinality(C) * 2
  BY <1>2, <1>3, SumBounded
<1>5. SumFunctionOnSet(tries, Askers) \in Int
  <2>1. \A a \in Askers : tries[a] \in Int
    BY <1>3
  <2> QED
    BY <1>2, <2>1, SumTakesOut
<1>6. PICK c \in Nat, m \in Nat, u \in Nat :
        c = Cardinality(C) /\ m = Cardinality(Metered) /\ u = Cardinality(U)
  <2>1. IsFiniteSet(C)
    BY <1>2, FS_Subset
  <2> QED
    BY <1>2, <2>1, FS_CardinalityType
<1>7. c <= m + u
  <2>1. /\ IsFiniteSet(Metered \cap U)
        /\ Cardinality(Metered \cup U)
             = Cardinality(Metered) + Cardinality(U) - Cardinality(Metered \cap U)
    BY <1>2, FS_Union, FS_Intersection
  <2>2. Cardinality(Metered \cap U) \in Nat
    BY <2>1, FS_CardinalityType
  <2> QED
    BY <1>1, <1>6, <2>1, <2>2
<1>8. PICK least : least = Min({spent, Budget})
  OBVIOUS
<1>9. least \in Nat /\ m <= least
  <2>1. {spent, Budget} \in SUBSET Nat
    BY AskAssumption DEF AskInv, AskTypes
  <2>2. least \in {spent, Budget}
    BY <1>8, <2>1, MinIsLeast
  <2>3. m <= spent /\ m <= Budget
    BY <1>6 DEF AskInv, UnitsAreGivenOnce
  <2> QED
    BY <2>1, <2>2, <2>3
<1>10. SumFunction(tries) = SumFunctionOnSet(tries, Askers)
  BY DEF SumFunction, AskInv, AskTypes
<1>11. PICK s \in Int : s = SumFunctionOnSet(tries, Askers)
  BY <1>5
<1>12. s <= 2 * (least + u)
  BY <1>4, <1>6, <1>7, <1>9, <1>11
<1> QED
  BY <1>1, <1>6, <1>8, <1>10, <1>11, <1>12 DEF CallsAreBudgeted

\* The invariant of every behaviour of the requests.
LEMMA AskInvAlways == AskSpec => []AskInv
BY AskStart, AskNextKeeps, PTL DEF AskSpec

\* parseAnswer: an answer cites something, and only chunks of its own prompt,
\* for any documents, requests and replies of the model.
THEOREM AnswersAlwaysCiteWhatWasSent == AskSpec => []CitesWhatWasSent
<1>1. AskInv => CitesWhatWasSent
  BY DEF AskInv
<1> QED
  BY <1>1, AskInvAlways, PTL

\* llmBudget.js and llm.client.js: calls stay within two per unit of the
\* budget and per request let through uncounted, for any number of requests.
THEOREM CallsAlwaysBudgeted == AskSpec => []CallsAreBudgeted
BY AskInvAlways, UnitsBoundCalls, PTL

\* A charged request calls the model, or was over the budget.
THEOREM AbstainingAlwaysFree == AskSpec => []AbstainingIsFree
<1>1. AskInv => AbstainingIsFree
  BY DEF AskInv
<1> QED
  BY <1>1, AskInvAlways, PTL
=============================================================================
