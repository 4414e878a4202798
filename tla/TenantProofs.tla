---------------------------- MODULE TenantProofs ----------------------------
(***************************************************************************)
(* Theorems about Startup and Tenants, for any number of servers, requests *)
(* and tenants and any size of the library: types, SchemaInOrder,          *)
(* LibraryComplete, AccountsOpen and EditsKept.                            *)
(***************************************************************************)
EXTENDS Startup, TLAPS

USE TenantsAssumption, StartupAssumption

-----------------------------------------------------------------------------
(* Types.                                                                   *)

\* A request or server refers to a tenant or an address when it works on one.
Shape ==
  /\ \A q \in Requests :
       /\ requests[q].pc = "seeding" => requests[q].tenant \in tenants
       /\ requests[q].pc \in {"inserting", "assigning"} => requests[q].email \in Emails
       /\ requests[q].pc = "inserting" => requests[q].made
  /\ \A s \in Servers :
       servers[s].pc = "seeding" => /\ servers[s].tenant \in servers[s].left
                                    /\ servers[s].left \subseteq tenants

TInv == TypeOK /\ Shape

\* The step that a server takes leaves requests alone, and the reverse.
RequestStep ==
  \/ \E q \in Requests : \/ \E t \in Tenants : CreateTenant(q, t)
                         \/ \E e \in Emails : Invite(q, e)
                         \/ Step(q)
  \/ \E t \in Tenants, k \in Edited : EditType(t, k)

\* What idle requests and servers look like.
LEMMA IdleTypes ==
  /\ Idle \in Request
  /\ Down \in Server
BY DEF Idle, Down, Request, Server, Library

\* Seeding a key of a tenant keeps types well-formed, and keys that are taken.
LEMMA SeedFacts ==
  ASSUME types \in [Tenants -> [Keys -> {"none", "starter", "own"}]],
         NEW t \in Tenants, NEW k \in Library, Seed(t, k)
  PROVE  /\ types' \in [Tenants -> [Keys -> {"none", "starter", "own"}]]
         /\ \A u \in Tenants, j \in Keys : types[u][j] # "none" => types'[u][j] = types[u][j]
         /\ \A u \in Tenants, j \in Keys : u # t => types'[u][j] = types[u][j]
         /\ types'[t][k] # "none"
  <1>1. k \in Keys  BY DEF Keys, Library
  <1> QED  BY <1>1 DEF Seed

LEMMA InitTypes == Init => TInv
  <1> SUFFICES ASSUME Init PROVE TInv
    OBVIOUS
  <1>1. /\ requests \in [Requests -> Request] /\ servers \in [Servers -> Server]
        /\ \A q \in Requests : requests[q].pc = "idle"
        /\ \A s \in Servers : servers[s].pc = "down"
    BY IdleTypes DEF Init, InitTables, Idle, Down
  <1>2. /\ tenants \subseteq Tenants /\ applied \subseteq 0 .. Migrations /\ starts \in Nat
        /\ accounts \in [Emails -> Makers] /\ told \in [Emails -> Makers]
    BY DEF Init, Makers
  <1>3. /\ types \in [Tenants -> [Keys -> {"none", "starter", "own"}]]
        /\ created = {} /\ cut = {} /\ lost = {} /\ calm = TRUE
    BY DEF Init, InitTables
  <1> QED  BY <1>1, <1>2, <1>3 DEF TInv, TypeOK, Shape

\* A request that was replaced by a well-formed one.
LEMMA ReplaceRequest ==
  ASSUME requests \in [Requests -> Request], NEW q \in Requests, NEW n \in Request,
         requests' = [requests EXCEPT ![q] = n]
  PROVE  /\ requests' \in [Requests -> Request]
         /\ requests'[q] = n
         /\ \A p \in Requests : p # q => requests'[p] = requests[p]
  OBVIOUS

LEMMA ReplaceServer ==
  ASSUME servers \in [Servers -> Server], NEW s \in Servers, NEW n \in Server,
         servers' = [servers EXCEPT ![s] = n]
  PROVE  /\ servers' \in [Servers -> Server]
         /\ servers'[s] = n
         /\ \A r \in Servers : r # s => servers'[r] = servers[r]
  OBVIOUS

\* What the record of a request that goes on looks like.
LEMMA NextRequest ==
  ASSUME NEW x \in Request
  PROVE  /\ [x EXCEPT !.pc = "assigning"] \in Request
         /\ x.next # Starters => [x EXCEPT !.next = x.next + 1] \in Request
         /\ \A t \in Tenants : [x EXCEPT !.pc = "seeding", !.tenant = t] \in Request
         /\ \A e \in Emails, b \in BOOLEAN, p \in {"inserting", "assigning"} :
              [x EXCEPT !.pc = p, !.email = e, !.made = b] \in Request
  <1>1. [x EXCEPT !.pc = "assigning"] \in Request
    BY DEF Request
  <1>2. ASSUME x.next # Starters
        PROVE  [x EXCEPT !.next = x.next + 1] \in Request
    <2>1. x.next \in 1 .. Starters
      BY DEF Request, Library
    <2>2. x.next + 1 \in Library
      BY <1>2, <2>1 DEF Library
    <2> QED  BY <2>2 DEF Request
  <1>3. ASSUME NEW t \in Tenants
        PROVE  [x EXCEPT !.pc = "seeding", !.tenant = t] \in Request
    BY DEF Request
  <1>4. ASSUME NEW e \in Emails, NEW b \in BOOLEAN, NEW p \in {"inserting", "assigning"}
        PROVE  [x EXCEPT !.pc = p, !.email = e, !.made = b] \in Request
    BY DEF Request
  <1> QED  BY <1>1, <1>2, <1>3, <1>4

LEMMA RequestTypes ==
  ASSUME TInv, RequestStep, UNCHANGED <<applied, servers, starts, calm>>
  PROVE  TInv'
  <1> USE DEF TInv, TypeOK, Shape, library, people, tables
  <1>1. ASSUME NEW q \in Requests, NEW t \in Tenants, CreateTenant(q, t)
        PROVE  TInv'
    <2> DEFINE n == [Idle EXCEPT !.pc = "seeding", !.tenant = t]
    <2>1. n \in Request /\ n.pc = "seeding" /\ n.tenant = t
      BY IdleTypes, NextRequest DEF Idle
    <2>2. requests' = [requests EXCEPT ![q] = n]
      BY <1>1 DEF CreateTenant
    <2> HIDE DEF n
    <2> QED  BY <1>1, <2>1, <2>2, ReplaceRequest DEF CreateTenant
  <1>2. ASSUME NEW q \in Requests, NEW e \in Emails, Invite(q, e)
        PROVE  TInv'
    <2> DEFINE b == accounts[e] = Nil
               p == IF b THEN "inserting" ELSE "assigning"
               n == [Idle EXCEPT !.pc = p, !.email = e, !.made = b]
    <2>1. b \in BOOLEAN /\ p \in {"inserting", "assigning"} /\ (p = "inserting" => b)
      OBVIOUS
    <2>2. requests' = [requests EXCEPT ![q] = n]
      BY <1>2 DEF Invite
    <2>3. n.pc = p /\ n.email = e /\ n.made = b
      BY DEF Idle
    <2> HIDE DEF b, p
    <2>4. n \in Request
      BY <2>1, IdleTypes, NextRequest
    <2> HIDE DEF n
    <2> QED  BY <1>2, <2>1, <2>2, <2>3, <2>4, ReplaceRequest DEF Invite
  <1>3. ASSUME NEW q \in Requests, SeedCreated(q)
        PROVE  TInv'
    <2> DEFINE t == requests[q].tenant
               k == requests[q].next
               n == IF k = Starters THEN Idle ELSE [requests[q] EXCEPT !.next = k + 1]
    <2>1. t \in Tenants /\ k \in Library /\ Seed(t, k)
      BY <1>3 DEF SeedCreated, Request
    <2>2. types' \in [Tenants -> [Keys -> {"none", "starter", "own"}]]
      BY <2>1, SeedFacts
    <2>3. requests' = [requests EXCEPT ![q] = n]
      BY <1>3 DEF SeedCreated
    <2>4. n.pc = "idle" \/ (n.pc = "seeding" /\ n.tenant = t)
      BY <1>3 DEF SeedCreated, Idle, Request
    <2>5. n \in Request
      BY IdleTypes, NextRequest
    <2>6. t \in tenants
      BY <1>3 DEF SeedCreated
    <2> HIDE DEF n
    <2>7. /\ requests' \in [Requests -> Request] /\ requests'[q] = n
          /\ \A p \in Requests : p # q => requests'[p] = requests[p]
      BY <2>3, <2>5, ReplaceRequest
    <2>8. /\ UNCHANGED <<tenants, cut, accounts, told, lost, applied, servers, starts, calm>>
          /\ created' \subseteq created \cup {t}
      BY <1>3 DEF SeedCreated
    <2>9. Shape'
      BY <2>4, <2>6, <2>7, <2>8
    <2> QED  BY <2>2, <2>6, <2>7, <2>8, <2>9
  <1>4. ASSUME NEW q \in Requests, InsertUser(q)
        PROVE  TInv'
    <2>1. requests[q].email \in Emails
      BY <1>4 DEF InsertUser
    <2>2. accounts' \in [Emails -> Makers]
      BY <1>4, <2>1 DEF InsertUser, Makers
    <2>3. PICK n \in {Idle, [requests[q] EXCEPT !.pc = "assigning"]} :
            requests' = [requests EXCEPT ![q] = n]
      BY <1>4 DEF InsertUser, Done
    <2>6. requests[q] \in Request
      OBVIOUS
    <2>4. n \in Request
      BY <2>6, IdleTypes, NextRequest
    <2>5. n.pc = "idle" \/ (n.pc = "assigning" /\ n.email \in Emails)
      BY <2>1 DEF Idle, Request
    <2> QED  BY <1>4, <2>2, <2>3, <2>4, <2>5, ReplaceRequest DEF InsertUser
  <1>5. ASSUME NEW q \in Requests, AssignUser(q)
        PROVE  TInv'
    <2>1. requests[q].email \in Emails
      BY <1>5 DEF AssignUser
    <2>2. told' \in [Emails -> Makers] /\ lost' \subseteq Emails
      BY <1>5, <2>1 DEF AssignUser, Makers, Unspoken
    <2>3. Idle.pc = "idle"
      BY DEF Idle
    <2> QED  BY <1>5, <2>2, <2>3, IdleTypes, ReplaceRequest DEF AssignUser, Done
  <1>6. ASSUME NEW q \in Requests, RequestFails(q)
        PROVE  TInv'
    <2>1. cut' \subseteq Tenants /\ lost' \subseteq Emails
      BY <1>6 DEF RequestFails, Unfinished, Unspoken
    <2>2. Idle.pc = "idle"
      BY DEF Idle
    <2> QED  BY <1>6, <2>1, <2>2, IdleTypes, ReplaceRequest DEF RequestFails, Done
  <1>7. ASSUME NEW t \in Tenants, NEW k \in Edited, EditType(t, k)
        PROVE  TInv'
    <2>1. k \in Keys
      BY DEF Keys, Library
    <2> QED  BY <1>7, <2>1 DEF EditType
  <1> QED  BY <1>1, <1>2, <1>3, <1>4, <1>5, <1>6, <1>7 DEF RequestStep, Step

Stages == {"down", "checking", "applying", "counting", "creating", "logging", "listing",
           "seeding", "serving"}

\* A server as it lists the tenants T to seed.
Lists(T) ==
  [Down EXCEPT !.pc = IF T = {} THEN "serving" ELSE "seeding", !.left = T,
               !.tenant = IF T = {} THEN Nil ELSE CHOOSE t \in T : TRUE]

LEMMA ServerMoves ==
  ASSUME NEW x \in Server, NEW p \in Stages
  PROVE  /\ [x EXCEPT !.pc = p] \in Server
         /\ [x EXCEPT !.pc = p].pc = p
  BY DEF Server, Stages

LEMMA ServerPasses ==
  ASSUME NEW x \in Server
  PROVE  /\ [x EXCEPT !.pc = "counting", !.at = 0] \in Server
         /\ x.at # Migrations => [x EXCEPT !.pc = "checking", !.at = x.at + 1] \in Server
         /\ [x EXCEPT !.pc = "counting", !.at = 0].pc = "counting"
         /\ [x EXCEPT !.pc = "checking", !.at = x.at + 1].pc = "checking"
  <1>1. x.at \in 0 .. Migrations /\ 0 \in 0 .. Migrations
    BY DEF Server
  <1>2. [x EXCEPT !.pc = "counting", !.at = 0] \in Server
    BY <1>1 DEF Server
  <1>3. ASSUME x.at # Migrations
        PROVE  [x EXCEPT !.pc = "checking", !.at = x.at + 1] \in Server
    <2>1. x.at + 1 \in 0 .. Migrations
      BY <1>1, <1>3
    <2> QED  BY <2>1 DEF Server
  <1>4. /\ [x EXCEPT !.pc = "counting", !.at = 0].pc = "counting"
        /\ [x EXCEPT !.pc = "checking", !.at = x.at + 1].pc = "checking"
    BY DEF Server
  <1> QED  BY <1>2, <1>3, <1>4

LEMMA ServerSeeds ==
  ASSUME NEW x \in Server
  PROVE  /\ x.next # Starters => [x EXCEPT !.next = x.next + 1] \in Server
         /\ \A p \in Stages, T \in SUBSET Tenants, t \in Tenants \cup {Nil} :
              [x EXCEPT !.pc = p, !.left = T, !.tenant = t] \in Server
  <1>1. x.next \in 1 .. Starters
    BY DEF Server, Library
  <1>2. ASSUME x.next # Starters
        PROVE  [x EXCEPT !.next = x.next + 1] \in Server
    <2>1. x.next + 1 \in Library
      BY <1>1, <1>2 DEF Library
    <2> QED  BY <2>1 DEF Server
  <1>3. ASSUME NEW p \in Stages, NEW T \in SUBSET Tenants, NEW t \in Tenants \cup {Nil}
        PROVE  [x EXCEPT !.pc = p, !.left = T, !.tenant = t] \in Server
    BY DEF Server, Stages
  <1> QED  BY <1>2, <1>3

LEMMA ListsTypes ==
  ASSUME NEW T \in SUBSET Tenants
  PROVE  /\ Lists(T) \in Server
         /\ Lists(T).left = T /\ Lists(T).next = 1
         /\ T = {} => Lists(T).pc = "serving"
         /\ T # {} => Lists(T).pc = "seeding" /\ Lists(T).tenant \in T
  <1> DEFINE p == IF T = {} THEN "serving" ELSE "seeding"
             t == IF T = {} THEN Nil ELSE CHOOSE u \in T : TRUE
  <1>1. p \in Stages /\ t \in Tenants \cup {Nil} /\ (T # {} => t \in T)
    BY DEF Stages
  <1>2. Lists(T) = [Down EXCEPT !.pc = p, !.left = T, !.tenant = t]
    BY DEF Lists
  <1>3. Lists(T).left = T /\ Lists(T).next = 1 /\ Lists(T).pc = p /\ Lists(T).tenant = t
    BY <1>2 DEF Down
  <1> HIDE DEF p, t
  <1>4. Lists(T) \in Server
    <2>1. Down \in Server
      BY IdleTypes
    <2>2. [Down EXCEPT !.pc = p, !.left = T, !.tenant = t] \in Server
      BY <1>1, <2>1, ServerSeeds
    <2> QED  BY <1>2, <2>2
  <1> QED  BY <1>1, <1>3, <1>4 DEF p

\* What the steps of start-up before the backfill do to a server: it moves to
\* another stage of start-up, or dies.
Early(s) ==
  \/ Start(s) \/ CheckApplied(s) \/ ApplyMigration(s)
  \/ CountUsers(s) \/ CreateAdmin(s) \/ LogPassword(s)

LEMMA EarlyMoves ==
  ASSUME TypeOK, NEW s \in Servers, Early(s)
  PROVE  \E n \in Server :
           /\ servers' = [servers EXCEPT ![s] = n]
           /\ n.pc \notin {"seeding", "serving"}
           /\ n.pc = "logging" => CreateAdmin(s) /\ accounts[Admin] = Nil /\ AdminPassword = Nil
  <1> DEFINE x == servers[s]
             Moves(n) == /\ servers' = [servers EXCEPT ![s] = n]
                         /\ n \in Server /\ n.pc \notin {"seeding", "serving", "logging"}
  <1>1. x \in Server
    BY DEF TypeOK
  <1>2. ASSUME NEW p \in Stages \ {"seeding", "serving", "logging"}, Goes(s, p)
        PROVE  \E n : Moves(n)
    <2>1. [x EXCEPT !.pc = p] \in Server /\ [x EXCEPT !.pc = p].pc = p
      BY <1>1, ServerMoves
    <2>2. servers' = [servers EXCEPT ![s] = [x EXCEPT !.pc = p]]
      BY <1>2 DEF Goes, TypeOK
    <2> QED  BY <2>1, <2>2
  <1>3. ASSUME Passes(s)
        PROVE  \E n : Moves(n)
    <2>1. CASE x.at = Migrations
      <3>1. Moves([x EXCEPT !.pc = "counting", !.at = 0])
        BY <1>1, <1>3, <2>1, ServerPasses DEF Passes
      <3> QED  BY <3>1
    <2>2. CASE x.at # Migrations
      <3>1. Moves([x EXCEPT !.pc = "checking", !.at = x.at + 1])
        BY <1>1, <1>3, <2>2, ServerPasses DEF Passes
      <3> QED  BY <3>1
    <2> QED  BY <2>1, <2>2
  <1>4. ASSUME Dies(s)
        PROVE  \E n : Moves(n)
    <2>1. Moves(Down)
      BY <1>4, IdleTypes DEF Dies, Down
    <2> QED  BY <2>1
  <1>5. CASE Goes(s, "logging") /\ CreateAdmin(s)
    <2> DEFINE n == [x EXCEPT !.pc = "logging"]
    <2>1. n \in Server /\ n.pc = "logging" /\ servers' = [servers EXCEPT ![s] = n]
      <3>1. "logging" \in Stages
        BY DEF Stages
      <3> QED  BY <1>1, <1>5, <3>1, ServerMoves DEF Goes, TypeOK
    <2>2. servers'[s].pc = "logging"
      BY <2>1 DEF TypeOK
    <2>3. accounts[Admin] = Nil /\ AdminPassword = Nil
      <3>1. CASE Dies(s)
        BY <3>1, <2>2 DEF Dies, Down, TypeOK
      <3>2. CASE Goes(s, "listing")
        BY <3>2, <2>2 DEF Goes, TypeOK, Server
      <3> QED  BY <1>5, <3>1, <3>2 DEF CreateAdmin
    <2> QED  BY <1>5, <2>1, <2>3
  <1>6. CASE ~(Goes(s, "logging") /\ CreateAdmin(s))
    <2>1. \/ \E p \in Stages \ {"seeding", "serving", "logging"} : Goes(s, p)
          \/ Passes(s) \/ Dies(s)
      BY <1>6 DEF Early, Start, CheckApplied, ApplyMigration, CountUsers, CreateAdmin,
                  LogPassword, Stages
    <2> QED  BY <1>2, <1>3, <1>4, <2>1
  <1> QED  BY <1>5, <1>6

LEMMA EarlyTypes ==
  ASSUME TInv, NEW s \in Servers, Early(s)
  PROVE  TInv'
  <1> USE DEF TInv, TypeOK, Shape
  <1>1. PICK n \in Server : servers' = [servers EXCEPT ![s] = n] /\ n.pc # "seeding"
    BY EarlyMoves
  <1>2. UNCHANGED <<tenants, types, created, cut, lost, requests>>
    BY DEF Early, Start, CheckApplied, ApplyMigration, CountUsers, CreateAdmin,
           LogPassword, tables, library
  <1>3. applied' \subseteq 0 .. Migrations /\ starts' \in Nat /\ calm' \in BOOLEAN
    <2>1. CASE ApplyMigration(s)
      <3>1. servers[s].at \in 0 .. Migrations
        BY DEF Server
      <3>2. applied' = applied \cup {servers[s].at} \/ applied' = applied
        BY <2>1 DEF ApplyMigration
      <3>3. applied' \subseteq 0 .. Migrations
        BY <3>1, <3>2
      <3> QED  BY <2>1, <3>3 DEF ApplyMigration
    <2>2. CASE Start(s)
      <3>1. applied' = applied /\ starts' = starts + 1 /\ calm' = calm
        BY <2>2 DEF Start
      <3> QED  BY <3>1
    <2>3. CASE CheckApplied(s) \/ CountUsers(s) \/ CreateAdmin(s) \/ LogPassword(s)
      <3>1. UNCHANGED <<applied, starts, calm>>
        BY <2>3 DEF CheckApplied, CountUsers, CreateAdmin, LogPassword
      <3> QED  BY <3>1
    <2> QED  BY <2>1, <2>2, <2>3 DEF Early
  <1>4. accounts' \in [Emails -> Makers] /\ told' \in [Emails -> Makers]
    <2>1. CASE CreateAdmin(s)
      BY <2>1 DEF CreateAdmin, Makers
    <2>2. CASE LogPassword(s)
      BY <2>2 DEF LogPassword, Makers
    <2>3. CASE ~CreateAdmin(s) /\ ~LogPassword(s)
      BY <2>3 DEF Early, Start, CheckApplied, ApplyMigration, CountUsers, tables
    <2> QED  BY <2>1, <2>2, <2>3
  <1>5. servers' \in [Servers -> Server]
    BY <1>1
  <1>6. \A r \in Servers : servers'[r].pc = "seeding" => servers'[r] = servers[r]
    BY <1>1
  <1> QED  BY <1>2, <1>3, <1>4, <1>5, <1>6

\* The steps of the backfill: the server lists tenants, or goes on with one.
LEMMA BackfillMoves ==
  ASSUME TInv, NEW s \in Servers, ListTenants(s) \/ SeedListed(s)
  PROVE  \/ /\ ListTenants(s)
            /\ servers' = [servers EXCEPT ![s] = Lists({t \in tenants : NoTypes(t)})]
         \/ /\ SeedListed(s)
            /\ servers[s].next = Starters
            /\ servers' = [servers EXCEPT ![s] = Lists(servers[s].left \ {servers[s].tenant})]
         \/ /\ SeedListed(s)
            /\ servers[s].next # Starters
            /\ servers' = [servers EXCEPT ![s] = [servers[s] EXCEPT !.next = servers[s].next + 1]]
            /\ [servers[s] EXCEPT !.next = servers[s].next + 1] \in Server
  <1>1. servers[s] \in Server /\ servers \in [Servers -> Server]
    BY DEF TInv, TypeOK
  <1>2. CASE ListTenants(s)
    BY <1>2 DEF ListTenants, Seeds, Lists
  <1>3. CASE SeedListed(s) /\ servers[s].next = Starters
    BY <1>3 DEF SeedListed, Seeds, Lists
  <1>4. CASE SeedListed(s) /\ servers[s].next # Starters
    BY <1>1, <1>4, ServerSeeds DEF SeedListed
  <1> QED  BY <1>2, <1>3, <1>4

LEMMA BackfillTypes ==
  ASSUME TInv, NEW s \in Servers, ListTenants(s) \/ SeedListed(s)
  PROVE  TInv'
  <1> USE DEF TInv, TypeOK, Shape
  <1>1. /\ UNCHANGED <<tenants, created, cut, accounts, told, lost, requests>>
        /\ UNCHANGED <<applied, starts, calm>>
    BY DEF ListTenants, SeedListed, tables, people
  <1>2. types' \in [Tenants -> [Keys -> {"none", "starter", "own"}]]
    <2>1. CASE SeedListed(s)
      <3>1. servers[s].tenant \in Tenants /\ servers[s].next \in Library
        BY <2>1 DEF SeedListed, Server
      <3> QED  BY <2>1, <3>1, SeedFacts DEF SeedListed
    <2>2. CASE ListTenants(s)
      BY <2>2 DEF ListTenants, tables
    <2> QED  BY <2>1, <2>2
  <1>3. \E n \in Server :
          /\ servers' = [servers EXCEPT ![s] = n]
          /\ n.pc = "seeding" => n.tenant \in n.left /\ n.left \subseteq tenants
    <2> DEFINE T == {t \in tenants : NoTypes(t)}
               U == servers[s].left \ {servers[s].tenant}
               n == [servers[s] EXCEPT !.next = servers[s].next + 1]
    <2>1. servers[s] \in Server
      OBVIOUS
    <2>2. T \in SUBSET Tenants /\ U \in SUBSET Tenants /\ T \subseteq tenants
      BY <2>1 DEF Server
    <2>3. SeedListed(s) => U \subseteq tenants
      BY DEF SeedListed
    <2>4. SeedListed(s) => n.tenant \in n.left /\ n.left \subseteq tenants
      BY <2>1 DEF SeedListed, Server
    <2>5. CASE ListTenants(s)
      <3>1. servers' = [servers EXCEPT ![s] = Lists(T)]
        BY <2>5 DEF ListTenants, Seeds, Lists
      <3>2. /\ Lists(T) \in Server /\ Lists(T).left \subseteq tenants
            /\ Lists(T).pc = "seeding" => Lists(T).tenant \in Lists(T).left
        <4> HIDE DEF T
        <4> QED  BY <2>2, ListsTypes
      <3> QED  BY <3>1, <3>2
    <2>6. CASE SeedListed(s) /\ servers[s].next = Starters
      <3>1. servers' = [servers EXCEPT ![s] = Lists(U)]
        BY <2>6 DEF SeedListed, Seeds, Lists
      <3>2. /\ Lists(U) \in Server /\ Lists(U).left \subseteq tenants
            /\ Lists(U).pc = "seeding" => Lists(U).tenant \in Lists(U).left
        <4> HIDE DEF U
        <4> QED  BY <2>2, <2>3, <2>6, ListsTypes
      <3> QED  BY <3>1, <3>2
    <2>7. CASE SeedListed(s) /\ servers[s].next # Starters
      <3>1. servers' = [servers EXCEPT ![s] = n] /\ n \in Server
        BY <2>1, <2>7, ServerSeeds DEF SeedListed
      <3> HIDE DEF n
      <3> QED  BY <2>4, <2>7, <3>1
    <2> QED  BY <2>5, <2>6, <2>7
  <1> HIDE DEF TInv
  <1>4. servers' \in [Servers -> Server]
    BY <1>3 DEF TInv
  <1>5. \A r \in Servers : servers'[r].pc = "seeding" =>
          servers'[r].tenant \in servers'[r].left /\ servers'[r].left \subseteq tenants
    BY <1>3 DEF TInv
  <1> QED  BY <1>1, <1>2, <1>4, <1>5 DEF TInv

LEMMA StopTypes ==
  ASSUME TInv, NEW s \in Servers, NEW Q \in SUBSET Requests, StopsWith(s, Q),
         calm' \in BOOLEAN
  PROVE  TInv'
  <1> USE DEF TInv, TypeOK, Shape
  <1>1. UNCHANGED <<tenants, types, created, accounts, told, applied, starts>>
    BY DEF StopsWith
  <1>2. HalfSeeded(s) \subseteq Tenants /\ Unlogged(s) \subseteq Emails
    BY DEF HalfSeeded, Unlogged
  <1>3. \A q \in Q : Unfinished(q) \subseteq Tenants /\ Unspoken(q) \subseteq Emails
    BY DEF Unfinished, Unspoken
  <1>4. cut' \subseteq Tenants /\ lost' \subseteq Emails
    BY <1>2, <1>3 DEF StopsWith
  <1>5. /\ requests' \in [Requests -> Request]
        /\ \A q \in Requests : requests'[q] = Idle \/ requests'[q] = requests[q]
    BY IdleTypes DEF StopsWith
  <1>6. servers' = [servers EXCEPT ![s] = Down] /\ Down \in Server /\ Down.pc = "down"
    BY IdleTypes DEF StopsWith, Dies, Down
  <1>7. /\ servers' \in [Servers -> Server]
        /\ \A r \in Servers : servers'[r].pc = "seeding" => servers'[r] = servers[r]
    BY <1>6
  <1>8. Idle.pc = "idle"
    BY DEF Idle
  <1> QED  BY <1>1, <1>4, <1>5, <1>7, <1>8

\* The forms that a step takes.
Backfills(s) == ListTenants(s) \/ SeedListed(s)
Ends(s) == \E Q \in SUBSET Requests : StopsWith(s, Q) /\ calm' \in BOOLEAN
Serves == Serving /\ RequestStep /\ UNCHANGED <<applied, servers, starts, calm>>

LEMMA NextForms ==
  ASSUME TInv, Next
  PROVE  \/ \E s \in Servers : Early(s) \/ Backfills(s) \/ Ends(s)
         \/ Serves
  <1>1. ASSUME NEW s \in Servers, ServerFails(s) \/ Stop(s) \/ Crash(s)
        PROVE  Ends(s)
    BY <1>1 DEF ServerFails, Stop, Crash, Ends, TInv, TypeOK
  <1>2. ASSUME ServeRequests
        PROVE  Serves
    BY <1>2 DEF ServeRequests, Serves, Serve, RequestStep
  <1> QED  BY <1>1, <1>2 DEF Next, ServerStep, Early, Backfills

LEMMA Types == Spec => []TInv
  <1>1. Init => TInv
    BY InitTypes
  <1>2. TInv /\ [Next]_vars => TInv'
    <2> SUFFICES ASSUME TInv, [Next]_vars PROVE TInv'
      OBVIOUS
    <2>1. CASE Next
      BY <2>1, NextForms, EarlyTypes, BackfillTypes, StopTypes, RequestTypes
         DEF Backfills, Ends, Serves
    <2>2. CASE UNCHANGED vars
      BY <2>2 DEF vars, tables, TInv, TypeOK, Shape
    <2> QED  BY <2>1, <2>2
  <1> QED  BY <1>1, <1>2, PTL DEF Spec

-----------------------------------------------------------------------------
(* The migrations.                                                          *)

\* All migrations before the one in turn of a server are in place, and all
\* there are once it is past them.
Reached(s) ==
  IF servers[s].pc \in {"down", "checking", "applying"}
  THEN \A m \in 0 .. Migrations : m < servers[s].at => m \in applied
  ELSE applied = 0 .. Migrations

NoGap == \A m \in applied : 0 .. m \subseteq applied

SchemaInv == NoGap /\ \A s \in Servers : Reached(s)

LEMMA PassesReached ==
  ASSUME TInv, NEW s \in Servers, Passes(s), Reached(s),
         servers[s].pc \in {"checking", "applying"},
         applied \subseteq applied', applied' \subseteq 0 .. Migrations,
         servers[s].at \in applied'
  PROVE  Reached(s)'
  <1> DEFINE x == servers[s]
  <1>1. x \in Server /\ x.at \in 0 .. Migrations
    BY DEF TInv, TypeOK, Server
  <1>2. \A m \in 0 .. Migrations : m < x.at => m \in applied
    BY DEF Reached
  <1>3. CASE x.at = Migrations
    <2>1. servers'[s] = [x EXCEPT !.pc = "counting", !.at = 0]
      BY <1>3 DEF Passes, TInv, TypeOK
    <2>2. servers'[s].pc = "counting"
      BY <1>1, <2>1, ServerPasses
    <2>3. applied' = 0 .. Migrations
      <3>1. \A m \in 0 .. Migrations : m < x.at \/ m = x.at
        BY <1>1, <1>3
      <3> QED  BY <1>2, <3>1
    <2> QED  BY <2>2, <2>3 DEF Reached
  <1>4. CASE x.at # Migrations
    <2>1. servers'[s] = [x EXCEPT !.pc = "checking", !.at = x.at + 1]
      BY <1>4 DEF Passes, TInv, TypeOK
    <2>2. servers'[s].pc = "checking" /\ servers'[s].at = x.at + 1
      BY <1>1, <2>1 DEF Server
    <2>3. \A m \in 0 .. Migrations : m < x.at + 1 => m \in applied'
      BY <1>1, <1>2
    <2> QED  BY <2>2, <2>3 DEF Reached
  <1> QED  BY <1>3, <1>4

\* A server that stays where it is in the migrations, or is past them.
LEMMA StaysReached ==
  ASSUME NEW s \in Servers, Reached(s), applied \subseteq applied',
         applied' \subseteq 0 .. Migrations,
         \/ /\ servers'[s].pc = servers[s].pc
            /\ servers'[s].at = servers[s].at
         \/ /\ {servers[s].pc, servers'[s].pc} \subseteq {"down", "checking", "applying"}
            /\ servers'[s].at = servers[s].at
         \/ servers'[s].pc = "down" /\ servers'[s].at = 0
         \/ servers[s].pc \notin {"down", "checking", "applying"}
            /\ servers'[s].pc \notin {"down", "checking", "applying"}
  PROVE  Reached(s)'
  <1>1. applied = 0 .. Migrations => applied' = 0 .. Migrations
    OBVIOUS
  <1> QED  BY <1>1 DEF Reached

LEMMA EarlyReached ==
  ASSUME TInv, SchemaInv, NEW s \in Servers, Early(s)
  PROVE  /\ applied \subseteq applied' /\ applied' \subseteq 0 .. Migrations
         /\ NoGap'
         /\ Reached(s)'
  <1> DEFINE x == servers[s]
  <1>1. x \in Server /\ x.at \in 0 .. Migrations
    BY DEF TInv, TypeOK, Server
  <1>2. \A p \in Stages : Goes(s, p) => servers'[s].pc = p /\ servers'[s].at = x.at
    BY <1>1 DEF Goes, Server, TInv, TypeOK
  <1>3. Dies(s) => servers'[s].pc = "down" /\ servers'[s].at = 0
    BY DEF Dies, Down, TInv, TypeOK
  <1>4. {"checking", "applying", "creating", "logging", "listing"} \subseteq Stages
    BY DEF Stages
  <1>5. applied' \subseteq 0 .. Migrations
    BY EarlyTypes DEF TInv, TypeOK
  <1>6. Reached(s) /\ NoGap
    BY DEF SchemaInv
  <1>7. CASE Start(s) \/ CountUsers(s) \/ CreateAdmin(s) \/ LogPassword(s)
    <2>1. applied' = applied
      BY <1>7 DEF Start, CountUsers, CreateAdmin, LogPassword
    <2>2. \/ x.pc = "down" /\ Goes(s, "checking")
          \/ Dies(s)
          \/ /\ x.pc \in {"counting", "creating", "logging"}
             /\ Goes(s, "creating") \/ Goes(s, "logging") \/ Goes(s, "listing")
      BY <1>7 DEF Start, CountUsers, CreateAdmin, LogPassword
    <2>3. Reached(s)'
      BY <1>2, <1>3, <1>4, <1>5, <1>6, <2>1, <2>2, StaysReached
    <2> QED  BY <1>5, <1>6, <2>1, <2>3 DEF NoGap
  <1>8. CASE CheckApplied(s)
    <2>1. applied' = applied /\ x.pc = "checking"
      BY <1>8 DEF CheckApplied
    <2>2. CASE x.at \in applied /\ Passes(s)
      <3>1. Reached(s)'
        BY <1>5, <1>6, <2>1, <2>2, PassesReached
      <3> QED  BY <1>5, <1>6, <2>1, <3>1 DEF NoGap
    <2>3. CASE Goes(s, "applying")
      <3>1. Reached(s)'
        BY <1>2, <1>4, <1>5, <1>6, <2>1, <2>3, StaysReached
      <3> QED  BY <1>5, <1>6, <2>1, <3>1 DEF NoGap
    <2> QED  BY <1>8, <2>2, <2>3 DEF CheckApplied
  <1>9. CASE ApplyMigration(s)
    <2>1. x.pc = "applying"
      BY <1>9 DEF ApplyMigration
    <2>2. CASE x.at \notin applied
      <3>1. applied' = applied \cup {x.at} /\ Passes(s)
        BY <1>9, <2>2 DEF ApplyMigration
      <3>2. NoGap'
        <4>1. \A m \in 0 .. Migrations : m < x.at => m \in applied
          BY <1>6, <2>1 DEF Reached
        <4>2. 0 .. x.at \subseteq applied'
          BY <1>1, <3>1, <4>1
        <4> QED  BY <1>6, <3>1, <4>2 DEF NoGap
      <3>3. Reached(s)'
        BY <1>5, <1>6, <2>1, <3>1, PassesReached
      <3> QED  BY <1>5, <3>1, <3>2, <3>3
    <2>3. CASE x.at \in applied
      <3>1. applied' = applied /\ (Dies(s) \/ Passes(s))
        BY <1>9, <2>3 DEF ApplyMigration
      <3>2. Reached(s)'
        BY <1>3, <1>5, <1>6, <2>1, <2>3, <3>1, PassesReached, StaysReached
      <3> QED  BY <1>5, <1>6, <3>1, <3>2 DEF NoGap
    <2> QED  BY <2>2, <2>3
  <1> QED  BY <1>7, <1>8, <1>9 DEF Early

LEMMA SchemaKept ==
  ASSUME TInv, SchemaInv, [Next]_vars
  PROVE  SchemaInv'
  <1> USE DEF TInv, TypeOK
  <1>0. \A s \in Servers : Reached(s)
    BY DEF SchemaInv
  <1>1. ASSUME NEW s \in Servers, Early(s)
        PROVE  SchemaInv'
    <2>1. PICK n \in Server : servers' = [servers EXCEPT ![s] = n]
      BY <1>1, EarlyMoves
    <2>2. \A r \in Servers : r # s => servers'[r] = servers[r]
      BY <2>1
    <2>3. \A r \in Servers : r # s => Reached(r)'
      BY <1>0, <1>1, <2>2, EarlyReached, StaysReached
    <2> QED  BY <1>1, <2>3, EarlyReached DEF SchemaInv
  <1>2. ASSUME NEW s \in Servers, Backfills(s)
        PROVE  SchemaInv'
    <2>1. applied' = applied /\ servers[s].pc \in {"listing", "seeding"}
      BY <1>2 DEF Backfills, ListTenants, SeedListed
    <2>2. /\ servers'[s].pc \in {"seeding", "serving"}
          /\ \A r \in Servers : r # s => servers'[r] = servers[r]
      <3>1. \A T \in SUBSET Tenants : Lists(T).pc \in {"seeding", "serving"}
        BY DEF Lists
      <3>2. servers[s] \in Server
        OBVIOUS
      <3>3. servers[s].left \ {servers[s].tenant} \in SUBSET Tenants
        BY <3>2 DEF Server
      <3>4. SeedListed(s) => [servers[s] EXCEPT !.next = servers[s].next + 1].pc = "seeding"
        BY <3>2 DEF SeedListed, Server
      <3>5. PICK n : servers' = [servers EXCEPT ![s] = n] /\ n.pc \in {"seeding", "serving"}
        <4> HIDE DEF TInv, TypeOK
        <4>1. {t \in tenants : NoTypes(t)} \in SUBSET Tenants
          BY DEF TInv, TypeOK
        <4> QED  BY <1>2, <3>1, <3>3, <3>4, <4>1, BackfillMoves DEF Backfills
      <3> QED  BY <3>5
    <2>3. \A r \in Servers : Reached(r)'
      BY <1>0, <2>1, <2>2, StaysReached
    <2> QED  BY <2>1, <2>3 DEF SchemaInv, NoGap
  <1>3. ASSUME NEW s \in Servers, Ends(s)
        PROVE  SchemaInv'
    <2>1. applied' = applied /\ Dies(s)
      BY <1>3 DEF Ends, StopsWith
    <2>2. /\ servers'[s].pc = "down" /\ servers'[s].at = 0
          /\ \A r \in Servers : r # s => servers'[r] = servers[r]
      BY <2>1 DEF Dies, Down
    <2>3. \A r \in Servers : Reached(r)'
      BY <1>0, <2>1, <2>2, StaysReached
    <2> QED  BY <2>1, <2>3 DEF SchemaInv, NoGap
  <1>4. CASE Serves \/ UNCHANGED vars
    BY <1>4 DEF Serves, vars, SchemaInv, NoGap, Reached
  <1> QED  BY <1>1, <1>2, <1>3, <1>4, NextForms

\* For any number of servers and of migrations, whichever server applies one,
\* loses the race for one or dies between two (migrate).
THEOREM SchemaIsInOrder == Spec => []SchemaInOrder
  <1>1. Init => SchemaInv
    BY DEF Init, Down, SchemaInv, NoGap, Reached
  <1>2. TInv /\ SchemaInv /\ [Next]_vars => SchemaInv'
    BY SchemaKept
  <1>3. SchemaInv => SchemaInOrder
    BY DEF SchemaInv, NoGap, Reached, SchemaInOrder
  <1> QED  BY <1>1, <1>2, <1>3, Types, PTL DEF Spec

-----------------------------------------------------------------------------
(* Servers that start beside each other.                                    *)

Past(x) == x.pc \in {"logging", "listing", "seeding", "serving"}

\* A server that has migration m behind it.
Beyond(x, m) ==
  \/ x.pc \in {"checking", "applying"} /\ x.at > m
  \/ x.pc \in {"counting", "creating"}
  \/ Past(x)

\* What a step of server u comes to, when it starts or is on its way up.
Begins(x, y) == x.pc = "down" /\ y.pc = "checking" /\ UNCHANGED <<applied, accounts>>
Takes(x, y) ==
  /\ x.pc = "checking" /\ y.pc = "applying" /\ y.at = x.at /\ x.at \notin applied
  /\ UNCHANGED <<applied, accounts>>
Advances(x, y) ==
  /\ x.pc \in {"checking", "applying"}
  /\ y.pc = "counting" \/ (y.pc = "checking" /\ y.at = x.at + 1)
  /\ applied' \subseteq applied \cup {x.at}
  /\ UNCHANGED accounts
GivesUp(x, y) ==
  /\ \/ x.pc = "applying" /\ x.at \in applied
     \/ x.pc = "creating" /\ accounts[Admin] # Nil
  /\ y.pc = "down"
  /\ UNCHANGED <<applied, accounts>>
Counts(x, y) ==
  /\ x.pc = "counting"
  /\ y.pc = "listing" \/ (y.pc = "creating" /\ accounts[Admin] = Nil)
  /\ UNCHANGED <<applied, accounts>>
Creates(x, y) ==
  x.pc = "creating" /\ y.pc \in {"logging", "listing"} /\ UNCHANGED applied
Finishes(x, y) == Past(x) /\ Past(y) /\ UNCHANGED <<applied, accounts>>

Moved(x, y) ==
  \/ Begins(x, y) \/ Takes(x, y) \/ Advances(x, y) \/ GivesUp(x, y)
  \/ Counts(x, y) \/ Creates(x, y) \/ Finishes(x, y)

LEMMA EarlyForm ==
  ASSUME TInv, NEW u \in Servers, Early(u)
  PROVE  Moved(servers[u], servers'[u])
<1> DEFINE x == servers[u]
           y == servers'[u]
<1> USE DEF Moved
<1>1. x \in Server /\ servers \in [Servers -> Server] /\ Admin \in Emails
  BY DEF TInv, TypeOK
<1>2. \A p \in Stages : Goes(u, p) => y.pc = p /\ y.at = x.at
  BY <1>1 DEF Goes, Server
<1>3. Dies(u) => y.pc = "down"
  BY <1>1 DEF Dies, Down
<1>4. {"checking", "applying", "creating", "logging", "listing"} \subseteq Stages
  BY DEF Stages
<1>5. Passes(u) => y.pc = "counting" \/ (y.pc = "checking" /\ y.at = x.at + 1)
  BY <1>1 DEF Passes, Server
<1> HIDE DEF x, y
<1>6. CASE Start(u)
  <2>1. x.pc = "down" /\ Goes(u, "checking") /\ UNCHANGED <<applied, accounts>>
    BY <1>6 DEF Start, tables, people, x
  <2> QED BY <1>2, <1>4, <2>1 DEF Begins, x, y
<1>7. CASE CheckApplied(u)
  <2>1. /\ x.pc = "checking" /\ UNCHANGED <<applied, accounts>>
        /\ Passes(u) \/ (x.at \notin applied /\ Goes(u, "applying"))
    BY <1>7 DEF CheckApplied, tables, people, x
  <2>2. CASE Passes(u)
    BY <1>5, <2>1, <2>2 DEF Advances, x, y
  <2>3. CASE x.at \notin applied /\ Goes(u, "applying")
    BY <1>2, <1>4, <2>1, <2>3 DEF Takes, x, y
  <2> QED BY <2>1, <2>2, <2>3
<1>8. CASE ApplyMigration(u)
  <2>1. /\ x.pc = "applying" /\ UNCHANGED accounts
        /\ applied' \subseteq applied \cup {x.at}
        /\ Passes(u) \/ (x.at \in applied /\ applied' = applied /\ Dies(u))
    BY <1>8 DEF ApplyMigration, tables, people, x
  <2>2. CASE Passes(u)
    BY <1>5, <2>1, <2>2 DEF Advances, x, y
  <2>3. CASE x.at \in applied /\ applied' = applied /\ Dies(u)
    BY <1>3, <2>1, <2>3 DEF GivesUp, x, y
  <2> QED BY <2>1, <2>2, <2>3
<1>9. CASE CountUsers(u)
  <2>1. /\ x.pc = "counting" /\ UNCHANGED <<applied, accounts>>
        /\ Goes(u, "listing") \/ (accounts[Admin] = Nil /\ Goes(u, "creating"))
    BY <1>1, <1>9 DEF CountUsers, tables, people, x
  <2> QED BY <1>2, <1>4, <2>1 DEF Counts, x, y
<1>10. CASE CreateAdmin(u)
  <2>1. /\ x.pc = "creating" /\ UNCHANGED applied
        /\ \/ accounts[Admin] # Nil /\ Dies(u) /\ UNCHANGED accounts
           \/ Goes(u, "logging") \/ Goes(u, "listing")
    BY <1>10 DEF CreateAdmin, x
  <2> QED BY <1>2, <1>3, <1>4, <2>1 DEF GivesUp, Creates, x, y
<1>11. CASE LogPassword(u)
  <2>1. x.pc = "logging" /\ Goes(u, "listing") /\ UNCHANGED <<applied, accounts>>
    BY <1>11 DEF LogPassword, x
  <2> QED BY <1>2, <1>4, <2>1 DEF Finishes, Past, x, y
<1> QED BY <1>6, <1>7, <1>8, <1>9, <1>10, <1>11 DEF Early, x, y

LEMMA BackfillForm ==
  ASSUME TInv, NEW u \in Servers, Backfills(u)
  PROVE  /\ Moved(servers[u], servers'[u])
         /\ \A r \in Servers : r # u => servers'[r] = servers[r]
<1>1. servers[u] \in Server /\ servers \in [Servers -> Server]
  BY DEF TInv, TypeOK
<1>2. servers[u].pc \in {"listing", "seeding"} /\ UNCHANGED <<applied, accounts>>
  BY DEF Backfills, ListTenants, SeedListed, tables, people
<1>3. PICK n : servers' = [servers EXCEPT ![u] = n] /\ n.pc \in {"seeding", "serving"}
  <2>1. \A T \in SUBSET Tenants : Lists(T).pc \in {"seeding", "serving"}
    BY DEF Lists
  <2>2. servers[u].left \ {servers[u].tenant} \in SUBSET Tenants
    BY <1>1 DEF Server
  <2>3. SeedListed(u) => [servers[u] EXCEPT !.next = servers[u].next + 1].pc = "seeding"
    BY <1>1 DEF SeedListed, Server
  <2>4. {t \in tenants : NoTypes(t)} \in SUBSET Tenants
    BY DEF TInv, TypeOK
  <2> QED BY <2>1, <2>2, <2>3, <2>4, BackfillMoves DEF Backfills
<1> QED BY <1>1, <1>2, <1>3 DEF Moved, Finishes, Past

LEMMA MoveForm ==
  ASSUME TInv, NEW u \in Servers, Early(u) \/ Backfills(u)
  PROVE  /\ Moved(servers[u], servers'[u])
         /\ \A r \in Servers : r # u => servers'[r] = servers[r]
<1>1. CASE Early(u)
  <2>1. PICK n \in Server : servers' = [servers EXCEPT ![u] = n]
    BY <1>1, EarlyMoves DEF TInv
  <2> QED BY <1>1, <2>1, EarlyForm
<1> QED BY <1>1, BackfillForm

\* Whoever is going to give up has somebody ahead who made it so.
Led(s) ==
  /\ servers[s].pc = "applying" /\ servers[s].at \in applied
       => \E r \in Servers : Beyond(servers[r], servers[s].at)
  /\ servers[s].pc = "creating" /\ accounts[Admin] # Nil
       => \E r \in Servers : Past(servers[r])

LedInv == calm => \A s \in Servers : Led(s)

\* A server that does not give up keeps behind it what is behind it.
LEMMA StaysBeyond ==
  ASSUME TInv, NEW u \in Servers, Moved(servers[u], servers'[u]),
         ~GivesUp(servers[u], servers'[u])
  PROVE  /\ \A m \in 0 .. Migrations : Beyond(servers[u], m) => Beyond(servers'[u], m)
         /\ Past(servers[u]) => Past(servers'[u])
<1> DEFINE x == servers[u]
           y == servers'[u]
<1>1. x.at \in Int
  BY DEF TInv, TypeOK, Server
<1> HIDE DEF x, y
<1>2. Moved(x, y) /\ ~GivesUp(x, y)
  BY DEF x, y
<1>3. ASSUME NEW m \in 0 .. Migrations, Beyond(x, m)
      PROVE  Beyond(y, m)
  <2>1. CASE Begins(x, y) \/ Takes(x, y) \/ Advances(x, y)
    BY <1>1, <1>3, <2>1 DEF Begins, Takes, Advances, Beyond, Past
  <2>2. CASE Counts(x, y) \/ Creates(x, y) \/ Finishes(x, y)
    BY <1>3, <2>2 DEF Counts, Creates, Finishes, Beyond, Past
  <2> QED BY <1>2, <2>1, <2>2 DEF Moved
<1>4. Past(x) => Past(y)
  BY <1>2 DEF Moved, Begins, Takes, Advances, Counts, Creates, Finishes, Past
<1> QED BY <1>3, <1>4 DEF x, y

\* One that gives up is not the last ahead: whoever made it give up is further.
LEMMA AheadRemains ==
  ASSUME TInv, NEW u \in Servers, Early(u) \/ Backfills(u), \A s \in Servers : Led(s)
  PROVE  /\ \A m \in 0 .. Migrations : (\E r \in Servers : Beyond(servers[r], m))
                => \E r \in Servers : Beyond(servers'[r], m)
         /\ (\E r \in Servers : Past(servers[r])) => \E r \in Servers : Past(servers'[r])
<1>1. /\ Moved(servers[u], servers'[u])
      /\ \A r \in Servers : r # u => servers'[r] = servers[r]
  BY MoveForm
<1>2. servers[u].at \in 0 .. Migrations
  BY DEF TInv, TypeOK, Server
<1>3. CASE ~GivesUp(servers[u], servers'[u])
  BY <1>1, <1>3, StaysBeyond
<1>4. CASE GivesUp(servers[u], servers'[u])
  <2>1. Led(u)
    OBVIOUS
  <2>2. CASE servers[u].pc = "applying" /\ servers[u].at \in applied
    <3>1. PICK r \in Servers : Beyond(servers[r], servers[u].at)
      BY <2>1, <2>2 DEF Led
    <3>2. r # u /\ servers'[r] = servers[r]
      BY <1>1, <1>2, <2>2, <3>1 DEF Beyond, Past
    <3>3. servers[r].at \in 0 .. Migrations
      BY DEF TInv, TypeOK, Server
    <3>4. ASSUME NEW m \in 0 .. Migrations, Beyond(servers[u], m)
          PROVE  Beyond(servers'[r], m)
      BY <1>2, <2>2, <3>1, <3>2, <3>3, <3>4 DEF Beyond, Past
    <3>5. ~Past(servers[u])
      BY <2>2 DEF Past
    <3> QED BY <1>1, <3>4, <3>5
  <2>3. CASE servers[u].pc = "creating" /\ accounts[Admin] # Nil
    <3>1. PICK r \in Servers : Past(servers[r])
      BY <2>1, <2>3 DEF Led
    <3>2. r # u /\ servers'[r] = servers[r]
      BY <1>1, <2>3, <3>1 DEF Past
    <3> QED BY <1>1, <3>1, <3>2 DEF Beyond
  <2> QED BY <1>4, <2>2, <2>3 DEF GivesUp
<1> QED BY <1>3, <1>4

\* A step of server u keeps everybody led.
LEMMA MoveLeads ==
  ASSUME TInv, NEW u \in Servers, Early(u) \/ Backfills(u), \A s \in Servers : Led(s),
         NEW s \in Servers
  PROVE  Led(s)'
<1> DEFINE x == servers[u]
           y == servers'[u]
<1>1. Moved(x, y) /\ \A r \in Servers : r # u => servers'[r] = servers[r]
  BY MoveForm
<1>2. servers[s].at \in 0 .. Migrations /\ x.at \in 0 .. Migrations
  BY DEF TInv, TypeOK, Server
<1>3. ASSUME servers'[s].pc = "applying", servers'[s].at \in applied'
      PROVE  \E r \in Servers : Beyond(servers'[r], servers'[s].at)
  <2>1. s # u
    <3> HIDE DEF x, y
    <3>1. y.pc = "applying" => Takes(x, y)
      BY <1>1 DEF Moved, Begins, Advances, GivesUp, Counts, Creates, Finishes, Past
    <3>2. Takes(x, y) => y.at \notin applied'
      BY DEF Takes
    <3> QED BY <1>3, <3>1, <3>2 DEF x, y
  <2>2. servers'[s] = servers[s]
    BY <1>1, <2>1
  <2>3. CASE servers[s].at \in applied
    BY <1>2, <1>3, <2>2, <2>3, AheadRemains DEF Led
  <2>4. CASE servers[s].at \notin applied
    <3> HIDE DEF x, y
    <3>1. Advances(x, y) /\ x.at = servers[s].at
      BY <1>1, <1>3, <2>2, <2>4
         DEF Moved, Begins, Takes, Advances, GivesUp, Counts, Creates, Finishes
    <3>2. Beyond(y, servers[s].at)
      BY <1>2, <3>1 DEF Advances, Beyond
    <3> QED BY <2>2, <3>2 DEF y
  <2> QED BY <2>3, <2>4
<1>4. ASSUME servers'[s].pc = "creating", accounts'[Admin] # Nil
      PROVE  \E r \in Servers : Past(servers'[r])
  <2>1. s # u
    <3> HIDE DEF x, y
    <3>1. y.pc = "creating" => accounts' = accounts /\ accounts[Admin] = Nil
      BY <1>1 DEF Moved, Begins, Takes, Advances, GivesUp, Counts, Creates, Finishes, Past
    <3> QED BY <1>4, <3>1 DEF y
  <2>2. servers'[s] = servers[s]
    BY <1>1, <2>1
  <2>3. CASE accounts[Admin] # Nil
    BY <1>4, <2>2, <2>3, AheadRemains DEF Led
  <2>4. CASE accounts[Admin] = Nil
    <3> HIDE DEF x, y
    <3>1. Creates(x, y)
      BY <1>1, <1>4, <2>4 DEF Moved, Begins, Takes, Advances, GivesUp, Counts, Finishes
    <3>2. Past(y)
      BY <3>1 DEF Creates, Past
    <3> QED BY <3>2 DEF y
  <2> QED BY <2>3, <2>4
<1> QED BY <1>3, <1>4 DEF Led

LEMMA LedKept ==
  ASSUME TInv, LedInv, [Next]_vars
  PROVE  LedInv'
<1> SUFFICES ASSUME calm' PROVE \A s \in Servers : Led(s)'
  BY DEF LedInv
<1>1. ASSUME NEW u \in Servers, Early(u) \/ Backfills(u)
      PROVE  \A s \in Servers : Led(s)'
  <2>1. calm' = calm
    BY <1>1 DEF Early, Backfills, Start, CheckApplied, ApplyMigration, CountUsers, CreateAdmin,
                LogPassword, ListTenants, SeedListed
  <2> QED BY <1>1, <2>1, MoveLeads DEF LedInv
<1>2. ASSUME NEW u \in Servers, ServerFails(u) \/ Crash(u)
      PROVE  FALSE
  BY <1>2 DEF ServerFails, Crash
<1>3. ASSUME NEW u \in Servers, Stop(u)
      PROVE  \A s \in Servers : Led(s)'
  <2>1. ~Starting /\ servers' = [servers EXCEPT ![u] = Down]
    BY <1>3 DEF Stop, StopsWith, Dies, TInv, TypeOK
  <2>2. \A s \in Servers : servers'[s].pc \in {"down", "serving"}
    BY <2>1 DEF Starting, Down, TInv, TypeOK
  <2> QED BY <2>2 DEF Led
<1>4. CASE ServeRequests
  <2>1. PICK r \in Servers : servers[r].pc = "serving"
    BY <1>4 DEF ServeRequests, Serving
  <2>2. servers' = servers /\ applied' = applied /\ calm
    BY <1>4 DEF ServeRequests
  <2>3. Past(servers'[r])
    BY <2>1, <2>2 DEF Past
  <2> QED BY <2>2, <2>3 DEF LedInv, Led
<1>5. CASE UNCHANGED vars
  BY <1>5 DEF vars, tables, people, LedInv, Led
<1> QED BY <1>1, <1>2, <1>3, <1>4, <1>5 DEF Next, ServerStep, Early, Backfills

LEMMA SomebodyStays ==
  ASSUME TInv, LedInv, [Next]_vars, Starting, calm'
  PROVE  (Starting \/ Serving)'
<1> SUFFICES \E r \in Servers : servers'[r].pc # "down"
  BY DEF Starting, Serving
<1>1. PICK s \in Servers : servers[s].pc \notin {"down", "serving"}
  BY DEF Starting
<1>2. ASSUME NEW u \in Servers, Early(u) \/ Backfills(u)
      PROVE  \E r \in Servers : servers'[r].pc # "down"
  <2>1. calm' = calm
    BY <1>2 DEF Early, Backfills, Start, CheckApplied, ApplyMigration, CountUsers, CreateAdmin,
                LogPassword, ListTenants, SeedListed
  <2>2. /\ Moved(servers[u], servers'[u])
        /\ \A r \in Servers : r # u => servers'[r] = servers[r]
    BY <1>2, MoveForm
  <2>3. servers[u].at \in 0 .. Migrations
    BY DEF TInv, TypeOK, Server
  <2>4. CASE GivesUp(servers[u], servers'[u])
    <3>1. Led(u)
      BY <2>1 DEF LedInv
    <3>2. PICK r \in Servers : Beyond(servers[r], servers[u].at) /\ servers[r] # servers[u]
      BY <2>3, <2>4, <3>1 DEF GivesUp, Led, Beyond, Past
    <3>3. servers'[r] = servers[r] /\ servers[r].pc # "down"
      BY <2>2, <3>2 DEF Beyond, Past
    <3> QED BY <3>3
  <2>5. CASE ~GivesUp(servers[u], servers'[u])
    <3>1. servers'[u].pc # "down"
      BY <2>2, <2>5 DEF Moved, Begins, Takes, Advances, Counts, Creates, Finishes, Past
    <3> QED BY <3>1
  <2> QED BY <2>4, <2>5
<1>3. ASSUME NEW u \in Servers, ServerFails(u) \/ Crash(u) \/ Stop(u)
      PROVE  FALSE
  BY <1>3 DEF ServerFails, Crash, Stop
<1>4. CASE ServeRequests \/ UNCHANGED vars
  BY <1>1, <1>4 DEF ServeRequests, vars
<1> QED BY <1>2, <1>3, <1>4 DEF Next, ServerStep, Early, Backfills

\* Theorem: any number of servers that start at once, on any number of
\* migrations, never all give up because of each other.
THEOREM StartersNeverAllFail == Spec => NeverAllFail
<1>1. Init => LedInv
  BY DEF Init, Down, LedInv, Led
<1>2. TInv /\ LedInv /\ [Next]_vars => LedInv'
  BY LedKept
<1>3. TInv /\ LedInv /\ [Next]_vars => [Starting /\ calm' => (Starting \/ Serving)']_vars
  BY SomebodyStays
<1> QED BY <1>1, <1>2, <1>3, Types, PTL DEF Spec, NeverAllFail

\* Where on its way up a server is: the stages in order, and within the
\* migrations and the backfill what is left of them.
Place(pc) ==
  CASE pc \in {"checking", "applying"} -> 1
    [] pc = "counting" -> 2
    [] pc = "creating" -> 3
    [] pc = "logging" -> 4
    [] pc = "listing" -> 5
    [] OTHER -> 6

\* y is closer to the end of a start than x, or at one of its two ends.
Closer(x, y) ==
  \/ y.pc \in {"down", "serving"}
  \/ Place(x.pc) < Place(y.pc)
  \/ /\ Place(x.pc) = 1 /\ Place(y.pc) = 1
     /\ \/ x.at < y.at
        \/ x.at = y.at /\ x.pc = "checking" /\ y.pc = "applying"
  \/ /\ x.pc = "seeding" /\ y.pc = "seeding"
     /\ y.left \subseteq x.left
     /\ y.left # x.left \/ x.next < y.next

StartAdvances == [][\A s \in Servers : ServerStep(s) => Closer(servers[s], servers'[s])]_vars

LEMMA EarlyCloser ==
  ASSUME TInv, NEW s \in Servers, Early(s), servers[s].pc # "down"
  PROVE  Closer(servers[s], servers'[s])
<1> DEFINE x == servers[s]
           y == servers'[s]
<1>1. x \in Server /\ y \in Server
  <2>1. PICK n \in Server : servers' = [servers EXCEPT ![s] = n]
    BY EarlyMoves DEF TInv
  <2> QED BY <2>1 DEF TInv, TypeOK
<1>2. Moved(x, y)
  BY EarlyForm
<1>3. x.pc = "logging" => y.pc = "listing"
  <2>1. x.pc = "logging" => LogPassword(s)
    BY DEF Early, Start, CheckApplied, ApplyMigration, CountUsers, CreateAdmin
  <2>2. LogPassword(s) => Goes(s, "listing")
    BY DEF LogPassword
  <2>3. Goes(s, "listing") => y.pc = "listing"
    BY <1>1 DEF Goes, TInv, TypeOK, Server
  <2> QED BY <2>1, <2>2, <2>3
<1>4. x.pc \notin {"listing", "seeding", "serving"}
  BY DEF Early, Start, CheckApplied, ApplyMigration, CountUsers, CreateAdmin, LogPassword
<1>5. x.at \in Nat
  BY <1>1 DEF Server
<1> HIDE DEF x, y
<1>6. ASSUME Takes(x, y) PROVE Closer(x, y)
  BY <1>6 DEF Takes, Closer, Place
<1>7. ASSUME Advances(x, y) PROVE Closer(x, y)
  BY <1>5, <1>7 DEF Advances, Closer, Place
<1>8. ASSUME GivesUp(x, y) PROVE Closer(x, y)
  BY <1>8 DEF GivesUp, Closer
<1>9. ASSUME Counts(x, y) \/ Creates(x, y) PROVE Closer(x, y)
  BY <1>9 DEF Counts, Creates, Closer, Place
<1>10. ASSUME Finishes(x, y) PROVE Closer(x, y)
  BY <1>3, <1>4, <1>10 DEF Finishes, Past, Closer, Place
<1> QED BY <1>2, <1>6, <1>7, <1>8, <1>9, <1>10 DEF Moved, Begins, x, y

LEMMA BackfillCloser ==
  ASSUME TInv, NEW s \in Servers, Backfills(s)
  PROVE  Closer(servers[s], servers'[s])
<1> DEFINE x == servers[s]
           y == servers'[s]
           T == {t \in tenants : NoTypes(t)}
           U == x.left \ {x.tenant}
<1>1. x \in Server /\ servers \in [Servers -> Server]
  BY DEF TInv, TypeOK
<1>2. T \in SUBSET Tenants /\ U \in SUBSET Tenants
  BY <1>1 DEF TInv, TypeOK, Server
<1>3. \A R \in SUBSET Tenants : Lists(R).pc \in {"seeding", "serving"} /\ Lists(R).left = R
  BY ListsTypes
<1>4. CASE ListTenants(s) /\ y = Lists(T)
  <2>1. x.pc = "listing"
    BY <1>4 DEF ListTenants
  <2> QED BY <1>2, <1>3, <1>4, <2>1 DEF Closer, Place
<1>5. CASE SeedListed(s) /\ y = Lists(U)
  <2>1. x.pc = "seeding" /\ x.tenant \in x.left
    BY <1>5 DEF SeedListed, TInv, Shape
  <2> QED BY <1>2, <1>3, <1>5, <2>1 DEF Closer
<1>6. CASE SeedListed(s) /\ y = [x EXCEPT !.next = x.next + 1]
  <2>1. x.pc = "seeding" /\ x.next \in Nat
    BY <1>1, <1>6 DEF SeedListed, Server, Library
  <2>2. y.pc = "seeding" /\ y.left = x.left /\ y.next = x.next + 1
    BY <1>1, <1>6, <2>1 DEF Server
  <2> QED BY <2>1, <2>2 DEF Closer
<1> QED BY <1>1, <1>4, <1>5, <1>6, BackfillMoves DEF Backfills

\* Theorem: a start never goes round in circles.  Whatever other servers and
\* requests do, each of its steps brings a server closer, in an order without
\* endless descents, to serving or to its end (main, migrate, bootstrapAdmin,
\* BackfillSectionTypes).
THEOREM StartsComeToAnEnd == Spec => StartAdvances
<1>1. ASSUME TInv, NEW s \in Servers, ServerStep(s)
      PROVE  Closer(servers[s], servers'[s])
  <2>1. CASE Early(s)
    <3>1. CASE servers[s].pc = "down"
      BY <1>1, <3>1 DEF ServerStep, CheckApplied, ApplyMigration, CountUsers, CreateAdmin,
                        LogPassword, ListTenants, SeedListed
    <3> QED BY <1>1, <2>1, <3>1, EarlyCloser
  <2>2. CASE Backfills(s)
    BY <1>1, <2>2, BackfillCloser
  <2> QED BY <1>1, <2>1, <2>2 DEF ServerStep, Early, Backfills
<1>2. TInv => [\A s \in Servers : ServerStep(s) => Closer(servers[s], servers'[s])]_vars
  BY <1>1
<1> QED BY <1>2, Types, PTL DEF Spec, StartAdvances

-----------------------------------------------------------------------------
(* The library.                                                             *)

\* What steps do to block types: a key that is taken stays taken, and an
\* editor's type stays the editor's.
LEMMA TypesStay ==
  ASSUME TInv, [Next]_vars
  PROVE  \A t \in Tenants, k \in Keys :
           /\ types[t][k] # "none" => types'[t][k] # "none"
           /\ types[t][k] = "own" => types'[t][k] = "own"
  <1> USE DEF TInv, TypeOK, Shape
  <1>1. ASSUME NEW q \in Requests, SeedCreated(q)
        PROVE  requests[q].tenant \in Tenants /\ requests[q].next \in Library
               /\ Seed(requests[q].tenant, requests[q].next)
    BY <1>1 DEF SeedCreated, Request
  <1>2. ASSUME NEW s \in Servers, SeedListed(s)
        PROVE  servers[s].tenant \in Tenants /\ servers[s].next \in Library
               /\ Seed(servers[s].tenant, servers[s].next)
    BY <1>2 DEF SeedListed, Server
  <1>3. CASE \E t \in Tenants, k \in Edited : EditType(t, k)
    BY <1>3 DEF EditType, Keys, Library
  <1>4. CASE \E q \in Requests : SeedCreated(q)
    BY <1>1, <1>4, SeedFacts
  <1>5. CASE \E s \in Servers : SeedListed(s)
    BY <1>2, <1>5, SeedFacts
  <1>6. CASE UNCHANGED types
    BY <1>6
  <1>7. ASSUME NEW s \in Servers, Early(s) \/ ListTenants(s) \/ Ends(s)
        PROVE  UNCHANGED types
    BY <1>7 DEF Early, Start, CheckApplied, ApplyMigration, CountUsers, CreateAdmin,
                LogPassword, ListTenants, Ends, StopsWith, tables, library
  <1>8. ASSUME NEW q \in Requests,
               \/ \E t \in Tenants : CreateTenant(q, t)
               \/ \E e \in Emails : Invite(q, e)
               \/ InsertUser(q) \/ AssignUser(q) \/ RequestFails(q)
        PROVE  UNCHANGED types
    BY <1>8 DEF CreateTenant, Invite, InsertUser, AssignUser, RequestFails, tables, library
  <1>9. CASE UNCHANGED vars
    BY <1>6, <1>9 DEF vars, tables
  <1>10. CASE Next
    <2>1. CASE Serves
      BY <2>1, <1>3, <1>4, <1>6, <1>8 DEF Serves, RequestStep, Step
    <2>2. CASE \E s \in Servers : Early(s) \/ Backfills(s) \/ Ends(s)
      BY <2>2, <1>5, <1>6, <1>7 DEF Backfills
    <2> QED  BY <1>10, <2>1, <2>2, NextForms
  <1> QED  BY <1>9, <1>10

\* For any number of servers and requests that seed a tenant at once, no start,
\* creation or failure takes an editor's block type back (SeedSectionTypes).
THEOREM EditsAreKept == Spec => EditsKept
  <1>1. TInv /\ [Next]_vars =>
          [\A t \in Tenants, k \in Keys : types[t][k] = "own" => types'[t][k] = "own"]_vars
    BY TypesStay
  <1> QED  BY <1>1, Types, PTL DEF Spec, EditsKept

\* Somebody is half way through the library of t, or will be blamed for it.
Committed(t) ==
  \/ \E q \in Requests : requests[q].pc = "seeding" /\ requests[q].tenant = t
  \/ \E s \in Servers : servers[s].pc = "seeding" /\ servers[s].tenant = t
                         /\ servers[s].next > 1

\* Nobody has begun with t: no server is past the backfill without it.
Awaits(t) ==
  /\ NoTypes(t)
  /\ \A s \in Servers : /\ servers[s].pc # "serving"
                        /\ servers[s].pc = "seeding" => t \in servers[s].left

\* Starters are inserted in order.
InOrder ==
  /\ \A q \in Requests : requests[q].pc = "seeding" =>
       \A j \in Library : j < requests[q].next => types[requests[q].tenant][j] # "none"
  /\ \A s \in Servers : servers[s].pc = "seeding" =>
       \A j \in Library : j < servers[s].next => types[servers[s].tenant][j] # "none"

LibraryInv ==
  /\ InOrder
  /\ \A t \in created : Complete(t)
  /\ \A t \in tenants \ cut : Complete(t) \/ Committed(t) \/ Awaits(t)

LEMMA LibraryInit == ASSUME Init PROVE LibraryInv
  BY DEF Init, InitTables, LibraryInv, InOrder, Awaits, NoTypes, Idle, Down

LEMMA LibraryImplies == ASSUME TInv, LibraryInv PROVE LibraryComplete
  <1>1. ASSUME NEW t \in tenants, Committed(t)
        PROVE  Seeding(t)
    BY <1>1 DEF Committed, Seeding, TInv, Shape
  <1>2. ASSUME NEW t \in tenants, Awaits(t)
        PROVE  NoTypes(t) /\ ~Serving
    BY <1>2 DEF Awaits, Serving
  <1> QED  BY <1>1, <1>2 DEF LibraryInv, LibraryComplete

\* Completeness stays once reached.
LEMMA CompleteStays ==
  ASSUME TInv, [Next]_vars, NEW t \in Tenants, Complete(t)
  PROVE  Complete(t)'
  BY TypesStay DEF Complete, Keys

\* The last starter completes the library.
LEMMA LastStarter ==
  ASSUME TInv, [Next]_vars, NEW t \in Tenants, Seed(t, Starters), Starters \in Library,
         \A j \in Library : j < Starters => types[t][j] # "none"
  PROVE  Complete(t)'
  <1>1. types'[t][Starters] # "none"
    BY SeedFacts DEF TInv, TypeOK
  <1>2. \A j \in Library : j < Starters \/ j = Starters
    BY DEF Library
  <1> QED  BY <1>1, <1>2, TypesStay DEF Complete, Keys

LEMMA LibraryEarly ==
  ASSUME TInv, LibraryInv, NEW s \in Servers, Early(s)
  PROVE  LibraryInv'
  <1>1. PICK n \in Server : servers' = [servers EXCEPT ![s] = n]
                         /\ n.pc \notin {"seeding", "serving"}
    BY EarlyMoves DEF TInv
  <1>2. /\ UNCHANGED <<tenants, types, created, cut, requests>>
        /\ servers[s].pc \notin {"seeding", "serving"}
    BY DEF Early, Start, CheckApplied, ApplyMigration, CountUsers, CreateAdmin,
           LogPassword, tables, library
  <1>3. /\ \A r \in Servers : r # s => servers'[r] = servers[r]
        /\ servers'[s].pc \notin {"seeding", "serving"}
    BY <1>1 DEF TInv, TypeOK
  <1>4. ASSUME NEW t \in tenants
        PROVE  /\ Complete(t) => Complete(t)'
               /\ Committed(t) => Committed(t)'
               /\ Awaits(t) => Awaits(t)'
    BY <1>2, <1>3 DEF Complete, Committed, Awaits, NoTypes
  <1>5. InOrder'
    BY <1>2, <1>3 DEF LibraryInv, InOrder
  <1>6. \A t \in created' : Complete(t)'
    BY <1>2, <1>4 DEF LibraryInv, TInv, TypeOK, Complete
  <1> QED  BY <1>2, <1>4, <1>5, <1>6 DEF LibraryInv

LEMMA LibraryEnds ==
  ASSUME TInv, LibraryInv, NEW s \in Servers, NEW Q \in SUBSET Requests, StopsWith(s, Q)
  PROVE  LibraryInv'
  <1>1. /\ UNCHANGED <<tenants, types, created>>
        /\ cut' = cut \cup HalfSeeded(s) \cup UNION {Unfinished(q) : q \in Q}
        /\ requests' = [q \in Requests |-> IF q \in Q THEN Idle ELSE requests[q]]
        /\ servers' = [servers EXCEPT ![s] = Down]
    BY DEF StopsWith, Dies
  <1>2. /\ \A r \in Servers : r # s => servers'[r] = servers[r]
        /\ servers'[s].pc = "down"
        /\ \A q \in Requests : IF q \in Q THEN requests'[q].pc = "idle"
                                           ELSE requests'[q] = requests[q]
    BY <1>1 DEF TInv, TypeOK, Down, Idle
  <1>3. ASSUME NEW t \in tenants \ cut'
        PROVE  Committed(t) => Committed(t)'
    <2>1. CASE \E q \in Requests : requests[q].pc = "seeding" /\ requests[q].tenant = t
      <3>1. PICK q \in Requests : requests[q].pc = "seeding" /\ requests[q].tenant = t
        BY <2>1
      <3>2. q \notin Q
        BY <1>1, <3>1 DEF Unfinished
      <3> QED  BY <1>2, <3>1, <3>2 DEF Committed
    <2>2. CASE \E r \in Servers : /\ servers[r].pc = "seeding" /\ servers[r].tenant = t
                                 /\ servers[r].next > 1
      <3>1. PICK r \in Servers : /\ servers[r].pc = "seeding" /\ servers[r].tenant = t
                                /\ servers[r].next > 1
        BY <2>2
      <3>2. r # s
        BY <1>1, <3>1 DEF HalfSeeded
      <3> QED  BY <1>2, <3>1, <3>2 DEF Committed
    <2> QED  BY <2>1, <2>2 DEF Committed
  <1>4. ASSUME NEW t \in tenants
        PROVE  /\ Complete(t) => Complete(t)'
               /\ Awaits(t) => Awaits(t)'
    BY <1>1, <1>2 DEF Complete, Awaits, NoTypes
  <1>5. InOrder'
    BY <1>1, <1>2 DEF LibraryInv, InOrder
  <1>6. tenants \ cut' \subseteq tenants \ cut /\ tenants' = tenants
    BY <1>1
  <1>7. \A t \in created' : Complete(t)'
    BY <1>1 DEF LibraryInv, Complete
  <1>8. ASSUME NEW t \in tenants \ cut'
        PROVE  Complete(t)' \/ Committed(t)' \/ Awaits(t)'
    <2>1. Complete(t) \/ Committed(t) \/ Awaits(t)
      BY <1>6 DEF LibraryInv
    <2> QED  BY <1>3, <1>4, <2>1
  <1> QED  BY <1>5, <1>6, <1>7, <1>8 DEF LibraryInv

\* The server lists what is left to seed: whoever waited is on its list.
LEMMA LibraryLists ==
  ASSUME TInv, LibraryInv, NEW s \in Servers, ListTenants(s)
  PROVE  LibraryInv'
  <1> DEFINE T == {t \in tenants : NoTypes(t)}
  <1>1. UNCHANGED <<tenants, types, created, cut, requests>> /\ servers[s].pc = "listing"
    BY DEF ListTenants, tables
  <1>2. servers' = [servers EXCEPT ![s] = Lists(T)]
    BY DEF ListTenants, Seeds, Lists
  <1>3. servers'[s] = Lists(T) /\ \A r \in Servers : r # s => servers'[r] = servers[r]
    BY <1>2 DEF TInv, TypeOK
  <1>4. /\ servers'[s].next = 1 /\ servers'[s].left = T
        /\ T # {} => servers'[s].pc = "seeding"
    <2>1. T \in SUBSET Tenants
      BY DEF TInv, TypeOK
    <2> HIDE DEF T
    <2> QED  BY <1>3, <2>1, ListsTypes
  <1>5. InOrder'
    BY <1>1, <1>3, <1>4 DEF LibraryInv, InOrder, Library
  <1>6. ASSUME NEW t \in tenants
        PROVE  /\ Complete(t) => Complete(t)'
               /\ Committed(t) => Committed(t)'
               /\ Awaits(t) => Awaits(t)'
    BY <1>1, <1>3, <1>4 DEF Complete, Committed, Awaits, NoTypes
  <1>7. \A t \in created' : Complete(t)'
    BY <1>1 DEF LibraryInv, Complete
  <1>8. ASSUME NEW t \in tenants \ cut
        PROVE  Complete(t)' \/ Committed(t)' \/ Awaits(t)'
    BY <1>6 DEF LibraryInv
  <1> QED  BY <1>1, <1>5, <1>7, <1>8 DEF LibraryInv

LEMMA LibrarySeeds ==
  ASSUME TInv, LibraryInv, [Next]_vars, NEW s \in Servers, SeedListed(s)
  PROVE  LibraryInv'
  <1>0. PICK t \in Tenants, k \in 1 .. Starters :
          t = servers[s].tenant /\ k = servers[s].next
    BY DEF SeedListed, TInv, TypeOK, Shape, Server, Library
  <1>1. /\ UNCHANGED <<tenants, created, cut, requests>> /\ servers[s].pc = "seeding"
        /\ Seed(t, k)
    BY <1>0 DEF SeedListed, people
  <1>2. /\ t \in Tenants /\ t \in servers[s].left /\ k \in 1 .. Starters
        /\ servers[s] \in Server
    BY <1>0, <1>1 DEF TInv, TypeOK, Shape, Server, Library
  <1>3. /\ \A j \in Library : j < k => types[t][j] # "none"
        /\ types'[t][k] # "none"
        /\ \A u \in Tenants, j \in Keys : u # t => types'[u][j] = types[u][j]
    <2>1. \A j \in Library : j < k => types[t][j] # "none"
      BY <1>0, <1>1 DEF LibraryInv, InOrder
    <2>2. k \in Library /\ types \in [Tenants -> [Keys -> {"none", "starter", "own"}]]
      BY DEF TInv, TypeOK, Library
    <2> QED  BY <1>1, <2>1, <2>2, SeedFacts
  <1>4. ASSUME NEW u \in Tenants
        PROVE  Complete(u) => Complete(u)'
    BY CompleteStays
  <1>5. ASSUME NEW u \in created
        PROVE  Complete(u)'
    BY <1>4 DEF LibraryInv, TInv, TypeOK
  <1>6. /\ \A q \in Requests : requests[q].pc = "seeding" => requests[q].tenant \in Tenants
        /\ \A r \in Servers : servers[r].pc = "seeding" => servers[r].tenant \in Tenants
    BY DEF TInv, TypeOK, Shape, Server
  <1>7. CASE k = Starters
    <2> DEFINE U == servers[s].left \ {t}
    <2>1. Complete(t)'
      <3>1. Starters \in Library /\ t \in Tenants /\ Seed(t, Starters)
        BY <1>1, <1>2, <1>7 DEF Library
      <3>2. \A j \in Library : j < Starters => types[t][j] # "none"
        BY <1>3, <1>7
      <3> QED  BY <3>1, <3>2, LastStarter
    <2>2. servers' = [servers EXCEPT ![s] = Lists(U)]
      BY <1>0, <1>7 DEF SeedListed, Seeds, Lists
    <2>3. servers'[s] = Lists(U) /\ \A r \in Servers : r # s => servers'[r] = servers[r]
      BY <2>2 DEF TInv, TypeOK
    <2>4. /\ servers'[s].next = 1 /\ servers'[s].left = U
          /\ U # {} => servers'[s].pc = "seeding"
      <3>1. U \in SUBSET Tenants
        BY <1>2 DEF Server
      <3> HIDE DEF U
      <3> QED  BY <2>3, <3>1, ListsTypes
    <2>5. InOrder'
      BY <1>1, <1>6, <2>3, <2>4, TypesStay DEF LibraryInv, InOrder, Library, Keys
    <2>6. ASSUME NEW u \in Tenants, u # t
          PROVE  /\ Committed(u) => Committed(u)'
                 /\ Awaits(u) => Awaits(u)'
      <3>1. Committed(u) => Committed(u)'
        BY <1>0, <1>1, <2>3, <2>6 DEF Committed
      <3>2. Awaits(u) => Awaits(u)'
        <4>1. NoTypes(u) => NoTypes(u)'
          BY <1>3, <2>6 DEF NoTypes
        <4>2. u \in servers[s].left => u \in U
          BY <2>6
        <4> HIDE DEF U
        <4> QED  BY <1>1, <2>3, <2>4, <4>1, <4>2 DEF Awaits
      <3> QED  BY <3>1, <3>2
    <2>7. ASSUME NEW u \in tenants \ cut
          PROVE  Complete(u)' \/ Committed(u)' \/ Awaits(u)'
      <3>1. u \in Tenants /\ (Complete(u) \/ Committed(u) \/ Awaits(u))
        BY DEF LibraryInv, TInv, TypeOK
      <3>2. CASE u = t
        BY <2>1, <3>2
      <3>3. CASE u # t
        BY <1>4, <2>6, <3>1, <3>3
      <3> QED  BY <3>2, <3>3
    <2> QED  BY <1>1, <1>5, <2>5, <2>7 DEF LibraryInv
  <1>8. CASE k # Starters
    <2>1. servers' = [servers EXCEPT ![s] = [servers[s] EXCEPT !.next = k + 1]]
      BY <1>0, <1>8 DEF SeedListed, TInv, TypeOK
    <2>2. /\ servers'[s].next = k + 1 /\ servers'[s].tenant = t
          /\ servers'[s].left = servers[s].left /\ servers'[s].pc = "seeding"
          /\ \A r \in Servers : r # s => servers'[r] = servers[r]
      BY <1>0, <1>1, <1>2, <2>1 DEF TInv, TypeOK, Server
    <2>3. \A j \in Library : j < k + 1 => types'[t][j] # "none"
      <3>1. \A j \in Library : j < k + 1 => j < k \/ j = k
        BY <1>2 DEF Library
      <3>2. \A j \in Library : types[t][j] # "none" => types'[t][j] # "none"
        BY <1>2, TypesStay DEF Keys
      <3> QED  BY <1>3, <3>1, <3>2
    <2>4. InOrder'
      <3>1. ASSUME NEW q \in Requests, requests'[q].pc = "seeding", NEW j \in Library,
                   j < requests'[q].next
            PROVE  types'[requests'[q].tenant][j] # "none"
        BY <1>1, <1>6, <3>1, TypesStay DEF LibraryInv, InOrder, Keys
      <3>2. ASSUME NEW r \in Servers, servers'[r].pc = "seeding", NEW j \in Library,
                   j < servers'[r].next
            PROVE  types'[servers'[r].tenant][j] # "none"
        <4>1. CASE r = s
          BY <2>2, <2>3, <3>2, <4>1
        <4>2. CASE r # s
          <5>1. /\ servers'[r] = servers[r] /\ servers[r].tenant \in Tenants /\ j \in Keys
                /\ types[servers[r].tenant][j] # "none"
            BY <1>6, <2>2, <3>2, <4>2 DEF LibraryInv, InOrder, Keys
          <5> QED  BY <5>1, TypesStay
        <4> QED  BY <4>1, <4>2
      <3> QED  BY <3>1, <3>2 DEF InOrder
    <2>5. Committed(t)'
      <3>1. k + 1 > 1
        BY <1>2
      <3> QED  BY <2>2, <3>1 DEF Committed
    <2>6. ASSUME NEW u \in Tenants, u # t
          PROVE  /\ Committed(u) => Committed(u)'
                 /\ Awaits(u) => Awaits(u)'
      <3>1. Committed(u) => Committed(u)'
        BY <1>0, <1>1, <2>2, <2>6 DEF Committed
      <3>2. Awaits(u) => Awaits(u)'
        BY <1>1, <1>3, <2>2, <2>6 DEF Awaits, NoTypes
      <3> QED  BY <3>1, <3>2
    <2>7. ASSUME NEW u \in tenants \ cut
          PROVE  Complete(u)' \/ Committed(u)' \/ Awaits(u)'
      <3>1. u \in Tenants /\ (Complete(u) \/ Committed(u) \/ Awaits(u))
        BY DEF LibraryInv, TInv, TypeOK
      <3>2. CASE u = t
        BY <2>5, <3>2
      <3>3. CASE u # t
        BY <1>4, <2>6, <3>1, <3>3
      <3> QED  BY <3>2, <3>3
    <2> QED  BY <1>1, <1>5, <2>4, <2>7 DEF LibraryInv
  <1> QED  BY <1>7, <1>8

\* Whatever a request does to its own record: it must not drop a tenant half
\* way without blame, skip a starter, or answer too early.
LEMMA LibraryRequest ==
  ASSUME TInv, LibraryInv, [Next]_vars, Serving, UNCHANGED servers, NEW q \in Requests,
         \A p \in Requests : p # q => requests'[p] = requests[p],
         cut \subseteq cut', tenants' \subseteq Tenants,
         \A t \in Tenants : requests[q].pc = "seeding" /\ requests[q].tenant = t =>
           \/ requests'[q].pc = "seeding" /\ requests'[q].tenant = t
           \/ \A j \in Library : types'[t][j] # "none"
           \/ t \in cut',
         \A t \in Tenants : requests'[q].pc = "seeding" /\ requests'[q].tenant = t =>
           \A j \in Library : j < requests'[q].next => types'[t][j] # "none",
         requests'[q].pc = "seeding" => requests'[q].tenant \in Tenants,
         \A t \in tenants' : t \in tenants \/
           (requests'[q].pc = "seeding" /\ requests'[q].tenant = t),
         \A t \in created' : t \in created \/ \A j \in Library : types'[t][j] # "none"
  PROVE  LibraryInv'
  <1>1. ASSUME NEW t \in Tenants
        PROVE  Complete(t) => Complete(t)'
    BY CompleteStays
  <1>2. ASSUME NEW t \in tenants \ cut
        PROVE  t \in Tenants /\ (Complete(t) \/ Committed(t))
    BY DEF LibraryInv, Awaits, Serving, TInv, TypeOK
  <1>3. ASSUME NEW t \in Tenants, NEW j \in Library, types[t][j] # "none"
        PROVE  types'[t][j] # "none"
    BY <1>3, TypesStay DEF Keys
  <1>4. /\ \A p \in Requests : requests[p].pc = "seeding" => requests[p].tenant \in Tenants
        /\ \A s \in Servers : servers[s].pc = "seeding" => servers[s].tenant \in Tenants
    BY DEF TInv, TypeOK, Shape, Server
  <1>5. InOrder'
    <2>1. ASSUME NEW p \in Requests, requests'[p].pc = "seeding", NEW j \in Library,
                 j < requests'[p].next
          PROVE  types'[requests'[p].tenant][j] # "none"
      <3>1. CASE p = q
        BY <2>1, <3>1
      <3>2. CASE p # q
        BY <1>3, <1>4, <2>1, <3>2 DEF LibraryInv, InOrder
      <3> QED  BY <3>1, <3>2
    <2>2. ASSUME NEW s \in Servers, servers'[s].pc = "seeding", NEW j \in Library,
                 j < servers'[s].next
          PROVE  types'[servers'[s].tenant][j] # "none"
      BY <1>3, <1>4, <2>2 DEF LibraryInv, InOrder
    <2> QED  BY <2>1, <2>2 DEF InOrder
  <1>6. ASSUME NEW t \in created'
        PROVE  Complete(t)'
    <2>1. CASE t \in created
      BY <1>1, <2>1 DEF LibraryInv, TInv, TypeOK
    <2>2. CASE t \notin created
      BY <2>2 DEF Complete
    <2> QED  BY <2>1, <2>2
  <1>7. ASSUME NEW t \in tenants' \ cut'
        PROVE  Complete(t)' \/ Committed(t)'
    <2>1. CASE requests'[q].pc = "seeding" /\ requests'[q].tenant = t
      BY <2>1 DEF Committed
    <2>2. CASE t \in tenants /\ Complete(t)
      BY <1>1, <2>2 DEF TInv, TypeOK
    <2>3. CASE t \in tenants /\ Committed(t) /\ requests[q].pc = "seeding"
               /\ requests[q].tenant = t
      <3>1. t \in Tenants
        OBVIOUS
      <3> QED  BY <2>3, <3>1 DEF Committed, Complete
    <2>4. CASE t \in tenants /\ Committed(t) /\ ~(requests[q].pc = "seeding" /\ requests[q].tenant = t)
      BY <2>4 DEF Committed
    <2> QED  BY <1>2, <2>1, <2>2, <2>3, <2>4
  <1> QED  BY <1>5, <1>6, <1>7 DEF LibraryInv

LEMMA LibraryServes ==
  ASSUME TInv, LibraryInv, [Next]_vars, Serves
  PROVE  LibraryInv'
  <1>1. UNCHANGED servers /\ Serving
    BY DEF Serves
  <1>2. /\ tenants \subseteq Tenants
        /\ \A q \in Requests : requests[q] \in Request
        /\ requests \in [Requests -> Request]
    BY DEF TInv, TypeOK
  <1>3. ASSUME NEW q \in Requests, NEW t \in Tenants, CreateTenant(q, t)
        PROVE  LibraryInv'
    <2>1. /\ requests'[q].pc = "seeding" /\ requests'[q].tenant = t /\ requests'[q].next = 1
          /\ requests[q].pc = "idle" /\ tenants' = tenants \cup {t}
          /\ UNCHANGED <<types, created, cut>>
          /\ \A p \in Requests : p # q => requests'[p] = requests[p]
      BY <1>2, <1>3 DEF CreateTenant, Idle
    <2> QED  BY <1>1, <1>2, <2>1, LibraryRequest DEF Library
  <1>4. ASSUME NEW q \in Requests,
               (\E e \in Emails : Invite(q, e)) \/ InsertUser(q) \/ AssignUser(q)
        PROVE  LibraryInv'
    <2>1. /\ requests'[q].pc # "seeding" /\ requests[q].pc # "seeding"
          /\ UNCHANGED <<tenants, types, created, cut>>
          /\ \A p \in Requests : p # q => requests'[p] = requests[p]
      <3>1. CASE \E e \in Emails : Invite(q, e)
        BY <1>2, <3>1 DEF Invite, Idle, tables
      <3>2. CASE InsertUser(q)
        BY <1>2, <3>2 DEF InsertUser, Done, Idle, library, Request
      <3>3. CASE AssignUser(q)
        BY <1>2, <3>3 DEF AssignUser, Done, Idle, library
      <3> QED  BY <1>4, <3>1, <3>2, <3>3
    <2> QED  BY <1>1, <1>2, <2>1, LibraryRequest
  <1>5. ASSUME NEW q \in Requests, SeedCreated(q)
        PROVE  LibraryInv'
    <2>1. PICK t \in Tenants, k \in Library : t = requests[q].tenant /\ k = requests[q].next
      BY <1>2, <1>5 DEF SeedCreated, TInv, Shape, Request
    <2>2. /\ Seed(t, k) /\ requests[q].pc = "seeding"
          /\ UNCHANGED <<tenants, cut>>
          /\ created' = IF k = Starters THEN created \cup {t} ELSE created
          /\ requests' = [requests EXCEPT ![q] =
               IF k = Starters THEN Idle ELSE [requests[q] EXCEPT !.next = k + 1]]
      BY <2>1, <1>2, <1>5 DEF SeedCreated
    <2>3. /\ \A j \in Library : j < k => types[t][j] # "none"
          /\ \A j \in Library : types[t][j] # "none" => types'[t][j] # "none"
          /\ types'[t][k] # "none"
      <3>1. \A j \in Library : j < k => types[t][j] # "none"
        BY <2>1, <2>2 DEF LibraryInv, InOrder
      <3>2. \A j \in Library : types[t][j] # "none" => types'[t][j] # "none"
        BY TypesStay DEF Keys
      <3>3. types'[t][k] # "none"
        BY <2>2, SeedFacts DEF TInv, TypeOK
      <3> QED  BY <3>1, <3>2, <3>3
    <2>4. \A p \in Requests : p # q => requests'[p] = requests[p]
      BY <1>2, <2>2
    <2>5. CASE k = Starters
      <3>1. requests'[q].pc = "idle" /\ created' = created \cup {t}
        BY <1>2, <2>2, <2>5 DEF Idle
      <3>2. \A j \in Library : types'[t][j] # "none"
        <4>1. \A j \in Library : j < k \/ j = k
          BY <2>5 DEF Library
        <4> QED  BY <2>3, <4>1
      <3> QED  BY <1>1, <1>2, <2>1, <2>2, <2>4, <3>1, <3>2, LibraryRequest
    <2>6. CASE k # Starters
      <3>1. /\ requests'[q].pc = "seeding" /\ requests'[q].tenant = t
            /\ requests'[q].next = k + 1 /\ created' = created
        BY <1>2, <2>1, <2>2, <2>6 DEF Request
      <3>2. \A j \in Library : j < k + 1 => types'[t][j] # "none"
        <4>1. \A j \in Library : j < k + 1 => j < k \/ j = k
          BY DEF Library
        <4> QED  BY <2>3, <4>1
      <3> QED  BY <1>1, <1>2, <2>1, <2>2, <2>4, <3>1, <3>2, LibraryRequest
    <2> QED  BY <2>5, <2>6
  <1>6. ASSUME NEW q \in Requests, RequestFails(q)
        PROVE  LibraryInv'
    <2>1. /\ requests'[q].pc = "idle" /\ cut' = cut \cup Unfinished(q)
          /\ UNCHANGED <<tenants, types, created>>
          /\ \A p \in Requests : p # q => requests'[p] = requests[p]
      BY <1>2, <1>6 DEF RequestFails, Done, Idle
    <2> QED  BY <1>1, <1>2, <2>1, LibraryRequest DEF Unfinished
  <1>7. ASSUME NEW t \in Tenants, NEW k \in Edited, EditType(t, k)
        PROVE  LibraryInv'
    <2>1. UNCHANGED <<tenants, created, cut, requests>>
      BY <1>7 DEF EditType
    <2>2. ASSUME NEW u \in Tenants
          PROVE  /\ Complete(u) => Complete(u)'
                 /\ Committed(u) => Committed(u)'
      BY <1>1, <2>1, CompleteStays DEF Committed
    <2>3. ASSUME NEW u \in tenants \ cut
          PROVE  Complete(u)' \/ Committed(u)'
      BY <1>1, <2>2 DEF LibraryInv, Awaits, Serving, TInv, TypeOK
    <2>4. ASSUME NEW u \in created
          PROVE  Complete(u)'
      BY <2>2 DEF LibraryInv, TInv, TypeOK
    <2>5. ASSUME NEW u \in Tenants, NEW j \in Library, types[u][j] # "none"
          PROVE  types'[u][j] # "none"
      BY <2>5, TypesStay DEF Keys
    <2>6. InOrder'
      BY <1>1, <2>1, <2>5 DEF LibraryInv, InOrder, TInv, TypeOK, Shape, Server
    <2> QED  BY <2>1, <2>3, <2>4, <2>6 DEF LibraryInv
  <1> QED  BY <1>3, <1>4, <1>5, <1>6, <1>7 DEF Serves, RequestStep, Step

\* A creation that answered 201 has the whole library, and so has every other
\* tenant in the end, whoever seeds beside: for any number of servers that
\* start, requests, and size of the library (handleCreateTenant,
\* SeedSectionTypes, BackfillSectionTypes).
THEOREM LibraryIsComplete == Spec => []LibraryComplete
  <1>1. Init => LibraryInv
    BY LibraryInit
  <1>2. TInv /\ LibraryInv /\ [Next]_vars => LibraryInv'
    <2> SUFFICES ASSUME TInv, LibraryInv, [Next]_vars PROVE LibraryInv'
      OBVIOUS
    <2>1. CASE Next
      BY <2>1, NextForms, LibraryEarly, LibraryLists, LibrarySeeds, LibraryEnds, LibraryServes
         DEF Backfills, Ends
    <2>2. CASE UNCHANGED vars
      BY <2>2 DEF vars, tables, LibraryInv, InOrder, Complete, Committed, Awaits, NoTypes
    <2> QED  BY <2>1, <2>2
  <1>3. TInv /\ LibraryInv => LibraryComplete
    BY LibraryImplies
  <1> QED  BY <1>1, <1>2, <1>3, Types, PTL DEF Spec

-----------------------------------------------------------------------------
(* The accounts.                                                            *)

\* Whoever is about to give a password away made the account.
MadeIt ==
  /\ \A q \in Requests : requests[q].pc = "assigning" /\ requests[q].made =>
       accounts[requests[q].email] = q
  /\ \A s \in Servers : servers[s].pc = "logging" => accounts[Admin] = s

AccountsInv == MadeIt /\ AccountsOpen

\* One account is made, by a request or a server that will give it away.
LEMMA AccountsInit == ASSUME Init PROVE AccountsInv
  BY DEF Init, InitTables, AccountsInv, MadeIt, AccountsOpen, Idle, Down

\* Steps that make no account and give no password away, and lose none in
\* silence.
LEMMA AccountsQuiet ==
  ASSUME TInv, AccountsInv, UNCHANGED <<accounts, told>>, lost \subseteq lost',
         \A q \in Requests :
           /\ requests'[q].pc = "assigning" /\ requests'[q].made =>
                /\ requests[q].pc = "assigning" /\ requests[q].made
                /\ requests'[q].email = requests[q].email
           /\ requests[q].pc = "assigning" /\ requests[q].made =>
                requests'[q] = requests[q] \/ requests[q].email \in lost',
         \A s \in Servers :
           /\ servers'[s].pc = "logging" => servers[s].pc = "logging"
           /\ servers[s].pc = "logging" => servers'[s].pc = "logging" \/ Admin \in lost'
  PROVE  AccountsInv'
  <1>1. MadeIt'
    BY DEF AccountsInv, MadeIt
  <1>2. ASSUME NEW e \in Emails
        PROVE  /\ told'[e] # Nil => told'[e] = accounts'[e]
               /\ accounts'[e] # Nil => told'[e] # Nil \/ e \in lost' \/ Speaks(e)'
    <2>1. CASE \E q \in Requests : e \in Unspoken(q)
      <3>1. PICK q \in Requests : /\ requests[q].pc = "assigning" /\ requests[q].made
                                 /\ requests[q].email = e
        BY <2>1 DEF Unspoken
      <3>2. requests'[q] = requests[q] \/ e \in lost'
        BY <3>1
      <3>3. requests'[q] = requests[q] => Speaks(e)'
        BY <3>1 DEF Speaks, Unspoken
      <3> QED  BY <3>2, <3>3 DEF AccountsInv, AccountsOpen
    <2>2. CASE \E s \in Servers : e \in Unlogged(s)
      <3>1. PICK s \in Servers : servers[s].pc = "logging" /\ e = Admin
        BY <2>2 DEF Unlogged
      <3>2. servers'[s].pc = "logging" \/ e \in lost'
        BY <3>1
      <3>3. servers'[s].pc = "logging" => Speaks(e)'
        BY <3>1 DEF Speaks, Unlogged
      <3> QED  BY <3>2, <3>3 DEF AccountsInv, AccountsOpen
    <2>3. CASE ~Speaks(e)
      BY <2>3 DEF AccountsInv, AccountsOpen
    <2> QED  BY <2>1, <2>2, <2>3 DEF Speaks
  <1> QED  BY <1>1, <1>2 DEF AccountsInv, AccountsOpen

\* An account that did not exist is made; its password is given away or about
\* to be.
LEMMA AccountMade ==
  ASSUME TInv, AccountsInv, NEW e \in Emails, NEW m, m # Nil,
         accounts[e] = Nil, accounts' = [accounts EXCEPT ![e] = m],
         told' = told \/ told' = [told EXCEPT ![e] = m],
         lost \subseteq lost', MadeIt',
         told'[e] = m \/ Speaks(e)',
         \A f \in Emails : Speaks(f) => Speaks(f)'
  PROVE  AccountsInv'
  <1>1. accounts \in [Emails -> Makers] /\ told \in [Emails -> Makers]
    BY DEF TInv, TypeOK
  <1>2. told[e] = Nil
    BY DEF AccountsInv, AccountsOpen
  <1>3. ASSUME NEW f \in Emails
        PROVE  /\ told'[f] # Nil => told'[f] = accounts'[f]
               /\ accounts'[f] # Nil => told'[f] # Nil \/ f \in lost' \/ Speaks(f)'
    <2>1. CASE f = e
      BY <1>1, <1>2, <2>1
    <2>2. CASE f # e
      <3>1. told'[f] = told[f] /\ accounts'[f] = accounts[f]
        BY <1>1, <2>2
      <3> QED  BY <3>1 DEF AccountsInv, AccountsOpen
    <2> QED  BY <2>1, <2>2
  <1> QED  BY <1>3 DEF AccountsInv, AccountsOpen

\* The password of an account is given away by whoever made it.
LEMMA AccountTold ==
  ASSUME TInv, AccountsInv, NEW e \in Emails, accounts[e] # Nil, accounts' = accounts,
         told' = [told EXCEPT ![e] = accounts[e]], lost \subseteq lost', MadeIt',
         \A f \in Emails : f # e => (Speaks(f) => Speaks(f)')
  PROVE  AccountsInv'
  <1>1. told \in [Emails -> Makers]
    BY DEF TInv, TypeOK
  <1>2. ASSUME NEW f \in Emails
        PROVE  /\ told'[f] # Nil => told'[f] = accounts'[f]
               /\ accounts'[f] # Nil => told'[f] # Nil \/ f \in lost' \/ Speaks(f)'
    <2>1. CASE f = e
      BY <1>1, <2>1
    <2>2. CASE f # e
      <3>1. told'[f] = told[f]
        BY <1>1, <2>2
      <3> QED  BY <2>2, <3>1 DEF AccountsInv, AccountsOpen
    <2> QED  BY <2>1, <2>2
  <1> QED  BY <1>2 DEF AccountsInv, AccountsOpen

LEMMA AccountsEarly ==
  ASSUME TInv, AccountsInv, NEW s \in Servers, Early(s)
  PROVE  AccountsInv'
  <1>1. PICK n \in Server :
          /\ servers' = [servers EXCEPT ![s] = n]
          /\ n.pc = "logging" => CreateAdmin(s) /\ accounts[Admin] = Nil /\ AdminPassword = Nil
    BY EarlyMoves DEF TInv
  <1>2. /\ \A r \in Servers : r # s => servers'[r] = servers[r]
        /\ servers'[s] = n /\ UNCHANGED <<requests, lost>>
    BY <1>1 DEF TInv, TypeOK, Early, Start, CheckApplied, ApplyMigration, CountUsers,
                CreateAdmin, LogPassword, tables, people
  <1>3. CASE LogPassword(s)
    <2>1. /\ servers[s].pc = "logging" /\ accounts' = accounts
          /\ told' = [told EXCEPT ![Admin] = s] /\ accounts[Admin] = s
      BY <1>3 DEF LogPassword, AccountsInv, MadeIt
    <2>2. n.pc # "logging"
      BY <1>1, <1>3 DEF LogPassword, CreateAdmin
    <2>3. MadeIt'
      BY <1>2, <2>1, <2>2 DEF AccountsInv, MadeIt
    <2>4. ASSUME NEW f \in Emails, f # Admin, Speaks(f)
          PROVE  Speaks(f)'
      BY <1>2, <2>4 DEF Speaks, Unspoken, Unlogged
    <2>5. s # Nil
      OBVIOUS
    <2> QED  BY <1>2, <2>1, <2>3, <2>4, <2>5, AccountTold
  <1>4. CASE CreateAdmin(s) /\ accounts[Admin] = Nil
    <2>1. servers[s].pc = "creating"
      BY <1>4 DEF CreateAdmin
    <2>2. ASSUME NEW f \in Emails, Speaks(f)
          PROVE  Speaks(f)'
      BY <1>2, <2>1, <2>2 DEF Speaks, Unspoken, Unlogged
    <2>3. \A q \in Requests : requests[q].pc = "assigning" /\ requests[q].made =>
            requests[q].email # Admin
      BY <1>4 DEF AccountsInv, MadeIt, TInv, Shape
    <2>4. \A r \in Servers : servers[r].pc # "logging"
      BY <1>4 DEF AccountsInv, MadeIt
    <2>5. CASE AdminPassword = Nil
      <3>1. /\ accounts' = [accounts EXCEPT ![Admin] = s] /\ told' = told
            /\ servers' = [servers EXCEPT ![s].pc = "logging"]
        BY <1>4, <2>5 DEF CreateAdmin, Goes
      <3>2. servers'[s].pc = "logging"
        BY <3>1 DEF TInv, TypeOK, Server
      <3>3. MadeIt'
        BY <1>2, <2>3, <2>4, <3>1 DEF AccountsInv, MadeIt, TInv, TypeOK, Shape
      <3>4. Speaks(Admin)'
        BY <3>2 DEF Speaks, Unlogged
      <3> QED  BY <1>2, <1>4, <2>2, <3>1, <3>3, <3>4, AccountMade
    <2>6. CASE AdminPassword # Nil
      <3>1. /\ accounts' = [accounts EXCEPT ![Admin] = AdminPassword]
            /\ told' = [told EXCEPT ![Admin] = AdminPassword]
        BY <1>4, <2>6 DEF CreateAdmin
      <3>2. n.pc # "logging"
        BY <1>1, <2>6
      <3>3. MadeIt'
        BY <1>2, <2>3, <2>4, <3>1, <3>2 DEF AccountsInv, MadeIt, TInv, TypeOK, Shape
      <3>4. told'[Admin] = AdminPassword
        BY <3>1 DEF TInv, TypeOK
      <3> QED  BY <1>2, <1>4, <2>2, <2>6, <3>1, <3>3, <3>4, AccountMade
    <2> QED  BY <2>5, <2>6
  <1>5. CASE ~LogPassword(s) /\ ~(CreateAdmin(s) /\ accounts[Admin] = Nil)
    <2>1. UNCHANGED <<accounts, told>> /\ servers[s].pc # "logging"
      BY <1>5 DEF Early, Start, CheckApplied, ApplyMigration, CountUsers, CreateAdmin, tables
    <2>2. n.pc # "logging"
      BY <1>1, <1>5
    <2> QED  BY <1>2, <2>1, <2>2, AccountsQuiet
  <1> QED  BY <1>3, <1>4, <1>5

LEMMA AccountsBackfill ==
  ASSUME TInv, AccountsInv, NEW s \in Servers, Backfills(s)
  PROVE  AccountsInv'
  <1>1. /\ UNCHANGED <<accounts, told, lost, requests>>
        /\ servers[s].pc \in {"listing", "seeding"}
        /\ servers[s] \in Server /\ servers \in [Servers -> Server]
    BY DEF Backfills, ListTenants, SeedListed, tables, people, TInv, TypeOK
  <1>2. servers'[s].pc # "logging" /\ \A r \in Servers : r # s => servers'[r] = servers[r]
    <2>1. ASSUME NEW T, Seeds(s, T)
          PROVE  servers'[s].pc # "logging" /\ \A r \in Servers : r # s => servers'[r] = servers[r]
      BY <1>1, <2>1 DEF Seeds, Down
    <2>2. CASE servers' = [servers EXCEPT ![s].next = servers[s].next + 1]
      BY <1>1, <2>2 DEF Server
    <2> QED  BY <2>1, <2>2 DEF Backfills, ListTenants, SeedListed
  <1> QED  BY <1>1, <1>2, AccountsQuiet

LEMMA AccountsEnds ==
  ASSUME TInv, AccountsInv, NEW s \in Servers, NEW Q \in SUBSET Requests, StopsWith(s, Q)
  PROVE  AccountsInv'
  <1>1. /\ UNCHANGED <<accounts, told>>
        /\ lost' = lost \cup Unlogged(s) \cup UNION {Unspoken(q) : q \in Q}
        /\ requests' = [q \in Requests |-> IF q \in Q THEN Idle ELSE requests[q]]
        /\ servers' = [servers EXCEPT ![s] = Down]
    BY DEF StopsWith, Dies
  <1>2. /\ \A r \in Servers : r # s => servers'[r] = servers[r]
        /\ servers'[s].pc = "down"
    BY <1>1 DEF TInv, TypeOK, Down
  <1>3. ASSUME NEW q \in Requests
        PROVE  /\ requests'[q] = requests[q] \/ requests'[q].pc = "idle"
               /\ requests[q].pc = "assigning" /\ requests[q].made =>
                    requests'[q] = requests[q] \/ requests[q].email \in lost'
    <2>1. CASE q \in Q
      BY <1>1, <2>1 DEF Unspoken, Idle
    <2>2. CASE q \notin Q
      BY <1>1, <2>2
    <2> QED  BY <2>1, <2>2
  <1>4. servers[s].pc = "logging" => Admin \in lost'
    BY <1>1 DEF Unlogged
  <1>5. lost \subseteq lost'
    BY <1>1
  <1> QED  BY <1>1, <1>2, <1>3, <1>4, <1>5, AccountsQuiet

LEMMA AccountsServes ==
  ASSUME TInv, AccountsInv, Serves
  PROVE  AccountsInv'
  <1>1. UNCHANGED servers /\ requests \in [Requests -> Request]
    BY DEF Serves, TInv, TypeOK
  <1>2. ASSUME NEW q \in Requests, NEW n, requests' = [requests EXCEPT ![q] = n],
               UNCHANGED <<accounts, told>>, lost \subseteq lost',
               n.pc # "assigning" \/ ~n.made,
               requests[q].pc = "assigning" /\ requests[q].made => requests[q].email \in lost'
        PROVE  AccountsInv'
    <2>1. requests'[q] = n /\ \A p \in Requests : p # q => requests'[p] = requests[p]
      BY <1>1, <1>2
    <2> QED  BY <1>1, <1>2, <2>1, AccountsQuiet
  <1>3. Idle.pc = "idle" /\ Idle.made = FALSE
    BY DEF Idle
  <1>4. ASSUME NEW q \in Requests, NEW t \in Tenants, CreateTenant(q, t)
        PROVE  AccountsInv'
    <2> DEFINE n == [Idle EXCEPT !.pc = "seeding", !.tenant = t]
    <2>1. n.pc = "seeding" /\ requests[q].pc = "idle"
      BY <1>4 DEF CreateTenant, Idle
    <2>2. requests' = [requests EXCEPT ![q] = n] /\ UNCHANGED <<accounts, told, lost>>
      BY <1>4 DEF CreateTenant, people
    <2> HIDE DEF n
    <2> QED  BY <1>2, <2>1, <2>2
  <1>5. ASSUME NEW q \in Requests, NEW e \in Emails, Invite(q, e)
        PROVE  AccountsInv'
    <2> DEFINE n == [Idle EXCEPT !.pc = IF accounts[e] = Nil THEN "inserting" ELSE "assigning",
                                 !.email = e, !.made = accounts[e] = Nil]
    <2>1. (n.pc # "assigning" \/ ~n.made) /\ requests[q].pc = "idle"
      <3>1. /\ n.pc = IF accounts[e] = Nil THEN "inserting" ELSE "assigning"
            /\ n.made = (accounts[e] = Nil) /\ requests[q].pc = "idle"
        BY <1>5 DEF Invite, Idle
      <3>2. CASE accounts[e] = Nil
        BY <3>1, <3>2
      <3>3. CASE accounts[e] # Nil
        BY <3>1, <3>3
      <3> QED  BY <3>2, <3>3
    <2>2. requests' = [requests EXCEPT ![q] = n] /\ UNCHANGED <<accounts, told, lost>>
      BY <1>5 DEF Invite, tables
    <2> HIDE DEF n
    <2> QED  BY <1>2, <2>1, <2>2
  <1>6. ASSUME NEW q \in Requests, SeedCreated(q)
        PROVE  AccountsInv'
    <2> DEFINE n == IF requests[q].next = Starters THEN Idle
                    ELSE [requests[q] EXCEPT !.next = requests[q].next + 1]
    <2>1. n.pc # "assigning" /\ requests[q].pc = "seeding"
      BY <1>1, <1>3, <1>6 DEF SeedCreated, Request
    <2>2. requests' = [requests EXCEPT ![q] = n] /\ UNCHANGED <<accounts, told, lost>>
      BY <1>1, <1>6 DEF SeedCreated, people
    <2> HIDE DEF n
    <2> QED  BY <1>2, <2>1, <2>2
  <1>7. ASSUME NEW q \in Requests, RequestFails(q)
        PROVE  AccountsInv'
    <2>1. /\ requests' = [requests EXCEPT ![q] = Idle] /\ UNCHANGED <<accounts, told>>
          /\ lost' = lost \cup Unspoken(q)
      BY <1>7 DEF RequestFails, Done
    <2>2. requests[q].pc = "assigning" /\ requests[q].made => requests[q].email \in lost'
      BY <2>1 DEF Unspoken
    <2> QED  BY <1>2, <1>3, <2>1, <2>2
  <1>8. ASSUME NEW q \in Requests, InsertUser(q)
        PROVE  AccountsInv'
    <2>1. PICK e \in Emails : e = requests[q].email
      BY <1>8 DEF InsertUser, TInv, Shape
    <2>2. requests[q].pc = "inserting" /\ UNCHANGED <<told, lost>>
      BY <1>8 DEF InsertUser
    <2>3. CASE accounts[e] # Nil
      <3>1. requests' = [requests EXCEPT ![q] = Idle] /\ UNCHANGED accounts
        BY <1>8, <2>1, <2>3 DEF InsertUser, Done
      <3> QED  BY <1>2, <1>3, <2>2, <3>1
    <2>4. CASE accounts[e] = Nil
      <3>1. /\ accounts' = [accounts EXCEPT ![e] = q]
            /\ requests' = [requests EXCEPT ![q].pc = "assigning"]
        BY <1>8, <2>1, <2>4 DEF InsertUser
      <3>2. /\ requests'[q].pc = "assigning" /\ requests'[q].email = e
            /\ requests'[q].made = requests[q].made
            /\ \A p \in Requests : p # q => requests'[p] = requests[p]
        BY <1>1, <2>1, <3>1 DEF Request
      <3>3. requests[q].made
        BY <2>2 DEF TInv, Shape
      <3>4. MadeIt'
        BY <1>1, <2>2, <2>4, <3>1, <3>2 DEF AccountsInv, MadeIt, TInv, TypeOK, Shape
      <3>5. Speaks(e)'
        BY <3>2, <3>3 DEF Speaks, Unspoken
      <3>6. ASSUME NEW f \in Emails, Speaks(f)
            PROVE  Speaks(f)'
        BY <1>1, <2>2, <3>2, <3>6 DEF Speaks, Unspoken, Unlogged
      <3> QED  BY <2>2, <2>4, <3>1, <3>4, <3>5, <3>6, AccountMade
    <2> QED  BY <2>3, <2>4
  <1>9. ASSUME NEW q \in Requests, AssignUser(q)
        PROVE  AccountsInv'
    <2>1. PICK e \in Emails : e = requests[q].email
      BY <1>9 DEF AssignUser, TInv, Shape
    <2>2. /\ requests[q].pc = "assigning" /\ UNCHANGED accounts
          /\ requests' = [requests EXCEPT ![q] = Idle]
          /\ requests'[q].pc = "idle"
          /\ \A p \in Requests : p # q => requests'[p] = requests[p]
      BY <1>1, <1>3, <1>9 DEF AssignUser, Done
    <2>3. CASE requests[q].made /\ told' # told
      <3>1. told' = [told EXCEPT ![e] = q] /\ UNCHANGED lost /\ accounts[e] = q
        BY <1>9, <2>1, <2>2, <2>3 DEF AssignUser, AccountsInv, MadeIt
      <3>2. MadeIt'
        BY <1>1, <2>2 DEF AccountsInv, MadeIt
      <3>3. ASSUME NEW f \in Emails, f # e, Speaks(f)
            PROVE  Speaks(f)'
        BY <1>1, <2>1, <2>2, <3>3 DEF Speaks, Unspoken, Unlogged
      <3> QED  BY <2>2, <3>1, <3>2, <3>3, AccountTold
    <2>4. CASE told' = told /\ (requests[q].made => e \in lost')
      <3>1. lost \subseteq lost'
        BY <1>9 DEF AssignUser
      <3> QED  BY <1>2, <1>3, <2>1, <2>2, <2>4, <3>1
    <2>5. CASE told' = told /\ requests[q].made /\ e \notin lost'
      <3>1. told' = [told EXCEPT ![e] = q]
        BY <1>9, <2>1, <2>2, <2>5 DEF AssignUser, Unspoken
      <3>2. lost' = lost /\ accounts[e] = q
        BY <1>9, <2>1, <2>2, <2>5 DEF AssignUser, Unspoken, AccountsInv, MadeIt
      <3>3. MadeIt'
        BY <1>1, <2>2 DEF AccountsInv, MadeIt
      <3>4. ASSUME NEW f \in Emails, f # e, Speaks(f)
            PROVE  Speaks(f)'
        BY <1>1, <2>1, <2>2, <3>4 DEF Speaks, Unspoken, Unlogged
      <3> QED  BY <2>2, <3>1, <3>2, <3>3, <3>4, AccountTold
    <2> QED
      <3>1. ~requests[q].made => told' = told
        BY <1>9 DEF AssignUser
      <3> QED  BY <2>3, <2>4, <2>5, <3>1
  <1>10. ASSUME NEW t \in Tenants, NEW k \in Edited, EditType(t, k)
         PROVE  AccountsInv'
    BY <1>1, <1>10, AccountsQuiet DEF EditType, people
  <1> QED  BY <1>4, <1>5, <1>6, <1>7, <1>8, <1>9, <1>10 DEF Serves, RequestStep, Step

\* Of any number of servers and invitations that make the same account at once,
\* one does, and the password it gives away is the account's
\* (bootstrapAdmin, handleInviteUser).
THEOREM AccountsAreOpen == Spec => []AccountsOpen
  <1>1. Init => AccountsInv
    BY AccountsInit
  <1>2. TInv /\ AccountsInv /\ [Next]_vars => AccountsInv'
    <2> SUFFICES ASSUME TInv, AccountsInv, [Next]_vars PROVE AccountsInv'
      OBVIOUS
    <2>1. CASE Next
      BY <2>1, NextForms, AccountsEarly, AccountsBackfill, AccountsEnds, AccountsServes DEF Ends
    <2>2. CASE UNCHANGED vars
      BY <2>2 DEF vars, tables, AccountsInv, MadeIt, AccountsOpen, Speaks, Unspoken, Unlogged
    <2> QED  BY <2>1, <2>2
  <1>3. AccountsInv => AccountsOpen
    BY DEF AccountsInv
  <1> QED  BY <1>1, <1>2, <1>3, Types, PTL DEF Spec
=============================================================================
