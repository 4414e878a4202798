------------------------------- MODULE Startup -------------------------------
(***************************************************************************)
(* Servers that start, serve and stop on one database: the migrations      *)
(* (internal/db), the first administrator and the backfill of block types  *)
(* (cmd/server/main, internal/db/seed), beside the requests that servers   *)
(* already up are serving (Tenants).  An error on the way ends a process.  *)
(***************************************************************************)
EXTENDS Tenants

CONSTANTS
  Servers,
  Legacy,         \* tenants of a database older than the last migration
  Migrations,     \* number of embedded SQL files
  Admin,          \* ADMIN_EMAIL
  AdminPassword,  \* ADMIN_PASSWORD, or Nil: one is generated and logged
  Former,         \* the password an older database has for Admin
  MaxStarts       \* starts of a server (a bound)

ASSUME StartupAssumption ==
  /\ Legacy \subseteq Tenants
  /\ Migrations \in Nat \ {0}
  /\ Admin \in Emails
  /\ MaxStarts \in Nat
  /\ Nil \notin Servers \cup {Former}

VARIABLES
  applied,      \* schema_migrations: 0 for the table itself, and its rows
  servers,
  starts,
  calm          \* no server has failed, or was stopped while one was starting

vars == <<tables, requests, applied, servers, starts, calm>>

\* at: the migration in turn, 0 for the table that lists them.  left: tenants
\* still to be seeded; tenant: the one in turn; next: its next starter.
Down == [pc |-> "down", at |-> 0, left |-> {}, tenant |-> Nil, next |-> 1]

\* A new database, or one that served an earlier release.
Init ==
  /\ InitTables
  /\ \/ /\ applied = {}
        /\ tenants = {}
        /\ accounts = [e \in Emails |-> Nil]
        /\ told = [e \in Emails |-> Nil]
     \/ /\ applied = 0 .. Migrations - 1
        /\ tenants = Legacy
        /\ accounts = [e \in Emails |-> IF e = Admin THEN Former ELSE Nil]
        /\ told = [e \in Emails |-> IF e = Admin THEN Former ELSE Nil]
  /\ servers = [s \in Servers |-> Down]
  /\ starts = 0
  /\ calm = TRUE

Serving == \E s \in Servers : servers[s].pc = "serving"
Starting == \E s \in Servers : servers[s].pc \notin {"down", "serving"}

Goes(s, pc) == servers' = [servers EXCEPT ![s].pc = pc]

\* log.Fatalf
Dies(s) == servers' = [servers EXCEPT ![s] = Down]

-----------------------------------------------------------------------------
(* migrate                                                                  *)

Start(s) ==
  /\ servers[s].pc = "down"
  /\ starts < MaxStarts
  /\ starts' = starts + 1
  /\ Goes(s, "checking")
  /\ UNCHANGED <<tables, requests, applied, calm>>

\* The migration in turn of s is in place.
Passes(s) ==
  LET x == servers[s]
  IN  servers' = [servers EXCEPT ![s] =
        IF x.at = Migrations THEN [x EXCEPT !.pc = "counting", !.at = 0]
                             ELSE [x EXCEPT !.pc = "checking", !.at = x.at + 1]]

\* Variant: every migration is applied at every start.
CheckNothing(s) ==
  /\ servers[s].pc = "checking"
  /\ IF servers[s].at = 0 /\ 0 \in applied THEN Passes(s) ELSE Goes(s, "applying")
  /\ UNCHANGED <<tables, requests, applied, starts, calm>>

\* Variant: the query for a migration lacks its WHERE clause.
CheckAnyApplied(s) ==
  /\ servers[s].pc = "checking"
  /\ IF 0 \in applied /\ (servers[s].at = 0 \/ applied # {0})
     THEN Passes(s) ELSE Goes(s, "applying")
  /\ UNCHANGED <<tables, requests, applied, starts, calm>>

CheckApplied(s) ==
  /\ servers[s].pc = "checking"
  /\ IF servers[s].at \in applied THEN Passes(s) ELSE Goes(s, "applying")
  /\ UNCHANGED <<tables, requests, applied, starts, calm>>

\* One transaction, which waits for that of another server and fails after it;
\* CREATE TABLE IF NOT EXISTS may also find the table.
ApplyMigration(s) ==
  /\ servers[s].pc = "applying"
  /\ IF servers[s].at \notin applied
     THEN applied' = applied \cup {servers[s].at} /\ Passes(s)
     ELSE /\ Dies(s) \/ (servers[s].at = 0 /\ Passes(s))
          /\ UNCHANGED applied
  /\ UNCHANGED <<tables, requests, starts, calm>>

-----------------------------------------------------------------------------
(* bootstrapAdmin                                                           *)

CountUsers(s) ==
  /\ servers[s].pc = "counting"
  /\ Goes(s, IF \A e \in Emails : accounts[e] = Nil THEN "creating" ELSE "listing")
  /\ UNCHANGED <<tables, requests, applied, starts, calm>>

\* Variant: an INSERT that finds the address taken is no error.
CreateAdminIfAbsent(s) ==
  /\ servers[s].pc = "creating"
  /\ accounts' = [accounts EXCEPT ![Admin] = IF @ = Nil THEN s ELSE @]
  /\ Goes(s, "logging")
  /\ UNCHANGED <<library, told, lost, requests, applied, starts, calm>>

CreateAdmin(s) ==
  /\ servers[s].pc = "creating"
  /\ IF accounts[Admin] # Nil
     THEN Dies(s) /\ UNCHANGED <<accounts, told>>
     ELSE IF AdminPassword = Nil
     THEN /\ accounts' = [accounts EXCEPT ![Admin] = s]
          /\ Goes(s, "logging")
          /\ UNCHANGED told
     ELSE /\ accounts' = [accounts EXCEPT ![Admin] = AdminPassword]
          /\ told' = [told EXCEPT ![Admin] = AdminPassword]
          /\ Goes(s, "listing")
  /\ UNCHANGED <<library, lost, requests, applied, starts, calm>>

LogPassword(s) ==
  /\ servers[s].pc = "logging"
  /\ told' = [told EXCEPT ![Admin] = s]
  /\ Goes(s, "listing")
  /\ UNCHANGED <<library, accounts, lost, requests, applied, starts, calm>>

-----------------------------------------------------------------------------
(* BackfillSectionTypes                                                     *)

\* The tenants T remain to be seeded, in some order.
Seeds(s, T) ==
  servers' = [servers EXCEPT ![s] =
    [Down EXCEPT !.pc = IF T = {} THEN "serving" ELSE "seeding", !.left = T,
                 !.tenant = IF T = {} THEN Nil ELSE CHOOSE t \in T : TRUE]]

ListTenants(s) ==
  /\ servers[s].pc = "listing"
  /\ Seeds(s, {t \in tenants : NoTypes(t)})
  /\ UNCHANGED <<tables, requests, applied, starts, calm>>

SeedListed(s) ==
  LET t == servers[s].tenant
      k == servers[s].next
  IN  /\ servers[s].pc = "seeding"
      /\ Seed(t, k)
      /\ IF k = Starters THEN Seeds(s, servers[s].left \ {t})
                         ELSE servers' = [servers EXCEPT ![s].next = k + 1]
      /\ UNCHANGED <<tenants, created, cut, people, requests, applied, starts, calm>>

-----------------------------------------------------------------------------
(* The end of a process.                                                    *)

\* What server s leaves unfinished when it stops here.
HalfSeeded(s) ==
  IF servers[s].pc = "seeding" /\ servers[s].next > 1 THEN {servers[s].tenant} ELSE {}
Unlogged(s) == IF servers[s].pc = "logging" THEN {Admin} ELSE {}

\* The requests of s end with it, all there are when no other server serves.
StopsWith(s, Q) ==
  /\ Q \subseteq {q \in Requests : requests[q] # Idle}
  /\ servers[s].pc # "serving" => Q = {}
  /\ (\A r \in Servers \ {s} : servers[r].pc # "serving") =>
       \A q \in Requests \ Q : requests[q] = Idle
  /\ cut' = cut \cup HalfSeeded(s) \cup UNION {Unfinished(q) : q \in Q}
  /\ lost' = lost \cup Unlogged(s) \cup UNION {Unspoken(q) : q \in Q}
  /\ requests' = [q \in Requests |-> IF q \in Q THEN Idle ELSE requests[q]]
  /\ Dies(s)
  /\ UNCHANGED <<tenants, types, created, accounts, told, applied, starts>>

\* A statement of s on its way up fails.
ServerFails(s) ==
  /\ "db" \in Faults
  /\ servers[s].pc \notin {"down", "serving"}
  /\ StopsWith(s, {})
  /\ calm' = FALSE

\* SIGTERM while serving: requests have ten seconds to end.
Stop(s) ==
  /\ servers[s].pc = "serving"
  /\ StopsWith(s, {})
  /\ calm' = (calm /\ ~Starting)

Crash(s) ==
  /\ "crash" \in Faults
  /\ servers[s].pc # "down"
  /\ \E Q \in SUBSET Requests : StopsWith(s, Q)
  /\ calm' = FALSE

ServerStep(s) ==
  \/ CheckApplied(s) \/ ApplyMigration(s)
  \/ CountUsers(s) \/ CreateAdmin(s) \/ LogPassword(s)
  \/ ListTenants(s) \/ SeedListed(s)

ServeRequests == Serving /\ Serve /\ UNCHANGED <<applied, servers, starts, calm>>

Next ==
  \/ \E s \in Servers : Start(s) \/ ServerStep(s) \/ ServerFails(s) \/ Stop(s) \/ Crash(s)
  \/ ServeRequests

Spec == Init /\ [][Next]_vars /\ \A s \in Servers : WF_vars(ServerStep(s))

-----------------------------------------------------------------------------
Makers == Servers \cup Requests \cup {Former, AdminPassword, Nil}

Request ==
  [pc : {"idle", "seeding", "inserting", "assigning"}, tenant : Tenants \cup {Nil},
   next : Library, email : Emails \cup {Nil}, made : BOOLEAN]

Server ==
  [pc : {"down", "checking", "applying", "counting", "creating", "logging", "listing",
         "seeding", "serving"},
   at : 0 .. Migrations, left : SUBSET Tenants, tenant : Tenants \cup {Nil}, next : Library]

\* Rows, requests and servers refer to what exists in the model.
TypeOK ==
  /\ tenants \subseteq Tenants
  /\ types \in [Tenants -> [Keys -> {"none", "starter", "own"}]]
  /\ created \subseteq Tenants
  /\ cut \subseteq Tenants
  /\ accounts \in [Emails -> Makers]
  /\ told \in [Emails -> Makers]
  /\ lost \subseteq Emails
  /\ requests \in [Requests -> Request]
  /\ applied \subseteq 0 .. Migrations
  /\ servers \in [Servers -> Server]
  /\ starts \in Nat
  /\ calm \in BOOLEAN

Seeding(t) ==
  \/ \E q \in Requests : requests[q].pc = "seeding" /\ requests[q].tenant = t
  \/ \E s \in Servers : servers[s].pc = "seeding" /\ t \in servers[s].left

\* A tenant answered 201 has the whole starter library; any other has it, or
\* somebody is at work on it, or a server has yet to come up and will backfill
\* it, unless a creation or a backfill failed half way (handleCreateTenant,
\* BackfillSectionTypes).
LibraryComplete ==
  /\ \A t \in created : Complete(t)
  /\ \A t \in tenants \ cut : Complete(t) \/ Seeding(t) \/ (NoTypes(t) /\ ~Serving)

\* Creation and backfill, which may seed one tenant at the same time, never
\* undo what its editors did ("re-running is safe").
EditsKept ==
  [][\A t \in Tenants, k \in Keys : types[t][k] = "own" => types'[t][k] = "own"]_vars

Speaks(e) ==
  \/ \E q \in Requests : e \in Unspoken(q)
  \/ \E s \in Servers : e \in Unlogged(s)

\* A password that was logged or answered opens its account, whoever else
\* invited the same address or started beside; and every account's password
\* was given away or is about to be, unless its maker failed.
AccountsOpen ==
  \A e \in Emails :
    /\ told[e] # Nil => told[e] = accounts[e]
    /\ accounts[e] # Nil => told[e] # Nil \/ e \in lost \/ Speaks(e)

\* A migration is applied only on top of all before it, and a server is past
\* the migrations only when every one is in place, whichever servers applied
\* them, failed at them or died between them (migrate).
SchemaInOrder ==
  /\ \A m \in applied : 0 .. m \subseteq applied
  /\ \A s \in Servers :
       servers[s].pc \notin {"down", "checking", "applying"} => applied = 0 .. Migrations

\* A server that gives up because another was faster, at a migration or at the
\* first administrator, leaves that other one, or one that was faster still,
\* on its way up or serving: they never all fail because of each other
\* (migrate, bootstrapAdmin).
NeverAllFail == [][Starting /\ calm' => (Starting \/ Serving)']_vars

\* Servers that start at once, on a new database or an old one, never all fail
\* because of each other: unless a statement fails or the server that came up
\* is stopped again, one of them serves in the end (migrate, bootstrapAdmin).
SomeServerStarts == Starting ~> Serving \/ ~calm
=============================================================================
