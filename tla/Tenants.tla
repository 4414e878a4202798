------------------------------- MODULE Tenants -------------------------------
(***************************************************************************)
(* Tenants, their block types and the accounts of their members, as        *)
(* internal/httpapi/handlers_tenants and internal/db/seed write them: one  *)
(* action per statement, no transaction around two of them.                *)
(*                                                                         *)
(* Memberships and roles are left out, since they decide only who may call *)
(* a handler; so are attempts refused before they change anything, and     *)
(* changes of password (see Sessions).                                     *)
(***************************************************************************)
EXTENDS Integers, FiniteSets

CONSTANTS
  Tenants,
  Emails,
  Requests,     \* requests served at the same time
  Starters,     \* number of block types in the starter library
  Edited,       \* keys that editors use (a bound)
  Faults,       \* "db": a statement or its reply may fail; "crash"
  Nil

ASSUME TenantsAssumption ==
  /\ Starters \in Nat \ {0}
  /\ Edited \subseteq 0 .. Starters
  /\ Nil \notin Tenants \cup Emails \cup Requests
  /\ Faults \subseteq {"db", "crash"}

VARIABLES
  tenants,      \* the tenants that exist
  types,        \* of each tenant and key: no type, the starter, or an own one
  created,      \* tenants whose creation was answered 201
  cut,          \* tenants whose library somebody failed to finish
  accounts,     \* of each e-mail address: who generated its password, or Nil
  told,         \* the password somebody was given for it, or Nil
  lost,         \* accounts whose maker failed before giving the password away
  requests

tables == <<tenants, types, created, cut, accounts, told, lost>>
library == <<tenants, types, created, cut>>
people == <<accounts, told, lost>>

Library == 1 .. Starters
Keys == {0} \cup Library    \* 0: any key that is not in the library

\* next: the starter to insert next.  made: the account is this request's, or
\* will be.
Idle == [pc |-> "idle", tenant |-> Nil, next |-> 1, email |-> Nil, made |-> FALSE]

InitTables ==
  /\ types = [t \in Tenants |-> [k \in Keys |-> "none"]]
  /\ created = {}
  /\ cut = {}
  /\ lost = {}
  /\ requests = [q \in Requests |-> Idle]

\* Variant: the INSERT of a starter type replaces an existing key.
SeedOver(t, k) ==
  types' = [types EXCEPT ![t][k] = "starter"]

\* The INSERT of a starter type leaves an existing key untouched.
Seed(t, k) ==
  types' = [types EXCEPT ![t][k] = IF @ = "none" THEN "starter" ELSE @]

Complete(t) == \A k \in Library : types[t][k] # "none"
NoTypes(t) == \A k \in Keys : types[t][k] = "none"

Done(q) == requests' = [requests EXCEPT ![q] = Idle]

\* What request q leaves unfinished when it stops here.
Unfinished(q) ==
  IF requests[q].pc = "seeding" THEN {requests[q].tenant} ELSE {}
Unspoken(q) ==
  IF requests[q].pc = "assigning" /\ requests[q].made THEN {requests[q].email} ELSE {}

-----------------------------------------------------------------------------
(* Creating a tenant.                                                       *)

CreateTenant(q, t) ==
  /\ requests[q] = Idle
  /\ t \notin tenants
  /\ tenants' = tenants \cup {t}
  /\ requests' = [requests EXCEPT ![q] = [Idle EXCEPT !.pc = "seeding", !.tenant = t]]
  /\ UNCHANGED <<types, created, cut, people>>

\* Variant: a key that is taken ends the seeding.
SeedCreatedStops(q) ==
  LET t == requests[q].tenant
      k == requests[q].next
      last == k = Starters \/ types[t][k] # "none"
  IN  /\ requests[q].pc = "seeding"
      /\ Seed(t, k)
      /\ requests' = [requests EXCEPT ![q] = IF last THEN Idle ELSE [@ EXCEPT !.next = k + 1]]
      /\ created' = IF last THEN created \cup {t} ELSE created
      /\ UNCHANGED <<tenants, cut, people>>

\* The tenant is answered 201 once its last starter is inserted.
SeedCreated(q) ==
  LET t == requests[q].tenant
      k == requests[q].next
  IN  /\ requests[q].pc = "seeding"
      /\ Seed(t, k)
      /\ requests' = [requests EXCEPT ![q] =
           IF k = Starters THEN Idle ELSE [@ EXCEPT !.next = k + 1]]
      /\ created' = IF k = Starters THEN created \cup {t} ELSE created
      /\ UNCHANGED <<tenants, cut, people>>

-----------------------------------------------------------------------------
(* Inviting a user: the address is looked up, an account with a temporary   *)
(* password created, the membership inserted, the password answered.        *)

Invite(q, e) ==
  /\ requests[q] = Idle
  /\ requests' = [requests EXCEPT ![q] =
       [Idle EXCEPT !.pc = IF accounts[e] = Nil THEN "inserting" ELSE "assigning",
                    !.email = e, !.made = accounts[e] = Nil]]
  /\ UNCHANGED tables

\* Variant: the INSERT takes over an account that exists by now.
UpsertUser(q) ==
  /\ requests[q].pc = "inserting"
  /\ accounts' = [accounts EXCEPT ![requests[q].email] = q]
  /\ requests' = [requests EXCEPT ![q].pc = "assigning"]
  /\ UNCHANGED <<library, told, lost>>

\* users.email is unique: the second of two INSERTs is an error.
InsertUser(q) ==
  LET e == requests[q].email
  IN  /\ requests[q].pc = "inserting"
      /\ IF accounts[e] = Nil
         THEN /\ accounts' = [accounts EXCEPT ![e] = q]
              /\ requests' = [requests EXCEPT ![q].pc = "assigning"]
         ELSE Done(q) /\ UNCHANGED accounts
      /\ UNCHANGED <<library, told, lost>>

AssignUser(q) ==
  LET e == requests[q].email
  IN  /\ requests[q].pc = "assigning"
      /\ Done(q)
      /\ \/ /\ told' = IF requests[q].made THEN [told EXCEPT ![e] = q] ELSE told
            /\ UNCHANGED lost
         \/ /\ "db" \in Faults
            /\ lost' = lost \cup Unspoken(q)
            /\ UNCHANGED told
      /\ UNCHANGED <<library, accounts>>

\* The reply to the last statement of q is lost, or its next one is not carried
\* out: the database fails, or the client is gone and the context cancelled.
RequestFails(q) ==
  /\ "db" \in Faults
  /\ requests[q] # Idle
  /\ cut' = cut \cup Unfinished(q)
  /\ lost' = lost \cup Unspoken(q)
  /\ Done(q)
  /\ UNCHANGED <<tenants, types, created, accounts, told>>

-----------------------------------------------------------------------------
(* Editing block types (see Content): one is created, or changed or         *)
(* archived; either makes it the tenant's own.                              *)

EditType(t, k) ==
  /\ t \in tenants
  /\ types[t][k] # "own"
  /\ types' = [types EXCEPT ![t][k] = "own"]
  /\ UNCHANGED <<tenants, created, cut, people, requests>>

Step(q) == SeedCreated(q) \/ InsertUser(q) \/ AssignUser(q) \/ RequestFails(q)

Serve ==
  \/ \E q \in Requests :
       \/ \E t \in Tenants : CreateTenant(q, t)
       \/ \E e \in Emails : Invite(q, e)
       \/ Step(q)
  \/ \E t \in Tenants, k \in Edited : EditType(t, k)
=============================================================================
