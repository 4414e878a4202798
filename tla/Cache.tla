-------------------------------- MODULE Cache --------------------------------
(***************************************************************************)
(* The key-value cache of internal/cache as its callers see it: a Redis    *)
(* server, or a map in the memory of the process whose expired entries     *)
(* stay until the next lookup or sweep; and the login limit that counts in *)
(* it.  Time is counted in ticks: an entry holds the ticks it has left.    *)
(* The locks, which use SetNX, are in Publish.                             *)
(***************************************************************************)
EXTENDS Integers, ServerProcess

CONSTANTS
  Tokens,       \* previews that are built (each token is drawn once)
  Login,        \* the key that counts one client's login attempts
  MaxLogins,    \* attempts admitted in a window
  Window,       \* ticks of a window
  PreviewTTL,   \* ticks a preview stays valid
  Forever       \* the time an entry has left that has no expiry

ASSUME CacheAssumption ==
  /\ Login \notin Tokens
  /\ MaxLogins \in Nat \ {0} /\ Window \in Nat \ {0} /\ PreviewTTL \in Nat \ {0}
  /\ Forever \notin Int

VARIABLES
  backend,      \* "redis" or "memory", chosen by the configuration
  store,        \* of each key: what the cache keeps
  expiring      \* an attempt has created the counter; its EXPIRE is to come

cacheVars == <<backend, store, expiring>>

Keys == Tokens \cup {Login}

\* left: ticks until expiry, or -1 past it.  No entry: a count of 0.
Entry(count, left) == [count |-> count, left |-> left]
Absent == Entry(0, 0)

\* What a lookup finds.  (The memory compares with After: an entry is still
\* found at the moment it expires.)
Fresh(entry) == entry.count > 0 /\ entry.left # -1
Held(key) == Fresh(store[key])

\* The entry as the next tick finds it: Redis drops it when its time is up,
\* the memory keeps it past its time.
Aged(entry) ==
  IF ~Fresh(entry) \/ entry.left = Forever THEN entry
  ELSE IF backend = "redis" /\ entry.left = 1 THEN Absent
  ELSE [entry EXCEPT !.left = @ - 1]

InitCache ==
  /\ backend \in {"redis", "memory"}
  /\ store = [key \in Keys |-> Absent]
  /\ expiring = FALSE

\* Counts above the limit are all alike.
Raised(count) == IF count > MaxLogins THEN count ELSE count + 1

\* Variant: an increment sets the expiry anew.
HitRenews(entry) ==
  IF Fresh(entry)
  THEN Entry(Raised(entry.count), Window)
  ELSE Entry(1, IF backend = "redis" THEN Forever ELSE Window)

\* Variant: an increment counts on in an entry that has expired.
HitStale(entry) ==
  IF entry.count > 0
  THEN [entry EXCEPT !.count = Raised(@)]
  ELSE Entry(1, IF backend = "redis" THEN Forever ELSE Window)

\* An increment keeps the expiry; the memory sets it with the first one,
\* Redis only with the EXPIRE that follows.
Hit(entry) ==
  IF Fresh(entry)
  THEN [entry EXCEPT !.count = Raised(@)]
  ELSE Entry(1, IF backend = "redis" THEN Forever ELSE Window)

Count == store' = [store EXCEPT ![Login] = Hit(@)]

\* A login attempt: it is refused when it raised the count above the limit.
Attempt ==
  /\ Works
  /\ Count
  /\ expiring' = (expiring \/ (backend = "redis" /\ ~Held(Login)))
  /\ UNCHANGED backend

\* INCR, or its reply, fails: the attempt is let through, and no EXPIRE is
\* sent.
AttemptUncounted ==
  /\ Fails
  /\ backend = "redis"
  /\ \/ Count
     \/ UNCHANGED store
  /\ UNCHANGED <<backend, expiring>>

\* The EXPIRE that follows the first INCR; its failure goes unnoticed.
Expire ==
  /\ expiring
  /\ expiring' = FALSE
  /\ \/ Works /\ store' = [store EXCEPT ![Login].left = Window]
     \/ Fails /\ UNCHANGED store
  /\ UNCHANGED backend

\* The sweep of the memory, once a minute.
Sweep ==
  /\ Works
  /\ \E key \in Keys : store[key].left = -1
  /\ store' = [key \in Keys |-> IF Held(key) THEN store[key] ELSE Absent]
  /\ UNCHANGED <<backend, expiring>>

\* GET /preview/{token}: a lookup, which drops an expired entry.
Visit(t) ==
  /\ Works
  /\ ~Held(t)
  /\ store' = [store EXCEPT ![t] = Absent]
  /\ UNCHANGED <<backend, expiring>>

\* The server stops, and its memory is lost; Redis keeps what it has.
LoseMemory ==
  /\ store' = IF backend = "redis" THEN store ELSE [key \in Keys |-> Absent]
  /\ expiring' = FALSE
  /\ UNCHANGED backend

CacheStep ==
  \/ Attempt
  \/ AttemptUncounted
  \/ Expire
  \/ Sweep
  \/ \E t \in Tokens : Visit(t)

\* Property: the first attempt after the window has ended is admitted, even
\* if the memory still holds the expired counter (memCache.Incr, rateLimit).
FirstTryAdmitted ==
  [][Attempt /\ ~Held(Login) => store'[Login].count <= MaxLogins]_<<cacheVars, process>>

\* What lookups find, whatever else the store still holds.  A counter that waits
\* for its EXPIRE has its window ahead of it.
Kept == [key \in Keys |-> IF Held(key) THEN store[key] ELSE Absent]
Found == IF expiring THEN [Kept EXCEPT ![Login].left = Window] ELSE Kept

Promise == INSTANCE Expiring WITH
  Values <- Tokens,
  Counters <- {Login},
  Lives <- [key \in Keys |-> IF key = Login THEN Window ELSE PreviewTTL],
  Highest <- MaxLogins + 1,
  durable <- backend = "redis",
  found <- Found,
  begun <- IF expiring THEN {Login} ELSE {}

\* Property: Redis and the memory keep what Cache says to their callers, but
\* for one clause: entries live as long as they were set to, increments never
\* move a counter's end, and neither the sweep nor a lookup, a late EXPIRE or
\* the loss of the memory brings an expired entry back or lets one key's end
\* touch another's (redisCache, memCache).  The clause is "ttl applied on first
\* increment": Redis breaks it when the INCR fails after it was applied, or the
\* EXPIRE fails or is never sent (redisCache.Incr); LossySpec lets it, and it
\* alone, do so.
CacheKeepsPromise == Promise!LossySpec

\* The counter was left without an end, for good.
Unending == Held(Login) /\ store[Login].left = Forever /\ ~expiring

\* Property: a client who is refused is not refused forever, however often he
\* tries, unless the counter lost its EXPIRE (redisCache.Incr sends it apart).
LimitLifts ==
  store[Login].count > MaxLogins
    ~> ~Held(Login) \/ Unending
==============================================================================
