------------------------------ MODULE Expiring -------------------------------
(***************************************************************************)
(* What the interface of internal/cache promises of each key, whichever    *)
(* store backs it (Spec): a value is found for as long as it was set to    *)
(* live, to a tick; a counter counts every increment since it was last     *)
(* absent, lives as long as its first increment said ("ttl applied on      *)
(* first increment"), counted from some moment of that call, and its end   *)
(* never moves; and what is found goes at no other time than its own, or   *)
(* with all the rest, and not even then in a store that outlives the       *)
(* server.  LossySpec is the promise less one clause: a counter of such a  *)
(* store may lose its end while its first increment is under way.          *)
(***************************************************************************)
EXTENDS Integers

CONSTANTS
  Values,    \* keys that are set
  Counters,  \* keys that are incremented
  Lives,     \* of each key: the ticks an entry lives
  Highest,   \* counts from here on are all alike
  Forever    \* the time an entry has left that has no end

VARIABLES
  durable,   \* the store outlives the server
  found,     \* of each key: the count and the ticks left that a lookup finds
  begun      \* counters whose first increment has not returned yet

vars == <<durable, found, begun>>

Keys == Values \cup Counters

Nothing == [count |-> 0, left |-> 0]
New(key) == [count |-> 1, left |-> Lives[key]]

Init ==
  /\ durable \in BOOLEAN
  /\ found = [key \in Keys |-> Nothing]
  /\ begun = {}

Set(key) ==
  /\ found' = [found EXCEPT ![key] = New(key)]
  /\ UNCHANGED begun

\* The first increment, and its return unless that comes at once.
First(key) ==
  /\ found[key] = Nothing
  /\ found' = [found EXCEPT ![key] = New(key)]
  /\ begun' \in {begun, begun \cup {key}}

Return(key) ==
  /\ key \in begun
  /\ begun' = begun \ {key}
  /\ UNCHANGED found

More(key) ==
  /\ found[key] # Nothing
  /\ found' = [found EXCEPT ![key].count = IF @ < Highest THEN @ + 1 ELSE @]
  /\ UNCHANGED begun

\* What a tick makes of an entry: it may go a tick before its time is up.
Older(entry) ==
  IF entry = Nothing \/ entry.left = Forever
  THEN {entry}
  ELSE {e \in {Nothing, [entry EXCEPT !.left = @ - 1]} :
          IF e = Nothing THEN entry.left <= 1 ELSE entry.left >= 1}

\* The time of a counter runs from the return of its first increment, at the
\* latest.
Later(key) == IF key \in begun THEN {found[key]} ELSE Older(found[key])

Tick ==
  /\ \E later \in [Keys -> UNION {Later(key) : key \in Keys}] :
       /\ \A key \in Keys : later[key] \in Later(key)
       /\ found' = later
  /\ UNCHANGED begun

Forget ==
  /\ ~durable
  /\ found' = [key \in Keys |-> Nothing]
  /\ begun' = {}

Next ==
  /\ \/ \E key \in Values : Set(key)
     \/ \E key \in Counters : First(key) \/ Return(key) \/ More(key)
     \/ Tick
     \/ Forget
  /\ UNCHANGED durable

Spec == Init /\ [][Next]_vars

-----------------------------------------------------------------------------
(* The clause that LossySpec gives up.                                      *)

\* The first increment is counted and its call fails: no end is set.
FirstUnended(key) ==
  /\ found[key] = Nothing
  /\ found' = [found EXCEPT ![key] = [count |-> 1, left |-> Forever]]
  /\ UNCHANGED begun

\* The call is cut short, or the setting of the end fails.
LoseEnd(key) ==
  /\ key \in begun
  /\ found' = [found EXCEPT ![key].left = Forever]
  /\ begun' = begun \ {key}

LoseAnEnd ==
  /\ durable
  /\ \E key \in Counters : FirstUnended(key) \/ LoseEnd(key)
  /\ UNCHANGED durable

LossySpec == Init /\ [][Next \/ LoseAnEnd]_vars
==============================================================================
