------------------------------- MODULE Sessions -------------------------------
(***************************************************************************)
(* The sessions of one user: the refresh tokens in the database, the       *)
(* handlers that issue, rotate and revoke them (internal/httpapi/          *)
(* handlers_auth), the janitor (cmd/server/main), and the dashboards that  *)
(* hold them (web/admin/app.js): the tabs of one browser, which keep a     *)
(* copy in memory and share localStorage.                                  *)
(*                                                                         *)
(* A handler is one action per statement, and its answer one more.  Access *)
(* tokens are left out: one expires, and a call is answered 401, at any    *)
(* time.  So are accounts that are disabled, which no handler does, and    *)
(* attempts refused before they change anything.                           *)
(***************************************************************************)
EXTENDS Naturals, FiniteSets

CONSTANTS
  Tokens,       \* refresh tokens (a bound)
  Tabs,
  Requests,     \* requests served at the same time
  MaxChanges,   \* changes of password (a bound)
  Faults,       \* subset of {"db"}: a statement or its reply may fail
  Nil

ASSUME SessionsAssumption ==
  /\ Nil \notin Tokens \cup Tabs
  /\ MaxChanges \in Nat
  /\ Faults \subseteq {"db"}

VARIABLES
  password,     \* the user's password, as the number of its changes
  status,       \* of each token: usable ("valid") or why it is not
  origin,       \* what each token was issued for
  requests,
  tabs,         \* S.refresh of each tab, Nil when empty
  stored,       \* cms_refresh in localStorage
  forced,       \* since the password last changed, every token was revoked
  interrupted   \* a call with the token in localStorage lost its page

vars == <<password, status, origin, requests, tabs, stored, forced, interrupted>>

\* A token is spent by a refresh or a logout that presents it; it ends when it
\* expires or all are revoked.
Statuses == {"none", "valid", "spent", "ended"}

NoOrigin == [parent |-> Nil, cred |-> 0, late |-> FALSE]

\* late: all tokens were revoked after this request, or one whose token it
\* exchanges, had read its credentials.
Idle == [op |-> "idle", pc |-> "idle", tab |-> Nil, token |-> Nil,
         cred |-> 0, late |-> FALSE, new |-> Nil]

Init ==
  /\ password = 0
  /\ status = [t \in Tokens |-> "none"]
  /\ origin = [t \in Tokens |-> NoOrigin]
  /\ requests = [r \in Requests |-> Idle]
  /\ tabs = [b \in Tabs |-> Nil]
  /\ stored = Nil
  /\ forced = TRUE
  /\ interrupted = FALSE

\* Tokens become unusable; what they were issued for no longer matters.
EndTokens(T, why) ==
  /\ status' = [t \in Tokens |-> IF t \in T /\ status[t] = "valid" THEN why ELSE status[t]]
  /\ origin' = [t \in Tokens |-> IF t \in T THEN [NoOrigin EXCEPT !.parent = origin[t].parent]
                                 ELSE origin[t]]

At(r, op, pc) == requests[r].op = op /\ requests[r].pc = pc

\* A request that may need a token finds one (a bound).
CanIssue ==
  Cardinality({t \in Tokens : status[t] = "none"}) >
    Cardinality({r \in Requests : /\ requests[r].op \in {"login", "refresh"}
                                  /\ requests[r].pc \in {"sent", "checked", "revoked"}})

Failed(r) == [requests[r] EXCEPT !.pc = "failed", !.cred = 0, !.late = FALSE]

\* The statement of r was carried out and r goes on, or its reply was lost.
Proceeds(r, pc) ==
  \/ requests' = [requests EXCEPT ![r].pc = pc]
  \/ "db" \in Faults /\ requests' = [requests EXCEPT ![r] = Failed(r)]

\* The statement of r was not carried out.
Refused(r) ==
  /\ "db" \in Faults
  /\ requests' = [requests EXCEPT ![r] = Failed(r)]
  /\ UNCHANGED <<password, status, origin, tabs, stored, forced, interrupted>>

-----------------------------------------------------------------------------
(* Logging in.                                                              *)

\* The form also shows beside tokens that a late answer has set.
Login(r, b) ==
  /\ requests[r] = Idle
  /\ CanIssue
  /\ requests' = [requests EXCEPT ![r] =
       [Idle EXCEPT !.op = "login", !.pc = "checked", !.tab = b, !.cred = password]]
  /\ UNCHANGED <<password, status, origin, tabs, stored, forced, interrupted>>

MayIssue(r) == At(r, "login", "checked") \/ At(r, "refresh", "revoked")

IssueTokens(r, t) ==
  /\ MayIssue(r)
  /\ status[t] = "none"
  /\ status' = [status EXCEPT ![t] = "valid"]
  /\ origin' = [origin EXCEPT ![t] = [parent |-> requests[r].token,
                                      cred |-> requests[r].cred,
                                      late |-> requests[r].late]]
  /\ \/ requests' = [requests EXCEPT ![r] =
             [@ EXCEPT !.pc = "ok", !.cred = 0, !.late = FALSE, !.new = t]]
     \/ "db" \in Faults /\ requests' = [requests EXCEPT ![r] = Failed(r)]
  /\ UNCHANGED <<password, tabs, stored, forced, interrupted>>

NotIssued(r) == MayIssue(r) /\ Refused(r)

-----------------------------------------------------------------------------
(* Refreshing.                                                              *)

\* A call of tab b was answered 401.
TryRefresh(r, b) ==
  /\ requests[r] = Idle
  /\ tabs[b] # Nil
  /\ CanIssue
  /\ requests' = [requests EXCEPT ![r] =
       [Idle EXCEPT !.op = "refresh", !.pc = "sent", !.tab = b, !.token = tabs[b]]]
  /\ UNCHANGED <<password, status, origin, tabs, stored, forced, interrupted>>

\* Variant: the query finds the token in any state.
SelectTokenAnyState(r) ==
  /\ At(r, "refresh", "sent")
  /\ requests' = [requests EXCEPT ![r] =
       LET t == requests[r].token
       IN  IF status[t] # "none"
           THEN [@ EXCEPT !.pc = "checked", !.cred = origin[t].cred, !.late = origin[t].late]
           ELSE Failed(r)]
  /\ UNCHANGED <<password, status, origin, tabs, stored, forced, interrupted>>

SelectToken(r) ==
  /\ At(r, "refresh", "sent")
  /\ requests' = [requests EXCEPT ![r] =
       LET t == requests[r].token
       IN  IF status[t] = "valid"
           THEN [@ EXCEPT !.pc = "checked", !.cred = origin[t].cred, !.late = origin[t].late]
           ELSE Failed(r)]
  /\ UNCHANGED <<password, status, origin, tabs, stored, forced, interrupted>>

NotSelected(r) == At(r, "refresh", "sent") /\ Refused(r)

\* Variant: an error of the UPDATE is not an error of the handler.
RevokeUsedDropsError(r) ==
  /\ At(r, "refresh", "checked")
  /\ \/ EndTokens({requests[r].token}, "spent")
     \/ "db" \in Faults /\ UNCHANGED <<status, origin>>
  /\ requests' = [requests EXCEPT ![r].pc = "revoked"]
  /\ UNCHANGED <<password, tabs, stored, forced, interrupted>>

\* By id and whatever it is by now, also when another refresh has revoked it.
RevokeUsed(r) ==
  /\ At(r, "refresh", "checked")
  /\ EndTokens({requests[r].token}, "spent")
  /\ Proceeds(r, "revoked")
  /\ UNCHANGED <<password, tabs, stored, forced, interrupted>>

NotRevoked(r) == At(r, "refresh", "checked") /\ Refused(r)

-----------------------------------------------------------------------------
(* Logging out.                                                             *)

Logout(r, b) ==
  /\ requests[r] = Idle
  /\ tabs[b] # Nil
  /\ requests' = [requests EXCEPT ![r] =
       [Idle EXCEPT !.op = "logout", !.pc = "sent", !.tab = b, !.token = tabs[b]]]
  /\ UNCHANGED <<password, status, origin, tabs, stored, forced, interrupted>>

RevokeOnLogout(r) ==
  /\ At(r, "logout", "sent")
  /\ EndTokens({requests[r].token}, "spent")
  /\ Proceeds(r, "ok")
  /\ UNCHANGED <<password, tabs, stored, forced, interrupted>>

NotLoggedOut(r) == At(r, "logout", "sent") /\ Refused(r)

-----------------------------------------------------------------------------
(* Changing the password, by a client that is no dashboard.                 *)

Changes == {r \in Requests : At(r, "change", "checked")}

CheckCurrent(r) ==
  /\ requests[r] = Idle
  /\ password + Cardinality(Changes) < MaxChanges
  /\ requests' = [requests EXCEPT ![r] = [Idle EXCEPT !.op = "change", !.pc = "checked"]]
  /\ UNCHANGED <<password, status, origin, tabs, stored, forced, interrupted>>

UpdatePassword(r) ==
  /\ At(r, "change", "checked")
  /\ password' = password + 1
  /\ forced' = FALSE
  /\ Proceeds(r, "updated")
  /\ UNCHANGED <<status, origin, tabs, stored, interrupted>>

NotUpdated(r) == At(r, "change", "checked") /\ Refused(r)

Reading(q) == requests[q].pc \in {"checked", "revoked"}

RevokeAll(r) ==
  /\ At(r, "change", "updated")
  /\ EndTokens({t \in Tokens : status[t] = "valid"}, "ended")
  /\ requests' = [q \in Requests |->
       IF q = r THEN Idle
       ELSE IF Reading(q) THEN [requests[q] EXCEPT !.late = TRUE] ELSE requests[q]]
  /\ forced' = TRUE
  /\ UNCHANGED <<password, tabs, stored, interrupted>>

\* The error is dropped and the change answered as done.
RevokeAllFails(r) ==
  /\ "db" \in Faults
  /\ At(r, "change", "updated")
  /\ requests' = [requests EXCEPT ![r] = Idle]
  /\ UNCHANGED <<password, status, origin, tabs, stored, forced, interrupted>>

ChangeFails(r) ==
  /\ At(r, "change", "failed")
  /\ requests' = [requests EXCEPT ![r] = Idle]
  /\ UNCHANGED <<password, status, origin, tabs, stored, forced, interrupted>>

-----------------------------------------------------------------------------
(* The answer reaches the dashboard: new tokens are set; a failed refresh   *)
(* and any logout clear the session.  Nobody reads it after a reload.  An   *)
(* answer lost on its way is to the dashboard one that reports a failure.   *)

\* Variant: the tab's own copy is updated, localStorage is not.
AnsweredInMemory(r, ok) ==
  LET b == requests[r].tab
      q == requests[r]
      Clears == q.op = "logout" \/ (q.op = "refresh" /\ ~ok)
      value == IF Clears THEN Nil ELSE q.new
  IN  IF b = Nil \/ (q.op = "login" /\ ~ok)
      THEN UNCHANGED <<tabs, stored, interrupted>>
      ELSE /\ tabs' = [tabs EXCEPT ![b] = value]
           /\ stored' = IF Clears \/ stored = Nil THEN value ELSE stored
           /\ interrupted' = FALSE

Answered(r, ok) ==
  LET b == requests[r].tab
      q == requests[r]
      Clears == q.op = "logout" \/ (q.op = "refresh" /\ ~ok)
      value == IF Clears THEN Nil ELSE q.new
  IN  IF b = Nil \/ (q.op = "login" /\ ~ok)
      THEN UNCHANGED <<tabs, stored, interrupted>>
      ELSE /\ tabs' = [tabs EXCEPT ![b] = value]
           /\ stored' = value
           /\ interrupted' = FALSE

Answer(r) ==
  /\ requests[r].op \in {"login", "refresh", "logout"}
  /\ requests[r].pc \in {"ok", "failed"}
  /\ Answered(r, requests[r].pc = "ok")
  /\ requests' = [requests EXCEPT ![r] = Idle]
  /\ UNCHANGED <<password, status, origin, forced>>

\* A page is loaded; calls of the one it replaces go on without a reader.
\* boot ends the session when /me fails with anything but 401.
Boot(b) ==
  LET calls == {r \in Requests : requests[r].tab = b}
  IN  /\ \E s \in {stored} \cup (IF "db" \in Faults THEN {Nil} ELSE {}) :
           /\ tabs' = [tabs EXCEPT ![b] = s]
           /\ stored' = s
      /\ requests' = [r \in Requests |->
           IF r \in calls THEN [requests[r] EXCEPT !.tab = Nil] ELSE requests[r]]
      /\ interrupted' = \/ interrupted
                        \/ \E r \in calls : requests[r].token \in {stored} \ {Nil}
      /\ UNCHANGED <<password, status, origin, forced>>

-----------------------------------------------------------------------------
(* Thirty days pass.  That the janitor then deletes the row, and the row of *)
(* a token revoked a week ago, changes no answer and is left out.           *)

Expire(t) ==
  /\ status[t] = "valid"
  /\ EndTokens({t}, "ended")
  /\ UNCHANGED <<password, requests, tabs, stored, forced, interrupted>>

Step(r) ==
  \/ \E t \in Tokens : IssueTokens(r, t)
  \/ NotIssued(r)
  \/ SelectToken(r) \/ NotSelected(r)
  \/ RevokeUsed(r) \/ NotRevoked(r)
  \/ RevokeOnLogout(r) \/ NotLoggedOut(r)
  \/ UpdatePassword(r) \/ NotUpdated(r)
  \/ RevokeAll(r) \/ RevokeAllFails(r) \/ ChangeFails(r)
  \/ Answer(r)

Next ==
  \/ \E r \in Requests :
       \/ \E b \in Tabs : Login(r, b) \/ TryRefresh(r, b) \/ Logout(r, b)
       \/ CheckCurrent(r)
       \/ Step(r)
  \/ \E b \in Tabs : Boot(b)
  \/ \E t \in Tokens : Expire(t)

Spec == Init /\ [][Next]_vars

-----------------------------------------------------------------------------
Request ==
  [op : {"idle", "login", "refresh", "logout", "change"},
   pc : {"idle", "sent", "checked", "revoked", "updated", "ok", "failed"},
   tab : Tabs \cup {Nil}, token : Tokens \cup {Nil},
   cred : Nat, late : BOOLEAN, new : Tokens \cup {Nil}]

\* Tokens are in a known state, and what refers to one refers to a token.
TypeOK ==
  /\ password \in Nat
  /\ status \in [Tokens -> Statuses]
  /\ origin \in [Tokens -> [parent : Tokens \cup {Nil}, cred : Nat, late : BOOLEAN]]
  /\ requests \in [Requests -> Request]
  /\ tabs \in [Tabs -> Tokens \cup {Nil}]
  /\ stored \in Tokens \cup {Nil}
  /\ forced \in BOOLEAN
  /\ interrupted \in BOOLEAN

\* A refresh token is spent once another was issued in exchange: however
\* refreshes, failures and logouts interleave, it is never usable again
\* beside its successor (handleRefresh).
UsedTokenIsSpent ==
  \A t \in Tokens : origin[t].parent # Nil => status[origin[t].parent] # "valid"

\* "Force re-login everywhere else": once a change of password has revoked
\* the tokens, no usable one goes back to an older password, except those of
\* a login or refresh that was being served at that moment, and what they are
\* exchanged for (handleChangePassword).
ReloginForced ==
  forced => \A t \in Tokens :
    status[t] = "valid" => origin[t].cred = password \/ origin[t].late

\* What localStorage holds is no token that a refresh or a logout has spent,
\* unless the answer that replaces it is on its way or its page was reloaded
\* before it came: tabs that refresh at once never leave a dead session
\* behind (api, tryRefresh, setTokens, clearSession).
StoredTokenWorks ==
  stored # Nil /\ status[stored] = "spent" =>
    \/ interrupted
    \/ \E r \in Requests : requests[r].token = stored /\ requests[r].tab # Nil
=============================================================================
