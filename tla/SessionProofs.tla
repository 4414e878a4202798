---------------------------- MODULE SessionProofs -----------------------------
(***************************************************************************)
(* Proofs about Sessions: the types, that a used token stays spent, that a *)
(* change of password ends the older sessions, and that localStorage holds *)
(* no spent token, each for any number of tokens, tabs, requests and       *)
(* changes.                                                                *)
(***************************************************************************)
EXTENDS Sessions, TLAPS

\* The requests of each kind: what they carry at which point.
Shape ==
  \A r \in Requests :
    /\ requests[r].op \in {"refresh", "logout"} => requests[r].token \in Tokens
    /\ requests[r].op \in {"idle", "login", "change"} => requests[r].token = Nil
    /\ requests[r].op \in {"login", "refresh"} /\ requests[r].pc = "ok"
         => requests[r].new \in Tokens

TInv == TypeOK /\ Shape

LEMMA IdleType ==
  /\ Idle \in Request
  /\ Idle.op = "idle" /\ Idle.pc = "idle" /\ Idle.tab = Nil /\ Idle.token = Nil
  /\ Idle.cred = 0 /\ Idle.late = FALSE /\ Idle.new = Nil
  BY DEF Idle, Request

LEMMA InitTypes == Init => TInv
<1> SUFFICES ASSUME Init PROVE TInv
  OBVIOUS
<1>1. NoOrigin \in [parent : Tokens \cup {Nil}, cred : Nat, late : BOOLEAN]
  BY DEF NoOrigin
<1>2. TypeOK
  BY <1>1, IdleType DEF Init, TypeOK, Statuses
<1>3. Shape
  BY IdleType DEF Init, Shape
<1>4. QED
  BY <1>2, <1>3 DEF TInv

\* EndTokens only makes usable tokens unusable.
LEMMA EndTokensTypes ==
  ASSUME TypeOK, NEW T, NEW why \in {"spent", "ended"}, EndTokens(T, why)
  PROVE  /\ status' \in [Tokens -> Statuses]
         /\ origin' \in [Tokens -> [parent : Tokens \cup {Nil}, cred : Nat, late : BOOLEAN]]
  BY DEF TypeOK, EndTokens, Statuses, NoOrigin

\* A request that takes the place of another is of its type and shape.
LEMMA ReplaceRequest ==
  ASSUME TInv, NEW r \in Requests, NEW q \in Request,
         q.op \in {"refresh", "logout"} => q.token \in Tokens,
         q.op \in {"idle", "login", "change"} => q.token = Nil,
         q.op \in {"login", "refresh"} /\ q.pc = "ok" => q.new \in Tokens,
         requests' = [requests EXCEPT ![r] = q]
  PROVE  requests' \in [Requests -> Request] /\ Shape'
  BY DEF TInv, TypeOK, Shape

LEMMA FailedTypes ==
  ASSUME TInv, NEW r \in Requests
  PROVE  /\ Failed(r) \in Request
         /\ Failed(r).op = requests[r].op /\ Failed(r).token = requests[r].token
         /\ Failed(r).tab = requests[r].tab /\ Failed(r).new = requests[r].new
         /\ Failed(r).pc = "failed"
  BY DEF TInv, TypeOK, Request, Failed

LEMMA RefusedTypes ==
  ASSUME TInv, NEW r \in Requests, Refused(r)
  PROVE  TInv'
<1>1. requests' \in [Requests -> Request] /\ Shape'
  BY ReplaceRequest, FailedTypes DEF Refused, TInv, Shape
<1>2. QED
  BY <1>1 DEF Refused, TInv, TypeOK

LEMMA ProceedsTypes ==
  ASSUME TInv, NEW r \in Requests, NEW pc \in {"revoked", "updated", "ok"}, Proceeds(r, pc),
         requests[r].op \in {"login", "refresh"} => pc # "ok"
  PROVE  requests' \in [Requests -> Request] /\ Shape'
<1>1. CASE requests' = [requests EXCEPT ![r].pc = pc]
  <2> DEFINE q == [requests[r] EXCEPT !.pc = pc]
  <2>1. requests' = [requests EXCEPT ![r] = q]
    BY <1>1
  <2>2. /\ q \in Request /\ q.pc = pc
        /\ q.op = requests[r].op /\ q.token = requests[r].token
    BY DEF TInv, TypeOK, Request
  <2> HIDE DEF q
  <2>3. QED
    BY <2>1, <2>2, ReplaceRequest DEF TInv, Shape
<1>2. CASE requests' = [requests EXCEPT ![r] = Failed(r)]
  BY <1>2, ReplaceRequest, FailedTypes DEF TInv, Shape
<1>3. QED
  BY <1>1, <1>2 DEF Proceeds
-----------------------------------------------------------------------------
(* Every action keeps the types.                                            *)

LEMMA ClientTypes ==
  ASSUME TInv, NEW r \in Requests, NEW b,
         \/ b \in Tabs /\ (Login(r, b) \/ TryRefresh(r, b) \/ Logout(r, b))
         \/ CheckCurrent(r)
  PROVE  TInv'
<1> DEFINE L == [Idle EXCEPT !.op = "login", !.pc = "checked", !.tab = b, !.cred = password]
           F == [Idle EXCEPT !.op = "refresh", !.pc = "sent", !.tab = b, !.token = tabs[b]]
           O == [Idle EXCEPT !.op = "logout", !.pc = "sent", !.tab = b, !.token = tabs[b]]
           C == [Idle EXCEPT !.op = "change", !.pc = "checked"]
<1>1. b \in Tabs => L \in Request /\ L.op = "login" /\ L.token = Nil /\ L.pc = "checked"
  BY DEF L, Idle, Request, TInv, TypeOK
<1>2. b \in Tabs /\ tabs[b] # Nil =>
        /\ F \in Request /\ F.op = "refresh" /\ F.token \in Tokens /\ F.pc = "sent"
        /\ O \in Request /\ O.op = "logout" /\ O.token \in Tokens
  BY DEF F, O, Idle, Request, TInv, TypeOK
<1>3. C \in Request /\ C.op = "change" /\ C.token = Nil
  BY DEF C, Idle, Request
<1>4. \/ requests' = [requests EXCEPT ![r] = L] /\ b \in Tabs
      \/ requests' = [requests EXCEPT ![r] = F] /\ b \in Tabs /\ tabs[b] # Nil
      \/ requests' = [requests EXCEPT ![r] = O] /\ b \in Tabs /\ tabs[b] # Nil
      \/ requests' = [requests EXCEPT ![r] = C]
  BY DEF Login, TryRefresh, Logout, CheckCurrent
<1> HIDE DEF L, F, O, C
<1>5. requests' \in [Requests -> Request] /\ Shape'
  BY <1>1, <1>2, <1>3, <1>4, ReplaceRequest
<1>6. QED
  BY <1>5 DEF Login, TryRefresh, Logout, CheckCurrent, TInv, TypeOK

LEMMA IssueTypes ==
  ASSUME TInv, NEW r \in Requests, NEW t \in Tokens, IssueTokens(r, t)
  PROVE  TInv'
<1> DEFINE q == [requests[r] EXCEPT !.pc = "ok", !.cred = 0, !.late = FALSE, !.new = t]
<1>1. /\ q \in Request /\ q.op = requests[r].op /\ q.token = requests[r].token
      /\ q.pc = "ok" /\ q.new = t
  BY DEF TInv, TypeOK, Request
<1>2. requests' = [requests EXCEPT ![r] = q] \/ requests' = [requests EXCEPT ![r] = Failed(r)]
  BY DEF IssueTokens, TInv, TypeOK
<1> HIDE DEF q
<1>3. requests' \in [Requests -> Request] /\ Shape'
  BY <1>1, <1>2, ReplaceRequest, FailedTypes DEF TInv, Shape
<1>4. /\ status' \in [Tokens -> Statuses]
      /\ origin' \in [Tokens -> [parent : Tokens \cup {Nil}, cred : Nat, late : BOOLEAN]]
  BY DEF IssueTokens, TInv, TypeOK, Statuses, Request
<1>5. QED
  BY <1>3, <1>4 DEF IssueTokens, TInv, TypeOK

LEMMA SelectTypes ==
  ASSUME TInv, NEW r \in Requests, SelectToken(r)
  PROVE  TInv'
<1> DEFINE t == requests[r].token
           q == [requests[r] EXCEPT !.pc = "checked", !.cred = origin[t].cred,
                                    !.late = origin[t].late]
<1>1. t \in Tokens
  BY DEF SelectToken, At, TInv, Shape
<1>2. /\ q \in Request /\ q.op = requests[r].op /\ q.token = requests[r].token
      /\ q.pc = "checked"
  BY <1>1 DEF TInv, TypeOK, Request
<1>3. requests' = [requests EXCEPT ![r] = q] \/ requests' = [requests EXCEPT ![r] = Failed(r)]
  BY DEF SelectToken, TInv, TypeOK
<1> HIDE DEF q, t
<1>4. requests' \in [Requests -> Request] /\ Shape'
  BY <1>2, <1>3, ReplaceRequest, FailedTypes DEF TInv, Shape
<1>5. QED
  BY <1>4 DEF SelectToken, TInv, TypeOK

LEMMA RevokeTypes ==
  ASSUME TInv, NEW r \in Requests, RevokeUsed(r) \/ RevokeOnLogout(r)
  PROVE  TInv'
<1>1. /\ status' \in [Tokens -> Statuses]
      /\ origin' \in [Tokens -> [parent : Tokens \cup {Nil}, cred : Nat, late : BOOLEAN]]
  BY EndTokensTypes DEF RevokeUsed, RevokeOnLogout, TInv
<1>2. requests' \in [Requests -> Request] /\ Shape'
  <2>1. CASE RevokeUsed(r)
    BY <2>1, ProceedsTypes DEF RevokeUsed, At
  <2>2. CASE RevokeOnLogout(r)
    BY <2>2, ProceedsTypes DEF RevokeOnLogout, At
  <2>3. QED
    BY <2>1, <2>2
<1>3. QED
  BY <1>1, <1>2 DEF RevokeUsed, RevokeOnLogout, TInv, TypeOK

LEMMA UpdateTypes ==
  ASSUME TInv, NEW r \in Requests, UpdatePassword(r)
  PROVE  TInv'
<1>1. requests' \in [Requests -> Request] /\ Shape'
  BY ProceedsTypes DEF UpdatePassword, At
<1>2. password' \in Nat
  <2>1. password \in Nat /\ password' = password + 1
    BY DEF UpdatePassword, TInv, TypeOK
  <2>2. QED
    BY <2>1
<1>3. forced' = FALSE /\ UNCHANGED <<status, origin, tabs, stored, interrupted>>
  BY DEF UpdatePassword
<1>4. TypeOK'
  BY <1>1, <1>2, <1>3 DEF TInv, TypeOK, Statuses
<1>5. QED
  BY <1>1, <1>4 DEF TInv

LEMMA RevokeAllTypes ==
  ASSUME TInv, NEW r \in Requests, RevokeAll(r)
  PROVE  TInv'
<1>1. /\ status' \in [Tokens -> Statuses]
      /\ origin' \in [Tokens -> [parent : Tokens \cup {Nil}, cred : Nat, late : BOOLEAN]]
  BY EndTokensTypes DEF RevokeAll, TInv
<1>2. ASSUME NEW q \in Requests
      PROVE  /\ [requests[q] EXCEPT !.late = TRUE] \in Request
             /\ [requests[q] EXCEPT !.late = TRUE].op = requests[q].op
             /\ [requests[q] EXCEPT !.late = TRUE].pc = requests[q].pc
             /\ [requests[q] EXCEPT !.late = TRUE].token = requests[q].token
             /\ [requests[q] EXCEPT !.late = TRUE].new = requests[q].new
  BY DEF TInv, TypeOK, Request
<1>3. ASSUME NEW q \in Requests
      PROVE  /\ requests'[q] \in Request
             /\ \/ requests'[q] = Idle
                \/ /\ requests'[q].op = requests[q].op /\ requests'[q].pc = requests[q].pc
                   /\ requests'[q].token = requests[q].token
                   /\ requests'[q].new = requests[q].new
  BY <1>2, IdleType DEF RevokeAll, TInv, TypeOK
<1>4. requests' \in [Requests -> Request]
  BY <1>3 DEF RevokeAll
<1>5. Shape'
  BY <1>3, IdleType DEF Shape, TInv
<1>6. QED
  BY <1>1, <1>4, <1>5 DEF RevokeAll, TInv, TypeOK

LEMMA AnswerTypes ==
  ASSUME TInv, NEW r \in Requests, Answer(r) \/ RevokeAllFails(r) \/ ChangeFails(r)
  PROVE  TInv'
<1>1. requests' = [requests EXCEPT ![r] = Idle]
  BY DEF Answer, RevokeAllFails, ChangeFails
<1>2. requests' \in [Requests -> Request] /\ Shape'
  BY <1>1, IdleType, ReplaceRequest
<1>3. CASE Answer(r)
  <2>1. /\ tabs' \in [Tabs -> Tokens \cup {Nil}] /\ stored' \in Tokens \cup {Nil}
        /\ interrupted' \in BOOLEAN
    BY <1>3 DEF Answer, Answered, TInv, TypeOK, Request
  <2>2. QED
    BY <1>2, <1>3, <2>1 DEF Answer, TInv, TypeOK
<1>4. QED
  BY <1>2, <1>3 DEF RevokeAllFails, ChangeFails, TInv, TypeOK

LEMMA BootTypes ==
  ASSUME TInv, NEW b \in Tabs, Boot(b)
  PROVE  TInv'
<1>1. ASSUME NEW q \in Requests
      PROVE  /\ [requests[q] EXCEPT !.tab = Nil] \in Request
             /\ [requests[q] EXCEPT !.tab = Nil].op = requests[q].op
             /\ [requests[q] EXCEPT !.tab = Nil].pc = requests[q].pc
             /\ [requests[q] EXCEPT !.tab = Nil].token = requests[q].token
             /\ [requests[q] EXCEPT !.tab = Nil].new = requests[q].new
  BY DEF TInv, TypeOK, Request
<1>2. ASSUME NEW q \in Requests
      PROVE  /\ requests'[q] \in Request
             /\ requests'[q].op = requests[q].op /\ requests'[q].pc = requests[q].pc
             /\ requests'[q].token = requests[q].token /\ requests'[q].new = requests[q].new
  BY <1>1 DEF Boot, TInv, TypeOK
<1>3. requests' \in [Requests -> Request]
  BY <1>2 DEF Boot
<1>4. Shape'
  BY <1>2 DEF Shape, TInv
<1>5. /\ tabs' \in [Tabs -> Tokens \cup {Nil}] /\ stored' \in Tokens \cup {Nil}
      /\ interrupted' \in BOOLEAN
  BY DEF Boot, TInv, TypeOK
<1>6. QED
  BY <1>3, <1>4, <1>5 DEF Boot, TInv, TypeOK

LEMMA ExpireTypes ==
  ASSUME TInv, NEW t \in Tokens, Expire(t)
  PROVE  TInv'
<1>1. /\ status' \in [Tokens -> Statuses]
      /\ origin' \in [Tokens -> [parent : Tokens \cup {Nil}, cred : Nat, late : BOOLEAN]]
  BY EndTokensTypes DEF Expire, TInv
<1>2. QED
  BY <1>1 DEF Expire, TInv, TypeOK, Shape

LEMMA StepTypes == TInv /\ [Next]_vars => TInv'
<1> SUFFICES ASSUME TInv, [Next]_vars PROVE TInv'
  OBVIOUS
<1>1. CASE \E r \in Requests : \/ \E b \in Tabs : Login(r, b) \/ TryRefresh(r, b) \/ Logout(r, b)
                              \/ CheckCurrent(r)
  BY <1>1, ClientTypes
<1>2. CASE \E r \in Requests : Step(r)
  <2> PICK r \in Requests : Step(r)
    BY <1>2
  <2>1. CASE NotIssued(r) \/ NotSelected(r) \/ NotRevoked(r) \/ NotLoggedOut(r) \/ NotUpdated(r)
    BY <2>1, RefusedTypes DEF NotIssued, NotSelected, NotRevoked, NotLoggedOut, NotUpdated
  <2>2. QED
    BY <2>1, IssueTypes, SelectTypes, RevokeTypes, UpdateTypes, RevokeAllTypes, AnswerTypes DEF Step
<1>3. CASE \E b \in Tabs : Boot(b)
  BY <1>3, BootTypes
<1>4. CASE \E t \in Tokens : Expire(t)
  BY <1>4, ExpireTypes
<1>5. CASE UNCHANGED vars
  BY <1>5 DEF vars, TInv, TypeOK, Shape
<1>6. QED
  BY <1>1, <1>2, <1>3, <1>4, <1>5 DEF Next
-----------------------------------------------------------------------------
(* What a step does to a token and to a request.                            *)

Dead(t) == status[t] \in {"spent", "ended"}

LEMMA StatusSteps ==
  ASSUME TInv, [Next]_vars
  PROVE  \/ UNCHANGED <<status, origin>>
         \/ \E T \in SUBSET Tokens, why \in {"spent", "ended"} : EndTokens(T, why)
         \/ \E r \in Requests, t \in Tokens : IssueTokens(r, t)
<1>1. CASE \E r \in Requests : RevokeUsed(r) \/ RevokeOnLogout(r)
  <2> PICK r \in Requests : RevokeUsed(r) \/ RevokeOnLogout(r)
    BY <1>1
  <2>1. requests[r].token \in Tokens /\ EndTokens({requests[r].token}, "spent")
    BY DEF RevokeUsed, RevokeOnLogout, At, TInv, Shape
  <2>2. QED
    BY <2>1
<1>2. CASE \E r \in Requests : RevokeAll(r)
  BY <1>2 DEF RevokeAll
<1>3. CASE \E t \in Tokens : Expire(t)
  BY <1>3 DEF Expire
<1>4. CASE \E b \in Tabs : Boot(b)
  BY <1>4 DEF Boot
<1>5. CASE \E r \in Requests : \/ \E b \in Tabs : Login(r, b) \/ TryRefresh(r, b) \/ Logout(r, b)
                              \/ CheckCurrent(r)
  BY <1>5 DEF Login, TryRefresh, Logout, CheckCurrent
<1>6. CASE \E r \in Requests :
              \/ NotIssued(r) \/ NotSelected(r) \/ NotRevoked(r) \/ NotLoggedOut(r) \/ NotUpdated(r)
              \/ SelectToken(r) \/ UpdatePassword(r) \/ RevokeAllFails(r) \/ ChangeFails(r)
              \/ Answer(r)
  BY <1>6 DEF NotIssued, NotSelected, NotRevoked, NotLoggedOut, NotUpdated, Refused, SelectToken,
              UpdatePassword, RevokeAllFails, ChangeFails, Answer
<1>7. CASE UNCHANGED vars
  BY <1>7 DEF vars
<1>8. QED
  BY <1>1, <1>2, <1>3, <1>4, <1>5, <1>6, <1>7 DEF Next, Step

LEMMA TokenSteps ==
  ASSUME TInv, [Next]_vars, NEW t \in Tokens
  PROVE  /\ status[t] # "none" => status'[t] # "none"
         /\ Dead(t) => Dead(t)'
         /\ origin'[t].parent = origin[t].parent \/ \E r \in Requests : IssueTokens(r, t)
<1>1. CASE UNCHANGED <<status, origin>>
  BY <1>1 DEF Dead
<1>2. CASE \E T \in SUBSET Tokens, why \in {"spent", "ended"} : EndTokens(T, why)
  <2> PICK T \in SUBSET Tokens, why \in {"spent", "ended"} : EndTokens(T, why)
    BY <1>2
  <2>1. [NoOrigin EXCEPT !.parent = origin[t].parent].parent = origin[t].parent
    BY DEF NoOrigin
  <2>2. origin'[t].parent = origin[t].parent
    BY <2>1 DEF EndTokens
  <2>3. status'[t] = IF t \in T /\ status[t] = "valid" THEN why ELSE status[t]
    BY DEF EndTokens
  <2>4. QED
    BY <2>2, <2>3 DEF Dead
<1>3. CASE \E r \in Requests, u \in Tokens : IssueTokens(r, u)
  <2> PICK r \in Requests, u \in Tokens : IssueTokens(r, u)
    BY <1>3
  <2>1. /\ status[u] = "none" /\ status' = [status EXCEPT ![u] = "valid"]
        /\ u # t => origin'[t] = origin[t]
    BY DEF IssueTokens, TInv, TypeOK
  <2>2. QED
    BY <2>1 DEF Dead, TInv, TypeOK
<1>4. QED
  BY <1>1, <1>2, <1>3, StatusSteps

\* A request goes on in its place ...
Same(q) ==
  /\ requests'[q].op = requests[q].op /\ requests'[q].token = requests[q].token

\* ... by one of these ways.
Moves(q) ==
  \/ /\ Same(q)
     /\ requests'[q].pc = requests[q].pc /\ requests'[q].new = requests[q].new
     /\ requests'[q].cred = requests[q].cred
     /\ requests'[q].late = requests[q].late \/ requests'[q].late = TRUE
  \/ Same(q) /\ requests'[q].pc = "failed"
  \/ requests'[q] = Idle
  \/ \E b \in Tabs : Login(q, b) \/ TryRefresh(q, b) \/ Logout(q, b)
  \/ CheckCurrent(q)
  \/ /\ Same(q) /\ requests'[q].pc = "ok"
     /\ \E t \in Tokens : IssueTokens(q, t) /\ requests'[q].new = t
  \/ /\ Same(q) /\ SelectToken(q) /\ requests'[q].pc = "checked"
     /\ status[requests[q].token] = "valid"
     /\ requests'[q].cred = origin[requests[q].token].cred
     /\ requests'[q].late = origin[requests[q].token].late
  \/ /\ Same(q) /\ RevokeUsed(q) /\ requests'[q].pc = "revoked"
     /\ requests'[q].cred = requests[q].cred /\ requests'[q].late = requests[q].late
  \/ Same(q) /\ RevokeOnLogout(q) /\ requests'[q].pc = "ok"
  \/ Same(q) /\ UpdatePassword(q) /\ requests'[q].pc = "updated"

LEMMA FailedMoves ==
  ASSUME TInv, NEW q \in Requests, requests' = [requests EXCEPT ![q] = Failed(q)]
  PROVE  Same(q) /\ requests'[q].pc = "failed"
<1>1. requests'[q] = Failed(q)
  BY DEF TInv, TypeOK
<1>2. QED
  BY <1>1, FailedTypes DEF Same

LEMMA StillMoves ==
  ASSUME NEW q \in Requests, requests'[q] = requests[q]
  PROVE  Moves(q)
  BY DEF Moves, Same

LEMMA IssueMoves ==
  ASSUME TInv, NEW q \in Requests, NEW t \in Tokens, IssueTokens(q, t)
  PROVE  Moves(q)
<1> DEFINE n == [requests[q] EXCEPT !.pc = "ok", !.cred = 0, !.late = FALSE, !.new = t]
<1>1. n.pc = "ok" /\ n.op = requests[q].op /\ n.token = requests[q].token /\ n.new = t
  BY DEF TInv, TypeOK, Request
<1>2. requests'[q] = n \/ requests' = [requests EXCEPT ![q] = Failed(q)]
  BY DEF IssueTokens, TInv, TypeOK
<1> HIDE DEF n
<1>3. QED
  BY <1>1, <1>2, FailedMoves DEF Moves, Same

LEMMA SelectMoves ==
  ASSUME TInv, NEW q \in Requests, SelectToken(q)
  PROVE  Moves(q)
<1> DEFINE t == requests[q].token
           n == [requests[q] EXCEPT !.pc = "checked", !.cred = origin[t].cred,
                                    !.late = origin[t].late]
<1>1. /\ n.pc = "checked" /\ n.op = requests[q].op /\ n.token = t
      /\ n.cred = origin[t].cred /\ n.late = origin[t].late
  BY DEF TInv, TypeOK, Request
<1>2. \/ status[t] = "valid" /\ requests'[q] = n
      \/ requests' = [requests EXCEPT ![q] = Failed(q)]
  BY DEF SelectToken, TInv, TypeOK
<1> HIDE DEF n
<1>3. QED
  BY <1>1, <1>2, FailedMoves DEF Moves, Same

LEMMA ProceedsMoves ==
  ASSUME TInv, NEW q \in Requests, NEW pc, Proceeds(q, pc)
  PROVE  /\ Same(q)
         /\ \/ requests'[q].pc = "failed"
            \/ /\ requests'[q].pc = pc /\ requests'[q].cred = requests[q].cred
               /\ requests'[q].late = requests[q].late
<1>1. CASE requests' = [requests EXCEPT ![q].pc = pc]
  <2> DEFINE n == [requests[q] EXCEPT !.pc = pc]
  <2>1. requests'[q] = n
    BY <1>1 DEF TInv, TypeOK
  <2>2. /\ n.pc = pc /\ n.op = requests[q].op /\ n.token = requests[q].token
        /\ n.cred = requests[q].cred /\ n.late = requests[q].late
    BY DEF TInv, TypeOK, Request
  <2> HIDE DEF n
  <2>3. QED
    BY <2>1, <2>2 DEF Same
<1>2. QED
  BY <1>1, FailedMoves DEF Proceeds

\* Only the request that acts moves, except when all tokens are revoked or a
\* page is loaded.
LEMMA OthersStay ==
  ASSUME TInv, NEW r \in Requests, NEW q \in Requests, q # r,
         \/ \E t \in Tokens : IssueTokens(r, t)
         \/ NotIssued(r) \/ SelectToken(r) \/ NotSelected(r) \/ RevokeUsed(r) \/ NotRevoked(r)
         \/ RevokeOnLogout(r) \/ NotLoggedOut(r) \/ UpdatePassword(r) \/ NotUpdated(r)
         \/ RevokeAllFails(r) \/ ChangeFails(r) \/ Answer(r) \/ CheckCurrent(r)
         \/ \E b \in Tabs : Login(r, b) \/ TryRefresh(r, b) \/ Logout(r, b)
  PROVE  requests'[q] = requests[q]
  BY DEF TInv, TypeOK, IssueTokens, NotIssued, SelectToken, NotSelected, RevokeUsed, NotRevoked,
         RevokeOnLogout, NotLoggedOut, UpdatePassword, NotUpdated, RevokeAllFails, ChangeFails,
         Answer, CheckCurrent, Login, TryRefresh, Logout, Refused, Proceeds

LEMMA RevokeAllMoves ==
  ASSUME TInv, NEW r \in Requests, RevokeAll(r), NEW q \in Requests
  PROVE  /\ Moves(q)
         /\ \/ requests'[q] = Idle
            \/ requests'[q].pc = requests[q].pc /\ (Reading(q) => requests'[q].late)
<1> DEFINE n == [requests[q] EXCEPT !.late = TRUE]
<1>1. /\ n.pc = requests[q].pc /\ n.op = requests[q].op /\ n.token = requests[q].token
      /\ n.cred = requests[q].cred /\ n.late = TRUE /\ n.new = requests[q].new
  BY DEF TInv, TypeOK, Request
<1>2. \/ requests'[q] = Idle \/ requests'[q] = n
      \/ requests'[q] = requests[q] /\ ~Reading(q)
  BY DEF RevokeAll
<1> HIDE DEF n
<1>3. QED
  BY <1>1, <1>2 DEF Moves, Same

LEMMA BootMoves ==
  ASSUME TInv, NEW b \in Tabs, Boot(b), NEW q \in Requests
  PROVE  Moves(q)
<1> DEFINE n == [requests[q] EXCEPT !.tab = Nil]
<1>1. /\ n.pc = requests[q].pc /\ n.op = requests[q].op /\ n.token = requests[q].token
      /\ n.cred = requests[q].cred /\ n.late = requests[q].late /\ n.new = requests[q].new
  BY DEF TInv, TypeOK, Request
<1>2. requests'[q] = n \/ requests'[q] = requests[q]
  BY DEF Boot
<1> HIDE DEF n
<1>3. QED
  BY <1>1, <1>2 DEF Moves, Same

LEMMA RequestSteps ==
  ASSUME TInv, [Next]_vars, NEW q \in Requests
  PROVE  Moves(q)
<1>1. CASE UNCHANGED vars \/ \E t \in Tokens : Expire(t)
  BY <1>1, StillMoves DEF vars, Expire
<1>2. CASE \E b \in Tabs : Boot(b)
  BY <1>2, BootMoves
<1>3. CASE \E r \in Requests : RevokeAll(r)
  BY <1>3, RevokeAllMoves
<1>4. CASE \E r \in Requests : r # q /\ ~RevokeAll(r) /\
             (\/ \E b \in Tabs : Login(r, b) \/ TryRefresh(r, b) \/ Logout(r, b)
              \/ CheckCurrent(r) \/ Step(r))
  BY <1>4, OthersStay, StillMoves DEF Step
<1>5. CASE Step(q) /\ ~RevokeAll(q)
  <2>1. CASE NotIssued(q) \/ NotSelected(q) \/ NotRevoked(q) \/ NotLoggedOut(q) \/ NotUpdated(q)
    BY <2>1, FailedMoves
       DEF NotIssued, NotSelected, NotRevoked, NotLoggedOut, NotUpdated, Refused, Moves
  <2>2. CASE RevokeAllFails(q) \/ ChangeFails(q) \/ Answer(q)
    <3>1. requests'[q] = Idle
      BY <2>2 DEF RevokeAllFails, ChangeFails, Answer, TInv, TypeOK
    <3>2. QED
      BY <3>1 DEF Moves
  <2>3. CASE RevokeUsed(q)
    <3>1. Proceeds(q, "revoked")
      BY <2>3 DEF RevokeUsed
    <3>2. QED
      BY <2>3, <3>1, ProceedsMoves DEF Moves
  <2>4. CASE RevokeOnLogout(q)
    <3>1. Proceeds(q, "ok")
      BY <2>4 DEF RevokeOnLogout
    <3>2. QED
      BY <2>4, <3>1, ProceedsMoves DEF Moves
  <2>5. CASE UpdatePassword(q)
    <3>1. Proceeds(q, "updated")
      BY <2>5 DEF UpdatePassword
    <3>2. QED
      BY <2>5, <3>1, ProceedsMoves DEF Moves
  <2>6. QED
    BY <1>5, <2>1, <2>2, <2>3, <2>4, <2>5, IssueMoves, SelectMoves DEF Step
<1>6. CASE CheckCurrent(q) \/ \E b \in Tabs : Login(q, b) \/ TryRefresh(q, b) \/ Logout(q, b)
  BY <1>6 DEF Moves
<1>7. QED
  BY <1>1, <1>2, <1>3, <1>4, <1>5, <1>6 DEF Next

-----------------------------------------------------------------------------
(* A used token is spent.                                                   *)

\* A parent is dead, and so is the token of a refresh that has revoked it.
Chain ==
  /\ \A t \in Tokens : origin[t].parent # Nil => Dead(origin[t].parent)
  /\ \A r \in Requests : At(r, "refresh", "checked") => status[requests[r].token] # "none"
  /\ \A r \in Requests : At(r, "refresh", "revoked") => Dead(requests[r].token)

LEMMA NewRequests ==
  ASSUME TInv, NEW q \in Requests,
         \/ \E b \in Tabs : Login(q, b) \/ TryRefresh(q, b) \/ Logout(q, b)
         \/ CheckCurrent(q)
  PROVE  /\ \/ requests'[q].op = "login" /\ requests'[q].pc = "checked"
               /\ requests'[q].cred = password /\ requests'[q].token = Nil
            \/ \E b \in Tabs : /\ requests'[q].op \in {"refresh", "logout"}
                               /\ requests'[q].pc = "sent" /\ requests'[q].tab = b
                               /\ tabs[b] # Nil /\ requests'[q].token = tabs[b]
            \/ requests'[q].op = "change" /\ requests'[q].pc = "checked" /\ requests'[q].token = Nil
         /\ UNCHANGED <<password, status, origin, tabs, stored, forced, interrupted>>
<1>1. ASSUME NEW b \in Tabs, Login(q, b)
      PROVE  /\ requests'[q].op = "login" /\ requests'[q].pc = "checked"
             /\ requests'[q].cred = password /\ requests'[q].token = Nil
             /\ UNCHANGED <<password, status, origin, tabs, stored, forced, interrupted>>
  <2> DEFINE n == [Idle EXCEPT !.op = "login", !.pc = "checked", !.tab = b, !.cred = password]
  <2>1. requests'[q] = n
    BY <1>1 DEF Login, TInv, TypeOK
  <2>2. n.op = "login" /\ n.pc = "checked" /\ n.cred = password /\ n.token = Nil
    BY DEF Idle
  <2> HIDE DEF n
  <2>3. QED
    BY <1>1, <2>1, <2>2 DEF Login
<1>2. ASSUME NEW b \in Tabs, TryRefresh(q, b) \/ Logout(q, b)
      PROVE  /\ requests'[q].op \in {"refresh", "logout"} /\ requests'[q].pc = "sent"
             /\ requests'[q].tab = b /\ tabs[b] # Nil /\ requests'[q].token = tabs[b]
             /\ UNCHANGED <<password, status, origin, tabs, stored, forced, interrupted>>
  <2>1. \E op \in {"refresh", "logout"} :
          requests'[q] = [Idle EXCEPT !.op = op, !.pc = "sent", !.tab = b, !.token = tabs[b]]
    BY <1>2 DEF TryRefresh, Logout, TInv, TypeOK
  <2>2. QED
    BY <1>2, <2>1 DEF TryRefresh, Logout, Idle
<1>3. CASE CheckCurrent(q)
  <2> DEFINE n == [Idle EXCEPT !.op = "change", !.pc = "checked"]
  <2>1. requests'[q] = n
    BY <1>3 DEF CheckCurrent, TInv, TypeOK
  <2>2. n.op = "change" /\ n.pc = "checked" /\ n.token = Nil
    BY DEF Idle
  <2> HIDE DEF n
  <2>3. QED
    BY <1>3, <2>1, <2>2 DEF CheckCurrent
<1>4. QED
  BY <1>1, <1>2, <1>3

LEMMA ChainStep == TInv /\ Chain /\ [Next]_vars => Chain'
<1> SUFFICES ASSUME TInv, Chain, [Next]_vars PROVE Chain'
  OBVIOUS
<1>1. ASSUME NEW t \in Tokens, origin'[t].parent # Nil
      PROVE  Dead(origin[t].parent)' /\ origin'[t].parent \in Tokens
  <2>1. CASE origin'[t].parent = origin[t].parent
    <3>1. origin[t].parent \in Tokens /\ Dead(origin[t].parent)
      BY <1>1, <2>1 DEF Chain, TInv, TypeOK
    <3>2. QED
      BY <2>1, <3>1, TokenSteps DEF Dead
  <2>2. CASE \E r \in Requests : IssueTokens(r, t)
    <3> PICK r \in Requests : IssueTokens(r, t)
      BY <2>2
    <3>1. origin'[t].parent = requests[r].token
      BY DEF IssueTokens, TInv, TypeOK
    <3>2. At(r, "refresh", "revoked")
      BY <1>1, <3>1 DEF IssueTokens, MayIssue, At, TInv, Shape
    <3>3. requests[r].token \in Tokens /\ Dead(requests[r].token)
      BY <3>2 DEF Chain, At, TInv, Shape
    <3>4. QED
      BY <3>1, <3>3, TokenSteps DEF Dead
  <2>3. QED
    BY <2>1, <2>2, TokenSteps
<1>2. ASSUME NEW r \in Requests, At(r, "refresh", "checked")'
      PROVE  status'[requests'[r].token] # "none"
  <2>1. \/ Same(r) /\ requests'[r].pc = requests[r].pc
        \/ Same(r) /\ SelectToken(r) /\ status[requests[r].token] = "valid"
    BY <1>2, RequestSteps, NewRequests, IdleType DEF Moves, At
  <2>2. /\ requests[r].op = "refresh" /\ requests'[r].token = requests[r].token
        /\ requests[r].token \in Tokens
    BY <1>2, <2>1 DEF Same, At, TInv, Shape
  <2>3. status[requests[r].token] # "none"
    BY <1>2, <2>1, <2>2 DEF Chain, At
  <2>4. QED
    BY <2>2, <2>3, TokenSteps
<1>3. ASSUME NEW r \in Requests, At(r, "refresh", "revoked")'
      PROVE  Dead(requests[r].token)' /\ requests'[r].token = requests[r].token
  <2>1. \/ Same(r) /\ requests'[r].pc = requests[r].pc
        \/ Same(r) /\ RevokeUsed(r)
    BY <1>3, RequestSteps, NewRequests, IdleType DEF Moves, At
  <2>2. /\ requests[r].op = "refresh" /\ requests'[r].token = requests[r].token
        /\ requests[r].token \in Tokens
    BY <1>3, <2>1 DEF Same, At, TInv, Shape
  <2>3. CASE requests'[r].pc = requests[r].pc
    <3>1. Dead(requests[r].token)
      BY <1>3, <2>2, <2>3 DEF Chain, At
    <3>2. Dead(requests[r].token)'
      BY <2>2, <3>1, TokenSteps DEF Dead
    <3>3. QED
      BY <2>2, <3>2
  <2>4. CASE RevokeUsed(r)
    <3>1. status[requests[r].token] # "none"
      BY <2>4 DEF RevokeUsed, Chain
    <3>2. status'[requests[r].token] =
            IF status[requests[r].token] = "valid" THEN "spent" ELSE status[requests[r].token]
      BY <2>2, <2>4 DEF RevokeUsed, EndTokens
    <3>3. status[requests[r].token] \in Statuses
      BY <2>2 DEF TInv, TypeOK
    <3>4. QED
      BY <2>2, <3>1, <3>2, <3>3 DEF Dead, Statuses
  <2>5. QED
    BY <2>1, <2>3, <2>4
<1>4. QED
  BY <1>1, <1>2, <1>3 DEF Chain, Dead

\* A used token stays spent, in every interleaving of refreshes, logouts,
\* changes of password, failed statements and lost replies (handleRefresh).
THEOREM UsedTokensStaySpent == Spec => []UsedTokenIsSpent
<1>1. Init => Chain
  BY DEF Init, Chain, NoOrigin, Idle, At
<1>2. Chain => UsedTokenIsSpent
  BY DEF Chain, UsedTokenIsSpent, Dead
<1>3. QED
  BY <1>1, <1>2, InitTypes, StepTypes, ChainStep, PTL DEF Spec

-----------------------------------------------------------------------------
(* A change of password ends the older sessions.                            *)

\* The credentials of usable tokens, and of the requests about to issue one.
Current ==
  forced =>
    /\ \A t \in Tokens : status[t] = "valid" => origin[t].cred = password \/ origin[t].late
    /\ \A r \in Requests :
         requests[r].op \in {"login", "refresh"} /\ Reading(r)
           => requests[r].cred = password \/ requests[r].late

LEMMA ForcedSteps ==
  ASSUME [Next]_vars
  PROVE  \/ forced' = forced /\ password' = password
         \/ forced' = FALSE
         \/ \E r \in Requests : RevokeAll(r)
<1>1. CASE \E r \in Requests :
              \/ \E b \in Tabs : Login(r, b) \/ TryRefresh(r, b) \/ Logout(r, b)
              \/ \E t \in Tokens : IssueTokens(r, t)
              \/ NotIssued(r) \/ NotSelected(r) \/ NotRevoked(r) \/ NotLoggedOut(r) \/ NotUpdated(r)
              \/ CheckCurrent(r) \/ SelectToken(r) \/ RevokeUsed(r) \/ RevokeOnLogout(r)
              \/ RevokeAllFails(r) \/ ChangeFails(r) \/ Answer(r)
  BY <1>1 DEF Login, TryRefresh, Logout, IssueTokens, NotIssued, NotSelected, NotRevoked,
              NotLoggedOut, NotUpdated, Refused, CheckCurrent, SelectToken, RevokeUsed,
              RevokeOnLogout, RevokeAllFails, ChangeFails, Answer
<1>2. CASE \E r \in Requests : UpdatePassword(r)
  BY <1>2 DEF UpdatePassword
<1>3. CASE (\E b \in Tabs : Boot(b)) \/ (\E t \in Tokens : Expire(t)) \/ UNCHANGED vars
  BY <1>3 DEF Boot, Expire, vars
<1>4. QED
  BY <1>1, <1>2, <1>3 DEF Next, Step

LEMMA CurrentTokens ==
  ASSUME TInv, Current, [Next]_vars, forced, NEW t \in Tokens, status'[t] = "valid"
  PROVE  origin'[t].cred = password \/ origin'[t].late
<1>1. CASE UNCHANGED <<status, origin>>
  BY <1>1 DEF Current
<1>2. CASE \E T \in SUBSET Tokens, why \in {"spent", "ended"} : EndTokens(T, why)
  <2> PICK T \in SUBSET Tokens, why \in {"spent", "ended"} : EndTokens(T, why)
    BY <1>2
  <2>1. status[t] = "valid" /\ t \notin T
    BY DEF EndTokens
  <2>2. origin'[t] = origin[t]
    BY <2>1 DEF EndTokens
  <2>3. QED
    BY <2>1, <2>2 DEF Current
<1>3. CASE \E r \in Requests, u \in Tokens : IssueTokens(r, u)
  <2> PICK r \in Requests, u \in Tokens : IssueTokens(r, u)
    BY <1>3
  <2>1. CASE u = t
    <3>1. origin'[t].cred = requests[r].cred /\ origin'[t].late = requests[r].late
      BY <2>1 DEF IssueTokens, TInv, TypeOK
    <3>2. requests[r].op \in {"login", "refresh"} /\ Reading(r)
      BY DEF IssueTokens, MayIssue, At, Reading
    <3>3. QED
      BY <3>1, <3>2 DEF Current
  <2>2. CASE u # t
    <3>1. status'[t] = status[t] /\ origin'[t] = origin[t]
      BY <2>2 DEF IssueTokens, TInv, TypeOK
    <3>2. QED
      BY <3>1 DEF Current
  <2>3. QED
    BY <2>1, <2>2
<1>4. QED
  BY <1>1, <1>2, <1>3, StatusSteps

LEMMA CurrentRequests ==
  ASSUME TInv, Current, [Next]_vars, forced, password' = password, NEW r \in Requests,
         requests'[r].op \in {"login", "refresh"}, Reading(r)'
  PROVE  requests'[r].cred = password \/ requests'[r].late
<1>1. requests'[r].pc \in {"checked", "revoked"}
  BY DEF Reading
<1>2. \/ /\ requests'[r].op = requests[r].op /\ requests'[r].cred = requests[r].cred
         /\ requests'[r].late = requests[r].late \/ requests'[r].late = TRUE
         /\ Reading(r)
      \/ requests'[r].cred = password
      \/ /\ SelectToken(r) /\ status[requests[r].token] = "valid"
         /\ requests'[r].cred = origin[requests[r].token].cred
         /\ requests'[r].late = origin[requests[r].token].late
  <2>1. RevokeUsed(r) => Reading(r)
    BY DEF RevokeUsed, At, Reading
  <2>2. QED
    BY <1>1, <2>1, RequestSteps, NewRequests, IdleType DEF Moves, Same, Reading
<1>3. SelectToken(r) => requests[r].token \in Tokens
  BY DEF SelectToken, At, TInv, Shape
<1>4. QED
  BY <1>2, <1>3 DEF Current

LEMMA CurrentStep == TInv /\ Current /\ [Next]_vars => Current'
<1> SUFFICES ASSUME TInv, Current, [Next]_vars, forced' PROVE Current'
  BY DEF Current
<1>1. CASE \E r \in Requests : RevokeAll(r)
  <2> PICK r \in Requests : RevokeAll(r)
    BY <1>1
  <2>1. ASSUME NEW t \in Tokens PROVE status'[t] # "valid"
    BY DEF RevokeAll, EndTokens
  <2>2. ASSUME NEW q \in Requests, Reading(q)' PROVE requests'[q].late
    BY <2>2, RevokeAllMoves, IdleType DEF Reading
  <2>3. QED
    BY <2>1, <2>2 DEF Current
<1>2. CASE forced' = forced /\ password' = password
  BY <1>2, CurrentTokens, CurrentRequests DEF Current
<1>3. QED
  BY <1>1, <1>2, ForcedSteps

\* After a change of password whose revocation was carried out, whoever holds
\* a usable token logged in with the new password, or was being served while
\* the tokens were revoked (handleChangePassword).
THEOREM PasswordChangeForcesRelogin == Spec => []ReloginForced
<1>1. Init => Current
  <2> SUFFICES ASSUME Init PROVE Current
    OBVIOUS
  <2>1. ASSUME NEW r \in Requests PROVE requests[r].op = "idle"
    BY IdleType DEF Init
  <2>2. ASSUME NEW t \in Tokens PROVE status[t] # "valid"
    BY DEF Init
  <2>3. QED
    BY <2>1, <2>2 DEF Current
<1>2. Current => ReloginForced
  BY DEF Current, ReloginForced
<1>3. QED
  BY <1>1, <1>2, InitTypes, StepTypes, CurrentStep, PTL DEF Spec

-----------------------------------------------------------------------------
(* localStorage holds no spent token.                                       *)

\* Dashboards know a token, and may present it.
Known(t) ==
  t = stored \/ (\E b \in Tabs : tabs[b] = t) \/ (\E r \in Requests : requests[r].token = t)

\* A token on its way to the dashboard is known to none and unused.
Unseen ==
  \A t \in Tokens :
    /\ status[t] = "none" => ~Known(t)
    /\ \A r \in Requests : requests[r].new = t =>
         ~Known(t) /\ status[t] \in {"valid", "ended"}
    /\ \A q, r \in Requests : requests[q].new = t /\ requests[r].new = t => q = r

\* A call whose page is gone and whose token is still in localStorage is one
\* that interrupted speaks of.
Orphans ==
  \A r \in Requests :
    requests[r].token # Nil /\ requests[r].token = stored /\ requests[r].tab = Nil => interrupted

StoredInv == Unseen /\ Orphans /\ StoredTokenWorks

\* What these predicates read of a request.
Keeps(q) ==
  /\ requests'[q].token = requests[q].token /\ requests'[q].tab = requests[q].tab
  /\ requests'[q].new = requests[q].new

\* A request that comes presents the token of a tab, or none.
Comes(q) ==
  /\ requests[q].token = Nil /\ requests'[q].new = Nil
  /\ \/ requests'[q].token = Nil
     \/ requests'[q].tab # Nil /\ (\E b \in Tabs : tabs[b] = requests'[q].token)

\* Steps that spend and issue no token and reach no dashboard.
LEMMA QuietStored ==
  ASSUME TInv, StoredInv, UNCHANGED <<tabs, stored, interrupted>>,
         \A t \in Tokens : status'[t] = status[t] \/ (status[t] = "valid" /\ status'[t] = "ended"),
         \A q \in Requests : Keeps(q) \/ Comes(q)
  PROVE  StoredInv'
<1>1. ASSUME NEW t, Known(t)', t # Nil PROVE Known(t)
  BY <1>1 DEF Known, Keeps, Comes
<1>2. ASSUME NEW q \in Requests, requests'[q].new # Nil
      PROVE  requests'[q].new = requests[q].new
  BY <1>2 DEF Keeps, Comes
<1>3. ASSUME NEW t \in Tokens PROVE t # Nil
  BY SessionsAssumption
<1>4. Unseen'
  BY <1>1, <1>2, <1>3 DEF StoredInv, Unseen
<1>5. Orphans'
  BY DEF StoredInv, Orphans, Keeps, Comes
<1>6. StoredTokenWorks'
  <2> SUFFICES ASSUME stored # Nil, status'[stored] = "spent", ~interrupted
               PROVE  \E r \in Requests : requests'[r].token = stored /\ requests'[r].tab # Nil
    BY DEF StoredTokenWorks
  <2>1. stored \in Tokens
    BY DEF TInv, TypeOK
  <2>2. PICK r \in Requests : requests[r].token = stored /\ requests[r].tab # Nil
    BY <2>1 DEF StoredInv, StoredTokenWorks
  <2>3. Keeps(r)
    BY <2>2 DEF Comes
  <2>4. QED
    BY <2>2, <2>3 DEF Keeps
<1>7. QED
  BY <1>4, <1>5, <1>6 DEF StoredInv

\* Requests that fail or go on keep what these predicates read.
LEMMA FailedKeeps ==
  ASSUME TInv, NEW r \in Requests, NEW q \in Requests,
         requests' = [requests EXCEPT ![r] = Failed(r)]
  PROVE  Keeps(q)
<1>1. requests'[q] = IF q = r THEN Failed(r) ELSE requests[q]
  BY DEF TInv, TypeOK
<1>2. QED
  BY <1>1, FailedTypes DEF Keeps

LEMMA ProceedsKeeps ==
  ASSUME TInv, NEW r \in Requests, NEW q \in Requests, NEW pc, Proceeds(r, pc)
  PROVE  Keeps(q)
<1> DEFINE n == [requests[r] EXCEPT !.pc = pc]
<1>1. n.token = requests[r].token /\ n.tab = requests[r].tab /\ n.new = requests[r].new
  BY DEF TInv, TypeOK, Request
<1>2. CASE requests' = [requests EXCEPT ![r].pc = pc]
  <2>1. requests'[q] = IF q = r THEN n ELSE requests[q]
    BY <1>2 DEF TInv, TypeOK
  <2> HIDE DEF n
  <2>2. QED
    BY <1>1, <2>1 DEF Keeps
<1>3. QED
  BY <1>2, FailedKeeps DEF Proceeds

LEMMA ComesStored ==
  ASSUME TInv, StoredInv, NEW r \in Requests,
         CheckCurrent(r) \/ \E b \in Tabs : Login(r, b) \/ TryRefresh(r, b) \/ Logout(r, b)
  PROVE  StoredInv'
<1>1. requests[r].token = Nil
  BY IdleType DEF CheckCurrent, Login, TryRefresh, Logout
<1>2. requests'[r].new = Nil
  <2>1. ASSUME NEW b \in Tabs
        PROVE  /\ [Idle EXCEPT !.op = "login", !.pc = "checked", !.tab = b, !.cred = password].new = Nil
               /\ [Idle EXCEPT !.op = "refresh", !.pc = "sent", !.tab = b, !.token = tabs[b]].new = Nil
               /\ [Idle EXCEPT !.op = "logout", !.pc = "sent", !.tab = b, !.token = tabs[b]].new = Nil
               /\ [Idle EXCEPT !.op = "change", !.pc = "checked"].new = Nil
    BY DEF Idle
  <2>2. [Idle EXCEPT !.op = "change", !.pc = "checked"].new = Nil
    BY DEF Idle
  <2>3. CASE CheckCurrent(r)
    BY <2>2, <2>3 DEF CheckCurrent, TInv, TypeOK
  <2>4. ASSUME NEW b \in Tabs, Login(r, b) \/ TryRefresh(r, b) \/ Logout(r, b)
        PROVE  requests'[r].new = Nil
    BY <2>1, <2>4 DEF Login, TryRefresh, Logout, TInv, TypeOK
  <2>5. QED
    BY <2>3, <2>4
<1>3. Comes(r)
  <2>1. ASSUME NEW b \in Tabs PROVE b # Nil
    BY SessionsAssumption
  <2>2. QED
    BY <1>1, <1>2, <2>1, NewRequests DEF Comes
<1>4. ASSUME NEW q \in Requests, q # r PROVE Keeps(q)
  BY <1>4, OthersStay DEF Keeps
<1>5. UNCHANGED <<status, tabs, stored, interrupted>>
  BY NewRequests
<1>6. \A q \in Requests : Keeps(q) \/ Comes(q)
  BY <1>3, <1>4
<1>7. QED
  BY <1>5, <1>6, QuietStored

LEMMA GoesOnStored ==
  ASSUME TInv, StoredInv, NEW r \in Requests,
         \/ NotIssued(r) \/ NotSelected(r) \/ NotRevoked(r) \/ NotLoggedOut(r) \/ NotUpdated(r)
         \/ SelectToken(r) \/ UpdatePassword(r)
  PROVE  StoredInv'
<1>1. CASE Refused(r)
  <2>1. \A q \in Requests : Keeps(q)
    BY <1>1, FailedKeeps DEF Refused
  <2>2. QED
    BY <1>1, <2>1, QuietStored DEF Refused
<1>2. CASE SelectToken(r)
  <2> DEFINE t == requests[r].token
             n == [requests[r] EXCEPT !.pc = "checked", !.cred = origin[t].cred,
                                      !.late = origin[t].late]
  <2>1. n.token = requests[r].token /\ n.tab = requests[r].tab /\ n.new = requests[r].new
    BY DEF TInv, TypeOK, Request
  <2>2. requests' = [requests EXCEPT ![r] = n] \/ requests' = [requests EXCEPT ![r] = Failed(r)]
    BY <1>2 DEF SelectToken, TInv, TypeOK
  <2> HIDE DEF t, n
  <2>3. \A q \in Requests : Keeps(q)
    BY <2>1, <2>2, FailedKeeps DEF Keeps, TInv, TypeOK
  <2>4. QED
    BY <1>2, <2>3, QuietStored DEF SelectToken
<1>3. CASE UpdatePassword(r)
  <2>1. \A q \in Requests : Keeps(q)
    BY <1>3, ProceedsKeeps DEF UpdatePassword
  <2>2. QED
    BY <1>3, <2>1, QuietStored DEF UpdatePassword
<1>4. QED
  BY <1>1, <1>2, <1>3 DEF NotIssued, NotSelected, NotRevoked, NotLoggedOut, NotUpdated

LEMMA ChangeStored ==
  ASSUME TInv, StoredInv, NEW r \in Requests,
         RevokeAll(r) \/ RevokeAllFails(r) \/ ChangeFails(r)
  PROVE  StoredInv'
<1>1. requests[r].token = Nil
  BY DEF RevokeAll, RevokeAllFails, ChangeFails, At, TInv, Shape
<1>2. ASSUME NEW q \in Requests PROVE Keeps(q) \/ Comes(q)
  <2> DEFINE n == [requests[q] EXCEPT !.late = TRUE]
  <2>1. n.token = requests[q].token /\ n.tab = requests[q].tab /\ n.new = requests[q].new
    BY DEF TInv, TypeOK, Request
  <2>2. \/ requests'[q] = requests[q] \/ requests'[q] = n
        \/ q = r /\ requests'[q] = Idle
    BY DEF RevokeAll, RevokeAllFails, ChangeFails, TInv, TypeOK
  <2> HIDE DEF n
  <2>3. QED
    BY <1>1, <2>1, <2>2, IdleType DEF Keeps, Comes
<1>3. ASSUME NEW t \in Tokens
      PROVE  status'[t] = status[t] \/ (status[t] = "valid" /\ status'[t] = "ended")
  BY DEF RevokeAll, RevokeAllFails, ChangeFails, EndTokens
<1>4. UNCHANGED <<tabs, stored, interrupted>>
  BY DEF RevokeAll, RevokeAllFails, ChangeFails
<1>5. QED
  BY <1>2, <1>3, <1>4, QuietStored

LEMMA IssueStored ==
  ASSUME TInv, StoredInv, NEW r \in Requests, NEW t \in Tokens, IssueTokens(r, t)
  PROVE  StoredInv'
<1> DEFINE n == [requests[r] EXCEPT !.pc = "ok", !.cred = 0, !.late = FALSE, !.new = t]
<1>1. n.token = requests[r].token /\ n.tab = requests[r].tab /\ n.new = t
  BY DEF TInv, TypeOK, Request
<1>2. requests' = [requests EXCEPT ![r] = n] \/ requests' = [requests EXCEPT ![r] = Failed(r)]
  BY DEF IssueTokens, TInv, TypeOK
<1> HIDE DEF n
<1>3. ASSUME NEW q \in Requests
      PROVE  /\ requests'[q].token = requests[q].token /\ requests'[q].tab = requests[q].tab
             /\ requests'[q].new = requests[q].new \/ (q = r /\ requests'[q].new = t)
  BY <1>1, <1>2, FailedKeeps DEF Keeps, TInv, TypeOK
<1>4. /\ status[t] = "none" /\ ~Known(t) /\ t # Nil
      /\ \A u \in Tokens : status'[u] = IF u = t THEN "valid" ELSE status[u]
      /\ UNCHANGED <<tabs, stored, interrupted>>
  BY SessionsAssumption DEF IssueTokens, StoredInv, Unseen, TInv, TypeOK
<1>5. ASSUME NEW u PROVE Known(u)' <=> Known(u)
  BY <1>3, <1>4 DEF Known
<1>6. ASSUME NEW q \in Requests PROVE requests[q].new # t
  BY <1>4 DEF StoredInv, Unseen
<1>7. Unseen'
  <2> SUFFICES ASSUME NEW u \in Tokens
               PROVE  /\ status'[u] = "none" => ~Known(u)'
                      /\ \A q \in Requests : requests'[q].new = u =>
                           ~Known(u)' /\ status'[u] \in {"valid", "ended"}
                      /\ \A p, q \in Requests :
                           requests'[p].new = u /\ requests'[q].new = u => p = q
    BY DEF Unseen
  <2>1. CASE u = t
    BY <1>3, <1>4, <1>5, <1>6, <2>1
  <2>2. CASE u # t
    BY <1>3, <1>4, <1>5, <2>2 DEF StoredInv, Unseen
  <2>3. QED
    BY <2>1, <2>2
<1>8. Orphans'
  BY <1>3, <1>4 DEF StoredInv, Orphans
<1>9. StoredTokenWorks'
  BY <1>3, <1>4 DEF StoredInv, StoredTokenWorks, TInv, TypeOK
<1>10. QED
  BY <1>7, <1>8, <1>9 DEF StoredInv

LEMMA SpendStored ==
  ASSUME TInv, StoredInv, NEW r \in Requests, RevokeUsed(r) \/ RevokeOnLogout(r)
  PROVE  StoredInv'
<1>1. /\ requests[r].token \in Tokens
      /\ EndTokens({requests[r].token}, "spent")
      /\ Proceeds(r, "revoked") \/ Proceeds(r, "ok")
      /\ UNCHANGED <<tabs, stored, interrupted>>
  BY DEF RevokeUsed, RevokeOnLogout, At, TInv, Shape
<1>2. \A q \in Requests : Keeps(q)
  BY <1>1, ProceedsKeeps
<1>3. ASSUME NEW u PROVE Known(u)' <=> Known(u)
  BY <1>1, <1>2 DEF Known, Keeps
<1>4. ASSUME NEW t \in Tokens
      PROVE  /\ status'[t] = status[t] \/ (t = requests[r].token /\ status'[t] = "spent")
             /\ status'[t] = "none" => status[t] = "none"
  BY <1>1 DEF EndTokens
<1>5. Known(requests[r].token) /\ requests[r].token # Nil
  BY <1>1, SessionsAssumption DEF Known
<1>6. Unseen'
  <2>1. ASSUME NEW t \in Tokens, NEW q \in Requests, requests'[q].new = t
        PROVE  ~Known(t)' /\ status'[t] \in {"valid", "ended"}
    <3>1. requests[q].new = t
      BY <1>2, <2>1 DEF Keeps
    <3>2. ~Known(t) /\ status[t] \in {"valid", "ended"}
      BY <3>1 DEF StoredInv, Unseen
    <3>3. QED
      BY <1>3, <1>4, <1>5, <3>2
  <2>2. QED
    BY <1>2, <1>3, <1>4, <2>1 DEF Keeps, StoredInv, Unseen
<1>7. Orphans'
  BY <1>1, <1>2 DEF StoredInv, Orphans, Keeps
<1>8. StoredTokenWorks'
  BY <1>1, <1>2, <1>4, <1>5 DEF StoredInv, Orphans, StoredTokenWorks, Keeps, TInv, TypeOK
<1>9. QED
  BY <1>6, <1>7, <1>8 DEF StoredInv

LEMMA AnswerStored ==
  ASSUME TInv, StoredInv, NEW r \in Requests, Answer(r)
  PROVE  StoredInv'
<1> DEFINE b == requests[r].tab
           op == requests[r].op
           ok == requests[r].pc = "ok"
           Clears == op = "logout" \/ (op = "refresh" /\ ~ok)
           value == IF Clears THEN Nil ELSE requests[r].new
<1>1. ASSUME NEW q \in Requests
      PROVE  /\ q # r => requests'[q] = requests[q]
             /\ q = r => requests'[q].token = Nil /\ requests'[q].new = Nil
  BY IdleType DEF Answer, TInv, TypeOK
<1>2. /\ UNCHANGED status
      /\ op \in {"login", "refresh", "logout"} /\ b \in Tabs \cup {Nil}
  BY DEF Answer, TInv, TypeOK, Request
<1>3. ASSUME NEW t \in Tokens PROVE t # Nil
  BY SessionsAssumption
<1>4. CASE b = Nil \/ (op = "login" /\ ~ok)
  <2>1. UNCHANGED <<tabs, stored, interrupted>>
    BY <1>4 DEF Answer, Answered
  <2>2. ASSUME NEW t \in Tokens, Known(t)' PROVE Known(t)
    BY <1>1, <1>3, <2>1, <2>2 DEF Known
  <2>3. Unseen'
    BY <1>1, <1>2, <1>3, <2>2 DEF StoredInv, Unseen
  <2>4. Orphans'
    BY <1>1, <2>1 DEF StoredInv, Orphans
  <2>5. stored # Nil => requests[r].token # stored \/ b = Nil
    BY <1>4 DEF TInv, Shape
  <2>6. StoredTokenWorks'
    BY <1>1, <1>2, <2>1, <2>5 DEF StoredInv, StoredTokenWorks
  <2>7. QED
    BY <2>3, <2>4, <2>6 DEF StoredInv
<1>5. CASE ~(b = Nil \/ (op = "login" /\ ~ok))
  <2>1. /\ stored' = value /\ interrupted' = FALSE
        /\ tabs' = [tabs EXCEPT ![b] = value]
    BY <1>5 DEF Answer, Answered
  <2>2. \A c \in Tabs : tabs'[c] = tabs[c] \/ tabs'[c] = value
    BY <2>1 DEF TInv, TypeOK
  <2>3. value # Nil => value = requests[r].new /\ value \in Tokens
    BY <1>2, <1>5 DEF TInv, Shape
  <2> HIDE DEF value
  <2>4. value # Nil =>
          /\ ~Known(value) /\ status[value] \in {"valid", "ended"}
          /\ \A q \in Requests : q # r => requests[q].new # value
    BY <2>3 DEF StoredInv, Unseen
  <2>5. ASSUME NEW t \in Tokens, Known(t)' PROVE Known(t) \/ t = value
    BY <1>1, <1>3, <2>1, <2>2, <2>5 DEF Known
  <2>6. Unseen'
    <3> SUFFICES ASSUME NEW t \in Tokens
                 PROVE  /\ status'[t] = "none" => ~Known(t)'
                        /\ \A q \in Requests : requests'[q].new = t =>
                             ~Known(t)' /\ status'[t] \in {"valid", "ended"}
                        /\ \A p, q \in Requests :
                             requests'[p].new = t /\ requests'[q].new = t => p = q
      BY DEF Unseen
    <3>1. CASE t = value
      BY <1>1, <1>2, <1>3, <2>4, <3>1
    <3>2. CASE t # value
      BY <1>1, <1>2, <1>3, <2>5, <3>2 DEF StoredInv, Unseen
    <3>3. QED
      BY <3>1, <3>2
  <2>7. Orphans'
    BY <1>1, <2>1, <2>4 DEF Orphans, Known
  <2>8. StoredTokenWorks'
    BY <1>2, <2>1, <2>4 DEF StoredTokenWorks
  <2>9. QED
    BY <2>6, <2>7, <2>8 DEF StoredInv
<1>6. QED
  BY <1>4, <1>5

LEMMA BootStored ==
  ASSUME TInv, StoredInv, NEW b \in Tabs, Boot(b)
  PROVE  StoredInv'
<1>1. ASSUME NEW q \in Requests
      PROVE  /\ requests'[q].token = requests[q].token /\ requests'[q].new = requests[q].new
             /\ requests'[q].tab = IF requests[q].tab = b THEN Nil ELSE requests[q].tab
  <2> DEFINE n == [requests[q] EXCEPT !.tab = Nil]
  <2>1. n.token = requests[q].token /\ n.new = requests[q].new /\ n.tab = Nil
    BY DEF TInv, TypeOK, Request
  <2>2. requests'[q] = IF requests[q].tab = b THEN n ELSE requests[q]
    BY DEF Boot
  <2> HIDE DEF n
  <2>3. QED
    BY <2>1, <2>2
<1>2. /\ stored' = stored \/ stored' = Nil
      /\ \A c \in Tabs : tabs'[c] = tabs[c] \/ tabs'[c] = stored \/ tabs'[c] = Nil
      /\ UNCHANGED status /\ (interrupted => interrupted')
  BY DEF Boot, TInv, TypeOK
<1>3. ASSUME NEW q \in Requests, requests[q].tab = b, requests[q].token = stored, stored # Nil
      PROVE  interrupted'
  BY <1>3 DEF Boot
<1>4. ASSUME NEW t \in Tokens, Known(t)' PROVE Known(t)
  BY <1>1, <1>2, <1>4, SessionsAssumption DEF Known
<1>5. Unseen'
  BY <1>1, <1>2, <1>4 DEF StoredInv, Unseen
<1>6. Orphans'
  BY <1>1, <1>2, <1>3 DEF StoredInv, Orphans
<1>7. StoredTokenWorks'
  <2>1. b # Nil
    BY SessionsAssumption
  <2>2. QED
    BY <1>1, <1>2, <1>3, <2>1 DEF StoredInv, StoredTokenWorks
<1>8. QED
  BY <1>5, <1>6, <1>7 DEF StoredInv

LEMMA StoredStep == TInv /\ StoredInv /\ [Next]_vars => StoredInv'
<1> SUFFICES ASSUME TInv, StoredInv, [Next]_vars PROVE StoredInv'
  OBVIOUS
<1>1. CASE \E t \in Tokens : Expire(t)
  <2>1. \A t \in Tokens : status'[t] = status[t] \/ (status[t] = "valid" /\ status'[t] = "ended")
    BY <1>1 DEF Expire, EndTokens
  <2>2. QED
    BY <1>1, <2>1, QuietStored DEF Expire, Keeps
<1>2. CASE UNCHANGED vars
  BY <1>2, QuietStored DEF vars, Keeps
<1>3. CASE \E r \in Requests : \/ \E b \in Tabs : Login(r, b) \/ TryRefresh(r, b) \/ Logout(r, b)
                              \/ CheckCurrent(r)
  BY <1>3, ComesStored
<1>4. CASE \E r \in Requests : Step(r)
  BY <1>4, GoesOnStored, ChangeStored, IssueStored, SpendStored, AnswerStored DEF Step
<1>5. CASE \E b \in Tabs : Boot(b)
  BY <1>5, BootStored
<1>6. QED
  BY <1>1, <1>2, <1>3, <1>4, <1>5 DEF Next

\* However tabs and calls interleave and whatever answers are lost, a spent
\* token stays in localStorage only until the answer that replaces it, or
\* after its page was reloaded (tryRefresh, setTokens, clearSession).
THEOREM StoredTokensWork == Spec => []StoredTokenWorks
<1>1. Init => StoredInv
  <2> SUFFICES ASSUME Init PROVE StoredInv
    OBVIOUS
  <2>1. /\ stored = Nil
        /\ \A b \in Tabs : tabs[b] = Nil
        /\ \A r \in Requests : requests[r].token = Nil /\ requests[r].new = Nil
    BY IdleType DEF Init
  <2>2. QED
    BY <2>1, SessionsAssumption DEF StoredInv, Unseen, Known, Orphans, StoredTokenWorks
<1>2. StoredInv => StoredTokenWorks
  BY DEF StoredInv
<1>3. QED
  BY <1>1, <1>2, InitTypes, StepTypes, StoredStep, PTL DEF Spec
=============================================================================
