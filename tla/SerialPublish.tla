---------------------------- MODULE SerialPublish ----------------------------
(***************************************************************************)
(* What publishing promises of one website: its deployments run one after  *)
(* the other; only the running one changes the served site, and it alone   *)
(* adds to the branches beside those who push on their own, and each only  *)
(* its own content; it is reported succeeded only when the site shows it   *)
(* in full and a branch holds it, with no later commit of the publisher's. *)
(***************************************************************************)
EXTENDS Naturals, Sequences

CONSTANTS Deployments, Drafts, Repos, Nil, UseGitHub

VARIABLES
  phase,     \* of each deployment: "new", "running" or "over"
  content,   \* what it publishes, Nil before it runs
  result,    \* "open", "succeeded" or "failed"
  site,      \* the draft served in full, Nil when none is
  branches   \* what was pushed to each repository, and whether by a deployment

vars == <<phase, content, result, site, branches>>

Init ==
  /\ phase = [d \in Deployments |-> "new"]
  /\ content = [d \in Deployments |-> Nil]
  /\ result = [d \in Deployments |-> "open"]
  /\ site = Nil
  /\ branches = [r \in Repos |-> <<>>]

Running(d) == phase[d] = "running"

Begin(d, c) ==
  /\ phase[d] = "new"
  /\ \A e \in Deployments : ~Running(e)
  /\ phase' = [phase EXCEPT ![d] = "running"]
  /\ content' = [content EXCEPT ![d] = c]
  /\ UNCHANGED <<result, site, branches>>

Render(d) ==
  /\ Running(d)
  /\ result[d] = "open"
  /\ site' \in {Nil, content[d]}
  /\ UNCHANGED <<phase, content, result, branches>>

Push(d, r) ==
  /\ UseGitHub
  /\ Running(d)
  /\ result[d] = "open"
  /\ site = content[d]
  /\ branches' = [branches EXCEPT ![r] =
       Append(@, [draft |-> content[d], ours |-> TRUE])]
  /\ UNCHANGED <<phase, content, result, site>>

\* Others may have pushed since.
Pushed(d) ==
  \E r \in Repos : \E i \in DOMAIN branches[r] :
    /\ branches[r][i].draft = content[d]
    /\ \A j \in DOMAIN branches[r] : j > i => ~branches[r][j].ours

OtherPush(r, c) ==
  /\ UseGitHub
  /\ branches' = [branches EXCEPT ![r] = Append(@, [draft |-> c, ours |-> FALSE])]
  /\ UNCHANGED <<phase, content, result, site>>

Succeed(d) ==
  /\ Running(d)
  /\ result[d] = "open"
  /\ site = content[d]
  /\ UseGitHub => Pushed(d)
  /\ result' = [result EXCEPT ![d] = "succeeded"]
  /\ UNCHANGED <<phase, content, site, branches>>

\* Also after a success whose acknowledgement was lost.
Fail(d) ==
  /\ Running(d)
  /\ result' = [result EXCEPT ![d] = "failed"]
  /\ UNCHANGED <<phase, content, site, branches>>

\* Deployments end, several at once when a process stops.
Stop(D) ==
  /\ \A d \in D : Running(d)
  /\ phase' = [d \in Deployments |-> IF d \in D THEN "over" ELSE phase[d]]
  /\ UNCHANGED <<content, result, site, branches>>

Next ==
  \/ \E D \in SUBSET Deployments : Stop(D)
  \/ \E d \in Deployments :
       \/ \E c \in Drafts : Begin(d, c)
       \/ Render(d)
       \/ \E r \in Repos : Push(d, r)
       \/ Succeed(d)
       \/ Fail(d)
  \/ \E r \in Repos, c \in Drafts : OtherPush(r, c)

Spec == Init /\ [][Next]_vars
=============================================================================
