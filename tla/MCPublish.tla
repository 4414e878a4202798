------------------------------ MODULE MCPublish ------------------------------
(* Publish for TLC: constant values and the symmetry of the identities.     *)
EXTENDS Publish, TLC

CONSTANTS c1, c2, c3, repo1, repo2

\* Drafts c1 and c2 carry the same name, c3 another one.
RepoOfName == [c \in Drafts |-> IF c = c3 THEN repo2 ELSE repo1]

Identities == Permutations(Deployments) \cup Permutations(Requests)
=============================================================================
