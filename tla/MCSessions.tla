----------------------------- MODULE MCSessions ------------------------------
(* Sessions for TLC: the symmetry of the identities.                        *)
EXTENDS Sessions, TLC

Identities == Permutations(Tokens) \cup Permutations(Tabs) \cup Permutations(Requests)
=============================================================================
