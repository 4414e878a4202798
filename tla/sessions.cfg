CONSTANTS
  Tokens = {t1, t2, t3}
  Tabs = {b1, b2}
  Requests = {q1, q2}
  MaxChanges = 1
  Faults = {"db"}
  Nil = Nil
SYMMETRY Identities
SPECIFICATION Spec
INVARIANTS UsedTokenIsSpent ReloginForced StoredTokenWorks
