CONSTANTS
  Servers = {s1, s2}
  Requests = {q1, q2}
  Tenants = {t1, t2}
  Legacy = {t1}
  Emails = {root, user}
  Admin = root
  AdminPassword = Nil
  Former = Former
  Starters = 2
  Edited = {1}
  Migrations = 2
  MaxStarts = 2
  Faults = {"db", "crash"}
  Nil = Nil
SPECIFICATION Spec
INVARIANTS LibraryComplete AccountsOpen SchemaInOrder
PROPERTIES EditsKept NeverAllFail SomeServerStarts
CHECK_DEADLOCK FALSE
