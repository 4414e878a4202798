CONSTANTS
  Types = {t1}
  Pages = {p1, p2}
  Sections = {s1, s2}
  Requests = {q1, q2}
  Keys = {k1, k2}
  Media = {m1}
  Words = {w1}
  Schemas <- GalleryOrPortrait
  Contents <- OneImageTwice
  Faults = {}
  k1 = k1  k2 = k2  m1 = m1  w1 = w1  Nil = Nil  Junk = Junk
SYMMETRY Identities
SPECIFICATION Spec
INVARIANT ArchivedUnused
