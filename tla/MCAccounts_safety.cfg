SPECIFICATION Spec
CONSTANTS
  Id = {u1, u2}
  Name = {n1, n2}
  Sid = {s1, s2}
  Req = {q1, q2}
  None = None
  MaxFailures = 1
  MaxVersion = 3
SYMMETRY Symmetry
CONSTRAINT OneNameLimited
INVARIANTS
  TypeOK
  KeysSurvive
  SessionsFollowCredentials
  NamesUnique
  ConnectsToAccounts
  GuessesBounded
