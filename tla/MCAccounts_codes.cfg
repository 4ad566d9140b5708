SPECIFICATION Spec
CONSTANTS
  Id = {u1}
  Name = {n1}
  Sid = {s1, s2}
  Req = {q1, q2}
  None = None
  MaxFailures = 1
  MaxVersion = 3
PROPERTY OldCodesFail
