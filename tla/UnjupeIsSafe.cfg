SPECIFICATION Spec
CONSTANTS
  n1 = n1
  n2 = n2
  u1 = u1
  u2 = u2
  u3 = u3
  s1 = s1
  s2 = s2
  Names = {n1, n2}
  Userhosts = {u1, u2, u3}
  Servers = {s1, s2}
  Admins = {u1}
  AdminScore = 3
  OperScore = 2
  Needed = 4
  Timeout = 1
  Never = Never
  MaxJupes = 3
  MaxFailures = 1
PROPERTY UnjupeIsSafe
