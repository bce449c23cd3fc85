SPECIFICATION Spec
CONSTANTS
  n1 = n1
  n2 = n2
  p = p
  q = q
  h1 = h1
  h2 = h2
  a = a
  None = None
  Cells = {1}
  Names = {n1, n2}
  Passwords = {p, q}
  Patterns <- TwoMasks
  Hosts = {h1, h2}
  Addresses = {a}
  Window = 2
  MaxFails = 2
  MaxEdits = 5
SYMMETRY Sym
INVARIANTS SessionsSound FewGuesses
PROPERTIES WritesItsAccount
