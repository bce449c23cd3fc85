SPECIFICATION NetworkSpec
CONSTANTS
  c1 = c1
  c2 = c2
  i1 = i1
  i2 = i2
  i3 = i3
  hub = hub
  leaf = leaf
  x = x
  y = y
  ch = ch
  NULL = NULL
  Conns = {c1, c2}
  Ids = {i1, i2, i3}
  ServerNames = {hub, leaf}
  Nicks = {x, y}
  Channels = {ch}
  Jupable = {leaf, x}
  MaxStrikes = 1
SYMMETRY Sym
INVARIANTS NetworkSound EveryoneKnown
PROPERTIES GoneWhenEmpty WildOnlyThen
