CONSTANTS
  c1 = c1
  c2 = c2
  m1 = m1
  m2 = m2
  m3 = m3
  NoModes = NoModes
  Chans = {c1, c2}
  Modes = {NoModes, m1, m2, m3}
  Slots = 3
  Days = 4
  RollFreq = 1
  MaxChecks = 4
SPECIFICATION SlotsSpec
SYMMETRY Sym
CHECK_DEADLOCK FALSE
INVARIANTS SlotsSound
PROPERTIES ForgetsTheWeakest
