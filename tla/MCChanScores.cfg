CONSTANTS
  c1 = c1
  c2 = c2
  u1 = u1
  u2 = u2
  u3 = u3
  NoChan = NoChan
  Chans = {c1}
  Users = {u1, u2, u3}
  Days = 2
  RollFreq = 2
  ScoreLimit = 65536
  TotLimit = 1000000
  MaxClones = 2
  MaxCrashes = 1
SPECIFICATION Spec
SYMMETRY Sym
INVARIANTS TypeOK SortedOK ChainMatchesTable RecordsSound
PROPERTIES ImplementsBoard
