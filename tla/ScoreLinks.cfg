CONSTANTS
  Recs = {1, 2, 3, 4}
  Nil = 0
  MaxScore = 3
SPECIFICATION LinksSpec
INVARIANTS LinksSound
PROPERTIES SortNeverHarms ImplementsScoreChain
