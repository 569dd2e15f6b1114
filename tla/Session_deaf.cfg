CONSTANTS
  Conns = {c1, c2, c3, c4}
  Null = Null
SPECIFICATION FairSpec
PROPERTY HearsSignal
