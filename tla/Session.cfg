CONSTANTS
  Conns = {c1, c2, c3, c4}
  Null = Null
SPECIFICATION FairSpec
INVARIANTS
  NoOrphan
  AtMostTwo
PROPERTIES
  ComesBack
  Ends
