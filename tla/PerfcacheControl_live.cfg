SPECIFICATION FairSpec
CONSTANTS
  Genesis = Genesis
  e1 = e1
  e2 = e2
  NoEpoch = NoEpoch
  Backends = {b1, b2}
  Epochs = {e1}
  Context <- Chain1
  MaxDepth = 1
  MaxSerial = 2
  MaxExits = 1
  MaxCrashes = 0
  MaxRecreates = 0
PROPERTIES
  CommittingIsResolved
