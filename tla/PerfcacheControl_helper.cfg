SPECIFICATION Spec
CONSTANTS
  Genesis = Genesis
  e1 = e1
  e2 = e2
  NoEpoch = NoEpoch
  Backends = {b1, b2}
  Epochs = {e1, e2}
  Context <- Chain2
  MaxDepth = 1
  MaxSerial = 2
  MaxExits = 0
  MaxCrashes = 0
  MaxRecreates = 1
SYMMETRY Symmetry
INVARIANTS
  HelperCanComplete
