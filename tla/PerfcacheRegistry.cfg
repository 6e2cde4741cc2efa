SPECIFICATION Spec
CONSTANTS
  Clients = {c1, c2, c3}
  Gens = {g1, g2, g3}
  Epochs = {e1, e2}
  NoGen = NoGen
  NoEpoch = NoEpoch
  NoClient = NoClient
  MaxReaders = 2
SYMMETRY Symmetry
INVARIANTS
  PinnedStaysLoaded
  OwnedExactlyOnce
PROPERTIES
  HandoffReplacesExpected
  ImplementsHandoff
\* A destroyed registry accepts no further call.
CHECK_DEADLOCK FALSE
