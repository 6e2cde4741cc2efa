SPECIFICATION Spec
CONSTANTS
  Publishers = {p1, p2}
  Readers = {r1}
  Artifacts = {a1, a2}
  Files = {f1, f2, f3}
  Temporaries = {t1, t2}
  Target = Target
  NoFile = NoFile
  NoName = NoName
  NoArtifact = NoArtifact
  RecordCount = 2
  MaxLosses = 1
SYMMETRY Symmetry
INVARIANTS
  PublishedIsWhole
  AcknowledgedStays
  MappedIsStable
