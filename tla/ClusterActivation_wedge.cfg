\* A bare host, one package, one step fails without effect.
CONSTANTS
    None = None
    Packages = {p1, p2}
    NumFiles = 2
    Wanted = {p1}
    Starts = {"fresh"}
    FaultKinds = {"before"}
    MaxFaults = 1
SPECIFICATION FairSpec
PROPERTIES
    CandidateNeverWedges
