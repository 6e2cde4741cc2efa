\* Two packages requested in any order on any host, four faults of any kind.
CONSTANTS
    None = None
    Packages = {p1, p2}
    NumFiles = 2
    Wanted = {p1, p2}
    Starts = {"fresh", "historical", "current"}
    FaultKinds = {"before", "after", "crash", "reboot"}
    MaxFaults = 4
SPECIFICATION Spec
PROPERTY
    ActivationIsTrue
