SPECIFICATION FairSpec
CONSTANTS
    N = 3
    MaxDeps = 2
    Name <- Names
    Naming <- Namings
INVARIANTS AcceptedIsDag DagIsAccepted
PROPERTY Termination
