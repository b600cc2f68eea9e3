SPECIFICATION Spec
CONSTANTS
    Contents <- MCContents
    Base = "base"
    Healthy = {"base", "a"}
    Commands <- MCCommands
    Candidate <- MCCandidate
    Revision <- MCRevision
    Complete = {"toX"}
    Malformed = {"bad"}
    Binding <- MCBinding
    KeepLast = 1
    MaxPresented = 3
    MaxFailures = 2
INVARIANTS
    WayBack
    ReplyIsTrue
PROPERTY
    NewestStays
CHECK_DEADLOCK FALSE
