SPECIFICATION FairSpec
CONSTANTS
    Sockets = {s1}
    Buffer = 1
    MaxReplay = 2
INVARIANTS
    TypeOK
    OnlyWhileAllowed
    NoSilentGap
PROPERTIES
    DeadSocketsClose
