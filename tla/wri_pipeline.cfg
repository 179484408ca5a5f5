\* Two accounts on one phone, a fault and two user changes; fair.
SPECIFICATION FairSpec
CONSTANTS
    ann = ann
    bob = bob
    Users <- MCUsers
    NoUser = NoUser
    kMaxPendingWrites = 2
    MaxWrites = 3
    MaxSwitches = 2
    MaxFaults = 1
\* The application may stop.
CHECK_DEADLOCK FALSE
INVARIANTS
    TypeOK
    ConnectionOfOneUser
    PipelineInStep
    ToldTheTruth
PROPERTIES
    QueueSpec
    QueueDrains
