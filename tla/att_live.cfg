\* One member, the administrator, a restart or a dropped stream; fair.
SPECIFICATION FairSpec
CONSTANTS
    alice = alice
    bob = bob
    d1 = d1
    d2 = d2
    NoUser = NoUser
    Users = {alice, bob}
    Devices = {d1}
    Owner <- OneMember
    MaxTaps = 3
    MaxAdminWrites = 1
    MaxDrops = 1
INVARIANTS
    LastTapWins
PROPERTIES
    QueueSpec
    RsvpsSettle
