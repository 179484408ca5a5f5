\* Two members and the administrator, no losses.
SPECIFICATION Spec
CONSTANTS
    alice = alice
    bob = bob
    d1 = d1
    d2 = d2
    NoUser = NoUser
    Users = {alice, bob}
    Devices = {d1, d2}
    Owner <- TwoMembers
    MaxTaps = 2
    MaxAdminWrites = 1
    MaxDrops = 0
INVARIANTS
    TypeOK
    ScreenFollowsView
PROPERTIES
    CacheGoesForward
    RegisterSpec
