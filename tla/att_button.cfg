\* One member taps the button twice.
SPECIFICATION Spec
CONSTANTS
    alice = alice
    bob = bob
    d1 = d1
    d2 = d2
    NoUser = NoUser
    Users = {alice, bob}
    Devices = {d1}
    Owner <- OneMember
    MaxTaps = 2
    MaxAdminWrites = 0
    MaxDrops = 0
INVARIANTS
    ButtonShowsAttendance
