SPECIFICATION FairSpec
CONSTANTS
    Guests = {g1, g2}
    Addresses = {a1}
    NoAddress = NoAddress
    NotReserved = NotReserved
    Reqs = {r1, r2}
    MaxGuests = 1
    MaxPending = 1
    NoGuest = NoGuest
INVARIANTS
    SeatLimit
PROPERTIES
    ImplementsSeats
    BannedLeave
    ForgottenTab
