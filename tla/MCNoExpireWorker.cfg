\* The workers that main.ts starts: none of them consumes reservation.expired.
SPECIFICATION FairSpec
CONSTANTS
    None = None
    Seat = {s1}
    User = {u1}
    Res = {r1}
    Http = {a, b}
    Worker = {w}
    MaxSeats = 2
    WorkerRegistered = FALSE
    SlowHandlers = FALSE
    CanFail = FALSE
PROPERTY HoldsEnd
CHECK_DEADLOCK FALSE
