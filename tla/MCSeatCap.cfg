\* Two overlapping requests of one user for two different seats.
SPECIFICATION Spec
CONSTANTS
    None = None
    Seat = {s1, s2}
    User = {u1}
    Res = {r1, r2}
    Http = {a, b}
    Worker = {w}
    MaxSeats = 1
    WorkerRegistered = FALSE
    SlowHandlers = FALSE
    CanFail = FALSE
INVARIANT SeatCap
CHECK_DEADLOCK FALSE
