\* A seat is cancelled and asked for again.
SPECIFICATION Spec
CONSTANTS
    None = None
    Seat = {s1}
    User = {u1}
    Res = {r1, r2}
    Http = {a, b}
    Worker = {w}
    MaxSeats = 2
    WorkerRegistered = FALSE
    SlowHandlers = FALSE
    CanFail = FALSE
INVARIANT FreedSeatsCanBeHeld
CHECK_DEADLOCK FALSE
