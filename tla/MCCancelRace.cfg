\* A confirmation and a cancellation of the same reservation overlap.
SPECIFICATION Spec
CONSTANTS
    None = None
    Seat = {s1}
    User = {u1}
    Res = {r1, r2}
    Http = {a, b}
    Worker = {w}
    MaxSeats = 2
    WorkerRegistered = FALSE
    SlowHandlers = FALSE
    CanFail = FALSE
INVARIANT CancelledSeatsAreFree
CHECK_DEADLOCK FALSE
