\* One seat and two requests at a time beside the expire worker;
\* every call may fail, instances may die, locks may expire too early.
SPECIFICATION Spec
CONSTANTS
    None = None
    Seat = {s1}
    User = {u1}
    Res = {r1, r2}
    Http = {a, b}
    Worker = {w}
    MaxSeats = 2
    WorkerRegistered = TRUE
    SlowHandlers = TRUE
    CanFail = TRUE
SYMMETRY Symmetry
INVARIANTS TypeOK NoDoubleBooking SeatsMatchStatus LocksHaveKeepers
PROPERTY ImplementsLifecycle
CHECK_DEADLOCK FALSE
