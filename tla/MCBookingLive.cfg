\* Two seats, which two overlapping requests may take in either order, and one
\* of which a request may name twice; fair scheduling, no failures.
SPECIFICATION FairSpec
CONSTANTS
    None = None
    Seat = {s1, s2}
    User = {u1}
    Res = {r1}
    Http = {a, b}
    Worker = {w}
    MaxSeats = 2
    WorkerRegistered = TRUE
    SlowHandlers = FALSE
    CanFail = FALSE
INVARIANTS LockCoversCheck ExpireJobNeverFails
PROPERTIES RequestsEnd HoldsEnd ConfirmationsAreTold
CHECK_DEADLOCK FALSE
