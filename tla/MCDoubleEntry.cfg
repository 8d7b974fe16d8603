\* Two gates scan the same ticket at the same time.
SPECIFICATION Spec
CONSTANTS
    None = None
    Res = {r1}
    Seat = {s1, s2}
    Worker = {a}
    Gate = {g1, g2}
    MaxFailures = 0
INVARIANT OneEntryPerTicket
CHECK_DEADLOCK FALSE
