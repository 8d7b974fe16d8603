\* One call of a ticket job fails, once.
SPECIFICATION FairSpec
CONSTANTS
    None = None
    Res = {r1}
    Seat = {s1, s2}
    Worker = {a}
    Gate = {g1}
    MaxFailures = 1
PROPERTY RetriesMakeTickets
CHECK_DEADLOCK FALSE
