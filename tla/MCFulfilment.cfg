\* One reservation of two seats, two workers, one gate, two failures.
SPECIFICATION FairSpec
CONSTANTS
    None = None
    Res = {r1}
    Seat = {s1, s2}
    Worker = {a, b}
    Gate = {g}
    MaxFailures = 2
INVARIANTS TypeOK DoneMeansComplete StoredMeansSent
PROPERTIES UsedTicketsStayUsed JobsEnd ConfirmationsAreFulfilled
CHECK_DEADLOCK FALSE
