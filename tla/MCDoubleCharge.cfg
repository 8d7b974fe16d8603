\* The page's request reaches the server twice, close together.
SPECIFICATION Spec
CONSTANTS
    None = None
    Res = {r1}
    Page = {p}
    Http = {a, b}
    Price = 2
    RefundAmounts = {1}
    FailureThreshold = 1
    MaxSubmits = 1
    MaxCharges = 2
    MaxFailures = 0
INVARIANT KeyChargesOnce
CHECK_DEADLOCK FALSE
