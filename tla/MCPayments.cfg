\* One reservation and a page that may be submitted twice; its requests may be
\* repeated at any time, other clients charge without a key, refunds overlap,
\* and one thing fails.
SPECIFICATION FairSpec
CONSTANTS
    None = None
    Res = {r1}
    Page = {p}
    Http = {a, b}
    Price = 2
    RefundAmounts = {1}
    FailureThreshold = 1
    MaxSubmits = 2
    MaxCharges = 2
    MaxFailures = 1
INVARIANTS TypeOK ReceiptsAreBacked ConfirmedIsPaid NoLostIntent RefundsAddUp PaidMeansCharged
PROPERTIES RecordsOnlyGrow StoredKeysAreSpent PagesEnd
CHECK_DEADLOCK FALSE
