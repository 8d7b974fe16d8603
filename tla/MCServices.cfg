SPECIFICATION FairSpec
CONSTANTS
    Pricer = {p, q}
    BasePrice = {100}
    Demand <- MCDemand
    MaxEvents = 2
    MaxPriceFailures = 1
    Editor = {p, q}
    MaxVersions = 3
    MaxCacheFailures = 1
    RowId = {1, 2, 3}
    Stamp = {1, 2}
    Limit = {1, 2}
    Tab = {t, u}
    Call = {c, d}
    MaxLogins = 1
    MaxSessionFailures = 1
    Spot = {1, 2}
    MaxPicked = 1
    Fetch = {f1, f2}
    MaxLost = 1
    Alarm = {a1, a2}
    Task = {t1, t2}
    Caller = {x1, x2, x3}
    FailureThreshold = 2
    MaxCallFailures = 5
    Amount = {0, 1, 2, 7, 8, 20, 60, 85, 100, 150}
    Instant = {0, 1, 2, 3}
    Side = {1, 2, 3}
    Digit = {0, 7}
INVARIANTS TypeOK PricesWereTrue CleanPricesAreCurrent SurgesNeverCompound StaleOnlyByLateFill BrowsesAreExact AlarmsHaveACause LiveTokensAreHeld NothingIsCutOff ClosedMeansFewFailures ValuesKeepLaws
PROPERTIES EventuallyFresh CallsEnd HalfOpenEnds CopyNeverGoesBack
CHECK_DEADLOCK FALSE
