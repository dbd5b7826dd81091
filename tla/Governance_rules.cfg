SPECIFICATION GateSpec
CONSTANTS
    c1 = c1
    c2 = c2
    c3 = c3
    t1 = t1
    t2 = t2
    Call = {c1, c2, c3}
    Event <- MCEvent
    Part = Part
    MaxTears = 1
    Action = {a}
    Mixes <- MCMixes
    Lifetime = {1}
    MaxTime = 2
    Malformed = Malformed
    Thread = {t1, t2}
    Limits <- MCLimits
    Rates <- MCRates
    Estimate <- MCEstimate
    Usage <- MCUsage
    KeepsReceipt = TRUE
    MaxHooks = 3
    Nothing = Nothing
SYMMETRY MCSymmetry
CHECK_DEADLOCK FALSE
INVARIANT LogTellsTheTruth
INVARIANT GrantsWithinLimits
INVARIANT OverageStops
PROPERTY GateHonoursPolicy
