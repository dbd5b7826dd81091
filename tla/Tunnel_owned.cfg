SPECIFICATION MCSpec
CONSTANTS
    c1 = c1
    c2 = c2
    p1 = p1
    p2 = p2
    Command = {c1, c2}
    Pid = {p1, p2}
    MaxStarts = 4
    HasPidfd = TRUE
    Nobody = Nobody
    Nothing = Nothing
    Invalid = Invalid
    Id = {1, 2}
    NoId = NoId
    Message <- MCMessage
    MaxHeaderBytes = 4
    MaxLineBytes = 3
    MaxHeaderCount = 2
    MaxMessageBytes = 2
    LineSizes = {1, 3, 4}
    MaxMessages = 2
INVARIANT OnlyTunnelsSignalled
INVARIANT NoTunnelIsLost
INVARIANT EveryRequestAnswered
INVARIANT WritesAreGuarded
