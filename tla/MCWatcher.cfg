CONSTANTS
    a = a
    b = b
    x = x
    xc = xc
    cut = cut
    Absent = Absent
    Binary = Binary
    Untouched = Untouched
    Files = {a, b}
    Texts = {x, xc}
    Broken = {}
    CrlfDominant = {xc}
    ToCrlf <- MCToCrlf
    Truncated = xc
    Ignored = {}
    Recreates = FALSE
    MaxEdits = 1
    MaxUndoBatches = 1
    MaxUndoRequest = 1
    MaxCalls = 1
    MaxExternal = 1
    MaxFaults = 0
SPECIFICATION FairWatchSpec
INVARIANTS WatchTypeOK QuiescentIsFresh
PROPERTIES EventuallyFresh CallReturns
CHECK_DEADLOCK FALSE
