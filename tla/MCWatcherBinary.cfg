CONSTANTS
    a = a
    b = b
    x = x
    xc = xc
    cut = cut
    Absent = Absent
    Binary = Binary
    Untouched = Untouched
    Files = {a}
    Texts = {x, cut}
    Broken = {}
    CrlfDominant = {}
    ToCrlf <- PlainToCrlf
    Truncated = cut
    Ignored = {}
    Recreates = FALSE
    MaxEdits = 1
    MaxUndoBatches = 1
    MaxUndoRequest = 1
    MaxCalls = 0
    MaxExternal = 1
    MaxFaults = 0
SPECIFICATION FairWatchSpec
PROPERTIES AllReconciled
CHECK_DEADLOCK FALSE
