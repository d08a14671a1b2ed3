SPECIFICATION FairSpec
CONSTANTS
    o = o p = p q = q s = s t = t u = u d = d e = e f = f g = g k = k l = l m = m None = None
    Root = {o}
    Step = {s, u}
    Effect = {e, g}
    Memo = {k, l}
    Code <- MCStepsCode
    Holes <- MCStepsHoles
    Data <- MCStepsData
    Of <- MCStepsOf
    Name <- MCStepsName
    Retries <- MCStepsRetries
    MayFail = {}
    Unstaged = {}
    Timed = {}
    Stored = {}
    Remote = FALSE
    Mode = "build"
PROPERTIES Ends
CHECK_DEADLOCK FALSE
