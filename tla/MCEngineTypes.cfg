SPECIFICATION FairSpec
CONSTANTS
    o = o p = p q = q s = s t = t u = u d = d e = e f = f g = g k = k l = l m = m None = None
    Root = {o, p, q}
    Step = {s, t, u}
    Effect = {d, e, f, g}
    Memo = {k, l, m}
    Code <- MCCode
    Holes <- MCHoles
    Data <- MCData
    Of <- MCOf
    Name <- MCName
    Retries <- MCRetries
    MayFail = {d, e, g, t}
    Unstaged = {t}
    Timed = {s}
    Stored = {s, u}
    Remote = TRUE
    Mode = "build"
CHECK_DEADLOCK FALSE
INVARIANTS TypeOK GivenFirst
PROPERTIES ResultsStay
