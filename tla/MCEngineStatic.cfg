SPECIFICATION Spec
CONSTANTS
    o = o p = p q = q s = s t = t u = u d = d e = e f = f g = g k = k l = l m = m None = None
    Root = {p, q}
    Step = {s}
    Effect = {e}
    Memo = {m}
    Code <- MCStaticCode
    Holes <- MCStaticHoles
    Data <- MCStaticData
    Of <- MCStaticOf
    Name <- MCStaticName
    Retries <- MCStaticRetries
    MayFail = {}
    Unstaged = {}
    Timed = {}
    Stored = {}
    Remote = FALSE
    Mode = "static"
INVARIANTS GivesUpRightly
CHECK_DEADLOCK FALSE
