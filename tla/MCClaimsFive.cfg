SPECIFICATION FairSpec
CONSTANTS
    a = a b = b c = c d = d e = e f = f g = g x = x y = y z = z None = None
    Fn = {f, g}
    Key = {x, y, z}
    Val = {1, 2}
    Reads <- MCReads
    Step = {a, b, c, d, e}
    FnOf <- MCCalls
    Dep <- MCGiven
    Ctx <- MCMade
    Failing = {a, b, c}
    Secret = {g}
    Reuses = {"store", "rerun"}
    Remote = FALSE
    Elsewhere = {}
    MaxBuilds = 1
INVARIANTS OneDirectory RunOnce
PROPERTIES Settles
CHECK_DEADLOCK FALSE
