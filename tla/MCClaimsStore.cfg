SPECIFICATION Spec
CONSTANTS
    a = a b = b c = c d = d e = e f = f g = g x = x y = y z = z None = None
    Fn = {f, g}
    Key = {x, y, z}
    Val = {1, 2}
    Reads <- MCReads
    Step = {a, b, c, d}
    FnOf <- MCCalls
    Dep <- MCGiven
    Ctx <- MCMade
    Failing = {a}
    Secret = {g}
    Reuses = {"store", "compare"}
    Remote = TRUE
    Elsewhere <- MCElsewhere
    MaxBuilds = 2
INVARIANTS Sound NoneBlamed
PROPERTIES NoneRunAgain
CHECK_DEADLOCK FALSE
