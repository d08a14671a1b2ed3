SPECIFICATION Spec
CONSTANTS
    a = a b = b c = c d = d e = e f = f g = g x = x y = y z = z None = None
    Fn = {f, g}
    Key = {x, y, z}
    Val = {1, 2}
    Reads <- MCReads
    Step = {a, c}
    FnOf <- MCCalls
    Dep <- MCGiven
    Ctx <- MCMade
    Failing = {}
    Secret = {}
    Reuses = {"store"}
    Remote = FALSE
    Elsewhere = {}
    MaxBuilds = 2
INVARIANTS SamePath
CHECK_DEADLOCK FALSE
