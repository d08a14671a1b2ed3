SPECIFICATION Spec
CONSTANTS
    p = p q = q o = o whole = whole part = part f = f g = g s = s t = t d = d
    Procs = {p, q, o}
    Unlimited = {o}
    Records = {whole, part}
    Scratches = {d}
    Blobs = {f,s,t}
    Roots <- MCNestedRoots
    Entries <- MCNestedEntries
    Size <- MCNestedSize
    Cost <- MCCost
    Scale = 2
    Limit = 2
    Low = 1
    MaxAdded = 4
    MaxBuilds = 3
    MaxDeaths = 1
INVARIANTS CountsRight SparesLive ReachesLow UsedAreLive LedgerCovers
CHECK_DEADLOCK FALSE
SYMMETRY Alike
