SPECIFICATION Spec
CONSTANTS
    p = p q = q o = o whole = whole part = part f = f g = g s = s t = t d = d
    Procs = {p, o}
    Unlimited = {o}
    Records = {whole, part}
    Scratches = {}
    Blobs = {f, g}
    Roots <- MCFileRoots
    Entries <- MCFileEntries
    Size <- MCFileSize
    Cost <- MCCost
    Scale = 2
    Limit = 2
    Low = 1
    MaxAdded = 3
    MaxBuilds = 3
    MaxDeaths = 0
INVARIANT LedgerNeverHides
CHECK_DEADLOCK FALSE
