SPECIFICATION StampsSpec
CONSTANTS
    b = b c = c f = f g = g x = x y = y m = m n = n o = o Nil = Nil
    Builds = {b, c}
    Paths = {f, g}
    Inputs = {f}
    Entries = {x, y}
    Nodes = {m, n, o}
    Swaps = TRUE
    MaxClock = 2
INVARIANTS StampsTrue

SYMMETRY Alike
CHECK_DEADLOCK FALSE
