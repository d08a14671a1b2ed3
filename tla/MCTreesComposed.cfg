SPECIFICATION Spec
CONSTANTS
    p = p q = q s = s t = t x = x y = y None = None
    large = large small = small
    Procs = {p, q}
    Steps = {s, t}
    Entries = {x, y}
    Trees = {large, small}
    Files <- MCFiles
    Large = {large}
    Again = FALSE
    MayDie = {"building", "removing"}
    MaxPlaced <- MCPlaced
    MaxFails = 1
    MaxKills = 2
INVARIANTS Distinct InstancesWhole
PROPERTIES InstancesStay
CHECK_DEADLOCK FALSE
SYMMETRY Alike
