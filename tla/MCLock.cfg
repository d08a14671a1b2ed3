SPECIFICATION Spec
CONSTANTS
    p = p q = q a = a b = b Half = Half Edited = Edited None = None
    Commands = {p, q}
    Kinds = {"lock", "update", "strict"}
    Libs = {a, b}
    Within <- MCWithin
    Imports <- MCImports
    Commits <- MCCommits
    MaxChanges = 2
    MaxCommands = 2
PROPERTIES LockedAsPinned StrictIsPinned
CHECK_DEADLOCK FALSE
SYMMETRY Alike
