SPECIFICATION Spec
CONSTANTS
    p = p q = q a = a b = b Half = Half Edited = Edited None = None
    Commands = {p}
    Kinds = {"lock", "update"}
    Libs = {a, b}
    Within <- MCNested
    Imports <- MCImports
    Commits <- MCCommits
    MaxChanges = 2
    MaxCommands = 3
PROPERTIES LockedAsPinned
CHECK_DEADLOCK FALSE
