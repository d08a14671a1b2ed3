SPECIFICATION Spec
CONSTANTS
    p = p q = q a = a b = b Half = Half Edited = Edited None = None
    Commands = {p, q}
    Kinds = {"strict", "build"}
    Libs = {a, b}
    Within <- MCWithin
    Imports <- MCImports
    Commits <- MCCommits
    MaxChanges = 1
    MaxCommands = 3
PROPERTIES StrictAlways
CHECK_DEADLOCK FALSE
SYMMETRY Alike
