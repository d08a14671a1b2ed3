SPECIFICATION Spec
CONSTANTS
    x = x y = y
    Paths <- MCPaths
    Contents = {y}
    Mount <- MCMount
    Lowers <- MCLowers
INVARIANTS ReadsAgree
PROPERTIES AsACopy
