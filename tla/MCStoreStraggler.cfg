SPECIFICATION Spec
CONSTANTS
    f = f
    inner = inner
    outer = outer
    None = None
    Proc = {p}
    Worker = {w}
    Key = {k}
    File = {f}
    Tree = {inner}
    Entries <- MCEntriesOne
INVARIANTS MarksNeverLie
