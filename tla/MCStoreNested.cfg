SPECIFICATION Spec
CONSTANTS
    f = f
    inner = inner
    outer = outer
    None = None
    Proc = {p, q}
    Worker = {w}
    Key = {k}
    File = {}
    Tree = {inner, outer}
    Entries <- MCEntriesTwo
SYMMETRY Alike
INVARIANTS TypeOK MarksTrue HitsHeld SweepSparesLiving
PROPERTIES RecordedWhole KeepsPromise
