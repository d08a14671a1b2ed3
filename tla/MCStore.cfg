SPECIFICATION FairSpec
CONSTANTS
    f = f
    inner = inner
    outer = outer
    None = None
    Proc = {p, q}
    Worker = {w}
    Key = {k}
    File = {f}
    Tree = {inner}
    Entries <- MCEntriesOne
INVARIANTS MarksTrue HitsHeld SweepSparesLiving
PROPERTIES RecordedWhole KeepsPromise WaitsEnd
