SPECIFICATION Spec
CONSTANTS
    b1 = b1 b2 = b2 s = s t = t u = u k = k l = l o = o q = q c = c d = d None = None
    Build = {b1, b2}
    Step = {s, t}
    Key = {k, l}
    Content = {c, d}
    Outcome = {o, q}
    BuildOf <- MCBeside
    StoreOf <- MCOneStore
    KeyOf <- MCBothKeys
    Gives <- MCGives
    Names <- MCNames
    Connected = {}
    Uploading = {}
    Large = {d}
    Threads = 1
    Manifest = Manifest
    MaxDrops = 1
PROPERTY SetsKept
CHECK_DEADLOCK FALSE
