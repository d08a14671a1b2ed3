SPECIFICATION FairSpec
CONSTANTS
    b1 = b1 b2 = b2 s = s t = t u = u k = k l = l o = o q = q c = c d = d None = None
    Build = {b1, b2}
    Step = {s, t, u}
    Key = {k, l}
    Content = {c, d}
    Outcome = {o, q}
    BuildOf <- MCBuildOf
    StoreOf <- MCStoreOf
    KeyOf <- MCKeyOf
    Gives <- MCGives
    Names <- MCNames
    Connected = {b1, b2}
    Uploading = {b1, b2}
    Large = {d}
    Threads = 1
    Manifest = Manifest
    MaxDrops = 1
INVARIANTS RecordsWhole ResultsWhole EndsUploaded
PROPERTIES AloneKeeps AllEnd
CHECK_DEADLOCK FALSE
