SPECIFICATION Spec
CONSTANTS
    a = a b = b one = one other = other unpack = unpack
    secret = secret context = context input = input dir = dir None = None
    Runs = {a, b}
    Programs = {one, other, secret}
    Boxed = {other}
    Secret = secret
    Writers = {unpack}
    Contexts = {context}
    Inputs = {input}
    Starts <- MCStarts
    Gives <- MCGives
    Places = {dir}
    Trees <- MCTrees
    Unkeepable = {2}
    Results <- MCResults
    Empty = 0
    Leaves <- MCLeaves
    Writes <- MCWrites
    MaxEffects = 2
    MaxAttempts = 2
INVARIANTS RecordsTrue KnownTrue
PROPERTIES Transparent SecretsStay
CHECK_DEADLOCK FALSE
SYMMETRY Alike
