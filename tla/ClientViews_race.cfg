CONSTANTS
    Rpc = {r1}
    Reopeners = {}
    Worker = w
    MaxHanded = 0
    None = None
SPECIFICATION Spec
INVARIANT NoUnguardedViewRead
