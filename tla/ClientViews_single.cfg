CONSTANTS
    Rpc = {r1, r2}
    Reopeners = {r1}
    Worker = w
    MaxHanded = 1
    None = None
SPECIFICATION Spec
INVARIANT CallSeesUsableState
PROPERTY CallsReturn
PROPERTY QueuedFunctionsRun
