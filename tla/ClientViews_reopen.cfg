CONSTANTS
    Rpc = {r1, r2}
    Reopeners = {r1, r2}
    Worker = w
    MaxHanded = 0
    None = None
SPECIFICATION Spec
SYMMETRY RpcSymmetry
PROPERTY CallsReturn
CHECK_DEADLOCK FALSE
