SPECIFICATION Spec
CONSTANTS
    MaxOps = 2
    MaxConn = 2
    AskId = {2}
INVARIANTS RpcInv FailsOnce AsksRejected
PROPERTIES ActsAsSaid
CHECK_DEADLOCK FALSE
