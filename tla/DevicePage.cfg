SPECIFICATION Spec
CONSTANTS
    d1 = d1
    d2 = d2
    Device = {d1, d2}
    Tag = {"core"}
    NoDevice = NoDevice
    MaxRequests = 2
    Scopes <- OnesAndTwos
SYMMETRY DeviceSymmetry
INVARIANTS TypeOK RequestsStayWithTheirDevice TagEditsSurvive RunningRollbackIsShown
CHECK_DEADLOCK FALSE
