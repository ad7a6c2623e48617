SPECIFICATION Spec
CONSTANTS
    a = a
    b = b
    c = c
    downA = downA
    downA2 = downA2
    downB = downB
    downC = downC
    ifAB = ifAB
    ifBA = ifBA
    Alert <- AllAlerts
    Device <- ThreeDevices
    DeviceOf <- DeviceOfDef
    Remote <- RemoteDef
    DownAlerts <- DownAlertsDef
    LinkAlerts <- LinkAlertsDef
    NoAlert = NoAlert
    NoDevice = NoDevice
INVARIANTS CascadeIsExplained RootsAreNotCasualties SomeRootCauseRemains
CHECK_DEADLOCK FALSE
