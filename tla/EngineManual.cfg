SPECIFICATION Spec
CONSTANTS
    a = a
    b = b
    downA = downA
    downB = downB
    portA = portA
    portB = portB
    cpuA = cpuA
    memA = memA
    cpuB = cpuB
    downRule = downRule
    portRule = portRule
    cpuRule = cpuRule
    memRule = memRule
    NoAlert = NoAlert
    NoDevice = NoDevice
    Gone = Gone
    NoRule = NoRule
    Alert = {cpuA, memA}
    Device = {a}
    Rule = {cpuRule}
    DeviceOf <- DeviceOfDef
    Remote <- RemoteDef
    RuleOrder <- InOrder
    RuleOf <- OneCpuRule
    Config <- PlainConfig
    Switched = {}
    Topology <- Linked
    StormLimit = 1
    CountOutcomes = {"count", "error"}
    MaxRecent = 3
    HousekeepingEvery = 1
    AutoClose = TRUE
    Retention = TRUE
    Events = {"restart", "resolve"}
    MaxFaults = 1
PROPERTY ManualResolveHolds
INVARIANT StormOvershootBound
SYMMETRY Twins
