SPECIFICATION Spec
CONSTANTS
    a = a
    b = b
    downA = downA
    downB = downB
    portA = portA
    portB = portB
    cpuA = cpuA
    memA = memA
    cpuB = cpuB
    downRule = downRule
    portRule = portRule
    cpuRule = cpuRule
    memRule = memRule
    NoAlert = NoAlert
    NoDevice = NoDevice
    Gone = Gone
    NoRule = NoRule
    Alert = {downA, downB}
    Device = {a, b}
    Rule = {downRule}
    DeviceOf <- DeviceOfDef
    Remote <- RemoteDef
    RuleOrder <- InOrder
    RuleOf <- ByKind
    Config <- PlainConfig
    Switched = {}
    Topology <- Linked
    StormLimit = 0
    CountOutcomes = {"count"}
    MaxRecent = 0
    HousekeepingEvery = 2
    AutoClose = FALSE
    Retention = FALSE
    Events = {}
    MaxFaults = 0
INVARIANT IncidentStaysVisible
