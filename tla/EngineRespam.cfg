SPECIFICATION Spec
CONSTANTS
    a = a
    b = b
    downA = downA
    downB = downB
    portA = portA
    portB = portB
    cpuA = cpuA
    memA = memA
    cpuB = cpuB
    downRule = downRule
    portRule = portRule
    cpuRule = cpuRule
    memRule = memRule
    NoAlert = NoAlert
    NoDevice = NoDevice
    Gone = Gone
    NoRule = NoRule
    Alert = {cpuA, memA}
    Device = {a}
    Rule = {cpuRule, memRule}
    DeviceOf <- DeviceOfDef
    Remote <- RemoteDef
    RuleOrder <- InOrder
    RuleOf <- ByKind
    Config <- PlainConfig
    Switched = {}
    Topology <- Linked
    StormLimit = 0
    CountOutcomes = {"count"}
    MaxRecent = 0
    HousekeepingEvery = 1
    AutoClose = FALSE
    Retention = FALSE
    Events = {"resolve"}
    MaxFaults = 0
PROPERTY ManualResolveHolds
