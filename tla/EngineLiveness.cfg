SPECIFICATION FairSpec
CONSTANTS
    a = a
    b = b
    downA = downA
    downB = downB
    portA = portA
    portB = portB
    cpuA = cpuA
    memA = memA
    cpuB = cpuB
    downRule = downRule
    portRule = portRule
    cpuRule = cpuRule
    memRule = memRule
    NoAlert = NoAlert
    NoDevice = NoDevice
    Gone = Gone
    NoRule = NoRule
    Alert = {downA, memA}
    Device = {a}
    Rule = {downRule, memRule}
    DeviceOf <- DeviceOfDef
    Remote <- RemoteDef
    RuleOrder <- InOrder
    RuleOf <- ByKind
    Config <- SlowConfig
    Switched = {memRule}
    Topology <- Linked
    StormLimit = 0
    CountOutcomes = {"count"}
    MaxRecent = 0
    HousekeepingEvery = 1
    AutoClose = FALSE
    Retention = FALSE
    Events = {"months"}
    MaxFaults = 0
PROPERTIES BreachGetsAlert ClearGetsResolved OrphansRecover
