SPECIFICATION Spec
CONSTANTS
    a = a
    b = b
    downA = downA
    downB = downB
    portA = portA
    portB = portB
    cpuA = cpuA
    memA = memA
    cpuB = cpuB
    downRule = downRule
    portRule = portRule
    cpuRule = cpuRule
    memRule = memRule
    NoAlert = NoAlert
    NoDevice = NoDevice
    Gone = Gone
    NoRule = NoRule
    Alert = {portA, downB}
    Device = {a, b}
    Rule = {downRule, portRule}
    DeviceOf <- DeviceOfDef
    Remote <- RemoteDef
    RuleOrder <- InOrder
    RuleOf <- ByKind
    Config <- RemindConfig
    Switched = {}
    Topology <- Linked
    StormLimit = 0
    CountOutcomes = {"count"}
    MaxRecent = 0
    HousekeepingEvery = 2
    AutoClose = FALSE
    Retention = FALSE
    Events = {"restart", "maintenance", "report"}
    MaxFaults = 1
INVARIANTS TypeOK AnnouncesWhatIsStored OpenWasAnnounced SuppressedHasCause UnreachableHasAlert ParentIsActive
