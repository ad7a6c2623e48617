SPECIFICATION FairSpec
CONSTANTS
    d1 = d1
    d2 = d2
    Device <- TwoDevices
    Goroutine <- ThreeGoroutines
    MaxConcurrentDevices = 1
    MaxEdits = 2
    NoDevice = NoDevice
    NoGoroutine = NoGoroutine
INVARIANTS TypeOK LimitRespected EntryIsAPoller SignalReachesAll
PROPERTIES ShutdownStopsPollers ListedDevicesArePolled
CHECK_DEADLOCK FALSE
