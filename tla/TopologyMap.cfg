SPECIFICATION Spec
CONSTANTS
    Device <- Three
    TypeOf <- ThreeTypes
    Snapshots <- Answers
    Paths <- Traces
    MaxActs = 4
INVARIANTS TypeOK MapShowsWhatIsChosen GatewayIsOnTop
PROPERTY RedrawMovesNothing
CHECK_DEADLOCK FALSE
