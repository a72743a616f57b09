SPECIFICATION Spec
\* The start is over, or an unloaded plugin was called.
CHECK_DEADLOCK FALSE
CONSTANTS
    N = 3
    Preloads = {1}
    Loads = {1, 2, 3}
    Room = 5
    Messages = 4
    MaxDepth = 2
    Ocbp = 3
INVARIANTS
    TypeOK
    EveryMessageOnce
    RefusedAfterFailures
    RoutedUnlessFailed
    FlatDispatchSafe
    NotSkipped
    FrameOnce
    UpdatedWithData
