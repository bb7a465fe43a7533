SPECIFICATION ClientSpec
CONSTANTS
    Collector = {c1, c2}
    Runner = Runner
    Capacity = 2
    MaxMessages = 3
    MaxConns = 2
    Item = {1, 2, 3}
    Empty = Empty
    cap = 2
INVARIANTS OnePlaceInTheRing FlagFollowsSession
PROPERTIES RunStops ImplementsKeepLast
CHECK_DEADLOCK FALSE
