SPECIFICATION P2pFairSpec
CONSTANTS
    Agents = {b1}
    Endpoints = {e1, e2}
    NoEndpoint = NoEndpoint
    WgMayFail = TRUE
INVARIANTS RelayUnlessWatched ReportedAreDirect
PROPERTIES DeadTunnelDropped GoneTunnelDropped BackoffRetried
CHECK_DEADLOCK FALSE
