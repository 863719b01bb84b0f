CONSTANTS
    none = none
    None = none
    Conns = {1, 2, 3}
    Scripts <- MCScripts
    Requests = {"http", "pin", "sse", "tunnel", "send", "cancel", "abort", "close", "denied", "synthetic"}
    Op <- MCOp
    Target <- MCTarget
    Modes = {"sse", "json", "frame"}
    Tokens = {"k"}
    MaxEvents = 3
    MaxAttempts = 2
    MaxChunks = 2
    Deltas = 1
    Batch = 2
    MaxDeaths = 1
SPECIFICATION FairSpec
INVARIANT NoHoles
INVARIANT OneAttemptPerStream
INVARIANT RunsOnce
INVARIANT NoTunnelLeak
INVARIANT FramesDeliveredOnce
PROPERTY GatewayServesAgain
PROPERTY ExecutionsEnd
CHECK_DEADLOCK FALSE
