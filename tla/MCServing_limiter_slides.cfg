SPECIFICATION ServingSpec
CONSTANTS
    Servers = {1, 2}
    Front = 1
    ConnectTries = 2
    CrashBound = 3
    RateLimit = 5
    Window = 3
INVARIANTS OneLimitInAnyWindow
