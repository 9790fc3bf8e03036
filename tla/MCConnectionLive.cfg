SPECIFICATION LoopSpec
CONSTANTS
    Keys = {k1}
    NoXOR = NoXOR
    NoPing = NoPing
    Unconnected = Unconnected
    MaxRetries = 1
    PingModulus = 2
    SyncPeriod = 2
    MaxMessages = 1
    MaxDisruptions = 2
PROPERTIES
    KeepsTurning
    StaysConnected
