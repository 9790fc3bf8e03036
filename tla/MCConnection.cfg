SPECIFICATION Spec
CONSTANTS
    Keys = {k1}
    NoXOR = NoXOR
    NoPing = NoPing
    Unconnected = Unconnected
    MaxRetries = 1
    PingModulus = 3
    SyncPeriod = 2
    MaxMessages = 2
    MaxDisruptions = 2
INVARIANTS
    SocketUsable
    OnlyFailedAbandoned
    NoKeyOfClosed
PROPERTIES
    PingsInOrder
    TimeBeforePing
    NoPlainPing
    ServesCar
