SPECIFICATION FairOutcome
CONSTANTS
    Registers = {r1}
    Values = {v1, v2}
    Keys = {NoXOR, k1, k2}
    NoXOR = NoXOR
    Free = Free
    Unset = Unset
    MaxUpdateCallbacks = 2
    MaxEventHandlers = 2
    MaxUserHandlers = 1
    MaxInFlight = 1
    MaxDisruptions = 1
INVARIANTS
    SettledAsAsked
PROPERTIES
    WritesImplemented
    DeliveryEnds
    UpdatesComplete
