SPECIFICATION Spec
CONSTANTS
    Registers = {r1, r2}
    Values = {v1}
    Keys = {NoXOR, k1, k2}
    NoXOR = NoXOR
    Free = Free
    MaxUpdateCallbacks = 2
    MaxEventHandlers = 3
    MaxUserHandlers = 2
    MaxInFlight = 1
    MaxDisruptions = 2
SYMMETRY Symmetry
INVARIANTS
    TypeOK
    CountMatchesSlots
    PendingHasHandler
    KeyAgreement
    PendingCovered
PROPERTIES
    SlotKeptUntilAck
    HandlersKept
