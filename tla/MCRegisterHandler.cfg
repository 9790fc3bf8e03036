SPECIFICATION Spec
CONSTANTS
    Keys = {none, k1, k2}
    NoXOR = none
    Places = 2
    Greetings = {"start", "connected"}
    MaxQueued = 2
    MaxDisruptions = 2
    MaxChanges = 1
INVARIANTS
    CompletedOnce
    AskedOnEachConnection
PROPERTIES
    HandlerCompletes
