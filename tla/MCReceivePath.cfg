SPECIFICATION Spec
CONSTANTS
    Registers = {r1, r2}
    Bytes = {x, y}
    MaxLength = 2
    Bits = {b1}
    Unset = Unset
    MaxMessages = 3
    MaxDisruptions = 1
SYMMETRY Symmetry
INVARIANTS
    ModelMirrors
    EventsShowModel
    AnswerPerStore
    StoresReported
PROPERTIES
    HandledInOrder
    EventsDelivered
