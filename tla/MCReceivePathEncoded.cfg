SPECIFICATION Spec
CONSTANTS
    Registers = {r1}
    Bytes = {x}
    MaxLength = 1
    Bits = {b1}
    Unset = Unset
    MaxMessages = 3
    MaxDisruptions = 0
INVARIANTS
    EncodedOnce
