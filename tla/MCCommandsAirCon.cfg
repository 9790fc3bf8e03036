SPECIFICATION Spec
CONSTANTS
    Numbers <- NoNumbers
    MaxItems = 0
    MaxRequests = 1
    Operations = {"airCon"}
INVARIANTS
    AirConAgrees
