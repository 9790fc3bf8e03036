SPECIFICATION Spec
CONSTANTS
    Numbers <- MCNumbers
    MaxItems = 1
    MaxRequests = 1
    Operations = {}
PROPERTIES
    OutOfRangeRejected
