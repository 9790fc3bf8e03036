SPECIFICATION Spec
CONSTANTS
    Numbers <- MCNumbers
    MaxItems = 2
    MaxRequests = 1
    Operations = {"headLights", "parkingLights", "airCon", "update", "removeACError",
                  "airConMode", "airConMY19"}
INVARIANTS
    OperationsAgree
    OperationsDiffer
    ModesAgree
PROPERTIES
    PlainAsMeant
