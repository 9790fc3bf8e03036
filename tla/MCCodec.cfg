SPECIFICATION Spec
CONSTANTS
    CarCommands <- MCCommands
    Registers = {1}
    Values <- MCValues
    Keys <- MCKeys
    MaxMessages = 2
    MaxRead = 255
INVARIANTS
    FindsReading
    NothingLost
    ReadAsSent
    StagesAgree
