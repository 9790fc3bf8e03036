SPECIFICATION FairSpec
CONSTANTS
    Keys = {none, k1, k2}
    NoXOR = none
    Places = 2
    Unset = Unset
    MaxDisruptions = 2
    MaxChanges = 1
INVARIANTS
    CompleteIsRegistered
    NotMissed
PROPERTIES
    RegistrationCompletes
