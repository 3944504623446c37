SPECIFICATION Spec
CONSTANTS
    CountBytes = 2
    SizeBytes = 3
    WordBytes = 2
    ObjectBytes = 8
    ReceiveBufferSize = 12
    MinRoom = 3
    MaxMessageSize = 24
    Settings <- MCSettings
INVARIANTS
    TypeOK
    SizeOfAgrees
    DeliveredAsSaid
    NothingIsLost
