CONSTANTS
    s1 = s1
    s2 = s2
    a1 = a1
    Signals = {s1, s2}
    Assets = {a1}
    AssetOf <- MCAssetOf
    MaxTaken = 2
    BatchCount = 2
    Attempts = 2
    MaxCrashes = 1
    MaxDbFails = 1
    MaxRedisFails = 2
SPECIFICATION Spec
SYMMETRY Symmetry
INVARIANTS
    TypeOK
    AckedIsDurable
    MemoryIsRecoverable
    FaultFreeExactlyOnce
    BookingsBoundedByFaults
    BooksInOrder
PROPERTIES
    Settles
CONSTRAINT TwoFaults
