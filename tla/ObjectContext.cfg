SPECIFICATION Spec
CONSTANTS
    Callers = {c1, c2, c3}
    MaxGetErrors = 2
INVARIANTS
    TypeOK
    AtMostOnce
    EnsureUpdateIsHonest
PROPERTIES
    NoLostUpdate
    CallsReturn
    ImplementsAtomic
