CONSTANTS
    c1 = c1
    c2 = c2
    raw = raw
    crypt = crypt
    t1 = t1
    Callers = {c1, c2}
    Files = {raw, crypt}
    Below <- MCBelow
    Types = {t1}
    TypeOf <- MCTypeOf
    MaxLink = 3
    Kinds = {"required", "expiring"}
    Closed <- MCClosed
    None = none
SYMMETRY Symm
SPECIFICATION Spec
INVARIANTS
    TypeOK
    HeldIsOpen
    CounterIsHolders
    ClosedOnce
    NoLeak
PROPERTIES
    ImplementsLease
