SPECIFICATION Spec
CONSTANTS
    Addr = {a1, a2, a3}
    Unknown = Unknown
    MaxFound = 1
    AddressChanges = TRUE
    Settles = FALSE
SYMMETRY AddrSymmetry
INVARIANTS
    RefusesForeignOnly
