SPECIFICATION Spec
CONSTANTS
    Callers = {k1, k2}
    Services = {s1, s2}
    Addresses = {a1, a2}
    Conns = {1, 2, 3}
    NoConn = 0
    MaxGeneration = 4
SYMMETRY Symmetry
INVARIANTS  OwnedUnlessRivalled RetiredAddressesLeave
