SPECIFICATION Spec
CONSTANTS
    c1 = c1
    c2 = c2
    d1 = d1
    d2 = d2
    Callers = {c1, c2}
    Daemons = {d1, d2}
    Owner <- TwoNetworks
    Nodes = {d1}
    MaxLate = 1
    Client = Client
    None = None
INVARIANTS
    CallsAreOwn
PROPERTIES
    ImplementsPeerCalls
