SPECIFICATION Spec
CONSTANTS
    Containers = {a, b}
    None = None
    MaxGen = 4
    Faults = {"answer"}
SYMMETRY Symmetry
INVARIANTS OneChain
PROPERTIES ImplementsHistory
