SPECIFICATION Spec
CONSTANTS
    Containers = {a, b, c}
    None = None
    MaxGen = 3
    Faults = {"takeover"}
SYMMETRY Symmetry
INVARIANT OneChain
