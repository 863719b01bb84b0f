SPECIFICATION Spec
CONSTANTS
    Containers = {a, b}
    None = None
    MaxGen = 3
    Faults = {"takeover", "transient", "corrupt"}
SYMMETRY Symmetry
INVARIANTS TypeOK HolderNeverRefused StoreNotBehind
PROPERTIES PointerAdvances
