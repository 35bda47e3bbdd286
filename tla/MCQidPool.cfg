CONSTANTS
    PoolSize = 4
    Holders = {h1, h2, h3, h4}
SYMMETRY Symmetry
SPECIFICATION Spec
INVARIANTS
    IInv
    Conserved
PROPERTY ImplementsAllocator
