SPECIFICATION Spec
CONSTANTS
    Batches = {b1, b2, b3}
    Readers = {r1}
    Limits = {1, 2}
    MaxFaults = 1
    None = None
SYMMETRY MCSymmetry
INVARIANTS ReadableAtRest
