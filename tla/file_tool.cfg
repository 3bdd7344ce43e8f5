SPECIFICATION Spec
CONSTANTS
    Procs = {p1, p2, p3}
    Calls <- MCCalls
    Paths = {"a", "b", "4"}
    Numbers = {"4"}
    Initial <- MCInitial
    Data <- MCData
    Nil = Nil
SYMMETRY MCSymmetry
INVARIANTS TypeOK SuccessIsWritten DecodeFaithful TornIsNoFrame
PROPERTY ChangedByResult
CHECK_DEADLOCK FALSE
