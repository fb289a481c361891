SPECIFICATION Spec
CONSTANTS
    G = {g1, g2, g3}
    Data <- MCData
    Malformed <- MCMalformed
    MaxDecodes = 3
SYMMETRY Symmetry
INVARIANTS SharedNotWritten DecodesAlone
CHECK_DEADLOCK FALSE
