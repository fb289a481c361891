SPECIFICATION Spec
CONSTANTS
    G = {g1, g2, g3}
    Call = {i1, i2, i3}
    None = None
    MaxShutdowns = 2
SYMMETRY Symmetry
INVARIANTS RuntimeUsable QuietMeansClean
CHECK_DEADLOCK FALSE
