SPECIFICATION Spec
CONSTANTS
    TypeTable <- Table
    Sessions <- MCSessions
    KeepRaws = FALSE
INVARIANTS Decodes ForwardedDecodes NothingCarriedOver
