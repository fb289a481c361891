SPECIFICATION FairSpec
CONSTANTS
    Source <- Values
    Unknown = {1}
INVARIANTS OneRuns SleepersAwaited NoProtocolError ConvertsWhole
PROPERTIES BothEnd
