SPECIFICATION FairSpec
CONSTANTS
    CS = {1, 2, 3}
    G = {g1, g2}
    NoCS = NoCS
    MaxDeadlines = 2
CONSTRAINT FewDeadlines
ACTION_CONSTRAINT AllocateInOrder
INVARIANTS NoContextLost QuietMeansClosed
PROPERTIES ScopeSafety ScopeLiveness
CHECK_DEADLOCK FALSE
