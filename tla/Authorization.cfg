SPECIFICATION Spec
CONSTANTS
    G = {x1, x2}
    Tok = {"a", "b", "c"}
    Group = {"g1", "g2", "g3", "g4"}
    Entries <- MCEntries
    Failures <- MCFailures
    Order <- MCOrder
    MaxLen = 3
    Caveat <- MCCaveat
    Call <- MCCall
    Certificate <- MCCertificate
    Introduced <- MCIntroduced
    signatureCacheMaxSize = 2
    MaxCalls = 2
SYMMETRY Symmetry
INVARIANTS CacheSound AcceptsExactly NamesExact AuthorizedExactly PatternLaws
CHECK_DEADLOCK FALSE
