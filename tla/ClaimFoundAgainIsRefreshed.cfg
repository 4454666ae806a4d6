SPECIFICATION Spec
CONSTANTS
    Names <- MCNames
    Reported <- MCReported
    Domains <- MCDomains
    Addresses = {"p"}
    Marks = {m1, m2}
    NoMark = NoMark
    InvalidLabels <- MCInvalidLabels
    NmapRuns <- MCNmapRuns
    MaxRows = 3
    MaxFresh = 2
INVARIANT FoundAgainIsRefreshed

CHECK_DEADLOCK FALSE
SYMMETRY RowSymmetry
