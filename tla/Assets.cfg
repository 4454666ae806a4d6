SPECIFICATION Spec
CONSTANTS
    Names <- MCNames
    Reported <- MCReported
    Domains <- MCDomains
    Addresses = {"p"}
    Marks = {m1, m2}
    NoMark = NoMark
    InvalidLabels <- MCInvalidLabels
    NmapRuns <- MCNmapRuns
    MaxRows = 3
    MaxFresh = 2
INVARIANT AssetsInv
INVARIANT OtherDomainsStay
INVARIANT MergeUpserts
INVARIANT RescanSettles
INVARIANT TargetsCover
INVARIANT OneGroupPerHost
INVARIANT RefinesSetMerge
PROPERTY NoRowIsLost
CHECK_DEADLOCK FALSE
SYMMETRY RowSymmetry
