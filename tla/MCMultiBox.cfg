SPECIFICATION Spec
CONSTANTS
    NumColors = 3
    MAX_OVERLAP = 20
    MARGINAL_CORRELATION = 75
    MIN_CORRELATION = 30
    Ids = {i1, i2, i3, i4}
    NullObject = null
    Positions <- MCPositions
    Overlap <- MCOverlap
    Scores = {1, 2, 3}
    Correlations = {29, 75, 76}
    MaxResults = 2
SYMMETRY MCSymmetry
INVARIANTS
    ColorsConserved
    RegistryMatchesList
PROPERTIES
    PlacedClear
    StrongTrackSurvives
