\* Two aggregates, statements of one or two expressions, one nested in another.
CONSTANTS
    Mean = Mean
    Spread = Spread
    AggregateNames <- MCAggregateNames
    MaxDepth = 3
    MaxUses = 2
    MaxRows = 3
SPECIFICATION Spec
INVARIANT FoldsItsRows
VIEW AggregatesView
SYMMETRY MCSymmetry
