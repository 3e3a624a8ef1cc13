\* Two aggregates, statements of one or two expressions, up to three deep.
CONSTANTS
    Mean = Mean
    Spread = Spread
    AggregateNames <- MCAggregateNames
    MaxDepth = 3
    MaxUses = 2
    MaxRows = 3
SPECIFICATION Spec
INVARIANTS AggregatesTypeOK UndisturbedFoldsItsRows NoGroupOutlivesItsResult
VIEW AggregatesView
SYMMETRY MCSymmetry
