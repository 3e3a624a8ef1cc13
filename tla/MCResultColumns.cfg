\* One value of each kind, three integers; one to four columns, up to four values.
CONSTANTS
    half = half
    text = text
    foreign = foreign
    NaN = NaN
    Empty = Empty
    IntMin = 1
    IntMax = 3
    Double <- MCDouble
    Floats <- MCFloats
    Texts <- MCTexts
    Blobs <- MCBlobs
    Unreadable <- MCUnreadable
    MaxCells = 4
SPECIFICATION Spec
INVARIANTS ResultColumnsTypeOK ColumnsHoldTheRows NumericArraysHoldDoubles
PROPERTIES ReturnsTheRows NullsFollowTheSetting
