\* Every array of up to four of some numbers, zeros, infinities and NaN in all positions
\* that matter, scalars at the ends of a 4 bit int, and one item of every other kind.
CONSTANTS
    Flags <- MCFlags
    Compressors <- MCCompressors
    Quantizers <- MCQuantizers
    NoValue = NoValue
    Top = 16
    Mask = 4
    FloatBits = 4
    Log <- MCLog
    Items <- MCItems
    IntBits = 4
    ElementSize <- MCElementSize
    StreamSize = 100
SPECIFICATION StoredSpec
INVARIANTS StoredTypeOK TypedBlobsComeBack SimpleValuesComeBack
VIEW StoredView
