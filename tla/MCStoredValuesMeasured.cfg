\* As MCStoredValues.
CONSTANTS
    Flags <- MCFlags
    Compressors <- MCCompressors
    Quantizers <- MCQuantizers
    NoValue = NoValue
    Top = 16
    Mask = 4
    FloatBits = 4
    Log <- MCLog
    Items <- MCItems
    IntBits = 4
    ElementSize <- MCElementSize
    StreamSize = 100
SPECIFICATION StoredSpec
INVARIANTS MeasuredBlobsComeBack
VIEW StoredView
