\* Four values and two placeholders, the cases of the table in the source.
CONSTANTS
    Flags <- MCFlags
    Compressors <- MCCompressors
    Quantizers = {}
    NoValue = NoValue
    MaxArgs = 4
    MaxNeeded = 2
    MaxRows = 1
SPECIFICATION StatementSpec
INVARIANTS StatementTypeOK MismatchExecutesNothing AnswerIsComplete
PROPERTIES BatchSpec
VIEW StatementView
