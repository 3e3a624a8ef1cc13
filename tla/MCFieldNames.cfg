\* Names hold 4 characters; the limit is 4 instead of 100, so that columns with
\* equal names reach it.
CONSTANTS
    namelengthmax = 4
    Limit = 4
    ColumnNames <- MCColumnNames
    Letters <- MCLetters
    MaxColumns = 5
SPECIFICATION Spec
INVARIANTS FieldNamesTypeOK Distinct AllValid GoodNamesStay
PROPERTIES SearchEnds
CHECK_DEADLOCK FALSE
