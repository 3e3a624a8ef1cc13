---------------------------- MODULE ResultColumns ----------------------------
(***************************************************************************)
(* The rows of a query on their way to MATLAB.  They are collected by      *)
(* column (ValueSQLCol): as doubles as long as all values are doubles, as  *)
(* values of any type from the first one on that is not.  The columns are  *)
(* then turned into an array of structs, a struct of arrays or a matrix.   *)
(*                                                                         *)
(* Between two rows a SQL function may run MATLAB code that changes the    *)
(* settings NULLasNaN and result_type.  The result is made in one step.    *)
(***************************************************************************)
EXTENDS Integers, Sequences

CONSTANTS
    IntMin, IntMax,     \* the range of sqlite3_int64
    Double(_),          \* the double nearest to an integer
    Floats,             \* the doubles SQLite stores
    Texts,
    Blobs,
    Unreadable,         \* the BLOBs no item can be made of
    NaN, Empty,         \* a double NaN, the item []
    MaxCells            \* bound: columns, and values of a query

Int64 == IntMin .. IntMax

ASSUME RangeAssumption ==
    /\ IntMin \in Int /\ IntMax \in Int /\ IntMin <= IntMax
    /\ \A n \in Int64 : Double(n) \in Int
    /\ NaN \notin Floats /\ MaxCells \in Nat

\* A double, whether it came as one, as an integer or as a NULL.
Doubles == {Double(n) : n \in Int64} \union Floats \union {NaN}

\* What sqlite3_column_type and its like deliver.  SQLite has no NaN.
Values ==
    ({"integer"} \X Int64) \union ({"float"} \X Floats)
      \union ({"text"} \X Texts) \union ({"blob"} \X Blobs) \union {<<"null", Empty>>}

\* What a column holds: a float may now also come from an integer or a NULL.
Kept == Values \union ({"float"} \X Doubles)

Null == <<"null", Empty>>

VARIABLES
    cols,           \* ValueSQLCols: m_isAnyType, m_float, m_any by column
    rows,           \* the rows SQLite delivered
    asNaN,          \* by row: NULLasNaN when it was delivered
    columns,        \* how many columns the statement has
    phase,          \* "fetching", "returned" or "failed"
    result,
    g_NULLasNaN,
    g_result_type

columnVars == <<cols, rows, asNaN, columns, phase, result, g_NULLasNaN, g_result_type>>

NoResult == [layout |-> "none"]

-----------------------------------------------------------------------------
(* A column *)

NewColumn == [m_isAnyType |-> FALSE, m_float |-> <<>>, m_any |-> <<>>]

Size(col) == IF col.m_isAnyType THEN Len(col.m_any) ELSE Len(col.m_float)

At(col, k) == IF col.m_isAnyType THEN col.m_any[k] ELSE <<"float", col.m_float[k]>>

\* Mutant of swapToAnyType: the doubles are dropped.
swapForgets(col) ==
    IF col.m_isAnyType THEN col
    ELSE [m_isAnyType |-> TRUE, m_float |-> <<>>, m_any |-> <<>>]

swapToAnyType(col) ==
    IF col.m_isAnyType THEN col
    ELSE [m_isAnyType |-> TRUE, m_float |-> <<>>,
          m_any |-> [k \in 1 .. Len(col.m_float) |-> <<"float", col.m_float[k]>>]]

AppendDouble(col, x) ==
    IF col.m_isAnyType THEN [col EXCEPT !.m_any = Append(@, <<"float", x>>)]
    ELSE [col EXCEPT !.m_float = Append(@, x)]

AppendAny(col, value) ==
    [swapToAnyType(col) EXCEPT !.m_any = Append(@, value)]

\* The cast of a double to sqlite3_int64.  Out of range it is undefined: processors
\* give the least integer, or the nearest.
CastBack(x) ==
    IF x \in Int64 THEN {x} ELSE {IntMin, IF x > IntMax THEN IntMax ELSE IntMin}

\* A double if the integer survives the way there and back.
AppendInteger(col, n) ==
    {IF back = n THEN AppendDouble(col, Double(n)) ELSE AppendAny(col, <<"integer", n>>) :
        back \in CastBack(Double(n))}

\* Mutant of AppendValue: a NULL is put among the doubles.
AppendValueAnywhere(col, value, nan) ==
    CASE value[1] = "float" -> {AppendDouble(col, value[2])}
      [] value[1] = "integer" -> AppendInteger(col, value[2])
      [] value[1] = "null" -> {AppendDouble(col, IF nan THEN NaN ELSE Empty)}
      [] value[1] \in {"text", "blob"} -> {AppendAny(col, value)}

\* The columns that may result when a value is appended.
AppendValue(col, value, nan) ==
    CASE value[1] = "float" -> {AppendDouble(col, value[2])}
      [] value[1] = "integer" -> AppendInteger(col, value[2])
      [] value[1] = "null" -> {IF nan THEN AppendDouble(col, NaN) ELSE AppendAny(col, Null)}
      [] value[1] \in {"text", "blob"} -> {AppendAny(col, value)}

-----------------------------------------------------------------------------
(* The result *)

\* Mutant of createItem: a NULL is [] whatever the setting.
createItemEmpty(value, nan) ==
    CASE value[1] = "null" -> <<"double", Empty>>
      [] value[1] = "integer" -> <<"int64", value[2]>>
      [] value[1] = "float" -> <<"double", value[2]>>
      [] value[1] = "text" -> <<"char", value[2]>>
      [] value[1] = "blob" -> <<"array", value[2]>>

createItem(value, nan) ==
    CASE value[1] = "null" -> <<"double", IF nan THEN NaN ELSE Empty>>
      [] value[1] = "integer" -> <<"int64", value[2]>>
      [] value[1] = "float" -> <<"double", value[2]>>
      [] value[1] = "text" -> <<"char", value[2]>>
      [] value[1] = "blob" -> <<"array", value[2]>>

\* An item that cannot be made ends the command with an error.
CanCreate(cs) ==
    \A c \in DOMAIN cs : \A k \in 1 .. Size(cs[c]) :
        At(cs[c], k)[1] = "blob" => At(cs[c], k)[2] \notin Unreadable

createResultAsArrayOfStructs(cs, nan) ==
    [layout |-> "structs",
     structs |-> [r \in 1 .. Size(cs[1]) |->
        [c \in DOMAIN cs |-> createItem(At(cs[c], r), nan)]]]

\* A column of doubles is an array of doubles, any other one a cell array.
createResultAsStructOfArrays(cs, nan) ==
    [layout |-> "arrays",
     size |-> Size(cs[1]),
     fields |-> [c \in DOMAIN cs |->
        [numeric |-> ~cs[c].m_isAnyType,
         elements |-> [r \in 1 .. Size(cs[1]) |-> createItem(At(cs[c], r), nan)]]]]

\* Mutant of Place: the elements of a row lie side by side.
PlaceByRow(c, r, height, width) == (r - 1) * width + c

\* Where in the matrix the element of a column and row lies.
Place(c, r, height, width) == (c - 1) * height + r

\* Mutant of AllFloat: the last column decides.
AllFloatLast(cs) == ~cs[Len(cs)].m_isAnyType

AllFloat(cs) == \A c \in DOMAIN cs : ~cs[c].m_isAnyType

createResultAsMatrix(cs, nan) ==
    LET height == Size(cs[1])
        width == Len(cs)
        from(k) == CHOOSE p \in (1 .. width) \X (1 .. height) :
                       Place(p[1], p[2], height, width) = k
    IN  [layout |-> "matrix",
         numeric |-> AllFloat(cs),
         size |-> <<height, width>>,
         elements |-> [k \in 1 .. height * width |->
                          createItem(At(cs[from(k)[1]], from(k)[2]), nan)]]

createResult(cs, type, nan) ==
    IF Len(cs) = 0 THEN [layout |-> "empty"]
    ELSE CASE type = 0 -> createResultAsArrayOfStructs(cs, nan)
           [] type = 1 -> createResultAsStructOfArrays(cs, nan)
           [] type = 2 -> createResultAsMatrix(cs, nan)

-----------------------------------------------------------------------------
Init ==
    /\ cols = <<>>
    /\ rows = <<>>
    /\ asNaN = <<>>
    /\ columns = 0
    /\ phase = "failed"
    /\ result = NoResult
    /\ g_NULLasNaN = FALSE
    /\ g_result_type = 0

\* A statement is begun.
Begin ==
    /\ phase # "fetching"
    /\ columns' \in 0 .. MaxCells
    /\ cols' = [c \in 1 .. columns' |-> NewColumn]
    /\ rows' = <<>>
    /\ asNaN' = <<>>
    /\ phase' = "fetching"
    /\ result' = NoResult
    /\ UNCHANGED <<g_NULLasNaN, g_result_type>>

\* SQLite has a row: one more element for every column.
FetchRow ==
    /\ phase = "fetching"
    /\ columns > 0 /\ (Len(rows) + 1) * columns <= MaxCells
    /\ \E row \in [1 .. columns -> Values] :
          /\ rows' = Append(rows, row)
          /\ cols' \in [1 .. columns -> UNION {AppendValue(cols[c], row[c], g_NULLasNaN) :
                                               c \in 1 .. columns}]
          /\ \A c \in 1 .. columns : cols'[c] \in AppendValue(cols[c], row[c], g_NULLasNaN)
    /\ asNaN' = Append(asNaN, g_NULLasNaN)
    /\ UNCHANGED <<columns, phase, result, g_NULLasNaN, g_result_type>>

\* SQLite reports an error, or memory runs out in the middle of a row.
FetchFails ==
    /\ phase = "fetching"
    /\ phase' = "failed"
    /\ cols' = <<>>
    /\ UNCHANGED <<rows, asNaN, columns, result, g_NULLasNaN, g_result_type>>

\* SQLite has no more rows.
CreateResult ==
    /\ phase = "fetching"
    /\ IF CanCreate(cols)
       THEN /\ phase' = "returned"
            /\ result' = createResult(cols, g_result_type, g_NULLasNaN)
       ELSE /\ phase' = "failed"
            /\ UNCHANGED result
    /\ cols' = <<>>
    /\ UNCHANGED <<rows, asNaN, columns, g_NULLasNaN, g_result_type>>

\* 'NULLasNaN' or 'result_type', by the user or by a function SQLite calls.
ChangeSetting ==
    /\ \/ g_NULLasNaN' \in BOOLEAN /\ UNCHANGED g_result_type
       \/ g_result_type' \in 0 .. 2 /\ UNCHANGED g_NULLasNaN
    /\ UNCHANGED <<cols, rows, asNaN, columns, phase, result>>

Next == Begin \/ FetchRow \/ FetchFails \/ CreateResult \/ ChangeSetting

Spec == Init /\ [][Next]_columnVars

-----------------------------------------------------------------------------
(* Properties *)

ColumnType == [m_isAnyType : BOOLEAN, m_float : Seq(Doubles), m_any : Seq(Kept)]

ResultColumnsTypeOK ==
    /\ columns \in 0 .. MaxCells
    /\ phase \in {"fetching", "returned", "failed"}
    /\ cols \in Seq(ColumnType)
    /\ rows \in Seq([1 .. columns -> Values])
    /\ asNaN \in Seq(BOOLEAN)
    /\ Len(asNaN) = Len(rows)
    /\ g_NULLasNaN \in BOOLEAN
    /\ g_result_type \in 0 .. 2
    /\ phase # "returned" => result = NoResult

\* What a column may hold for a value: the value, but for an integer the double that
\* equals it, where there is one (or where the cast back was undefined), and for a
\* NULL a NaN if NULLasNaN was set then.
Holds(kept, value, nan) ==
    CASE value[1] = "integer" ->
            \/ kept = value /\ Double(value[2]) # value[2]
            \/ /\ kept = <<"float", Double(value[2])>>
               /\ Double(value[2]) = value[2] \/ Double(value[2]) \notin Int64
      [] value[1] = "null" -> kept = IF nan THEN <<"float", NaN>> ELSE Null
      [] OTHER -> kept = value

\* While rows are fetched all columns are as long as the rows delivered, and each has
\* the values of its column in their order, through the change of its storage
\* (swapToAnyType); only values of a column that has not changed are plain doubles.
ColumnsHoldTheRows ==
    phase = "fetching" =>
        /\ Len(cols) = columns
        /\ \A c \in 1 .. columns :
              /\ Size(cols[c]) = Len(rows)
              /\ \A k \in 1 .. Len(rows) : Holds(At(cols[c], k), rows[k][c], asNaN[k])

\* The element of a result by row and column, as MATLAB code gets it: s(r).c,
\* s.c(r) or M(r,c).
Element(res, r, c) ==
    CASE res.layout = "structs" -> res.structs[r][c]
      [] res.layout = "arrays" -> res.fields[c].elements[r]
      [] res.layout = "matrix" -> res.elements[(c - 1) * res.size[1] + r]

Height(res) ==
    CASE res.layout = "structs" -> Len(res.structs)
      [] res.layout = "arrays" -> res.size
      [] res.layout = "matrix" -> res.size[1]
      [] OTHER -> 0

TableOf(res) ==
    [r \in 1 .. Height(res) |-> [c \in 1 .. columns |-> Element(res, r, c)]]

\* An integer is a double unless that is another number; a NULL is NaN or [].
Stands(item, value) ==
    CASE value[1] = "integer" ->
            \/ item = <<"int64", value[2]>> /\ Double(value[2]) # value[2]
            \/ /\ item = <<"double", Double(value[2])>>
               /\ Double(value[2]) = value[2] \/ Double(value[2]) \notin Int64
      [] value[1] = "null" -> item \in {<<"double", NaN>>, <<"double", Empty>>}
      [] value[1] = "float" -> item = <<"double", value[2]>>
      [] value[1] = "text" -> item = <<"char", value[2]>>
      [] value[1] = "blob" -> item = <<"array", value[2]>> /\ value[2] \notin Unreadable

Q == INSTANCE QueryResult WITH Value <- Values, table <- TableOf(result)

\* Whatever its layout, the result is the table of the rows SQLite delivered.
ReturnsTheRows == Q!QuerySpec

\* A NULL of the result is NaN if NULLasNaN was set when its row was fetched or is set
\* when the result is made, and [] if at neither time.
NullsFollowTheSetting ==
    [][phase = "fetching" /\ phase' = "returned" =>
          \A r \in 1 .. Len(rows), c \in 1 .. columns :
              rows[r][c] = Null =>
                  Element(result', r, c) =
                      <<"double", IF asNaN[r] \/ g_NULLasNaN THEN NaN ELSE Empty>>
      ]_columnVars

\* Where the result has a numeric array, all its elements are doubles: an integer that
\* is none, a text or an empty NULL in any row makes it a cell array.
NumericArraysHoldDoubles ==
    phase = "returned" =>
        \A r \in 1 .. Height(result), c \in 1 .. columns :
            \/ result.layout = "arrays" /\ result.fields[c].numeric
            \/ result.layout = "matrix" /\ result.numeric
            => Element(result, r, c) \in {"double"} \X Doubles
=============================================================================
