------------------------- MODULE ResultColumnsProofs -------------------------
(***************************************************************************)
(* Proofs about ResultColumns, for any integers and any rounding of them,  *)
(* and for queries of any size (MaxCells only has to be a number).         *)
(***************************************************************************)
EXTENDS ResultColumns, SequenceTheorems, TLAPS

-----------------------------------------------------------------------------
(* One column *)

LEMMA DoubleIsDouble == \A n \in Int64 : Double(n) \in Doubles
  BY DEF Doubles

LEMMA AtIsKept ==
  ASSUME NEW col \in ColumnType, NEW k \in 1 .. Size(col)
  PROVE  /\ At(col, k) \in Kept
         /\ ~col.m_isAnyType => At(col, k) \in {"float"} \X Doubles
<1>1. /\ col.m_isAnyType \in BOOLEAN
      /\ col.m_float \in Seq(Doubles)
      /\ col.m_any \in Seq(Kept)
  BY DEF ColumnType
<1>2. CASE col.m_isAnyType
  <2>1. k \in 1 .. Len(col.m_any)
    BY <1>2 DEF Size
  <2>2. col.m_any[k] \in Kept
    BY <1>1, <2>1
  <2>3. QED
    BY <1>2, <2>2 DEF At
<1>3. CASE ~col.m_isAnyType
  <2>1. k \in 1 .. Len(col.m_float)
    BY <1>3 DEF Size
  <2>2. col.m_float[k] \in Doubles
    BY <1>1, <2>1
  <2>3. QED
    BY <1>3, <2>2 DEF At, Kept
<1>4. QED
  BY <1>1, <1>2, <1>3

\* The change of storage keeps every element and its place.
LEMMA SwapKeepsElements ==
  ASSUME NEW col \in ColumnType
  PROVE  /\ swapToAnyType(col) \in ColumnType
         /\ swapToAnyType(col).m_isAnyType
         /\ Size(swapToAnyType(col)) = Size(col)
         /\ \A k \in 1 .. Size(col) : At(swapToAnyType(col), k) = At(col, k)
<1>1. /\ col.m_isAnyType \in BOOLEAN
      /\ col.m_float \in Seq(Doubles)
      /\ col.m_any \in Seq(Kept)
  BY DEF ColumnType
<1>2. CASE col.m_isAnyType
  BY <1>2 DEF swapToAnyType
<1>3. CASE ~col.m_isAnyType
  <2> DEFINE any == [k \in 1 .. Len(col.m_float) |-> <<"float", col.m_float[k]>>]
  <2>1. \A k \in 1 .. Len(col.m_float) : <<"float", col.m_float[k]>> \in Kept
    BY <1>1 DEF Kept
  <2>2. /\ any \in Seq(Kept)
        /\ Len(any) = Len(col.m_float)
        /\ \A k \in 1 .. Len(col.m_float) : any[k] = <<"float", col.m_float[k]>>
    BY <1>1, <2>1
  <2>3. swapToAnyType(col) = [m_isAnyType |-> TRUE, m_float |-> <<>>, m_any |-> any]
    BY <1>3 DEF swapToAnyType
  <2> HIDE DEF any
  <2>4. <<>> \in Seq(Doubles)
    OBVIOUS
  <2>5. swapToAnyType(col) \in ColumnType
    BY <2>2, <2>3, <2>4 DEF ColumnType
  <2>6. QED
    BY <1>3, <2>2, <2>3, <2>5 DEF Size, At
<1>4. QED
  BY <1>1, <1>2, <1>3

\* What appending promises: one more element, the others as they were.
Extends(new, col, kept) ==
    /\ new \in ColumnType
    /\ Size(new) = Size(col) + 1
    /\ \A k \in 1 .. Size(col) : At(new, k) = At(col, k)
    /\ At(new, Size(new)) = kept

LEMMA AppendAnyExtends ==
  ASSUME NEW col \in ColumnType, NEW value \in Kept
  PROVE  Extends(AppendAny(col, value), col, value)
<1> DEFINE any == swapToAnyType(col)
           new == AppendAny(col, value)
<1>1. /\ any \in ColumnType /\ any.m_isAnyType
      /\ Size(any) = Size(col)
      /\ \A k \in 1 .. Size(col) : At(any, k) = At(col, k)
  BY SwapKeepsElements
<1>2. new = [any EXCEPT !.m_any = Append(@, value)]
  BY DEF AppendAny
<1> HIDE DEF any, new
<1>3. /\ any.m_float \in Seq(Doubles) /\ any.m_any \in Seq(Kept)
  BY <1>1 DEF ColumnType
<1>4. /\ Append(any.m_any, value) \in Seq(Kept)
      /\ Len(Append(any.m_any, value)) = Len(any.m_any) + 1
      /\ \A k \in 1 .. Len(any.m_any) : Append(any.m_any, value)[k] = any.m_any[k]
      /\ Append(any.m_any, value)[Len(any.m_any) + 1] = value
  BY <1>3, AppendProperties
<1>5. /\ new.m_isAnyType /\ new.m_any = Append(any.m_any, value)
      /\ new \in ColumnType
  BY <1>1, <1>2, <1>4 DEF ColumnType
<1>6. Size(new) = Size(any) + 1
  BY <1>1, <1>4, <1>5 DEF Size
<1>7. \A k \in 1 .. Size(any) : At(new, k) = At(any, k)
  BY <1>1, <1>4, <1>5 DEF Size, At
<1>8. At(new, Size(new)) = value
  BY <1>1, <1>4, <1>5 DEF Size, At
<1>9. QED
  BY <1>1, <1>5, <1>6, <1>7, <1>8 DEF Extends, new

LEMMA AppendDoubleExtends ==
  ASSUME NEW col \in ColumnType, NEW x \in Doubles
  PROVE  Extends(AppendDouble(col, x), col, <<"float", x>>)
<1>1. /\ col.m_isAnyType \in BOOLEAN
      /\ col.m_float \in Seq(Doubles)
      /\ col.m_any \in Seq(Kept)
  BY DEF ColumnType
<1>2. CASE col.m_isAnyType
  <2>1. <<"float", x>> \in Kept
    BY DEF Kept
  <2>2. AppendDouble(col, x) = AppendAny(col, <<"float", x>>)
    BY <1>2 DEF AppendDouble, AppendAny, swapToAnyType
  <2>3. QED
    BY <2>1, <2>2, AppendAnyExtends
<1>3. CASE ~col.m_isAnyType
  <2> DEFINE new == AppendDouble(col, x)
  <2>1. new = [col EXCEPT !.m_float = Append(@, x)]
    BY <1>3 DEF AppendDouble
  <2> HIDE DEF new
  <2>2. /\ Append(col.m_float, x) \in Seq(Doubles)
        /\ Len(Append(col.m_float, x)) = Len(col.m_float) + 1
        /\ \A k \in 1 .. Len(col.m_float) : Append(col.m_float, x)[k] = col.m_float[k]
        /\ Append(col.m_float, x)[Len(col.m_float) + 1] = x
    BY <1>1, AppendProperties
  <2>3. /\ ~new.m_isAnyType /\ new.m_float = Append(col.m_float, x)
        /\ new \in ColumnType
    BY <1>1, <1>3, <2>1, <2>2 DEF ColumnType
  <2>4. Size(new) = Size(col) + 1
    BY <1>3, <2>2, <2>3 DEF Size
  <2>5. \A k \in 1 .. Size(col) : At(new, k) = At(col, k)
    BY <1>3, <2>2, <2>3 DEF Size, At
  <2>6. At(new, Size(new)) = <<"float", x>>
    BY <2>2, <2>3 DEF Size, At
  <2>7. QED
    BY <2>3, <2>4, <2>5, <2>6 DEF Extends, new
<1>4. QED
  BY <1>1, <1>2, <1>3

\* An integer is appended as a double that equals it, or as it is; where the cast back
\* was undefined it may be the nearest double.
LEMMA AppendIntegerExtends ==
  ASSUME NEW col \in ColumnType, NEW n \in Int64, NEW nan \in BOOLEAN,
         NEW new \in AppendInteger(col, n)
  PROVE  \E kept : Extends(new, col, kept) /\ Holds(kept, <<"integer", n>>, nan)
<1>1. PICK back \in CastBack(Double(n)) :
         new = IF back = n THEN AppendDouble(col, Double(n))
                           ELSE AppendAny(col, <<"integer", n>>)
  BY DEF AppendInteger
<1>2. Double(n) \in Int64 => back = Double(n)
  BY <1>1 DEF CastBack
<1>3. CASE back = n
  <2>1. Extends(new, col, <<"float", Double(n)>>)
    BY <1>1, <1>3, DoubleIsDouble, AppendDoubleExtends
  <2>2. Double(n) = n \/ Double(n) \notin Int64
    BY <1>2, <1>3
  <2>3. Holds(<<"float", Double(n)>>, <<"integer", n>>, nan)
    BY <2>2 DEF Holds
  <2>4. QED
    BY <2>1, <2>3
<1>4. CASE back # n
  <2>1. <<"integer", n>> \in Kept
    BY DEF Kept, Values
  <2>2. Extends(new, col, <<"integer", n>>)
    BY <1>1, <1>4, <2>1, AppendAnyExtends
  <2>3. Double(n) # n
    BY <1>2, <1>4
  <2>4. Holds(<<"integer", n>>, <<"integer", n>>, nan)
    BY <2>3 DEF Holds
  <2>5. QED
    BY <2>2, <2>4
<1>5. QED
  BY <1>3, <1>4

LEMMA AppendValueExtends ==
  ASSUME NEW col \in ColumnType, NEW value \in Values, NEW nan \in BOOLEAN,
         NEW new \in AppendValue(col, value, nan)
  PROVE  \E kept : Extends(new, col, kept) /\ Holds(kept, value, nan)
<1>1. \/ value \in {"integer"} \X Int64
      \/ value \in {"float"} \X Floats
      \/ value \in ({"text"} \X Texts) \union ({"blob"} \X Blobs)
      \/ value = Null
  BY DEF Values, Null
<1>2. CASE value \in {"integer"} \X Int64
  <2>1. value = <<"integer", value[2]>> /\ value[2] \in Int64 /\ value[1] = "integer"
    BY <1>2
  <2>2. new \in AppendInteger(col, value[2])
    BY <2>1 DEF AppendValue
  <2>3. QED
    BY <2>1, <2>2, AppendIntegerExtends
<1>3. CASE value \in {"float"} \X Floats
  <2>1. value = <<"float", value[2]>> /\ value[2] \in Doubles /\ value[1] = "float"
    BY <1>3 DEF Doubles
  <2>2. new = AppendDouble(col, value[2])
    BY <2>1 DEF AppendValue
  <2>3. Extends(new, col, value)
    BY <2>1, <2>2, AppendDoubleExtends
  <2>4. Holds(value, value, nan)
    BY <2>1 DEF Holds
  <2>5. QED
    BY <2>3, <2>4
<1>4. CASE value \in ({"text"} \X Texts) \union ({"blob"} \X Blobs)
  <2>1. value[1] \in {"text", "blob"} /\ value \in Kept
    BY <1>4 DEF Kept, Values
  <2>2. new = AppendAny(col, value)
    BY <2>1 DEF AppendValue
  <2>3. Extends(new, col, value)
    BY <2>1, <2>2, AppendAnyExtends
  <2>4. Holds(value, value, nan)
    BY <2>1 DEF Holds
  <2>5. QED
    BY <2>3, <2>4
<1>5. CASE value = Null
  <2>1. value[1] = "null" /\ Null \in Kept /\ NaN \in Doubles
    BY <1>5 DEF Null, Kept, Values, Doubles
  <2>2. new = IF nan THEN AppendDouble(col, NaN) ELSE AppendAny(col, Null)
    BY <2>1 DEF AppendValue
  <2>3. Extends(new, col, IF nan THEN <<"float", NaN>> ELSE Null)
    BY <2>1, <2>2, AppendAnyExtends, AppendDoubleExtends
  <2>4. Holds(IF nan THEN <<"float", NaN>> ELSE Null, value, nan)
    BY <2>1 DEF Holds
  <2>5. QED
    BY <2>3, <2>4
<1>6. QED
  BY <1>1, <1>2, <1>3, <1>4, <1>5

-----------------------------------------------------------------------------
(* The columns while rows are fetched *)

\* A statement without columns has no rows.
NoColumnsNoRows == columns = 0 => rows = <<>>

Inv == ResultColumnsTypeOK /\ ColumnsHoldTheRows /\ NoColumnsNoRows

LEMMA InitInv == Init => Inv
<1> SUFFICES ASSUME Init PROVE Inv
  OBVIOUS
<1>1. ResultColumnsTypeOK
  <2>1. /\ <<>> \in Seq(ColumnType) /\ <<>> \in Seq([1 .. columns -> Values])
        /\ <<>> \in Seq(BOOLEAN) /\ Len(asNaN) = Len(rows)
    BY DEF Init
  <2>2. 0 \in 0 .. MaxCells /\ 0 \in 0 .. 2
    BY RangeAssumption
  <2>3. QED
    BY <2>1, <2>2 DEF Init, ResultColumnsTypeOK
<1>2. ColumnsHoldTheRows /\ NoColumnsNoRows
  BY DEF Init, ColumnsHoldTheRows, NoColumnsNoRows
<1>3. QED
  BY <1>1, <1>2 DEF Inv

LEMMA BeginInv == Inv /\ Begin => Inv'
<1> SUFFICES ASSUME Inv, Begin PROVE Inv'
  OBVIOUS
<1>1. columns' \in 0 .. MaxCells
  BY DEF Begin
<1>2. NewColumn \in ColumnType /\ Size(NewColumn) = 0
  BY DEF NewColumn, ColumnType, Size
<1>3. cols' \in Seq(ColumnType) /\ Len(cols') = columns'
      /\ \A c \in 1 .. columns' : cols'[c] = NewColumn
  <2>1. cols' = [c \in 1 .. columns' |-> NewColumn]
    BY DEF Begin
  <2> HIDE DEF ColumnType, NewColumn
  <2>2. QED
    BY <1>1, <1>2, <2>1, RangeAssumption
<1>4. ResultColumnsTypeOK'
  BY <1>1, <1>3 DEF Begin, Inv, ResultColumnsTypeOK
<1>5. ColumnsHoldTheRows'
  BY <1>2, <1>3 DEF Begin, ColumnsHoldTheRows
<1>6. NoColumnsNoRows'
  BY DEF Begin, NoColumnsNoRows
<1>7. QED
  BY <1>4, <1>5, <1>6 DEF Inv

LEMMA FetchRowInv == Inv /\ FetchRow => Inv'
<1> SUFFICES ASSUME Inv, FetchRow PROVE Inv'
  OBVIOUS
<1>1. PICK row \in [1 .. columns -> Values] :
         /\ rows' = Append(rows, row)
         /\ cols' \in [1 .. columns -> UNION {AppendValue(cols[c], row[c], g_NULLasNaN) :
                                               c \in 1 .. columns}]
         /\ \A c \in 1 .. columns : cols'[c] \in AppendValue(cols[c], row[c], g_NULLasNaN)
  BY DEF FetchRow
<1>2. /\ phase = "fetching" /\ columns > 0 /\ columns' = columns /\ phase' = phase
      /\ asNaN' = Append(asNaN, g_NULLasNaN)
      /\ result' = result /\ g_NULLasNaN' = g_NULLasNaN
      /\ g_result_type' = g_result_type
  BY DEF FetchRow
<1>3. /\ columns \in 0 .. MaxCells
      /\ cols \in Seq(ColumnType)
      /\ rows \in Seq([1 .. columns -> Values])
      /\ asNaN \in Seq(BOOLEAN) /\ Len(asNaN) = Len(rows)
      /\ g_NULLasNaN \in BOOLEAN
  BY DEF Inv, ResultColumnsTypeOK
<1>4. /\ Len(cols) = columns
      /\ \A c \in 1 .. columns :
            /\ Size(cols[c]) = Len(rows)
            /\ \A k \in 1 .. Len(rows) : Holds(At(cols[c], k), rows[k][c], asNaN[k])
  BY <1>2 DEF Inv, ColumnsHoldTheRows
<1>5. /\ rows' \in Seq([1 .. columns -> Values])
      /\ Len(rows') = Len(rows) + 1
      /\ \A k \in 1 .. Len(rows) : rows'[k] = rows[k]
      /\ rows'[Len(rows) + 1] = row
  BY <1>1, <1>3, AppendProperties
<1>6. /\ asNaN' \in Seq(BOOLEAN)
      /\ Len(asNaN') = Len(rows) + 1
      /\ \A k \in 1 .. Len(rows) : asNaN'[k] = asNaN[k]
      /\ asNaN'[Len(rows) + 1] = g_NULLasNaN
  BY <1>2, <1>3, AppendProperties
<1>7. \A c \in 1 .. columns : \E kept :
         Extends(cols'[c], cols[c], kept) /\ Holds(kept, row[c], g_NULLasNaN)
  <2> SUFFICES ASSUME NEW c \in 1 .. columns
               PROVE  \E kept : Extends(cols'[c], cols[c], kept)
                                  /\ Holds(kept, row[c], g_NULLasNaN)
    OBVIOUS
  <2>1. cols[c] \in ColumnType
    BY <1>3, <1>4
  <2>2. row[c] \in Values /\ cols'[c] \in AppendValue(cols[c], row[c], g_NULLasNaN)
    BY <1>1
  <2>3. QED
    BY <1>3, <2>1, <2>2, AppendValueExtends
<1>8. cols' \in Seq(ColumnType) /\ Len(cols') = columns
  <2>1. \A c \in 1 .. columns : cols'[c] \in ColumnType
    BY <1>7 DEF Extends
  <2>2. cols' = [c \in 1 .. columns |-> cols'[c]]
    BY <1>1
  <2> HIDE DEF ColumnType
  <2>3. columns \in Nat
    BY <1>3, RangeAssumption
  <2>4. QED
    BY <2>1, <2>2, <2>3
<1>9. \A c \in 1 .. columns :
         /\ Size(cols'[c]) = Len(rows')
         /\ \A k \in 1 .. Len(rows') : Holds(At(cols'[c], k), rows'[k][c], asNaN'[k])
  <2> SUFFICES ASSUME NEW c \in 1 .. columns
               PROVE  /\ Size(cols'[c]) = Len(rows')
                      /\ \A k \in 1 .. Len(rows') :
                            Holds(At(cols'[c], k), rows'[k][c], asNaN'[k])
    OBVIOUS
  <2>1. PICK kept : Extends(cols'[c], cols[c], kept) /\ Holds(kept, row[c], g_NULLasNaN)
    BY <1>7
  <2>2. /\ Size(cols'[c]) = Len(rows) + 1
        /\ \A k \in 1 .. Len(rows) : At(cols'[c], k) = At(cols[c], k)
        /\ At(cols'[c], Len(rows) + 1) = kept
    BY <1>4, <2>1 DEF Extends
  <2>3. \A k \in 1 .. Len(rows) : Holds(At(cols'[c], k), rows'[k][c], asNaN'[k])
    BY <1>4, <1>5, <1>6, <2>2
  <2>4. Holds(At(cols'[c], Len(rows) + 1), rows'[Len(rows) + 1][c], asNaN'[Len(rows) + 1])
    BY <1>5, <1>6, <2>1, <2>2
  <2>5. \A k \in 1 .. Len(rows) + 1 : k \in 1 .. Len(rows) \/ k = Len(rows) + 1
    BY <1>3
  <2>6. QED
    BY <1>5, <2>2, <2>3, <2>4, <2>5
<1>10. ResultColumnsTypeOK'
  BY <1>2, <1>5, <1>6, <1>8 DEF Inv, ResultColumnsTypeOK
<1>11. ColumnsHoldTheRows'
  BY <1>2, <1>8, <1>9 DEF ColumnsHoldTheRows
<1>12. NoColumnsNoRows'
  BY <1>2 DEF NoColumnsNoRows
<1>13. QED
  BY <1>10, <1>11, <1>12 DEF Inv

LEMMA InvIsInductive == Inv /\ [Next]_columnVars => Inv'
<1> SUFFICES ASSUME Inv, [Next]_columnVars PROVE Inv'
  OBVIOUS
<1>1. CASE Begin
  BY <1>1, BeginInv
<1>2. CASE FetchRow
  BY <1>2, FetchRowInv
<1>3. CASE FetchFails
  BY <1>3 DEF FetchFails, Inv, ResultColumnsTypeOK, ColumnsHoldTheRows, NoColumnsNoRows
<1>4. CASE CreateResult
  BY <1>4 DEF CreateResult, Inv, ResultColumnsTypeOK, ColumnsHoldTheRows, NoColumnsNoRows
<1>5. CASE ChangeSetting
  BY <1>5 DEF ChangeSetting, Inv, ResultColumnsTypeOK, ColumnsHoldTheRows, NoColumnsNoRows
<1>6. CASE UNCHANGED columnVars
  BY <1>6 DEF columnVars, Inv, ResultColumnsTypeOK, ColumnsHoldTheRows, NoColumnsNoRows
<1>7. QED
  BY <1>1, <1>2, <1>3, <1>4, <1>5, <1>6 DEF Next

\* Every state has values of the types declared.
THEOREM ResultColumnsTypeOKAlways == Spec => []ResultColumnsTypeOK
<1>1. Inv => ResultColumnsTypeOK
  BY DEF Inv
<1>2. QED
  BY <1>1, InitInv, InvIsInductive, PTL DEF Spec

\* Whatever values a query delivers, in whatever order, its columns hold them all, in
\* their places, through the change of storage.
THEOREM ColumnsHoldTheRowsAlways == Spec => []ColumnsHoldTheRows
<1>1. Inv => ColumnsHoldTheRows
  BY DEF Inv
<1>2. QED
  BY <1>1, InitInv, InvIsInductive, PTL DEF Spec

-----------------------------------------------------------------------------
(* The result *)

LEMMA ItemStandsForValue ==
  ASSUME NEW value \in Values, NEW wasNaN \in BOOLEAN, NEW nan \in BOOLEAN, NEW kept,
         Holds(kept, value, wasNaN),
         kept[1] = "blob" => kept[2] \notin Unreadable
  PROVE  /\ Stands(createItem(kept, nan), value)
         /\ value = Null => createItem(kept, nan)
                              = <<"double", IF wasNaN \/ nan THEN NaN ELSE Empty>>
<1>1. \/ value \in {"integer"} \X Int64
      \/ value \in {"float"} \X Floats
      \/ value \in {"text"} \X Texts
      \/ value \in {"blob"} \X Blobs
      \/ value = Null
  BY DEF Values, Null
<1>2. CASE value \in {"integer"} \X Int64
  <2>1. value = <<"integer", value[2]>> /\ value[1] = "integer" /\ value # Null
    BY <1>2 DEF Null
  <2>2. \/ kept = value /\ Double(value[2]) # value[2]
        \/ /\ kept = <<"float", Double(value[2])>>
           /\ Double(value[2]) = value[2] \/ Double(value[2]) \notin Int64
    BY <2>1 DEF Holds
  <2>3. CASE kept = value /\ Double(value[2]) # value[2]
    <3>1. createItem(kept, nan) = <<"int64", value[2]>>
      BY <2>1, <2>3 DEF createItem
    <3>2. QED
      BY <2>1, <2>3, <3>1 DEF Stands
  <2>4. CASE /\ kept = <<"float", Double(value[2])>>
             /\ Double(value[2]) = value[2] \/ Double(value[2]) \notin Int64
    <3>1. kept[1] = "float" /\ kept[2] = Double(value[2])
      BY <2>4
    <3>2. createItem(kept, nan) = <<"double", Double(value[2])>>
      BY <3>1 DEF createItem
    <3>3. QED
      BY <2>1, <2>4, <3>2 DEF Stands
  <2>5. QED
    BY <2>2, <2>3, <2>4
<1>3. CASE value \in {"float"} \X Floats
  <2>1. value[1] = "float" /\ value # Null
    BY <1>3 DEF Null
  <2>2. kept = value
    BY <2>1 DEF Holds
  <2>3. createItem(kept, nan) = <<"double", value[2]>>
    BY <2>1, <2>2 DEF createItem
  <2>4. QED
    BY <2>1, <2>3 DEF Stands
<1>4. CASE value \in {"text"} \X Texts
  <2>1. value[1] = "text" /\ value # Null
    BY <1>4 DEF Null
  <2>2. kept = value
    BY <2>1 DEF Holds
  <2>3. createItem(kept, nan) = <<"char", value[2]>>
    BY <2>1, <2>2 DEF createItem
  <2>4. QED
    BY <2>1, <2>3 DEF Stands
<1>5. CASE value \in {"blob"} \X Blobs
  <2>1. value[1] = "blob" /\ value # Null
    BY <1>5 DEF Null
  <2>2. kept = value
    BY <2>1 DEF Holds
  <2>3. createItem(kept, nan) = <<"array", value[2]>>
    BY <2>1, <2>2 DEF createItem
  <2>4. value[2] \notin Unreadable
    BY <2>1, <2>2
  <2>5. QED
    BY <2>1, <2>3, <2>4 DEF Stands
<1>6. CASE value = Null
  <2>1. value[1] = "null"
    BY <1>6 DEF Null
  <2>2. kept = IF wasNaN THEN <<"float", NaN>> ELSE Null
    BY <2>1 DEF Holds
  <2>3. createItem(kept, nan) = <<"double", IF wasNaN \/ nan THEN NaN ELSE Empty>>
    <3>1. CASE wasNaN
      <4>1. kept[1] = "float" /\ kept[2] = NaN
        BY <2>2, <3>1
      <4>2. createItem(kept, nan) = <<"double", NaN>>
        BY <4>1 DEF createItem
      <4>3. QED
        BY <3>1, <4>2
    <3>2. CASE ~wasNaN
      <4>1. kept[1] = "null"
        BY <2>2, <3>2 DEF Null
      <4>2. createItem(kept, nan) = <<"double", IF nan THEN NaN ELSE Empty>>
        BY <4>1 DEF createItem
      <4>3. QED
        BY <3>2, <4>2
    <3>3. QED
      BY <3>1, <3>2
  <2>4. createItem(kept, nan) \in {<<"double", NaN>>, <<"double", Empty>>}
    BY <2>3
  <2>5. Stands(createItem(kept, nan), value)
    BY <2>1, <2>4 DEF Stands
  <2>6. QED
    BY <2>3, <2>5
<1>7. QED
  BY <1>1, <1>2, <1>3, <1>4, <1>5, <1>6

\* No two elements of a matrix have the same place, and all places are in it.
LEMMA PlaceIsUnique ==
  ASSUME NEW height \in Nat, NEW width \in Nat,
         NEW c \in 1 .. width, NEW r \in 1 .. height
  PROVE  /\ Place(c, r, height, width) \in 1 .. height * width
         /\ \A d \in 1 .. width, q \in 1 .. height :
               Place(d, q, height, width) = Place(c, r, height, width) => d = c /\ q = r
<1>1. (c - 1) * height + height = c * height /\ (c - 1) * height \in Int
  OBVIOUS
<1>2. c * height <= width * height /\ 0 <= (c - 1) * height
  OBVIOUS
<1>3. Place(c, r, height, width) \in 1 .. height * width
  <2>1. width * height = height * width /\ height * width \in Int
    OBVIOUS
  <2>2. QED
    BY <1>1, <1>2, <2>1 DEF Place
<1>4. ASSUME NEW d \in 1 .. width, NEW q \in 1 .. height,
             (d - 1) * height + q = (c - 1) * height + r
      PROVE  d = c /\ q = r
  <2>1. CASE d < c
    <3>1. d * height <= (c - 1) * height /\ d * height \in Int
      BY <2>1
    <3>2. (d - 1) * height + height = d * height
      OBVIOUS
    <3>3. QED
      BY <1>1, <1>4, <3>1, <3>2
  <2>2. CASE c < d
    <3>1. c * height <= (d - 1) * height /\ (d - 1) * height \in Int
      BY <2>2
    <3>2. QED
      BY <1>1, <1>4, <3>1
  <2>3. CASE c = d
    BY <1>1, <1>4, <2>3
  <2>4. QED
    BY <2>1, <2>2, <2>3
<1>5. QED
  BY <1>3, <1>4 DEF Place

\* Whichever layout was asked for, element r, c of the result is the item made of the
\* r-th element of column c.
LEMMA ResultHasElements ==
  ASSUME NEW cs \in Seq(ColumnType), NEW n \in Nat, NEW nan,
         NEW type \in 0 .. 2,
         Len(cs) > 0,
         \A c \in 1 .. Len(cs) : Size(cs[c]) = n
  PROVE  /\ Height(createResult(cs, type, nan)) = n
         /\ \A r \in 1 .. n, c \in 1 .. Len(cs) :
               Element(createResult(cs, type, nan), r, c) = createItem(At(cs[c], r), nan)
<1> DEFINE res == createResult(cs, type, nan)
<1>1. /\ Len(cs) \in Nat /\ Len(cs) # 0 /\ DOMAIN cs = 1 .. Len(cs)
      /\ Size(cs[1]) = n
  OBVIOUS
<1>2. type = 0 \/ type = 1 \/ type = 2
  OBVIOUS
<1>3. CASE type = 0
  <2> DEFINE structs == [r \in 1 .. n |-> [c \in DOMAIN cs |-> createItem(At(cs[c], r), nan)]]
  <2>1. res = [layout |-> "structs", structs |-> structs]
    BY <1>1, <1>3 DEF createResult, createResultAsArrayOfStructs
  <2>2. res.layout = "structs" /\ res.structs = structs
    BY <2>1
  <2>3. Len(structs) = n
    OBVIOUS
  <2>4. \A r \in 1 .. n, c \in 1 .. Len(cs) : structs[r][c] = createItem(At(cs[c], r), nan)
    BY <1>1
  <2> HIDE DEF structs, res
  <2>5. Height(res) = n
    BY <2>2, <2>3 DEF Height
  <2>6. \A r, c : Element(res, r, c) = structs[r][c]
    BY <2>2 DEF Element
  <2>7. QED
    BY <2>4, <2>5, <2>6 DEF res
<1>4. CASE type = 1
  <2> DEFINE column(c) ==
               [numeric |-> ~cs[c].m_isAnyType,
                elements |-> [r \in 1 .. n |-> createItem(At(cs[c], r), nan)]]
             fields == [c \in DOMAIN cs |-> column(c)]
  <2>1. res = [layout |-> "arrays", size |-> n, fields |-> fields]
    BY <1>1, <1>4 DEF createResult, createResultAsStructOfArrays
  <2>2. res.layout = "arrays" /\ res.size = n /\ res.fields = fields
    BY <2>1
  <2>3. \A c \in 1 .. Len(cs) : fields[c] = column(c)
    BY <1>1
  <2>4. \A c, r : r \in 1 .. n => column(c).elements[r] = createItem(At(cs[c], r), nan)
    OBVIOUS
  <2> HIDE DEF column, fields, res
  <2>5. Height(res) = n
    BY <2>2 DEF Height
  <2>6. \A r, c : Element(res, r, c) = fields[c].elements[r]
    BY <2>2 DEF Element
  <2>7. QED
    BY <2>3, <2>4, <2>5, <2>6 DEF res
<1>5. CASE type = 2
  <2> DEFINE width == Len(cs)
             from(k) == CHOOSE p \in (1 .. width) \X (1 .. n) : Place(p[1], p[2], n, width) = k
             elements == [k \in 1 .. n * width |->
                            createItem(At(cs[from(k)[1]], from(k)[2]), nan)]
  <2>1. res = [layout |-> "matrix", numeric |-> AllFloat(cs), size |-> <<n, width>>,
               elements |-> elements]
    BY <1>1, <1>5 DEF createResult, createResultAsMatrix
  <2>2. res.layout = "matrix" /\ res.size[1] = n /\ res.elements = elements
    BY <2>1
  <2>3. ASSUME NEW r \in 1 .. n, NEW c \in 1 .. width
        PROVE  elements[(c - 1) * n + r] = createItem(At(cs[c], r), nan)
    <3> DEFINE k == Place(c, r, n, width)
    <3>1. /\ k \in 1 .. n * width
          /\ \A d \in 1 .. width, q \in 1 .. n :
                Place(d, q, n, width) = k => d = c /\ q = r
      <4>1. width \in Nat
        BY <1>1
      <4> HIDE DEF width
      <4>2. QED
        BY <4>1, PlaceIsUnique
    <3>2. \A p \in (1 .. width) \X (1 .. n) : Place(p[1], p[2], n, width) = k => p = <<c, r>>
      BY <3>1
    <3>3. <<c, r>> \in (1 .. width) \X (1 .. n)
      OBVIOUS
    <3>4. Place(<<c, r>>[1], <<c, r>>[2], n, width) = k
      OBVIOUS
    <3> HIDE DEF k
    <3>5. from(k) = <<c, r>>
      BY <3>2, <3>3, <3>4
    <3> HIDE DEF from
    <3>6. elements[k] = createItem(At(cs[from(k)[1]], from(k)[2]), nan)
      BY <3>1
    <3>7. elements[k] = createItem(At(cs[c], r), nan)
      BY <3>5, <3>6
    <3>8. k = (c - 1) * n + r
      BY DEF k, Place
    <3>9. QED
      BY <3>7, <3>8
  <2> HIDE DEF elements, res
  <2>4. Height(res) = n
    BY <2>2 DEF Height
  <2>5. \A r, c : Element(res, r, c) = elements[(c - 1) * n + r]
    BY <2>2 DEF Element
  <2>6. QED
    BY <2>3, <2>4, <2>5 DEF res
<1>6. QED
  BY <1>2, <1>3, <1>4, <1>5

\* What CreateResult makes of the columns, seen as a table.
LEMMA ReturnedTable ==
  ASSUME Inv, CreateResult, CanCreate(cols)
  PROVE  /\ Height(result') = Len(rows)
         /\ \A r \in 1 .. Len(rows), c \in 1 .. columns :
               /\ Stands(Element(result', r, c), rows[r][c])
               /\ rows[r][c] = Null =>
                     Element(result', r, c)
                       = <<"double", IF asNaN[r] \/ g_NULLasNaN THEN NaN ELSE Empty>>
<1>1. /\ columns \in 0 .. MaxCells
      /\ cols \in Seq(ColumnType)
      /\ rows \in Seq([1 .. columns -> Values])
      /\ asNaN \in Seq(BOOLEAN) /\ Len(asNaN) = Len(rows)
      /\ g_NULLasNaN \in BOOLEAN /\ g_result_type \in 0 .. 2
      /\ columns = 0 => rows = <<>>
  BY DEF Inv, ResultColumnsTypeOK, NoColumnsNoRows
<1>2. /\ Len(cols) = columns
      /\ \A c \in 1 .. columns :
            /\ Size(cols[c]) = Len(rows)
            /\ \A k \in 1 .. Len(rows) : Holds(At(cols[c], k), rows[k][c], asNaN[k])
  BY DEF Inv, ColumnsHoldTheRows, CreateResult
<1>3. result' = createResult(cols, g_result_type, g_NULLasNaN)
  BY DEF CreateResult
<1>4. CASE columns = 0
  <2>1. result' = [layout |-> "empty"]
    BY <1>2, <1>3, <1>4 DEF createResult
  <2>2. Height(result') = 0
    BY <2>1 DEF Height
  <2>3. Len(rows) = 0 /\ 1 .. columns = {}
    BY <1>1, <1>4
  <2>4. QED
    BY <2>2, <2>3
<1>5. CASE columns # 0
  <2>1. Len(cols) > 0 /\ Len(rows) \in Nat
    BY <1>1, <1>2, <1>5
  <2>2. /\ Height(result') = Len(rows)
        /\ \A r \in 1 .. Len(rows), c \in 1 .. columns :
              Element(result', r, c) = createItem(At(cols[c], r), g_NULLasNaN)
    <3> DEFINE res == createResult(cols, g_result_type, g_NULLasNaN)
    <3>1. /\ cols \in Seq(ColumnType) /\ Len(rows) \in Nat /\ g_result_type \in 0 .. 2
          /\ Len(cols) > 0
          /\ \A c \in 1 .. Len(cols) : Size(cols[c]) = Len(rows)
      BY <1>1, <1>2, <2>1
    <3>2. /\ Height(res) = Len(rows)
          /\ \A r \in 1 .. Len(rows), c \in 1 .. Len(cols) :
                Element(res, r, c) = createItem(At(cols[c], r), g_NULLasNaN)
      <4> HIDE DEF ColumnType
      <4>1. QED
        BY <3>1, ResultHasElements, ZenonT(30)
    <3>3. QED
      BY <1>2, <1>3, <3>2
  <2>3. ASSUME NEW r \in 1 .. Len(rows), NEW c \in 1 .. columns
        PROVE  /\ Stands(createItem(At(cols[c], r), g_NULLasNaN), rows[r][c])
               /\ rows[r][c] = Null =>
                     createItem(At(cols[c], r), g_NULLasNaN)
                       = <<"double", IF asNaN[r] \/ g_NULLasNaN THEN NaN ELSE Empty>>
    <3>1. rows[r][c] \in Values /\ asNaN[r] \in BOOLEAN
      <4>1. rows[r] \in [1 .. columns -> Values]
        BY <1>1
      <4>2. QED
        BY <1>1, <4>1
    <3>2. Holds(At(cols[c], r), rows[r][c], asNaN[r])
      BY <1>2
    <3>3. At(cols[c], r)[1] = "blob" => At(cols[c], r)[2] \notin Unreadable
      <4>1. c \in DOMAIN cols /\ r \in 1 .. Size(cols[c])
        BY <1>1, <1>2
      <4>2. QED
        BY <4>1 DEF CanCreate
    <3>4. QED
      BY <1>1, <3>1, <3>2, <3>3, ItemStandsForValue
  <2>4. QED
    BY <2>2, <2>3
<1>6. QED
  BY <1>4, <1>5

-----------------------------------------------------------------------------
(* The query returns the table of the rows *)

LEMMA NoResultIsNoTable == result = NoResult => TableOf(result) = Q!NoTable
<1> SUFFICES ASSUME result = NoResult PROVE TableOf(result) = <<>>
  BY DEF Q!NoTable
<1>1. Height(result) = 0
  BY DEF NoResult, Height
<1>2. TableOf(result) = [r \in 1 .. 0 |-> [c \in 1 .. columns |-> Element(result, r, c)]]
  BY <1>1 DEF TableOf
<1>3. 1 .. 0 = {}
  OBVIOUS
<1>4. QED
  BY <1>2, <1>3

LEMMA NextRefines == Inv /\ Inv' /\ [Next]_columnVars => [Q!QueryNext]_(Q!queryVars)
<1> SUFFICES ASSUME Inv, Inv', [Next]_columnVars
             PROVE  Q!QueryNext \/ UNCHANGED Q!queryVars
  OBVIOUS
<1> USE DEF Q!QueryNext, Q!queryVars
<1>1. CASE Begin
  <2>1. result' = NoResult
    BY <1>1 DEF Begin
  <2>2. TableOf(result)' = Q!NoTable
    <3>1. Height(result') = 0
      BY <2>1 DEF NoResult, Height
    <3>2. TableOf(result)'
            = [r \in 1 .. 0 |-> [c \in 1 .. columns' |-> Element(result', r, c)]]
      BY <3>1 DEF TableOf
    <3>3. 1 .. 0 = {}
      OBVIOUS
    <3>4. QED
      BY <3>2, <3>3 DEF Q!NoTable
  <2>3. columns' \in Nat
    BY <1>1, RangeAssumption DEF Begin
  <2>4. Q!Start
    BY <1>1, <2>2, <2>3 DEF Begin, Q!Start
  <2>5. QED
    BY <2>4
<1>2. CASE FetchRow
  <2>1. PICK row \in [1 .. columns -> Values] : rows' = Append(rows, row)
    BY <1>2 DEF FetchRow
  <2>2. rows \in Seq([1 .. columns -> Values])
    BY DEF Inv, ResultColumnsTypeOK
  <2>3. rows' # <<>> /\ rows'[Len(rows')] = row
    BY <2>1, <2>2, AppendProperties
  <2>4. TableOf(result)' = TableOf(result)
    BY <1>2 DEF FetchRow, TableOf, Height, Element
  <2>5. Q!Deliver
    BY <1>2, <2>1, <2>3, <2>4 DEF FetchRow, Q!Deliver
  <2>6. QED
    BY <2>5
<1>3. CASE FetchFails
  <2>1. TableOf(result)' = TableOf(result)
    BY <1>3 DEF FetchFails, TableOf, Height, Element
  <2>2. Q!Refuse
    BY <1>3, <2>1 DEF FetchFails, Q!Refuse
  <2>3. QED
    BY <2>2
<1>4. CASE CreateResult
  <2>1. CASE CanCreate(cols)
    <3>1. /\ phase = "fetching" /\ phase' = "returned"
          /\ rows' = rows /\ columns' = columns
      BY <1>4, <2>1 DEF CreateResult
    <3>2. /\ Height(result') = Len(rows)
          /\ \A r \in 1 .. Len(rows), c \in 1 .. columns :
                Stands(Element(result', r, c), rows[r][c])
      BY <1>4, <2>1, ReturnedTable
    <3> DEFINE after == [r \in 1 .. Len(rows) |->
                          [c \in 1 .. columns |-> Element(result', r, c)]]
    <3>3. TableOf(result)' = after
      BY <3>1, <3>2 DEF TableOf
    <3>4. /\ DOMAIN after = 1 .. Len(rows)
          /\ \A r \in 1 .. Len(rows) :
                /\ DOMAIN after[r] = 1 .. columns
                /\ \A c \in 1 .. columns : Stands(after[r][c], rows[r][c])
      BY <3>2
    <3> HIDE DEF after
    <3>5. Q!Return
      BY <3>1, <3>3, <3>4 DEF Q!Return
    <3>6. QED
      BY <3>5
  <2>2. CASE ~CanCreate(cols)
    <3>1. TableOf(result)' = TableOf(result)
      BY <1>4, <2>2 DEF CreateResult, TableOf, Height, Element
    <3>2. Q!Refuse
      BY <1>4, <2>2, <3>1 DEF CreateResult, Q!Refuse
    <3>3. QED
      BY <3>2
  <2>3. QED
    BY <2>1, <2>2
<1>5. CASE ChangeSetting
  BY <1>5 DEF ChangeSetting, TableOf, Height, Element
<1>6. CASE UNCHANGED columnVars
  BY <1>6 DEF columnVars, TableOf, Height, Element
<1>7. QED
  BY <1>1, <1>2, <1>3, <1>4, <1>5, <1>6 DEF Next

\* A query of any size, in any layout, returns the table of the rows SQLite delivered
\* or fails: ResultColumns implements QueryResult.
THEOREM ResultColumnsImplementQueryResult == Spec => ReturnsTheRows
<1>1. Init => Q!QueryInit
  <2>1. Init => TableOf(result) = Q!NoTable
    BY NoResultIsNoTable DEF Init
  <2>2. QED
    BY <2>1 DEF Init, Q!QueryInit
<1>2. Inv /\ Inv' /\ [Next]_columnVars => [Q!QueryNext]_(Q!queryVars)
  BY NextRefines
<1>3. QED
  BY <1>1, <1>2, InitInv, InvIsInductive, PTL DEF Spec, ReturnsTheRows, Q!QuerySpec

\* Each NULL is NaN exactly if NULLasNaN was set when its row was fetched or when the
\* result was made, even if a function changed the setting in between.
THEOREM NullsFollowTheSettingAlways == Spec => NullsFollowTheSetting
<1>1. Inv /\ [Next]_columnVars =>
        [phase = "fetching" /\ phase' = "returned" =>
          \A r \in 1 .. Len(rows), c \in 1 .. columns :
              rows[r][c] = Null =>
                  Element(result', r, c) =
                      <<"double", IF asNaN[r] \/ g_NULLasNaN THEN NaN ELSE Empty>>
        ]_columnVars
  <2> SUFFICES ASSUME Inv, Next, phase = "fetching", phase' = "returned"
               PROVE  \A r \in 1 .. Len(rows), c \in 1 .. columns :
                        rows[r][c] = Null =>
                            Element(result', r, c) =
                              <<"double", IF asNaN[r] \/ g_NULLasNaN THEN NaN ELSE Empty>>
    OBVIOUS
  <2>1. CreateResult /\ CanCreate(cols)
    BY DEF Next, Begin, FetchRow, FetchFails, CreateResult, ChangeSetting
  <2>2. QED
    BY <2>1, ReturnedTable
<1>2. QED
  BY <1>1, InitInv, InvIsInductive, PTL DEF Spec, NullsFollowTheSetting

-----------------------------------------------------------------------------
(* Numeric arrays *)

LEMMA ReturnedNumericArrays ==
  ASSUME Inv, CreateResult, CanCreate(cols),
         NEW r \in 1 .. Height(result'), NEW c \in 1 .. columns,
         \/ result'.layout = "arrays" /\ result'.fields[c].numeric
         \/ result'.layout = "matrix" /\ result'.numeric
  PROVE  Element(result', r, c) \in {"double"} \X Doubles
<1> DEFINE res == createResult(cols, g_result_type, g_NULLasNaN)
<1>1. /\ columns \in 0 .. MaxCells
      /\ cols \in Seq(ColumnType)
      /\ rows \in Seq([1 .. columns -> Values])
      /\ g_result_type \in 0 .. 2
  BY DEF Inv, ResultColumnsTypeOK
<1>2. /\ Len(cols) = columns
      /\ \A d \in 1 .. columns : Size(cols[d]) = Len(rows)
  BY DEF Inv, ColumnsHoldTheRows, CreateResult
<1>3. result' = res
  BY DEF CreateResult
<1>4. Len(cols) > 0 /\ Len(rows) \in Nat
  BY <1>1, <1>2
<1>5. /\ Height(res) = Len(rows)
      /\ \A q \in 1 .. Len(rows), d \in 1 .. Len(cols) :
            Element(res, q, d) = createItem(At(cols[d], q), g_NULLasNaN)
  <2>1. \A d \in 1 .. Len(cols) : Size(cols[d]) = Len(rows)
    BY <1>2
  <2> HIDE DEF ColumnType
  <2>2. QED
    BY <1>1, <1>4, <2>1, ResultHasElements, Zenon
<1>6. Element(result', r, c) = createItem(At(cols[c], r), g_NULLasNaN)
  BY <1>2, <1>3, <1>5
<1>7. cols[c] \in ColumnType /\ r \in 1 .. Size(cols[c]) /\ c \in DOMAIN cols
  <2> HIDE DEF ColumnType
  <2>1. QED
    BY <1>1, <1>2, <1>3, <1>5
<1>8. ~cols[c].m_isAnyType
  <2>1. g_result_type = 0 \/ g_result_type = 1 \/ g_result_type = 2
    BY <1>1
  <2>2. Len(cols) # 0
    BY <1>1, <1>4
  <2>3. CASE g_result_type = 0
    <3>1. res = createResultAsArrayOfStructs(cols, g_NULLasNaN)
      BY <2>2, <2>3 DEF createResult
    <3>2. res.layout = "structs"
      BY <3>1 DEF createResultAsArrayOfStructs
    <3>3. QED
      BY <1>3, <3>2
  <2>4. CASE g_result_type = 1
    <3>1. res = createResultAsStructOfArrays(cols, g_NULLasNaN)
      BY <2>2, <2>4 DEF createResult
    <3>2. res.layout = "arrays" /\ res.fields[c].numeric = ~cols[c].m_isAnyType
      BY <1>7, <3>1 DEF createResultAsStructOfArrays
    <3>3. QED
      BY <1>3, <3>2
  <2>5. CASE g_result_type = 2
    <3>1. res = createResultAsMatrix(cols, g_NULLasNaN)
      BY <2>2, <2>5 DEF createResult
    <3>2. res.layout = "matrix" /\ res.numeric = AllFloat(cols)
      BY <3>1 DEF createResultAsMatrix
    <3>3. AllFloat(cols)
      BY <1>3, <3>2
    <3>4. QED
      BY <1>7, <3>3 DEF AllFloat
  <2>6. QED
    BY <2>1, <2>3, <2>4, <2>5
<1>9. PICK x \in Doubles : At(cols[c], r) = <<"float", x>>
  <2>1. At(cols[c], r) \in {"float"} \X Doubles
    BY <1>7, <1>8, AtIsKept
  <2>2. QED
    BY <2>1
<1>10. createItem(At(cols[c], r), g_NULLasNaN) = <<"double", x>>
  <2>1. At(cols[c], r)[1] = "float" /\ At(cols[c], r)[2] = x
    BY <1>9
  <2>2. QED
    BY <2>1 DEF createItem
<1>11. QED
  BY <1>6, <1>10

\* No element of a numeric array of a result is anything but a double.
THEOREM NumericArraysHoldDoublesAlways == Spec => []NumericArraysHoldDoubles
<1>1. Init => NumericArraysHoldDoubles
  BY DEF Init, NumericArraysHoldDoubles
<1>2. Inv /\ NumericArraysHoldDoubles /\ [Next]_columnVars => NumericArraysHoldDoubles'
  <2> SUFFICES ASSUME Inv, NumericArraysHoldDoubles, [Next]_columnVars
               PROVE  NumericArraysHoldDoubles'
    OBVIOUS
  <2>1. CASE CreateResult /\ CanCreate(cols)
    <3>1. columns' = columns
      BY <2>1 DEF CreateResult
    <3>2. QED
      BY <2>1, <3>1, ReturnedNumericArrays DEF NumericArraysHoldDoubles
  <2>2. CASE phase' # "returned"
    BY <2>2 DEF NumericArraysHoldDoubles
  <2>3. CASE UNCHANGED <<phase, result, columns>>
    BY <2>3 DEF NumericArraysHoldDoubles, Height, Element, Doubles
  <2>4. QED
    BY <2>1, <2>2, <2>3 DEF Next, Begin, FetchRow, FetchFails, CreateResult,
                            ChangeSetting, columnVars
<1>3. QED
  BY <1>1, <1>2, InitInv, InvIsInductive, PTL DEF Spec
=============================================================================
