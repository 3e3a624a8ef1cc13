----------------------------- MODULE StoredValues -----------------------------
(***************************************************************************)
(* A MATLAB item on its way into a SQL value and back.  Numbers and texts  *)
(* have SQL types of their own; arrays become BLOBs, as bare bytes or      *)
(* typed: with a header that tells class and shape, and perhaps compressed *)
(* (blob_pack, blob_unpack); structs and cells are serialized to a stream  *)
(* of bytes first.  What is done depends on the settings when the item is  *)
(* bound; what comes back also on those when it is read, later.            *)
(*                                                                         *)
(* One cell of a table, without affinity, which is written once.  An item  *)
(* has a class, a shape, and its elements: pairs of a kind and a value,    *)
(* doubles as in NumberCompressor, integers as "fin", characters as        *)
(* "char" with their code.  Codes above 255 are left out.                  *)
(***************************************************************************)
EXTENDS Settings, NumberCompressor, Texts

CONSTANTS
    Items,          \* the items a user may bind
    IntBits,        \* of a C int
    ElementSize,    \* bytes of an element, by class
    StreamSize      \* bytes of a serialized item

ASSUME QuantizerAssumption == Quantizers \subseteq Lossy

\* The flags that tell how a SQL value is read; texts are also written by the first.
ReadingFlags == {"convertUTF8", "NULLasNaN"}

ASSUME ReadingFlagsAssumption == ReadingFlags \subseteq Flags

\* The classes whose arrays are bytes; of these, those GetInt takes for a C int's.
Classes == DOMAIN ElementSize
IntClasses == {"logical", "int8", "uint8", "int16", "uint16", "int32", "uint32"}

\* A number of an integer class fits in a C int, but for uint32 and int64.
InRange(class, x) ==
    /\ class \in IntClasses \union {"int64"} => x \in {"fin"} \X Int
    /\ class \in IntClasses \ {"uint32"} => x[2] \in Signed(IntBits)
    /\ class = "uint32" => x[2] \in Unsigned(IntBits)

\* An item is made of its class, its shape and its elements.
IsItem(item) ==
    /\ item = [class |-> item.class, shape |-> item.shape, data |-> item.data]
    /\ item.class \in Classes \union {"struct", "cell", "complex", "opaque"}
    /\ item.data \in Seq(Elements(item.data))
    /\ item.shape = "scalar" => Len(item.data) = 1
    /\ \A x \in Elements(item.data) : InRange(item.class, x)
    /\ item.class \in {"double", "single"} => item.data \in Seq(Doubles)
    /\ item.class = "double" => OnGrid(item.data)
    /\ item.class = "char" => item.data \in Seq({"char"} \X (0 .. 255))

ASSUME ItemsAssumption == \A item \in Items : IsItem(item)

ASSUME SizesAssumption ==
    /\ IntBits \in Nat \ {0}
    /\ Classes \intersect {"none", "unknown", "struct", "cell", "complex", "opaque"} = {}

VARIABLES
    cell,           \* the SQL value: its type, and a number, text or BLOB
    written         \* what it was made of, and how; of no effect

storedVars == <<settingVars, cell, written>>

Refusal == "MSG_INVALIDARG"
NothingWritten == [mode |-> "none"]
Bytes(content) == [class |-> "uint8", shape |-> "vector", data |-> <<<<"bytes of", content>>>>]

-----------------------------------------------------------------------------
(* Binding *)

\* What kind of SQL value an item needs.
Complexity(item) ==
    CASE item.data = <<>> -> "empty"
      [] item.data # <<>> /\ item.class = "opaque" -> "unsupported"
      [] item.data # <<>> /\ item.class \in {"struct", "cell", "complex"} -> "complex"
      [] item.data # <<>> /\ item.class = "char" ->
            IF item.shape \in {"scalar", "vector"} THEN "simple" ELSE "array"
      [] OTHER -> IF item.shape = "scalar" THEN "simple" ELSE "array"

can_serialize == g_streaming /\ have_serialize

\* Mutant of Integer: all integers are bound as C ints.
IntegerAsInt(class, n) == Wrapped(n, IntBits)

\* The integer bound for one of a class: GetInt returns a C int.
Integer(class, n) == IF class = "int64" THEN n ELSE Wrapped(n, IntBits)

\* The codes of the characters of a text.
Codes(data) == [k \in DOMAIN data |-> data[k][2]]

\* The string SQLite gets: up to its first NUL, and recoded if that is set.
GetEncString(item) ==
    LET string == UpToNul(Codes(item.data))
    IN  IF g_flag["convertUTF8"] THEN latin2utf[string] ELSE string

\* The SQL value of a scalar or a text.  SQLite takes a NaN for a NULL.
SimpleCell(item) ==
    CASE item.class \in {"double", "single"} ->
            IF item.data[1][1] = "nan" THEN {[type |-> "null"]}
            ELSE {[type |-> "float", value |-> item.data[1]]}
      [] item.class \in IntClasses \union {"int64"} ->
            {[type |-> "integer", value |-> Integer(item.class, item.data[1][2])]}
      [] item.class = "char" -> {[type |-> "text", value |-> GetEncString(item)]}
      [] OTHER -> {}

\* Mutant of RawBlob: the class is kept with the bytes.
RawBlobOfClass(item) ==
    [header |-> "none", clsid |-> item.class, shape |-> "none", compressor |-> "none",
     content |-> Packed("none", item.data)]

\* A BLOB without type: the bytes of the elements.
RawBlob(item) ==
    [header |-> "none", clsid |-> "none", shape |-> "none", compressor |-> "none",
     content |-> Packed("none", item.data)]

\* Step 1: a stream is an array of bytes.
Serialized(item) == IF Complexity(item) = "complex" THEN Bytes(item) ELSE item

ByData(item) ==
    IF Complexity(item) = "complex" THEN StreamSize
    ELSE Len(item.data) * ElementSize[item.class]

\* The header with compression has room for the name of the compressor.
ExtraHeader == 12

\* Steps 2 and 3: compressed if that is wanted, possible, and makes the BLOB smaller.
blob_pack(item) ==
    LET value == Serialized(item)
        clsid == IF Complexity(item) = "complex" THEN "unknown" ELSE value.class
        plain == [header |-> "V1", clsid |-> clsid, shape |-> value.shape,
                  compressor |-> "none", content |-> Packed("none", value.data)]
        compressor == g_compression[1]
    IN  IF g_compression[2] # 0 /\ CanPack(compressor, value.class, value.data)
        THEN {IF size + ExtraHeader < ByData(item)
              THEN [header |-> "V2", clsid |-> clsid, shape |-> value.shape,
                    compressor |-> compressor, content |-> Packed(compressor, value.data)]
              ELSE plain : size \in PackedSizes(compressor, ByData(item), Len(value.data))}
        ELSE {plain}

\* The SQL values an item may become; none if it is refused.
createValueSQLFromItem(item) ==
    LET complexity == Complexity(item)
        blobs == IF typed_blobs_mode THEN blob_pack(item) ELSE {RawBlob(item)}
    IN  CASE complexity = "empty" -> {[type |-> "null"]}
          [] complexity = "simple" -> SimpleCell(item)
          [] complexity = "array" -> {[type |-> "blob", value |-> b] : b \in blobs}
          [] complexity = "complex" ->
                IF can_serialize /\ typed_blobs_mode
                THEN {[type |-> "blob", value |-> b] : b \in blobs} ELSE {}
          [] complexity = "unsupported" -> {}

\* Unpacking writes to the header of the BLOB it reads.
Measured(blob) ==
    IF blob.header = "V2" /\ blob.clsid = "unknown" THEN [blob EXCEPT !.clsid = "uint8"]
    ELSE blob

-----------------------------------------------------------------------------
(* Reading *)

NoItem == [class |-> "error"]

\* Class and shape are those of the header; a stream becomes the item it was made of.
blob_unpack(blob) ==
    LET data == Unpacked(blob.compressor, blob.content)
    IN  CASE blob.header = "none" -> NoItem
          [] blob.header # "none" /\ blob.clsid = "unknown" ->
                IF have_serialize THEN data[1][2] ELSE NoItem
          [] OTHER -> [class |-> blob.clsid, shape |-> blob.shape, data |-> data]

Scalar(class, x) == [class |-> class, shape |-> "scalar", data |-> <<x>>]

Text(codes) ==
    [class |-> "char", shape |-> "vector",
     data |-> [k \in DOMAIN codes |-> <<"char", codes[k]>>]]

\* The value fetch takes from SQLite: a text is recoded if that is set by now.
Fetched(value, utf8) ==
    IF value.type = "text" /\ utf8 THEN [value EXCEPT !.value = utf2latin[@]] ELSE value

\* The item made of it with typed BLOBs and NULLasNaN on or off.  Whether an integer
\* comes as a double or as int64 is not told here.
createItemFromValueSQL(value, typed, asNaN) ==
    CASE value.type = "null" /\ asNaN -> Scalar("double", <<"nan", 0>>)
      [] value.type = "null" /\ ~asNaN -> [class |-> "double", shape |-> "empty", data |-> <<>>]
      [] value.type = "integer" -> Scalar("integer", <<"fin", value.value>>)
      [] value.type = "float" -> Scalar("double", value.value)
      [] value.type = "text" -> Text(UpToNul(value.value))
      [] value.type = "blob" -> IF typed THEN blob_unpack(value.value) ELSE Bytes(value.value)

\* What a user gets who reads the cell with these settings.
Read(typed, flag) ==
    createItemFromValueSQL(Fetched(cell, flag["convertUTF8"]), typed, flag["NULLasNaN"])

-----------------------------------------------------------------------------
StoredInit ==
    /\ SettingsInit
    /\ cell = [type |-> "null"]
    /\ written = NothingWritten

How(item, measured) ==
    [mode |-> IF typed_blobs_mode THEN "typed" ELSE "raw", item |-> item,
     compressor |-> IF g_compression[2] # 0 THEN g_compression[1] ELSE "none",
     utf8 |-> g_flag["convertUTF8"], measured |-> measured]

\* insert into ... values (?1)
BindItem ==
    /\ written = NothingWritten
    /\ \E item \in Items :
          /\ cell' \in createValueSQLFromItem(item)
          /\ written' = How(item, FALSE)
    /\ UNCHANGED settingVars

\* insert into ... values (bdcratio(?1), ?1): SQLite hands the function the very BLOB
\* that is stored afterwards.
BindMeasured ==
    /\ written = NothingWritten
    /\ \E item \in Items : \E value \in createValueSQLFromItem(item) :
          /\ value.type = "blob"
          /\ cell' = [value EXCEPT !.value = Measured(@)]
          /\ written' = How(item, TRUE)
    /\ UNCHANGED settingVars

BindRefused ==
    /\ \E item \in Items : createValueSQLFromItem(item) = {}
    /\ UNCHANGED storedVars

StoredNext ==
    \/ BindItem
    \/ BindMeasured
    \/ BindRefused
    \/ SettingCommand /\ UNCHANGED <<cell, written>>

StoredSpec == StoredInit /\ [][StoredNext]_storedVars

-----------------------------------------------------------------------------
(* Properties *)

Headers == {"none", "V1", "V2"}

StoredTypeOK ==
    /\ SettingsTypeOK
    /\ cell.type \in {"null", "integer", "float", "text", "blob"}
    /\ cell.type = "integer" => cell.value \in Int
    /\ cell.type = "blob" =>
          /\ cell.value.header \in Headers
          /\ cell.value.header = "none" <=> cell.value.clsid = "none"
          /\ cell.value.clsid \in Classes \union {"none", "unknown", "uint8"}
          /\ cell.value.header = "V2" => cell.value.compressor \in Compressors \union Quantizers

\* Whether what comes back is what was written, or near to it where the user chose a
\* compressor that only promises that.
SameOrClose(back, item, compressor) ==
    \/ back = item
    \/ /\ compressor \in Lossy /\ item.class = "double"
       /\ back.class = item.class /\ back.shape = item.shape
       /\ CloseTo(compressor, item.data, back.data)

IsBlob == written # NothingWritten /\ Complexity(written.item) \in {"array", "complex"}

ReadTyped == createItemFromValueSQL(cell, TRUE, FALSE)

ComesBack == SameOrClose(ReadTyped, written.item, written.compressor)

\* A BLOB written with typed BLOBs on is read, with typed BLOBs on, as the array it was,
\* whatever compression and streaming were set to in between; a bare BLOB is refused
\* then, and never taken for an array.  Streams that were measured are left to
\* MeasuredBlobsComeBack.
TypedBlobsComeBack ==
    IsBlob =>
        IF written.mode = "raw" THEN ReadTyped = NoItem
        ELSE Complexity(written.item) = "array" \/ ~written.measured => ComesBack

\* The functions that measure a BLOB do not change it: it comes back as if it had not
\* been measured ("cdata is owned by the blob (const parameter pBlob)" in blob_unpack).
MeasuredBlobsComeBack == IsBlob /\ written.mode = "typed" /\ written.measured => ComesBack

\* What is to be expected of an item that was written like that and is read with those
\* flags: a text up to its first NUL, if both times convertUTF8 is the same or no character
\* needs it; a number, of uint32 only what a C int can hold; for NaN what NULL stands for.
ComesBackFrom(how, back, flag) ==
    LET item == how.item
        string == UpToNul(Codes(item.data))
    IN  CASE item.class = "char" ->
               /\ back.class = "char"
               /\ flag["convertUTF8"] = how.utf8 \/ Ascii(string) => back = Text(string)
          [] item.class # "char" /\ item.data = <<<<"nan", 0>>>> ->
               back.data = IF flag["NULLasNaN"] THEN item.data ELSE <<>>
          [] item.class # "char" /\ item.data # <<<<"nan", 0>>>> ->
               /\ back.class # "char"
               /\ back.data = item.data
                    \/ (item.class = "uint32" /\ item.data[1][2] \notin Signed(IntBits))

\* Numbers and texts come back, whatever typed BLOBs, streaming, compression and flags
\* are when they are written and when they are read, but for what ComesBackFrom excepts.
SimpleValuesComeBack ==
    written # NothingWritten /\ Complexity(written.item) = "simple" =>
        \A typed \in BOOLEAN, flag \in [ReadingFlags -> BOOLEAN] :
            ComesBackFrom(written, Read(typed, flag), flag)
=============================================================================
