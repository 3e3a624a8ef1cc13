--------------------------- MODULE MCStoredValues ---------------------------
(***************************************************************************)
(* StoredValues with the bounds TLC explores.                              *)
(***************************************************************************)
EXTENDS StoredValues

MCCompressors == {"blosclz"}
MCQuantizers == {"float", "qlin16", "qlog16"}

\* 272 is no float (4 bits); 16 levels, the lowest two bits of them cleared.
MCLog == [n \in {16, 48, 272} |-> CASE n = 16 -> -16 [] n = 48 -> 32 [] n = 272 -> 112]
Finites == {<<"fin", n>> : n \in {-32, 16, 48, 272}}
Specials == {<<"zero", 0>>, <<"zero", 1>>, <<"inf", 0>>, <<"inf", 1>>, <<"nan", 0>>}

\* Four elements are the fewest that are ever compressed; their order is of no effect.
Sorted(data) == \A k \in 1 .. Len(data) - 1 : data[k][2] <= data[k + 1][2]
Arrays ==
    {data \in {<<a, b, c, d>> : a, b, c, d \in Finites} : Sorted(data)}
      \union {<<<<"fin", -32>>, <<"fin", m>>, <<"fin", 272>>, s>> : m \in {-32, 16, 48}, s \in Specials}
      \union {<<<<"fin", 16>>, <<"fin", 16>>, s, t>> : s, t \in Specials}

Item(class, shape, data) == [class |-> class, shape |-> shape, data |-> data]

\* Characters of one and of two bytes in UTF-8 at the ends of their ranges, a NUL, and
\* 195, the first byte of the others.
MCChars == {<<"char", code>> : code \in {0, 97, 127, 128, 195, 228, 255}}

MCItems ==
    {Item("double", "vector", data) : data \in Arrays}
      \union {Item("double", "array", <<<<"fin", 16>>, <<"fin", 48>>, <<"nan", 0>>>>),
              Item("single", "vector", <<<<"fin", 16>>, <<"fin", 48>>>>),
              Item("int32", "array", <<<<"fin", 1>>, <<"fin", -3>>, <<"fin", 0>>>>),
              Item("uint64", "vector", <<<<"fin", 1>>, <<"fin", 9>>>>),
              Item("char", "array", <<<<"char", 97>>, <<"char", 228>>>>),
              Item("uint64", "scalar", <<<<"fin", 1>>>>),
              Item("double", "empty", <<>>),
              Item("opaque", "scalar", <<<<"handle", 0>>>>),
              Item("struct", "scalar", <<<<"field", 1>>>>),
              Item("cell", "vector", <<<<"item", 1>>, <<"item", 2>>>>),
              Item("logical", "scalar", <<<<"fin", 1>>>>)}
      \union {Item("char", "vector", <<a, b, c>>) : a, b, c \in MCChars}
      \union {Item("char", "scalar", <<a>>) : a \in MCChars}
      \union {Item("double", "scalar", <<x>>) : x \in Finites \union Specials}
      \union {Item(class, "scalar", <<<<"fin", n>>>>) :
                class \in {"int32", "int64"}, n \in {-8, 0, 7}}
      \union {Item("int64", "scalar", <<<<"fin", n>>>>) : n \in {-100, 100}}
      \union {Item("uint32", "scalar", <<<<"fin", n>>>>) : n \in {0, 7, 8, 15}}
      \union {Item("int8", "scalar", <<<<"fin", -3>>>>), Item("uint16", "scalar", <<<<"fin", 5>>>>)}

MCElementSize ==
    [class \in {"double", "single", "int8", "uint16", "int32", "uint32", "int64", "uint64",
                "char", "logical"} |->
        CASE class \in {"double", "int64", "uint64"} -> 8
          [] class \in {"single", "int32", "uint32"} -> 4
          [] class \in {"char", "uint16"} -> 2
          [] class \in {"logical", "int8"} -> 1]

MCFlags == ReadingFlags

\* Language, result type, answer, NULLasNaN and the exact level have no effect; once the
\* cell is written no setting has one, and the invariants read it under all of them.
StoredView ==
    <<IF written = NothingWritten
      THEN <<typed_blobs_mode, g_streaming, g_compression[1], g_compression[2] # 0,
             g_flag["convertUTF8"]>>
      ELSE <<>>,
      have_serialize, cell, written>>
=============================================================================
