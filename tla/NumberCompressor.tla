--------------------------- MODULE NumberCompressor ---------------------------
(***************************************************************************)
(* The compressors for arrays of doubles: single precision (FLOAT) and     *)
(* linear or logarithmic quantization to 16 bits (QLIN16, QLOG16), with    *)
(* their inverses.  Finite values are mapped to levels of the range they   *)
(* span, zeros, infinities and NaN to codes above the last level.          *)
(*                                                                         *)
(* A double is <<kind, n>>: "fin" with a number, "zero" and "inf" with a   *)
(* sign, "nan".  Numbers are counted in a unit so small that the step      *)
(* between two levels is a whole number: they are multiples of Top, and so *)
(* are their logarithms, which Log gives.  Doubles beyond the range of     *)
(* floats are left out.                                                    *)
(***************************************************************************)
EXTENDS Numbers, Sequences

CONSTANTS
    Top,            \* 0xFFF8: the last level
    Mask,           \* 8: the lowest bits of a level are cleared
    FloatBits,      \* significant bits of a float
    Log             \* logarithms of the positive numbers

ASSUME LevelsAssumption == Top \in Nat \ {0} /\ Mask \in Nat \ {0} /\ Top % Mask = 0

ASSUME FloatAssumption == FloatBits \in Nat \ {0}

\* log is monotonic.
ASSUME LogAssumption ==
    \A n \in DOMAIN Log :
        /\ n \in Nat \ {0} /\ Log[n] \in Int /\ Log[n] % Top = 0
        /\ \A m \in DOMAIN Log : n <= m => Log[n] <= Log[m]

Doubles ==
    ({"fin"} \X (Int \ {0})) \union ({"zero", "inf"} \X {0, 1}) \union {<<"nan", 0>>}

Elements(data) == {data[k] : k \in 1 .. Len(data)}
Finite(data) == {x[2] : x \in {y \in Elements(data) : y[1] = "fin"}}
OnGrid(data) == \A n \in Finite(data) : n % Top = 0 /\ (n > 0 => n \in DOMAIN Log)
Least(S) == CHOOSE n \in S : \A m \in S : n <= m
Greatest(S) == CHOOSE n \in S : \A m \in S : m <= n

\* The scale a number is quantized on.
On(log, n) == IF log THEN Log[n] ELSE n

Offset(log, data) == IF Finite(data) = {} THEN 0 ELSE On(log, Least(Finite(data)))

\* One level; when all values are equal any step will do.
Scale(log, data) ==
    LET span == On(log, Greatest(Finite(data))) - Offset(log, data)
    IN  IF Finite(data) = {} \/ span = 0 THEN 1 ELSE span \div Top

\* Mutant of Special: the sign of zero is dropped.
SpecialUnsigned(x) ==
    CASE x[1] = "zero" -> Top + 1
      [] x[1] = "inf" -> Top + 3 + x[2]
      [] x[1] = "nan" -> Top + 5

Special(x) ==
    CASE x[1] = "zero" -> Top + 1 + x[2]
      [] x[1] = "inf" -> Top + 3 + x[2]
      [] x[1] = "nan" -> Top + 5

Level(n, offset, scale) ==
    LET level == (n - offset) \div scale
    IN  level - (level % Mask)

\* Offset and scale are stored as floats, but the levels are counted before that.
linlogQuantizerCompress(log, data) ==
    LET offset == Offset(log, data)
        scale == Scale(log, data)
    IN  [offset |-> Rounded(offset, FloatBits),
         scale |-> Rounded(scale, FloatBits),
         codes |-> [k \in 1 .. Len(data) |->
             IF data[k][1] = "fin" THEN Level(On(log, data[k][2]), offset, scale)
             ELSE Special(data[k])]]

\* A value on a logarithmic scale is left there ("exp").
linlogQuantizerDecompress(log, packed) ==
    [k \in 1 .. Len(packed.codes) |->
        LET code == packed.codes[k]
        IN  IF code > Top
            THEN CASE code - Top = 1 -> <<"zero", 0>>
                   [] code - Top = 2 -> <<"zero", 1>>
                   [] code - Top = 3 -> <<"inf", 0>>
                   [] code - Top = 4 -> <<"inf", 1>>
                   [] code - Top = 5 -> <<"nan", 0>>
            ELSE <<IF log THEN "exp" ELSE "fin", code * packed.scale + packed.offset>>]

\* No offset, no scale, and for each value its float.
floatCompress(data) ==
    [offset |-> 0, scale |-> 1,
     codes |-> [k \in 1 .. Len(data) |->
         IF data[k][1] = "fin" THEN <<"fin", Rounded(data[k][2], FloatBits)>> ELSE data[k]]]

-----------------------------------------------------------------------------
(* Dispatch *)

Lossy == {"float", "qlin16", "qlog16"}

\* Only doubles are quantized, and no negative numbers on a logarithmic scale.
CanPack(compressor, class, data) ==
    compressor \in Lossy =>
        /\ class = "double"
        /\ compressor = "qlog16" => \A n \in Finite(data) : n > 0

\* blosc gives back what it got: it is taken as a copy.
Packed(compressor, data) ==
    CASE compressor = "float" -> floatCompress(data)
      [] compressor \in {"qlin16", "qlog16"} -> linlogQuantizerCompress(compressor = "qlog16", data)
      [] OTHER -> [offset |-> 0, scale |-> 1, codes |-> data]

Unpacked(compressor, packed) ==
    IF compressor \in {"qlin16", "qlog16"}
    THEN linlogQuantizerDecompress(compressor = "qlog16", packed)
    ELSE packed.codes

\* Bytes of the result; blosc's depends on the data.
PackedSizes(compressor, size, count) ==
    CASE compressor = "float" -> {4 * count}
      [] compressor \in {"qlin16", "qlog16"} -> {2 * 4 + 2 * count}
      [] OTHER -> {1, size}

-----------------------------------------------------------------------------
(* What is promised of a lossy compressor *)

\* How far a value may be off: less than Mask levels of the range, and what is lost by
\* storing offset and step as floats.
Tolerance(log, data) ==
    Mask * Scale(log, data)
      + Magnitude(Rounded(Offset(log, data), FloatBits) - Offset(log, data))
      + Top * Magnitude(Rounded(Scale(log, data), FloatBits) - Scale(log, data))

\* Zeros, infinities and NaN come back as they were; values are close to what they
\* were, and none overtakes another.
CloseTo(compressor, data, back) ==
    LET log == compressor = "qlog16"
        finite == {k \in 1 .. Len(data) : data[k][1] = "fin"}
    IN  /\ Len(back) = Len(data)
        /\ \A k \in 1 .. Len(data) \ finite : back[k] = data[k]
        /\ \A k \in finite :
              IF compressor = "float"
              THEN 2 * Magnitude(back[k][2] - data[k][2]) <= Ulp(data[k][2], FloatBits)
              ELSE Magnitude(back[k][2] - On(log, data[k][2])) <= Tolerance(log, data)
        /\ \A j, k \in finite : data[j][2] <= data[k][2] => back[j][2] <= back[k][2]
=============================================================================
