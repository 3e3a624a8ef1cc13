-------------------------------- MODULE Texts --------------------------------
(***************************************************************************)
(* Texts as mksqlite hands them to SQLite and gets them back: strings of C *)
(* that may be recoded from Latin-1 to UTF-8 and back.  A text is the      *)
(* sequence of its bytes; a string of C has none that is 0, a NUL ends it. *)
(***************************************************************************)
EXTENDS Integers, Sequences

Chars == 1 .. 255

Ascii(s) == \A k \in DOMAIN s : s[k] < 128

\* What a function of C sees of a text.
UpToNul(s) ==
    LET nuls == {k \in DOMAIN s : s[k] = 0}
    IN  IF nuls = {} THEN s
        ELSE SubSeq(s, 1, (CHOOSE k \in nuls : \A m \in nuls : k <= m) - 1)

\* A character of Latin-1 in UTF-8.
Utf(c) == IF c < 128 THEN <<c>> ELSE <<192 + c \div 64, 128 + (c % 64)>>

latin2utf[s \in Seq(Chars)] ==
    IF s = <<>> THEN <<>> ELSE Utf(Head(s)) \o latin2utf[Tail(s)]

\* Mutant of Latin: the upper bits of the second byte are left in.
LatinUnmasked(first, second) == (first * 64 + second) % 256

\* Two bytes of UTF-8 as the code puts them together, whatever they are.
Latin(first, second) == (first * 64 + (second % 64)) % 256

\* Whatever is in the memory behind a string.
Beyond == -1

\* A byte from 128 on is taken together with the next one; if it is the last one, the
\* NUL is taken for the next one and the conversion runs past the end of the text.
utf2latin[s \in Seq(Chars)] ==
    IF s = <<>> THEN <<>>
    ELSE IF s[1] < 128 THEN <<s[1]>> \o utf2latin[Tail(s)]
    ELSE IF Len(s) = 1 THEN <<Latin(s[1], 0), Beyond>>
    ELSE <<Latin(s[1], s[2])>> \o utf2latin[Tail(Tail(s))]
=============================================================================
