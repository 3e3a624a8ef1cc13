--------------------------- MODULE MCResultColumns ---------------------------
(***************************************************************************)
(* ResultColumns with the bounds TLC explores.                             *)
(***************************************************************************)
EXTENDS ResultColumns

CONSTANTS half, text, foreign

\* Of the integers 1 .. 3 only 2 is a double: 1 is rounded within the range, 3 out of it.
MCDouble(n) == IF n = 3 THEN 4 ELSE 2

MCFloats == {half}
MCTexts == {text}
MCBlobs == {foreign}
MCUnreadable == {foreign}
=============================================================================
