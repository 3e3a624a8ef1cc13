------------------------------- MODULE Numbers -------------------------------
(***************************************************************************)
(* Numbers as the program meets them: integers of a width, and floating    *)
(* point numbers with so many significant bits.  The widths are small      *)
(* here; what matters is that a number may be too long for them.           *)
(***************************************************************************)
EXTENDS Integers

Magnitude(n) == IF n < 0 THEN -n ELSE n

TwoTo[k \in Nat] == IF k = 0 THEN 1 ELSE 2 * TwoTo[k - 1]

\* The least exponent with which that many significant bits suffice for n.
IsExponent(e, n, bits) ==
    /\ Magnitude(n) < TwoTo[bits + e]
    /\ e # 0 => TwoTo[bits + e - 1] <= Magnitude(n)

\* The unit in the last place of n when it has that many significant bits.
Ulp(n, bits) == TwoTo[CHOOSE e \in 0 .. Magnitude(n) : IsExponent(e, n, bits)]

\* The floating point number nearest to n, ties to even.
Rounded(n, bits) ==
    LET u == Ulp(n, bits)
        q == Magnitude(n) \div u
        rest == 2 * (Magnitude(n) % u)
        up == rest > u \/ (rest = u /\ q % 2 = 1)
        m == (IF up THEN q + 1 ELSE q) * u
    IN  IF n < 0 THEN -m ELSE m

\* The integers of a type of that many bits, and what a cast to it leaves of n.
Signed(bits) == -TwoTo[bits - 1] .. TwoTo[bits - 1] - 1
Unsigned(bits) == 0 .. TwoTo[bits] - 1
Wrapped(n, bits) == ((n + TwoTo[bits - 1]) % TwoTo[bits]) - TwoTo[bits - 1]
=============================================================================
