-------------------------- MODULE StoredValuesProofs --------------------------
(***************************************************************************)
(* Proofs about StoredValues and the compressors, for any items, levels,   *)
(* widths of floats and integers, and any monotonic logarithm.             *)
(***************************************************************************)
EXTENDS StoredValues, SettingsProofs, SequenceTheorems, WellFoundedInduction

-----------------------------------------------------------------------------
(* Induction, for sets *)

LEMMA LessIsWellFounded == IsWellFoundedOn({ss \in Nat \X Nat : ss[1] < ss[2]}, Nat)
  BY NatLessThanWellFounded DEF OpToRel

LEMMA LeastNatural ==
  ASSUME NEW S, S \subseteq Nat, S # {}
  PROVE  \E n \in S : \A m \in S : n <= m
<1> DEFINE R == {ss \in Nat \X Nat : ss[1] < ss[2]}
<1>1. \A m, n \in Nat : ~(<<m, n>> \in R) => n <= m
  OBVIOUS
<1>2. IsWellFoundedOn(R, Nat)
  BY LessIsWellFounded
<1> HIDE DEF R
<1>3. PICK n \in S : \A m \in S : ~(<<m, n>> \in R)
  BY <1>2, WFMin
<1>4. QED
  BY <1>1, <1>3

LEMMA Induction ==
  ASSUME NEW S, 0 \in S, \A n \in Nat : n \in S => n + 1 \in S
  PROVE  \A n \in Nat : n \in S
<1> SUFFICES ASSUME Nat \ S # {} PROVE FALSE
  OBVIOUS
<1>1. PICK n \in Nat \ S : \A m \in Nat \ S : n <= m
  BY LeastNatural
<1>2. n # 0 /\ n - 1 \in Nat /\ ~(n <= n - 1)
  BY <1>1
<1>3. n - 1 \in S /\ (n - 1) + 1 = n
  BY <1>1, <1>2
<1>4. QED
  BY <1>1, <1>2, <1>3

-----------------------------------------------------------------------------
(* Recursion on the length of a text *)

\* f follows step on the arguments that are smaller than n.
FollowsBelow(f, step, D, size, n) == \A s \in D : size[s] < n => f[s] = step[<<s, f>>]

\* step defines a function on D by recursion: it looks up smaller arguments only.
IsRecursion(step, D, size, V) ==
    /\ V # {}
    /\ size \in [D -> Nat]
    /\ step \in [D \X [D -> V] -> V]
    /\ \A s \in D, f, g \in [D -> V] :
          (\A t \in D : size[t] < size[s] => f[t] = g[t]) => step[<<s, f>>] = step[<<s, g>>]

LEMMA RecursionBegins ==
  ASSUME NEW D, NEW size, NEW V, NEW step, IsRecursion(step, D, size, V)
  PROVE  \A n \in Nat : \E f \in [D -> V] : FollowsBelow(f, step, D, size, n)
<1>1. /\ V # {} /\ size \in [D -> Nat] /\ step \in [D \X [D -> V] -> V]
      /\ \A s \in D, f, g \in [D -> V] :
            (\A t \in D : size[t] < size[s] => f[t] = g[t]) => step[<<s, f>>] = step[<<s, g>>]
  BY DEF IsRecursion
<1> DEFINE S == {n \in Nat : \E f \in [D -> V] : FollowsBelow(f, step, D, size, n)}
<1>2. 0 \in S
  <2>1. PICK v : v \in V
    BY <1>1
  <2> DEFINE f == [s \in D |-> v]
  <2>2. f \in [D -> V]
    BY <2>1
  <2>3. \A s \in D : ~(size[s] < 0)
    BY <1>1
  <2> HIDE DEF f
  <2>4. FollowsBelow(f, step, D, size, 0)
    BY <2>3 DEF FollowsBelow
  <2>5. QED
    BY <2>2, <2>4
<1>3. ASSUME NEW n \in Nat, n \in S PROVE n + 1 \in S
  <2>1. PICK f \in [D -> V] : FollowsBelow(f, step, D, size, n)
    BY <1>3
  <2> DEFINE g == [s \in D |-> IF size[s] < n THEN f[s] ELSE step[<<s, f>>]]
  <2>2. g \in [D -> V]
    BY <1>1
  <2>3. \A t \in D : size[t] < n => f[t] = g[t]
    OBVIOUS
  <2>4. \A s \in D : g[s] = step[<<s, f>>]
    BY <2>1 DEF FollowsBelow
  <2> HIDE DEF g
  <2>5. ASSUME NEW s \in D, size[s] < n + 1 PROVE g[s] = step[<<s, g>>]
    <3>1. size[s] \in Nat /\ \A t \in D : size[t] \in Nat
      BY <1>1
    <3>2. \A t \in D : size[t] < size[s] => size[t] < n
      BY <2>5, <3>1
    <3>3. step[<<s, f>>] = step[<<s, g>>]
      BY <2>2, <2>3, <3>2, <1>1
    <3>4. QED
      BY <2>4, <3>3
  <2>6. FollowsBelow(g, step, D, size, n + 1)
    BY <2>5 DEF FollowsBelow
  <2>7. QED
    BY <2>2, <2>6
<1> HIDE DEF S
<1>4. \A n \in Nat : n \in S
  BY <1>2, <1>3, Induction
<1>5. QED
  BY <1>4 DEF S

LEMMA RecursionAgrees ==
  ASSUME NEW D, NEW size, NEW V, NEW step, IsRecursion(step, D, size, V)
  PROVE  \A m, n \in Nat : \A f, g \in [D -> V] :
            FollowsBelow(f, step, D, size, m) /\ FollowsBelow(g, step, D, size, n) =>
              \A s \in D : size[s] < m /\ size[s] < n => f[s] = g[s]
<1>1. /\ V # {} /\ size \in [D -> Nat] /\ step \in [D \X [D -> V] -> V]
      /\ \A s \in D, f, g \in [D -> V] :
            (\A t \in D : size[t] < size[s] => f[t] = g[t]) => step[<<s, f>>] = step[<<s, g>>]
  BY DEF IsRecursion
<1> SUFFICES ASSUME NEW m \in Nat, NEW n \in Nat, NEW f \in [D -> V], NEW g \in [D -> V],
                    FollowsBelow(f, step, D, size, m), FollowsBelow(g, step, D, size, n)
             PROVE  \A s \in D : size[s] < m /\ size[s] < n => f[s] = g[s]
  OBVIOUS
<1> DEFINE S == {k \in Nat : \A s \in D :
                    size[s] < k /\ size[s] < m /\ size[s] < n => f[s] = g[s]}
<1>2. \A s \in D : size[s] \in Nat
  BY <1>1
<1>3. 0 \in S
  BY <1>2
<1>4. ASSUME NEW k \in Nat, k \in S PROVE k + 1 \in S
  <2>1. ASSUME NEW s \in D, size[s] < k + 1, size[s] < m, size[s] < n PROVE f[s] = g[s]
    <3>1. ASSUME NEW t \in D, size[t] < size[s] PROVE f[t] = g[t]
      <4>1. size[t] < k /\ size[t] < m /\ size[t] < n
        BY <1>2, <2>1, <3>1
      <4>2. QED
        BY <1>4, <4>1
    <3>2. step[<<s, f>>] = step[<<s, g>>]
      BY <3>1, <1>1
    <3>3. QED
      BY <2>1, <3>2 DEF FollowsBelow
  <2>2. QED
    BY <2>1
<1> HIDE DEF S
<1>5. \A k \in Nat : k \in S
  BY <1>3, <1>4, Induction
<1>6. ASSUME NEW s \in D, size[s] < m, size[s] < n PROVE f[s] = g[s]
  <2>1. size[s] + 1 \in S /\ size[s] < size[s] + 1
    BY <1>2, <1>5
  <2>2. QED
    BY <1>6, <2>1 DEF S
<1>7. QED
  BY <1>6

IsSolution(f, step, D, V) == f \in [D -> V] /\ \A s \in D : f[s] = step[<<s, f>>]

LEMMA RecursionExists ==
  ASSUME NEW D, NEW size, NEW V, NEW step, IsRecursion(step, D, size, V)
  PROVE  \E f : IsSolution(f, step, D, V)
<1>1. /\ V # {} /\ size \in [D -> Nat] /\ step \in [D \X [D -> V] -> V]
      /\ \A s \in D, f, g \in [D -> V] :
            (\A t \in D : size[t] < size[s] => f[t] = g[t]) => step[<<s, f>>] = step[<<s, g>>]
  BY DEF IsRecursion
<1> DEFINE upTo(n) == CHOOSE f \in [D -> V] : FollowsBelow(f, step, D, size, n)
           p == [s \in D |-> upTo(size[s] + 1)[s]]
<1>2. \A n \in Nat : upTo(n) \in [D -> V] /\ FollowsBelow(upTo(n), step, D, size, n)
  BY RecursionBegins
<1>3. \A s \in D : size[s] \in Nat /\ size[s] + 1 \in Nat /\ size[s] < size[s] + 1
  BY <1>1
<1>4. \A s \in D : p[s] = upTo(size[s] + 1)[s]
  OBVIOUS
<1> HIDE DEF upTo, p
<1>5. \A m, n \in Nat : \A f, g \in [D -> V] :
        FollowsBelow(f, step, D, size, m) /\ FollowsBelow(g, step, D, size, n) =>
          \A s \in D : size[s] < m /\ size[s] < n => f[s] = g[s]
  BY RecursionAgrees
<1>6. p \in [D -> V]
  BY <1>2, <1>3 DEF p
<1>7. ASSUME NEW s \in D PROVE p[s] = step[<<s, p>>]
  <2> DEFINE f == upTo(size[s] + 1)
  <2>1. f \in [D -> V] /\ FollowsBelow(f, step, D, size, size[s] + 1)
    BY <1>2, <1>3
  <2>2. f[s] = step[<<s, f>>]
    BY <1>3, <2>1 DEF FollowsBelow
  <2>3. ASSUME NEW t \in D, size[t] < size[s] PROVE f[t] = p[t]
    <3> DEFINE g == upTo(size[t] + 1)
    <3>1. g \in [D -> V] /\ FollowsBelow(g, step, D, size, size[t] + 1)
      BY <1>2, <1>3
    <3>2. size[t] < size[s] + 1 /\ size[t] < size[t] + 1
      BY <1>3, <2>3
    <3> HIDE DEF f, g
    <3>3. f[t] = g[t]
      BY <1>3, <1>5, <2>1, <3>1, <3>2
    <3>4. QED
      BY <1>4, <3>3 DEF g
  <2>4. step[<<s, f>>] = step[<<s, p>>]
    BY <1>6, <2>1, <2>3, <1>1
  <2>5. QED
    BY <1>4, <2>2, <2>4
<1>8. QED
  BY <1>6, <1>7 DEF IsSolution

-----------------------------------------------------------------------------
(* Recoding texts *)

LengthOf == [s \in Seq(Chars) |-> Len(s)]

LEMMA TextsByLength ==
  ASSUME NEW P,
         \A s \in Seq(Chars) : (\A t \in Seq(Chars) : Len(t) < Len(s) => t \in P) => s \in P
  PROVE  \A s \in Seq(Chars) : s \in P
<1> DEFINE S == {n \in Nat : \A s \in Seq(Chars) : Len(s) < n => s \in P}
<1>1. \A s \in Seq(Chars) : Len(s) \in Nat
  BY LenProperties
<1>2. 0 \in S
  BY <1>1
<1>3. ASSUME NEW n \in Nat, n \in S PROVE n + 1 \in S
  <2>1. ASSUME NEW s \in Seq(Chars), Len(s) < n + 1 PROVE s \in P
    <3>1. \A t \in Seq(Chars) : Len(t) < Len(s) => Len(t) < n
      BY <1>1, <2>1
    <3>2. QED
      BY <1>3, <3>1
  <2>2. QED
    BY <2>1
<1> HIDE DEF S
<1>4. \A n \in Nat : n \in S
  BY <1>2, <1>3, Induction
<1>5. ASSUME NEW s \in Seq(Chars) PROVE s \in P
  <2>1. Len(s) + 1 \in S /\ Len(s) < Len(s) + 1
    BY <1>1, <1>4
  <2>2. QED
    BY <2>1 DEF S
<1>6. QED
  BY <1>5

LEMMA UtfType == \A c \in Chars : Utf(c) \in Seq(Chars)
<1> SUFFICES ASSUME NEW c \in Chars PROVE Utf(c) \in Seq(Chars)
  OBVIOUS
<1>1. CASE c < 128
  BY <1>1 DEF Utf
<1>2. CASE ~(c < 128)
  <2>1. 192 + c \div 64 \in Chars /\ 128 + (c % 64) \in Chars
    BY DEF Chars
  <2>2. QED
    BY <1>2, <2>1 DEF Utf
<1>3. QED
  BY <1>1, <1>2

LEMMA TailsAreShorter ==
  ASSUME NEW s \in Seq(Chars), s # <<>>
  PROVE  /\ s[1] \in Chars /\ Head(s) = s[1] /\ s = <<s[1]>> \o Tail(s)
         /\ Tail(s) \in Seq(Chars) /\ Len(Tail(s)) < Len(s)
         /\ Len(s) # 1 =>
              /\ s[2] \in Chars
              /\ Tail(Tail(s)) \in Seq(Chars) /\ Len(Tail(Tail(s))) < Len(s)
  OBVIOUS

LEMMA latin2utfDef ==
  \A s \in Seq(Chars) :
     latin2utf[s] = IF s = <<>> THEN <<>> ELSE Utf(Head(s)) \o latin2utf[Tail(s)]
<1> DEFINE D == Seq(Chars)
           V == Seq(Chars)
           A == D \X [D -> V]
           step == [a \in A |-> IF a[1] = <<>> THEN <<>> ELSE Utf(Head(a[1])) \o a[2][Tail(a[1])]]
<1>1. \A s \in D, f \in [D -> V] :
         step[<<s, f>>] = IF s = <<>> THEN <<>> ELSE Utf(Head(s)) \o f[Tail(s)]
  OBVIOUS
<1>2. ASSUME NEW s \in D, NEW f \in [D -> V]
      PROVE  (IF s = <<>> THEN <<>> ELSE Utf(Head(s)) \o f[Tail(s)]) \in V
  <2>1. CASE s = <<>>
    BY <2>1
  <2>2. CASE s # <<>>
    <3>1. Head(s) \in Chars /\ Tail(s) \in Seq(Chars)
      BY <2>2, TailsAreShorter
    <3>2. Utf(Head(s)) \in Seq(Chars) /\ f[Tail(s)] \in Seq(Chars)
      BY <3>1, UtfType
    <3>3. QED
      BY <2>2, <3>2, ConcatProperties
  <2>3. QED
    BY <2>1, <2>2
<1>3. step \in [A -> V]
  <2>1. \A a \in A : /\ a[1] \in D /\ a[2] \in [D -> V]
    OBVIOUS
  <2>2. \A a \in A : (IF a[1] = <<>> THEN <<>> ELSE Utf(Head(a[1])) \o a[2][Tail(a[1])]) \in V
    BY <1>2, <2>1
  <2> HIDE DEF A, V, D
  <2>3. QED
    BY <2>2
<1> HIDE DEF step
<1>4. IsRecursion(step, D, LengthOf, V)
  <2>1. LengthOf \in [D -> Nat]
    BY DEF LengthOf
  <2>2. ASSUME NEW s \in D, NEW f \in [D -> V], NEW g \in [D -> V],
               \A t \in D : LengthOf[t] < LengthOf[s] => f[t] = g[t]
        PROVE  step[<<s, f>>] = step[<<s, g>>]
    <3>1. CASE s = <<>>
      BY <1>1, <3>1
    <3>2. CASE s # <<>>
      <4>1. Tail(s) \in D /\ LengthOf[Tail(s)] < LengthOf[s]
        BY <3>2, TailsAreShorter DEF LengthOf
      <4>2. f[Tail(s)] = g[Tail(s)]
        BY <2>2, <4>1
      <4>3. QED
        BY <1>1, <4>2
    <3>3. QED
      BY <3>1, <3>2
  <2>3. <<>> \in V
    OBVIOUS
  <2>4. QED
    BY <1>3, <2>1, <2>2, <2>3 DEF IsRecursion
<1>5. PICK f : IsSolution(f, step, D, V)
  BY <1>4, RecursionExists
<1>6. f \in [D -> V] /\ \A s \in D : f[s] = step[<<s, f>>]
  BY <1>5 DEF IsSolution
<1>7. f = [s \in D |-> IF s = <<>> THEN <<>> ELSE Utf(Head(s)) \o f[Tail(s)]]
  BY <1>1, <1>6
<1>8. latin2utf = CHOOSE g : g = [s \in D |-> IF s = <<>> THEN <<>> ELSE Utf(Head(s)) \o g[Tail(s)]]
  BY DEF latin2utf
<1>9. latin2utf = [s \in D |-> IF s = <<>> THEN <<>> ELSE Utf(Head(s)) \o latin2utf[Tail(s)]]
  BY <1>7, <1>8
<1>10. QED
  BY <1>9

LEMMA CharsAreCodes ==
  /\ \A c \in Chars : c \in Int /\ c \in 0 .. 255 /\ c # 0
  /\ \A c \in 0 .. 255 : c # 0 => c \in Chars
BY DEF Chars

LEMMA utf2latinDef ==
  \A s \in Seq(Chars) :
     utf2latin[s] = IF s = <<>> THEN <<>>
                    ELSE IF s[1] < 128 THEN <<s[1]>> \o utf2latin[Tail(s)]
                    ELSE IF Len(s) = 1 THEN <<Latin(s[1], 0), Beyond>>
                    ELSE <<Latin(s[1], s[2])>> \o utf2latin[Tail(Tail(s))]
<1> DEFINE D == Seq(Chars)
           V == Seq(Int)
           A == D \X [D -> V]
           result(s, f) == IF s = <<>> THEN <<>>
                           ELSE IF s[1] < 128 THEN <<s[1]>> \o f[Tail(s)]
                           ELSE IF Len(s) = 1 THEN <<Latin(s[1], 0), Beyond>>
                           ELSE <<Latin(s[1], s[2])>> \o f[Tail(Tail(s))]
           step == [a \in A |-> result(a[1], a[2])]
<1>1. ASSUME NEW s \in D, NEW f \in [D -> V]
      PROVE  result(s, f) \in V
  <2>1. CASE s = <<>>
    BY <2>1
  <2>2. CASE s # <<>>
    <3>1. /\ s[1] \in Chars /\ Tail(s) \in Seq(Chars)
          /\ Len(s) # 1 => s[2] \in Chars /\ Tail(Tail(s)) \in Seq(Chars)
      BY <2>2, TailsAreShorter
    <3>2. \A c \in Chars : c \in Int /\ c \in 0 .. 255
      BY CharsAreCodes
    <3>3. \A a, b \in 0 .. 255 : Latin(a, b) \in Int
      BY DEF Latin
    <3> HIDE DEF D, V
    <3>4. CASE s[1] < 128
      <4>1. s[1] \in Int
        BY <3>1, <3>2
      <4>2. f[Tail(s)] \in Seq(Int)
        BY <3>1 DEF D, V
      <4>3. <<s[1]>> \in Seq(Int)
        BY <4>1
      <4>4. QED
        BY <2>2, <3>4, <4>2, <4>3, ConcatProperties DEF V
    <3>5. CASE ~(s[1] < 128) /\ Len(s) = 1
      <4>1. s[1] \in 0 .. 255 /\ 0 \in 0 .. 255
        BY <3>1, <3>2
      <4>2. Latin(s[1], 0) \in Int
        BY <3>3, <4>1
      <4>3. Beyond \in Int
        BY DEF Beyond
      <4>4. <<Latin(s[1], 0), Beyond>> \in Seq(Int)
        BY <4>2, <4>3
      <4>5. QED
        BY <2>2, <3>5, <4>4 DEF V
    <3>6. CASE ~(s[1] < 128) /\ Len(s) # 1
      <4>1. Latin(s[1], s[2]) \in Int /\ f[Tail(Tail(s))] \in Seq(Int)
        BY <3>1, <3>2, <3>3, <3>6 DEF D, V
      <4>2. QED
        BY <2>2, <3>6, <4>1, ConcatProperties DEF V
    <3>7. QED
      BY <3>4, <3>5, <3>6
  <2>3. QED
    BY <2>1, <2>2
<1>2. ASSUME NEW s \in D, NEW f \in [D -> V], NEW g \in [D -> V],
             \A t \in D : Len(t) < Len(s) => f[t] = g[t]
      PROVE  result(s, f) = result(s, g)
  <2>1. CASE s = <<>>
    BY <2>1
  <2>2. CASE s # <<>>
    <3>1. f[Tail(s)] = g[Tail(s)] /\ (Len(s) # 1 => f[Tail(Tail(s))] = g[Tail(Tail(s))])
      BY <1>2, <2>2, TailsAreShorter
    <3>2. QED
      BY <3>1
  <2>3. QED
    BY <2>1, <2>2
<1>3. utf2latin = CHOOSE g : g = [s \in D |-> result(s, g)]
  BY DEF utf2latin
<1> HIDE DEF result
<1>4. \A s \in D, f \in [D -> V] : step[<<s, f>>] = result(s, f)
  OBVIOUS
<1>5. step \in [A -> V]
  <2>1. \A a \in A : a[1] \in D /\ a[2] \in [D -> V]
    OBVIOUS
  <2>2. \A a \in A : result(a[1], a[2]) \in V
    BY <1>1, <2>1
  <2> HIDE DEF A, V, D
  <2>3. QED
    BY <2>2
<1> HIDE DEF step
<1>6. IsRecursion(step, D, LengthOf, V)
  <2>1. LengthOf \in [D -> Nat] /\ \A s \in D : LengthOf[s] = Len(s)
    BY DEF LengthOf
  <2>2. ASSUME NEW s \in D, NEW f \in [D -> V], NEW g \in [D -> V],
               \A t \in D : LengthOf[t] < LengthOf[s] => f[t] = g[t]
        PROVE  step[<<s, f>>] = step[<<s, g>>]
    <3>1. \A t \in D : Len(t) < Len(s) => f[t] = g[t]
      BY <2>1, <2>2
    <3>2. result(s, f) = result(s, g)
      BY <1>2, <3>1
    <3>3. QED
      BY <1>4, <3>2
  <2>3. <<>> \in V
    OBVIOUS
  <2>4. QED
    BY <1>5, <2>1, <2>2, <2>3 DEF IsRecursion
<1>7. PICK f : IsSolution(f, step, D, V)
  BY <1>6, RecursionExists
<1>8. f \in [D -> V] /\ \A s \in D : f[s] = result(s, f)
  BY <1>4, <1>7 DEF IsSolution
<1>9. f = [s \in D |-> result(s, f)]
  BY <1>8
<1>10. utf2latin = [s \in D |-> result(s, utf2latin)]
  BY <1>3, <1>9
<1>11. \A s \in D : utf2latin[s] = result(s, utf2latin)
  BY <1>10
<1>12. QED
  BY <1>11 DEF result

\* A character from 128 on takes two bytes, and is what they are put together to.
LEMMA TwoBytes ==
  ASSUME NEW c \in Chars, ~(c < 128)
  PROVE  /\ Utf(c) = <<192 + c \div 64, 128 + (c % 64)>>
         /\ 192 + c \div 64 \in Chars /\ 128 + (c % 64) \in Chars
         /\ ~(192 + c \div 64 < 128)
         /\ Latin(192 + c \div 64, 128 + (c % 64)) = c
<1> DEFINE q == c \div 64
           r == c % 64
<1>1. q \in {2, 3} /\ r \in 0 .. 63 /\ c = 64 * q + r
  BY DEF Chars
<1>2. Utf(c) = <<192 + q, 128 + r>>
  BY DEF Utf
<1> HIDE DEF q, r
<1>3. (128 + r) % 64 = r
  BY <1>1
<1>4. ((192 + q) * 64 + r) % 256 = c
  BY <1>1 DEF Chars
<1>5. Latin(192 + q, 128 + r) = c
  BY <1>3, <1>4 DEF Latin
<1>6. 192 + q \in Chars /\ 128 + r \in Chars /\ ~(192 + q < 128)
  BY <1>1 DEF Chars
<1>7. QED
  BY <1>2, <1>5, <1>6 DEF q, r

\* What latin2utf makes of a text, utf2latin turns back into it.
LEMMA RecodingIsUndone ==
  \A s \in Seq(Chars) : latin2utf[s] \in Seq(Chars) /\ utf2latin[latin2utf[s]] = s
<1> DEFINE P == {s \in Seq(Chars) : latin2utf[s] \in Seq(Chars) /\ utf2latin[latin2utf[s]] = s}
<1>1. ASSUME NEW s \in Seq(Chars), \A t \in Seq(Chars) : Len(t) < Len(s) => t \in P
      PROVE  s \in P
  <2>1. CASE s = <<>>
    BY <2>1, latin2utfDef, utf2latinDef
  <2>2. CASE s # <<>>
    <3> DEFINE c == s[1]
               t == Tail(s)
               u == latin2utf[t]
               w == latin2utf[s]
    <3>1. /\ c \in Chars /\ Head(s) = c /\ s = <<c>> \o t
          /\ t \in Seq(Chars) /\ Len(t) < Len(s)
      BY <2>2, TailsAreShorter
    <3>2. u \in Seq(Chars) /\ utf2latin[u] = t
      BY <1>1, <3>1
    <3>3. w = Utf(c) \o u
      BY <2>2, <3>1, latin2utfDef
    <3> HIDE DEF c, t, u, w
    <3>4. CASE c < 128
      <4>1. w = <<c>> \o u
        BY <3>3, <3>4 DEF Utf
      <4>2. w \in Seq(Chars) /\ w # <<>> /\ w[1] = c /\ Tail(w) = u
        BY <3>1, <3>2, <4>1
      <4>3. utf2latin[w] = <<c>> \o t
        BY <3>2, <3>4, <4>2, utf2latinDef
      <4>4. QED
        BY <3>1, <4>2, <4>3 DEF w
    <3>5. CASE ~(c < 128)
      <4> DEFINE a == 192 + c \div 64
                 b == 128 + (c % 64)
      <4>1. Utf(c) = <<a, b>> /\ a \in Chars /\ b \in Chars /\ ~(a < 128) /\ Latin(a, b) = c
        BY <3>1, <3>5, TwoBytes
      <4> HIDE DEF a, b
      <4>2. w = <<a, b>> \o u
        BY <3>3, <4>1
      <4>3. /\ w \in Seq(Chars) /\ w # <<>> /\ Len(w) # 1 /\ w[1] = a /\ w[2] = b
            /\ Tail(Tail(w)) = u
        BY <3>2, <4>1, <4>2
      <4>4. utf2latin[w] = <<c>> \o t
        BY <3>2, <4>1, <4>3, utf2latinDef
      <4>5. QED
        BY <3>1, <4>3, <4>4 DEF w
    <3>6. QED
      BY <3>4, <3>5
  <2>3. QED
    BY <2>1, <2>2
<1>2. \A s \in Seq(Chars) : s \in P
  <2> HIDE DEF P
  <2> QED
    BY <1>1, TextsByLength
<1>3. QED
  BY <1>2

\* A text of characters of one byte is the same in both.
LEMMA AsciiIsNotRecoded ==
  \A s \in Seq(Chars) : Ascii(s) => latin2utf[s] = s /\ utf2latin[s] = s
<1> DEFINE P == {s \in Seq(Chars) : Ascii(s) => latin2utf[s] = s /\ utf2latin[s] = s}
<1>1. ASSUME NEW s \in Seq(Chars), \A t \in Seq(Chars) : Len(t) < Len(s) => t \in P
      PROVE  s \in P
  <2>1. CASE s = <<>>
    BY <2>1, latin2utfDef, utf2latinDef
  <2>2. CASE s # <<>> /\ Ascii(s)
    <3> DEFINE c == s[1]
               t == Tail(s)
    <3>1. /\ c \in Chars /\ Head(s) = c /\ s = <<c>> \o t
          /\ t \in Seq(Chars) /\ Len(t) < Len(s)
      BY <2>2, TailsAreShorter
    <3>2. c < 128
      BY <2>2 DEF Ascii
    <3>3. Ascii(t)
      BY <2>2 DEF Ascii
    <3>4. latin2utf[t] = t /\ utf2latin[t] = t
      BY <1>1, <3>1, <3>3
    <3>5. latin2utf[s] = <<c>> \o t
      BY <2>2, <3>1, <3>2, <3>4, latin2utfDef DEF Utf
    <3>6. utf2latin[s] = <<c>> \o t
      BY <2>2, <3>1, <3>2, <3>4, utf2latinDef
    <3>7. QED
      BY <3>1, <3>5, <3>6
  <2>3. CASE ~Ascii(s)
    BY <2>3
  <2>4. QED
    BY <2>1, <2>2, <2>3
<1>2. \A s \in Seq(Chars) : s \in P
  <2> HIDE DEF P
  <2> QED
    BY <1>1, TextsByLength
<1>3. QED
  BY <1>2

LEMMA UpToNulIsAString ==
  ASSUME NEW s \in Seq(0 .. 255)
  PROVE  UpToNul(s) \in Seq(Chars)
<1> DEFINE nuls == {k \in DOMAIN s : s[k] = 0}
<1>1. nuls \subseteq 1 .. Len(s)
  OBVIOUS
<1>2. CASE nuls = {}
  <2>1. UpToNul(s) = s
    BY <1>2 DEF UpToNul
  <2>2. \A k \in 1 .. Len(s) : s[k] \in 0 .. 255 /\ s[k] # 0
    BY <1>2
  <2>3. \A k \in 1 .. Len(s) : s[k] \in Chars
    BY <2>2, CharsAreCodes
  <2>4. QED
    BY <2>1, <2>3
<1>3. CASE nuls # {}
  <2>1. PICK least \in nuls : \A m \in nuls : least <= m
    <3>1. nuls \subseteq Nat
      BY <1>1
    <3>2. QED
      BY <1>3, <3>1, LeastNatural
  <2> DEFINE n == CHOOSE k \in nuls : \A m \in nuls : k <= m
  <2>2. n \in nuls /\ \A m \in nuls : n <= m
    BY <2>1
  <2>3. UpToNul(s) = SubSeq(s, 1, n - 1)
    BY <1>3 DEF UpToNul
  <2> HIDE DEF n
  <2>4. n \in 1 .. Len(s) /\ \A k \in 1 .. n - 1 : k \notin nuls /\ k \in 1 .. Len(s)
    BY <1>1, <2>2
  <2>5. \A k \in 1 .. n - 1 : s[k] \in Chars
    <3>1. \A k \in 1 .. n - 1 : s[k] \in 0 .. 255 /\ s[k] # 0
      BY <2>4
    <3>2. QED
      BY <3>1, CharsAreCodes
  <2>6. SubSeq(s, 1, n - 1) = [k \in 1 .. n - 1 |-> s[k]]
    BY <2>4
  <2>7. [k \in 1 .. n - 1 |-> s[k]] \in Seq(Chars)
    BY <2>4, <2>5
  <2>8. QED
    BY <2>3, <2>6, <2>7
<1>4. QED
  BY <1>2, <1>3

LEMMA StringsHaveNoNul ==
  ASSUME NEW s \in Seq(Chars)
  PROVE  UpToNul(s) = s
<1>1. \A k \in DOMAIN s : s[k] \in Chars
  OBVIOUS
<1>2. {k \in DOMAIN s : s[k] = 0} = {}
  BY <1>1, CharsAreCodes
<1>3. QED
  BY <1>2 DEF UpToNul

-----------------------------------------------------------------------------
(* Powers of two *)

\* f is TwoTo, as far as n.
PowersUpTo(f, n) == f = [k \in 0 .. n |-> IF k = 0 THEN 1 ELSE 2 * f[k - 1]]

LEMMA PowersExist == \A n \in Nat : \E f : PowersUpTo(f, n)
<1> DEFINE S == {n \in Nat : \E f : PowersUpTo(f, n)}
<1>1. 0 \in S
  <2> DEFINE f == [k \in 0 .. 0 |-> 1]
  <2>1. PowersUpTo(f, 0)
    BY DEF PowersUpTo
  <2>2. QED
    BY <2>1
<1>2. ASSUME NEW n \in Nat, n \in S PROVE n + 1 \in S
  <2>1. PICK f : PowersUpTo(f, n)
    BY <1>2
  <2> DEFINE g == [k \in 0 .. n + 1 |-> IF k = n + 1 THEN 2 * f[n] ELSE f[k]]
  <2>2. ASSUME NEW k \in 0 .. n + 1
        PROVE  g[k] = IF k = 0 THEN 1 ELSE 2 * g[k - 1]
    <3>1. CASE k = n + 1
      BY <3>1
    <3>2. CASE k # n + 1
      <4>1. k \in 0 .. n /\ (k # 0 => k - 1 \in 0 .. n)
        BY <3>2
      <4>2. f[k] = IF k = 0 THEN 1 ELSE 2 * f[k - 1]
        BY <2>1, <4>1 DEF PowersUpTo
      <4>3. g[k] = f[k] /\ (k # 0 => g[k - 1] = f[k - 1])
        BY <4>1
      <4>4. QED
        BY <4>2, <4>3
    <3>3. QED
      BY <3>1, <3>2
  <2>3. PowersUpTo(g, n + 1)
    <3>1. g = [k \in 0 .. n + 1 |-> g[k]]
      OBVIOUS
    <3> HIDE DEF g
    <3>2. QED
      BY <2>2, <3>1 DEF PowersUpTo
  <2>4. QED
    BY <2>3
<1> HIDE DEF S
<1>3. \A n \in Nat : n \in S
  BY <1>1, <1>2, Induction
<1>4. QED
  BY <1>3 DEF S

LEMMA PowersAgree ==
  ASSUME NEW m \in Nat, NEW n \in Nat, NEW f, NEW g, PowersUpTo(f, m), PowersUpTo(g, n)
  PROVE  \A k \in Nat : k <= m /\ k <= n => f[k] = g[k]
<1> DEFINE S == {k \in Nat : k <= m /\ k <= n => f[k] = g[k]}
<1>1. 0 \in S
  BY DEF PowersUpTo
<1>2. ASSUME NEW k \in Nat, k \in S PROVE k + 1 \in S
  <2> SUFFICES ASSUME k + 1 <= m, k + 1 <= n PROVE f[k + 1] = g[k + 1]
    OBVIOUS
  <2>1. f[k] = g[k]
    BY <1>2
  <2>2. k + 1 \in 0 .. m /\ k + 1 \in 0 .. n /\ k + 1 # 0 /\ (k + 1) - 1 = k
    OBVIOUS
  <2>3. f[k + 1] = 2 * f[k] /\ g[k + 1] = 2 * g[k]
    BY <2>2 DEF PowersUpTo
  <2>4. QED
    BY <2>1, <2>3
<1> HIDE DEF S
<1>3. \A k \in Nat : k \in S
  BY <1>1, <1>2, Induction
<1>4. QED
  BY <1>3 DEF S

LEMMA TwoToDef == TwoTo = [k \in Nat |-> IF k = 0 THEN 1 ELSE 2 * TwoTo[k - 1]]
<1> DEFINE upTo(n) == CHOOSE f : PowersUpTo(f, n)
           p == [k \in Nat |-> upTo(k)[k]]
<1>1. \A n \in Nat : PowersUpTo(upTo(n), n)
  BY PowersExist
<1>2. ASSUME NEW k \in Nat PROVE p[k] = IF k = 0 THEN 1 ELSE 2 * p[k - 1]
  <2>1. upTo(k)[k] = IF k = 0 THEN 1 ELSE 2 * upTo(k)[k - 1]
    <3>1. PowersUpTo(upTo(k), k) /\ k \in 0 .. k
      BY <1>1
    <3> HIDE DEF upTo
    <3>2. QED
      BY <3>1 DEF PowersUpTo
  <2>2. k # 0 => upTo(k)[k - 1] = upTo(k - 1)[k - 1]
    <3> SUFFICES ASSUME k # 0 PROVE upTo(k)[k - 1] = upTo(k - 1)[k - 1]
      OBVIOUS
    <3>1. k - 1 \in Nat /\ k - 1 <= k /\ k - 1 <= k - 1
      OBVIOUS
    <3>2. PowersUpTo(upTo(k), k) /\ PowersUpTo(upTo(k - 1), k - 1)
      BY <1>1, <3>1
    <3> HIDE DEF upTo
    <3>3. QED
      BY <3>1, <3>2, PowersAgree
  <2>3. p[k] = upTo(k)[k] /\ (k # 0 => p[k - 1] = upTo(k - 1)[k - 1])
    <3> HIDE DEF upTo
    <3> QED
      OBVIOUS
  <2> HIDE DEF p, upTo
  <2>4. QED
    BY <2>1, <2>2, <2>3
<1>3. p = [k \in Nat |-> IF k = 0 THEN 1 ELSE 2 * p[k - 1]]
  <2>1. p = [k \in Nat |-> p[k]]
    <3> HIDE DEF upTo
    <3> QED
      OBVIOUS
  <2> HIDE DEF p
  <2>2. QED
    BY <1>2, <2>1
<1> HIDE DEF p
<1>4. QED
  BY <1>3 DEF TwoTo

LEMMA TwoToStep == TwoTo[0] = 1 /\ \A n \in Nat : TwoTo[n + 1] = 2 * TwoTo[n]
<1>1. \A n \in Nat : n + 1 \in Nat /\ n + 1 # 0 /\ (n + 1) - 1 = n
  OBVIOUS
<1>2. QED
  BY <1>1, TwoToDef

LEMMA TwoToType == \A n \in Nat : TwoTo[n] \in Nat \ {0}
<1> DEFINE S == {n \in Nat : TwoTo[n] \in Nat \ {0}}
<1>1. 0 \in S
  BY TwoToStep
<1>2. ASSUME NEW n \in Nat, n \in S PROVE n + 1 \in S
  BY <1>2, TwoToStep
<1> HIDE DEF S
<1>3. \A n \in Nat : n \in S
  BY <1>1, <1>2, Induction
<1>4. QED
  BY <1>3 DEF S

LEMMA TwoToGrows == \A n \in Nat : n < TwoTo[n]
<1> DEFINE S == {n \in Nat : n < TwoTo[n]}
<1>1. 0 \in S
  BY TwoToStep
<1>2. ASSUME NEW n \in Nat, n \in S PROVE n + 1 \in S
  BY <1>2, TwoToStep, TwoToType
<1> HIDE DEF S
<1>3. \A n \in Nat : n \in S
  BY <1>1, <1>2, Induction
<1>4. QED
  BY <1>3 DEF S

LEMMA TwoToSum == \A m, n \in Nat : TwoTo[m + n] = TwoTo[m] * TwoTo[n]
<1> TAKE m \in Nat
<1> DEFINE S == {n \in Nat : TwoTo[m + n] = TwoTo[m] * TwoTo[n]}
<1>1. 0 \in S
  BY TwoToStep, TwoToType
<1>2. ASSUME NEW n \in Nat, n \in S PROVE n + 1 \in S
  <2>1. m + (n + 1) = (m + n) + 1 /\ m + n \in Nat
    OBVIOUS
  <2>2. TwoTo[m + (n + 1)] = 2 * (TwoTo[m] * TwoTo[n])
    BY <1>2, <2>1, TwoToStep
  <2>3. \A a, b \in Nat : 2 * (a * b) = a * (2 * b)
    OBVIOUS
  <2>4. TwoTo[m] \in Nat /\ TwoTo[n] \in Nat /\ TwoTo[n + 1] = 2 * TwoTo[n]
    BY TwoToStep, TwoToType
  <2>5. QED
    BY <2>2, <2>3, <2>4
<1> HIDE DEF S
<1>3. \A n \in Nat : n \in S
  BY <1>1, <1>2, Induction
<1>4. QED
  BY <1>3 DEF S

LEMMA TwoToMonotonic ==
  ASSUME NEW m \in Nat, NEW n \in Nat, m <= n
  PROVE  TwoTo[m] <= TwoTo[n]
<1>1. PICK d \in Nat : n = m + d
  BY n - m \in Nat
<1>2. TwoTo[n] = TwoTo[m] * TwoTo[d]
  BY <1>1, TwoToSum
<1>3. \A a \in Nat, b \in Nat \ {0} : a <= a * b
  OBVIOUS
<1>4. TwoTo[m] \in Nat /\ TwoTo[d] \in Nat \ {0}
  BY TwoToType
<1>5. QED
  BY <1>2, <1>3, <1>4

-----------------------------------------------------------------------------
(* Rounding *)

LEMMA MagnitudeType == \A n \in Int : Magnitude(n) \in Nat
  BY DEF Magnitude

LEMMA ExponentExists ==
  ASSUME NEW n \in Int, NEW bits \in Nat \ {0}
  PROVE  \E e \in 0 .. Magnitude(n) : IsExponent(e, n, bits)
<1> DEFINE a == Magnitude(n)
           S == {e \in Nat : a < TwoTo[bits + e]}
<1>1. a \in Nat
  BY MagnitudeType
<1> HIDE DEF a
<1>2. a \in S
  <2>1. TwoTo[a] <= TwoTo[bits + a]
    BY <1>1, TwoToMonotonic
  <2>2. TwoTo[a] \in Nat /\ TwoTo[bits + a] \in Nat /\ a < TwoTo[a]
    BY <1>1, TwoToType, TwoToGrows
  <2>3. QED
    BY <1>1, <2>1, <2>2
<1>3. PICK e \in S : \A d \in S : e <= d
  <2>1. S \subseteq Nat /\ S # {}
    BY <1>2
  <2> HIDE DEF S
  <2>2. QED
    BY <2>1, LeastNatural
<1>4. e \in 0 .. a
  BY <1>1, <1>2, <1>3
<1>5. e # 0 => TwoTo[bits + e - 1] <= a
  <2> SUFFICES ASSUME e # 0 PROVE TwoTo[bits + e - 1] <= a
    OBVIOUS
  <2>1. e - 1 \in Nat /\ ~(e <= e - 1) /\ bits + (e - 1) = bits + e - 1
    BY <1>3
  <2>2. e - 1 \notin S
    BY <1>3, <2>1
  <2>3. TwoTo[bits + e - 1] \in Nat
    BY <2>1, TwoToType
  <2>4. QED
    BY <1>1, <2>1, <2>2, <2>3
<1>6. IsExponent(e, n, bits)
  BY <1>3, <1>5 DEF IsExponent, a
<1>7. QED
  BY <1>4, <1>6 DEF a

LEMMA UlpIsPower ==
  ASSUME NEW n \in Int, NEW bits \in Nat \ {0}
  PROVE  \E e \in Nat : Ulp(n, bits) = TwoTo[e] /\ IsExponent(e, n, bits)
<1>1. Magnitude(n) \in Nat
  BY MagnitudeType
<1> DEFINE e == CHOOSE d \in 0 .. Magnitude(n) : IsExponent(d, n, bits)
<1>2. e \in 0 .. Magnitude(n) /\ IsExponent(e, n, bits)
  BY ExponentExists
<1>3. Ulp(n, bits) = TwoTo[e]
  BY DEF Ulp
<1> HIDE DEF e
<1>4. e \in Nat
  BY <1>1, <1>2
<1>5. QED
  BY <1>2, <1>3, <1>4

LEMMA UlpType ==
  ASSUME NEW n \in Int, NEW bits \in Nat \ {0}
  PROVE  Ulp(n, bits) \in Nat \ {0}
  BY UlpIsPower, TwoToType

\* Rounding of a natural number to multiples of u.
RoundedTo(a, u) ==
    LET q == a \div u
        rest == 2 * (a % u)
    IN  (IF rest > u \/ (rest = u /\ q % 2 = 1) THEN q + 1 ELSE q) * u

LEMMA RoundedBySign ==
  ASSUME NEW n, NEW bits
  PROVE  Rounded(n, bits) = IF n < 0 THEN -RoundedTo(Magnitude(n), Ulp(n, bits))
                            ELSE RoundedTo(Magnitude(n), Ulp(n, bits))
  BY DEF Rounded, RoundedTo

LEMMA Quotient ==
  ASSUME NEW a \in Nat, NEW u \in Nat \ {0}
  PROVE  /\ a \div u \in Nat /\ a % u \in 0 .. u - 1
         /\ a = (a \div u) * u + (a % u)
  OBVIOUS

LEMMA RoundedToIsNear ==
  ASSUME NEW a \in Nat, NEW u \in Nat \ {0}
  PROVE  /\ RoundedTo(a, u) \in Nat
         /\ 2 * (RoundedTo(a, u) - a) <= u /\ 2 * (a - RoundedTo(a, u)) <= u
<1> DEFINE q == a \div u
           r == a % u
           up == 2 * r > u \/ (2 * r = u /\ q % 2 = 1)
<1>1. q \in Nat /\ r \in 0 .. u - 1 /\ a = q * u + r
  BY Quotient
<1>2. RoundedTo(a, u) = (IF up THEN q + 1 ELSE q) * u
  BY DEF RoundedTo
<1> HIDE DEF q, r
<1>3. PICK p \in Nat : p = q * u /\ (q + 1) * u = p + u
  BY <1>1
<1>4. QED
  BY <1>1, <1>2, <1>3

LEMMA TimesMonotonic ==
  ASSUME NEW x \in Nat, NEW y \in Nat, NEW u \in Nat, x <= y
  PROVE  x * u <= y * u
<1>1. PICK d \in Nat : y = x + d
  BY y - x \in Nat
<1>2. y * u = x * u + d * u /\ d * u \in Nat /\ x * u \in Nat
  BY <1>1
<1>3. QED
  BY <1>2

LEMMA QuotientIsUnique ==
  ASSUME NEW q \in Nat, NEW u \in Nat \ {0}, NEW r \in 0 .. u - 1
  PROVE  (q * u + r) \div u = q /\ (q * u + r) % u = r
<1> DEFINE a == q * u + r
           p == a \div u
           s == a % u
<1>1. a \in Nat
  OBVIOUS
<1>2. p \in Nat /\ s \in 0 .. u - 1 /\ p * u + s = q * u + r
  BY <1>1, Quotient
<1> HIDE DEF p, s
<1>3. ~(p < q)
  <2> SUFFICES ASSUME p + 1 <= q PROVE FALSE
    BY <1>2
  <2>1. (p + 1) * u <= q * u /\ (p + 1) * u = p * u + u /\ p * u \in Nat /\ q * u \in Nat
    BY <1>2, TimesMonotonic
  <2>2. QED
    BY <1>2, <2>1
<1>4. ~(q < p)
  <2> SUFFICES ASSUME q + 1 <= p PROVE FALSE
    BY <1>2
  <2>1. (q + 1) * u <= p * u /\ (q + 1) * u = q * u + u /\ p * u \in Nat /\ q * u \in Nat
    BY <1>2, TimesMonotonic
  <2>2. QED
    BY <1>2, <2>1
<1>5. p = q
  BY <1>2, <1>3, <1>4
<1>6. s = r
  <2>1. q * u \in Nat
    OBVIOUS
  <2>2. QED
    BY <1>2, <1>5, <2>1
<1>7. QED
  BY <1>5, <1>6 DEF p, s

LEMMA QuotientMonotonic ==
  ASSUME NEW a \in Nat, NEW b \in Nat, NEW u \in Nat \ {0}, a <= b
  PROVE  a \div u <= b \div u
<1> DEFINE p == a \div u
           q == b \div u
<1>1. /\ p \in Nat /\ p * u <= a
      /\ q \in Nat /\ b < (q + 1) * u
  <2>1. /\ p \in Nat /\ a % u \in 0 .. u - 1 /\ a = p * u + (a % u)
        /\ q \in Nat /\ b % u \in 0 .. u - 1 /\ b = q * u + (b % u)
    BY Quotient
  <2> HIDE DEF p, q
  <2>2. p * u \in Nat /\ q * u \in Nat /\ (q + 1) * u = q * u + u
    BY <2>1
  <2>3. QED
    BY <2>1, <2>2
<1> HIDE DEF p, q
<1>2. ~(q + 1 <= p)
  <2> SUFFICES ASSUME q + 1 <= p PROVE FALSE
    OBVIOUS
  <2>1. (q + 1) * u <= p * u /\ (q + 1) * u \in Nat /\ p * u \in Nat
    BY <1>1, TimesMonotonic
  <2>2. QED
    BY <1>1, <2>1
<1>3. QED
  BY <1>1, <1>2 DEF p, q

LEMMA RoundedToMonotonic ==
  ASSUME NEW a \in Nat, NEW b \in Nat, NEW u \in Nat \ {0}, a <= b
  PROVE  RoundedTo(a, u) <= RoundedTo(b, u)
<1> DEFINE p == a \div u
           q == b \div u
           r == a % u
           s == b % u
           pu == p + (IF 2 * r > u \/ (2 * r = u /\ p % 2 = 1) THEN 1 ELSE 0)
           qu == q + (IF 2 * s > u \/ (2 * s = u /\ q % 2 = 1) THEN 1 ELSE 0)
<1>1. /\ p \in Nat /\ r \in 0 .. u - 1 /\ a = p * u + r
      /\ q \in Nat /\ s \in 0 .. u - 1 /\ b = q * u + s
      /\ p <= q
  BY Quotient, QuotientMonotonic
<1>2. RoundedTo(a, u) = pu * u /\ RoundedTo(b, u) = qu * u
  <2>1. p + 0 = p /\ q + 0 = q
    BY <1>1
  <2> HIDE DEF p, q, r, s
  <2>2. QED
    BY <2>1 DEF RoundedTo, p, q, r, s
<1> HIDE DEF p, q, r, s
<1>3. pu \in Nat /\ qu \in Nat
  BY <1>1
<1>4. pu <= qu
  <2>1. CASE p < q
    BY <1>1, <2>1
  <2>2. CASE p = q
    <3>1. p * u \in Nat
      BY <1>1
    <3>2. r <= s
      BY <1>1, <2>2, <3>1
    <3>3. QED
      BY <1>1, <2>2, <3>2
  <2>3. QED
    BY <1>1, <2>1, <2>2
<1> HIDE DEF pu, qu
<1>5. QED
  BY <1>2, <1>3, <1>4, TimesMonotonic

LEMMA RoundedToKeepsMultiples ==
  ASSUME NEW k \in Nat, NEW u \in Nat \ {0}
  PROVE  k * u \in Nat /\ RoundedTo(k * u, u) = k * u
<1>1. 0 \in 0 .. u - 1 /\ k * u + 0 = k * u /\ k * u \in Nat
  OBVIOUS
<1>2. (k * u) \div u = k /\ (k * u) % u = 0
  BY <1>1, QuotientIsUnique
<1>3. QED
  BY <1>1, <1>2 DEF RoundedTo

\* The heart of it: numbers with different units are on either side of a power of two.
LEMMA MagnitudesKeepTheirOrder ==
  ASSUME NEW n \in Int, NEW m \in Int, NEW bits \in Nat \ {0},
         Magnitude(n) <= Magnitude(m)
  PROVE  RoundedTo(Magnitude(n), Ulp(n, bits)) <= RoundedTo(Magnitude(m), Ulp(m, bits))
<1> DEFINE a == Magnitude(n)
           b == Magnitude(m)
<1>1. a \in Nat /\ b \in Nat /\ a <= b
  BY MagnitudeType
<1>2. PICK d \in Nat : /\ Ulp(n, bits) = TwoTo[d]
                       /\ a < TwoTo[bits + d]
                       /\ d # 0 => TwoTo[bits + d - 1] <= a
  BY UlpIsPower DEF IsExponent
<1>3. PICK e \in Nat : /\ Ulp(m, bits) = TwoTo[e]
                       /\ b < TwoTo[bits + e]
                       /\ e # 0 => TwoTo[bits + e - 1] <= b
  BY UlpIsPower DEF IsExponent
<1> HIDE DEF a, b
<1>4. TwoTo[d] \in Nat \ {0} /\ TwoTo[e] \in Nat \ {0}
  BY TwoToType
<1>5. CASE d = e
  BY <1>1, <1>2, <1>3, <1>4, <1>5, RoundedToMonotonic DEF a, b
<1>6. CASE d < e
  <2> DEFINE low == TwoTo[bits + d]
             high == TwoTo[bits + e - 1]
  <2>1. /\ bits + d \in Nat /\ bits + e - 1 \in Nat /\ bits - 1 \in Nat
        /\ bits + d <= bits + e - 1 /\ bits + e - 1 = (bits - 1) + e
    BY <1>6
  <2>2. low \in Nat /\ high \in Nat /\ low <= high /\ a <= low /\ high <= b
    BY <1>1, <1>2, <1>3, <1>6, <2>1, TwoToType, TwoToMonotonic
  <2>3. low = TwoTo[bits] * TwoTo[d] /\ high = TwoTo[bits - 1] * TwoTo[e]
    BY <2>1, TwoToSum
  <2>4. TwoTo[bits] \in Nat /\ TwoTo[bits - 1] \in Nat
    BY <2>1, TwoToType
  <2>5. RoundedTo(low, TwoTo[d]) = low /\ RoundedTo(high, TwoTo[e]) = high
    BY <1>4, <2>3, <2>4, RoundedToKeepsMultiples
  <2> HIDE DEF low, high
  <2>6. RoundedTo(a, TwoTo[d]) <= low /\ high <= RoundedTo(b, TwoTo[e])
    BY <1>1, <1>4, <2>2, <2>5, RoundedToMonotonic
  <2>7. RoundedTo(a, TwoTo[d]) \in Nat /\ RoundedTo(b, TwoTo[e]) \in Nat
    BY <1>1, <1>4, RoundedToIsNear
  <2>8. QED
    BY <1>2, <1>3, <2>2, <2>6, <2>7 DEF a, b
<1>7. CASE e < d
  <2>1. /\ bits + e \in Nat /\ bits + d - 1 \in Nat /\ bits + e <= bits + d - 1
    BY <1>7
  <2>2. TwoTo[bits + e] <= TwoTo[bits + d - 1]
    BY <2>1, TwoToMonotonic
  <2>3. TwoTo[bits + e] \in Nat /\ TwoTo[bits + d - 1] \in Nat
    BY <2>1, TwoToType
  <2>4. QED
    BY <1>1, <1>2, <1>3, <1>7, <2>2, <2>3
<1>8. QED
  BY <1>5, <1>6, <1>7

\* A number is off by at most half a unit; rounding keeps the sign.
LEMMA RoundedIsNear ==
  ASSUME NEW n \in Int, NEW bits \in Nat \ {0}
  PROVE  /\ Rounded(n, bits) \in Int
         /\ n >= 0 => Rounded(n, bits) >= 0
         /\ n < 0 => Rounded(n, bits) <= 0
         /\ 2 * Magnitude(Rounded(n, bits) - n) <= Ulp(n, bits)
<1> DEFINE a == Magnitude(n)
           u == Ulp(n, bits)
           r == RoundedTo(a, u)
<1>1. a \in Nat /\ u \in Nat \ {0} /\ a = IF n < 0 THEN -n ELSE n
  BY MagnitudeType, UlpType DEF Magnitude
<1>2. r \in Nat /\ 2 * (r - a) <= u /\ 2 * (a - r) <= u
  BY <1>1, RoundedToIsNear
<1>3. Rounded(n, bits) = IF n < 0 THEN -r ELSE r
  BY RoundedBySign
<1> HIDE DEF a, u, r
<1>4. QED
  BY <1>1, <1>2, <1>3 DEF Magnitude, u

LEMMA RoundedMonotonic ==
  ASSUME NEW n \in Int, NEW m \in Int, NEW bits \in Nat \ {0}, n <= m
  PROVE  Rounded(n, bits) <= Rounded(m, bits)
<1> DEFINE r == RoundedTo(Magnitude(n), Ulp(n, bits))
           s == RoundedTo(Magnitude(m), Ulp(m, bits))
<1>1. /\ Rounded(n, bits) = IF n < 0 THEN -r ELSE r
      /\ Rounded(m, bits) = IF m < 0 THEN -s ELSE s
  BY RoundedBySign
<1>2. r \in Nat /\ s \in Nat
  BY MagnitudeType, UlpType, RoundedToIsNear
<1>3. CASE n >= 0
  <2>1. Magnitude(n) <= Magnitude(m)
    BY <1>3 DEF Magnitude
  <2>2. r <= s
    BY <2>1, MagnitudesKeepTheirOrder
  <2> HIDE DEF r, s
  <2>3. QED
    BY <1>1, <1>2, <1>3, <2>2
<1>4. CASE n < 0 /\ m >= 0
  <2> HIDE DEF r, s
  <2> QED
    BY <1>1, <1>2, <1>4
<1>5. CASE m < 0
  <2>1. Magnitude(m) <= Magnitude(n)
    BY <1>5 DEF Magnitude
  <2>2. s <= r
    BY <2>1, MagnitudesKeepTheirOrder
  <2> HIDE DEF r, s
  <2>3. QED
    BY <1>1, <1>2, <1>5, <2>2
<1>6. QED
  BY <1>3, <1>4, <1>5

-----------------------------------------------------------------------------
(* The range of the values *)

\* T is among the first m values of f; it has a least and a greatest element.
Covered(T, f, m) == T \subseteq Int /\ T # {} /\ \A x \in T : \E k \in 1 .. m : x = f[k]
HasExtremes(T) == (\E x \in T : \A y \in T : x <= y) /\ (\E x \in T : \A y \in T : y <= x)

LEMMA ExtremesExist ==
  ASSUME NEW f, NEW n \in Nat, NEW S, Covered(S, f, n)
  PROVE  HasExtremes(S)
<1> DEFINE U == {m \in Nat : \A T : Covered(T, f, m) => HasExtremes(T)}
<1>1. 0 \in U
  <2>1. \A T : ~Covered(T, f, 0)
    BY DEF Covered
  <2>2. QED
    BY <2>1
<1>2. ASSUME NEW m \in Nat, m \in U PROVE m + 1 \in U
  <2> SUFFICES ASSUME NEW T, Covered(T, f, m + 1) PROVE HasExtremes(T)
    OBVIOUS
  <2> USE DEF Covered, HasExtremes
  <2> DEFINE last == f[m + 1]
             Rest == T \ {last}
  <2>1. ASSUME Rest # {} PROVE Covered(Rest, f, m)
    <3>1. ASSUME NEW x \in Rest PROVE \E k \in 1 .. m : x = f[k]
      <4>1. PICK k \in 1 .. m + 1 : x = f[k]
        OBVIOUS
      <4>2. k # m + 1
        BY <4>1
      <4>3. k \in 1 .. m
        BY <4>2
      <4>4. QED
        BY <4>1, <4>3
    <3>2. Rest \subseteq Int
      OBVIOUS
    <3> HIDE DEF Rest
    <3>3. QED
      BY <2>1, <3>1, <3>2
  <2>2. CASE Rest = {}
    <3>1. T = {last} /\ last \in Int
      BY <2>2
    <3>2. QED
      BY <3>1
  <2>3. CASE Rest # {}
    <3>1. HasExtremes(Rest)
      <4> HIDE DEF Covered, HasExtremes, Rest
      <4> QED
        BY <1>2, <2>1, <2>3
    <3> HIDE DEF last
    <3>2. PICK x \in Rest : \A y \in Rest : x <= y
      BY <3>1
    <3>3. PICK z \in Rest : \A y \in Rest : y <= z
      BY <3>1
    <3>4. CASE last \in T
      <4>1. \A y \in T : (IF last <= x THEN last ELSE x) <= y
        BY <3>2, <3>4
      <4>2. \A y \in T : y <= (IF last <= z THEN z ELSE last)
        BY <3>3, <3>4
      <4>3. QED
        BY <3>4, <4>1, <4>2
    <3>5. CASE last \notin T
      BY <3>2, <3>3, <3>5
    <3>6. QED
      BY <3>4, <3>5
  <2>4. QED
    BY <2>2, <2>3
<1> HIDE DEF U
<1>3. n \in U
  BY <1>1, <1>2, Induction
<1>4. QED
  BY <1>3 DEF U

LEMMA FiniteValues ==
  ASSUME NEW data \in Seq(Doubles)
  PROVE  /\ Finite(data) \subseteq Int
         /\ \A x \in Finite(data) : \E k \in 1 .. Len(data) : x = data[k][2]
         /\ \A k \in 1 .. Len(data) : data[k][1] = "fin" => data[k][2] \in Finite(data)
<1>1. \A k \in 1 .. Len(data) : data[k] \in Doubles
  OBVIOUS
<1>2. \A x \in Doubles : x[1] = "fin" => x[2] \in Int
  BY DEF Doubles
<1>3. QED
  BY <1>1, <1>2 DEF Finite, Elements

LEMMA LeastAndGreatest ==
  ASSUME NEW data \in Seq(Doubles), Finite(data) # {}
  PROVE  /\ Least(Finite(data)) \in Finite(data)
         /\ Greatest(Finite(data)) \in Finite(data)
         /\ \A n \in Finite(data) : Least(Finite(data)) <= n /\ n <= Greatest(Finite(data))
<1> DEFINE S == Finite(data)
           f == [k \in 1 .. Len(data) |-> data[k][2]]
<1>1. Len(data) \in Nat /\ Covered(S, f, Len(data))
  BY FiniteValues DEF Covered
<1> HIDE DEF S, f
<1>2. HasExtremes(S)
  BY <1>1, ExtremesExist
<1>3. /\ Least(S) \in S /\ \A y \in S : Least(S) <= y
      /\ Greatest(S) \in S /\ \A y \in S : y <= Greatest(S)
  BY <1>2 DEF HasExtremes, Least, Greatest
<1>4. QED
  BY <1>3 DEF S

\* What CanPack asks of the values before they are quantized.
Quantizable(log, data) ==
    data \in Seq(Doubles) /\ OnGrid(data) /\ (log => \A n \in Finite(data) : n > 0)

LEMMA ScaledValues ==
  ASSUME NEW log \in BOOLEAN, NEW data, Quantizable(log, data)
  PROVE  \A n \in Finite(data) :
            /\ On(log, n) \in Int /\ On(log, n) % Top = 0
            /\ \A m \in Finite(data) : n <= m => On(log, n) <= On(log, m)
<1>1. Finite(data) \subseteq Int
  BY FiniteValues DEF Quantizable
<1>2. CASE log
  <2>1. \A n \in Finite(data) : n \in DOMAIN Log
    BY <1>2 DEF Quantizable, OnGrid
  <2>2. QED
    BY <1>2, <2>1, LogAssumption DEF On
<1>3. CASE ~log
  BY <1>1, <1>3 DEF On, Quantizable, OnGrid
<1>4. QED
  BY <1>2, <1>3

LEMMA MultiplesOfTop ==
  ASSUME NEW x \in Int, NEW y \in Int, x % Top = 0, y % Top = 0, y <= x
  PROVE  \E q \in Nat : x - y = q * Top /\ (x - y) \div Top = q
<1>1. Top \in Nat \ {0}
  BY LevelsAssumption
<1>2. PICK p \in Int : x = p * Top
  BY <1>1, x = (x \div Top) * Top + (x % Top), x \div Top \in Int
<1>3. PICK r \in Int : y = r * Top
  BY <1>1, y = (y \div Top) * Top + (y % Top), y \div Top \in Int
<1> DEFINE q == p - r
<1>4. x - y = q * Top
  BY <1>1, <1>2, <1>3
<1>5. q \in Nat
  <2>1. q \in Int
    OBVIOUS
  <2> HIDE DEF q
  <2>2. q < 0 => q * Top < 0
    BY <1>1, <2>1
  <2>3. QED
    BY <1>4, <2>1, <2>2
<1> HIDE DEF q
<1>6. 0 \in 0 .. Top - 1 /\ q * Top + 0 = q * Top
  BY <1>1, <1>5
<1>7. (x - y) \div Top = q
  BY <1>1, <1>4, <1>5, <1>6, QuotientIsUnique
<1>8. QED
  BY <1>4, <1>5, <1>7

\* All values lie within Top steps from the offset.
LEMMA RangeOfValues ==
  ASSUME NEW log \in BOOLEAN, NEW data, Quantizable(log, data)
  PROVE  /\ Offset(log, data) \in Int
         /\ Scale(log, data) \in Nat \ {0}
         /\ \A n \in Finite(data) :
               /\ Offset(log, data) <= On(log, n)
               /\ On(log, n) - Offset(log, data) <= Top * Scale(log, data)
<1>1. CASE Finite(data) = {}
  BY <1>1 DEF Offset, Scale
<1>2. CASE Finite(data) # {}
  <2> DEFINE o == On(log, Least(Finite(data)))
             g == On(log, Greatest(Finite(data)))
  <2>1. /\ o \in Int /\ o % Top = 0 /\ g \in Int /\ g % Top = 0 /\ o <= g
        /\ \A n \in Finite(data) : On(log, n) \in Int /\ o <= On(log, n) /\ On(log, n) <= g
    BY <1>2, ScaledValues, LeastAndGreatest DEF Quantizable
  <2>2. /\ Offset(log, data) = o
        /\ Scale(log, data) = IF g - o = 0 THEN 1 ELSE (g - o) \div Top
    BY <1>2 DEF Offset, Scale
  <2> HIDE DEF o, g
  <2>3. PICK q \in Nat : g - o = q * Top /\ (g - o) \div Top = q
    BY <2>1, MultiplesOfTop
  <2>4. Top \in Nat \ {0}
    BY LevelsAssumption
  <2>5. CASE g - o = 0
    <3>1. Scale(log, data) = 1 /\ Top * 1 = Top
      BY <2>2, <2>4, <2>5
    <3>2. QED
      BY <2>1, <2>2, <2>4, <2>5, <3>1
  <2>6. CASE g - o # 0
    <3>1. Scale(log, data) = q /\ Top * q = g - o
      BY <2>2, <2>3, <2>4, <2>6
    <3>2. q # 0
      BY <2>3, <2>4, <2>6
    <3>3. \A n \in Finite(data) : On(log, n) - o <= g - o
      BY <2>1
    <3>4. QED
      BY <2>1, <2>2, <3>1, <3>2, <3>3
  <2>7. QED
    BY <2>5, <2>6
<1>3. QED
  BY <1>1, <1>2

-----------------------------------------------------------------------------
(* Quantization *)

LEMMA LevelsOfTheRange ==
  ASSUME NEW v \in Int, NEW offset \in Int, NEW scale \in Nat \ {0},
         offset <= v, v - offset <= Top * scale
  PROVE  /\ Level(v, offset, scale) \in 0 .. Top
         /\ Level(v, offset, scale) * scale <= v - offset
         /\ v - offset <= Level(v, offset, scale) * scale + Mask * scale
<1> DEFINE d == v - offset
           l == d \div scale
           m == l % Mask
           p == l \div Mask
<1>1. /\ Top \in Nat \ {0} /\ Mask \in Nat \ {0} /\ d \in Nat
  BY LevelsAssumption
<1>2. l \in Nat /\ d % scale \in 0 .. scale - 1 /\ d = l * scale + (d % scale)
  <2> HIDE DEF d
  <2> QED
    BY <1>1, Quotient
<1>3. Level(v, offset, scale) = l - m
  BY DEF Level
<1> HIDE DEF l
<1>4. m \in 0 .. Mask - 1 /\ p \in Nat /\ l = p * Mask + m
  BY <1>1, <1>2, Quotient
<1> HIDE DEF d, m, p
<1>5. p * Mask \in Nat
  BY <1>1, <1>4
<1>6. l - m \in Nat /\ l - m <= l /\ l <= (l - m) + (Mask - 1)
  BY <1>1, <1>2, <1>4, <1>5
<1>7. l <= Top
  <2> SUFFICES ASSUME Top + 1 <= l PROVE FALSE
    BY <1>1, <1>2
  <2>1. (Top + 1) * scale <= l * scale
    BY <1>1, <1>2, TimesMonotonic
  <2>2. (Top + 1) * scale = Top * scale + scale /\ Top * scale \in Nat /\ l * scale \in Nat
    BY <1>1, <1>2
  <2>3. QED
    BY <1>1, <1>2, <2>1, <2>2 DEF d
<1>8. (l - m) * scale <= l * scale
  BY <1>2, <1>6, TimesMonotonic
<1>9. l * scale <= ((l - m) + (Mask - 1)) * scale
  BY <1>1, <1>2, <1>6, TimesMonotonic
<1>10. ((l - m) + (Mask - 1)) * scale = (l - m) * scale + Mask * scale - scale
  <2>1. \A a, b, c \in Int : (a + (b - 1)) * c = a * c + b * c - c
    OBVIOUS
  <2>2. QED
    BY <1>1, <1>6, <2>1
<1>11. l * scale \in Nat /\ (l - m) * scale \in Nat /\ Mask * scale \in Nat
  BY <1>1, <1>2, <1>6
<1>12. QED
  BY <1>1, <1>2, <1>3, <1>6, <1>7, <1>8, <1>9, <1>10, <1>11 DEF d

LEMMA LevelMonotonic ==
  ASSUME NEW v \in Int, NEW w \in Int, NEW offset \in Int, NEW scale \in Nat \ {0},
         offset <= v, v <= w
  PROVE  Level(v, offset, scale) <= Level(w, offset, scale)
<1> DEFINE l == (v - offset) \div scale
           m == (w - offset) \div scale
           p == l \div Mask
           q == m \div Mask
<1>1. Mask \in Nat \ {0} /\ v - offset \in Nat /\ w - offset \in Nat /\ v - offset <= w - offset
  BY LevelsAssumption
<1>2. l \in Nat /\ m \in Nat /\ l <= m
  BY <1>1, Quotient, QuotientMonotonic
<1>3. Level(v, offset, scale) = l - (l % Mask) /\ Level(w, offset, scale) = m - (m % Mask)
  BY DEF Level
<1> HIDE DEF l, m
<1>4. /\ p \in Nat /\ (l % Mask) \in 0 .. Mask - 1 /\ l = p * Mask + (l % Mask)
      /\ q \in Nat /\ (m % Mask) \in 0 .. Mask - 1 /\ m = q * Mask + (m % Mask)
      /\ p <= q
  BY <1>1, <1>2, Quotient, QuotientMonotonic
<1> HIDE DEF p, q
<1>5. p * Mask <= q * Mask /\ p * Mask \in Nat /\ q * Mask \in Nat
  BY <1>1, <1>4, TimesMonotonic
<1>6. QED
  BY <1>1, <1>2, <1>3, <1>4, <1>5

LEMMA TimesBounded ==
  ASSUME NEW t \in Nat, NEW c \in 0 .. t, NEW d \in Int
  PROVE  c * d \in Int /\ Magnitude(c * d) <= t * Magnitude(d)
<1>1. CASE d >= 0
  <2>1. c * d <= t * d /\ c * d \in Nat
    BY <1>1, TimesMonotonic
  <2>2. QED
    BY <1>1, <2>1 DEF Magnitude
<1>2. CASE d < 0
  <2> DEFINE e == -d
  <2>1. e \in Nat /\ Magnitude(d) = e
    BY <1>2 DEF Magnitude
  <2>2. c * d = -(c * e)
    OBVIOUS
  <2> HIDE DEF e
  <2>3. c * e <= t * e /\ c * e \in Nat
    BY <2>1, TimesMonotonic
  <2>4. QED
    BY <2>1, <2>2, <2>3 DEF Magnitude
<1>3. QED
  BY <1>1, <1>2

\* The code of a finite value, and what is made of it.
LEMMA CodesAreClose ==
  ASSUME NEW v \in Int, NEW offset \in Int, NEW scale \in Nat \ {0}, NEW c \in 0 .. Top,
         NEW ro \in Int, NEW rs \in Int,
         c * scale <= v - offset, v - offset <= c * scale + Mask * scale
  PROVE  /\ c * rs + ro \in Int
         /\ Magnitude((c * rs + ro) - v)
              <= Mask * scale + Magnitude(ro - offset) + Top * Magnitude(rs - scale)
<1>1. Top \in Nat /\ Mask \in Nat /\ rs - scale \in Int /\ ro - offset \in Int
  BY LevelsAssumption
<1> DEFINE x == c * (rs - scale)
           y == ro - offset
           z == (v - offset) - c * scale
           bound == Top * Magnitude(rs - scale)
<1>2. x \in Int /\ Magnitude(x) <= bound
  BY <1>1, TimesBounded
<1>3. c * scale \in Int /\ c * rs \in Int /\ c * rs = c * scale + x
  OBVIOUS
<1>4. bound \in Nat /\ Mask * scale \in Nat
  BY <1>1, MagnitudeType
<1> HIDE DEF x, bound
<1>5. z \in 0 .. Mask * scale
  BY <1>3, <1>4
<1>6. (c * rs + ro) - v = x + y - z
  BY <1>2, <1>3
<1>7. QED
  BY <1>1, <1>2, <1>3, <1>4, <1>5, <1>6 DEF Magnitude, bound

-----------------------------------------------------------------------------
(* The compressors *)

\* What there is of a value that is not finite comes back.
LEMMA SpecialsComeBack ==
  ASSUME NEW x \in Doubles, x[1] # "fin"
  PROVE  /\ Special(x) \in Nat /\ Special(x) > Top
         /\ \/ Special(x) - Top = 1 /\ x = <<"zero", 0>>
            \/ Special(x) - Top = 2 /\ x = <<"zero", 1>>
            \/ Special(x) - Top = 3 /\ x = <<"inf", 0>>
            \/ Special(x) - Top = 4 /\ x = <<"inf", 1>>
            \/ Special(x) - Top = 5 /\ x = <<"nan", 0>>
<1>1. Top \in Nat
  BY LevelsAssumption
<1>2. CASE x = <<"nan", 0>>
  BY <1>1, <1>2 DEF Special
<1>3. CASE \E k \in {0, 1} : x = <<"zero", k>>
  BY <1>1, <1>3 DEF Special
<1>4. CASE \E k \in {0, 1} : x = <<"inf", k>>
  BY <1>1, <1>4 DEF Special
<1>5. QED
  BY <1>2, <1>3, <1>4 DEF Doubles

LEMMA SpecialCodesComeBack ==
  ASSUME NEW log, NEW packed, NEW k \in 1 .. Len(packed.codes), NEW x \in Doubles,
         x[1] # "fin", packed.codes[k] = Special(x)
  PROVE  linlogQuantizerDecompress(log, packed)[k] = x
<1> DEFINE code == packed.codes[k]
<1>1. /\ code \in Nat /\ code > Top /\ Top \in Nat
      /\ \/ code - Top = 1 /\ x = <<"zero", 0>>
         \/ code - Top = 2 /\ x = <<"zero", 1>>
         \/ code - Top = 3 /\ x = <<"inf", 0>>
         \/ code - Top = 4 /\ x = <<"inf", 1>>
         \/ code - Top = 5 /\ x = <<"nan", 0>>
  BY SpecialsComeBack, LevelsAssumption
<1>2. linlogQuantizerDecompress(log, packed)[k] =
        IF code > Top
        THEN CASE code - Top = 1 -> <<"zero", 0>>
               [] code - Top = 2 -> <<"zero", 1>>
               [] code - Top = 3 -> <<"inf", 0>>
               [] code - Top = 4 -> <<"inf", 1>>
               [] code - Top = 5 -> <<"nan", 0>>
        ELSE <<IF log THEN "exp" ELSE "fin", code * packed.scale + packed.offset>>
  BY DEF linlogQuantizerDecompress
<1> HIDE DEF code
<1>3. QED
  BY <1>1, <1>2

LEMMA LevelCodesComeBack ==
  ASSUME NEW log, NEW packed, NEW k \in 1 .. Len(packed.codes), packed.codes[k] \in 0 .. Top
  PROVE  linlogQuantizerDecompress(log, packed)[k][2]
           = packed.codes[k] * packed.scale + packed.offset
<1>1. ~(packed.codes[k] > Top)
  BY LevelsAssumption
<1>2. QED
  BY <1>1 DEF linlogQuantizerDecompress

\* Quantization: a value is off by less than the tolerance, and none overtakes another.
LEMMA QuantizedComesBack ==
  ASSUME NEW log \in BOOLEAN, NEW data, Quantizable(log, data),
         NEW back, back = linlogQuantizerDecompress(log, linlogQuantizerCompress(log, data))
  PROVE  /\ Len(back) = Len(data)
         /\ \A k \in 1 .. Len(data) : data[k][1] # "fin" => back[k] = data[k]
         /\ \A k \in 1 .. Len(data) : data[k][1] = "fin" =>
              Magnitude(back[k][2] - On(log, data[k][2])) <= Tolerance(log, data)
         /\ \A j, k \in 1 .. Len(data) :
              data[j][1] = "fin" /\ data[k][1] = "fin" /\ data[j][2] <= data[k][2]
                => back[j][2] <= back[k][2]
<1> DEFINE n == Len(data)
           offset == Offset(log, data)
           scale == Scale(log, data)
           ro == Rounded(offset, FloatBits)
           rs == Rounded(scale, FloatBits)
           packed == linlogQuantizerCompress(log, data)
           v(k) == On(log, data[k][2])
           code(k) == Level(v(k), offset, scale)
<1>1. n \in Nat /\ \A k \in 1 .. n : data[k] \in Doubles
  BY DEF Quantizable
<1>2. /\ offset \in Int /\ scale \in Nat \ {0}
      /\ \A k \in 1 .. n : data[k][1] = "fin" =>
           v(k) \in Int /\ offset <= v(k) /\ v(k) - offset <= Top * scale
  BY RangeOfValues, ScaledValues, FiniteValues DEF Quantizable
<1>3. ro \in Int /\ rs \in Int /\ rs >= 0
  BY <1>2, RoundedIsNear, FloatAssumption
<1>4. /\ packed.offset = ro /\ packed.scale = rs
      /\ packed.codes = [k \in 1 .. n |-> IF data[k][1] = "fin" THEN code(k) ELSE Special(data[k])]
  BY DEF linlogQuantizerCompress
<1>5. back = linlogQuantizerDecompress(log, packed)
  OBVIOUS
<1>6. Tolerance(log, data) = Mask * scale + Magnitude(ro - offset) + Top * Magnitude(rs - scale)
  BY DEF Tolerance
<1>7. ASSUME NEW j \in 1 .. n, NEW k \in 1 .. n, data[j][1] = "fin", data[k][1] = "fin",
             data[j][2] <= data[k][2]
      PROVE  v(j) <= v(k)
  BY <1>7, ScaledValues, FiniteValues DEF Quantizable
<1> HIDE DEF n, offset, scale, ro, rs, packed, v
<1>8. /\ DOMAIN packed.codes = 1 .. n
      /\ \A k \in 1 .. n :
           packed.codes[k] = IF data[k][1] = "fin" THEN code(k) ELSE Special(data[k])
  <2> HIDE DEF code
  <2> QED
    BY <1>4
<1>9. Len(packed.codes) = n
  BY <1>1, <1>4
<1>10. Len(back) = n
  BY <1>1, <1>5, <1>9 DEF linlogQuantizerDecompress
<1>11. ASSUME NEW k \in 1 .. n, data[k][1] # "fin" PROVE back[k] = data[k]
  BY <1>1, <1>5, <1>8, <1>9, <1>11, SpecialCodesComeBack
<1>12. ASSUME NEW k \in 1 .. n, data[k][1] = "fin"
       PROVE  /\ code(k) \in 0 .. Top
              /\ back[k][2] = code(k) * rs + ro
              /\ back[k][2] \in Int
              /\ Magnitude(back[k][2] - v(k)) <= Tolerance(log, data)
  <2>1. /\ code(k) \in 0 .. Top /\ code(k) * scale <= v(k) - offset
        /\ v(k) - offset <= code(k) * scale + Mask * scale
    BY <1>2, <1>12, LevelsOfTheRange
  <2>2. packed.codes[k] = code(k)
    BY <1>8, <1>12
  <2> DEFINE c == code(k)
  <2>3. /\ c \in 0 .. Top /\ c * scale <= v(k) - offset
        /\ v(k) - offset <= c * scale + Mask * scale
        /\ packed.codes[k] = c
    BY <2>1, <2>2
  <2>4. v(k) \in Int
    BY <1>2, <1>12
  <2> HIDE DEF c
  <2>5. linlogQuantizerDecompress(log, packed)[k][2] = packed.codes[k] * packed.scale + packed.offset
    BY <1>9, <2>3, LevelCodesComeBack
  <2>6. back[k][2] = c * rs + ro
    BY <1>4, <1>5, <2>3, <2>5
  <2>7. /\ c * rs + ro \in Int
        /\ Magnitude((c * rs + ro) - v(k))
             <= Mask * scale + Magnitude(ro - offset) + Top * Magnitude(rs - scale)
    BY <1>2, <1>3, <2>3, <2>4, CodesAreClose
  <2>8. QED
    BY <1>6, <2>1, <2>6, <2>7 DEF c
<1>13. ASSUME NEW j \in 1 .. n, NEW k \in 1 .. n, data[j][1] = "fin", data[k][1] = "fin",
              data[j][2] <= data[k][2]
       PROVE  back[j][2] <= back[k][2]
  <2>1. code(j) <= code(k)
    BY <1>2, <1>7, <1>13, LevelMonotonic
  <2>2. code(j) \in Nat /\ code(k) \in Nat
    <3>1. code(j) \in 0 .. Top /\ code(k) \in 0 .. Top
      BY <1>12, <1>13
    <3>2. QED
      BY <3>1, LevelsAssumption
  <2>3. back[j][2] = code(j) * rs + ro /\ back[k][2] = code(k) * rs + ro
    BY <1>12, <1>13
  <2> HIDE DEF code
  <2>4. code(j) * rs <= code(k) * rs /\ code(j) * rs \in Int /\ code(k) * rs \in Int
    BY <1>3, <2>1, <2>2, TimesMonotonic
  <2>5. QED
    BY <1>3, <2>3, <2>4
<1>14. QED
  BY <1>10, <1>11, <1>12, <1>13 DEF n, v

\* FLOAT: a value is off by at most half a unit in the last place.
LEMMA FloatsComeBack ==
  ASSUME NEW data \in Seq(Doubles), NEW back, back = floatCompress(data).codes
  PROVE  /\ Len(back) = Len(data)
         /\ \A k \in 1 .. Len(data) : data[k][1] # "fin" => back[k] = data[k]
         /\ \A k \in 1 .. Len(data) : data[k][1] = "fin" =>
              2 * Magnitude(back[k][2] - data[k][2]) <= Ulp(data[k][2], FloatBits)
         /\ \A j, k \in 1 .. Len(data) :
              data[j][1] = "fin" /\ data[k][1] = "fin" /\ data[j][2] <= data[k][2]
                => back[j][2] <= back[k][2]
<1>1. Len(data) \in Nat /\ FloatBits \in Nat \ {0}
  BY FloatAssumption
<1>2. back = [k \in 1 .. Len(data) |->
                IF data[k][1] = "fin" THEN <<"fin", Rounded(data[k][2], FloatBits)>> ELSE data[k]]
  BY DEF floatCompress
<1>3. Len(back) = Len(data)
  BY <1>1, <1>2
<1>4. \A k \in 1 .. Len(data) :
        back[k] = IF data[k][1] = "fin" THEN <<"fin", Rounded(data[k][2], FloatBits)>> ELSE data[k]
  BY <1>2
<1>5. ASSUME NEW k \in 1 .. Len(data), data[k][1] = "fin"
      PROVE  data[k][2] \in Int /\ back[k][2] = Rounded(data[k][2], FloatBits)
  <2>1. data[k][2] \in Int
    BY <1>5, FiniteValues
  <2>2. back[k] = <<"fin", Rounded(data[k][2], FloatBits)>>
    BY <1>4, <1>5
  <2>3. QED
    BY <2>1, <2>2
<1>6. ASSUME NEW k \in 1 .. Len(data), data[k][1] = "fin"
      PROVE  2 * Magnitude(back[k][2] - data[k][2]) <= Ulp(data[k][2], FloatBits)
  BY <1>1, <1>5, <1>6, RoundedIsNear
<1>7. ASSUME NEW j \in 1 .. Len(data), NEW k \in 1 .. Len(data),
             data[j][1] = "fin", data[k][1] = "fin", data[j][2] <= data[k][2]
      PROVE  back[j][2] <= back[k][2]
  BY <1>1, <1>5, <1>7, RoundedMonotonic
<1>8. QED
  BY <1>3, <1>4, <1>6, <1>7

LEMMA CopiesComeBack ==
  ASSUME NEW compressor, compressor \notin Lossy, NEW data
  PROVE  Unpacked(compressor, Packed(compressor, data)) = data
  BY DEF Lossy, Packed, Unpacked

\* What a compressor is asked to pack comes back: close to what it was, in its order, and
\* with its zeros, infinities and NaN (FLOAT, QLIN16, QLOG16), or as it was (any other).
\* Quantizing clears bits of a level and stores offset and step as floats after the levels
\* were counted; none of that adds up to more than the tolerance.
THEOREM CompressorsKeepTheirPromise ==
  ASSUME NEW compressor, NEW data \in Seq(Doubles), OnGrid(data),
         CanPack(compressor, "double", data)
  PROVE  LET back == Unpacked(compressor, Packed(compressor, data))
         IN  IF compressor \in Lossy THEN CloseTo(compressor, data, back) ELSE back = data
<1> DEFINE back == Unpacked(compressor, Packed(compressor, data))
           log == compressor = "qlog16"
<1>1. CASE compressor \notin Lossy
  BY <1>1, CopiesComeBack
<1>2. CASE compressor = "float"
  <2>1. back = floatCompress(data).codes
    BY <1>2 DEF Packed, Unpacked
  <2> HIDE DEF back
  <2>2. CloseTo(compressor, data, back)
    BY <1>2, <2>1, FloatsComeBack DEF CloseTo
  <2>3. QED
    BY <1>2, <2>2 DEF Lossy, back
<1>3. CASE compressor \in {"qlin16", "qlog16"}
  <2>1. back = linlogQuantizerDecompress(log, linlogQuantizerCompress(log, data))
    BY <1>3 DEF Packed, Unpacked
  <2>2. log \in BOOLEAN /\ Quantizable(log, data)
    BY DEF CanPack, Quantizable, Lossy
  <2> HIDE DEF back
  <2>3. CloseTo(compressor, data, back)
    <3>1. compressor # "float"
      BY <1>3
    <3> HIDE DEF log
    <3>2. /\ Len(back) = Len(data)
          /\ \A k \in 1 .. Len(data) : data[k][1] # "fin" => back[k] = data[k]
          /\ \A k \in 1 .. Len(data) : data[k][1] = "fin" =>
               Magnitude(back[k][2] - On(log, data[k][2])) <= Tolerance(log, data)
          /\ \A j, k \in 1 .. Len(data) :
               data[j][1] = "fin" /\ data[k][1] = "fin" /\ data[j][2] <= data[k][2]
                 => back[j][2] <= back[k][2]
      BY <2>1, <2>2, QuantizedComesBack
    <3>3. QED
      BY <3>1, <3>2 DEF CloseTo, log
  <2>4. QED
    BY <1>3, <2>3 DEF Lossy, back
<1>4. QED
  BY <1>1, <1>2, <1>3 DEF Lossy

-----------------------------------------------------------------------------
(* Integers of a width *)

LEMMA HalfTheRange ==
  ASSUME NEW bits \in Nat \ {0}
  PROVE  TwoTo[bits - 1] \in Nat \ {0} /\ TwoTo[bits] = 2 * TwoTo[bits - 1]
<1>1. bits - 1 \in Nat /\ (bits - 1) + 1 = bits
  OBVIOUS
<1>2. QED
  BY <1>1, TwoToStep, TwoToType

\* A cast keeps what fits.
LEMMA WrappedKeeps ==
  ASSUME NEW bits \in Nat \ {0}, NEW n \in Signed(bits)
  PROVE  Wrapped(n, bits) = n
<1> DEFINE h == TwoTo[bits - 1]
           m == TwoTo[bits]
<1>1. h \in Nat \ {0} /\ m = 2 * h /\ n \in -h .. h - 1
  BY HalfTheRange DEF Signed
<1>2. Wrapped(n, bits) = ((n + h) % m) - h
  BY DEF Wrapped
<1> HIDE DEF h, m
<1>3. m \in Nat \ {0} /\ n + h \in 0 .. m - 1 /\ 0 * m + (n + h) = n + h
  BY <1>1
<1>4. (n + h) % m = n + h
  BY <1>3, QuotientIsUnique
<1>5. QED
  BY <1>1, <1>2, <1>4

LEMMA WrappedType ==
  ASSUME NEW bits \in Nat \ {0}, NEW n \in Int
  PROVE  Wrapped(n, bits) \in Int
<1>1. TwoTo[bits - 1] \in Nat /\ TwoTo[bits] \in Nat \ {0}
  BY HalfTheRange, TwoToType
<1>2. \A a \in Int, m \in Nat \ {0} : a % m \in Int
  OBVIOUS
<1>3. QED
  BY <1>1, <1>2 DEF Wrapped

-----------------------------------------------------------------------------
(* BLOBs *)

\* The compressor that is in force.
Chosen == IF g_compression[2] # 0 THEN g_compression[1] ELSE "none"

LEMMA ArrayClasses ==
  ASSUME NEW item \in Items, Complexity(item) \in {"array", "simple"}
  PROVE  /\ item.class \in Classes
         /\ item.class \notin {"none", "unknown", "struct", "cell", "complex", "opaque"}
         /\ item.data # <<>>
<1>1. item.data # <<>>
  BY DEF Complexity
<1>2. item.class \notin {"struct", "cell", "complex", "opaque"}
  BY <1>1 DEF Complexity
<1>3. QED
  BY <1>1, <1>2, ItemsAssumption, SizesAssumption DEF IsItem

\* A BLOB of an array: plain, or compressed by the compressor in force.
LEMMA PackedArrays ==
  ASSUME NEW item \in Items, Complexity(item) = "array", NEW blob \in blob_pack(item)
  PROVE  /\ blob.clsid = item.class /\ blob.shape = item.shape
         /\ \/ /\ blob.header = "V1"
               /\ Unpacked(blob.compressor, blob.content) = item.data
            \/ /\ blob.header = "V2" /\ blob.compressor = Chosen
               /\ blob.compressor = g_compression[1]
               /\ CanPack(blob.compressor, item.class, item.data)
               /\ blob.content = Packed(blob.compressor, item.data)
<1>1. Serialized(item) = item
  BY DEF Serialized
<1> DEFINE plain == [header |-> "V1", clsid |-> item.class, shape |-> item.shape,
                     compressor |-> "none", content |-> Packed("none", item.data)]
           packed == [header |-> "V2", clsid |-> item.class, shape |-> item.shape,
                      compressor |-> g_compression[1],
                      content |-> Packed(g_compression[1], item.data)]
<1>2. \/ blob = plain
      \/ /\ blob = packed
         /\ g_compression[2] # 0 /\ CanPack(g_compression[1], item.class, item.data)
  BY <1>1 DEF blob_pack
<1>3. Unpacked("none", Packed("none", item.data)) = item.data
  BY CopiesComeBack DEF Lossy
<1>4. QED
  BY <1>2, <1>3 DEF Chosen

LEMMA ArraysComeBack ==
  ASSUME NEW item \in Items, Complexity(item) = "array", NEW blob \in blob_pack(item)
  PROVE  SameOrClose(blob_unpack(blob), item, Chosen)
<1> DEFINE data == Unpacked(blob.compressor, blob.content)
           back == [class |-> item.class, shape |-> item.shape, data |-> data]
<1>1. blob.header # "none" /\ blob.clsid # "unknown"
  BY PackedArrays, ArrayClasses
<1>2. blob_unpack(blob) = back
  BY <1>1, PackedArrays DEF blob_unpack
<1>3. item = [class |-> item.class, shape |-> item.shape, data |-> item.data]
  BY ItemsAssumption DEF IsItem
<1> HIDE DEF data
<1>4. CASE data = item.data
  BY <1>2, <1>3, <1>4 DEF SameOrClose
<1>5. CASE data # item.data
  <2>1. /\ data = Unpacked(Chosen, Packed(Chosen, item.data))
        /\ CanPack(Chosen, item.class, item.data)
    BY <1>5, PackedArrays DEF data
  <2>2. Chosen \in Lossy
    BY <1>5, <2>1, CopiesComeBack
  <2>3. item.class = "double"
    BY <2>1, <2>2 DEF CanPack
  <2>4. item.data \in Seq(Doubles) /\ OnGrid(item.data)
    BY <2>3, ItemsAssumption DEF IsItem
  <2>5. CloseTo(Chosen, item.data, data)
    BY <2>1, <2>2, <2>3, <2>4, CompressorsKeepTheirPromise
  <2>6. QED
    BY <1>2, <2>2, <2>3, <2>5 DEF SameOrClose
<1>6. QED
  BY <1>4, <1>5

Stream(item) == <<<<"bytes of", item>>>>

\* Nothing is compressed with a loss that is not an array of doubles: not a stream.
LEMMA PackedStreams ==
  ASSUME NEW item \in Items, Complexity(item) = "complex", NEW blob \in blob_pack(item)
  PROVE  /\ blob.clsid = "unknown"
         /\ blob.header \in {"V1", "V2"}
         /\ blob.header = "V2" => blob.compressor = g_compression[1]
         /\ blob.compressor \notin Lossy
         /\ blob.content = Packed(blob.compressor, Stream(item))
         /\ blob = [header |-> blob.header, clsid |-> blob.clsid, shape |-> blob.shape,
                    compressor |-> blob.compressor, content |-> blob.content]
<1> DEFINE plain == [header |-> "V1", clsid |-> "unknown", shape |-> "vector",
                     compressor |-> "none", content |-> Packed("none", Stream(item))]
           packed == [header |-> "V2", clsid |-> "unknown", shape |-> "vector",
                      compressor |-> g_compression[1],
                      content |-> Packed(g_compression[1], Stream(item))]
<1>1. Serialized(item) = [class |-> "uint8", shape |-> "vector", data |-> Stream(item)]
  BY DEF Serialized, Bytes, Stream
<1>2. \/ blob = plain
      \/ blob = packed /\ CanPack(g_compression[1], "uint8", Stream(item))
  BY <1>1 DEF blob_pack
<1>3. CanPack(g_compression[1], "uint8", Stream(item)) => g_compression[1] \notin Lossy
  BY DEF CanPack
<1>4. "none" \notin Lossy
  BY DEF Lossy
<1>5. QED
  BY <1>2, <1>3, <1>4

LEMMA StreamsComeBack ==
  ASSUME NEW item \in Items, Complexity(item) = "complex", NEW blob \in blob_pack(item),
         have_serialize
  PROVE  blob_unpack(blob) = item
<1>1. Unpacked(blob.compressor, blob.content) = Stream(item)
  BY PackedStreams, CopiesComeBack
<1>2. Stream(item)[1][2] = item
  BY DEF Stream
<1>3. blob.header # "none" /\ blob.clsid = "unknown"
  BY PackedStreams
<1>4. blob_unpack(blob) = Unpacked(blob.compressor, blob.content)[1][2]
  BY <1>3 DEF blob_unpack
<1>5. QED
  BY <1>1, <1>2, <1>4

\* An array or a stream becomes a BLOB: with a header, if BLOBs are typed.
LEMMA BlobsOfItems ==
  ASSUME NEW item \in Items, Complexity(item) \in {"array", "complex"},
         NEW value \in createValueSQLFromItem(item)
  PROVE  /\ value = [type |-> "blob", value |-> value.value]
         /\ IF typed_blobs_mode THEN value.value \in blob_pack(item)
            ELSE value.value = RawBlob(item)
         /\ Complexity(item) = "complex" => typed_blobs_mode /\ have_serialize
<1>1. CASE Complexity(item) = "array"
  BY <1>1 DEF createValueSQLFromItem
<1>2. CASE Complexity(item) = "complex"
  BY <1>2 DEF createValueSQLFromItem, can_serialize
<1>3. QED
  BY <1>1, <1>2

\* Only streams are touched by the functions that measure.
LEMMA ArraysAreNotTouched ==
  ASSUME NEW item \in Items, Complexity(item) = "array",
         NEW value \in createValueSQLFromItem(item)
  PROVE  [value EXCEPT !.value = Measured(@)] = value
<1>1. CASE typed_blobs_mode
  <2>1. value.value.clsid # "unknown"
    BY <1>1, BlobsOfItems, PackedArrays, ArrayClasses
  <2>2. Measured(value.value) = value.value
    BY <2>1 DEF Measured
  <2>3. QED
    BY <2>2, BlobsOfItems
<1>2. CASE ~typed_blobs_mode
  <2>1. value.value = RawBlob(item)
    BY <1>2, BlobsOfItems
  <2>2. Measured(value.value) = value.value
    BY <2>1 DEF Measured, RawBlob
  <2>3. QED
    BY <2>2, BlobsOfItems
<1>3. QED
  BY <1>1, <1>2

-----------------------------------------------------------------------------
(* Type correctness *)

BlobFits(blob) ==
    /\ blob.header \in Headers
    /\ blob.header = "none" <=> blob.clsid = "none"
    /\ blob.clsid \in Classes \union {"none", "unknown", "uint8"}
    /\ blob.header = "V2" => blob.compressor \in Compressors \union Quantizers

ValueFits(value) ==
    /\ value.type \in {"null", "integer", "float", "text", "blob"}
    /\ value.type = "integer" => value.value \in Int
    /\ value.type = "blob" => BlobFits(value.value)

LEMMA CompressorInForce ==
  ASSUME SettingsInv
  PROVE  g_compression[1] \in Compressors \union Quantizers
  BY DEF SettingsInv, SettingsTypeOK, Compression

LEMMA BlobsFit ==
  ASSUME SettingsInv, NEW item \in Items, Complexity(item) \in {"array", "complex"},
         NEW value \in createValueSQLFromItem(item)
  PROVE  /\ BlobFits(value.value)
         /\ Complexity(item) = "complex" => BlobFits(Measured(value.value))
<1>1. CASE ~typed_blobs_mode
  <2>1. value.value = RawBlob(item) /\ Complexity(item) # "complex"
    BY <1>1, BlobsOfItems
  <2>2. BlobFits(RawBlob(item))
    BY DEF RawBlob, BlobFits, Headers
  <2>3. QED
    BY <2>1, <2>2
<1>2. CASE typed_blobs_mode /\ Complexity(item) = "array"
  BY <1>2, BlobsOfItems, PackedArrays, ArrayClasses, CompressorInForce DEF BlobFits, Headers
<1>3. CASE typed_blobs_mode /\ Complexity(item) = "complex"
  <2> DEFINE blob == value.value
  <2>1. blob \in blob_pack(item)
    BY <1>3, BlobsOfItems
  <2> HIDE DEF blob
  <2>2. /\ blob.clsid = "unknown" /\ blob.header \in {"V1", "V2"}
        /\ blob.header = "V2" => blob.compressor \in Compressors \union Quantizers
        /\ blob = [header |-> blob.header, clsid |-> blob.clsid, shape |-> blob.shape,
                   compressor |-> blob.compressor, content |-> blob.content]
    BY <1>3, <2>1, PackedStreams, CompressorInForce
  <2>3. BlobFits(blob)
    BY <2>2 DEF BlobFits, Headers
  <2>4. BlobFits(Measured(blob))
    BY <2>2 DEF Measured, BlobFits, Headers
  <2>5. QED
    BY <2>3, <2>4 DEF blob
<1>4. QED
  BY <1>1, <1>2, <1>3

\* The elements of an item of an integer class are integers.
LEMMA IntegerItems ==
  ASSUME NEW item \in Items, item.class \in IntClasses \union {"int64"}, Len(item.data) = 1
  PROVE  /\ item.data[1] = <<"fin", item.data[1][2]>>
         /\ item.data[1][2] \in Int
         /\ item.class \notin {"int64", "uint32"} => item.data[1][2] \in Signed(IntBits)
<1>1. item.data[1] \in Elements(item.data)
  BY DEF Elements
<1>2. InRange(item.class, item.data[1])
  BY <1>1, ItemsAssumption DEF IsItem
<1>3. QED
  BY <1>2 DEF InRange

\* What is simple is a text, or a scalar.
LEMMA SimpleItems ==
  ASSUME NEW item \in Items, Complexity(item) = "simple", item.class # "char"
  PROVE  Len(item.data) = 1 /\ item.data = <<item.data[1]>>
<1>1. item.data # <<>> /\ item.class \notin {"opaque", "struct", "cell", "complex"}
  BY ArrayClasses
<1>2. item.shape = "scalar"
  BY <1>1 DEF Complexity
<1>3. item.data \in Seq(Elements(item.data)) /\ Len(item.data) = 1
  BY <1>2, ItemsAssumption DEF IsItem
<1>4. QED
  BY <1>3

LEMMA IntegersFit ==
  ASSUME NEW item \in Items, item.class \in IntClasses \union {"int64"}, Len(item.data) = 1
  PROVE  Integer(item.class, item.data[1][2]) \in Int
  BY IntegerItems, WrappedType, SizesAssumption DEF Integer

\* The SQL value of a scalar or a text: never a BLOB.
LEMMA ScalarsAndTexts ==
  ASSUME NEW item \in Items, NEW value \in SimpleCell(item)
  PROVE  \/ /\ item.class \in {"double", "single"}
            /\ value = IF item.data[1][1] = "nan" THEN [type |-> "null"]
                       ELSE [type |-> "float", value |-> item.data[1]]
         \/ /\ item.class \in IntClasses \union {"int64"}
            /\ value = [type |-> "integer", value |-> Integer(item.class, item.data[1][2])]
         \/ item.class = "char" /\ value = [type |-> "text", value |-> GetEncString(item)]
<1>1. CASE item.class \in {"double", "single"}
  <2>1. item.class \notin IntClasses \union {"int64"}
    BY <1>1 DEF IntClasses
  <2>2. QED
    BY <1>1, <2>1 DEF SimpleCell
<1>2. CASE item.class \in IntClasses \union {"int64"}
  BY <1>2 DEF SimpleCell, IntClasses
<1>3. CASE item.class = "char"
  BY <1>3 DEF SimpleCell, IntClasses
<1>4. CASE item.class \notin {"double", "single", "char"} \union IntClasses \union {"int64"}
  BY <1>4 DEF SimpleCell
<1>5. QED
  BY <1>1, <1>2, <1>3, <1>4

LEMMA SimpleValuesFit ==
  ASSUME NEW item \in Items, Complexity(item) = "simple", NEW value \in SimpleCell(item)
  PROVE  ValueFits(value) /\ value.type # "blob"
<1>1. CASE \/ value = [type |-> "null"]
           \/ value = [type |-> "float", value |-> item.data[1]]
           \/ value = [type |-> "text", value |-> GetEncString(item)]
  BY <1>1 DEF ValueFits
<1>2. CASE /\ item.class \in IntClasses \union {"int64"}
           /\ value = [type |-> "integer", value |-> Integer(item.class, item.data[1][2])]
  <2>1. item.class # "char"
    BY <1>2 DEF IntClasses
  <2>2. Integer(item.class, item.data[1][2]) \in Int
    BY <1>2, <2>1, SimpleItems, IntegersFit
  <2>3. QED
    BY <1>2, <2>2 DEF ValueFits
<1>3. QED
  BY <1>1, <1>2, ScalarsAndTexts

LEMMA ValuesFit ==
  ASSUME SettingsInv, NEW item \in Items, NEW value \in createValueSQLFromItem(item)
  PROVE  /\ ValueFits(value)
         /\ value.type = "blob" => /\ Complexity(item) \in {"array", "complex"}
                                   /\ ValueFits([value EXCEPT !.value = Measured(@)])
<1>1. CASE Complexity(item) = "simple"
  <2>1. value \in SimpleCell(item)
    BY <1>1 DEF createValueSQLFromItem
  <2>2. QED
    BY <1>1, <2>1, SimpleValuesFit
<1>2. CASE Complexity(item) \in {"array", "complex"}
  <2>1. value = [type |-> "blob", value |-> value.value]
    BY <1>2, BlobsOfItems
  <2>2. BlobFits(value.value)
    BY <1>2, BlobsFit
  <2>3. value.type = "blob"
    BY <2>1
  <2>4. ValueFits(value)
    BY <2>2, <2>3 DEF ValueFits
  <2>5. CASE Complexity(item) = "array"
    BY <1>2, <2>4, <2>5, ArraysAreNotTouched
  <2>6. CASE Complexity(item) = "complex"
    <3>1. BlobFits(Measured(value.value))
      BY <2>6, BlobsFit
    <3>2. [value EXCEPT !.value = Measured(@)] = [type |-> "blob", value |-> Measured(value.value)]
      BY <2>1
    <3>3. ValueFits([type |-> "blob", value |-> Measured(value.value)])
      BY <3>1 DEF ValueFits
    <3>4. QED
      BY <1>2, <2>4, <3>2, <3>3
  <2>7. QED
    BY <1>2, <2>5, <2>6
<1>3. CASE Complexity(item) \notin {"simple", "array", "complex"}
  <2>1. Complexity(item) \in {"empty", "unsupported"}
    BY <1>3 DEF Complexity
  <2>2. value = [type |-> "null"]
    BY <2>1 DEF createValueSQLFromItem
  <2>3. QED
    BY <2>2 DEF ValueFits
<1>4. QED
  BY <1>1, <1>2, <1>3

StoredInv == SettingsInv /\ ValueFits(cell)

LEMMA StoredInitInv == StoredInit => StoredInv
<1> SUFFICES ASSUME StoredInit PROVE StoredInv
  OBVIOUS
<1>1. SettingsInv
  BY InitiallySettings DEF StoredInit
<1>2. ValueFits(cell)
  BY DEF StoredInit, ValueFits
<1>3. QED
  BY <1>1, <1>2 DEF StoredInv

LEMMA StoredStep ==
  ASSUME StoredInv, [StoredNext]_storedVars
  PROVE  StoredInv'
<1>1. SettingsInv /\ ValueFits(cell)
  BY DEF StoredInv
<1>2. SettingsInv'
  <2>1. [SettingCommand]_settingVars
    BY DEF StoredNext, BindItem, BindMeasured, BindRefused, storedVars
  <2>2. QED
    BY <1>1, <2>1, SettingsStep
<1>3. ValueFits(cell')
  <2>1. CASE BindItem
    BY <1>1, <2>1, ValuesFit DEF BindItem
  <2>2. CASE BindMeasured
    BY <1>1, <2>2, ValuesFit DEF BindMeasured
  <2>3. CASE BindRefused \/ (SettingCommand /\ UNCHANGED <<cell, written>>) \/ UNCHANGED storedVars
    BY <1>1, <2>3 DEF BindRefused, storedVars
  <2>4. QED
    BY <2>1, <2>2, <2>3 DEF StoredNext
<1>4. QED
  BY <1>2, <1>3 DEF StoredInv, ValueFits, BlobFits

LEMMA StoredAlways == StoredSpec => []StoredInv
  BY StoredInitInv, StoredStep, PTL DEF StoredSpec

\* What is stored is a SQL value, and a BLOB with a header that tells a class that is
\* known, or that of a stream: through every path from bind to createValueSQLFromItem.
THEOREM StoredTypeCorrect == StoredSpec => []StoredTypeOK
<1>1. StoredInv => StoredTypeOK
  BY DEF StoredInv, SettingsInv, ValueFits, BlobFits, StoredTypeOK
<1>2. QED
  BY <1>1, StoredAlways, PTL

-----------------------------------------------------------------------------
(* What comes back *)

LEMMA BlobsAreUnpacked ==
  ASSUME NEW value, value.type = "blob"
  PROVE  createItemFromValueSQL(value, TRUE, FALSE) = blob_unpack(value.value)
  BY DEF createItemFromValueSQL

LEMMA BlobsComeBack ==
  ASSUME NEW item \in Items, Complexity(item) \in {"array", "complex"},
         NEW value \in createValueSQLFromItem(item)
  PROVE  IF typed_blobs_mode
         THEN SameOrClose(createItemFromValueSQL(value, TRUE, FALSE), item, Chosen)
         ELSE createItemFromValueSQL(value, TRUE, FALSE) = NoItem
<1>1. value = [type |-> "blob", value |-> value.value]
  BY BlobsOfItems
<1>2. createItemFromValueSQL(value, TRUE, FALSE) = blob_unpack(value.value)
  BY <1>1, BlobsAreUnpacked
<1>3. CASE ~typed_blobs_mode
  <2>1. value.value = RawBlob(item)
    BY <1>3, BlobsOfItems
  <2>2. blob_unpack(RawBlob(item)) = NoItem
    BY DEF blob_unpack, RawBlob
  <2>3. QED
    BY <1>2, <1>3, <2>1, <2>2
<1>4. CASE typed_blobs_mode /\ Complexity(item) = "array"
  BY <1>2, <1>4, BlobsOfItems, ArraysComeBack
<1>5. CASE typed_blobs_mode /\ Complexity(item) = "complex"
  <2>1. value.value \in blob_pack(item) /\ have_serialize
    BY <1>5, BlobsOfItems
  <2>2. blob_unpack(value.value) = item
    BY <1>5, <2>1, StreamsComeBack
  <2>3. QED
    BY <1>2, <1>5, <2>2 DEF SameOrClose
<1>6. QED
  BY <1>3, <1>4, <1>5

\* What is read from a SQL value with these settings.
ReadFrom(value, typed, flag) ==
    createItemFromValueSQL(Fetched(value, flag["convertUTF8"]), typed, flag["NULLasNaN"])

\* Whether MATLAB can serialize is found out once: what is read changes with the cell only.
LEMMA SerializeIsFixed ==
  ASSUME [StoredNext]_storedVars
  PROVE  /\ have_serialize' = have_serialize
         /\ ReadTyped' = createItemFromValueSQL(cell', TRUE, FALSE)
         /\ \A typed, flag : Read(typed, flag)' = ReadFrom(cell', typed, flag)
<1>1. have_serialize' = have_serialize
  BY DEF StoredNext, BindItem, BindMeasured, BindRefused, storedVars, settingVars,
         SettingCommand, Refused, cmdTryHandleFlag,
         cmdTryHandleTypedBlob, cmdTryHandleStreaming, cmdTryHandleResultType,
         cmdTryHandleCompression, cmdTryHandleLanguage
<1>2. QED
  BY <1>1 DEF createItemFromValueSQL, blob_unpack, ReadTyped, Read, ReadFrom, Fetched

LEMMA TypedBlobsStep ==
  ASSUME SettingsInv, TypedBlobsComeBack, [StoredNext]_storedVars
  PROVE  TypedBlobsComeBack'
<1> DEFINE back == createItemFromValueSQL(cell', TRUE, FALSE)
<1>1. ReadTyped' = back
  BY SerializeIsFixed
<1>2. TypedBlobsComeBack' =
        (written' # NothingWritten /\ Complexity(written'.item) \in {"array", "complex"} =>
           IF written'.mode = "raw" THEN back = NoItem
           ELSE Complexity(written'.item) = "array" \/ ~written'.measured
                  => SameOrClose(back, written'.item, written'.compressor))
  BY <1>1 DEF TypedBlobsComeBack, IsBlob, ComesBack
<1> HIDE DEF back
<1>3. CASE UNCHANGED <<cell, written>>
  <2>1. back = ReadTyped
    BY <1>3 DEF back, ReadTyped
  <2>2. QED
    BY <1>2, <1>3, <2>1 DEF TypedBlobsComeBack, IsBlob, ComesBack
<1>4. ASSUME NEW item \in Items, written'.item = item, written'.compressor = Chosen,
             written'.mode = IF typed_blobs_mode THEN "typed" ELSE "raw",
             \/ cell' \in createValueSQLFromItem(item)
             \/ Complexity(item) = "complex" /\ typed_blobs_mode /\ written'.measured
      PROVE  TypedBlobsComeBack'
  <2>1. CASE Complexity(item) \in {"array", "complex"} /\ cell' \in createValueSQLFromItem(item)
    <3>1. IF typed_blobs_mode THEN SameOrClose(back, item, Chosen) ELSE back = NoItem
      BY <2>1, BlobsComeBack DEF back
    <3>2. QED
      BY <1>2, <1>4, <3>1
  <2>2. CASE Complexity(item) = "complex" /\ typed_blobs_mode /\ written'.measured
    BY <1>2, <1>4, <2>2
  <2>3. CASE Complexity(item) \notin {"array", "complex"}
    BY <1>2, <1>4, <2>3
  <2>4. QED
    BY <1>4, <2>1, <2>2, <2>3
<1>5. CASE BindItem
  <2>1. PICK item \in Items : cell' \in createValueSQLFromItem(item) /\ written' = How(item, FALSE)
    BY <1>5 DEF BindItem
  <2>2. /\ written'.item = item /\ written'.compressor = Chosen
        /\ written'.mode = IF typed_blobs_mode THEN "typed" ELSE "raw"
    BY <2>1 DEF How, Chosen
  <2>3. QED
    BY <1>4, <2>1, <2>2
<1>6. CASE BindMeasured
  <2>1. PICK item \in Items : \E value \in createValueSQLFromItem(item) :
          /\ value.type = "blob"
          /\ cell' = [value EXCEPT !.value = Measured(@)]
          /\ written' = How(item, TRUE)
    BY <1>6 DEF BindMeasured
  <2>2. PICK value \in createValueSQLFromItem(item) :
          /\ value.type = "blob"
          /\ cell' = [value EXCEPT !.value = Measured(@)]
          /\ written' = How(item, TRUE)
    BY <2>1
  <2>3. /\ written'.item = item /\ written'.compressor = Chosen /\ written'.measured
        /\ written'.mode = IF typed_blobs_mode THEN "typed" ELSE "raw"
    BY <2>2 DEF How, Chosen
  <2>4. Complexity(item) \in {"array", "complex"}
    BY <2>2, ValuesFit
  <2>5. CASE Complexity(item) = "array"
    <3>1. cell' \in createValueSQLFromItem(item)
      BY <2>2, <2>5, ArraysAreNotTouched
    <3>2. QED
      BY <1>4, <2>3, <3>1
  <2>6. CASE Complexity(item) = "complex"
    <3>1. typed_blobs_mode
      BY <2>6, BlobsOfItems
    <3>2. QED
      BY <1>4, <2>3, <2>6, <3>1
  <2>7. QED
    BY <2>4, <2>5, <2>6
<1>7. QED
  BY <1>3, <1>5, <1>6 DEF StoredNext, BindRefused, storedVars

\* A typed BLOB of an array comes back as the array that was written, or within the
\* tolerance of the compressor that was chosen, whatever typed BLOBs, streaming and
\* compression are set to between writing and reading; so does a serialized item that no
\* function measured.  A bare BLOB is refused and never taken for an array.
THEOREM TypedBlobsAlwaysComeBack == StoredSpec => []TypedBlobsComeBack
<1>1. StoredInit => TypedBlobsComeBack
  BY DEF StoredInit, TypedBlobsComeBack, IsBlob
<1>2. StoredInv /\ TypedBlobsComeBack /\ [StoredNext]_storedVars => TypedBlobsComeBack'
  BY TypedBlobsStep DEF StoredInv
<1>3. QED
  BY <1>1, <1>2, StoredAlways, PTL DEF StoredSpec

\* A string is read as it was written, if it is recoded both times or never, or if that
\* makes no difference.
LEMMA StringsComeBack ==
  ASSUME NEW string \in Seq(Chars), NEW wrote \in BOOLEAN, NEW reads \in BOOLEAN,
         reads = wrote \/ Ascii(string), NEW text, NEW back,
         text = IF wrote THEN latin2utf[string] ELSE string,
         back = IF reads THEN utf2latin[text] ELSE text
  PROVE  UpToNul(back) = string
<1>1. back = string
  <2>1. CASE reads = wrote
    BY <2>1, RecodingIsUndone
  <2>2. CASE Ascii(string)
    BY <2>2, AsciiIsNotRecoded
  <2>3. QED
    BY <2>1, <2>2
<1>2. QED
  BY <1>1, StringsHaveNoNul

LEMMA CodesOfTexts ==
  ASSUME NEW item \in Items, item.class = "char"
  PROVE  UpToNul(Codes(item.data)) \in Seq(Chars)
<1>1. item.data \in Seq({"char"} \X (0 .. 255))
  BY ItemsAssumption DEF IsItem
<1>2. Codes(item.data) \in Seq(0 .. 255)
  <2>1. \A k \in 1 .. Len(item.data) : item.data[k] \in {"char"} \X (0 .. 255)
    BY <1>1
  <2>2. \A k \in 1 .. Len(item.data) : item.data[k][2] \in 0 .. 255
    BY <2>1
  <2>3. Codes(item.data) = [k \in 1 .. Len(item.data) |-> item.data[k][2]]
    BY <1>1 DEF Codes
  <2>4. Len(item.data) \in Nat
    BY <1>1
  <2>5. [k \in 1 .. Len(item.data) |-> item.data[k][2]] \in Seq(0 .. 255)
    BY <2>2, <2>4
  <2>6. QED
    BY <2>3, <2>5
<1>3. QED
  BY <1>2, UpToNulIsAString

LEMMA TextsComeBack ==
  ASSUME SettingsInv, NEW item \in Items, item.class = "char", NEW value \in SimpleCell(item),
         NEW typed, NEW flag \in [ReadingFlags -> BOOLEAN]
  PROVE  LET back == ReadFrom(value, typed, flag)
             string == UpToNul(Codes(item.data))
         IN  /\ back.class = "char"
             /\ flag["convertUTF8"] = g_flag["convertUTF8"] \/ Ascii(string)
                  => back = Text(string)
<1> DEFINE back == ReadFrom(value, typed, flag)
           string == UpToNul(Codes(item.data))
           wrote == g_flag["convertUTF8"]
           reads == flag["convertUTF8"]
           text == IF wrote THEN latin2utf[string] ELSE string
           fetched == IF reads THEN utf2latin[text] ELSE text
<1>1. string \in Seq(Chars)
  BY CodesOfTexts
<1>2. wrote \in BOOLEAN /\ reads \in BOOLEAN
  <2>1. "convertUTF8" \in Flags /\ "convertUTF8" \in ReadingFlags
    BY ReadingFlagsAssumption DEF ReadingFlags
  <2>2. QED
    BY <2>1 DEF SettingsInv, SettingsTypeOK
<1>3. value = [type |-> "text", value |-> text]
  BY ScalarsAndTexts DEF IntClasses, GetEncString
<1> HIDE DEF string, wrote, text
<1>4. Fetched(value, reads) = [type |-> "text", value |-> fetched]
  BY <1>3 DEF Fetched
<1> HIDE DEF reads, fetched
<1>5. back = Text(UpToNul(fetched))
  BY <1>4 DEF ReadFrom, createItemFromValueSQL, reads
<1>6. back.class = "char"
  BY <1>5 DEF Text
<1>7. reads = wrote \/ Ascii(string) => UpToNul(fetched) = string
  BY <1>1, <1>2, StringsComeBack DEF text, fetched
<1>8. QED
  BY <1>5, <1>6, <1>7 DEF reads, wrote, string

LEMMA FloatsReadBack ==
  ASSUME NEW item \in Items, Complexity(item) = "simple", NEW value \in SimpleCell(item),
         item.class \in {"double", "single"}, NEW typed, NEW flag
  PROVE  LET back == ReadFrom(value, typed, flag)
         IN  /\ back.class # "char"
             /\ back.data = IF item.data = <<<<"nan", 0>>>> /\ ~flag["NULLasNaN"]
                            THEN <<>> ELSE item.data
<1> DEFINE back == ReadFrom(value, typed, flag)
<1>1. item.data = <<item.data[1]>> /\ item.data[1] \in Doubles
  <2>1. item.data \in Seq(Doubles) /\ Len(item.data) = 1 /\ item.data = <<item.data[1]>>
    BY SimpleItems, ItemsAssumption DEF IsItem
  <2>2. QED
    BY <2>1
<1>2. CASE item.data[1][1] = "nan"
  <2>1. item.data[1] = <<"nan", 0>>
    BY <1>1, <1>2 DEF Doubles
  <2>2. item.data = <<<<"nan", 0>>>>
    BY <1>1, <2>1
  <2>3. value = [type |-> "null"]
    BY <1>2, ScalarsAndTexts DEF IntClasses
  <2>4. Fetched(value, flag["convertUTF8"]) = value
    BY <2>3 DEF Fetched
  <2>5. CASE flag["NULLasNaN"]
    <3>1. back = [class |-> "double", shape |-> "scalar", data |-> <<<<"nan", 0>>>>]
      BY <2>3, <2>4, <2>5 DEF ReadFrom, createItemFromValueSQL, Scalar
    <3>2. QED
      BY <2>2, <2>5, <3>1
  <2>6. CASE ~flag["NULLasNaN"]
    <3>1. back = [class |-> "double", shape |-> "empty", data |-> <<>>]
      BY <2>3, <2>4, <2>6 DEF ReadFrom, createItemFromValueSQL
    <3>2. QED
      BY <2>2, <2>6, <3>1
  <2>7. QED
    BY <2>5, <2>6
<1>3. CASE item.data[1][1] # "nan"
  <2>1. item.data # <<<<"nan", 0>>>>
    BY <1>3
  <2>2. value = [type |-> "float", value |-> item.data[1]]
    BY <1>3, ScalarsAndTexts DEF IntClasses
  <2>3. Fetched(value, flag["convertUTF8"]) = value
    BY <2>2 DEF Fetched
  <2>4. back = [class |-> "double", shape |-> "scalar", data |-> <<item.data[1]>>]
    BY <2>2, <2>3 DEF ReadFrom, createItemFromValueSQL, Scalar
  <2>5. QED
    BY <1>1, <2>1, <2>4
<1>4. QED
  BY <1>2, <1>3

LEMMA IntegersReadBack ==
  ASSUME NEW item \in Items, Complexity(item) = "simple", NEW value \in SimpleCell(item),
         item.class \in IntClasses \union {"int64"}, NEW typed, NEW flag
  PROVE  LET back == ReadFrom(value, typed, flag)
         IN  /\ item.data # <<<<"nan", 0>>>>
             /\ back.class # "char"
             /\ \/ back.data = item.data
                \/ item.class = "uint32" /\ item.data[1][2] \notin Signed(IntBits)
<1> DEFINE n == item.data[1][2]
           back == ReadFrom(value, typed, flag)
<1>1. item.data = <<item.data[1]>> /\ Len(item.data) = 1
  BY SimpleItems DEF IntClasses
<1>2. /\ item.data[1] = <<"fin", n>>
      /\ item.class \notin {"int64", "uint32"} => n \in Signed(IntBits)
  BY <1>1, IntegerItems
<1>3. value = [type |-> "integer", value |-> Integer(item.class, n)]
  BY ScalarsAndTexts DEF IntClasses
<1> HIDE DEF n
<1>4. item.data # <<<<"nan", 0>>>>
  <2>1. item.data[1] # <<"nan", 0>>
    BY <1>2
  <2>2. QED
    BY <2>1
<1>5. Fetched(value, flag["convertUTF8"]) = value
  BY <1>3 DEF Fetched
<1>6. back = [class |-> "integer", shape |-> "scalar",
              data |-> <<<<"fin", Integer(item.class, n)>>>>]
  BY <1>3, <1>5 DEF ReadFrom, createItemFromValueSQL, Scalar
<1>7. CASE item.class = "int64" \/ n \in Signed(IntBits)
  <2>1. Integer(item.class, n) = n
    BY <1>7, WrappedKeeps, SizesAssumption DEF Integer
  <2>2. back.data = item.data /\ back.class # "char"
    BY <1>1, <1>2, <1>6, <2>1
  <2>3. QED
    BY <1>4, <2>2
<1>8. CASE item.class # "int64" /\ n \notin Signed(IntBits)
  BY <1>2, <1>4, <1>6, <1>8 DEF n
<1>9. QED
  BY <1>7, <1>8

LEMMA ValuesComeBack ==
  ASSUME SettingsInv, NEW item \in Items, Complexity(item) = "simple",
         NEW value \in SimpleCell(item), NEW typed, NEW flag \in [ReadingFlags -> BOOLEAN],
         NEW how, how.item = item, how.utf8 = g_flag["convertUTF8"]
  PROVE  ComesBackFrom(how, ReadFrom(value, typed, flag), flag)
<1>1. CASE item.class = "char"
  <2> DEFINE back == ReadFrom(value, typed, flag)
             string == UpToNul(Codes(item.data))
  <2>1. /\ back.class = "char"
        /\ flag["convertUTF8"] = g_flag["convertUTF8"] \/ Ascii(string) => back = Text(string)
    BY <1>1, TextsComeBack
  <2> HIDE DEF back
  <2>2. ComesBackFrom(how, back, flag)
    BY <1>1, <2>1 DEF ComesBackFrom
  <2>3. QED
    BY <2>2 DEF back
<1>2. CASE item.class # "char" /\ item.data = <<<<"nan", 0>>>>
  <2>1. item.class \in {"double", "single"}
    BY <1>2, IntegersReadBack, ScalarsAndTexts
  <2>2. ReadFrom(value, typed, flag).data = IF flag["NULLasNaN"] THEN item.data ELSE <<>>
    BY <1>2, <2>1, FloatsReadBack
  <2>3. QED
    BY <1>2, <2>2 DEF ComesBackFrom
<1>3. CASE item.class # "char" /\ item.data # <<<<"nan", 0>>>>
  <2>1. /\ ReadFrom(value, typed, flag).class # "char"
        /\ \/ ReadFrom(value, typed, flag).data = item.data
           \/ item.class = "uint32" /\ item.data[1][2] \notin Signed(IntBits)
    BY <1>3, FloatsReadBack, IntegersReadBack, ScalarsAndTexts
  <2>2. QED
    BY <1>3, <2>1 DEF ComesBackFrom
<1>4. QED
  BY <1>1, <1>2, <1>3

LEMMA SimpleValuesStep ==
  ASSUME SettingsInv, SimpleValuesComeBack, [StoredNext]_storedVars
  PROVE  SimpleValuesComeBack'
<1>1. SimpleValuesComeBack' =
        (written' # NothingWritten /\ Complexity(written'.item) = "simple" =>
           \A typed \in BOOLEAN, flag \in [ReadingFlags -> BOOLEAN] :
              ComesBackFrom(written', ReadFrom(cell', typed, flag), flag))
  BY SerializeIsFixed DEF SimpleValuesComeBack
<1>2. CASE UNCHANGED <<cell, written>>
  BY <1>1, <1>2 DEF SimpleValuesComeBack, Read, ReadFrom
<1>3. CASE BindItem
  <2>1. PICK item \in Items : cell' \in createValueSQLFromItem(item) /\ written' = How(item, FALSE)
    BY <1>3 DEF BindItem
  <2>2. written'.item = item /\ written'.utf8 = g_flag["convertUTF8"]
    BY <2>1 DEF How
  <2>3. CASE Complexity(item) = "simple"
    <3>1. cell' \in SimpleCell(item)
      BY <2>1, <2>3 DEF createValueSQLFromItem
    <3>2. QED
      BY <1>1, <2>2, <2>3, <3>1, ValuesComeBack
  <2>4. CASE Complexity(item) # "simple"
    BY <1>1, <2>2, <2>4
  <2>5. QED
    BY <2>3, <2>4
<1>4. CASE BindMeasured
  <2>1. PICK item \in Items : \E value \in createValueSQLFromItem(item) :
          value.type = "blob" /\ written' = How(item, TRUE)
    BY <1>4 DEF BindMeasured
  <2>2. written'.item = item
    BY <2>1 DEF How
  <2>3. Complexity(item) # "simple"
    BY <2>1, ValuesFit
  <2>4. QED
    BY <1>1, <2>2, <2>3
<1>5. QED
  BY <1>2, <1>3, <1>4 DEF StoredNext, BindRefused, storedVars

\* Numbers and texts come back with their value and as what they were, whatever typed
\* BLOBs, streaming, compression and flags are when they are written and when they are
\* read: the cast to a C int loses nothing of the classes that fit in one, latin2utf is
\* undone by utf2latin for every text, of any length, and ASCII passes through either.
\* Excepted: a text written and read with convertUTF8 different, if it has other
\* characters; what follows the first NUL of a text; of uint32 what a C int cannot hold;
\* and NaN, which is stored as NULL and read as what NULLasNaN says by then.
THEOREM SimpleValuesAlwaysComeBack == StoredSpec => []SimpleValuesComeBack
<1>1. StoredInit => SimpleValuesComeBack
  BY DEF StoredInit, SimpleValuesComeBack
<1>2. StoredInv /\ SimpleValuesComeBack /\ [StoredNext]_storedVars => SimpleValuesComeBack'
  BY SimpleValuesStep DEF StoredInv
<1>3. QED
  BY <1>1, <1>2, StoredAlways, PTL DEF StoredSpec
=============================================================================
