-------------------------- MODULE FieldNamesProofs --------------------------
(***************************************************************************)
(* Proofs about FieldNames, for any column names, any namelengthmax of at  *)
(* least 4 and any limit up to 100.                                        *)
(***************************************************************************)
EXTENDS FieldNames, SequenceTheorems, TLAPS

-----------------------------------------------------------------------------
(* What truncating, cleaning and numbering return *)

LEMMA TruncatedProperties ==
  ASSUME NEW S, NEW c \in Seq(S), NEW n \in Nat
  PROVE  /\ Truncated(c, n) \in Seq(S)
         /\ Len(Truncated(c, n)) = IF Len(c) < n THEN Len(c) ELSE n
         /\ \A k \in 1 .. Len(Truncated(c, n)) : Truncated(c, n)[k] = c[k]
<1> DEFINE m == IF Len(c) < n THEN Len(c) ELSE n
<1>1. m \in Nat /\ m <= Len(c)
  OBVIOUS
<1>2. \A k \in 1 .. m : c[k] \in S
  BY <1>1
<1> HIDE DEF m
<1>3. /\ SubSeq(c, 1, m) \in Seq(S)
      /\ Len(SubSeq(c, 1, m)) = IF 1 <= m THEN m - 1 + 1 ELSE 0
      /\ \A k \in 1 .. m - 1 + 1 : SubSeq(c, 1, m)[k] = c[1 + k - 1]
  BY <1>1, <1>2, SubSeqProperties
<1>4. Truncated(c, n) = SubSeq(c, 1, m)
  BY DEF Truncated, m
<1>5. Len(SubSeq(c, 1, m)) = m
  BY <1>1, <1>3
<1>6. \A k \in 1 .. m : SubSeq(c, 1, m)[k] = c[k]
  BY <1>1, <1>3
<1>7. QED
  BY <1>3, <1>4, <1>5, <1>6 DEF m

LEMMA AlphanumProperties ==
  ASSUME NEW c \in Seq(STRING)
  PROVE  /\ to_alphanum(c) \in Name
         /\ Len(to_alphanum(c)) = Len(c)
         /\ \A k \in 1 .. Len(c) : to_alphanum(c)[k] =
               IF c[k] \in Alphanumeric THEN c[k] ELSE "_"
<1>1. DOMAIN c = 1 .. Len(c) /\ Len(c) \in Nat
  OBVIOUS
<1>2. \A k \in 1 .. Len(c) : (IF c[k] \in Alphanumeric THEN c[k] ELSE "_") \in Alphanumeric
  BY DEF Alphanumeric
<1>3. to_alphanum(c) \in [1 .. Len(c) -> Alphanumeric]
  BY <1>1, <1>2 DEF to_alphanum
<1>4. to_alphanum(c) \in Seq(Alphanumeric) /\ Len(to_alphanum(c)) = Len(c)
  BY <1>1, <1>3
<1>5. \A k \in 1 .. Len(c) : to_alphanum(c)[k] =
               IF c[k] \in Alphanumeric THEN c[k] ELSE "_"
  BY <1>1 DEF to_alphanum
<1>6. QED
  BY <1>4, <1>5 DEF Name

LEMMA XIsLetter == "X" \in Letters /\ "X" \in Alphanumeric
  BY LetterAssumption DEF Alphanumeric

\* A name is cleaned to one that begins with a letter.
LEMMA CleanedIsValid ==
  ASSUME NEW column \in ColumnNames
  PROVE  Cleaned(column) \in Name /\ Valid(Cleaned(column))
<1> DEFINE c == to_alphanum(Truncated(column, namelengthmax))
<1>1. Truncated(column, namelengthmax) \in Seq(STRING)
  BY NameAssumption, LengthAssumption, TruncatedProperties
<1>2. c \in Name
  BY <1>1, AlphanumProperties
<1> HIDE DEF c
<1>3. Cleaned(column) = IF NeedsLetter(c) THEN <<"X">> \o c ELSE c
  BY DEF Cleaned, c
<1>4. CASE NeedsLetter(c)
  <2>1. <<"X">> \in Name /\ Len(<<"X">>) = 1 /\ <<"X">>[1] = "X"
    BY XIsLetter DEF Name
  <2>2. /\ <<"X">> \o c \in Name
        /\ Len(<<"X">> \o c) = 1 + Len(c)
        /\ (<<"X">> \o c)[1] = "X"
    BY <1>2, <2>1, ConcatProperties DEF Name
  <2>3. QED
    BY <1>2, <1>3, <1>4, <2>2, XIsLetter DEF Valid, Name
<1>5. CASE ~NeedsLetter(c)
  BY <1>2, <1>3, <1>5 DEF NeedsLetter, Valid
<1>6. QED
  BY <1>4, <1>5

\* One that needs no cleaning comes through unchanged.
LEMMA CleanedKeepsGoodNames ==
  ASSUME NEW c \in Name, c \in ColumnNames, Valid(c), Len(c) <= namelengthmax
  PROVE  Cleaned(c) = c
<1> DEFINE t == Truncated(c, namelengthmax)
<1>1. c \in Seq(STRING)
  BY NameAssumption
<1>2. t \in Name /\ t \in Seq(STRING) /\ Len(t) = Len(c) /\ \A k \in 1 .. Len(t) : t[k] = c[k]
  <2>1. /\ t \in Name
        /\ Len(t) = IF Len(c) < namelengthmax THEN Len(c) ELSE namelengthmax
        /\ \A k \in 1 .. Len(t) : t[k] = c[k]
    BY LengthAssumption, TruncatedProperties DEF Name
  <2>2. t \in Seq(STRING)
    BY <1>1, LengthAssumption, TruncatedProperties
  <2>3. QED
    BY <2>1, <2>2, LengthAssumption DEF Name
<1>3. t = c
  BY <1>2, SeqEqual DEF Name
<1>4. to_alphanum(c) = c
  <2>1. \A k \in 1 .. Len(c) : c[k] \in Alphanumeric
    BY DEF Name
  <2>2. \A k \in 1 .. Len(c) : to_alphanum(c)[k] = c[k]
    BY <1>1, <2>1, AlphanumProperties
  <2>3. QED
    BY <1>1, <2>2, AlphanumProperties, SeqEqual DEF Name
<1>5. ~NeedsLetter(c)
  BY DEF NeedsLetter, Valid
<1>6. QED
  BY <1>3, <1>4, <1>5 DEF Cleaned

LEMMA NumeralProperties ==
  ASSUME NEW n \in 1 .. 99
  PROVE  Numeral(n) \in Name /\ Len(Numeral(n)) \in {1, 2}
<1>1. \A d \in 1 .. 9 : Digit[d] \in Alphanumeric
  BY DEF Digits, Alphanumeric
<1>2. "0" \in Alphanumeric
  BY DEF Digits, Alphanumeric
<1>3. CASE n < 10
  <2>1. Digit[n] \in Alphanumeric
    BY <1>1, <1>3
  <2> DEFINE d == Digit[n]
  <2>2. Numeral(n) = <<d>>
    BY <1>3 DEF Numeral
  <2> HIDE DEF d
  <2>3. QED
    BY <2>1, <2>2 DEF Name, d
<1>4. CASE ~(n < 10)
  <2>1. n \div 10 \in 1 .. 9 /\ n % 10 \in 0 .. 9
    BY <1>4
  <2> DEFINE d == Digit[n \div 10]
             e == IF n % 10 = 0 THEN "0" ELSE Digit[n % 10]
  <2>2. d \in Alphanumeric /\ e \in Alphanumeric
    BY <1>1, <1>2, <2>1
  <2>3. Numeral(n) = <<d, e>>
    BY <1>4 DEF Numeral
  <2> HIDE DEF d, e
  <2>4. QED
    BY <2>2, <2>3 DEF Name
<1>5. QED
  BY <1>3, <1>4

\* Making room for the number leaves the letter in front.
LEMMA NumberedIsValid ==
  ASSUME NEW c \in Name, Valid(c), NEW n \in 1 .. Limit - 1
  PROVE  Numbered(c, n) \in Name /\ Valid(Numbered(c, n))
<1> DEFINE suffix == <<"_">> \o Numeral(n)
           t == Truncated(c, namelengthmax - Len(suffix))
<1>1. Numeral(n) \in Name /\ Len(Numeral(n)) \in {1, 2}
  BY LimitAssumption, NumeralProperties
<1>2. suffix \in Name /\ Len(suffix) \in {2, 3}
  <2>1. <<"_">> \in Name /\ Len(<<"_">>) = 1
    <3> DEFINE u == "_"
    <3>1. u \in Alphanumeric
      BY DEF Alphanumeric
    <3> HIDE DEF u
    <3>2. <<u>> \in Name /\ Len(<<u>>) = 1
      BY <3>1 DEF Name
    <3>3. QED
      BY <3>2 DEF u
  <2>2. suffix \in Name /\ Len(suffix) = 1 + Len(Numeral(n))
    BY <1>1, <2>1, ConcatProperties DEF Name
  <2> HIDE DEF suffix
  <2>3. \A l \in {1, 2} : 1 + l \in {2, 3}
    OBVIOUS
  <2>4. QED
    BY <1>1, <2>2, <2>3
<1>3. Len(c) \in Nat /\ Len(c) >= 1
  BY DEF Name, Valid
<1> HIDE DEF suffix
<1>4. namelengthmax - Len(suffix) \in Nat /\ namelengthmax - Len(suffix) >= 1
  <2>1. \A l \in {2, 3} : namelengthmax - l \in Nat /\ namelengthmax - l >= 1
    BY LengthAssumption
  <2>2. QED
    BY <1>2, <2>1
<1>5. t \in Name /\ Len(t) >= 1 /\ Len(t) \in Nat /\ t[1] = c[1]
  <2>1. /\ t \in Seq(Alphanumeric)
        /\ Len(t) = IF Len(c) < namelengthmax - Len(suffix) THEN Len(c)
                    ELSE namelengthmax - Len(suffix)
        /\ \A k \in 1 .. Len(t) : t[k] = c[k]
    BY <1>4, TruncatedProperties DEF Name
  <2>2. QED
    BY <1>3, <1>4, <2>1 DEF Name
<1> HIDE DEF t
<1>6. /\ t \o suffix \in Name
      /\ Len(t \o suffix) = Len(t) + Len(suffix)
      /\ (t \o suffix)[1] = t[1]
  BY <1>2, <1>5, ConcatProperties DEF Name
<1>7. Numbered(c, n) = t \o suffix
  BY DEF Numbered, t, suffix
<1>8. QED
  BY <1>2, <1>5, <1>6, <1>7 DEF Valid, Name

-----------------------------------------------------------------------------
(* The invariants *)

\* What the search knows: the name tried differs from the names before loop, and if it
\* has been numbered, the name itself is taken.
Searched ==
    pc = "search" =>
        /\ unique
        /\ Len(columns) = Len(names) + 1
        /\ loop <= Len(names) + 1
        /\ item = Cleaned(columns[Len(columns)])
        /\ Valid(new_name)
        /\ \A k \in 1 .. loop - 1 : names[k] # new_name
        /\ new_name = item \/ \E k \in 1 .. Len(names) : names[k] = item

\* Each column has its field, unless there are none at all.
Counted ==
    /\ Len(columns) <= MaxColumns
    /\ pc \in {"next", "done"} => Len(names) = Len(columns)
    /\ pc = "failed" => names = <<>>

FieldNamesInv ==
    /\ FieldNamesTypeOK
    /\ Searched
    /\ Counted
    /\ Distinct
    /\ AllValid
    /\ GoodNamesStay

LEMMA InitiallyNames == Init => FieldNamesInv
<1> SUFFICES ASSUME Init PROVE FieldNamesInv
  OBVIOUS
<1>1. FieldNamesTypeOK
  BY BoundAssumption, LimitAssumption DEF Init, FieldNamesTypeOK, Name
<1>2. Searched /\ Counted /\ Distinct /\ AllValid /\ GoodNamesStay
  BY BoundAssumption DEF Init, Searched, Counted, Distinct, AllValid, GoodNamesStay
<1>3. QED
  BY <1>1, <1>2 DEF FieldNamesInv

\* Appending to a sequence of names, element by element.
LEMMA AppendedName ==
  ASSUME NEW S, NEW s \in Seq(S), NEW e \in S
  PROVE  /\ Append(s, e) \in Seq(S)
         /\ Len(Append(s, e)) = Len(s) + 1
         /\ DOMAIN Append(s, e) = 1 .. Len(s) + 1
         /\ \A k \in 1 .. Len(s) : Append(s, e)[k] = s[k]
         /\ Append(s, e)[Len(s) + 1] = e
  OBVIOUS

LEMMA TakeColumnKeepsInv ==
  ASSUME FieldNamesInv, NEW column \in ColumnNames, TakeColumn(column)
  PROVE  FieldNamesInv'
<1> USE DEF FieldNamesInv
<1>1. item' \in Name /\ Valid(item') /\ item' = Cleaned(column) /\ new_name' = item'
  BY CleanedIsValid DEF TakeColumn
<1>2. /\ columns' \in Seq(ColumnNames)
      /\ Len(columns') = Len(columns) + 1
      /\ columns'[Len(columns')] = column
      /\ \A k \in 1 .. Len(columns) : columns'[k] = columns[k]
  BY AppendedName DEF TakeColumn, FieldNamesTypeOK
<1>3. Len(columns) = Len(names) /\ Len(columns) < MaxColumns /\ Len(names) \in Nat
  BY DEF TakeColumn, Counted, FieldNamesTypeOK
<1>4. Len(columns') <= MaxColumns
  BY <1>2, <1>3, BoundAssumption
<1>5. CASE unique
  <2>1. pc' = "search" /\ names' = names /\ unique' = unique /\ loop' = 1 /\ number' = 1
    BY <1>5 DEF TakeColumn
  <2>2. FieldNamesTypeOK'
    BY <1>1, <1>2, <2>1, BoundAssumption, LimitAssumption DEF FieldNamesTypeOK
  <2>3. Searched'
    BY <1>1, <1>2, <1>3, <1>5, <2>1 DEF Searched
  <2>4. Counted'
    BY <1>4, <2>1 DEF Counted
  <2>5. Distinct' /\ AllValid'
    BY <2>1 DEF Distinct, AllValid, Valid
  <2>6. GoodNamesStay'
    <3>1. \A k \in DOMAIN names : columns'[k] = columns[k]
      BY <1>2, <1>3 DEF FieldNamesTypeOK
    <3>2. QED
      BY <2>1, <3>1 DEF GoodNamesStay, Valid
  <2>7. QED
    BY <2>2, <2>3, <2>4, <2>5, <2>6
<1>6. CASE ~unique
  <2>1. /\ pc' = "next" /\ names' = Append(names, item') /\ unique' = unique
        /\ loop' = 1 /\ number' = 1
    BY <1>6 DEF TakeColumn
  <2>2. /\ names' \in Seq(Name)
        /\ Len(names') = Len(names) + 1
        /\ DOMAIN names' = 1 .. Len(names) + 1
        /\ \A k \in 1 .. Len(names) : names'[k] = names[k]
        /\ names'[Len(names) + 1] = item'
    BY <1>1, <2>1, AppendedName DEF FieldNamesTypeOK
  <2>3. FieldNamesTypeOK'
    <3>1. loop' \in 1 .. MaxColumns /\ number' \in 1 .. Limit
      BY <2>1, BoundAssumption, LimitAssumption
    <3>2. QED
      BY <1>1, <1>2, <2>1, <2>2, <3>1 DEF FieldNamesTypeOK
  <2>4. Searched' /\ Counted' /\ Distinct'
    BY <1>2, <1>3, <1>4, <1>6, <2>1, <2>2 DEF Searched, Counted, Distinct
  <2>5. AllValid'
    BY <1>1, <1>3, <2>2 DEF AllValid, Valid, FieldNamesTypeOK
  <2>6. GoodNamesStay'
    <3> SUFFICES ASSUME NEW k \in DOMAIN names',
                        columns'[k] \in Name, Valid(columns'[k]),
                        Len(columns'[k]) <= namelengthmax,
                        \A j \in 1 .. k - 1 : names'[j] # columns'[k]
                 PROVE  names'[k] = columns'[k]
      BY DEF GoodNamesStay, Valid
    <3>1. CASE k = Len(names) + 1
      BY <1>1, <1>2, <1>3, <2>2, <3>1, CleanedKeepsGoodNames
    <3>2. CASE k \in 1 .. Len(names)
      <4>1. names'[k] = names[k] /\ columns'[k] = columns[k] /\ k \in DOMAIN names
        BY <1>2, <1>3, <2>2, <3>2 DEF FieldNamesTypeOK
      <4>2. \A j \in 1 .. k - 1 : names[j] # columns[k]
        BY <2>2, <3>2, <4>1, <1>3
      <4>3. QED
        BY <4>1, <4>2 DEF GoodNamesStay
    <3>3. QED
      BY <2>2, <3>1, <3>2, <1>3
  <2>7. QED
    BY <2>3, <2>4, <2>5, <2>6
<1>7. QED
  BY <1>5, <1>6

LEMMA ClashKeepsInv ==
  ASSUME FieldNamesInv, Clash
  PROVE  FieldNamesInv'
<1> USE DEF FieldNamesInv
<1>1. /\ pc = "search" /\ pc' = "search" /\ loop <= Len(names) /\ number < Limit
      /\ new_name = names[loop] /\ new_name' = Numbered(item, number)
      /\ number' = number + 1 /\ loop' = 1
      /\ UNCHANGED <<unique, columns, names, item>>
  BY DEF Clash, Searching
<1>2. item \in Name /\ Valid(item)
  BY <1>1, CleanedIsValid DEF Searched, FieldNamesTypeOK
<1>3. number \in 1 .. Limit - 1 /\ number' \in 1 .. Limit
  BY <1>1, LimitAssumption DEF FieldNamesTypeOK
<1>4. new_name' \in Name /\ Valid(new_name')
  BY <1>1, <1>2, <1>3, NumberedIsValid
<1>5. FieldNamesTypeOK'
  <2>1. loop' \in 1 .. MaxColumns
    BY <1>1, BoundAssumption
  <2>2. QED
    BY <1>1, <1>3, <1>4, <2>1 DEF FieldNamesTypeOK
<1>6. \E k \in 1 .. Len(names) : names[k] = item
  <2>1. loop \in 1 .. Len(names)
    BY <1>1 DEF FieldNamesTypeOK
  <2>2. QED
    BY <1>1, <2>1 DEF Searched
<1>7. Searched'
  <2>1. unique' /\ Len(columns') = Len(names') + 1 /\ item' = Cleaned(columns'[Len(columns')])
    BY <1>1 DEF Searched
  <2>2. loop' <= Len(names') + 1 /\ (1 .. loop' - 1) = {}
    BY <1>1 DEF FieldNamesTypeOK
  <2>3. QED
    BY <1>1, <1>4, <1>6, <2>1, <2>2 DEF Searched
<1>8. Counted' /\ Distinct' /\ AllValid' /\ GoodNamesStay'
  BY <1>1 DEF Counted, Distinct, AllValid, GoodNamesStay, Valid
<1>9. QED
  BY <1>5, <1>7, <1>8

LEMMA DifferKeepsInv ==
  ASSUME FieldNamesInv, Differ
  PROVE  FieldNamesInv'
<1> USE DEF FieldNamesInv
<1>1. /\ pc = "search" /\ loop <= Len(names)
      /\ new_name # names[loop] /\ loop' = loop + 1
      /\ UNCHANGED <<unique, columns, names, item, new_name, number, pc>>
  BY DEF Differ, Searching
<1>2. loop \in Nat /\ Len(names) \in Nat /\ loop >= 1
  BY DEF FieldNamesTypeOK
<1>3. FieldNamesTypeOK'
  <2>1. loop' \in 1 .. MaxColumns
    BY <1>1, <1>2, BoundAssumption DEF Searched, Counted
  <2>2. QED
    BY <1>1, <2>1 DEF FieldNamesTypeOK
<1>4. Searched'
  <2>1. \A k \in 1 .. loop' - 1 : names'[k] # new_name'
    BY <1>1, <1>2 DEF Searched
  <2>2. loop' <= Len(names') + 1
    BY <1>1, <1>2
  <2>3. QED
    BY <1>1, <2>1, <2>2 DEF Searched, Valid
<1>5. Counted' /\ Distinct' /\ AllValid' /\ GoodNamesStay'
  BY <1>1 DEF Counted, Distinct, AllValid, GoodNamesStay, Valid
<1>6. QED
  BY <1>3, <1>4, <1>5

LEMMA SettleKeepsInv ==
  ASSUME FieldNamesInv, Settle
  PROVE  FieldNamesInv'
<1> USE DEF FieldNamesInv
<1>1. /\ pc = "search" /\ pc' = "next" /\ loop > Len(names)
      /\ names' = Append(names, new_name)
      /\ UNCHANGED <<unique, columns, item, new_name, loop, number>>
  BY DEF Settle
<1>2. /\ names' \in Seq(Name)
      /\ Len(names') = Len(names) + 1
      /\ DOMAIN names' = 1 .. Len(names) + 1
      /\ \A k \in 1 .. Len(names) : names'[k] = names[k]
      /\ names'[Len(names) + 1] = new_name
  BY <1>1, AppendedName DEF FieldNamesTypeOK
<1>3. Len(names) \in Nat /\ Len(columns) = Len(names) + 1 /\ loop = Len(names) + 1
  BY <1>1 DEF Searched, FieldNamesTypeOK
<1>4. \A k \in 1 .. Len(names) : names[k] # new_name
  BY <1>1, <1>3 DEF Searched
<1>5. FieldNamesTypeOK'
  BY <1>1, <1>2 DEF FieldNamesTypeOK
<1>6. Searched' /\ Counted'
  BY <1>1, <1>2, <1>3 DEF Searched, Counted
<1>7. Distinct'
  <2> SUFFICES ASSUME NEW j \in DOMAIN names', NEW k \in DOMAIN names',
                      names'[j] = names'[k], j < k
               PROVE  FALSE
    BY <1>2, <1>3 DEF Distinct
  <2>1. j \in 1 .. Len(names) /\ names'[j] = names[j]
    BY <1>2, <1>3
  <2>2. CASE k = Len(names) + 1
    BY <1>2, <1>4, <2>1, <2>2
  <2>3. CASE k \in 1 .. Len(names)
    <3>1. names[j] = names[k]
      BY <1>2, <2>1, <2>3
    <3>2. j \in DOMAIN names /\ k \in DOMAIN names /\ unique
      BY <1>1, <2>1, <2>3 DEF FieldNamesTypeOK, Searched
    <3>3. QED
      BY <3>1, <3>2, <2>1, <2>3 DEF Distinct
  <2>4. QED
    BY <1>2, <1>3, <2>2, <2>3
<1>8. AllValid'
  <2>1. Valid(new_name)
    BY <1>1 DEF Searched
  <2>2. \A k \in 1 .. Len(names) : Valid(names[k])
    BY DEF AllValid, FieldNamesTypeOK
  <2>3. QED
    BY <1>2, <1>3, <2>1, <2>2 DEF AllValid, Valid
<1>9. GoodNamesStay'
  <2> SUFFICES ASSUME NEW k \in DOMAIN names',
                      columns'[k] \in Name, Valid(columns'[k]),
                      Len(columns'[k]) <= namelengthmax,
                      \A j \in 1 .. k - 1 : names'[j] # columns'[k]
               PROVE  names'[k] = columns'[k]
    BY DEF GoodNamesStay, Valid
  <2>1. CASE k = Len(names) + 1
    <3>1. item = Cleaned(columns[k]) /\ columns[k] \in ColumnNames
      BY <1>1, <1>3, <2>1 DEF Searched, FieldNamesTypeOK
    <3>2. item = columns[k]
      BY <1>1, <3>1, CleanedKeepsGoodNames
    <3>3. \A j \in 1 .. Len(names) : names[j] # item
      BY <1>1, <1>2, <1>3, <2>1, <3>2
    <3>4. new_name = item
      BY <1>1, <3>3 DEF Searched
    <3>5. QED
      BY <1>1, <1>2, <2>1, <3>2, <3>4
  <2>2. CASE k \in 1 .. Len(names)
    <3>1. names'[k] = names[k] /\ columns'[k] = columns[k] /\ k \in DOMAIN names
      BY <1>1, <1>2, <2>2 DEF FieldNamesTypeOK
    <3>2. \A j \in 1 .. k - 1 : names[j] # columns[k]
      BY <1>2, <1>3, <2>2, <3>1
    <3>3. QED
      BY <3>1, <3>2 DEF GoodNamesStay
  <2>3. QED
    BY <1>2, <1>3, <2>1, <2>2
<1>10. QED
  BY <1>5, <1>6, <1>7, <1>8, <1>9

LEMMA EndsKeepInv ==
  ASSUME FieldNamesInv, GiveUp \/ Return
  PROVE  FieldNamesInv'
<1> USE DEF FieldNamesInv
<1>1. CASE GiveUp
  <2>1. names' = <<>> /\ pc' = "failed" /\ UNCHANGED <<unique, columns, item, new_name, loop, number>>
    BY <1>1 DEF GiveUp
  <2>2. FieldNamesTypeOK'
    BY <2>1 DEF FieldNamesTypeOK
  <2>3. QED
    BY <2>1, <2>2 DEF Searched, Counted, Distinct, AllValid, GoodNamesStay
<1>2. CASE Return
  <2>1. pc = "next" /\ pc' = "done" /\ UNCHANGED <<unique, columns, names, item, new_name, loop, number>>
    BY <1>2 DEF Return
  <2>2. FieldNamesTypeOK' /\ Searched' /\ Counted'
    BY <2>1 DEF FieldNamesTypeOK, Searched, Counted
  <2>3. Distinct' /\ AllValid' /\ GoodNamesStay'
    BY <2>1 DEF Distinct, AllValid, GoodNamesStay, Valid
  <2>4. QED
    BY <2>2, <2>3
<1>3. QED
  BY <1>1, <1>2

LEMMA NamesAlways == Spec => []FieldNamesInv
<1>1. FieldNamesInv /\ Next => FieldNamesInv'
  BY TakeColumnKeepsInv, ClashKeepsInv, DifferKeepsInv, SettleKeepsInv, EndsKeepInv
  DEF Next, Search
<1>2. FieldNamesInv /\ UNCHANGED vars => FieldNamesInv'
  BY DEF vars, FieldNamesInv, FieldNamesTypeOK, Searched, Counted, Distinct, AllValid,
         GoodNamesStay, Valid
<1>3. QED
  BY InitiallyNames, <1>1, <1>2, PTL DEF Spec

\* Every variable of the search keeps to its values: loop to the names there are, number
\* to its limit, every name to the characters MATLAB takes.
THEOREM NamesTypeCorrect == Spec => []FieldNamesTypeOK
<1>1. FieldNamesInv => FieldNamesTypeOK
  BY DEF FieldNamesInv
<1>2. QED
  BY <1>1, NamesAlways, PTL

\* The names of the fields differ when they are to: the search that starts over after
\* each new number has compared the one it settles for with every name before it.
THEOREM NamesAreDistinct == Spec => []Distinct
<1>1. FieldNamesInv => Distinct
  BY DEF FieldNamesInv
<1>2. QED
  BY <1>1, NamesAlways, PTL

\* Every name begins with a letter, numbered and cut or not: namelengthmax leaves room
\* for a letter before the longest number.
THEOREM NamesAreValid == Spec => []AllValid
<1>1. FieldNamesInv => AllValid
  BY DEF FieldNamesInv
<1>2. QED
  BY <1>1, NamesAlways, PTL

\* A name that is good and not taken is the name of its field.
THEOREM GoodNamesAreKept == Spec => []GoodNamesStay
<1>1. FieldNamesInv => GoodNamesStay
  BY DEF FieldNamesInv
<1>2. QED
  BY <1>1, NamesAlways, PTL

-----------------------------------------------------------------------------
(* How long the search takes *)

\* The comparisons that can still come: numbers not yet tried, with all the names before.
Left ==
    IF pc = "search" THEN (Limit - number) * (Len(names) + 1) + (Len(names) + 2 - loop) ELSE 0

LEMMA LeftIsBounded ==
  ASSUME FieldNamesInv
  PROVE  Left \in 0 .. Limit * MaxColumns
<1> DEFINE n == Len(names) + 1
           rest == Limit - number
<1>1. CASE pc = "search"
  <2>1. /\ n \in Nat \ {0} /\ n <= MaxColumns /\ loop \in 1 .. n
        /\ rest \in Nat /\ rest <= Limit - 1 /\ Limit \in Nat \ {0} /\ MaxColumns \in Nat
    BY <1>1, LimitAssumption, BoundAssumption
    DEF FieldNamesInv, FieldNamesTypeOK, Searched, Counted
  <2>2. Left = rest * n + (n + 1 - loop)
    BY <1>1, LimitAssumption DEF Left, FieldNamesInv, FieldNamesTypeOK
  <2> HIDE DEF n, rest
  <2>3. rest * n \in Nat /\ rest * n <= (Limit - 1) * n
    <3>1. \A a, b, c \in Nat : a <= b => a * c <= b * c
      <4>1. \A a, d, c \in Nat : a * c <= (a + d) * c
        <5>1. \A a, d, c \in Nat : (a + d) * c = a * c + d * c /\ d * c \in Nat /\ a * c \in Nat
          OBVIOUS
        <5>2. QED
          BY <5>1
      <4>2. \A a, b \in Nat : a <= b => b - a \in Nat /\ b = a + (b - a)
        OBVIOUS
      <4>3. QED
        BY <4>1, <4>2
    <3>2. QED
      BY <2>1, <3>1
  <2>4. (Limit - 1) * n + n = n * Limit /\ n * Limit \in Nat
    BY <2>1
  <2>5. n * Limit <= Limit * MaxColumns
    <3>1. PICK d \in Nat : MaxColumns = n + d
      BY <2>1, MaxColumns - n \in Nat
    <3>2. Limit * (n + d) = n * Limit + Limit * d /\ Limit * d \in Nat
      BY <2>1
    <3>3. QED
      BY <2>4, <3>1, <3>2
  <2>6. Left \in Nat /\ Left <= rest * n + n
    BY <2>1, <2>2, <2>3
  <2>7. (Limit - 1) * n \in Nat /\ Limit * MaxColumns \in Nat
    BY <2>1
  <2>8. QED
    BY <2>1, <2>3, <2>4, <2>5, <2>6, <2>7
<1>2. CASE pc # "search"
  <2>1. Limit * MaxColumns \in Nat
    BY LimitAssumption, BoundAssumption
  <2>2. QED
    BY <1>2, <2>1 DEF Left
<1>3. QED
  BY <1>1, <1>2

\* While the search goes on nothing else is done, and each of its steps brings the end nearer.
LEMMA SearchGoesOn ==
  ASSUME FieldNamesInv, pc = "search", Next
  PROVE  Search /\ Left' < Left
<1> DEFINE n == Len(names) + 1
<1>1. Search
  BY DEF Next, TakeColumn, Return
<1>2. /\ n \in Nat \ {0} /\ loop \in 1 .. n /\ number \in Nat /\ Limit - number \in Nat
      /\ Left = (Limit - number) * n + (n + 1 - loop)
  BY LimitAssumption DEF FieldNamesInv, FieldNamesTypeOK, Searched, Left
<1>3. Left > 0
  <2> HIDE DEF n
  <2>1. (Limit - number) * n \in Nat
    BY <1>2
  <2>2. QED
    BY <1>2, <2>1
<1>4. CASE Clash
  <2>1. /\ pc' = "search" /\ names' = names /\ loop' = 1 /\ number' = number + 1
        /\ loop <= n - 1 /\ number < Limit
    BY <1>4 DEF Clash, Searching, FieldNamesInv, FieldNamesTypeOK
  <2>2. Left' = (Limit - (number + 1)) * n + (n + 1 - 1)
    BY <2>1 DEF Left
  <2> HIDE DEF n
  <2>3. (Limit - number) * n = (Limit - (number + 1)) * n + n /\ (Limit - (number + 1)) * n \in Int
    BY <1>2, LimitAssumption
  <2>4. QED
    BY <1>1, <1>2, <2>1, <2>2, <2>3
<1>5. CASE Differ
  <2>1. pc' = "search" /\ names' = names /\ loop' = loop + 1 /\ number' = number
    BY <1>5 DEF Differ
  <2>2. Left' = (Limit - number) * n + (n + 1 - (loop + 1))
    BY <2>1 DEF Left
  <2> HIDE DEF n
  <2>3. (Limit - number) * n \in Int
    BY <1>2
  <2>4. QED
    BY <1>1, <1>2, <2>2, <2>3
<1>6. CASE Settle \/ GiveUp
  <2>1. Left' = 0
    BY <1>6 DEF Settle, GiveUp, Left
  <2>2. QED
    BY <1>1, <1>3, <2>1
<1>7. QED
  BY <1>1, <1>4, <1>5, <1>6 DEF Search

\* The search never goes in circles: each comparison leaves fewer to come, and there are
\* at most Limit times the number of columns for one name, however often it starts over.
THEOREM SearchesAreShort ==
  Spec => /\ [](Left \in 0 .. Limit * MaxColumns)
          /\ [][pc = "search" => Search /\ Left' < Left]_vars
<1>1. FieldNamesInv => Left \in 0 .. Limit * MaxColumns
  BY LeftIsBounded
<1>2. FieldNamesInv /\ [Next]_vars => [pc = "search" => Search /\ Left' < Left]_vars
  BY SearchGoesOn
<1>3. QED
  BY <1>1, <1>2, NamesAlways, PTL DEF Spec
=============================================================================
