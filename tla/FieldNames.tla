------------------------------ MODULE FieldNames ------------------------------
(***************************************************************************)
(* The names of the fields of a result (getColNames).  A column may have   *)
(* any name; the field must have one MATLAB takes: a letter first, then    *)
(* letters, digits and underscores, no longer than namelengthmax.  When    *)
(* names are to be unique, a name that is taken already is numbered, and   *)
(* the search among the names before it starts over each time.             *)
(*                                                                         *)
(* A name is a sequence of characters; the columns come one by one, `pc'   *)
(* tells whether the name of one is being searched for.                    *)
(***************************************************************************)
EXTENDS Integers, Sequences

CONSTANTS
    namelengthmax,  \* g_namelengthmax
    Limit,          \* how far a name is numbered: 100
    ColumnNames,    \* the names columns can have
    Letters,        \* the characters that are letters
    MaxColumns      \* bound: columns of a result

Digit == <<"1", "2", "3", "4", "5", "6", "7", "8", "9">>
Digits == {Digit[d] : d \in 1 .. 9} \union {"0"}
Alphanumeric == Letters \union Digits \union {"_"}

ASSUME LengthAssumption == namelengthmax \in Nat /\ namelengthmax >= 4
ASSUME LimitAssumption == Limit \in 2 .. 100
ASSUME LetterAssumption == "X" \in Letters /\ Letters \intersect Digits = {}
                              /\ "_" \notin Letters
ASSUME BoundAssumption == MaxColumns \in Nat \ {0}
ASSUME NameAssumption == ColumnNames \subseteq Seq(STRING)

Name == Seq(Alphanumeric)

VARIABLES
    unique,     \* g_check4uniquefields
    columns,    \* the names of the columns so far
    names,      \* and of their fields
    item,       \* the column's name, made valid
    new_name,   \* what is tried
    loop,       \* the name before it that it is compared with
    number,     \* what it is numbered with next
    pc          \* "next", "search", "done", "failed"

vars == <<unique, columns, names, item, new_name, loop, number, pc>>

FieldNamesTypeOK ==
    /\ unique \in BOOLEAN
    /\ columns \in Seq(ColumnNames)
    /\ names \in Seq(Name)
    /\ item \in Name
    /\ new_name \in Name
    /\ loop \in 1 .. MaxColumns
    /\ number \in 1 .. Limit
    /\ pc \in {"next", "search", "done", "failed"}

-----------------------------------------------------------------------------
\* Mutant of Truncated: one character less than fits.
TruncatedShort(c, n) == SubSeq(c, 1, IF Len(c) < n THEN Len(c) ELSE n - 1)

Truncated(c, n) == SubSeq(c, 1, IF Len(c) < n THEN Len(c) ELSE n)

to_alphanum(c) == [k \in DOMAIN c |-> IF c[k] \in Alphanumeric THEN c[k] ELSE "_"]

\* Mutant of NeedsLetter: digits may come first.
NeedsLetterUnlessDigit(c) == c = <<>> \/ c[1] = "_"

NeedsLetter(c) == c = <<>> \/ c[1] \notin Letters

Cleaned(column) ==
    LET c == to_alphanum(Truncated(column, namelengthmax))
    IN  IF NeedsLetter(c) THEN <<"X">> \o c ELSE c

Numeral(n) ==
    IF n < 10 THEN <<Digit[n]>>
    ELSE <<Digit[n \div 10], IF n % 10 = 0 THEN "0" ELSE Digit[n % 10]>>

Numbered(c, n) ==
    LET suffix == <<"_">> \o Numeral(n)
    IN  Truncated(c, namelengthmax - Len(suffix)) \o suffix

TakeColumn(column) ==
    /\ pc = "next"
    /\ Len(columns) < MaxColumns
    /\ columns' = Append(columns, column)
    /\ item' = Cleaned(column)
    /\ new_name' = item'
    /\ loop' = 1
    /\ number' = 1
    /\ IF unique THEN pc' = "search" /\ UNCHANGED names
       ELSE pc' = "next" /\ names' = Append(names, item')
    /\ UNCHANGED unique

\* Mutant of Searching: there is no limit.
SearchingOn == loop <= Len(names)

Searching == loop <= Len(names) /\ number < Limit

\* Mutant of Clash: the numbered name is compared with the names that follow only.
ClashGoesOn ==
    /\ pc = "search" /\ Searching
    /\ new_name = names[loop]
    /\ new_name' = Numbered(item, number)
    /\ number' = number + 1
    /\ loop' = loop + 1
    /\ UNCHANGED <<unique, columns, names, item, pc>>

\* Mutant of Clash: the number stays the same.
ClashSameNumber ==
    /\ pc = "search" /\ Searching
    /\ new_name = names[loop]
    /\ new_name' = Numbered(item, number)
    /\ loop' = 1
    /\ UNCHANGED <<unique, columns, names, item, number, pc>>

Clash ==
    /\ pc = "search" /\ Searching
    /\ new_name = names[loop]
    /\ new_name' = Numbered(item, number)
    /\ number' = number + 1
    /\ loop' = 1
    /\ UNCHANGED <<unique, columns, names, item, pc>>

Differ ==
    /\ pc = "search" /\ Searching
    /\ new_name # names[loop]
    /\ loop' = loop + 1
    /\ UNCHANGED <<unique, columns, names, item, new_name, number, pc>>

Settle ==
    /\ pc = "search" /\ loop > Len(names)
    /\ names' = Append(names, new_name)
    /\ pc' = "next"
    /\ UNCHANGED <<unique, columns, item, new_name, loop, number>>

\* The number has reached its limit: no names at all.
GiveUp ==
    /\ pc = "search" /\ loop <= Len(names) /\ ~Searching
    /\ names' = <<>>
    /\ pc' = "failed"
    /\ UNCHANGED <<unique, columns, item, new_name, loop, number>>

Return ==
    /\ pc = "next"
    /\ pc' = "done"
    /\ UNCHANGED <<unique, columns, names, item, new_name, loop, number>>

Search == Clash \/ Differ \/ Settle \/ GiveUp

Init ==
    /\ unique \in BOOLEAN
    /\ columns = <<>> /\ names = <<>>
    /\ item = <<>> /\ new_name = <<>>
    /\ loop = 1 /\ number = 1
    /\ pc = "next"

Next ==
    \/ \E column \in ColumnNames : TakeColumn(column)
    \/ Search
    \/ Return

\* The search runs without interruption until it is over.
Spec == Init /\ [][Next]_vars /\ WF_vars(Search)

-----------------------------------------------------------------------------
(* Properties *)

\* No two fields have the same name when names are to be unique: MATLAB keeps one
\* field per name, so one column would be lost.
Distinct ==
    unique => \A j, k \in DOMAIN names : names[j] = names[k] => j = k

Valid(name) == name # <<>> /\ name[1] \in Letters

\* Every name begins with a letter, also after it was cut to make room for a number.
AllValid == \A k \in DOMAIN names : Valid(names[k])

\* A column whose name is fine and not taken gives the field its name unchanged,
\* whatever numbered names there are before it.
GoodNamesStay ==
    \A k \in DOMAIN names :
        LET c == columns[k]
        IN  /\ c \in Name /\ Valid(c) /\ Len(c) <= namelengthmax
            /\ \A j \in 1 .. k - 1 : names[j] # c
            => names[k] = c

\* The search that starts over and over comes to an end.
SearchEnds == pc = "search" ~> pc # "search"
=============================================================================
