----------------------------- MODULE QueryResult -----------------------------
(***************************************************************************)
(* What the answer to a query promises: a table with the rows SQLite       *)
(* delivered, in their order, each value as the MATLAB item it stands for, *)
(* or no table at all.                                                     *)
(***************************************************************************)
EXTENDS Integers, Sequences

CONSTANTS
    Value,          \* what SQLite delivers
    Stands(_, _)    \* Stands(item, value): the item may be returned for the value

VARIABLES
    rows,           \* the rows delivered: [1 .. columns -> Value]
    columns,
    phase,          \* "fetching", "returned" or "failed"
    table           \* the items returned, by row and column

queryVars == <<rows, columns, phase, table>>

NoTable == <<>>

Start ==
    /\ phase # "fetching"
    /\ columns' \in Nat
    /\ rows' = <<>>
    /\ phase' = "fetching"
    /\ table' = NoTable

\* The row is the last of rows', so that it need not be searched for.
Deliver ==
    /\ phase = "fetching"
    /\ rows' # <<>>
    /\ rows'[Len(rows')] \in [1 .. columns -> Value]
    /\ rows' = Append(rows, rows'[Len(rows')])
    /\ UNCHANGED <<columns, phase, table>>

Refuse ==
    /\ phase = "fetching"
    /\ phase' = "failed"
    /\ UNCHANGED <<rows, columns, table>>

Return ==
    /\ phase = "fetching"
    /\ phase' = "returned"
    /\ DOMAIN table' = 1 .. Len(rows)
    /\ \A r \in 1 .. Len(rows) :
          /\ DOMAIN table'[r] = 1 .. columns
          /\ \A c \in 1 .. columns : Stands(table'[r][c], rows[r][c])
    /\ UNCHANGED <<rows, columns>>

QueryNext == Start \/ Deliver \/ Refuse \/ Return

QueryInit == rows = <<>> /\ columns = 0 /\ phase = "failed" /\ table = NoTable

QuerySpec == QueryInit /\ [][QueryNext]_queryVars
=============================================================================
