----------------------------- MODULE Aggregates -----------------------------
(***************************************************************************)
(* The data of MATLAB aggregates (MexFunctors::m_group_data).              *)
(*                                                                         *)
(* For each aggregate expression of a statement SQLite calls the step      *)
(* function once per row and the final function once per group.  What the  *)
(* step function returns is handed to the next one.  The code keeps it in  *)
(* the functor: one place for all expressions, statements and nested       *)
(* statements that use the aggregate.                                      *)
(*                                                                         *)
(* One connection is modelled; its functors live as long as it is not      *)
(* closed (see SqlFunctions).  Rows are numbered as they come, and a step  *)
(* function returns its data with the row appended, so data shows which    *)
(* rows went into it.                                                      *)
(***************************************************************************)
EXTENDS Integers, Sequences

CONSTANTS
    AggregateNames,
    MaxDepth,       \* bound: nested statements
    MaxUses,        \* bound: aggregate expressions of a statement
    MaxRows         \* bound: rows stepped over, all statements together

ASSUME BoundsAssumption == MaxDepth \in Nat /\ MaxUses \in Nat /\ MaxRows \in Nat

Levels == 1 .. MaxDepth
Uses == 1 .. MaxUses
Rows == Seq(Nat)

VARIABLES
    m_group_data,   \* per aggregate, the data in its functor
    depth,          \* the statements that run; all but the last wait for a function
    uses,           \* per statement, the aggregate each of its expressions calls
    acc,            \* per statement and expression: the rows of its current group
    undisturbed,    \* per expression: nobody else has touched its data so far
    done,           \* per statement, how many expressions of the group are final
    failed,         \* per statement: a function reported an error
    call,           \* per statement, the function in progress
    rows,           \* the rows stepped over so far
    abandoned       \* the rows of groups that were never finished

statementVars == <<depth, uses, acc, undisturbed, done, failed, call>>
vars == <<m_group_data, statementVars, rows, abandoned>>

\* data: the copy of m_group_data that is handed to the function.
Call == [func : {"STEP", "FINAL"}, use : Uses, data : Rows, row : Nat]
NoCall == [func |-> "none", use |-> 0, data |-> <<>>, row |-> 0]

AggregatesTypeOK ==
    /\ m_group_data \in [AggregateNames -> Rows]
    /\ depth \in 0 .. MaxDepth
    /\ uses \in [Levels -> Seq(AggregateNames)]
    /\ \A n \in Levels : Len(uses[n]) <= MaxUses
    /\ acc \in [Levels -> [Uses -> Rows]]
    /\ undisturbed \in [Levels -> [Uses -> BOOLEAN]]
    /\ done \in [Levels -> 0 .. MaxUses]
    /\ failed \in [Levels -> BOOLEAN]
    /\ call \in [Levels -> Call \union {NoCall}]
    /\ rows \in 0 .. MaxRows
    /\ abandoned \subseteq Nat

UsesOf(n) == 1 .. Len(uses[n])
Aggregate(n) == uses[n][call[n].use]
RowsIn(s) == {s[k] : k \in 1 .. Len(s)}

\* MATLAB is in control: at the prompt, or in a function.
Callable == depth # 0 => call[depth] # NoCall

\* SQLite is, in the innermost statement.
Stepping == depth > 0 /\ call[depth] = NoCall

\* m_busy of the functor: the only call that can be in progress is of a statement
\* that waits for it.
m_busy(a) == \E n \in 1 .. depth : call[n] # NoCall /\ Aggregate(n) = a

\* Expression u of statement n has called a: it is no news to itself only.
Disturbed(a, n, u) ==
    [m \in Levels |-> [v \in Uses |->
        undisturbed[m][v] /\ ~(v \in UsesOf(m) /\ uses[m][v] = a /\ ~(m = n /\ v = u))]]

-----------------------------------------------------------------------------
\* Compiling a statement does not look at the functors.
QueryStart(expressions) ==
    /\ Callable /\ depth < MaxDepth
    /\ depth' = depth + 1
    /\ uses' = [uses EXCEPT ![depth'] = expressions]
    /\ acc' = [acc EXCEPT ![depth'] = [u \in Uses |-> <<>>]]
    /\ undisturbed' = [undisturbed EXCEPT ![depth'] = [u \in Uses |->
            u \in 1 .. Len(expressions) /\ m_group_data[expressions[u]] = <<>>]]
    /\ done' = [done EXCEPT ![depth'] = 0]
    /\ failed' = [failed EXCEPT ![depth'] = FALSE]
    /\ call' = [call EXCEPT ![depth'] = NoCall]
    /\ UNCHANGED <<m_group_data, rows, abandoned>>

\* SQLite steps the expressions row by row; a FILTER may leave some of them out.
CanStep(u) ==
    /\ Stepping /\ ~failed[depth]
    /\ u \in UsesOf(depth) /\ done[depth] = 0

CallStep(u) ==
    /\ CanStep(u)
    /\ ~m_busy(uses[depth][u])
    /\ rows < MaxRows
    /\ rows' = rows + 1
    /\ call' = [call EXCEPT ![depth] =
            [func |-> "STEP", use |-> u, data |-> m_group_data[uses[depth][u]],
             row |-> rows']]
    /\ undisturbed' = Disturbed(uses[depth][u], depth, u)
    /\ UNCHANGED <<m_group_data, depth, uses, acc, done, failed, abandoned>>

\* "recursive call"; SQLite gives the statement up.
StepRecursive(u) ==
    /\ CanStep(u)
    /\ m_busy(uses[depth][u])
    /\ failed' = [failed EXCEPT ![depth] = TRUE]
    /\ UNCHANGED <<m_group_data, depth, uses, acc, undisturbed, done, call, rows, abandoned>>

\* Mutant of DataAfterStep: [] replaces the data like anything else.
DataAfterStepAlways(n, result) ==
    [m_group_data EXCEPT ![Aggregate(n)] =
        IF result = "data" THEN Append(call[n].data, call[n].row) ELSE <<>>]

\* What a step function returns replaces the data, unless it returned [].
DataAfterStep(n, result) ==
    IF result = "data"
    THEN [m_group_data EXCEPT ![Aggregate(n)] = Append(call[n].data, call[n].row)]
    ELSE m_group_data

\* result: new data, nothing ([]), or an exception, which leaves the data alone.
StepReturn(result) ==
    /\ depth > 0 /\ call[depth].func = "STEP"
    /\ m_group_data' = DataAfterStep(depth, result)
    /\ acc' = IF result = "data"
              THEN [acc EXCEPT ![depth][call[depth].use] = Append(@, call[depth].row)]
              ELSE acc
    /\ failed' = [failed EXCEPT ![depth] = result = "exception"]
    /\ call' = [call EXCEPT ![depth] = NoCall]
    /\ UNCHANGED <<depth, uses, undisturbed, done, rows, abandoned>>

\* At the end of a group SQLite finalizes the expressions in order; a group without
\* rows is finalized too.
CanFinalize ==
    /\ Stepping /\ ~failed[depth]
    /\ done[depth] < Len(uses[depth])

NextFinal == done[depth] + 1

CallFinal ==
    /\ CanFinalize
    /\ ~m_busy(uses[depth][NextFinal])
    /\ call' = [call EXCEPT ![depth] =
            [func |-> "FINAL", use |-> NextFinal,
             data |-> m_group_data[uses[depth][NextFinal]], row |-> 0]]
    /\ undisturbed' = Disturbed(uses[depth][NextFinal], depth, NextFinal)
    /\ UNCHANGED <<m_group_data, depth, uses, acc, done, failed, rows, abandoned>>

\* Mutant of initGroupData: the old data are freed and no new ones made.
freeGroupData(a) == m_group_data' = [b \in AggregateNames \ {a} |-> m_group_data[b]]

initGroupData(a) == m_group_data' = [m_group_data EXCEPT ![a] = <<>>]

\* A refused call of the final function initializes the data as well, whoever is
\* at work on them.
FinalRecursive ==
    /\ CanFinalize
    /\ m_busy(uses[depth][NextFinal])
    /\ initGroupData(uses[depth][NextFinal])
    /\ undisturbed' = Disturbed(uses[depth][NextFinal], 0, 0)
    /\ failed' = [failed EXCEPT ![depth] = TRUE]
    /\ UNCHANGED <<depth, uses, acc, done, call, rows, abandoned>>

\* The last final function of a group ends it: the next one starts from what is there.
EndOfGroup ==
    IF NextFinal = Len(uses[depth])
    THEN /\ done' = [done EXCEPT ![depth] = 0]
         /\ undisturbed' = [undisturbed EXCEPT ![depth] = [u \in Uses |->
                u \in UsesOf(depth) /\ m_group_data'[uses[depth][u]] = <<>>]]
    ELSE /\ done' = [done EXCEPT ![depth] = NextFinal]
         /\ UNCHANGED undisturbed

\* Mutant of FinalReturn: the data are initialized when all went well.
FinalReturnOnSuccess(result) ==
    /\ depth > 0 /\ call[depth].func = "FINAL"
    /\ IF result = "value" THEN initGroupData(Aggregate(depth)) ELSE UNCHANGED m_group_data
    /\ acc' = [acc EXCEPT ![depth][call[depth].use] = <<>>]
    /\ EndOfGroup
    /\ failed' = [failed EXCEPT ![depth] = result # "value"]
    /\ call' = [call EXCEPT ![depth] = NoCall]
    /\ UNCHANGED <<depth, uses, rows, abandoned>>

\* A value, or an exception or a value that SQLite cannot take: the data are
\* initialized in any case.
FinalReturn(result) ==
    /\ depth > 0 /\ call[depth].func = "FINAL"
    /\ initGroupData(Aggregate(depth))
    /\ acc' = [acc EXCEPT ![depth][call[depth].use] = <<>>]
    /\ EndOfGroup
    /\ failed' = [failed EXCEPT ![depth] = result # "value"]
    /\ call' = [call EXCEPT ![depth] = NoCall]
    /\ UNCHANGED <<depth, uses, rows, abandoned>>

\* A statement ends when its rows do, when a function failed, or at any time for
\* reasons of its own.  SQLite never calls the final function of a group it gives up:
\* the code does not use sqlite3_aggregate_context, which would make it.
QueryEnd ==
    /\ Stepping
    /\ abandoned' = abandoned \union UNION {RowsIn(acc[depth][u]) : u \in Uses}
    /\ depth' = depth - 1
    /\ UNCHANGED <<m_group_data, uses, acc, undisturbed, done, failed, call, rows>>

\* 'create aggregation' for a known name: a new functor with new data.  SQLite refuses
\* while a statement runs, and the old functor stays.
attachMexFunction(a) ==
    /\ depth = 0
    /\ initGroupData(a)
    /\ UNCHANGED <<statementVars, rows, abandoned>>

-----------------------------------------------------------------------------
Init ==
    /\ m_group_data = [a \in AggregateNames |-> <<>>]
    /\ depth = 0
    /\ uses = [n \in Levels |-> <<>>]
    /\ acc = [n \in Levels |-> [u \in Uses |-> <<>>]]
    /\ undisturbed = [n \in Levels |-> [u \in Uses |-> FALSE]]
    /\ done = [n \in Levels |-> 0]
    /\ failed = [n \in Levels |-> FALSE]
    /\ call = [n \in Levels |-> NoCall]
    /\ rows = 0
    /\ abandoned = {}

Next ==
    \/ \E n \in Uses : \E expressions \in [1 .. n -> AggregateNames] : QueryStart(expressions)
    \/ \E u \in Uses : CallStep(u) \/ StepRecursive(u)
    \/ \E result \in {"data", "nothing", "exception"} : StepReturn(result)
    \/ CallFinal
    \/ FinalRecursive
    \/ \E result \in {"value", "error"} : FinalReturn(result)
    \/ QueryEnd
    \/ \E a \in AggregateNames : attachMexFunction(a)

Spec == Init /\ [][Next]_vars

-----------------------------------------------------------------------------
(* Properties *)

\* An expression whose aggregate nobody else calls in the meantime, and which found
\* no data left behind, folds exactly the rows of its group, in order: what its step
\* and final functions are given is what its steps made of these rows, whatever the
\* statements do that these functions and others run.
UndisturbedFoldsItsRows ==
    \A n \in 1 .. depth :
        call[n] # NoCall /\ undisturbed[n][call[n].use] =>
            call[n].data = acc[n][call[n].use]

\* The rows of a group that has its result never show up again: data hold rows of
\* groups that are being stepped over and of statements that were given up, and of
\* no others.
NoGroupOutlivesItsResult ==
    \A a \in AggregateNames : \A x \in RowsIn(m_group_data[a]) :
        x \in abandoned \/ \E n \in 1 .. depth, u \in Uses : x \in RowsIn(acc[n][u])

-----------------------------------------------------------------------------
(* What the repository says and the code does not do *)

\* Whatever a group's final function is given was made of that group's rows.
FoldsItsRows ==
    \A n \in 1 .. depth :
        call[n].func = "FINAL" => call[n].data = acc[n][call[n].use]
=============================================================================
