-------------------------------- MODULE Batch --------------------------------
(***************************************************************************)
(* What a SQL statement with arguments promises: the arguments are a plan, *)
(* one tuple of values per execution.  The executions are made in that     *)
(* order, each at most once.  Success means that all were made; failure    *)
(* may come after any of them, and those made stay made.                   *)
(***************************************************************************)
EXTENDS Integers, Sequences

CONSTANT Plans      \* the sequences of tuples that can be asked for

VARIABLES
    plan,       \* what is being carried out
    made,       \* the executions made so far
    status      \* "running", or how the last one ended: "ok" or "failed"

vars == <<plan, made, status>>

Init == plan = <<>> /\ made = <<>> /\ status = "ok"

Begin ==
    /\ status # "running"
    /\ plan' \in Plans
    /\ made' = <<>>
    /\ status' = "running"

\* The arguments do not fit the statement: nothing is executed at all.
Refuse ==
    /\ status # "running"
    /\ plan' = <<>>
    /\ made' = <<>>
    /\ status' = "failed"

Execute ==
    /\ status = "running"
    /\ Len(made) < Len(plan)
    /\ made' = Append(made, plan[Len(made) + 1])
    /\ UNCHANGED <<plan, status>>

Succeed ==
    /\ status = "running"
    /\ made = plan
    /\ status' = "ok"
    /\ UNCHANGED <<plan, made>>

Fail ==
    /\ status = "running"
    /\ status' = "failed"
    /\ UNCHANGED <<plan, made>>

Next ==
    \/ Begin
    \/ Refuse
    \/ Execute
    \/ Succeed
    \/ Fail

Spec == Init /\ [][Next]_vars
=============================================================================
