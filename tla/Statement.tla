------------------------------ MODULE Statement ------------------------------
(***************************************************************************)
(* One SQL statement and its arguments (cmdHandleSQLStatement): how the    *)
(* arguments are laid out over the placeholders, the executions made with  *)
(* parameter wrapping, the rows collected, and what is left when one of    *)
(* them fails.                                                             *)
(*                                                                         *)
(* A value is known by where it comes from: <<k, 0>> is the k-th argument  *)
(* or element of the cell, <<e, p>> the field for placeholder p of the     *)
(* e-th struct, Whole the cell or struct array as one value.  While a      *)
(* statement is stepped, a function it calls may change the settings.      *)
(***************************************************************************)
EXTENDS Settings, Sequences

CONSTANTS
    MaxArgs,        \* bound: arguments, elements of a cell or struct array
    MaxNeeded,      \* bound: placeholders
    MaxRows         \* bound: rows of an execution

ASSUME StatementAssumption ==
    /\ MaxArgs \in Nat \ {0} /\ MaxNeeded \in Nat \ {0} /\ MaxRows \in Nat
    /\ "param_wrapping" \in Flags

Whole == <<0, 0>>
Null == <<>>

Bound == ((0 .. MaxArgs) \X (0 .. MaxNeeded)) \union {Null}

(***************************************************************************)
(* The arguments: a list (one value in it is neither a cell nor a struct), *)
(* one cell array, one struct array, or a cell with one struct array in    *)
(* it.  complex: the values that can only be stored as a byte stream;      *)
(* fields: the placeholders that have a name and a field of that name;     *)
(* unset: the fields of single structs that nothing was ever assigned to   *)
(* (bound: one of the first or of the last, and no complex value then).    *)
(***************************************************************************)
Forms == {"list", "cell", "struct", "struct in cell"}
OfStruct == {"struct", "struct in cell"}

Arguments(form, size, needed) ==
    {c \in [form : {form}, size : {size}, needed : {needed},
            complex : {{}} \union {{k} : k \in 1 .. size},
            fields : IF form \in OfStruct THEN SUBSET (1 .. needed) ELSE {{}},
            unset : {{}} \union {{field} : field \in {1, size} \X (1 .. needed)},
            streaming : {g_streaming}, wrapping : {g_flag["param_wrapping"]}] :
        /\ c.unset \subseteq (1 .. size) \X c.fields
        /\ c.unset = {} \/ c.complex = {}}

\* Before the first statement.
NoCall == [form |-> "none", size |-> 0, needed |-> 0, complex |-> {}, fields |-> {},
           unset |-> {}, streaming |-> FALSE, wrapping |-> FALSE]

VARIABLES
    pc,         \* "idle", "bind", "step", or "finalize"
    call,       \* the arguments, and the settings that lay them out
    i,          \* the execution at work
    next,       \* nextBindParam: the value to bind next
    left,       \* countBindParam: the values not bound yet
    bindings,   \* what the placeholders are bound to
    cols,       \* the rows collected, each as the number of its execution
    fetched,    \* the rows SQLite delivered in this call
    rowids,     \* the entries of last_insert_row that are set
    made,       \* what the executions of this call were made with
    err         \* m_err

callVars == <<call, i, next, left, bindings, cols, fetched, rowids, made, err>>
statementVars == <<pc, callVars>>

ArgumentErrors == {"MSG_SINGLECELLNOTALLOWED", "MSG_SINGLESTRUCTNOTALLOWED",
                   "MSG_UNEXPECTEDARG", "MSG_MISSINGARG", "MSG_MISSINGARG_CELL",
                   "MSG_MISSINGARG_STRUCT"}
Errors == ArgumentErrors \union {"none", "MSG_INVALIDARG", "SQLITE_ERROR"}

StatementTypeOK ==
    /\ SettingsTypeOK
    /\ pc \in {"idle", "bind", "step", "finalize"}
    /\ call.form \in Forms \union {"none"}
    /\ i \in 1 .. MaxArgs + 1
    /\ next \in 1 .. MaxArgs + 1
    /\ left \in 0 .. MaxArgs * MaxNeeded
    /\ bindings \in Seq(Bound)
    /\ cols \in Seq(1 .. MaxArgs)
    /\ fetched \in Seq(1 .. MaxArgs)
    /\ rowids \subseteq 1 .. MaxArgs
    /\ made \in Seq(Seq(Bound))
    /\ err \in Errors

-----------------------------------------------------------------------------
(* The layout of the arguments, decided before the first execution *)

\* A cell is opened and a struct array is taken field by field, unless streaming
\* could store it as one value.
CellOpened(c) == c.form \in {"cell", "struct in cell"} /\ ~c.streaming

haveParamStruct(c) ==
    /\ c.form = "struct" \/ (c.form = "struct in cell" /\ CellOpened(c))
    /\ c.streaming => c.wrapping /\ c.needed > 1

AsWhole(c) ==
    /\ c.form # "list"
    /\ ~haveParamStruct(c)
    /\ ~(c.form = "cell" /\ CellOpened(c))

countBindParam(c) ==
    IF haveParamStruct(c) THEN c.needed * c.size
    ELSE IF AsWhole(c) THEN 1 ELSE c.size

count(c) ==
    IF c.wrapping /\ c.needed > 0 THEN countBindParam(c) \div c.needed ELSE 1

Refusals(c) ==
    {e \in ArgumentErrors :
       \/ /\ e = "MSG_SINGLECELLNOTALLOWED"
          /\ c.form \in {"cell", "struct in cell"} /\ c.streaming
          /\ c.wrapping \/ c.needed > 1
       \/ /\ e = "MSG_SINGLESTRUCTNOTALLOWED"
          /\ c.form = "struct" /\ c.streaming
          /\ c.wrapping # (c.needed > 1)
       \/ /\ e = "MSG_UNEXPECTEDARG"
          /\ ~c.wrapping /\ countBindParam(c) > c.needed
       \/ /\ e = IF haveParamStruct(c) THEN "MSG_MISSINGARG_STRUCT"
                ELSE IF CellOpened(c) THEN "MSG_MISSINGARG_CELL" ELSE "MSG_MISSINGARG"
          /\ c.wrapping /\ c.needed > 0
          /\ countBindParam(c) % c.needed # 0 \/ count(c) = 0}

\* The check that comes first tells what is reported.
Refusal(c) ==
    CASE Refusals(c) = {} -> "none"
      [] "MSG_SINGLECELLNOTALLOWED" \in Refusals(c) -> "MSG_SINGLECELLNOTALLOWED"
      [] "MSG_SINGLESTRUCTNOTALLOWED" \in Refusals(c) -> "MSG_SINGLESTRUCTNOTALLOWED"
      [] OTHER -> CHOOSE e \in Refusals(c) : TRUE

Prepare(c) ==
    /\ pc = "idle"
    /\ call' = c
    /\ i' = 1 /\ next' = 1 /\ left' = countBindParam(c)
    /\ bindings' = <<>> /\ cols' = <<>> /\ fetched' = <<>>
    /\ rowids' = {} /\ made' = <<>>
    /\ err' = Refusal(c)
    /\ pc' = IF err' = "none" THEN "bind" ELSE "finalize"
    /\ UNCHANGED settingVars

-----------------------------------------------------------------------------
(* One execution: reset, bind, step *)

\* The field of the e-th struct; one that was never set, or of a struct that is not
\* there, is an empty item, bound as NULL.
GetField(c, e, p) ==
    IF e <= c.size /\ <<e, p>> \notin c.unset THEN <<e, p>> ELSE Null

\* The value the code picks for placeholder p.
Pick(p) ==
    IF haveParamStruct(call) THEN GetField(call, i, p)
    ELSE IF AsWhole(call) THEN Whole ELSE <<next + p - 1, 0>>

\* The placeholders that get a value, the others stay NULL.
Filled == 1 .. IF call.needed < left THEN call.needed ELSE left

\* Mutant of FieldMissing: without its workaround GetField has nothing for a field that
\* was never set, as if there were no such field.
FieldMissingOrUnset(p) ==
    haveParamStruct(call) /\ (p \notin call.fields \/ GetField(call, i, p) = Null)

\* The placeholder has no name, or the struct array no field of that name.
FieldMissing(p) == haveParamStruct(call) /\ p \notin call.fields

\* An empty cell or struct array is stored as NULL.
Empty == call.form # "struct in cell" /\ call.size = 0

\* A value that is not simple, and no byte stream to put it in.
Unstorable(p) ==
    /\ ~FieldMissing(p) /\ Pick(p) # Null
    /\ (Pick(p) = Whole /\ ~Empty) \/ Pick(p)[1] \in call.complex
    /\ ~(g_streaming /\ have_serialize /\ typed_blobs_mode)

Unfit == {p \in Filled : FieldMissing(p) \/ Unstorable(p)}

\* Mutant of Advance: the values are bound over and over.
AdvanceNot == UNCHANGED <<next, left>>

\* Mutant of Advance: as many as the statement has placeholders.
AdvanceNeeded == next' = next /\ left' = left - call.needed

\* Struct arrays are walked by element, the pointer stays.
Advance ==
    LET bound == IF call.needed < left THEN call.needed ELSE left
    IN  /\ next' = IF haveParamStruct(call) THEN next ELSE next + bound
        /\ left' = left - bound

\* Mutant of Initialize: every execution starts the columns anew.
InitializeAlways == cols' = <<>>

\* Only the first execution of a call starts the columns.
Initialize == cols' = IF i = 1 THEN <<>> ELSE cols

Bind ==
    /\ pc = "bind"
    /\ Unfit = {}
    /\ bindings' = [p \in 1 .. call.needed |-> IF p \in Filled THEN Pick(p) ELSE Null]
    /\ Advance
    /\ Initialize
    /\ pc' = "step"
    /\ UNCHANGED <<call, i, fetched, rowids, made, err, settingVars>>

\* The first placeholder that cannot be bound decides; or SQLite refuses to bind.
BindFails ==
    /\ pc = "bind"
    /\ \/ \E p \in Unfit :
             /\ \A q \in Unfit : p <= q
             /\ err' = IF FieldMissing(p) THEN "MSG_MISSINGARG_STRUCT" ELSE "MSG_INVALIDARG"
       \/ call.needed > 0 /\ Filled # {} /\ Unfit = {} /\ err' = "SQLITE_ERROR"
    /\ pc' = "finalize"
    /\ UNCHANGED <<call, i, next, left, bindings, cols, fetched, rowids, made, settingVars>>

StepRow ==
    /\ pc = "step"
    /\ Len(SelectSeq(fetched, LAMBDA n : n = i)) < MaxRows
    /\ cols' = Append(cols, i)
    /\ fetched' = Append(fetched, i)
    /\ UNCHANGED <<pc, call, i, next, left, bindings, rowids, made, err, settingVars>>

StepDone ==
    /\ pc = "step"
    /\ made' = Append(made, bindings)
    /\ rowids' = rowids \union {i}
    /\ i' = i + 1
    /\ pc' = IF i < count(call) THEN "bind" ELSE "finalize"
    /\ UNCHANGED <<call, next, left, bindings, cols, fetched, err, settingVars>>

\* What the earlier executions did to the database stays done.
StepFails ==
    /\ pc = "step"
    /\ err' = "SQLITE_ERROR"
    /\ cols' = <<>>
    /\ pc' = "finalize"
    /\ UNCHANGED <<call, i, next, left, bindings, fetched, rowids, made, settingVars>>

\* A function called by the statement gives a setting command.
Callback ==
    /\ pc = "step"
    /\ SettingCommand
    /\ UNCHANGED statementVars

\* The statement is finalized and the call returns: an error if there is one.
Finalize ==
    /\ pc = "finalize"
    /\ bindings' = <<>>
    /\ pc' = "idle"
    /\ UNCHANGED <<call, i, next, left, cols, fetched, rowids, made, err, settingVars>>

-----------------------------------------------------------------------------
StatementInit ==
    /\ SettingsInit
    /\ pc = "idle" /\ call = NoCall
    /\ i = 1 /\ next = 1 /\ left = 0
    /\ bindings = <<>> /\ cols = <<>> /\ fetched = <<>>
    /\ rowids = {} /\ made = <<>> /\ err = "none"

StatementNext ==
    \/ pc = "idle" /\ SettingCommand /\ UNCHANGED statementVars
    \/ \E form \in Forms, size \in 0 .. MaxArgs, needed \in 0 .. MaxNeeded :
          \E c \in Arguments(form, size, needed) : Prepare(c)
    \/ Bind
    \/ BindFails
    \/ StepRow
    \/ StepDone
    \/ StepFails
    \/ Callback
    \/ Finalize

StatementSpec == StatementInit /\ [][StatementNext]_<<settingVars, statementVars>>

-----------------------------------------------------------------------------
(* Properties *)

\* The values that are supplied, in the order the help text gives them; a field that was
\* never set supplies NULL.
Supplied(c) ==
    IF AsWhole(c) THEN <<Whole>>
    ELSE IF c.form \in OfStruct
         THEN [k \in 1 .. c.size * c.needed |->
                 LET field == <<((k - 1) \div c.needed) + 1, ((k - 1) % c.needed) + 1>>
                 IN  IF field \in c.unset THEN Null ELSE field]
         ELSE [k \in 1 .. c.size |-> <<k, 0>>]

\* They fill the placeholders from left to right, again and again with wrapping;
\* without it the rest of the only execution is NULL.
PlanOf(c) ==
    LET values == Supplied(c)
        Nth(k) == IF k <= Len(values) THEN values[k] ELSE Null
        times == IF c.wrapping /\ c.needed > 0 THEN Len(values) \div c.needed ELSE 1
    IN  [j \in 1 .. times |-> [p \in 1 .. c.needed |-> Nth((j - 1) * c.needed + p)]]

\* However the code walks the arguments, and whatever the functions it calls set
\* meanwhile: the executions are those of the plan, in order, and success means all
\* of them.
Promise == INSTANCE Batch WITH
    Plans <- Seq(Seq(Bound)),
    plan <- IF call = NoCall \/ Refusal(call) # "none" THEN <<>> ELSE PlanOf(call),
    status <- IF pc # "idle" /\ Refusal(call) = "none" THEN "running"
              ELSE IF err = "none" THEN "ok" ELSE "failed"
BatchSpec == Promise!Spec

\* A statement whose arguments do not fit is refused before anything is executed,
\* however late the code notices: no half of a batch is in the database then.
MismatchExecutesNothing == err \in ArgumentErrors => made = <<>>

\* What a successful call is about to answer has every row SQLite delivered for any of its
\* executions, in order, and a row id for each of them, none left unset.
AnswerIsComplete ==
    pc = "finalize" /\ err = "none" =>
        cols = fetched /\ rowids = 1 .. count(call)
=============================================================================
