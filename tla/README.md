# mksqlite, specified

TLA+ models of mksqlite, the MATLAB interface to SQLite (`mksqlite.cpp` and the
headers beside it), their model-checking configurations, and proofs about them.

## The system

MATLAB calls one entry point, `mexFunction`, with an optional database id (1 to
`COUNT_DB`, 0 for "the next free one"), a command and its arguments. There are no
threads. What makes the program hard all the same is reentrancy: a SQL statement
may call MATLAB functions, and these may call `mksqlite` again, on the same
database or on another one, while the statement is still being stepped. All state
that matters is global and outlives a call.

| component | state | operations | correct when |
|---|---|---|---|
| slots (`SQLstack`, `SQLstackitem`) | `m_db[COUNT_DB]`, the current slot `m_dbid` | open, close, close all, least free slot, unloading | a command acts on the slot it names; a running statement keeps its connection; id 0 disturbs no open database |
| dispatch (`Mksqlite`) | per call: id, command, error | read id and command, switch slot, run one command | every command ends, refused or not, in a state the next one can start from |
| MATLAB functions in SQL (`MexFunctors`, `mexFcnWrapper`) | functors per slot (`m_fcnmap`), their addresses inside SQLite, `m_busy`, a parked exception per slot; the data of each aggregate's current group (`m_group_data`) | create function/aggregation, call, return, exception; step, final | map and SQLite agree; no function is used after it is freed; no recursion; an exception reaches the caller whose function raised it; an aggregate folds the rows of its group |
| SQL statements | `m_stmt`, bindings, collected columns, row ids | prepare, bind, step, fetch, finalize, parameter wrapping | every argument is bound once, in order; results are complete or absent |
| global flags | `g_*` (streaming, typedBLOBs, result_type, wrapping, compression ...) | one command each, `status` | the flags that need each other stay consistent |
| field names (`getColNames`) | the names given so far | truncate, clean, number | valid, short enough, distinct |
| result creators, columns (`ValueSQLCol`) | per column doubles, or values of any type | append, change of storage; three layouts | every value arrives at its row and column; an array of numbers holds numbers |
| typed BLOBs (`blob_pack`, `blob_unpack`) | a header and payload per value, in the database | serialize, pack, unpack | what is read is what was written, whatever the settings are by then |
| number compressor | offset, scale and codes, in the payload | FLOAT, QLIN16, QLOG16, blosc | as close as the compressor promises; zeros, infinities and NaN come back |
| values (`ValueMex`, `ValueSQL`) | one item or SQL value each | conversions, ownership | a conversion keeps what the type can hold |
| built-in SQL functions | none | pow, regex, md5, bdcratio ... | pure computations: they leave their arguments alone |
| heap check, messages, logging, `sql.m` | - | - | outside the program's control logic |
| SQLite, deelx, md5, blosc | - | - | vendored; only SQLite's answers are modelled |

Interactions: `Mksqlite` makes a `SQLiface` for the *current* slot and keeps it for
the call; SQLite calls back into `mexFcnWrapper`, which calls MATLAB, which calls
`mexFunction`; `closeDb` is reached from `open`, `close`, `clear` and from inside
callbacks; `mexFunction` ends by throwing the exception of the slot that is current
by then.

## Modules

### `Connections` - what is promised

A table of usable connections and a stack of running statements. A statement runs
on a usable connection; statements end innermost first; a connection under a
running statement is neither taken away nor replaced.

### `DbSlots` - slots and commands

`m_db` maps a slot to a handle: `NULL`, `Sick` (what `sqlite3_open_v2` leaves behind
when it fails: not NULL, good for nothing but closing), or an open connection with
the two settings commands can change (busy timeout, extension loading). `calls` is
the C stack seen from `mexFunction`: one entry per call that is inside a running
statement, innermost last, and whether that statement is inside a MATLAB function
just now. Only then, or at the prompt, can the next call come (`Callable`). All
commands but a SQL statement run without giving up control, so each is one step: its
guard is the chain of early returns, one disjunct per way it ends (`OpenNoFreeSlot`,
`OpenNoArgument`, `OpenBusySlot`, `OpenSlot`, ...). A statement is `QueryStart`, any
number of `CallbackEnter`/`CallbackLeave`, and `QueryEnd`.

| action | code |
|---|---|
| `InvalidDbHandle` | `argTryReadValidDbid` |
| `cmdHandleOpen`, `cmdHandleClose`, `closeAllDbs` | the same names, with `switchDBSlot` before them |
| `cmdHandleSQLStatement`, `QueryEnd` | `cmdHandleSQLStatement` up to and from the stepping |
| `cmdTryHandleFilename` | 'filename', which switches by itself |
| `cmdTryHandleSetBusyTimeout`, `cmdTryHandleEnableExtension`, `AttachFunctor` | commands that do not switch and act on the current slot |
| `mex_module_deinit` | `clear mksqlite` |

`reply` records how the last finished command ended; no action reads it. `crashed`
is set where the code dereferences a pointer that is NULL (`cmdHandleOpen` on a busy
slot) or indexes slot -1 (`filename` with id 0 and no free slot): nothing is said of
what follows.

### `SqlFunctions` - MATLAB functions in SQL

Extends `DbSlots`: each of its actions is an action of `DbSlots` together with what
happens to the functors. Three parties know a functor: `m_fcnmap` (owns it),
`registered` (SQLite holds its address) and a running statement (`frames[i].fcns`,
the functions it was compiled with). `Freed` is `closeDb`: the map is emptied in any
case, the registrations only if SQLite closes. `corrupt` is set when a functor that
has been freed is used (`CallFreed`, `ReturnToFreed`); nothing is said of what
follows. `m_exception` tells, per slot, whether an exception is parked there and
whether the statement that raised it is the one about to fail (`pending`) or is long
over (`stale`); `throwOnException` is what `mexFunction` does last.

The step and the final function of an aggregate are created, busy and freed together
and are one function here; what they keep between calls is the subject of
`Aggregates`.

### `Aggregates` - the data of a group

Of one connection, whose functors live (see above). `m_group_data` is the one place a
functor has for the data its step function returned last. The stack of statements is
`uses` (the aggregate each expression calls), `done` (how many expressions of the
group have had their final call) and `call` (the function in progress, with the copy
of the data it was handed). Rows are numbered as they come and a step function
appends its row, so data show which rows went into them; `acc` is what each
expression's steps made of its own rows, kept apart as the code does not. Two more
variables are there for the properties only: `undisturbed` tells of an expression
that nobody else has called its aggregate since it started from empty data,
`abandoned` which rows were in groups that never got their final call.

| action | code |
|---|---|
| `CallStep`, `StepReturn` | `mexFcnWrapper_STEP`: data handed out, and replaced by what came back unless that is `[]` or an exception |
| `CallFinal`, `FinalReturn` | `mexFcnWrapper_FINAL`, with `initGroupData` whatever the outcome |
| `StepRecursive`, `FinalRecursive` | the refusal of a busy function; the second one initializes the data all the same |
| `attachMexFunction` | a new functor, with new data |
| `QueryStart`, `QueryEnd` | external: SQLite steps row by row and finalizes a group's expressions in order; for a statement given up it never calls the final function, because the code does not use `sqlite3_aggregate_context` |

### `Settings` - the global settings

One variable per global (`typed_blobs_mode`, `g_streaming`, `g_result_type`, ...), one
action per command, named as in the code; the settings that are only on or off share
`cmdTryHandleFlag`, as they do in the code. `answer` is what the command put into
`plhs[0]`: the setting before it. `TypedBlobsAfter`, `StreamingAfter` and
`CompressionAfter` say what is stored for what is asked. `have_serialize` depends on
the MATLAB version and never changes. The current compressor and its level are one
pair, as they are assigned together, and `SettingsTypeOK` holds them to each other: a
quantizer has no level but on and off. `Refused` is all that a refused command does.

### `Batch` and `Statement` - a statement with arguments

`Batch` is the promise: the arguments are a plan, one tuple of values per execution;
executions are made in that order, success means all of them, and what is made stays
made. `Statement` extends `Settings` and follows `cmdHandleSQLStatement`:

| action | code |
|---|---|
| `Prepare` | the layout of the arguments: list, cell, struct array; the table in the comment; wrapping; all refusals before the first execution |
| `Bind`, `BindFails` | one round of the binding loop, with `createValueSQLFromItem` and `bindParameter` |
| `StepRow`, `StepDone`, `StepFails` | `fetch` and the row id after it |
| `Callback` | a function called by the statement gives a setting command |
| `Finalize` | the label `finalize` and the return |

A value is known by where it comes from, so the plan and the bindings can be compared
one by one. A struct array has its fields for all elements, but single ones may never
have been set (`unset`); `GetField` returns an empty item for those, which is bound as
NULL, and nothing only where there is no such field. `PlanOf` is written from the help text, without the code's pointer and
counters; `BatchSpec` maps `Statement` to `Batch` with it. SQLite may fail at any
step. A callback can change the settings between two executions, and only some of
them have been read by then.

### `FieldNames` - the names of the fields

`getColNames` with its inner loop as a state machine: `TakeColumn` truncates and cleans
(`Cleaned`), and each turn of the loop is `Clash` (number the name, start over) or
`Differ`; the search ends in `Settle` or `GiveUp`. Names are sequences of characters
here, because truncation and the suffix are what the properties are about.

### `Numbers`, `NumberCompressor`, `Texts`, `StoredValues` - an item on its way through a SQL value

`StoredValues` extends `Settings` with one cell of a table. `BindItem` is the item's
way in: `Complexity` chooses NULL, a number, a text, or a BLOB; `blob_pack` serializes,
compresses if the setting asks for it and the result is smaller, and writes the header.
`Fetched` and `createItemFromValueSQL` are the way out (`Read`); they are functions of
the cell and of the settings at that time, so the properties ask them of every state,
under every setting: settings change between writing and reading like between any two
commands. `BindMeasured` is a statement that also
passes the value to one of the `bdc` functions, whose `blob_unpack` writes to the header
of the BLOB it reads.

`Texts` has the conversions of texts, byte by byte: `latin2utf` when a text is bound and
`utf2latin` when one is fetched, each if 'convertUTF8' is on at that moment, and the NUL
at which either stops. `utf2latin` puts any byte from 128 on together with the next one,
which undoes `latin2utf` and makes something else of any other text; when that byte is
the last one it runs past the end (`Beyond`). Characters are those of Latin-1, as the
code has it: what `mxArrayToString` does to others depends on the platform.

`NumberCompressor` has FLOAT and both quantizers, with the choice of offset and scale,
the levels whose lowest bits are cleared, the codes for zeros, infinities and NaN, and
the roundings. Numbers are whole numbers and floats have few bits (`Numbers`), which
keeps what the code is about: values that are no floats, levels that are no values, and
arrays in which all values are equal. They are counted in a unit so small that the step
between two levels is a whole number as well, so the doubles in `Items` and the
logarithms in `Log` are multiples of `Top`; logarithms are a table that preserves order
and need not be those of any base. blosc is lossless and taken as a copy that is smaller
or is not.

### `QueryResult` and `ResultColumns` - the answer to a query

`QueryResult` is the promise: a table with the rows SQLite delivered, in order, each
item standing for its value; or an error and no table. `ResultColumns` is the code:

| action | code |
|---|---|
| `FetchRow` | the loop over the columns in `fetch`, `ValueSQLCol::append`, `swapToAnyType` |
| `FetchFails` | an error in the middle |
| `CreateResult` | `createResultAsArrayOfStructs`, `...AsStructOfArrays`, `...AsMatrix`, by `result_type` when the rows are all there |
| `ChangeSetting` | 'NULLasNaN' or 'result_type', also by a function between two rows |

The columns are what the code collects, the rows a record of what SQLite delivered. An
integer goes among the doubles if it survives the cast to double and back; the cast
back is undefined when the double is out of range, so both outcomes that processors
give are taken (`CastBack`). `TableOf` maps each layout to a table the way MATLAB code
indexes it.

## Runs

| run | bounds | shows |
|---|---|---|
| `slots` | 3 slots, 2 timeouts, 2 nested statements | type invariant; statements keep their connections; defined behaviour ends in two known places only; id 0 is safe; an open is all or nothing; only named slots change; the slots implement `Connections` |
| `functions` | 2 slots, 2 functions, 2 nested statements, 1 timeout | functors, registrations, busy marks and exceptions stay in step, but for a refused close |
| `settings` | all levels and modes, two flags, two compressors, one quantizer | streaming only with typed BLOBs; every compressor with a level it can have; answers restore |
| `statement` | 4 values, 2 placeholders, 1 row per execution; one field never set, or one value that is not simple | executions follow the plan; a mismatch executes nothing; answers are complete |
| `field_names` | 7 column names, 5 columns, names of 4 characters, limit 4 | names are valid, distinct, kept where good; the search ends |
| `aggregates` | 2 aggregates, 3 nested statements, 2 expressions each, 3 rows; symmetric in the aggregates | a group nobody interferes with folds its own rows; rows of a finished group never come back |
| `stored_values` | arrays of four of 4 numbers and all special values, texts of three of 7 characters, an item of every other kind; 4-bit floats and C ints, 16 levels | typed BLOBs, numbers and texts come back, whatever the settings are when written and when read |
| `result_columns` | up to 4 columns, up to 4 values, one of each kind and 3 integers | columns hold the rows; the result implements `QueryResult`; NULLs follow the setting; numeric arrays hold doubles |
| `settings_slot`, `freed_functors`, `mixed_groups`, `measured_blob` | as the run of the same module | what comments, help and tests say and the code does not keep; see below |

Why these bounds are enough: with three slots there is a slot that is named, one that
is current and different, and a third that is least free or last; slots are
otherwise alike. Two nested statements give every pair of an outer statement and an
inner command or statement, on the same slot or on another one; a third level repeats
the relation of two neighbours. Two functions suffice for one that runs while the
other is created, removed or called. The theorems below lift the results about
`DbSlots` to any number of slots, any depth and any set of timeouts. `reply` and
`thrown` are kept out of the state by a VIEW: no action reads them, and properties
about a step are evaluated on every step. (The violation runs use the full state.)

With four values and two placeholders there are two executions of two values, four of
one, remainders, too few and too many, and every case of the table in the source; a
third placeholder or a second row per execution adds no case. A field that was never set
is one of the first or of the last struct, the ends of the walk through the array.
In `FieldNames` a name
of four characters is short enough for the suffix to cut it, and the limit of 4 is
reached by equal names as 100 is; the theorems lift both. The list of column names
has pairs that become equal in each of the ways names can: as given, by cleaning, by
truncation, by a number that is a name already.

In `Aggregates` two aggregates are one that is shared and one that is not; with two
expressions a statement can use the same one twice, or both; with three statements a
nested one is itself interrupted, so that a recursive call can meet data of its
grandparent. Three rows are two for one group and one that does not belong. A level
that is not in use is kept out of the state by the VIEW.

In `StoredValues` four elements are the fewest that are ever compressed, and arrays of
four have every pair of numbers as least and greatest value, equal ones, and special
values in any number; the order of elements has no effect. A C int of 4 bits has the
ends that one of 32 bits has. The characters are the NUL and those at the ends of the
ranges that take one byte and two in UTF-8, with one that looks like the first byte of
two; three of them have every pair in a row, with something before or behind. The VIEW
leaves out settings that neither binding nor reading looks at, and all of them once the
cell is written: `TypedBlobsComeBack` and `SimpleValuesComeBack` read the cell with typed
BLOBs on, or under every setting, not under the one of the state. In `ResultColumns` the integers are one that is a double, one that
is rounded within the range and one that is rounded out of it; four values give every
order in which the type of a column can change, and every shape up to 2 by 2 and 1 by 4.
The theorems lift `Aggregates`, `StoredValues` and `ResultColumns`.

Deadlock is not checked in `DbSlots` and `SqlFunctions`, where a crash ends the program,
nor in `FieldNames`, which returns. All other modules are checked for it.

Fairness: none is assumed but in `FieldNames`. Whether a statement ends is up to SQLite
and to the user's functions; the code schedules nothing. The search for a name is a
loop that nothing interrupts: `WF_vars(Search)` says that it is executed, and
`SearchEnds` that it ends, which it does because each start from the beginning costs
a number. Which columns there are is not under fairness.

### What the repository says and the code does not do

| run | says | code |
|---|---|---|
| `settings_slot` | a setting is made on the database of its id, 1 without one | on the slot used last: with two databases open, on the one opened last |
| `freed_functors` | calls to mksqlite are allowed inside a function | a close there frees the functors the statement still uses |
| `mixed_groups` | the group data are of the step and the final function | of all expressions and statements that use the aggregate, and what an abandoned statement left |
| `measured_blob` | the BLOB is a constant argument | a function that measures it marks a stream as bytes, and that is what gets stored |

More were met that no run shows; the models have the code's behaviour, unless said
otherwise.

* Slots: an `open` that fails leaves a handle that counts as open
  (`sql_interface.hpp:468`); 'filename' with id 0 and no free slot switches to slot
  -1; reading the busy timeout overwrites it with an unset variable; an exception is
  thrown by a later call when a nested one has switched the slot.
* Statements: with wrapping on, arguments of a statement without placeholders are
  ignored, as is a struct array given to one: the help text (`mksqlite_en.m:74-76`)
  calls for an error.
* Settings: 'typedBLOBs' with 2 switches streaming on where MATLAB cannot serialize;
  'streaming' would not.
* Field names: a name that gets an X in front is one character longer than the limit.
  A comment speaks of more than 100 equal names, where the hundredth already fails.
* Texts: one that is written and read with 'convertUTF8' set differently comes back
  garbled unless it is ASCII; if it was stored as it is and ends with a character that
  is not, reading it with 'convertUTF8' goes past its end (`utils.hpp:150`). What follows
  a NUL is not stored.
* Values: a NaN is stored as NULL, and comes back as [] or NaN by 'NULLasNaN'; a `uint32` from 2^31 on wraps (`GetInt`,
  `value.hpp:688`). The greatest int64 comes back as the double 2^63 on processors whose
  cast saturates. A BLOB that cannot be read is reported as out of memory, because an
  inner `err_id` (`mksqlite.cpp:322`) hides the caller's. A comment speaks of 65529
  levels where the mask leaves 8192.
* Not in the models: callers test the code of `blob_unpack` as a Boolean though
  `MSG_NOERROR` is -1 (`locale.hpp:57`), so that the `bdc` functions answer for a
  BLOB they could not read; doubles beyond the range of floats come back as infinite
  or NaN from the compressors.

## Proofs

`DbSlotsProofs` proves, for every `COUNT_DB`, `Timeouts` and `MaxDepth`:

* `TypeCorrect`: `Spec => []TypeOK`.
* `RunningStatementsKeepTheirConnection`: `Spec => []StatementsKeepConnection`. With
  `TypeOK` it is inductive: `closeDb` keeps the handle of a slot some statement runs
  on, `openDb` is reached only when there is none, and settings change a handle
  without closing it. One lemma per action states what it may do to `m_db`.
* `CrashesAreKnownAlways`: `Spec => []CrashesAreKnown`. The current slot exists as long
  as the code has defined behaviour. That ends where id 0 finds no slot and 'filename'
  switches to it all the same, or where an 'open' meets a running statement of its slot;
  every other command checks one or cannot get there.
* `OpenZeroIsSafe`: the slot `getNextFreeId` picks is closed, and a closed slot has
  no running statement (by `StatementsKeepConnection`), so the close
  that precedes every open cannot be refused.
* `OnlyNamedSlotsChange`.
* `OpensAreAllOrNothing`: the slot was emptied before it is opened, so what an `open`
  that fails can leave there is no connection, and one that succeeds leaves none of
  the old settings.
* `SlotsImplementTable`: `Spec => TableSpec`. Each action maps to `Connect`,
  `Disconnect`, `Start`, `Finish` or a stutter, under `TypeOK` and
  `StatementsKeepConnection`.

Assumed of the constants: at least one slot, `BusyTimeout` among the timeouts, a
natural nesting depth.

`SqlFunctionsProofs` proves, for any function names too:

* `FunctionsAreSlots`: `FcnSpec => Spec`. Every step is one of `DbSlots` or changes none
  of its variables, so the theorems above hold with functions in play.
* `FunctorsTypeCorrect`, `FunctorsBelong`, `FunctionsAreNotReentered`, `PendingBelongs`:
  the type invariant and the three state invariants of the run `functions`.
* `CloseAloneDangles`, `StatementsKeepTheirFunctors`: its two action properties.

The inductive invariant `FcnInv` adds two parts to what the run checks.
`StatementsRegistered`: a function a running statement was compiled with is still
registered; without it `create function` could not be known to be refused
(`CreateIsBusy`). `BusyMarked`: a function that is being called is in `m_busy`, so the
test of `m_busy` before a call keeps a second one out, and `NoRecursion` in turn keeps
a return from clearing another call's mark. The commands that leave the stack of calls
alone are taken together (`QuietCommand`): each of them leaves the functors alone,
closes idle slots, or attaches one functor (`QuietEffect`). `PendingHasOwner` is
inductive because a statement that is to fail lets no command in
(`CallableNonePending`) and its end throws in whatever slot is current
(`ThrowClears`). Assumed besides: `NoFcn` is no function's name.

`SettingsProofs` proves the three properties of `Settings` for any flags, compressors and
quantizers. `StreamingNeedsTypedBlobs` is inductive with the type invariant, and
`AnswersRestore` needs it: mode 0 of 'typedBLOBs' could not tell streaming from no
streaming otherwise. Assumed: no flag has the name of another command, and no
compressor is a quantizer.

`FieldNamesProofs` proves the type invariant, `Distinct`, `AllValid` and `GoodNamesStay`
for any column names, any number of columns, any `namelengthmax` of at least 4 and any
limit up to 100. Lemmas say what truncating, cleaning and numbering return
(`NumberedIsValid`: the letter in front survives). The strengthening `Searched` says
what the search knows half-way: the name tried differs from the names before `loop`,
and once it is numbered, the name itself is taken; this is why a good name is not
given up for a number.

`StatementProofs` proves, for any numbers of arguments, placeholders and rows and any
settings, the type invariant, `MismatchExecutesNothing`, `AnswerIsComplete`, and
`StatementsKeepThePromise`: `StatementSpec => BatchSpec`. The code walks through the
arguments with a pointer and a count; the plan says which argument is place r of
execution q. That they agree is arithmetic of quotient and remainder (`DivOfPlace`,
`NthIsValueAt`, `PlanEntries`), and the rest is the invariant `StInv`: what was made is
the beginning of the plan (`RequestOK`), the execution at work is the next one
(`WorkOK`), pointer and counter stand where its arguments begin (`BindOK`), the
bindings are the plan's tuple when the statement is stepped (`StepOK`), the fields a
struct array must have are there (`FieldsOK`), and a success has made all executions
(`AnswerOK`).

`AggregatesProofs` proves both invariants of the run `aggregates` for any aggregates and
any bounds. `UndisturbedFoldsItsRows` speaks of data in a function's hands, so `IInv`
adds that the data in the functor are the expression's rows as well (`FoldsOK`), and
that while a function is in progress its expression is the only one undisturbed among
those of its aggregate: what it returns can only overwrite its own data. `CallsOK` has
the recursion guard in it: no two functions in progress work on the same data.
`NoGroupOutlivesItsResult` needs the data a function was handed to be of unfinished
groups too (`OwnedOK`), and an expression that had its final call to have no rows left
(`DoneOK`).

`ResultColumnsProofs` proves all five properties of `ResultColumns`, for any integers and
any rounding of them and for queries of any size. `ColumnsHoldTheRows` is inductive
with the type invariant: appending extends a column by what the value may become
(`AppendValueExtends`) and a change of storage keeps the elements (`SwapKeepsElements`).
`ResultColumnsImplementQueryResult` maps every step to one of `QueryResult` or a
stutter; in a matrix each place belongs to one row and column (`PlaceIsUnique`).
Assumed: `Double` rounds integers to integers, NaN is none of the doubles SQLite stores.

`StoredValuesProofs` proves the three properties of `StoredValues` for any items, any
size of the elements, any width of ints, any number of levels and significant bits, and
any order-preserving logarithm. It goes from texts and numbers to compressors to cells:

* Texts. `latin2utf` and `utf2latin` are recursive functions on sequences. What a
  recursive function is has to be proved before it can be used: `RecursionExists` does
  so for any recursion that looks up smaller arguments only, from solutions up to each
  size (`RecursionBegins`) that agree where they overlap (`RecursionAgrees`); then
  `latin2utfDef` and `utf2latinDef` state the equations. `RecodingIsUndone`, by induction
  on the length: `utf2latin` undoes `latin2utf`, since the two bytes of a character are put
  together to it again (`TwoBytes`). `AsciiIsNotRecoded`; `UpToNulIsAString` and
  `StringsHaveNoNul`: what C makes of a text loses nothing a second time.

* Powers and roundings. `TwoTo` is a recursive function; that it is defined everywhere
  (`PowersExist`, `PowersAgree`, `TwoToDef`), that it grows, and that some exponent fits
  every number (`ExponentExists`) need induction. The library states induction for an
  operator, which the provers cannot instantiate, so `Induction` states it for a set
  that holds 0 and the successor of each member, by way of the least natural outside it
  (`LeastNatural`, from well-foundedness). `RoundedIsNear`: a float is off by half a
  unit in the last place at most. `RoundedMonotonic`: rounding never swaps two numbers.
  Within one unit that is arithmetic of quotients; numbers with different units lie on
  either side of a power of two, which is a float itself and which neither can pass
  (`MagnitudesKeepTheirOrder`).
* Compressors. `RangeOfValues` and `LevelsOfTheRange`: the levels of a range go from 0 to
  `Top`, so none is taken for the code of a special value; `LevelMonotonic`: a greater
  value has no lower level; `CodesAreClose`: a level times the step is off by less than
  `Mask` steps, and what the two roundings add is `Tolerance`. Equal values and empty
  ranges have a step of 1 and are covered. `CompressorsKeepTheirPromise` puts them
  together: whatever `CanPack` lets through comes back as it was, or within
  `CloseTo`.
* Cells. The type invariant is inductive as `StoredInv`: `SettingsInv`, which has the
  compressor in force among the known ones, and `ValueFits` for the cell. The two
  properties of what is read (`TypedBlobsAlwaysComeBack`, `SimpleValuesAlwaysComeBack`)
  are inductive with it. The step that matters for them is the one that writes; the
  settings that reading depends on are fixed or quantified over in the properties, and
  whether MATLAB can serialize is changed by no command (`SerializeIsFixed`).
  `TextsComeBack`, `FloatsReadBack` and `IntegersReadBack` say what is read of each kind of
  simple value. `SimpleValuesAlwaysComeBack` excepts what the code does not promise, and
  nothing else: texts that are not ASCII when 'convertUTF8' is not what it was, what
  follows a NUL, a `uint32` beyond a C int; a NaN is read as NULL is.
  `ArraysAreNotTouched`: a measurement changes serialized streams only.

Assumed of the constants: items are what MATLAB can pass (`IsItem`: a scalar has one
element, elements of integer classes are in the range of their class, `Classes` has none
of the classes that are not arrays of bytes, characters are codes up to 255);
'convertUTF8' and 'NULLasNaN' are among the flags; `Top` is a positive multiple of `Mask`, as
0xFFF8 is of 8; numbers and their logarithms are multiples of `Top`, which is the choice
of the unit; `Log` preserves order; floats have at least one bit.

Model-checked only: `SearchEnds`, as liveness under fairness is beyond the provers. What
can be proved of it is in `FieldNamesProofs`: `Left` counts the comparisons that can
still come, and `SearchesAreShort` says that it is at most `Limit` times `MaxColumns`
and that while the search goes on every step is one of the search and lowers it. The
fairness then only says that the loop is executed. No module declares a recursive
operator.

## Not modelled

* Who frees a value (`Adopt`, `Detach`, `Destroy`) and what happens when an allocation
  fails; the heap check, a debugging aid that every build configuration leaves out.
* BLOBs written on other platforms or by older versions, foreign bytes that look like
  a header, limits of size.
* The contents of SQL statements; the built-in SQL functions but for what the `bdc`
  functions do to their argument: they compute, and keep no state.
* Message tables, logging, characters beyond Latin-1, 'status', 'version' and 'show tables',
  the class `sql.m` and the help file: nothing depends on them.
* The vendored libraries (SQLite with its shell, deelx, md5, blosc). SQLite is nearly
  all of the repository's lines; it is external here, as its return codes and the
  order of its calls, and not a program to specify on the side.

## Plan

The modules were written in this order: slots, functions, settings, statements, field
names; then the proofs about statements, aggregates, stored values, result columns.
Proofs about the compressors came last; all safety properties of the passing runs are
theorems now. What could follow, in order: ownership of values, with allocation failures
in the middle of a row; BLOBs of older versions.
