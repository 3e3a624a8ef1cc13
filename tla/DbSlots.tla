------------------------------- MODULE DbSlots -------------------------------
(***************************************************************************)
(* The database slots of mksqlite and the commands that open, close,       *)
(* select, configure and query them.                                       *)
(*                                                                         *)
(* SQLstack holds COUNT_DB slots (m_db) and the number of the slot last    *)
(* switched to (m_dbid, base 0).  Every call of mexFunction executes one   *)
(* command.  A SQL statement may call MATLAB functions, and these may call *)
(* mksqlite again: `calls' is the stack of the calls of mexFunction that   *)
(* are inside a running SQL statement, the innermost last.  All other      *)
(* commands run without giving up control and are one step.                *)
(*                                                                         *)
(* `reply' keeps what the last finished command returned: its name, the id *)
(* it was given, the slot whose connection it acted on, and its result.    *)
(* `crashed' is set where the code has no defined behaviour any more.      *)
(***************************************************************************)
EXTENDS Integers, Sequences

CONSTANTS
    COUNT_DB,       \* MKSQLITE_CONFIG_MAX_NUM_OF_DBS
    BusyTimeout,    \* MKSQLITE_CONFIG_BUSYTIMEOUT, what an open sets
    Timeouts,       \* the timeouts a user asks for, BusyTimeout among them
    MaxDepth        \* bound: SQL statements nested through callbacks

ASSUME CountAssumption == COUNT_DB \in Nat \ {0}
ASSUME TimeoutAssumption == BusyTimeout \in Timeouts
ASSUME DepthAssumption == MaxDepth \in Nat

Slots == 0 .. COUNT_DB - 1
NoSlot == -1
Missing == -1                       \* m_dbid_req when no id is given
Requests == Missing .. COUNT_DB + 1   \* 0, the valid ids, and one too large

(***************************************************************************)
(* What SQLstackitem.m_db stands for.  NULL is a closed slot.  A sick      *)
(* handle is what sqlite3_open_v2 leaves in m_db when it fails: not NULL,  *)
(* good for sqlite3_close only.                                            *)
(***************************************************************************)
NULL == [state |-> "NULL"]
Sick == [state |-> "sick"]
Opened == [state : {"open"}, timeout : Timeouts, extension : BOOLEAN]
Fresh == [state |-> "open", timeout |-> BusyTimeout, extension |-> FALSE]
Handles == {NULL, Sick} \union Opened

FunctorCommands == {"create function", "create aggregation"}
Settings == {"setbusytimeout", "getbusytimeout", "enable extension"} \union FunctorCommands
Commands == {"open", "close", "query", "filename"} \union Settings
Results == {"ok", "crash", "MSG_INVALIDDBHANDLE", "MSG_NOFREESLOT", "MSG_NOOPENARG",
            "MSG_ERRUNKOPENMODE", "MSG_INVALIDARG", "MSG_DBNOTOPEN",
            "MSG_ERRNULLDBID", "MSG_FCNHARGEXPCT", "SQLITE_CANTOPEN", "SQLITE_BUSY",
            "SQLITE_MISUSE", "SQLITE_ERROR"}

VARIABLES m_db, m_dbid, calls, reply, crashed

vars == <<m_db, m_dbid, calls, reply, crashed>>

Call == [slot : Slots, callback : BOOLEAN]

TypeOK ==
    /\ m_db \in [Slots -> Handles]
    /\ m_dbid \in Slots \union {NoSlot}
    /\ calls \in Seq(Call)
    /\ Len(calls) <= MaxDepth
    /\ reply \in [cmd : Commands \union {"none"}, req : Requests,
                  slot : Slots \union {NoSlot}, res : Results]
    /\ crashed \in BOOLEAN

-----------------------------------------------------------------------------
(* SQLstack and SQLstackitem *)

\* Mutant of isValidId: the upper bound is let through.
isValidIdInclusive(id) == id \in 0 .. COUNT_DB

isValidId(id) == id \in Slots

isOpen(s) == m_db[s] # NULL

\* Mutant of getNextFreeId: the last slot instead of "none".
getNextFreeIdOrLast ==
    IF \E s \in Slots : ~isOpen(s)
    THEN CHOOSE s \in Slots : ~isOpen(s) /\ \A t \in Slots : ~isOpen(t) => s <= t
    ELSE COUNT_DB - 1

\* The least closed slot, -1 when every slot is open.
getNextFreeId ==
    IF \E s \in Slots : ~isOpen(s)
    THEN CHOOSE s \in Slots : /\ ~isOpen(s)
                              /\ \A t \in Slots : ~isOpen(t) => s <= t
    ELSE NoSlot

\* A connection has an unfinalized statement: sqlite3_close refuses.
connectionIsBusy(s) == \E i \in DOMAIN calls : calls[i].slot = s

\* Mutant of closeDb: forgets the handle whatever sqlite3_close says.
closeDbUnchecked(s) == NULL

\* m_db of slot s after closeDb.
closeDb(s) == IF connectionIsBusy(s) THEN m_db[s] ELSE NULL

\* m_db of a closed slot after openDb.
openDb(rc) == IF rc = "SQLITE_OK" THEN Fresh ELSE Sick

-----------------------------------------------------------------------------
(* One call of mexFunction *)

\* MATLAB is at its prompt, or inside a function the innermost statement called.
Callable ==
    /\ ~crashed
    /\ calls # <<>> => calls[Len(calls)].callback

Return(cmd, req, slot, res) ==
    reply' = [cmd |-> cmd, req |-> req, slot |-> slot, res |-> res]

\* argTryReadValidDbid accepts the id.
ValidRequest(req) == isValidId(req - 1) \/ req = 0 \/ req = Missing

\* m_dbid (base 1) as argTryReadValidDbid leaves it, 0: no free slot.
dbid(req) ==
    IF req = 0 THEN getNextFreeId + 1
    ELSE IF req = Missing THEN 1 ELSE req

\* An id out of range: the command is not even read.
InvalidDbHandle(cmd, req) ==
    /\ Callable /\ ~ValidRequest(req)
    /\ Return(cmd, req, NoSlot, "MSG_INVALIDDBHANDLE")
    /\ UNCHANGED <<m_db, m_dbid, calls, crashed>>

(***************************************************************************)
(* 'open': arg tells whether there is a file name and whether the open     *)
(* mode after it is known, rc what sqlite3_open_v2 returns.  The slot is   *)
(* closed before the mode is looked at.  When that close fails, the code   *)
(* asks an SQLiface that does not exist yet for the message.               *)
(***************************************************************************)
OpenArgs == {"none", "badmode", "file"}
OpenCodes == {"SQLITE_OK", "SQLITE_CANTOPEN"}

\* Mutant of OpenedAs: the refused mode does not keep openDb from being called.
OpenedAsAnyway(arg, rc) == openDb(rc)

\* m_db of a closed slot after 'open'.
OpenedAs(arg, rc) == IF arg = "badmode" THEN NULL ELSE openDb(rc)

OpenResult(arg, rc) ==
    IF arg = "badmode" THEN "MSG_ERRUNKOPENMODE"
    ELSE IF rc = "SQLITE_OK" THEN "ok" ELSE rc

OpenNoFreeSlot(req) ==
    /\ dbid(req) = 0
    /\ Return("open", req, NoSlot, "MSG_NOFREESLOT")
    /\ UNCHANGED <<m_db, m_dbid, calls, crashed>>

\* Mutant of OpenNoArgument: switches to the slot before it is known that there is one.
OpenNoArgumentFirst(req, arg) ==
    /\ arg = "none"
    /\ m_dbid' = dbid(req) - 1
    /\ Return("open", req, m_dbid', "MSG_NOOPENARG")
    /\ UNCHANGED <<m_db, calls, crashed>>

OpenNoArgument(req, arg) ==
    /\ dbid(req) # 0
    /\ arg = "none"
    /\ m_dbid' = dbid(req) - 1
    /\ Return("open", req, m_dbid', "MSG_NOOPENARG")
    /\ UNCHANGED <<m_db, calls, crashed>>

OpenBusySlot(req, arg) ==
    /\ dbid(req) # 0
    /\ arg # "none"
    /\ connectionIsBusy(dbid(req) - 1)
    /\ m_dbid' = dbid(req) - 1
    /\ Return("open", req, m_dbid', "crash")
    /\ crashed' = TRUE
    /\ UNCHANGED <<m_db, calls>>

OpenSlot(req, arg, rc) ==
    /\ dbid(req) # 0
    /\ arg # "none"
    /\ ~connectionIsBusy(dbid(req) - 1)
    /\ m_dbid' = dbid(req) - 1
    /\ m_db' = [m_db EXCEPT ![m_dbid'] = OpenedAs(arg, rc)]
    /\ Return("open", req, m_dbid', OpenResult(arg, rc))
    /\ UNCHANGED <<calls, crashed>>

cmdHandleOpen(req, arg, rc) ==
    /\ Callable /\ ValidRequest(req)
    /\ \/ OpenNoFreeSlot(req)
       \/ OpenNoArgument(req, arg)
       \/ OpenBusySlot(req, arg)
       \/ OpenSlot(req, arg, rc)

(***************************************************************************)
(* 'close': id 0 switches to slot 0, closes every slot it can and reports  *)
(* nothing.                                                                *)
(***************************************************************************)
\* Mutant of CloseTarget: without an id, the slot used last.
CloseTargetCurrent(req) ==
    IF req = 0 THEN 0 ELSE IF req = Missing THEN m_dbid ELSE dbid(req) - 1

CloseTarget(req) == IF req = 0 THEN 0 ELSE dbid(req) - 1

CloseWithArgument(req) ==
    /\ m_dbid' = CloseTarget(req)
    /\ Return("close", req, m_dbid', "MSG_INVALIDARG")
    /\ UNCHANGED <<m_db, calls, crashed>>

closeAllDbs(req) ==
    /\ req = 0
    /\ m_dbid' = CloseTarget(req)
    /\ m_db' = [s \in Slots |-> closeDb(s)]
    /\ Return("close", req, NoSlot, "ok")
    /\ UNCHANGED <<calls, crashed>>

CloseSlot(req) ==
    /\ req # 0
    /\ m_dbid' = CloseTarget(req)
    /\ m_db' = [m_db EXCEPT ![m_dbid'] = closeDb(m_dbid')]
    /\ Return("close", req, m_dbid',
              IF connectionIsBusy(m_dbid') THEN "SQLITE_BUSY" ELSE "ok")
    /\ UNCHANGED <<calls, crashed>>

cmdHandleClose(req, arg) ==
    /\ Callable /\ ValidRequest(req)
    /\ \/ arg = "extra" /\ CloseWithArgument(req)
       \/ arg = "none" /\ closeAllDbs(req)
       \/ arg = "none" /\ CloseSlot(req)

(***************************************************************************)
(* A SQL statement: prepared on the selected slot, then stepped.  While it *)
(* is stepped it may call MATLAB functions, one at a time.  It ends with   *)
(* its rows or with an error; the statement is finalized either way.       *)
(***************************************************************************)
\* Id 0 is refused before the switch, every other refusal comes after it.
QueryNullDbid(req) ==
    /\ req = 0
    /\ Return("query", req, NoSlot, "MSG_ERRNULLDBID")
    /\ UNCHANGED <<m_db, m_dbid, calls, crashed>>

\* What refuses a statement on this handle: the slot is closed, the handle is
\* sick, or the statement does not compile or its arguments do not fit it.
Refusal(handle) ==
    CASE handle = NULL -> "MSG_DBNOTOPEN"
      [] handle = Sick -> "SQLITE_MISUSE"
      [] OTHER -> "SQLITE_ERROR"

QueryRefused(req) ==
    /\ req # 0
    /\ m_dbid' = dbid(req) - 1
    /\ Return("query", req, m_dbid', Refusal(m_db[m_dbid']))
    /\ UNCHANGED <<m_db, calls, crashed>>

\* Mutant of QueryStart: a handle that is not NULL is good enough.
QueryStartIfNotNull(req) ==
    /\ req # 0
    /\ isOpen(dbid(req) - 1)
    /\ Len(calls) < MaxDepth
    /\ m_dbid' = dbid(req) - 1
    /\ calls' = Append(calls, [slot |-> m_dbid', callback |-> FALSE])
    /\ UNCHANGED <<m_db, reply, crashed>>

QueryStart(req) ==
    /\ req # 0
    /\ m_db[dbid(req) - 1] \in Opened
    /\ Len(calls) < MaxDepth
    /\ m_dbid' = dbid(req) - 1
    /\ calls' = Append(calls, [slot |-> m_dbid', callback |-> FALSE])
    /\ UNCHANGED <<m_db, reply, crashed>>

cmdHandleSQLStatement(req) ==
    /\ Callable /\ ValidRequest(req)
    /\ \/ QueryNullDbid(req)
       \/ QueryRefused(req)
       \/ QueryStart(req)

Top == calls[Len(calls)]

SetCallback(b) == calls' = [calls EXCEPT ![Len(calls)].callback = b]

CallbackEnter ==
    /\ ~crashed /\ calls # <<>> /\ ~Top.callback
    /\ SetCallback(TRUE)
    /\ UNCHANGED <<m_db, m_dbid, reply, crashed>>

CallbackLeave ==
    /\ ~crashed /\ calls # <<>> /\ Top.callback
    /\ SetCallback(FALSE)
    /\ UNCHANGED <<m_db, m_dbid, reply, crashed>>

QueryEnd(res) ==
    /\ ~crashed /\ calls # <<>> /\ ~Top.callback
    /\ res \in {"ok", "SQLITE_ERROR"}
    /\ calls' = SubSeq(calls, 1, Len(calls) - 1)
    /\ Return("query", Top.slot + 1, Top.slot, res)
    /\ UNCHANGED <<m_db, m_dbid, crashed>>

(***************************************************************************)
(* 'filename' switches before it looks at anything, without the test for   *)
(* id 0 that 'open', 'close' and SQL get: with every slot open it switches *)
(* to slot -1, and mexFunction then reads an exception there.              *)
(***************************************************************************)
FilenameNoSlot(req) ==
    /\ dbid(req) = 0
    /\ m_dbid' = NoSlot
    /\ Return("filename", req, NoSlot, "crash")
    /\ crashed' = TRUE
    /\ UNCHANGED <<m_db, calls>>

FilenameOf(req, arg) ==
    /\ dbid(req) # 0
    /\ m_dbid' = dbid(req) - 1
    /\ Return("filename", req, m_dbid',
              IF ~isOpen(m_dbid') THEN "MSG_DBNOTOPEN"
              ELSE IF arg = "extra" THEN "MSG_INVALIDARG" ELSE "ok")
    /\ UNCHANGED <<m_db, calls, crashed>>

cmdTryHandleFilename(req, arg) ==
    /\ Callable /\ ValidRequest(req)
    /\ FilenameNoSlot(req) \/ FilenameOf(req, arg)

(***************************************************************************)
(* The settings of a connection.  They do not switch: ensureDbIsOpen makes *)
(* the interface from the slot that is current, whatever id was given,     *)
(* unless no slot could be found for id 0.                                 *)
(***************************************************************************)
ensureDbIsOpen(req) == dbid(req) # 0 /\ isOpen(m_dbid)

\* Not open, or an argument too many or of the wrong type.
ConfigureRefused(cmd, req) ==
    /\ Return(cmd, req, NoSlot,
              IF ensureDbIsOpen(req) THEN "MSG_INVALIDARG" ELSE "MSG_DBNOTOPEN")
    /\ UNCHANGED <<m_db, m_dbid, calls, crashed>>

\* The settings of a sick handle are never used again and are not kept.
Configure(cmd, req, handle) ==
    /\ ensureDbIsOpen(req)
    /\ m_db' = [m_db EXCEPT ![m_dbid] = IF @ = Sick THEN Sick ELSE handle]
    /\ Return(cmd, req, m_dbid, "ok")
    /\ UNCHANGED <<m_dbid, calls, crashed>>

TimeoutSet(cmd, req) ==
    \E ms \in Timeouts :
        Configure(cmd, req, [m_db[m_dbid] EXCEPT !.timeout = ms])

(* 'setbusytimeout' with a time, and without one ("getbusytimeout" here):  *)
(* then getBusyTimeout passes an unset local variable to SQLite, and what  *)
(* it holds becomes the timeout.                                           *)
cmdTryHandleSetBusyTimeout(cmd, req) ==
    /\ Callable /\ ValidRequest(req)
    /\ ConfigureRefused(cmd, req) \/ TimeoutSet(cmd, req)

cmdTryHandleEnableExtension(req) ==
    /\ Callable /\ ValidRequest(req)
    /\ \/ ConfigureRefused("enable extension", req)
       \/ \E flag \in BOOLEAN :
            Configure("enable extension", req, [m_db[m_dbid] EXCEPT !.extension = flag])

(***************************************************************************)
(* 'create function' and 'create aggregation' go the same way as settings. *)
(* What they do to the functions of the slot is told in SqlFunctions.      *)
(***************************************************************************)
AttachResults == {"ok", "MSG_FCNHARGEXPCT", "SQLITE_BUSY"}

Attach(cmd, req, res) ==
    /\ ensureDbIsOpen(req)
    /\ Return(cmd, req, m_dbid, res)
    /\ UNCHANGED <<m_db, m_dbid, calls, crashed>>

AttachFunctor(cmd, req, res) ==
    /\ Callable /\ ValidRequest(req)
    /\ ConfigureRefused(cmd, req) \/ Attach(cmd, req, res)

-----------------------------------------------------------------------------
\* 'clear mksqlite': mex_module_deinit closes everything, a later call loads
\* the module anew.  MATLAB does not unload a module that is being executed.
mex_module_deinit ==
    /\ ~crashed /\ calls = <<>>
    /\ m_db' = [s \in Slots |-> closeDb(s)]
    /\ m_dbid' = 0
    /\ reply' = [cmd |-> "none", req |-> Missing, slot |-> NoSlot, res |-> "ok"]
    /\ UNCHANGED <<calls, crashed>>

Init ==
    /\ m_db = [s \in Slots |-> NULL]
    /\ m_dbid = 0
    /\ calls = <<>>
    /\ reply = [cmd |-> "none", req |-> Missing, slot |-> NoSlot, res |-> "ok"]
    /\ crashed = FALSE

Command(req) ==
    \/ \E cmd \in Commands : InvalidDbHandle(cmd, req)
    \/ \E arg \in OpenArgs, rc \in OpenCodes : cmdHandleOpen(req, arg, rc)
    \/ \E arg \in {"none", "extra"} : cmdHandleClose(req, arg)
    \/ cmdHandleSQLStatement(req)
    \/ \E arg \in {"none", "extra"} : cmdTryHandleFilename(req, arg)
    \/ \E cmd \in {"setbusytimeout", "getbusytimeout"} :
          cmdTryHandleSetBusyTimeout(cmd, req)
    \/ cmdTryHandleEnableExtension(req)
    \/ \E cmd \in FunctorCommands, res \in AttachResults : AttachFunctor(cmd, req, res)

Next ==
    \/ \E req \in Requests : Command(req)
    \/ CallbackEnter
    \/ CallbackLeave
    \/ \E res \in {"ok", "SQLITE_ERROR"} : QueryEnd(res)
    \/ mex_module_deinit

Spec == Init /\ [][Next]_vars

-----------------------------------------------------------------------------
(* Properties *)

\* A statement that runs keeps its connection: whatever the functions it calls
\* ask mksqlite to close or to open, on whatever slot (closeDb and the refusal
\* of sqlite3_close are all that prevents it).
StatementsKeepConnection ==
    \A i \in DOMAIN calls : m_db[calls[i].slot].state = "open"

\* The slot that is current exists, and the program leaves its defined behaviour in two
\* places only: 'filename' with id 0 when there is no free slot to be found, and an 'open'
\* on a slot whose statement is the one that called the function it comes from.  Whoever
\* keeps a slot free and opens no database from inside a function never gets there.
CrashesAreKnown ==
    /\ ~crashed => m_dbid \in Slots
    /\ crashed => \/ m_dbid = NoSlot /\ \A s \in Slots : isOpen(s)
                  \/ m_dbid \in Slots /\ connectionIsBusy(m_dbid)

\* 'open' with id 0 takes a slot nobody uses: no other database is closed,
\* replaced or reconfigured by it, and it gives up only when all slots are in use
\* (argTryReadValidDbid picks the slot, long before cmdHandleOpen closes it).
OpenZeroSparesOthers ==
    [][\A arg \in OpenArgs, rc \in OpenCodes :
         cmdHandleOpen(0, arg, rc) =>
            /\ \A s \in Slots : isOpen(s) => m_db'[s] = m_db[s]
            /\ reply'.res = "MSG_NOFREESLOT" => \A s \in Slots : isOpen(s)
            /\ ~crashed']_vars

\* An 'open' that takes effect is all or nothing: it reports success exactly when
\* the slot has a database, one with no setting of its predecessor, and a refused
\* one leaves no half-opened database (cmdHandleOpen closes the old one first and
\* reads the mode afterwards, so the old one is gone either way).
OpenIsAllOrNothing ==
    [][\A req \in Requests, arg \in OpenArgs, rc \in OpenCodes :
         cmdHandleOpen(req, arg, rc) =>
            /\ reply'.res = "ok" => m_db'[reply'.slot] = Fresh
            /\ reply'.res # "ok" =>
                 \A s \in Slots : m_db'[s] # m_db[s] => m_db'[s] \notin Opened]_vars

\* Which databases are open changes only for the slot a command names: for
\* 'open' and 'close' the one of its id, for 'close' with id 0 every slot.  The
\* slot that happens to be current is never opened or closed by mistake.
OnlyNamedSlotChanges ==
    [][\A s \in Slots :
         m_db'[s] # m_db[s] /\ reply'.cmd \notin Settings \union {"none"} =>
            /\ reply'.cmd \in {"open", "close"}
            /\ s = dbid(reply'.req) - 1 \/ (reply'.cmd = "close" /\ reply'.req = 0)]_vars

\* Every behaviour is one of a table of connections and a stack of statements.
Table == INSTANCE Connections WITH
            usable <- {s \in Slots : m_db[s].state = "open"},
            running <- [i \in DOMAIN calls |-> calls[i].slot]
TableSpec == Table!Spec

-----------------------------------------------------------------------------
(* What the repository says and the code does not do *)

\* A setting is made on the database whose id is given, 1 without an id, when both that
\* database and the one it acts on are open: no error of an earlier command is in play.
SettingsReachNamedSlot ==
    LET named == IF reply.req = Missing THEN 0 ELSE reply.req - 1
    IN  /\ reply.cmd \in Settings /\ reply.res = "ok"
        /\ named \in Slots /\ m_db[named] \in Opened
        /\ m_db[reply.slot] \in Opened
        => reply.slot = named
=============================================================================
