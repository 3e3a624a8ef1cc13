---------------------------- MODULE SqlFunctions ----------------------------
(***************************************************************************)
(* MATLAB functions called from SQL, on top of the slots of DbSlots.       *)
(*                                                                         *)
(* 'create function' makes a functor (MexFunctors), files it under its     *)
(* name in the slot's m_fcnmap and hands its address to SQLite.  So three  *)
(* parties know a functor: the map that owns it, the connection that has   *)
(* it registered, and every running statement that was compiled with it.   *)
(* What a function throws is parked in m_exception of its slot and thrown  *)
(* when mexFunction returns: out of the slot that is current by then.      *)
(*                                                                         *)
(* The step and the final function of an aggregate live and die together   *)
(* and are called like a function; their group data is not modelled here.  *)
(***************************************************************************)
EXTENDS DbSlots

CONSTANTS
    FcnNames,       \* the names of SQL functions
    NoFcn           \* no function is being called

ASSUME NoFcnAssumption == NoFcn \notin FcnNames

VARIABLES
    m_fcnmap,       \* per slot, the names whose functors exist
    registered,     \* per slot, the names SQLite has a functor's address for
    m_busy,         \* the functors in progress, as <<slot, name>>
    frames,         \* what DbSlots's calls lack, one frame per call
    m_exception,    \* per slot: none, pending (raised by the innermost
                    \* statement), or stale (its statement is long over)
    thrown,         \* m_exception as the last command left mexFunction with it
    corrupt         \* a functor was used that does not exist any more

fcnVars == <<m_fcnmap, registered, m_busy, frames, m_exception, thrown, corrupt>>
allVars == <<vars, fcnVars>>

Functors == Slots \X FcnNames
Exceptions == {"none", "pending", "stale"}

\* fcns: the functions the statement was compiled with; fcn: the one being
\* called; failed: a function reported an error, the statement is to fail.
Frame == [fcns : SUBSET FcnNames, fcn : FcnNames \union {NoFcn}, failed : BOOLEAN]

FcnTypeOK ==
    /\ TypeOK
    /\ m_fcnmap \in [Slots -> SUBSET FcnNames]
    /\ registered \in [Slots -> SUBSET FcnNames]
    /\ m_busy \subseteq Functors
    /\ frames \in Seq(Frame)
    /\ Len(frames) = Len(calls)
    /\ m_exception \in [Slots -> Exceptions]
    /\ thrown \in Exceptions
    /\ corrupt \in BOOLEAN

Inner == frames[Len(frames)]

\* Once the code has used freed memory there is nothing to say about it.
Intact == ~corrupt /\ UNCHANGED corrupt

-----------------------------------------------------------------------------
(* The end of a command *)

\* Every command ends with the exception of the current slot, if it has one.
\* Another slot's stays where it is, and outlives the statement that raised it.
throwOnException ==
    LET Kept(s) == IF m_exception[s] = "pending" THEN "stale" ELSE m_exception[s]
    IN  /\ m_dbid' \in Slots
        /\ thrown' = m_exception[m_dbid']
        /\ m_exception' = [s \in Slots |-> IF s = m_dbid' THEN "none" ELSE Kept(s)]

\* Errors before the command is read are raised at once, a crash ends it all.
NothingThrown == thrown' = "none" /\ UNCHANGED m_exception

Leave == IF crashed' THEN NothingThrown ELSE throwOnException

KeepFunctors == UNCHANGED <<m_fcnmap, registered, m_busy, frames>>

\* Mutant of Freed: the connection goes, its functors stay in m_fcnmap.
FreedByConnection(S) ==
    /\ registered' = [s \in Slots |-> IF s \in S /\ ~connectionIsBusy(s)
                                      THEN {} ELSE registered[s]]
    /\ UNCHANGED <<m_fcnmap, m_busy, frames>>

\* closeDb of the slots S: the functors go in any case, SQLite's registrations
\* only when the connection really closes.
Freed(S) ==
    /\ m_fcnmap' = [s \in Slots |-> IF s \in S THEN {} ELSE m_fcnmap[s]]
    /\ registered' = [s \in Slots |-> IF s \in S /\ ~connectionIsBusy(s)
                                      THEN {} ELSE registered[s]]
    /\ UNCHANGED <<m_busy, frames>>

InvalidHandle(req) ==
    /\ Intact
    /\ \E cmd \in Commands : InvalidDbHandle(cmd, req)
    /\ KeepFunctors /\ NothingThrown

Open(req) ==
    /\ Intact
    /\ \E arg \in OpenArgs, rc \in OpenCodes :
          /\ cmdHandleOpen(req, arg, rc)
          /\ Freed(IF dbid(req) # 0 /\ arg # "none" THEN {m_dbid'} ELSE {})
    /\ Leave

ClosedBy(req, arg) ==
    IF arg # "none" THEN {}
    ELSE IF req = 0 THEN {s \in Slots : isOpen(s)} ELSE {m_dbid'}

Close(req) ==
    /\ Intact
    /\ \E arg \in {"none", "extra"} :
          cmdHandleClose(req, arg) /\ Freed(ClosedBy(req, arg))
    /\ Leave

\* 'filename' and the settings of the connection.
Other(req) ==
    /\ Intact
    /\ \/ \E arg \in {"none", "extra"} : cmdTryHandleFilename(req, arg)
       \/ \E cmd \in {"setbusytimeout", "getbusytimeout"} :
             cmdTryHandleSetBusyTimeout(cmd, req)
       \/ cmdTryHandleEnableExtension(req)
    /\ KeepFunctors /\ Leave

-----------------------------------------------------------------------------
(* 'create function' and 'create aggregation' *)

\* sqlite3_create_function changes no registration a running statement may use.
CreateIsBusy(s, f) == f \in registered[s] /\ connectionIsBusy(s)

\* Mutant of attachMexFunction: removes the functor, not its registration.
attachWithoutUnregister(s, f, add) ==
    /\ m_fcnmap' = [m_fcnmap EXCEPT ![s] = IF add THEN @ \union {f} ELSE @ \ {f}]
    /\ registered' = [registered EXCEPT ![s] = IF add THEN @ \union {f} ELSE @]
    /\ UNCHANGED <<m_busy, frames>>

\* add: a valid function handle is given; otherwise an empty one, to remove it.
attachMexFunction(s, f, add) ==
    LET With(names) == IF add THEN names \union {f} ELSE names \ {f}
    IN  /\ m_fcnmap' = [m_fcnmap EXCEPT ![s] = With(@)]
        /\ registered' = [registered EXCEPT ![s] = With(@)]
        /\ UNCHANGED <<m_busy, frames>>

\* Mutant of CreateRefused: the old functor goes before SQLite is asked.
CreateRefusedTooLate(s, f) ==
    /\ m_fcnmap' = [m_fcnmap EXCEPT ![s] = @ \ {f}]
    /\ UNCHANGED <<registered, m_busy, frames>>

\* SQLite refuses: the new functor goes, the old one stays in m_fcnmap.
CreateRefused(s, f) == KeepFunctors

CreateFunction(req) ==
    /\ Intact
    /\ \E cmd \in FunctorCommands, f \in FcnNames :
          \/ /\ AttachFunctor(cmd, req, "ok")
             /\ reply'.res = "ok"
             /\ ~CreateIsBusy(m_dbid, f)
             /\ \E add \in BOOLEAN : attachMexFunction(m_dbid, f, add)
          \/ /\ AttachFunctor(cmd, req, "SQLITE_BUSY")
             /\ IF reply'.res = "SQLITE_BUSY"
                THEN CreateIsBusy(m_dbid, f) /\ CreateRefused(m_dbid, f)
                ELSE KeepFunctors
          \/ AttachFunctor(cmd, req, "MSG_FCNHARGEXPCT") /\ KeepFunctors
    /\ Leave

-----------------------------------------------------------------------------
(* Statements and the functions they call (mexFcnWrapper) *)

StatementRefused(req) ==
    /\ Intact
    /\ Callable /\ ValidRequest(req)
    /\ QueryNullDbid(req) \/ QueryRefused(req)
    /\ KeepFunctors /\ Leave

StatementStart(req) ==
    /\ Intact
    /\ Callable /\ ValidRequest(req)
    /\ QueryStart(req)
    /\ frames' = Append(frames, [fcns |-> registered[m_dbid'], fcn |-> NoFcn,
                                 failed |-> FALSE])
    /\ UNCHANGED <<m_fcnmap, registered, m_busy, m_exception, thrown>>

SetInner(frame) == frames' = [frames EXCEPT ![Len(frames)] = frame]

\* A running statement that has not failed calls one of its functions.
Calls(f) ==
    /\ ~crashed /\ calls # <<>> /\ ~Top.callback
    /\ f \in Inner.fcns /\ ~Inner.failed

\* Its functor is gone: there is no telling what the code reads.
CallFreed(f) ==
    /\ ~corrupt
    /\ Calls(f)
    /\ f \notin m_fcnmap[Top.slot]
    /\ corrupt' = TRUE
    /\ UNCHANGED vars
    /\ UNCHANGED <<m_fcnmap, registered, m_busy, frames, m_exception, thrown>>

CallRecursive(f) ==
    /\ Intact
    /\ Calls(f)
    /\ f \in m_fcnmap[Top.slot] /\ <<Top.slot, f>> \in m_busy
    /\ SetInner([Inner EXCEPT !.failed = TRUE])
    /\ UNCHANGED <<m_fcnmap, registered, m_busy, m_exception, thrown>>
    /\ UNCHANGED vars

\* Mutant of CallFunction: m_busy is set and not looked at.
CallFunctionAgain(f) ==
    /\ Intact
    /\ Calls(f)
    /\ f \in m_fcnmap[Top.slot]
    /\ CallbackEnter
    /\ SetInner([Inner EXCEPT !.fcn = f])
    /\ m_busy' = m_busy \union {<<Top.slot, f>>}
    /\ UNCHANGED <<m_fcnmap, registered, m_exception, thrown>>

CallFunction(f) ==
    /\ Intact
    /\ Calls(f)
    /\ f \in m_fcnmap[Top.slot] /\ <<Top.slot, f>> \notin m_busy
    /\ CallbackEnter
    /\ SetInner([Inner EXCEPT !.fcn = f])
    /\ m_busy' = m_busy \union {<<Top.slot, f>>}
    /\ UNCHANGED <<m_fcnmap, registered, m_exception, thrown>>

\* The function is back, and m_busy is reset in a functor that is gone.
ReturnToFreed ==
    /\ ~corrupt
    /\ ~crashed /\ calls # <<>> /\ Top.callback
    /\ Inner.fcn \notin m_fcnmap[Top.slot]
    /\ corrupt' = TRUE
    /\ UNCHANGED vars
    /\ UNCHANGED <<m_fcnmap, registered, m_busy, frames, m_exception, thrown>>

\* Mutant of FunctionReturn: SQLite is not told about the exception.
FunctionReturnUnreported(outcome) ==
    /\ Intact
    /\ calls # <<>>
    /\ Inner.fcn \in m_fcnmap[Top.slot]
    /\ CallbackLeave
    /\ SetInner([Inner EXCEPT !.fcn = NoFcn, !.failed = outcome = "error"])
    /\ m_busy' = m_busy \ {<<Top.slot, Inner.fcn>>}
    /\ m_exception' = IF outcome = "exception"
                      THEN [m_exception EXCEPT ![Top.slot] = "pending"]
                      ELSE m_exception
    /\ UNCHANGED <<m_fcnmap, registered, thrown>>

\* It returned a value SQLite takes or one it cannot take, or raised an exception.
FunctionReturn(outcome) ==
    /\ Intact
    /\ calls # <<>>
    /\ Inner.fcn \in m_fcnmap[Top.slot]
    /\ CallbackLeave
    /\ SetInner([Inner EXCEPT !.fcn = NoFcn, !.failed = outcome # "value"])
    /\ m_busy' = m_busy \ {<<Top.slot, Inner.fcn>>}
    /\ m_exception' = IF outcome = "exception"
                      THEN [m_exception EXCEPT ![Top.slot] = "pending"]
                      ELSE m_exception
    /\ UNCHANGED <<m_fcnmap, registered, thrown>>

\* Mutant of StatementEnd: the statement is left behind unfinalized.
StatementEndUnfinalized(res) ==
    /\ Intact
    /\ QueryEnd(res)
    /\ Inner.failed => res # "ok"
    /\ UNCHANGED <<m_fcnmap, registered, m_busy, frames>>
    /\ Leave

StatementEnd(res) ==
    /\ Intact
    /\ QueryEnd(res)
    /\ Inner.failed => res # "ok"
    /\ frames' = SubSeq(frames, 1, Len(frames) - 1)
    /\ UNCHANGED <<m_fcnmap, registered, m_busy>>
    /\ Leave

-----------------------------------------------------------------------------
\* 'clear mksqlite' destroys SQLstack, exceptions and all.
Clear ==
    /\ Intact
    /\ mex_module_deinit
    /\ Freed(Slots)
    /\ m_exception' = [s \in Slots |-> "none"]
    /\ thrown' = "none"

FcnInit ==
    /\ Init
    /\ m_fcnmap = [s \in Slots |-> {}]
    /\ registered = [s \in Slots |-> {}]
    /\ m_busy = {}
    /\ frames = <<>>
    /\ m_exception = [s \in Slots |-> "none"]
    /\ thrown = "none"
    /\ corrupt = FALSE

FcnCommand(req) ==
    \/ InvalidHandle(req)
    \/ Open(req)
    \/ Close(req)
    \/ Other(req)
    \/ CreateFunction(req)
    \/ StatementRefused(req)
    \/ StatementStart(req)

FunctionCall(f) == CallRecursive(f) \/ CallFunction(f) \/ CallFreed(f)

FcnNext ==
    \/ \E req \in Requests : FcnCommand(req)
    \/ \E f \in FcnNames : FunctionCall(f)
    \/ \E outcome \in {"value", "error", "exception"} : FunctionReturn(outcome)
    \/ ReturnToFreed
    \/ \E res \in {"ok", "SQLITE_ERROR"} : StatementEnd(res)
    \/ Clear

FcnSpec == FcnInit /\ [][FcnNext]_allVars

-----------------------------------------------------------------------------
(* Properties *)

\* While a statement runs, nothing its functions ask for takes away the functors it
\* was compiled with, except 'close' and 'open' of its own slot: 'create function'
\* leaves a functor in place that SQLite will not let go, and a nested statement
\* ends without touching those of the statements around it.
StatementsKeepFunctions ==
    [][\A i \in DOMAIN calls \intersect DOMAIN calls' :
         LET s == calls[i].slot
         IN  /\ frames'[i].fcns = frames[i].fcns
             /\ \/ frames[i].fcns \intersect m_fcnmap[s] \subseteq m_fcnmap'[s]
                \/ reply'.cmd \in {"open", "close"} /\ m_fcnmap'[s] = {}]_allVars

\* The functors a slot owns are known to its connection, and a closed slot has
\* neither: functions do not leak into the next database opened there.
FunctorsOfTheirDatabase ==
    \A s \in Slots :
        /\ m_fcnmap[s] \subseteq registered[s]
        /\ ~isOpen(s) => registered[s] = {}

\* m_busy keeps a function from being entered again while it runs, however deep
\* the calls in between.
NoRecursion ==
    \A i, j \in DOMAIN calls :
        i # j /\ frames[i].fcn = frames[j].fcn /\ calls[i].slot = calls[j].slot
            => frames[i].fcn = NoFcn

\* The exception that is pending in a slot was raised by the statement that is about
\* to fail on it: no other slot has one, and the statement did not go on.
PendingHasOwner ==
    \A s \in Slots : m_exception[s] = "pending" =>
        calls # <<>> /\ Top.slot = s /\ ~Top.callback /\ Inner.failed

\* Only a close or an open that SQLite refuses leaves SQLite with functors that do
\* not exist: everything else keeps m_fcnmap and the connection in step.
OnlyRefusedCloseDangles ==
    [][\A s \in Slots :
         registered'[s] \ m_fcnmap'[s] \subseteq registered[s] \ m_fcnmap[s]
            \/ (reply'.cmd \in {"open", "close"} /\ connectionIsBusy(s))]_allVars

-----------------------------------------------------------------------------
(* What the repository says and the code does not do *)

\* A function may call mksqlite: the running statement keeps its functions.
FunctorsOutliveStatements ==
    ~crashed => \A i \in DOMAIN calls : frames[i].fcns \subseteq m_fcnmap[calls[i].slot]
=============================================================================
