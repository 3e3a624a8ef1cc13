------------------------- MODULE SqlFunctionsProofs -------------------------
(***************************************************************************)
(* Proofs about SqlFunctions.  Its steps are steps of DbSlots, so what is  *)
(* proved there holds here; then the invariants about the functors.        *)
(***************************************************************************)
EXTENDS SqlFunctions, DbSlotsProofs

-----------------------------------------------------------------------------
(* Every step is one of DbSlots *)

LEMMA CommandIsCommand ==
  ASSUME NEW req \in Requests, FcnCommand(req)
  PROVE  Command(req)
<1>1. CASE InvalidHandle(req)
  BY <1>1 DEF InvalidHandle, Command
<1>2. CASE Open(req)
  BY <1>2 DEF Open, Command
<1>3. CASE Close(req)
  BY <1>3 DEF Close, Command
<1>4. CASE Other(req)
  BY <1>4 DEF Other, Command
<1>5. CASE CreateFunction(req)
  BY <1>5 DEF CreateFunction, Command, AttachResults
<1>6. CASE StatementRefused(req)
  BY <1>6 DEF StatementRefused, Command, cmdHandleSQLStatement
<1>7. CASE StatementStart(req)
  BY <1>7 DEF StatementStart, Command, cmdHandleSQLStatement
<1>8. QED
  BY <1>1, <1>2, <1>3, <1>4, <1>5, <1>6, <1>7 DEF FcnCommand

LEMMA StepIsStep == [FcnNext]_allVars => [Next]_vars
<1>1. ASSUME NEW f, FunctionCall(f) PROVE [Next]_vars
  BY <1>1 DEF FunctionCall, CallRecursive, CallFunction, CallFreed, Next
<1>2. ASSUME NEW outcome, FunctionReturn(outcome) PROVE Next
  BY <1>2 DEF FunctionReturn, Next
<1>3. ASSUME NEW res \in {"ok", "SQLITE_ERROR"}, StatementEnd(res) PROVE Next
  BY <1>3 DEF StatementEnd, Next
<1>4. Clear => Next
  BY DEF Clear, Next
<1>5. ReturnToFreed => UNCHANGED vars
  BY DEF ReturnToFreed
<1>6. UNCHANGED allVars => UNCHANGED vars
  BY DEF allVars
<1>7. QED
  BY <1>1, <1>2, <1>3, <1>4, <1>5, <1>6, CommandIsCommand DEF FcnNext, Next

\* With functions, slots behave as without: no step of SqlFunctions does to a slot what
\* DbSlots does not allow.
THEOREM FunctionsAreSlots == FcnSpec => Spec
<1>1. FcnInit => Init
  BY DEF FcnInit
<1>2. QED
  BY <1>1, StepIsStep, PTL DEF FcnSpec, Spec

-----------------------------------------------------------------------------
(* The end of a command *)

NonePending == \A s \in Slots : m_exception[s] # "pending"

\* A statement that is about to fail does not let another command in.
LEMMA CallableNonePending ==
  ASSUME PendingHasOwner, Callable
  PROVE  NonePending
  BY DEF PendingHasOwner, Callable, NonePending, Top

LEMMA ThrowClears ==
  ASSUME FcnTypeOK, throwOnException
  PROVE  /\ m_exception' \in [Slots -> Exceptions]
         /\ thrown' \in Exceptions
         /\ NonePending'
<1> DEFINE Kept(s) == IF m_exception[s] = "pending" THEN "stale" ELSE m_exception[s]
<1>1. \A s \in Slots : Kept(s) \in Exceptions /\ Kept(s) # "pending"
  BY DEF FcnTypeOK, Exceptions
<1>2. /\ m_dbid' \in Slots /\ thrown' = m_exception[m_dbid']
      /\ m_exception' = [s \in Slots |-> IF s = m_dbid' THEN "none" ELSE Kept(s)]
  BY DEF throwOnException
<1>3. "none" \in Exceptions
  BY DEF Exceptions
<1> HIDE DEF Kept
<1>4. \A s \in Slots : m_exception'[s] \in Exceptions /\ m_exception'[s] # "pending"
  BY <1>1, <1>2, <1>3
<1>5. QED
  BY <1>2, <1>4 DEF FcnTypeOK, NonePending

LEMMA LeaveClears ==
  ASSUME FcnTypeOK, NonePending, Leave \/ NothingThrown
  PROVE  /\ m_exception' \in [Slots -> Exceptions]
         /\ thrown' \in Exceptions
         /\ NonePending'
<1>1. CASE throwOnException
  BY <1>1, ThrowClears
<1>2. CASE NothingThrown
  BY <1>2 DEF NothingThrown, FcnTypeOK, NonePending, Exceptions
<1>3. QED
  BY <1>1, <1>2 DEF Leave

\* The commands that leave the stack of calls alone.
QuietCommand ==
    \/ \E req \in Requests :
          InvalidHandle(req) \/ Open(req) \/ Close(req) \/ Other(req)
             \/ CreateFunction(req) \/ StatementRefused(req)
    \/ Clear

LEMMA QuietKeepsCalls ==
  ASSUME QuietCommand
  PROVE  /\ calls' = calls /\ frames' = frames /\ m_busy' = m_busy
         /\ Callable /\ corrupt' = corrupt
<1>1. ASSUME NEW req \in Requests, InvalidHandle(req)
      PROVE  calls' = calls /\ frames' = frames /\ m_busy' = m_busy /\ Callable /\ corrupt' = corrupt
  BY <1>1 DEF InvalidHandle, InvalidDbHandle, KeepFunctors, Intact
<1>2. ASSUME NEW req \in Requests, Open(req)
      PROVE  calls' = calls /\ frames' = frames /\ m_busy' = m_busy /\ Callable /\ corrupt' = corrupt
  BY <1>2 DEF Open, cmdHandleOpen, OpenNoFreeSlot, OpenNoArgument, OpenBusySlot, OpenSlot,
              Freed, Intact
<1>3. ASSUME NEW req \in Requests, Close(req)
      PROVE  calls' = calls /\ frames' = frames /\ m_busy' = m_busy /\ Callable /\ corrupt' = corrupt
  BY <1>3 DEF Close, cmdHandleClose, CloseWithArgument, closeAllDbs, CloseSlot, Freed, Intact
<1>4. ASSUME NEW req \in Requests, Other(req)
      PROVE  calls' = calls /\ frames' = frames /\ m_busy' = m_busy /\ Callable /\ corrupt' = corrupt
  BY <1>4 DEF Other, cmdTryHandleFilename, FilenameNoSlot, FilenameOf, KeepFunctors,
              cmdTryHandleSetBusyTimeout, cmdTryHandleEnableExtension, ConfigureRefused,
              TimeoutSet, Configure, Intact
<1>5. ASSUME NEW req \in Requests, CreateFunction(req)
      PROVE  calls' = calls /\ frames' = frames /\ m_busy' = m_busy /\ Callable /\ corrupt' = corrupt
  BY <1>5 DEF CreateFunction, AttachFunctor, ConfigureRefused, Attach, attachMexFunction,
              CreateRefused, KeepFunctors, Intact
<1>6. ASSUME NEW req \in Requests, StatementRefused(req)
      PROVE  calls' = calls /\ frames' = frames /\ m_busy' = m_busy /\ Callable /\ corrupt' = corrupt
  BY <1>6 DEF StatementRefused, QueryNullDbid, QueryRefused, KeepFunctors, Intact
<1>7. CASE Clear
  BY <1>7 DEF Clear, mex_module_deinit, Freed, Callable, Intact
<1>8. QED
  BY <1>1, <1>2, <1>3, <1>4, <1>5, <1>6, <1>7 DEF QuietCommand

LEMMA QuietNonePending ==
  ASSUME FcnTypeOK, PendingHasOwner, QuietCommand
  PROVE  /\ m_exception' \in [Slots -> Exceptions]
         /\ thrown' \in Exceptions
         /\ NonePending'
<1>1. NonePending
  BY QuietKeepsCalls, CallableNonePending
<1>2. CASE Leave \/ NothingThrown
  BY <1>1, <1>2, LeaveClears
<1>3. CASE Clear
  BY <1>3 DEF Clear, NonePending, Exceptions
<1>4. QED
  BY <1>2, <1>3
  DEF QuietCommand, InvalidHandle, Open, Close, Other, CreateFunction, StatementRefused

\* What closing, creating and removing functions do to map and registrations, type only.
LEMMA FreedType ==
  ASSUME FcnTypeOK, NEW S, Freed(S)
  PROVE  m_fcnmap' \in [Slots -> SUBSET FcnNames] /\ registered' \in [Slots -> SUBSET FcnNames]
  BY DEF Freed, FcnTypeOK

LEMMA AttachType ==
  ASSUME FcnTypeOK, NEW s, NEW f \in FcnNames, NEW add \in BOOLEAN,
         attachMexFunction(s, f, add)
  PROVE  m_fcnmap' \in [Slots -> SUBSET FcnNames] /\ registered' \in [Slots -> SUBSET FcnNames]
  BY DEF attachMexFunction, FcnTypeOK

\* A slot is closed only with its functors, and only when no statement runs on it.
ClosesOnly(S) ==
    \A s \in Slots : isOpen(s) /\ m_db'[s] = NULL => s \in S /\ ~connectionIsBusy(s)

Attached(f, add) ==
    /\ attachMexFunction(m_dbid, f, add)
    /\ ~CreateIsBusy(m_dbid, f)
    /\ isOpen(m_dbid)

LEMMA OpenCloses ==
  ASSUME TypeOK, NEW req \in Requests, Open(req)
  PROVE  \E S : Freed(S) /\ ClosesOnly(S)
<1>1. PICK arg \in OpenArgs, rc \in OpenCodes :
        /\ cmdHandleOpen(req, arg, rc)
        /\ Freed(IF dbid(req) # 0 /\ arg # "none" THEN {m_dbid'} ELSE {})
  BY DEF Open
<1> DEFINE S == IF dbid(req) # 0 /\ arg # "none" THEN {m_dbid'} ELSE {}
<1>2. CASE m_db' = m_db
  BY <1>1, <1>2 DEF ClosesOnly, isOpen
<1>3. CASE OpenSlot(req, arg, rc)
  <2>1. /\ S = {m_dbid'} /\ ~connectionIsBusy(m_dbid')
        /\ m_db' = [m_db EXCEPT ![m_dbid'] = OpenedAs(arg, rc)]
    BY <1>3 DEF OpenSlot
  <2>2. \A s \in Slots : s # m_dbid' => m_db'[s] = m_db[s]
    BY <2>1 DEF TypeOK
  <2>3. ClosesOnly(S)
    BY <2>1, <2>2 DEF ClosesOnly, isOpen
  <2>4. QED
    BY <1>1, <2>3
<1>4. QED
  BY <1>1, <1>2, <1>3 DEF cmdHandleOpen, OpenNoFreeSlot, OpenNoArgument, OpenBusySlot

LEMMA CloseCloses ==
  ASSUME TypeOK, NEW req \in Requests, Close(req)
  PROVE  \E S : Freed(S) /\ ClosesOnly(S)
<1>1. PICK arg \in {"none", "extra"} : cmdHandleClose(req, arg) /\ Freed(ClosedBy(req, arg))
  BY DEF Close
<1>2. CASE m_db' = m_db
  BY <1>1, <1>2 DEF ClosesOnly, isOpen
<1>3. CASE arg = "none" /\ closeAllDbs(req)
  <2>1. ClosedBy(req, arg) = {s \in Slots : isOpen(s)}
    BY <1>3 DEF ClosedBy, closeAllDbs
  <2>2. \A s \in Slots : m_db'[s] = closeDb(s)
    BY <1>3 DEF closeAllDbs
  <2>3. ClosesOnly(ClosedBy(req, arg))
    BY <2>1, <2>2 DEF ClosesOnly, isOpen, closeDb
  <2>4. QED
    BY <1>1, <2>3
<1>4. CASE arg = "none" /\ CloseSlot(req)
  <2>1. ClosedBy(req, arg) = {m_dbid'}
    BY <1>4 DEF ClosedBy, CloseSlot
  <2>2. m_db' = [m_db EXCEPT ![m_dbid'] = closeDb(m_dbid')]
    BY <1>4 DEF CloseSlot
  <2>3. \A s \in Slots : m_db'[s] = IF s = m_dbid' THEN closeDb(s) ELSE m_db[s]
    BY <2>2 DEF TypeOK
  <2>4. ClosesOnly(ClosedBy(req, arg))
    BY <2>1, <2>3 DEF ClosesOnly, isOpen, closeDb
  <2>5. QED
    BY <1>1, <2>4
<1>5. QED
  BY <1>1, <1>2, <1>3, <1>4 DEF cmdHandleClose, CloseWithArgument

LEMMA ConfigureCloses ==
  ASSUME TypeOK, NEW cmd, NEW req, NEW handle,
         m_db[m_dbid] \in Opened => handle \in Opened,
         Configure(cmd, req, handle)
  PROVE  ClosesOnly({})
<1>1. /\ isOpen(m_dbid)
      /\ m_db' = [m_db EXCEPT ![m_dbid] = IF @ = Sick THEN Sick ELSE handle]
  BY DEF Configure, ensureDbIsOpen
<1>2. ASSUME NEW s \in Slots, isOpen(s) PROVE m_db'[s] # NULL
  <2>1. CASE s = m_dbid
    <3>1. m_db'[s] = IF m_db[s] = Sick THEN Sick ELSE handle
      BY <1>1, <2>1 DEF TypeOK
    <3>2. m_db[s] \in {Sick} \union Opened
      BY <1>2 DEF TypeOK, isOpen, Handles
    <3>3. QED
      BY <2>1, <3>1, <3>2, HandleTypes
  <2>2. CASE s # m_dbid
    BY <1>1, <1>2, <2>2 DEF TypeOK, isOpen
  <2>3. QED
    BY <2>1, <2>2
<1>3. QED
  BY <1>2 DEF ClosesOnly

LEMMA OtherCloses ==
  ASSUME TypeOK, NEW req \in Requests, Other(req)
  PROVE  KeepFunctors /\ ClosesOnly({})
<1>1. KeepFunctors
  BY DEF Other
<1>2. CASE m_db' = m_db
  BY <1>1, <1>2 DEF ClosesOnly, isOpen
<1>3. ASSUME NEW cmd, TimeoutSet(cmd, req)
      PROVE  ClosesOnly({})
  <2>1. PICK ms \in Timeouts : Configure(cmd, req, [m_db[m_dbid] EXCEPT !.timeout = ms])
    BY <1>3 DEF TimeoutSet
  <2>2. m_db[m_dbid] \in Opened => [m_db[m_dbid] EXCEPT !.timeout = ms] \in Opened
    BY HandleTypes
  <2>3. QED
    BY <2>1, <2>2, ConfigureCloses
<1>4. ASSUME NEW flag \in BOOLEAN,
             Configure("enable extension", req, [m_db[m_dbid] EXCEPT !.extension = flag])
      PROVE  ClosesOnly({})
  <2>1. m_db[m_dbid] \in Opened => [m_db[m_dbid] EXCEPT !.extension = flag] \in Opened
    BY HandleTypes
  <2>2. QED
    BY <1>4, <2>1, ConfigureCloses
<1>5. QED
  BY <1>1, <1>2, <1>3, <1>4
  DEF Other, cmdTryHandleFilename, FilenameNoSlot, FilenameOf, cmdTryHandleSetBusyTimeout,
      cmdTryHandleEnableExtension, ConfigureRefused

LEMMA CreateAttaches ==
  ASSUME NEW req \in Requests, CreateFunction(req)
  PROVE  /\ m_db' = m_db
         /\ KeepFunctors \/ \E f \in FcnNames, add \in BOOLEAN : Attached(f, add)
<1>1. PICK cmd \in FunctorCommands, f \in FcnNames :
        \/ /\ AttachFunctor(cmd, req, "ok")
           /\ reply'.res = "ok"
           /\ ~CreateIsBusy(m_dbid, f)
           /\ \E add \in BOOLEAN : attachMexFunction(m_dbid, f, add)
        \/ (\E res : AttachFunctor(cmd, req, res)) /\ KeepFunctors
  BY DEF CreateFunction, CreateRefused
<1>2. \A res : AttachFunctor(cmd, req, res) => m_db' = m_db
  BY DEF AttachFunctor, ConfigureRefused, Attach
<1>3. ASSUME AttachFunctor(cmd, req, "ok"), reply'.res = "ok"
      PROVE  isOpen(m_dbid)
  BY <1>3 DEF AttachFunctor, ConfigureRefused, Attach, ensureDbIsOpen, Return
<1>4. QED
  BY <1>1, <1>2, <1>3 DEF Attached

LEMMA ClearCloses ==
  ASSUME TypeOK, Clear
  PROVE  Freed(Slots) /\ ClosesOnly(Slots)
<1>1. Freed(Slots) /\ calls = <<>>
  BY DEF Clear, mex_module_deinit
<1>2. QED
  BY <1>1 DEF ClosesOnly, connectionIsBusy

\* Every command either leaves the functors alone, closes slots, or attaches a functor to
\* an open slot in which no running statement uses it.
LEMMA QuietEffect ==
  ASSUME TypeOK, QuietCommand
  PROVE  \/ KeepFunctors /\ ClosesOnly({})
         \/ \E S : Freed(S) /\ ClosesOnly(S)
         \/ \E f \in FcnNames, add \in BOOLEAN : Attached(f, add) /\ m_db' = m_db
<1>1. m_db' = m_db => ClosesOnly({})
  BY DEF ClosesOnly, isOpen
<1>2. ASSUME NEW req \in Requests, InvalidHandle(req) \/ StatementRefused(req)
      PROVE  KeepFunctors /\ m_db' = m_db
  BY <1>2 DEF InvalidHandle, InvalidDbHandle, StatementRefused, QueryNullDbid, QueryRefused
<1>3. ASSUME NEW req \in Requests, CreateFunction(req)
      PROVE  \/ KeepFunctors /\ ClosesOnly({})
             \/ \E f \in FcnNames, add \in BOOLEAN : Attached(f, add) /\ m_db' = m_db
  BY <1>1, <1>3, CreateAttaches
<1>4. QED
  BY <1>1, <1>2, <1>3, OpenCloses, CloseCloses, OtherCloses, ClearCloses DEF QuietCommand

LEMMA QuietMaps ==
  ASSUME FcnTypeOK, QuietCommand
  PROVE  m_fcnmap' \in [Slots -> SUBSET FcnNames] /\ registered' \in [Slots -> SUBSET FcnNames]
<1>1. TypeOK
  BY DEF FcnTypeOK
<1>2. CASE KeepFunctors
  BY <1>2 DEF KeepFunctors, FcnTypeOK
<1>3. QED
  BY <1>1, <1>2, QuietEffect, FreedType, AttachType DEF Attached

-----------------------------------------------------------------------------
(* The invariants *)

\* SQLite lets no function go that a running statement was compiled with.
StatementsRegistered ==
    \A i \in DOMAIN calls : frames[i].fcns \subseteq registered[calls[i].slot]

\* A function that is being called is marked.
BusyMarked ==
    \A i \in DOMAIN calls :
        frames[i].fcn # NoFcn => <<calls[i].slot, frames[i].fcn>> \in m_busy

FcnInv ==
    /\ FcnTypeOK
    /\ StatementsRegistered
    /\ FunctorsOfTheirDatabase
    /\ BusyMarked
    /\ NoRecursion
    /\ PendingHasOwner

LEMMA InitiallyFunctions == FcnInit => FcnInv
<1> SUFFICES ASSUME FcnInit PROVE FcnInv
  OBVIOUS
<1>1. TypeOK
  BY TypeInit DEF FcnInit
<1>2. calls = <<>> /\ frames = <<>>
  BY DEF FcnInit, Init
<1>3. FcnTypeOK
  <2>1. /\ m_fcnmap \in [Slots -> SUBSET FcnNames] /\ registered \in [Slots -> SUBSET FcnNames]
        /\ m_busy \subseteq Functors
    BY DEF FcnInit
  <2>2. "none" \in Exceptions
    BY DEF Exceptions
  <2>3. m_exception \in [Slots -> Exceptions] /\ thrown \in Exceptions /\ corrupt \in BOOLEAN
    BY <2>2 DEF FcnInit
  <2>4. \A F : << >> \in Seq(F)
    OBVIOUS
  <2>5. frames \in Seq(Frame) /\ Len(frames) = Len(calls)
    BY <1>2, <2>4
  <2>6. QED
    BY <1>1, <2>1, <2>3, <2>5 DEF FcnTypeOK
<1>4. FunctorsOfTheirDatabase
  BY DEF FcnInit, FunctorsOfTheirDatabase
<1>5. StatementsRegistered /\ BusyMarked /\ NoRecursion
  BY <1>2 DEF StatementsRegistered, BusyMarked, NoRecursion
<1>6. PendingHasOwner
  BY DEF FcnInit, PendingHasOwner
<1>7. QED
  BY <1>3, <1>4, <1>5, <1>6 DEF FcnInv

\* The calls and their frames, in step.
LEMMA Stacks ==
  ASSUME FcnTypeOK
  PROVE  /\ Len(calls) \in Nat
         /\ DOMAIN calls = 1 .. Len(calls) /\ DOMAIN frames = 1 .. Len(calls)
         /\ \A i \in 1 .. Len(calls) : calls[i].slot \in Slots /\ frames[i] \in Frame
         /\ calls # <<>> => Len(calls) \in 1 .. Len(calls)
<1>1. calls \in Seq(Call) /\ frames \in Seq(Frame) /\ Len(frames) = Len(calls)
  BY DEF FcnTypeOK, TypeOK
<1>2. \A c \in Call : c.slot \in Slots
  BY DEF Call
<1> HIDE DEF Call, Frame
<1>3. QED
  BY <1>1, <1>2

LEMMA QuietKeepsInv ==
  ASSUME FcnInv, TypeOK', QuietCommand
  PROVE  FcnInv'
<1>1. /\ calls' = calls /\ frames' = frames /\ m_busy' = m_busy /\ corrupt' = corrupt
      /\ FcnTypeOK /\ TypeOK
  BY QuietKeepsCalls DEF FcnInv, FcnTypeOK
<1>2. /\ m_exception' \in [Slots -> Exceptions]
      /\ thrown' \in Exceptions
      /\ NonePending'
  BY QuietNonePending DEF FcnInv
<1>3. FcnTypeOK'
  BY <1>1, <1>2, QuietMaps DEF FcnTypeOK
<1>4. \A s \in Slots : connectionIsBusy(s) => registered[s] \subseteq registered'[s]
  <2>1. CASE KeepFunctors
    BY <2>1 DEF KeepFunctors
  <2>2. ASSUME NEW S, Freed(S)
        PROVE  \A s \in Slots : connectionIsBusy(s) => registered[s] \subseteq registered'[s]
    BY <2>2 DEF Freed
  <2>3. ASSUME NEW f \in FcnNames, NEW add \in BOOLEAN, Attached(f, add)
        PROVE  \A s \in Slots : connectionIsBusy(s) => registered[s] \subseteq registered'[s]
    BY <1>1, <2>3 DEF Attached, attachMexFunction, CreateIsBusy, FcnTypeOK
  <2>4. QED
    BY <1>1, <2>1, <2>2, <2>3, QuietEffect
<1>5. StatementsRegistered'
  <2> SUFFICES ASSUME NEW i \in DOMAIN calls
               PROVE  frames[i].fcns \subseteq registered'[calls[i].slot]
    BY <1>1 DEF StatementsRegistered
  <2>1. calls[i].slot \in Slots /\ connectionIsBusy(calls[i].slot)
    BY <1>1, Stacks DEF connectionIsBusy
  <2>2. QED
    BY <1>4, <2>1 DEF StatementsRegistered, FcnInv
<1>6. FunctorsOfTheirDatabase'
  <2>1. FunctorsOfTheirDatabase
    BY DEF FcnInv
  <2>2. CASE KeepFunctors /\ ClosesOnly({})
    BY <2>1, <2>2 DEF KeepFunctors, ClosesOnly, FunctorsOfTheirDatabase, isOpen
  <2>3. ASSUME NEW S, Freed(S), ClosesOnly(S)
        PROVE  FunctorsOfTheirDatabase'
    BY <2>1, <2>3 DEF Freed, ClosesOnly, FunctorsOfTheirDatabase, isOpen
  <2>4. ASSUME NEW f \in FcnNames, NEW add \in BOOLEAN, Attached(f, add), m_db' = m_db
        PROVE  FunctorsOfTheirDatabase'
    <3>1. ASSUME NEW s \in Slots
          PROVE  m_fcnmap'[s] \subseteq registered'[s] /\ (m_db'[s] = NULL => registered'[s] = {})
      <4>1. CASE s = m_dbid
        BY <1>1, <2>1, <2>4, <4>1
        DEF Attached, attachMexFunction, FunctorsOfTheirDatabase, FcnTypeOK, isOpen
      <4>2. CASE s # m_dbid
        BY <1>1, <2>1, <2>4, <4>2
        DEF Attached, attachMexFunction, FunctorsOfTheirDatabase, FcnTypeOK, isOpen
      <4>3. QED
        BY <4>1, <4>2
    <3>2. QED
      BY <3>1 DEF FunctorsOfTheirDatabase, isOpen
  <2>5. QED
    BY <1>1, <2>2, <2>3, <2>4, QuietEffect
<1>7. BusyMarked' /\ NoRecursion'
  BY <1>1 DEF FcnInv, BusyMarked, NoRecursion
<1>8. PendingHasOwner'
  BY <1>2 DEF NonePending, PendingHasOwner
<1>9. QED
  BY <1>3, <1>5, <1>6, <1>7, <1>8 DEF FcnInv

\* The innermost frame is replaced ...
LEMMA InnerSet ==
  ASSUME FcnTypeOK, calls # <<>>, NEW frame \in Frame, SetInner(frame)
  PROVE  /\ frames' \in Seq(Frame) /\ Len(frames') = Len(calls)
         /\ \A i \in 1 .. Len(calls) :
               frames'[i] = IF i = Len(calls) THEN frame ELSE frames[i]
<1>1. frames \in Seq(Frame) /\ Len(frames) = Len(calls)
  BY DEF FcnTypeOK
<1>2. Len(calls) \in 1 .. Len(calls) /\ DOMAIN frames = 1 .. Len(calls)
  BY Stacks
<1> HIDE DEF Frame
<1>3. frames' = [frames EXCEPT ![Len(calls)] = frame]
  BY <1>1 DEF SetInner
<1>4. QED
  BY <1>1, <1>2, <1>3, ExceptSeq

\* ... and so is what the innermost call is doing.
LEMMA CallbackSet ==
  ASSUME FcnTypeOK, calls # <<>>, NEW b, SetCallback(b)
  PROVE  /\ Len(calls') = Len(calls) /\ DOMAIN calls' = 1 .. Len(calls)
         /\ \A i \in 1 .. Len(calls) : calls'[i].slot = calls[i].slot
         /\ calls' # <<>>
         /\ Top'.slot = Top.slot /\ Top'.callback = b
<1>1. calls \in Seq(Call) /\ DOMAIN calls = 1 .. Len(calls) /\ Len(calls) \in 1 .. Len(calls)
  BY Stacks DEF FcnTypeOK, TypeOK
<1>2. calls' = [calls EXCEPT ![Len(calls)] = [@ EXCEPT !.callback = b]]
  BY DEF SetCallback
<1>3. Len(calls') = Len(calls) /\ DOMAIN calls' = 1 .. Len(calls)
  BY <1>1, <1>2
<1>4. \A i \in 1 .. Len(calls) :
        calls'[i] = IF i = Len(calls) THEN [calls[i] EXCEPT !.callback = b] ELSE calls[i]
  BY <1>1, <1>2
<1>5. \A c \in Call : [c EXCEPT !.callback = b].slot = c.slot /\ [c EXCEPT !.callback = b].callback = b
  BY DEF Call
<1>6. \A i \in 1 .. Len(calls) : calls[i] \in Call
  BY <1>1
<1>7. calls' # <<>>
  BY <1>1, <1>3
<1>8. QED
  BY <1>1, <1>3, <1>4, <1>5, <1>6, <1>7 DEF Top

\* No exception is pending while the innermost statement runs on or is in a function.
LEMMA RunningNonePending ==
  ASSUME PendingHasOwner, calls # <<>>, Top.callback \/ ~Inner.failed
  PROVE  NonePending
  BY DEF PendingHasOwner, NonePending

LEMMA StartKeepsInv ==
  ASSUME FcnInv, TypeOK', NEW req \in Requests, StatementStart(req)
  PROVE  FcnInv'
<1> DEFINE n == Len(calls)
           new == [fcns |-> registered[m_dbid'], fcn |-> NoFcn, failed |-> FALSE]
<1>1. /\ UNCHANGED <<m_db, m_fcnmap, registered, m_busy, m_exception, thrown, corrupt>>
      /\ calls' = Append(calls, [slot |-> m_dbid', callback |-> FALSE])
      /\ frames' = Append(frames, new)
      /\ m_dbid' = dbid(req) - 1 /\ req # 0
      /\ Callable /\ ValidRequest(req)
  BY DEF StatementStart, QueryStart, Intact
<1>2. m_dbid' \in Slots
  BY <1>1, DbidSelects
<1>3. FcnTypeOK /\ frames \in Seq(Frame) /\ Len(frames) = n /\ calls \in Seq(Call)
  BY DEF FcnInv, FcnTypeOK, TypeOK
<1>4. new \in Frame
  BY <1>2, <1>3 DEF Frame, FcnTypeOK
<1>5. NonePending
  BY <1>1, CallableNonePending DEF FcnInv
<1>6. /\ Len(calls') = n + 1 /\ DOMAIN calls' = 1 .. n + 1 /\ n \in Nat
      /\ \A i \in 1 .. n + 1 :
            calls'[i] = IF i = n + 1 THEN [slot |-> m_dbid', callback |-> FALSE] ELSE calls[i]
  BY <1>1, <1>3
<1> HIDE DEF new
<1>7. /\ frames' \in Seq(Frame) /\ Len(frames') = n + 1
      /\ \A i \in 1 .. n + 1 : frames'[i] = IF i = n + 1 THEN new ELSE frames[i]
  <2> HIDE DEF Frame
  <2>1. QED
    BY <1>1, <1>3, <1>4
<1>8. \A i \in 1 .. n + 1 : i # n + 1 => i \in DOMAIN calls
  BY <1>3, <1>6
<1>9. new.fcn = NoFcn /\ new.fcns = registered[m_dbid']
  BY DEF new
<1>10. FcnTypeOK'
  BY <1>1, <1>3, <1>6, <1>7 DEF FcnTypeOK
<1>11. StatementsRegistered'
  BY <1>1, <1>6, <1>7, <1>8, <1>9 DEF FcnInv, StatementsRegistered
<1>12. FunctorsOfTheirDatabase'
  BY <1>1 DEF FcnInv, FunctorsOfTheirDatabase, isOpen
<1>13. BusyMarked'
  BY <1>1, <1>6, <1>7, <1>8, <1>9 DEF FcnInv, BusyMarked
<1>14. NoRecursion'
  <2> SUFFICES ASSUME NEW i \in 1 .. n + 1, NEW j \in 1 .. n + 1, i # j,
                      frames'[i].fcn = frames'[j].fcn, calls'[i].slot = calls'[j].slot
               PROVE  frames'[i].fcn = NoFcn
    BY <1>6 DEF NoRecursion
  <2>1. CASE i = n + 1 \/ j = n + 1
    BY <1>7, <1>9, <2>1
  <2>2. CASE i # n + 1 /\ j # n + 1
    BY <1>6, <1>7, <1>8, <2>2 DEF FcnInv, NoRecursion
  <2>3. QED
    BY <2>1, <2>2
<1>15. PendingHasOwner'
  BY <1>1, <1>5 DEF NonePending, PendingHasOwner
<1>16. QED
  BY <1>10, <1>11, <1>12, <1>13, <1>14, <1>15 DEF FcnInv

\* The frame of a statement that is about to call a function.
LEMMA CallsFacts ==
  ASSUME FcnInv, NEW f \in FcnNames, Calls(f)
  PROVE  /\ calls # <<>> /\ NonePending /\ Inner = frames[Len(calls)]
         /\ Inner \in Frame /\ Top = calls[Len(calls)] /\ Top.slot \in Slots
<1>1. FcnTypeOK /\ Len(frames) = Len(calls)
  BY DEF FcnInv, FcnTypeOK
<1>2. calls # <<>> /\ ~Inner.failed
  BY DEF Calls
<1>3. NonePending
  BY <1>2, RunningNonePending DEF FcnInv
<1>4. QED
  BY <1>1, <1>2, <1>3, Stacks DEF Inner, Top

LEMMA RecursiveKeepsInv ==
  ASSUME FcnInv, NEW f \in FcnNames, CallRecursive(f)
  PROVE  FcnInv'
<1> DEFINE n == Len(calls)
           frame == [Inner EXCEPT !.failed = TRUE]
<1>1. /\ UNCHANGED <<m_db, m_dbid, calls, reply, crashed>>
      /\ UNCHANGED <<m_fcnmap, registered, m_busy, m_exception, thrown, corrupt>>
      /\ SetInner(frame) /\ Calls(f)
  BY DEF CallRecursive, vars, Intact
<1>2. FcnTypeOK /\ calls # <<>> /\ NonePending /\ Inner = frames[n] /\ Inner \in Frame
  BY <1>1, CallsFacts DEF FcnInv
<1>3. frame \in Frame /\ frame.fcns = frames[n].fcns /\ frame.fcn = frames[n].fcn
  BY <1>2 DEF Frame
<1> HIDE DEF frame
<1>4. /\ frames' \in Seq(Frame) /\ Len(frames') = n
      /\ \A i \in 1 .. n : frames'[i] = IF i = n THEN frame ELSE frames[i]
  BY <1>1, <1>2, <1>3, InnerSet
<1>5. DOMAIN calls = 1 .. n
  BY <1>2, Stacks
<1>6. \A i \in DOMAIN calls :
        frames'[i].fcns = frames[i].fcns /\ frames'[i].fcn = frames[i].fcn
  BY <1>3, <1>4, <1>5
<1>7. TypeOK'
  BY <1>1, <1>2 DEF FcnTypeOK, TypeOK
<1>8. FcnTypeOK'
  BY <1>1, <1>2, <1>4, <1>7 DEF FcnTypeOK
<1>9. StatementsRegistered' /\ BusyMarked'
  BY <1>1, <1>6 DEF FcnInv, StatementsRegistered, BusyMarked
<1>10. NoRecursion'
  BY <1>1, <1>6 DEF FcnInv, NoRecursion
<1>11. FunctorsOfTheirDatabase'
  BY <1>1 DEF FcnInv, FunctorsOfTheirDatabase, isOpen
<1>12. PendingHasOwner'
  BY <1>1, <1>2 DEF NonePending, PendingHasOwner
<1>13. QED
  BY <1>8, <1>9, <1>10, <1>11, <1>12 DEF FcnInv

LEMMA CallKeepsInv ==
  ASSUME FcnInv, TypeOK', NEW f \in FcnNames, CallFunction(f)
  PROVE  FcnInv'
<1> DEFINE n == Len(calls)
           frame == [Inner EXCEPT !.fcn = f]
<1>1. /\ UNCHANGED <<m_db, m_fcnmap, registered, m_exception, thrown, corrupt>>
      /\ SetInner(frame) /\ SetCallback(TRUE) /\ Calls(f)
      /\ <<Top.slot, f>> \notin m_busy
      /\ m_busy' = m_busy \union {<<Top.slot, f>>}
  BY DEF CallFunction, CallbackEnter, Intact
<1>2. /\ FcnTypeOK /\ calls # <<>> /\ NonePending /\ Inner = frames[n] /\ Inner \in Frame
      /\ Top = calls[n] /\ Top.slot \in Slots
  BY <1>1, CallsFacts DEF FcnInv
<1>3. frame \in Frame /\ frame.fcns = frames[n].fcns /\ frame.fcn = f
  BY <1>2 DEF Frame
<1> HIDE DEF frame
<1>4. /\ frames' \in Seq(Frame) /\ Len(frames') = n
      /\ \A i \in 1 .. n : frames'[i] = IF i = n THEN frame ELSE frames[i]
  BY <1>1, <1>2, <1>3, InnerSet
<1>5. /\ DOMAIN calls = 1 .. n /\ n \in 1 .. n
      /\ Len(calls') = n /\ DOMAIN calls' = 1 .. n
      /\ \A i \in 1 .. n : calls'[i].slot = calls[i].slot
  BY <1>1, <1>2, CallbackSet, Stacks
<1>6. FcnTypeOK'
  <2>1. m_busy' \subseteq Functors
    BY <1>1, <1>2 DEF FcnTypeOK, Functors
  <2>2. QED
    BY <1>1, <1>2, <1>4, <1>5, <2>1 DEF FcnTypeOK
<1>7. StatementsRegistered'
  <2>1. \A i \in 1 .. n : frames'[i].fcns = frames[i].fcns
    BY <1>3, <1>4
  <2>2. QED
    BY <1>1, <1>5, <2>1 DEF FcnInv, StatementsRegistered
<1>8. BusyMarked'
  <2>1. ASSUME NEW i \in 1 .. n, frames'[i].fcn # NoFcn
        PROVE  <<calls[i].slot, frames'[i].fcn>> \in m_busy'
    <3>1. CASE i = n
      BY <1>1, <1>2, <1>3, <1>4, <3>1
    <3>2. CASE i # n
      BY <1>1, <1>4, <1>5, <2>1, <3>2 DEF FcnInv, BusyMarked
    <3>3. QED
      BY <3>1, <3>2
  <2>2. QED
    BY <1>5, <2>1 DEF BusyMarked
<1>9. NoRecursion'
  <2>1. \A i \in 1 .. n : i # n /\ frames[i].fcn = f => calls[i].slot # Top.slot
    BY <1>1, <1>5, NoFcnAssumption DEF FcnInv, BusyMarked
  <2> SUFFICES ASSUME NEW i \in 1 .. n, NEW j \in 1 .. n, i # j,
                      frames'[i].fcn = frames'[j].fcn, calls[i].slot = calls[j].slot
               PROVE  frames'[i].fcn = NoFcn
    BY <1>5 DEF NoRecursion
  <2>2. CASE i = n
    BY <1>2, <1>3, <1>4, <2>1, <2>2
  <2>3. CASE j = n
    BY <1>2, <1>3, <1>4, <2>1, <2>3
  <2>4. CASE i # n /\ j # n
    BY <1>4, <1>5, <2>4 DEF FcnInv, NoRecursion
  <2>5. QED
    BY <2>2, <2>3, <2>4
<1>10. FunctorsOfTheirDatabase'
  BY <1>1 DEF FcnInv, FunctorsOfTheirDatabase, isOpen
<1>11. PendingHasOwner'
  BY <1>1, <1>2 DEF NonePending, PendingHasOwner
<1>12. QED
  BY <1>6, <1>7, <1>8, <1>9, <1>10, <1>11 DEF FcnInv

LEMMA ReturnKeepsInv ==
  ASSUME FcnInv, TypeOK', NEW outcome, FunctionReturn(outcome)
  PROVE  FcnInv'
<1> DEFINE n == Len(calls)
           frame == [Inner EXCEPT !.fcn = NoFcn, !.failed = outcome # "value"]
<1>1. /\ UNCHANGED <<m_db, m_fcnmap, registered, thrown, corrupt>>
      /\ SetInner(frame) /\ SetCallback(FALSE) /\ calls # <<>> /\ Top.callback
      /\ m_busy' = m_busy \ {<<Top.slot, Inner.fcn>>}
  BY DEF FunctionReturn, CallbackLeave, Intact
<1>2. FcnTypeOK /\ Len(frames) = n /\ NonePending
  BY <1>1, RunningNonePending DEF FcnInv, FcnTypeOK
<1>3. Inner = frames[n] /\ Inner \in Frame /\ Top = calls[n] /\ Top.slot \in Slots
  BY <1>1, <1>2, Stacks DEF Inner, Top
<1>4. /\ frame \in Frame /\ frame.fcns = frames[n].fcns /\ frame.fcn = NoFcn
      /\ frame.failed = (outcome # "value")
  BY <1>3 DEF Frame
<1> HIDE DEF frame
<1>5. /\ frames' \in Seq(Frame) /\ Len(frames') = n
      /\ \A i \in 1 .. n : frames'[i] = IF i = n THEN frame ELSE frames[i]
  BY <1>1, <1>2, <1>4, InnerSet
<1>6. /\ DOMAIN calls = 1 .. n /\ n \in 1 .. n
      /\ Len(calls') = n /\ DOMAIN calls' = 1 .. n /\ calls' # <<>>
      /\ \A i \in 1 .. n : calls'[i].slot = calls[i].slot
      /\ Top'.slot = Top.slot /\ Top'.callback = FALSE
  BY <1>1, <1>2, CallbackSet, Stacks
<1>7. /\ m_exception' \in [Slots -> Exceptions]
      /\ \A s \in Slots : m_exception'[s] = "pending" => s = Top.slot /\ outcome = "exception"
  <2>1. "pending" \in Exceptions /\ m_exception \in [Slots -> Exceptions]
    BY <1>2 DEF Exceptions, FcnTypeOK
  <2>2. m_exception' = IF outcome = "exception"
                       THEN [m_exception EXCEPT ![Top.slot] = "pending"]
                       ELSE m_exception
    BY DEF FunctionReturn
  <2>3. QED
    BY <1>2, <2>1, <2>2 DEF NonePending
<1>8. FcnTypeOK'
  <2>1. m_busy' \subseteq Functors
    BY <1>1, <1>2 DEF FcnTypeOK
  <2>2. QED
    BY <1>1, <1>2, <1>5, <1>6, <1>7, <2>1 DEF FcnTypeOK
<1>9. StatementsRegistered'
  <2>1. \A i \in 1 .. n : frames'[i].fcns = frames[i].fcns
    BY <1>4, <1>5
  <2>2. QED
    BY <1>1, <1>6, <2>1 DEF FcnInv, StatementsRegistered
<1>10. BusyMarked'
  <2>1. ASSUME NEW i \in 1 .. n, frames'[i].fcn # NoFcn
        PROVE  <<calls[i].slot, frames'[i].fcn>> \in m_busy'
    <3>1. i # n /\ frames'[i].fcn = frames[i].fcn
      BY <1>4, <1>5, <2>1
    <3>2. <<calls[i].slot, frames[i].fcn>> \in m_busy
      BY <1>6, <2>1, <3>1 DEF FcnInv, BusyMarked
    <3>3. calls[i].slot # calls[n].slot \/ frames[i].fcn # frames[n].fcn
      BY <1>6, <2>1, <3>1 DEF FcnInv, NoRecursion
    <3>4. QED
      BY <1>1, <1>3, <3>1, <3>2, <3>3
  <2>2. QED
    BY <1>6, <2>1 DEF BusyMarked
<1>11. NoRecursion'
  <2> SUFFICES ASSUME NEW i \in 1 .. n, NEW j \in 1 .. n, i # j,
                      frames'[i].fcn = frames'[j].fcn, calls[i].slot = calls[j].slot
               PROVE  frames'[i].fcn = NoFcn
    BY <1>6 DEF NoRecursion
  <2>1. CASE i = n \/ j = n
    BY <1>4, <1>5, <2>1
  <2>2. CASE i # n /\ j # n
    BY <1>5, <1>6, <2>2 DEF FcnInv, NoRecursion
  <2>3. QED
    BY <2>1, <2>2
<1>12. FunctorsOfTheirDatabase'
  BY <1>1 DEF FcnInv, FunctorsOfTheirDatabase, isOpen
<1>13. PendingHasOwner'
  <2>1. Inner'.failed = (outcome # "value")
    BY <1>4, <1>5, <1>6 DEF Inner
  <2>2. QED
    BY <1>6, <1>7, <2>1 DEF PendingHasOwner
<1>14. QED
  BY <1>8, <1>9, <1>10, <1>11, <1>12, <1>13 DEF FcnInv

LEMMA EndKeepsInv ==
  ASSUME FcnInv, TypeOK', NEW res, StatementEnd(res)
  PROVE  FcnInv'
<1> DEFINE n == Len(calls)
<1>1. /\ UNCHANGED <<m_db, m_fcnmap, registered, m_busy, corrupt>>
      /\ calls # <<>> /\ calls' = SubSeq(calls, 1, n - 1)
      /\ frames' = SubSeq(frames, 1, Len(frames) - 1)
      /\ ~crashed' /\ Leave
  BY DEF StatementEnd, QueryEnd, Intact
<1>2. /\ FcnTypeOK /\ calls \in Seq(Call) /\ frames \in Seq(Frame) /\ Len(frames) = n
      /\ n \in 1 .. n /\ DOMAIN calls = 1 .. n
  BY <1>1, Stacks DEF FcnInv, FcnTypeOK, TypeOK
<1>3. /\ Len(calls') = n - 1 /\ DOMAIN calls' = 1 .. n - 1
      /\ \A i \in 1 .. n - 1 : calls'[i] = calls[i]
  <2> HIDE DEF Call
  <2>1. QED
    BY <1>1, <1>2, SubSeqProperties
<1>4. /\ frames' \in Seq(Frame) /\ Len(frames') = n - 1
      /\ \A i \in 1 .. n - 1 : frames'[i] = frames[i]
  <2> HIDE DEF Frame
  <2>1. QED
    BY <1>1, <1>2, SubSeqProperties
<1>5. \A i \in 1 .. n - 1 : i \in DOMAIN calls
  BY <1>2
<1>6. /\ m_exception' \in [Slots -> Exceptions]
      /\ thrown' \in Exceptions
      /\ NonePending'
  BY <1>1, <1>2, ThrowClears DEF Leave
<1>7. FcnTypeOK'
  BY <1>1, <1>2, <1>3, <1>4, <1>6 DEF FcnTypeOK
<1>8. StatementsRegistered' /\ BusyMarked'
  BY <1>1, <1>3, <1>4, <1>5 DEF FcnInv, StatementsRegistered, BusyMarked
<1>9. NoRecursion'
  BY <1>3, <1>4, <1>5 DEF FcnInv, NoRecursion
<1>10. FunctorsOfTheirDatabase'
  BY <1>1 DEF FcnInv, FunctorsOfTheirDatabase, isOpen
<1>11. PendingHasOwner'
  BY <1>6 DEF NonePending, PendingHasOwner
<1>12. QED
  BY <1>7, <1>8, <1>9, <1>10, <1>11 DEF FcnInv

\* Nothing is said of the state once freed memory has been used: it is left as it is.
LEMMA SameKeepsInv ==
  ASSUME FcnInv, UNCHANGED vars, corrupt' \in BOOLEAN,
         UNCHANGED <<m_fcnmap, registered, m_busy, frames, m_exception, thrown>>
  PROVE  FcnInv'
<1>1. FcnTypeOK'
  BY DEF FcnInv, FcnTypeOK, TypeOK, vars
<1>2. StatementsRegistered' /\ FunctorsOfTheirDatabase'
  BY DEF FcnInv, StatementsRegistered, FunctorsOfTheirDatabase, isOpen, vars
<1>3. BusyMarked' /\ NoRecursion'
  BY DEF FcnInv, BusyMarked, NoRecursion, vars
<1>4. PendingHasOwner'
  BY DEF FcnInv, PendingHasOwner, Top, Inner, vars
<1>5. QED
  BY <1>1, <1>2, <1>3, <1>4 DEF FcnInv

LEMMA StepKeepsInv == FcnInv /\ [FcnNext]_allVars => FcnInv'
<1> SUFFICES ASSUME FcnInv, [FcnNext]_allVars PROVE FcnInv'
  OBVIOUS
<1>1. TypeOK'
  BY StepIsStep, TypeNext DEF FcnInv, FcnTypeOK
<1>2. ASSUME NEW req \in Requests, FcnCommand(req)
      PROVE  FcnInv'
  <2>1. QuietCommand \/ StatementStart(req)
    BY <1>2 DEF FcnCommand, QuietCommand
  <2>2. QED
    BY <1>1, <2>1, QuietKeepsInv, StartKeepsInv
<1>3. ASSUME NEW f \in FcnNames, FunctionCall(f)
      PROVE  FcnInv'
  <2>1. CallFreed(f) => FcnInv'
    BY SameKeepsInv DEF CallFreed
  <2>2. QED
    BY <1>1, <1>3, <2>1, RecursiveKeepsInv, CallKeepsInv DEF FunctionCall
<1>4. ReturnToFreed => FcnInv'
  BY SameKeepsInv DEF ReturnToFreed
<1>5. Clear => FcnInv'
  BY <1>1, QuietKeepsInv DEF QuietCommand
<1>6. UNCHANGED allVars => FcnInv'
  <2> SUFFICES ASSUME UNCHANGED allVars PROVE FcnInv'
    OBVIOUS
  <2>1. corrupt \in BOOLEAN
    BY DEF FcnInv, FcnTypeOK
  <2>2. QED
    BY <2>1, SameKeepsInv DEF allVars, fcnVars
<1>7. QED
  BY <1>1, <1>2, <1>3, <1>4, <1>5, <1>6, ReturnKeepsInv, EndKeepsInv DEF FcnNext

LEMMA FcnAlways == FcnSpec => []FcnInv
<1>1. FcnInit => FcnInv
  BY InitiallyFunctions
<1>2. FcnInv /\ [FcnNext]_allVars => FcnInv'
  BY StepKeepsInv
<1>3. QED
  BY <1>1, <1>2, PTL DEF FcnSpec

\* The functors, registrations, frames and exceptions keep their types, and there is one
\* frame for each running statement (m_fcnmap, m_exception, mexFcnWrapper).
THEOREM FunctorsTypeCorrect == FcnSpec => []FcnTypeOK
  BY FcnAlways, PTL DEF FcnInv

\* A functor that a slot owns is registered with its connection, and closing a slot
\* leaves it nothing for the next database (closeDb, attachMexFunction).
THEOREM FunctorsBelong == FcnSpec => []FunctorsOfTheirDatabase
  BY FcnAlways, PTL DEF FcnInv

\* No function is in progress twice in one slot, at any depth of calls (m_busy).
THEOREM FunctionsAreNotReentered == FcnSpec => []NoRecursion
  BY FcnAlways, PTL DEF FcnInv

\* An exception is pending only for the innermost statement, which is about to fail on
\* it: it is thrown before any other command runs (mexFunction, throwOnException).
THEOREM PendingBelongs == FcnSpec => []PendingHasOwner
  BY FcnAlways, PTL DEF FcnInv

-----------------------------------------------------------------------------
(* What a step may not do to the functors *)

\* The commands that close slots under a running statement say so in their reply.
LEMMA OnlyOpenCloseFree ==
  ASSUME TypeOK, QuietCommand
  PROVE  \/ KeepFunctors
         \/ \E f \in FcnNames, add \in BOOLEAN : Attached(f, add)
         \/ \E S : Freed(S) /\ (reply'.cmd \in {"open", "close"} \/ calls = <<>>)
<1>1. ASSUME NEW req \in Requests, Open(req)
      PROVE  reply'.cmd = "open" /\ \E S : Freed(S)
  BY <1>1 DEF Open, cmdHandleOpen, OpenNoFreeSlot, OpenNoArgument, OpenBusySlot, OpenSlot, Return
<1>2. ASSUME NEW req \in Requests, Close(req)
      PROVE  reply'.cmd = "close" /\ \E S : Freed(S)
  BY <1>2 DEF Close, cmdHandleClose, CloseWithArgument, closeAllDbs, CloseSlot, Return
<1>3. Clear => calls = <<>> /\ Freed(Slots)
  BY DEF Clear, mex_module_deinit
<1>4. ASSUME NEW req \in Requests, InvalidHandle(req) \/ Other(req) \/ StatementRefused(req)
      PROVE  KeepFunctors
  BY <1>4 DEF InvalidHandle, Other, StatementRefused
<1>5. QED
  BY <1>1, <1>2, <1>3, <1>4, CreateAttaches DEF QuietCommand

\* The steps of a statement leave every functor and every registration alone.
LEMMA RunningKeeps ==
  ASSUME FcnNext, ~QuietCommand
  PROVE  m_fcnmap' = m_fcnmap /\ registered' = registered
<1>1. ASSUME NEW f, FunctionCall(f)
      PROVE  m_fcnmap' = m_fcnmap /\ registered' = registered
  BY <1>1 DEF FunctionCall, CallRecursive, CallFunction, CallFreed
<1>2. ASSUME NEW req \in Requests, FcnCommand(req)
      PROVE  m_fcnmap' = m_fcnmap /\ registered' = registered
  BY <1>2 DEF FcnCommand, QuietCommand, StatementStart
<1>3. QED
  BY <1>1, <1>2 DEF FcnNext, QuietCommand, FunctionReturn, ReturnToFreed, StatementEnd

\* They leave the functions alone that any statement was compiled with.
LEMMA RunningKeepsFcns ==
  ASSUME FcnInv, FcnNext, ~QuietCommand, NEW i \in DOMAIN calls \intersect DOMAIN calls'
  PROVE  frames'[i].fcns = frames[i].fcns
<1> DEFINE n == Len(calls)
<1>1. /\ FcnTypeOK /\ frames \in Seq(Frame) /\ Len(frames) = n
      /\ calls \in Seq(Call) /\ i \in 1 .. n /\ calls # <<>> /\ Inner = frames[n]
      /\ Inner \in Frame
  BY Stacks DEF FcnInv, FcnTypeOK, TypeOK, Inner
<1>2. ASSUME NEW frame \in Frame, SetInner(frame), frame.fcns = Inner.fcns
      PROVE  frames'[i].fcns = frames[i].fcns
  BY <1>1, <1>2, InnerSet
<1>3. ASSUME NEW f \in FcnNames, FunctionCall(f)
      PROVE  frames'[i].fcns = frames[i].fcns
  <2>1. /\ [Inner EXCEPT !.failed = TRUE] \in Frame
        /\ [Inner EXCEPT !.failed = TRUE].fcns = Inner.fcns
        /\ [Inner EXCEPT !.fcn = f] \in Frame
        /\ [Inner EXCEPT !.fcn = f].fcns = Inner.fcns
    BY <1>1 DEF Frame
  <2>2. CallFreed(f) => frames' = frames
    BY DEF CallFreed
  <2>3. CallRecursive(f) => SetInner([Inner EXCEPT !.failed = TRUE])
    BY DEF CallRecursive
  <2>4. CallFunction(f) => SetInner([Inner EXCEPT !.fcn = f])
    BY DEF CallFunction
  <2>5. QED
    BY <1>2, <1>3, <2>1, <2>2, <2>3, <2>4 DEF FunctionCall
<1>4. ASSUME NEW outcome, FunctionReturn(outcome)
      PROVE  frames'[i].fcns = frames[i].fcns
  <2>1. /\ [Inner EXCEPT !.fcn = NoFcn, !.failed = outcome # "value"] \in Frame
        /\ [Inner EXCEPT !.fcn = NoFcn, !.failed = outcome # "value"].fcns = Inner.fcns
    BY <1>1 DEF Frame
  <2>2. SetInner([Inner EXCEPT !.fcn = NoFcn, !.failed = outcome # "value"])
    BY <1>4 DEF FunctionReturn
  <2>3. QED
    BY <1>2, <2>1, <2>2
<1>5. ASSUME NEW res, StatementEnd(res)
      PROVE  frames'[i].fcns = frames[i].fcns
  <2>1. calls' = SubSeq(calls, 1, n - 1) /\ frames' = SubSeq(frames, 1, n - 1)
    BY <1>1, <1>5 DEF StatementEnd, QueryEnd
  <2> HIDE DEF Frame, Call
  <2>2. /\ n \in Nat /\ n >= 1 /\ DOMAIN calls' = 1 .. n - 1
        /\ \A k \in 1 .. n - 1 : frames'[k] = frames[k]
    BY <1>1, <2>1, SubSeqProperties
  <2>3. QED
    BY <2>2
<1>6. ASSUME NEW req \in Requests, StatementStart(req)
      PROVE  frames'[i].fcns = frames[i].fcns
  <2> HIDE DEF Frame
  <2>1. frames' = Append(frames, [fcns |-> registered[m_dbid'], fcn |-> NoFcn, failed |-> FALSE])
    BY <1>6 DEF StatementStart
  <2>2. QED
    BY <1>1, <2>1, AppendProperties
<1>7. ReturnToFreed => frames' = frames
  BY DEF ReturnToFreed
<1>8. QED
  BY <1>3, <1>4, <1>5, <1>6, <1>7 DEF FcnNext, FcnCommand, QuietCommand

\* Map and connection go apart only in an 'open' or a 'close' that SQLite refuses.
THEOREM CloseAloneDangles == FcnSpec => OnlyRefusedCloseDangles
<1> DEFINE Dangles(s) ==
      \/ registered'[s] \ m_fcnmap'[s] \subseteq registered[s] \ m_fcnmap[s]
      \/ reply'.cmd \in {"open", "close"} /\ connectionIsBusy(s)
<1>1. ASSUME FcnInv, FcnNext, NEW s \in Slots
      PROVE  Dangles(s)
  <2>1. FcnTypeOK /\ TypeOK
    BY <1>1 DEF FcnInv, FcnTypeOK
  <2>2. CASE m_fcnmap' = m_fcnmap /\ registered' = registered
    BY <2>2
  <2>3. ASSUME NEW f \in FcnNames, NEW add \in BOOLEAN, Attached(f, add)
        PROVE  Dangles(s)
    BY <2>1, <2>3 DEF Attached, attachMexFunction, FcnTypeOK
  <2>4. ASSUME NEW S, Freed(S), reply'.cmd \in {"open", "close"} \/ calls = <<>>
        PROVE  Dangles(s)
    <3>1. calls = <<>> => ~connectionIsBusy(s)
      BY DEF connectionIsBusy
    <3>2. QED
      BY <2>4, <3>1 DEF Freed
  <2>5. QED
    BY <1>1, <2>1, <2>2, <2>3, <2>4, OnlyOpenCloseFree, RunningKeeps DEF KeepFunctors
<1>2. FcnInv /\ [FcnNext]_allVars =>
        [\A s \in Slots :
           registered'[s] \ m_fcnmap'[s] \subseteq registered[s] \ m_fcnmap[s]
              \/ (reply'.cmd \in {"open", "close"} /\ connectionIsBusy(s))]_allVars
  BY <1>1
<1> HIDE DEF Dangles
<1>3. QED
  BY <1>2, FcnAlways, PTL DEF FcnSpec, OnlyRefusedCloseDangles

\* No step but an 'open' or a 'close' of its slot takes a functor from a statement that
\* goes on, and none changes the functions the statement was compiled with.
THEOREM StatementsKeepTheirFunctors == FcnSpec => StatementsKeepFunctions
<1> DEFINE Keeps(i) ==
      /\ frames'[i].fcns = frames[i].fcns
      /\ \/ frames[i].fcns \intersect m_fcnmap[calls[i].slot] \subseteq m_fcnmap'[calls[i].slot]
         \/ reply'.cmd \in {"open", "close"} /\ m_fcnmap'[calls[i].slot] = {}
<1>1. ASSUME FcnInv, QuietCommand, NEW i \in DOMAIN calls
      PROVE  Keeps(i)
  <2> DEFINE s == calls[i].slot
  <2>1. /\ FcnTypeOK /\ TypeOK /\ frames' = frames
        /\ s \in Slots /\ calls # <<>> /\ connectionIsBusy(s)
    BY <1>1, QuietKeepsCalls, Stacks DEF FcnInv, FcnTypeOK, connectionIsBusy
  <2>2. frames[i].fcns \subseteq registered[s]
    BY <1>1 DEF FcnInv, StatementsRegistered
  <2> HIDE DEF s
  <2>3. CASE KeepFunctors
    BY <2>1, <2>3 DEF KeepFunctors, s
  <2>4. ASSUME NEW f \in FcnNames, NEW add \in BOOLEAN, Attached(f, add)
        PROVE  frames[i].fcns \intersect m_fcnmap[s] \subseteq m_fcnmap'[s]
    <3>1. s # m_dbid \/ f \notin frames[i].fcns
      BY <2>1, <2>2, <2>4 DEF Attached, CreateIsBusy
    <3>2. QED
      BY <2>1, <2>4, <3>1 DEF Attached, attachMexFunction, FcnTypeOK
  <2>5. ASSUME NEW S, Freed(S), reply'.cmd \in {"open", "close"} \/ calls = <<>>
        PROVE  \/ frames[i].fcns \intersect m_fcnmap[s] \subseteq m_fcnmap'[s]
               \/ reply'.cmd \in {"open", "close"} /\ m_fcnmap'[s] = {}
    BY <2>1, <2>5 DEF Freed
  <2>6. QED
    BY <1>1, <2>1, <2>3, <2>4, <2>5, OnlyOpenCloseFree DEF s
<1>2. ASSUME FcnInv, FcnNext, ~QuietCommand, NEW i \in DOMAIN calls \intersect DOMAIN calls'
      PROVE  Keeps(i)
  <2>1. m_fcnmap' = m_fcnmap
    BY <1>2, RunningKeeps
  <2>2. frames'[i].fcns = frames[i].fcns
    BY <1>2, RunningKeepsFcns
  <2>3. QED
    BY <2>1, <2>2
<1>3. FcnInv /\ [FcnNext]_allVars =>
        [\A i \in DOMAIN calls \intersect DOMAIN calls' :
           LET s == calls[i].slot
           IN  /\ frames'[i].fcns = frames[i].fcns
               /\ \/ frames[i].fcns \intersect m_fcnmap[s] \subseteq m_fcnmap'[s]
                  \/ reply'.cmd \in {"open", "close"} /\ m_fcnmap'[s] = {}]_allVars
  BY <1>1, <1>2
<1> HIDE DEF Keeps
<1>4. QED
  BY <1>3, FcnAlways, PTL DEF FcnSpec, StatementsKeepFunctions
=============================================================================
