---------------------------- MODULE DbSlotsProofs ----------------------------
(***************************************************************************)
(* What holds of DbSlots for every number of slots, every set of timeouts  *)
(* and every bound on the nesting.                                         *)
(***************************************************************************)
EXTENDS DbSlots, WellFoundedInduction, SequenceTheorems, TLAPS

-----------------------------------------------------------------------------
(* The slots and the choice of a free one *)

\* The slots are natural numbers and -1 is not one; the ids are one larger.
LEMMA SlotsFacts ==
    /\ Slots \subseteq Nat
    /\ 0 \in Slots
    /\ NoSlot \notin Slots
    /\ \A s \in Slots : s + 1 \in Requests /\ s + 1 # 0
  BY CountAssumption DEF Slots, NoSlot, Requests, Missing

\* A nonempty set of slots has a least one.
LEMMA LeastSlot ==
  ASSUME NEW T \in SUBSET Slots, T # {}
  PROVE  \E s \in T : \A t \in T : s <= t
<1>1. T \subseteq Nat
  BY SlotsFacts
<1>2. \E x \in T : \A y \in T : ~ (<<y, x>> \in OpToRel(<, Nat))
  BY <1>1, NatLessThanWellFounded, WFMin, Zenon
<1>3. PICK x \in T : \A y \in T : ~ (<<y, x>> \in OpToRel(<, Nat))
  BY <1>2
<1>4. ASSUME NEW y \in T PROVE x <= y
  <2>1. ~ (y < x)
    BY <1>1, <1>3 DEF OpToRel
  <2>2. QED
    BY <1>1, <2>1
<1>5. QED
  BY <1>4

\* getNextFreeId returns a closed slot if there is one, and -1 otherwise.
LEMMA NextFree ==
    \/ getNextFreeId = NoSlot /\ \A s \in Slots : isOpen(s)
    \/ getNextFreeId \in Slots /\ ~isOpen(getNextFreeId)
<1>1. CASE \E s \in Slots : ~isOpen(s)
  <2> DEFINE Free == {s \in Slots : ~isOpen(s)}
  <2>1. \E s \in Free : \A t \in Free : s <= t
    BY <1>1, LeastSlot, Free \in SUBSET Slots, Free # {}
  <2>2. \E s \in Slots : ~isOpen(s) /\ \A t \in Slots : ~isOpen(t) => s <= t
    BY <2>1
  <2>3. QED
    BY <1>1, <2>2 DEF getNextFreeId
<1>2. CASE ~ \E s \in Slots : ~isOpen(s)
  BY <1>2 DEF getNextFreeId
<1>3. QED
  BY <1>1, <1>2

\* The slot a valid request selects, if it selects one.
LEMMA DbidSelects ==
  ASSUME NEW req \in Requests, ValidRequest(req)
  PROVE  /\ dbid(req) # 0 => dbid(req) - 1 \in Slots
         /\ req # 0 => dbid(req) # 0
         /\ dbid(req) = 0 => req = 0 /\ \A s \in Slots : isOpen(s)
         /\ req = 0 /\ dbid(req) # 0 => ~isOpen(dbid(req) - 1)
         /\ CloseTarget(req) \in Slots
<1>1. CASE req = 0
  <2>1. dbid(req) = getNextFreeId + 1 /\ CloseTarget(req) = 0
    BY <1>1 DEF dbid, CloseTarget
  <2>2. CASE getNextFreeId = NoSlot /\ \A s \in Slots : isOpen(s)
    BY <1>1, <2>1, <2>2, SlotsFacts DEF NoSlot
  <2>3. CASE getNextFreeId \in Slots /\ ~isOpen(getNextFreeId)
    <3>1. getNextFreeId \in Nat /\ getNextFreeId + 1 - 1 = getNextFreeId
      BY <2>3, SlotsFacts
    <3>2. QED
      BY <1>1, <2>1, <2>3, <3>1, SlotsFacts
  <2>4. QED
    BY <2>2, <2>3, NextFree
<1>2. CASE req = Missing
  BY <1>2, SlotsFacts DEF dbid, CloseTarget, Missing
<1>3. CASE req # 0 /\ req # Missing
  BY <1>3, CountAssumption
     DEF dbid, CloseTarget, ValidRequest, isValidId, Requests, Slots, Missing
<1>4. QED
  BY <1>1, <1>2, <1>3
-----------------------------------------------------------------------------
(* Type correctness *)

\* The three kinds of handle do not overlap, and a setting keeps the kind.
LEMMA HandleTypes ==
    /\ NULL \in Handles /\ Sick \in Handles /\ Fresh \in Opened
    /\ NULL # Sick /\ NULL \notin Opened /\ Sick \notin Opened
    /\ \A h \in Opened : h \in Handles /\ h.state = "open"
    /\ \A h \in Handles : h.state = "open" <=> h \in Opened
    /\ \A h \in Opened, ms \in Timeouts : [h EXCEPT !.timeout = ms] \in Opened
    /\ \A h \in Opened, b \in BOOLEAN : [h EXCEPT !.extension = b] \in Opened
  BY TimeoutAssumption DEF Handles, NULL, Sick, Opened, Fresh

Replies == [cmd : Commands \union {"none"}, req : Requests,
            slot : Slots \union {NoSlot}, res : Results]

\* What Return leaves is a reply.
LEMMA ReturnType ==
  ASSUME NEW cmd \in Commands, NEW req \in Requests,
         NEW slot \in Slots \union {NoSlot}, NEW res \in Results,
         Return(cmd, req, slot, res)
  PROVE  reply' \in Replies
  BY DEF Return, Replies

\* The module starts well-formed.
LEMMA TypeInit == Init => TypeOK
  BY HandleTypes, SlotsFacts, DepthAssumption
     DEF Init, TypeOK, Requests, Missing, Commands, Results, Call

\* Each command keeps the state well-formed: 'open' ...
LEMMA TypeOpen ==
  ASSUME TypeOK, NEW req \in Requests, NEW arg \in OpenArgs, NEW rc \in OpenCodes,
         cmdHandleOpen(req, arg, rc)
  PROVE  TypeOK'
<1> USE DEF TypeOK
<1>0. ValidRequest(req) /\ "open" \in Commands
  BY DEF cmdHandleOpen, Commands
<1>1. CASE OpenNoFreeSlot(req)
  BY <1>0, <1>1, ReturnType DEF OpenNoFreeSlot, Results, Replies
<1>2. CASE OpenNoArgument(req, arg)
  BY <1>0, <1>2, ReturnType, DbidSelects DEF OpenNoArgument, Results, Replies
<1>3. CASE OpenBusySlot(req, arg)
  BY <1>0, <1>3, ReturnType, DbidSelects DEF OpenBusySlot, Results, Replies
<1>4. CASE OpenSlot(req, arg, rc)
  <2>1. OpenedAs(arg, rc) \in Handles /\ OpenResult(arg, rc) \in Results
    BY HandleTypes DEF OpenedAs, openDb, OpenResult, Results, OpenCodes
  <2>2. m_dbid' \in Slots
    BY <1>0, <1>4, DbidSelects DEF OpenSlot
  <2>3. m_db' \in [Slots -> Handles]
    BY <1>4, <2>1 DEF OpenSlot
  <2>4. reply' \in Replies
    BY <1>0, <1>4, <2>1, <2>2, ReturnType DEF OpenSlot
  <2>5. QED
    BY <1>4, <2>2, <2>3, <2>4 DEF OpenSlot, Replies
<1>5. QED
  BY <1>1, <1>2, <1>3, <1>4 DEF cmdHandleOpen

\* ... 'close' ...
LEMMA TypeClose ==
  ASSUME TypeOK, NEW req \in Requests, NEW arg, cmdHandleClose(req, arg)
  PROVE  TypeOK'
<1> USE DEF TypeOK
<1>0. ValidRequest(req) /\ "close" \in Commands /\ NoSlot \in Slots \union {NoSlot}
  BY DEF cmdHandleClose, Commands
<1>1. \A s \in Slots : closeDb(s) \in Handles
  BY HandleTypes DEF closeDb
<1>2. m_dbid' \in Slots
  BY <1>0, DbidSelects DEF cmdHandleClose, CloseWithArgument, closeAllDbs, CloseSlot
<1>3. m_db' \in [Slots -> Handles]
  BY <1>1, <1>2 DEF cmdHandleClose, CloseWithArgument, closeAllDbs, CloseSlot
<1>4. {"ok", "SQLITE_BUSY", "MSG_INVALIDARG"} \subseteq Results
  BY DEF Results
<1>5. reply' \in Replies
  BY <1>0, <1>2, <1>4, ReturnType
     DEF cmdHandleClose, CloseWithArgument, closeAllDbs, CloseSlot
<1>6. UNCHANGED <<calls, crashed>>
  BY DEF cmdHandleClose, CloseWithArgument, closeAllDbs, CloseSlot
<1>7. QED
  BY <1>2, <1>3, <1>5, <1>6 DEF Replies

\* ... a SQL statement ...
LEMMA TypeQuery ==
  ASSUME TypeOK, NEW req \in Requests, cmdHandleSQLStatement(req)
  PROVE  TypeOK'
<1> USE DEF TypeOK
<1>0. ValidRequest(req) /\ "query" \in Commands
  BY DEF cmdHandleSQLStatement, Commands
<1>1. CASE QueryNullDbid(req)
  BY <1>0, <1>1, ReturnType DEF QueryNullDbid, Results, Replies
<1>2. CASE QueryRefused(req)
  <2>1. m_dbid' \in Slots
    BY <1>0, <1>2, DbidSelects DEF QueryRefused
  <2>2. Refusal(m_db[m_dbid']) \in Results
    BY DEF Refusal, Results
  <2>3. reply' \in Replies
    BY <1>0, <1>2, <2>1, <2>2, ReturnType DEF QueryRefused
  <2>4. QED
    BY <1>2, <2>1, <2>3 DEF QueryRefused, Replies
<1>3. CASE QueryStart(req)
  <2>1. m_dbid' \in Slots
    BY <1>0, <1>3, DbidSelects DEF QueryStart
  <2>2. [slot |-> m_dbid', callback |-> FALSE] \in Call
    BY <2>1 DEF Call
  <2>3. calls' \in Seq(Call) /\ Len(calls') = Len(calls) + 1
    BY <1>3, <2>2 DEF QueryStart
  <2>4. Len(calls') <= MaxDepth
    BY <1>3, <2>3, DepthAssumption DEF QueryStart
  <2>5. QED
    BY <1>3, <2>1, <2>3, <2>4 DEF QueryStart
<1>4. QED
  BY <1>1, <1>2, <1>3 DEF cmdHandleSQLStatement

\* ... 'filename', which may leave -1 as the current slot ...
LEMMA TypeFilename ==
  ASSUME TypeOK, NEW req \in Requests, NEW arg, cmdTryHandleFilename(req, arg)
  PROVE  TypeOK'
<1> USE DEF TypeOK
<1>0. ValidRequest(req) /\ "filename" \in Commands
  BY DEF cmdTryHandleFilename, Commands
<1>1. CASE FilenameNoSlot(req)
  BY <1>0, <1>1, ReturnType DEF FilenameNoSlot, Results, Replies
<1>2. CASE FilenameOf(req, arg)
  BY <1>0, <1>2, ReturnType, DbidSelects DEF FilenameOf, Results, Replies
<1>3. QED
  BY <1>1, <1>2 DEF cmdTryHandleFilename

\* A refused setting and an accepted one whose new handle is an opened one.
LEMMA TypeConfigure ==
  ASSUME TypeOK, NEW cmd \in Settings, NEW req \in Requests, NEW handle,
         m_db[m_dbid] \in Opened => handle \in Opened,
         ConfigureRefused(cmd, req) \/ Configure(cmd, req, handle)
  PROVE  TypeOK'
<1> USE DEF TypeOK
<1>0. cmd \in Commands /\ {"ok", "MSG_INVALIDARG", "MSG_DBNOTOPEN"} \subseteq Results
  BY DEF Commands, Results
<1>1. CASE ConfigureRefused(cmd, req)
  BY <1>0, <1>1, ReturnType DEF ConfigureRefused, Replies
<1>2. CASE Configure(cmd, req, handle)
  <2>1. ASSUME m_dbid \in Slots
        PROVE  (IF m_db[m_dbid] = Sick THEN Sick ELSE handle) \in Handles
    BY <1>2, <2>1, HandleTypes
       DEF Configure, ensureDbIsOpen, isOpen, Handles
  <2>2. m_db' \in [Slots -> Handles]
    BY <1>2, <2>1 DEF Configure
  <2>3. reply' \in Replies
    BY <1>0, <1>2, ReturnType DEF Configure
  <2>4. QED
    BY <1>2, <2>2, <2>3 DEF Configure, Replies
<1>3. QED
  BY <1>1, <1>2

\* ... the settings ...
LEMMA TypeSettings ==
  ASSUME TypeOK, NEW req \in Requests,
         \/ \E cmd \in {"setbusytimeout", "getbusytimeout"} :
              cmdTryHandleSetBusyTimeout(cmd, req)
         \/ cmdTryHandleEnableExtension(req)
         \/ \E cmd \in FunctorCommands, res \in AttachResults :
              AttachFunctor(cmd, req, res)
  PROVE  TypeOK'
<1>1. ASSUME NEW cmd \in {"setbusytimeout", "getbusytimeout"},
             cmdTryHandleSetBusyTimeout(cmd, req)
      PROVE  TypeOK'
  <2>1. cmd \in Settings
    BY DEF Settings
  <2>2. CASE ConfigureRefused(cmd, req)
    <3>1. Fresh \in Opened
      BY HandleTypes
    <3>2. QED
      BY <2>1, <2>2, <3>1, TypeConfigure
  <2>3. CASE TimeoutSet(cmd, req)
    <3>1. PICK ms \in Timeouts :
            Configure(cmd, req, [m_db[m_dbid] EXCEPT !.timeout = ms])
      BY <2>3 DEF TimeoutSet
    <3>2. QED
      BY <2>1, <3>1, TypeConfigure, HandleTypes
  <2>4. QED
    BY <1>1, <2>2, <2>3 DEF cmdTryHandleSetBusyTimeout
<1>2. CASE cmdTryHandleEnableExtension(req)
  <2>1. "enable extension" \in Settings
    BY DEF Settings
  <2>2. CASE ConfigureRefused("enable extension", req)
    <3>1. Fresh \in Opened
      BY HandleTypes
    <3>2. QED
      BY <2>1, <2>2, <3>1, TypeConfigure
  <2>3. ASSUME NEW flag \in BOOLEAN,
               Configure("enable extension", req,
                         [m_db[m_dbid] EXCEPT !.extension = flag])
        PROVE  TypeOK'
    BY <2>1, <2>3, TypeConfigure, HandleTypes
  <2>4. QED
    BY <1>2, <2>2, <2>3 DEF cmdTryHandleEnableExtension
<1>3. ASSUME NEW cmd \in FunctorCommands, NEW res \in AttachResults,
             AttachFunctor(cmd, req, res)
      PROVE  TypeOK'
  <2>1. cmd \in Settings /\ cmd \in Commands /\ res \in Results
    BY DEF Settings, Commands, AttachResults, Results
  <2>2. CASE ConfigureRefused(cmd, req)
    <3>1. Fresh \in Opened
      BY HandleTypes
    <3>2. QED
      BY <2>1, <2>2, <3>1, TypeConfigure
  <2>3. CASE Attach(cmd, req, res)
    BY <2>1, <2>3, ReturnType DEF Attach, TypeOK, Replies
  <2>4. QED
    BY <1>3, <2>2, <2>3 DEF AttachFunctor
<1>4. QED
  BY <1>1, <1>2, <1>3

\* ... and the callbacks and the end of a statement.
LEMMA TypeCallback ==
  ASSUME TypeOK,
         CallbackEnter \/ CallbackLeave
            \/ \E res \in {"ok", "SQLITE_ERROR"} : QueryEnd(res)
  PROVE  TypeOK'
<1> USE DEF TypeOK
<1>1. ASSUME NEW b \in BOOLEAN, SetCallback(b), calls # <<>>
      PROVE  calls' \in Seq(Call) /\ Len(calls') = Len(calls)
  <2>1. Len(calls) \in 1 .. Len(calls) /\ calls[Len(calls)] \in Call
    BY <1>1
  <2>2. [calls[Len(calls)] EXCEPT !.callback = b] \in Call
    BY <1>1, <2>1 DEF Call
  <2>3. QED
    BY <1>1, <2>1, <2>2, ExceptSeq DEF SetCallback
<1>2. CASE CallbackEnter
  BY <1>1, <1>2 DEF CallbackEnter
<1>3. CASE CallbackLeave
  BY <1>1, <1>3 DEF CallbackLeave
<1>4. ASSUME NEW res \in {"ok", "SQLITE_ERROR"}, QueryEnd(res)
      PROVE  TypeOK'
  <2>1. Len(calls) \in 1 .. Len(calls) /\ Top \in Call
    BY <1>4 DEF QueryEnd, Top
  <2>2. calls' \in Seq(Call) /\ Len(calls') <= Len(calls)
    BY <1>4, <2>1, SubSeqProperties DEF QueryEnd
  <2>3. Top.slot \in Slots /\ Top.slot + 1 \in Requests
    BY <2>1, SlotsFacts DEF Call
  <2>4. "query" \in Commands /\ res \in Results
    BY DEF Commands, Results
  <2>5. reply' \in Replies
    BY <1>4, <2>3, <2>4, ReturnType DEF QueryEnd
  <2>6. QED
    BY <1>4, <2>2, <2>5, DepthAssumption DEF QueryEnd, Replies
<1>5. QED
  BY <1>2, <1>3, <1>4

\* Every step keeps the state well-formed.
LEMMA TypeNext == TypeOK /\ [Next]_vars => TypeOK'
<1> SUFFICES ASSUME TypeOK, [Next]_vars PROVE TypeOK'
  OBVIOUS
<1>1. ASSUME NEW req \in Requests, Command(req) PROVE TypeOK'
  <2>1. ASSUME NEW cmd \in Commands, InvalidDbHandle(cmd, req) PROVE TypeOK'
    BY <2>1, ReturnType DEF InvalidDbHandle, TypeOK, Results, Replies
  <2>2. QED
    BY <1>1, <2>1, TypeOpen, TypeClose, TypeQuery, TypeFilename, TypeSettings
       DEF Command
<1>2. CASE mex_module_deinit
  <2>1. \A s \in Slots : closeDb(s) \in Handles
    BY HandleTypes DEF closeDb, TypeOK
  <2>2. QED
    BY <1>2, <2>1, SlotsFacts
       DEF mex_module_deinit, TypeOK, Requests, Missing, Results
<1>3. CASE UNCHANGED vars
  BY <1>3 DEF vars, TypeOK
<1>4. QED
  BY <1>1, <1>2, <1>3, TypeCallback DEF Next

\* The slots, the stack of calls and the replies stay well-formed, whatever is
\* called from whichever callback.
THEOREM TypeCorrect == Spec => []TypeOK
  BY TypeInit, TypeNext, PTL DEF Spec

-----------------------------------------------------------------------------
(* A running statement keeps its connection *)

\* A connection with a statement on it is an open one.
LEMMA BusyIsOpen ==
  ASSUME TypeOK, StatementsKeepConnection, NEW s \in Slots, connectionIsBusy(s)
  PROVE  m_db[s] \in Opened
  BY HandleTypes DEF TypeOK, StatementsKeepConnection, connectionIsBusy

\* A step that leaves calls alone and changes only slots without a statement.
LEMMA KeepIfBusyUntouched ==
  ASSUME TypeOK, StatementsKeepConnection, calls' = calls,
         \A s \in Slots : connectionIsBusy(s) =>
             m_db'[s] = m_db[s] \/ m_db'[s] \in Opened
  PROVE  StatementsKeepConnection'
<1>1. ASSUME NEW i \in DOMAIN calls PROVE m_db'[calls[i].slot].state = "open"
  <2>1. calls[i] \in Call
    BY <1>1 DEF TypeOK
  <2>2. calls[i].slot \in Slots /\ connectionIsBusy(calls[i].slot)
    BY <1>1, <2>1 DEF Call, connectionIsBusy
  <2>3. QED
    BY <1>1, <2>2, HandleTypes DEF StatementsKeepConnection
<1>2. QED
  BY <1>1 DEF StatementsKeepConnection

\* No command disturbs the connection of a running statement.
LEMMA KeepCommand ==
  ASSUME TypeOK, StatementsKeepConnection, NEW req \in Requests, Command(req)
  PROVE  StatementsKeepConnection'
<1>1. CASE \E cmd \in Commands : InvalidDbHandle(cmd, req)
  BY <1>1, KeepIfBusyUntouched DEF InvalidDbHandle
<1>2. ASSUME NEW arg \in OpenArgs, NEW rc \in OpenCodes, cmdHandleOpen(req, arg, rc)
      PROVE  StatementsKeepConnection'
  <2>1. \A s \in Slots : connectionIsBusy(s) => m_db'[s] = m_db[s]
    BY <1>2 DEF cmdHandleOpen, OpenNoFreeSlot, OpenNoArgument, OpenBusySlot,
                OpenSlot, TypeOK
  <2>2. QED
    BY <1>2, <2>1, KeepIfBusyUntouched
       DEF cmdHandleOpen, OpenNoFreeSlot, OpenNoArgument, OpenBusySlot, OpenSlot
<1>3. ASSUME NEW arg, cmdHandleClose(req, arg) PROVE StatementsKeepConnection'
  <2>1. \A s \in Slots : connectionIsBusy(s) => m_db'[s] = m_db[s]
    BY <1>3 DEF cmdHandleClose, CloseWithArgument, closeAllDbs, CloseSlot,
                closeDb, TypeOK
  <2>2. QED
    BY <1>3, <2>1, KeepIfBusyUntouched
       DEF cmdHandleClose, CloseWithArgument, closeAllDbs, CloseSlot
<1>4. CASE cmdHandleSQLStatement(req)
  <2>1. CASE QueryStart(req)
    <3>1. /\ m_dbid' \in Slots /\ m_db[m_dbid'] \in Opened /\ m_db' = m_db
          /\ calls' = Append(calls, [slot |-> m_dbid', callback |-> FALSE])
      BY <1>4, <2>1, DbidSelects DEF cmdHandleSQLStatement, QueryStart
    <3>2. ASSUME NEW i \in DOMAIN calls'
          PROVE  m_db'[calls'[i].slot].state = "open"
      <4>1. CASE i \in DOMAIN calls
        BY <3>1, <3>2, <4>1 DEF StatementsKeepConnection, TypeOK
      <4>2. CASE i = Len(calls) + 1
        BY <3>1, <4>2, HandleTypes DEF TypeOK
      <4>3. QED
        BY <3>1, <3>2, <4>1, <4>2 DEF TypeOK
    <3>3. QED
      BY <3>2 DEF StatementsKeepConnection
  <2>2. CASE QueryNullDbid(req) \/ QueryRefused(req)
    BY <2>2, KeepIfBusyUntouched DEF QueryNullDbid, QueryRefused
  <2>3. QED
    BY <1>4, <2>1, <2>2 DEF cmdHandleSQLStatement
<1>5. ASSUME NEW arg, cmdTryHandleFilename(req, arg) PROVE StatementsKeepConnection'
  BY <1>5, KeepIfBusyUntouched DEF cmdTryHandleFilename, FilenameNoSlot, FilenameOf
<1>6. ASSUME NEW cmd, NEW handle, m_db[m_dbid] \in Opened => handle \in Opened,
             ConfigureRefused(cmd, req) \/ Configure(cmd, req, handle)
      PROVE  StatementsKeepConnection'
  <2>1. \A s \in Slots : connectionIsBusy(s) =>
            m_db'[s] = m_db[s] \/ m_db'[s] \in Opened
    BY <1>6, BusyIsOpen, HandleTypes DEF ConfigureRefused, Configure, TypeOK
  <2>2. QED
    BY <1>6, <2>1, KeepIfBusyUntouched DEF ConfigureRefused, Configure
<1>7. \A ms \in Timeouts : m_db[m_dbid] \in Opened =>
          [m_db[m_dbid] EXCEPT !.timeout = ms] \in Opened
  BY HandleTypes
<1>8. \A b \in BOOLEAN : m_db[m_dbid] \in Opened =>
          [m_db[m_dbid] EXCEPT !.extension = b] \in Opened
  BY HandleTypes
<1>9. ASSUME NEW cmd \in {"setbusytimeout", "getbusytimeout"},
             cmdTryHandleSetBusyTimeout(cmd, req)
      PROVE  StatementsKeepConnection'
  BY <1>6, <1>7, <1>9, HandleTypes DEF cmdTryHandleSetBusyTimeout, TimeoutSet
<1>10. CASE cmdTryHandleEnableExtension(req)
  BY <1>6, <1>8, <1>10, HandleTypes DEF cmdTryHandleEnableExtension
<1>11. CASE \E cmd \in FunctorCommands, res \in AttachResults :
              AttachFunctor(cmd, req, res)
  BY <1>11, KeepIfBusyUntouched DEF AttachFunctor, ConfigureRefused, Attach
<1>12. QED
  BY <1>1, <1>2, <1>3, <1>4, <1>5, <1>9, <1>10, <1>11 DEF Command

\* Nor does any other step.
LEMMA KeepNext ==
  TypeOK /\ StatementsKeepConnection /\ [Next]_vars => StatementsKeepConnection'
<1> SUFFICES ASSUME TypeOK, StatementsKeepConnection, [Next]_vars
             PROVE  StatementsKeepConnection'
  OBVIOUS
<1>1. ASSUME NEW b, SetCallback(b), calls # <<>>, m_db' = m_db
      PROVE  StatementsKeepConnection'
  <2>1. DOMAIN calls' = DOMAIN calls
        /\ \A i \in DOMAIN calls : calls'[i].slot = calls[i].slot
    BY <1>1 DEF SetCallback, TypeOK, Call
  <2>2. QED
    BY <1>1, <2>1 DEF StatementsKeepConnection
<1>2. CASE CallbackEnter \/ CallbackLeave
  BY <1>1, <1>2 DEF CallbackEnter, CallbackLeave
<1>3. ASSUME NEW res \in {"ok", "SQLITE_ERROR"}, QueryEnd(res)
      PROVE  StatementsKeepConnection'
  <2>1. calls \in Seq(Call) /\ Len(calls) \in Nat \ {0} /\ m_db' = m_db
        /\ calls' = SubSeq(calls, 1, Len(calls) - 1)
    BY <1>3 DEF QueryEnd, TypeOK
  <2>2. \A i \in DOMAIN calls' : i \in DOMAIN calls /\ calls'[i] = calls[i]
    BY <2>1
  <2>3. QED
    BY <2>1, <2>2 DEF StatementsKeepConnection
<1>4. CASE mex_module_deinit
  BY <1>4 DEF mex_module_deinit, StatementsKeepConnection
<1>5. CASE UNCHANGED vars
  BY <1>5 DEF vars, StatementsKeepConnection
<1>6. QED
  BY KeepCommand, <1>2, <1>3, <1>4, <1>5 DEF Next

\* No command, at the prompt or inside any callback, on whatever slot, takes the
\* connection of a running statement away.
THEOREM RunningStatementsKeepTheirConnection == Spec => []StatementsKeepConnection
<1>1. Init => StatementsKeepConnection
  BY DEF Init, StatementsKeepConnection
<1>2. QED
  BY <1>1, KeepNext, TypeCorrect, PTL DEF Spec

-----------------------------------------------------------------------------
(* Where the code's defined behaviour ends *)

\* A command either stays in a slot there is, or is one of the two that crash.
LEMMA CrashCommand ==
  ASSUME TypeOK, ~crashed, m_dbid \in Slots, NEW req \in Requests, Command(req)
  PROVE  CrashesAreKnown'
<1>1. ASSUME crashed' = crashed, m_dbid' \in Slots PROVE CrashesAreKnown'
  BY <1>1 DEF CrashesAreKnown
<1>2. CASE \E cmd \in Commands : InvalidDbHandle(cmd, req)
  BY <1>1, <1>2 DEF InvalidDbHandle
<1>3. ASSUME NEW arg \in OpenArgs, NEW rc \in OpenCodes, cmdHandleOpen(req, arg, rc)
      PROVE  CrashesAreKnown'
  <2>1. dbid(req) # 0 => dbid(req) - 1 \in Slots
    BY <1>3, DbidSelects DEF cmdHandleOpen
  <2>2. CASE OpenNoFreeSlot(req)
    BY <1>1, <2>2 DEF OpenNoFreeSlot
  <2>3. CASE OpenNoArgument(req, arg)
    BY <1>1, <2>1, <2>3 DEF OpenNoArgument
  <2>4. CASE OpenBusySlot(req, arg)
    BY <2>1, <2>4 DEF OpenBusySlot, CrashesAreKnown, connectionIsBusy
  <2>5. CASE OpenSlot(req, arg, rc)
    BY <1>1, <2>1, <2>5 DEF OpenSlot
  <2>6. QED
    BY <1>3, <2>2, <2>3, <2>4, <2>5 DEF cmdHandleOpen
<1>4. ASSUME NEW arg, cmdHandleClose(req, arg) PROVE CrashesAreKnown'
  <2>1. CloseTarget(req) \in Slots
    BY <1>4, DbidSelects DEF cmdHandleClose
  <2>2. QED
    BY <1>1, <1>4, <2>1 DEF cmdHandleClose, CloseWithArgument, closeAllDbs, CloseSlot
<1>5. CASE cmdHandleSQLStatement(req)
  <2>1. req # 0 => dbid(req) - 1 \in Slots
    BY <1>5, DbidSelects DEF cmdHandleSQLStatement
  <2>2. QED
    BY <1>1, <1>5, <2>1
       DEF cmdHandleSQLStatement, QueryNullDbid, QueryRefused, QueryStart
<1>6. ASSUME NEW arg, cmdTryHandleFilename(req, arg) PROVE CrashesAreKnown'
  <2>1. /\ dbid(req) # 0 => dbid(req) - 1 \in Slots
        /\ dbid(req) = 0 => \A s \in Slots : isOpen(s)
    BY <1>6, DbidSelects DEF cmdTryHandleFilename
  <2>2. CASE FilenameNoSlot(req)
    BY <2>1, <2>2 DEF FilenameNoSlot, CrashesAreKnown, isOpen
  <2>3. CASE FilenameOf(req, arg)
    BY <1>1, <2>1, <2>3 DEF FilenameOf
  <2>4. QED
    BY <1>6, <2>2, <2>3 DEF cmdTryHandleFilename
<1>7. ASSUME NEW cmd, NEW handle, ConfigureRefused(cmd, req) \/ Configure(cmd, req, handle)
      PROVE  CrashesAreKnown'
  BY <1>1, <1>7 DEF ConfigureRefused, Configure
<1>8. ASSUME NEW cmd \in {"setbusytimeout", "getbusytimeout"},
             cmdTryHandleSetBusyTimeout(cmd, req)
      PROVE  CrashesAreKnown'
  BY <1>7, <1>8 DEF cmdTryHandleSetBusyTimeout, TimeoutSet
<1>9. CASE cmdTryHandleEnableExtension(req)
  BY <1>7, <1>9 DEF cmdTryHandleEnableExtension
<1>10. CASE \E cmd \in FunctorCommands, res \in AttachResults : AttachFunctor(cmd, req, res)
  BY <1>1, <1>10 DEF AttachFunctor, ConfigureRefused, Attach
<1>11. QED
  BY <1>2, <1>3, <1>4, <1>5, <1>6, <1>8, <1>9, <1>10 DEF Command

\* Commands are read only while the program is defined; the rest leaves the slot alone.
LEMMA CrashNext == TypeOK /\ CrashesAreKnown /\ [Next]_vars => CrashesAreKnown'
<1> SUFFICES ASSUME TypeOK, CrashesAreKnown, [Next]_vars
             PROVE  CrashesAreKnown'
  OBVIOUS
<1>1. ASSUME NEW req \in Requests, Command(req) PROVE CrashesAreKnown'
  <2>1. ~crashed
    BY <1>1 DEF Command, InvalidDbHandle, cmdHandleOpen, cmdHandleClose,
                cmdHandleSQLStatement, cmdTryHandleFilename, cmdTryHandleSetBusyTimeout,
                cmdTryHandleEnableExtension, AttachFunctor, Callable
  <2>2. QED
    BY <1>1, <2>1, CrashCommand DEF CrashesAreKnown
<1>2. CASE CallbackEnter \/ CallbackLeave \/ \E res \in {"ok", "SQLITE_ERROR"} : QueryEnd(res)
  <2>1. ~crashed /\ crashed' = crashed /\ m_dbid' = m_dbid
    BY <1>2 DEF CallbackEnter, CallbackLeave, QueryEnd
  <2>2. QED
    BY <2>1 DEF CrashesAreKnown
<1>3. CASE mex_module_deinit
  BY <1>3, SlotsFacts DEF mex_module_deinit, CrashesAreKnown
<1>4. CASE UNCHANGED vars
  BY <1>4 DEF vars, CrashesAreKnown, isOpen, connectionIsBusy
<1>5. QED
  BY <1>1, <1>2, <1>3, <1>4 DEF Next

\* The slot that is current exists; the program leaves its defined behaviour only with
\* every slot in use, or by an 'open' on the slot of a statement that is running.
THEOREM CrashesAreKnownAlways == Spec => []CrashesAreKnown
<1>1. Init => CrashesAreKnown
  BY SlotsFacts DEF Init, CrashesAreKnown
<1>2. QED
  BY <1>1, CrashNext, TypeCorrect, PTL DEF Spec

-----------------------------------------------------------------------------
(* The slots a command may touch *)

\* What a step of 'open' with id 0 does.
LEMMA OpenZeroStep ==
  ASSUME TypeOK, StatementsKeepConnection,
         NEW arg \in OpenArgs, NEW rc \in OpenCodes, cmdHandleOpen(0, arg, rc)
  PROVE  /\ \A s \in Slots : isOpen(s) => m_db'[s] = m_db[s]
         /\ reply'.res = "MSG_NOFREESLOT" => \A s \in Slots : isOpen(s)
         /\ ~crashed'
<1>1. 0 \in Requests /\ ValidRequest(0)
  BY CountAssumption DEF Requests, Missing, ValidRequest
<1>2. dbid(0) = 0 => \A s \in Slots : isOpen(s)
  BY <1>1, DbidSelects
<1>3. dbid(0) # 0 => dbid(0) - 1 \in Slots /\ m_db[dbid(0) - 1] = NULL
  BY <1>1, DbidSelects DEF isOpen
<1>4. ~crashed
  BY DEF cmdHandleOpen, Callable
<1>5. CASE OpenNoFreeSlot(0)
  BY <1>2, <1>4, <1>5 DEF OpenNoFreeSlot
<1>6. CASE OpenNoArgument(0, arg)
  BY <1>4, <1>6 DEF OpenNoArgument, Return
<1>7. CASE OpenBusySlot(0, arg)
  BY <1>3, <1>7, BusyIsOpen, HandleTypes DEF OpenBusySlot
<1>8. CASE OpenSlot(0, arg, rc)
  BY <1>3, <1>4, <1>8 DEF OpenSlot, isOpen, TypeOK, Return, OpenResult, OpenCodes
<1>9. QED
  BY <1>5, <1>6, <1>7, <1>8 DEF cmdHandleOpen

\* 'open' with id 0 touches no open database, and refuses only when there is no
\* slot left: the slot getNextFreeId found is closed, and stays so until closeDb.
THEOREM OpenZeroIsSafe == Spec => OpenZeroSparesOthers
<1>1. TypeOK /\ StatementsKeepConnection /\ [Next]_vars =>
        [\A arg \in OpenArgs, rc \in OpenCodes :
           cmdHandleOpen(0, arg, rc) =>
              /\ \A s \in Slots : isOpen(s) => m_db'[s] = m_db[s]
              /\ reply'.res = "MSG_NOFREESLOT" => \A s \in Slots : isOpen(s)
              /\ ~crashed']_vars
  BY OpenZeroStep
<1>2. QED
  BY <1>1, TypeCorrect, RunningStatementsKeepTheirConnection, PTL
     DEF Spec, OpenZeroSparesOthers

\* What 'open' leaves in the slot: a fresh database, or no usable one.
LEMMA OpenStep ==
  ASSUME TypeOK, NEW req \in Requests, NEW arg \in OpenArgs, NEW rc \in OpenCodes,
         cmdHandleOpen(req, arg, rc)
  PROVE  /\ reply'.res = "ok" => m_db'[reply'.slot] = Fresh
         /\ reply'.res # "ok" =>
              \A s \in Slots : m_db'[s] # m_db[s] => m_db'[s] \notin Opened
<1>1. CASE OpenNoFreeSlot(req)
  BY <1>1 DEF OpenNoFreeSlot, Return
<1>2. CASE OpenNoArgument(req, arg)
  BY <1>2 DEF OpenNoArgument, Return
<1>3. CASE OpenBusySlot(req, arg)
  BY <1>3 DEF OpenBusySlot, Return
<1>4. CASE OpenSlot(req, arg, rc)
  <2>1. ValidRequest(req) /\ dbid(req) # 0
    BY <1>4 DEF cmdHandleOpen, OpenSlot
  <2>2. m_dbid' \in Slots /\ reply'.slot = m_dbid'
        /\ m_db' = [m_db EXCEPT ![m_dbid'] = OpenedAs(arg, rc)]
        /\ reply'.res = OpenResult(arg, rc)
    BY <1>4, <2>1, DbidSelects DEF OpenSlot, Return
  <2>3. OpenResult(arg, rc) = "ok" => OpenedAs(arg, rc) = Fresh
    BY DEF OpenResult, OpenedAs, openDb, OpenCodes
  <2>4. OpenResult(arg, rc) # "ok" => OpenedAs(arg, rc) \notin Opened
    BY HandleTypes DEF OpenResult, OpenedAs, openDb, OpenCodes
  <2>5. QED
    BY <2>2, <2>3, <2>4 DEF TypeOK
<1>5. QED
  BY <1>1, <1>2, <1>3, <1>4 DEF cmdHandleOpen

\* 'open' gives a fresh database or none, whatever was in the slot.
THEOREM OpensAreAllOrNothing == Spec => OpenIsAllOrNothing
<1>1. TypeOK /\ [Next]_vars =>
        [\A req \in Requests, arg \in OpenArgs, rc \in OpenCodes :
           cmdHandleOpen(req, arg, rc) =>
              /\ reply'.res = "ok" => m_db'[reply'.slot] = Fresh
              /\ reply'.res # "ok" =>
                   \A s \in Slots : m_db'[s] # m_db[s] => m_db'[s] \notin Opened]_vars
  BY OpenStep
<1>2. QED
  BY <1>1, TypeCorrect, PTL DEF Spec, OpenIsAllOrNothing

\* A command that opens or closes something does so where it was told.
LEMMA NamedSlotCommand ==
  ASSUME TypeOK, NEW req \in Requests, Command(req), NEW s \in Slots,
         m_db'[s] # m_db[s], reply'.cmd \notin Settings \union {"none"}
  PROVE  /\ reply'.cmd \in {"open", "close"}
         /\ s = dbid(reply'.req) - 1 \/ (reply'.cmd = "close" /\ reply'.req = 0)
<1>1. ASSUME NEW arg \in OpenArgs, NEW rc \in OpenCodes, cmdHandleOpen(req, arg, rc)
      PROVE  reply'.cmd = "open" /\ reply'.req = req /\ s = dbid(req) - 1
  BY <1>1 DEF cmdHandleOpen, OpenNoFreeSlot, OpenNoArgument, OpenBusySlot,
              OpenSlot, Return, TypeOK
<1>2. ASSUME NEW arg, cmdHandleClose(req, arg)
      PROVE  reply'.cmd = "close" /\ reply'.req = req
                /\ (s = dbid(req) - 1 \/ req = 0)
  BY <1>2 DEF cmdHandleClose, CloseWithArgument, closeAllDbs, CloseSlot,
              CloseTarget, Return, TypeOK
<1>0. ASSUME NEW cmd, NEW handle, ConfigureRefused(cmd, req) \/ Configure(cmd, req, handle)
      PROVE  reply'.cmd = cmd
  BY <1>0 DEF ConfigureRefused, Configure, Return
<1>3. ASSUME NEW cmd \in {"setbusytimeout", "getbusytimeout"},
             cmdTryHandleSetBusyTimeout(cmd, req)
      PROVE  reply'.cmd \in Settings
  BY <1>0, <1>3, Zenon DEF cmdTryHandleSetBusyTimeout, TimeoutSet, Settings
<1>4. cmdTryHandleEnableExtension(req) => reply'.cmd \in Settings
  BY <1>0 DEF cmdTryHandleEnableExtension, Settings
<1>5. cmdHandleSQLStatement(req) => m_db' = m_db
  BY DEF cmdHandleSQLStatement, QueryNullDbid, QueryRefused, QueryStart
<1>6. \A arg \in {"none", "extra"} : cmdTryHandleFilename(req, arg) => m_db' = m_db
  BY DEF cmdTryHandleFilename, FilenameNoSlot, FilenameOf
<1>7. \A cmd \in Commands : InvalidDbHandle(cmd, req) => m_db' = m_db
  BY DEF InvalidDbHandle
<1>8. \A cmd \in FunctorCommands, res \in AttachResults :
         AttachFunctor(cmd, req, res) => m_db' = m_db
  BY DEF AttachFunctor, ConfigureRefused, Attach
<1>9. QED
  BY <1>1, <1>2, <1>3, <1>4, <1>5, <1>6, <1>7, <1>8 DEF Command

\* Databases are opened and closed only where a command names them, however stale
\* the current slot is.
THEOREM OnlyNamedSlotsChange == Spec => OnlyNamedSlotChanges
<1>1. ASSUME TypeOK, [Next]_vars, NEW s \in Slots,
             m_db'[s] # m_db[s], reply'.cmd \notin Settings \union {"none"}
      PROVE  /\ reply'.cmd \in {"open", "close"}
             /\ \/ s = dbid(reply'.req) - 1
                \/ reply'.cmd = "close" /\ reply'.req = 0
  <2>1. CASE \E req \in Requests : Command(req)
    BY <1>1, <2>1, NamedSlotCommand
  <2>2. CASE mex_module_deinit
    BY <1>1, <2>2 DEF mex_module_deinit
  <2>3. CASE \/ UNCHANGED vars \/ CallbackEnter \/ CallbackLeave
             \/ \E res \in {"ok", "SQLITE_ERROR"} : QueryEnd(res)
    BY <1>1, <2>3 DEF vars, CallbackEnter, CallbackLeave, QueryEnd
  <2>4. QED
    BY <1>1, <2>1, <2>2, <2>3 DEF Next
<1>2. TypeOK /\ [Next]_vars =>
        [\A s \in Slots :
          m_db'[s] # m_db[s] /\ reply'.cmd \notin Settings \union {"none"} =>
            /\ reply'.cmd \in {"open", "close"}
            /\ s = dbid(reply'.req) - 1 \/ (reply'.cmd = "close" /\ reply'.req = 0)]_vars
  BY <1>1
<1>3. QED
  BY <1>2, TypeCorrect, PTL DEF Spec, OnlyNamedSlotChanges

-----------------------------------------------------------------------------
(* DbSlots implements Connections *)

Usable == {s \in Slots : m_db[s].state = "open"}

\* The slots of a stack of calls: `running' of Connections.
SlotsOf(c) == [i \in DOMAIN c |-> c[i].slot]

\* There is one slot for every call.
LEMMA SlotsOfSeq ==
  ASSUME NEW c \in Seq(Call)
  PROVE  /\ SlotsOf(c) \in Seq(Slots)
         /\ Len(SlotsOf(c)) = Len(c)
         /\ \A i \in 1 .. Len(c) : SlotsOf(c)[i] = c[i].slot
<1>1. DOMAIN c = 1 .. Len(c) /\ Len(c) \in Nat /\ \A i \in 1 .. Len(c) : c[i] \in Call
  OBVIOUS
<1>2. \A i \in 1 .. Len(c) : c[i].slot \in Slots
  BY <1>1 DEF Call
<1>3. SlotsOf(c) \in [1 .. Len(c) -> Slots]
  BY <1>1, <1>2 DEF SlotsOf
<1>4. SlotsOf(c) \in Seq(Slots) /\ Len(SlotsOf(c)) = Len(c)
  BY <1>1, <1>3, IsASeq, LenProperties
<1>5. QED
  BY <1>1, <1>4 DEF SlotsOf

\* A call pushed on the stack adds its slot, one popped takes it away.
LEMMA SlotsOfPush ==
  ASSUME NEW c \in Seq(Call), NEW e \in Call
  PROVE  SlotsOf(Append(c, e)) = Append(SlotsOf(c), e.slot)
<1> DEFINE a == Append(c, e)
           r == Append(SlotsOf(c), e.slot)
<1>1. a \in Seq(Call) /\ Len(a) = Len(c) + 1 /\ e.slot \in Slots /\ Len(c) \in Nat
  BY DEF Call
<1>2. r \in Seq(Slots) /\ Len(r) = Len(c) + 1
  BY <1>1, SlotsOfSeq
<1>3. SlotsOf(a) \in Seq(Slots) /\ Len(SlotsOf(a)) = Len(c) + 1
      /\ \A i \in 1 .. Len(c) + 1 : SlotsOf(a)[i] = a[i].slot
  BY <1>1, SlotsOfSeq
<1>4. ASSUME NEW i \in 1 .. Len(c) + 1 PROVE SlotsOf(a)[i] = r[i]
  <2>1. CASE i \in 1 .. Len(c)
    <3>1. a[i] = c[i] /\ r[i] = SlotsOf(c)[i]
      BY <1>1, <2>1, SlotsOfSeq
    <3>2. QED
      BY <1>3, <2>1, <3>1, SlotsOfSeq
  <2>2. CASE i = Len(c) + 1
    <3>1. a[i] = e /\ r[i] = e.slot
      BY <1>1, <2>2, SlotsOfSeq
    <3>2. QED
      BY <1>3, <3>1
  <2>3. Len(c) \in Nat /\ i \in 1 .. Len(c) + 1
    BY <1>1
  <2> HIDE DEF a, r
  <2>4. i \in 1 .. Len(c) \/ i = Len(c) + 1
    BY <2>3
  <2>5. QED
    BY <2>1, <2>2, <2>4
<1> HIDE DEF a, r
<1>5. SlotsOf(a) = r
  BY <1>2, <1>3, <1>4, SeqEqual
<1>6. QED
  BY <1>5 DEF a, r

\* See SlotsOfPush.
LEMMA SlotsOfPop ==
  ASSUME NEW c \in Seq(Call), c # <<>>
  PROVE  SlotsOf(SubSeq(c, 1, Len(c) - 1)) =
           SubSeq(SlotsOf(c), 1, Len(SlotsOf(c)) - 1)
<1> DEFINE n == Len(c) - 1
           a == SubSeq(c, 1, n)
           r == SubSeq(SlotsOf(c), 1, n)
<1>1. n \in Nat /\ Len(c) = n + 1 /\ Len(SlotsOf(c)) = n + 1 /\ SlotsOf(c) \in Seq(Slots)
  BY SlotsOfSeq
<1>2. a \in Seq(Call) /\ Len(a) = n /\ \A i \in 1 .. n : a[i] = c[i]
  BY <1>1, SubSeqProperties
<1>3. r \in Seq(Slots) /\ Len(r) = n /\ \A i \in 1 .. n : r[i] = SlotsOf(c)[i]
  BY <1>1, SubSeqProperties
<1> HIDE DEF a, r, n
<1>4. SlotsOf(a) \in Seq(Slots) /\ Len(SlotsOf(a)) = n
      /\ \A i \in 1 .. n : SlotsOf(a)[i] = a[i].slot
  BY <1>2, SlotsOfSeq
<1>5. ASSUME NEW i \in 1 .. n PROVE SlotsOf(a)[i] = r[i]
  <2>1. i \in 1 .. Len(c)
    BY <1>1
  <2>2. SlotsOf(c)[i] = c[i].slot
    BY <2>1, SlotsOfSeq
  <2>3. QED
    BY <1>2, <1>3, <1>4, <2>2
<1>6. SlotsOf(a) = r
  BY <1>3, <1>4, <1>5, SeqEqual
<1>7. Len(SlotsOf(c)) = Len(c)
  BY SlotsOfSeq
<1>8. QED
  BY <1>6, <1>7 DEF a, r, n

\* A slot is idle in the table exactly when its connection has no statement.
LEMMA IdleIsNotBusy ==
  ASSUME NEW s
  PROVE  Table!Idle(s) <=> ~connectionIsBusy(s)
  BY DEF Table!Idle, connectionIsBusy

\* A step in which no slot with a statement changes and no statement starts or
\* ends connects one slot, disconnects some, or is invisible.
LEMMA CommandRefines ==
  ASSUME TypeOK, StatementsKeepConnection, TypeOK', NEW req \in Requests, Command(req)
  PROVE  [Table!Next]_(Table!vars)
<1> USE DEF Table!vars
<1>1. ASSUME m_db' = m_db, calls' = calls PROVE UNCHANGED Table!vars
  BY <1>1
<1>2. ASSUME NEW arg \in OpenArgs, NEW rc \in OpenCodes, cmdHandleOpen(req, arg, rc)
      PROVE  [Table!Next]_(Table!vars)
  <2>1. CASE OpenSlot(req, arg, rc)
    <3>0. PICK d \in Slots : d = dbid(req) - 1
      BY <1>2, <2>1, DbidSelects DEF cmdHandleOpen, OpenSlot
    <3>1. ~connectionIsBusy(d) /\ calls' = calls
      BY <2>1, <3>0 DEF OpenSlot
    <3>2. m_db' = [m_db EXCEPT ![d] = OpenedAs(arg, rc)]
      BY <2>1, <3>0 DEF OpenSlot
    <3>3. CASE OpenedAs(arg, rc) = Fresh
      <4>1. Usable' = Usable \union {d}
        BY <3>1, <3>2, <3>3, HandleTypes DEF Usable, TypeOK
      <4>2. Table!Connect(d)
        BY <3>1, <4>1, IdleIsNotBusy DEF Table!Connect, Usable
      <4>3. QED
        BY <4>2 DEF Table!Next
    <3>4. CASE OpenedAs(arg, rc) \in {NULL, Sick}
      <4>1. Usable' = Usable \ {d}
        BY <3>1, <3>2, <3>4, HandleTypes DEF Usable, TypeOK, Handles
      <4>2. Table!Disconnect({d})
        BY <3>1, <4>1, IdleIsNotBusy DEF Table!Disconnect, Usable
      <4>3. {d} \in SUBSET Slots
        OBVIOUS
      <4>4. QED
        BY <4>2, <4>3 DEF Table!Next
    <3>5. QED
      BY <3>3, <3>4 DEF OpenedAs, openDb
  <2>2. CASE OpenNoFreeSlot(req) \/ OpenNoArgument(req, arg) \/ OpenBusySlot(req, arg)
    BY <1>1, <2>2 DEF OpenNoFreeSlot, OpenNoArgument, OpenBusySlot
  <2>3. QED
    BY <1>2, <2>1, <2>2 DEF cmdHandleOpen
<1>3. ASSUME NEW S \in SUBSET Slots, \A s \in S : ~connectionIsBusy(s),
             calls' = calls, m_db' = [s \in Slots |-> IF s \in S THEN NULL ELSE m_db[s]]
      PROVE  [Table!Next]_(Table!vars)
  <2>1. Usable' = Usable \ S
    BY <1>3, HandleTypes DEF Usable, TypeOK, Handles
  <2>2. Table!Disconnect(S)
    BY <1>3, <2>1, IdleIsNotBusy DEF Table!Disconnect, Usable
  <2>3. QED
    BY <2>2 DEF Table!Next
<1>4. ASSUME NEW arg, cmdHandleClose(req, arg) PROVE [Table!Next]_(Table!vars)
  <2>1. CASE CloseWithArgument(req)
    BY <1>1, <2>1 DEF CloseWithArgument
  <2>2. CASE closeAllDbs(req)
    <3> DEFINE S == {s \in Slots : ~connectionIsBusy(s)}
    <3>1. m_db' = [s \in Slots |-> IF s \in S THEN NULL ELSE m_db[s]]
      BY <2>2 DEF closeAllDbs, closeDb
    <3>2. QED
      BY <1>3, <2>2, <3>1 DEF closeAllDbs
  <2>3. CASE CloseSlot(req)
    <3> DEFINE S == {s \in Slots : s = m_dbid' /\ ~connectionIsBusy(s)}
    <3>1. m_db' = [s \in Slots |-> IF s \in S THEN NULL ELSE m_db[s]]
      BY <2>3 DEF CloseSlot, closeDb, TypeOK
    <3>2. QED
      BY <1>3, <2>3, <3>1 DEF CloseSlot
  <2>4. QED
    BY <1>4, <2>1, <2>2, <2>3 DEF cmdHandleClose
<1>5. CASE cmdHandleSQLStatement(req)
  <2>1. CASE QueryStart(req)
    <3>0. PICK d \in Slots : d = dbid(req) - 1
      BY <1>5, <2>1, DbidSelects DEF cmdHandleSQLStatement, QueryStart
    <3>1. /\ m_db[d] \in Opened /\ m_db' = m_db
          /\ calls' = Append(calls, [slot |-> d, callback |-> FALSE])
      BY <2>1, <3>0 DEF QueryStart
    <3>2. [slot |-> d, callback |-> FALSE] \in Call
      BY DEF Call
    <3>3. SlotsOf(calls') = Append(SlotsOf(calls), d)
      BY <3>1, <3>2, SlotsOfPush DEF TypeOK
    <3>4. d \in Usable /\ Usable' = Usable
      BY <3>1, HandleTypes DEF Usable
    <3>5. Table!Start(d)
      BY <3>3, <3>4 DEF Table!Start, Usable, SlotsOf
    <3>6. QED
      BY <3>5 DEF Table!Next
  <2>2. CASE QueryNullDbid(req) \/ QueryRefused(req)
    BY <1>1, <2>2 DEF QueryNullDbid, QueryRefused
  <2>3. QED
    BY <1>5, <2>1, <2>2 DEF cmdHandleSQLStatement
<1>6. ASSUME NEW cmd, NEW handle, m_db[m_dbid] \in Opened => handle \in Opened,
             ConfigureRefused(cmd, req) \/ Configure(cmd, req, handle)
      PROVE  UNCHANGED Table!vars
  <2>1. calls' = calls
    BY <1>6 DEF ConfigureRefused, Configure
  <2>2. \A s \in Slots : m_db'[s].state = "open" <=> m_db[s].state = "open"
    <3>1. CASE ConfigureRefused(cmd, req)
      BY <3>1 DEF ConfigureRefused
    <3>2. CASE Configure(cmd, req, handle)
      BY <1>6, <3>2, HandleTypes
         DEF Configure, ensureDbIsOpen, isOpen, TypeOK, Handles
    <3>3. QED
      BY <1>6, <3>1, <3>2
  <2>3. QED
    BY <2>1, <2>2
<1>7. ASSUME NEW cmd \in {"setbusytimeout", "getbusytimeout"},
             cmdTryHandleSetBusyTimeout(cmd, req)
      PROVE  UNCHANGED Table!vars
  BY <1>6, <1>7, HandleTypes, Zenon DEF cmdTryHandleSetBusyTimeout, TimeoutSet
<1>8. CASE cmdTryHandleEnableExtension(req)
  BY <1>6, <1>8, HandleTypes, Zenon DEF cmdTryHandleEnableExtension
<1>9. ASSUME NEW arg, cmdTryHandleFilename(req, arg) PROVE UNCHANGED Table!vars
  BY <1>1, <1>9 DEF cmdTryHandleFilename, FilenameNoSlot, FilenameOf
<1>10. CASE \E cmd \in Commands : InvalidDbHandle(cmd, req)
  BY <1>1, <1>10 DEF InvalidDbHandle
<1>11. CASE \E cmd \in FunctorCommands, res \in AttachResults :
              AttachFunctor(cmd, req, res)
  BY <1>1, <1>11 DEF AttachFunctor, ConfigureRefused, Attach
<1>12. QED
  BY <1>2, <1>4, <1>5, <1>7, <1>8, <1>9, <1>10, <1>11 DEF Command

\* The end of a statement is the end of the innermost one.
LEMMA QueryEndRefines ==
  ASSUME TypeOK, NEW res, QueryEnd(res)
  PROVE  Table!Finish
<1>1. calls \in Seq(Call) /\ calls # <<>> /\ m_db' = m_db
      /\ calls' = SubSeq(calls, 1, Len(calls) - 1)
  BY DEF QueryEnd, TypeOK
<1>2. SlotsOf(calls') = SubSeq(SlotsOf(calls), 1, Len(SlotsOf(calls)) - 1)
  BY <1>1, SlotsOfPop
<1>3. SlotsOf(calls) # <<>>
  BY <1>1, SlotsOfSeq
<1>4. QED
  BY <1>1, <1>2, <1>3 DEF Table!Finish, SlotsOf

\* Every step of the slots is one of the table, or invisible in it.
LEMMA StepRefines ==
  TypeOK /\ StatementsKeepConnection /\ TypeOK' /\ [Next]_vars
     => [Table!Next]_(Table!vars)
<1> SUFFICES ASSUME TypeOK, StatementsKeepConnection, TypeOK', [Next]_vars
             PROVE  [Table!Next]_(Table!vars)
  OBVIOUS
<1>1. CASE CallbackEnter \/ CallbackLeave
  <2>1. DOMAIN calls' = DOMAIN calls /\ m_db' = m_db
        /\ \A i \in DOMAIN calls : calls'[i].slot = calls[i].slot
    <3>1. PICK b \in BOOLEAN : calls # <<>> /\ SetCallback(b) /\ m_db' = m_db
      BY <1>1 DEF CallbackEnter, CallbackLeave
    <3>2. QED
      BY <3>1 DEF SetCallback, TypeOK, Call
  <2>2. QED
    BY <2>1 DEF Table!vars
<1>2. CASE mex_module_deinit
  <2>1. /\ calls' = calls /\ calls = <<>>
        /\ \A s \in Slots : m_db'[s] = NULL
    BY <1>2 DEF mex_module_deinit, closeDb, connectionIsBusy
  <2>2. Usable' = Usable \ Slots
    BY <2>1, HandleTypes DEF Usable, Handles
  <2>3. Table!Disconnect(Slots)
    BY <2>1, <2>2 DEF Table!Disconnect, Table!Idle, Usable
  <2>4. QED
    BY <2>3 DEF Table!Next
<1>3. CASE UNCHANGED vars
  BY <1>3 DEF vars, Table!vars
<1>4. ASSUME NEW res \in {"ok", "SQLITE_ERROR"}, QueryEnd(res)
      PROVE  [Table!Next]_(Table!vars)
  BY <1>4, QueryEndRefines DEF Table!Next
<1>5. QED
  BY <1>1, <1>2, <1>3, <1>4, CommandRefines DEF Next

\* Every behaviour of the slots, with all their refusals, stale current slots and
\* nested calls, is a behaviour of the table of connections.
THEOREM SlotsImplementTable == Spec => TableSpec
<1>1. Init => Table!Init
  BY HandleTypes DEF Init, Table!Init
<1>2. QED
  BY <1>1, StepRefines, TypeCorrect, RunningStatementsKeepTheirConnection, PTL
     DEF Spec, TableSpec, Table!Spec
=============================================================================
