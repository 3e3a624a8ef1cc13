--------------------------- MODULE StatementProofs ---------------------------
(***************************************************************************)
(* Proofs about Statement, for any number of arguments, placeholders and   *)
(* rows and any settings: a statement keeps the promise of Batch.          *)
(***************************************************************************)
EXTENDS Statement, SettingsProofs, SequenceTheorems

-----------------------------------------------------------------------------
(* Quotients *)

LEMMA DivFloor ==
  ASSUME NEW n \in Nat, NEW d \in Nat \ {0}
  PROVE  /\ n \div d \in Nat /\ n % d \in 0 .. d - 1
         /\ n = d * (n \div d) + (n % d)
  OBVIOUS

\* Place r of row q, rows of d places: row and place are quotient and remainder.
LEMMA DivOfPlace ==
  ASSUME NEW q \in Nat, NEW d \in Nat \ {0}, NEW r \in 0 .. d - 1
  PROVE  (d * q + r) \div d = q /\ (d * q + r) % d = r
<1> DEFINE n == d * q + r
<1>1. n \in Nat
  OBVIOUS
<1>2. n \div d \in Nat /\ n % d \in 0 .. d - 1 /\ n = d * (n \div d) + (n % d)
  BY <1>1, DivFloor
<1> DEFINE e == n \div d
           s == n % d
<1>3. e \in Nat /\ s \in 0 .. d - 1 /\ d * e + s = d * q + r
  BY <1>2
<1> HIDE DEF e, s
<1>4. ~(e > q)
  <2>1. ASSUME e > q PROVE FALSE
    <3>1. PICK k \in Nat : e = q + 1 + k
      BY <1>3, <2>1
    <3>2. d * e = d * q + d + d * k /\ d * k \in Nat
      BY <3>1
    <3>3. QED
      BY <1>3, <3>2
  <2>2. QED
    BY <2>1
<1>5. ~(e < q)
  <2>1. ASSUME e < q PROVE FALSE
    <3>1. PICK k \in Nat : q = e + 1 + k
      BY <1>3, <2>1
    <3>2. d * q = d * e + d + d * k /\ d * k \in Nat
      BY <1>3, <3>1
    <3>3. QED
      BY <1>3, <3>2
  <2>2. QED
    BY <2>1
<1>6. e = q /\ s = r
  BY <1>3, <1>4, <1>5
<1>7. QED
  BY <1>6 DEF e, s

LEMMA Cancel ==
  ASSUME NEW d \in Nat \ {0}, NEW q \in Nat, NEW s \in Nat, d * q = d * s
  PROVE  q = s
<1>1. 0 \in 0 .. d - 1
  OBVIOUS
<1>2. (d * q + 0) \div d = q /\ (d * s + 0) \div d = s
  BY <1>1, DivOfPlace
<1>3. QED
  BY <1>2

-----------------------------------------------------------------------------
(* The layout of the arguments *)

IsRequest(c) ==
    /\ c.form \in Forms
    /\ c.size \in 0 .. MaxArgs
    /\ c.needed \in 0 .. MaxNeeded
    /\ c.streaming \in BOOLEAN
    /\ c.wrapping \in BOOLEAN

LEMMA ArgumentsAreRequests ==
  ASSUME SettingsTypeOK, NEW form \in Forms, NEW size \in 0 .. MaxArgs,
         NEW needed \in 0 .. MaxNeeded, NEW c \in Arguments(form, size, needed)
  PROVE  IsRequest(c) /\ c # NoCall
<1>1. g_flag["param_wrapping"] \in BOOLEAN /\ g_streaming \in BOOLEAN
  BY StatementAssumption DEF SettingsTypeOK
<1>2. /\ c.form = form /\ c.size = size /\ c.needed = needed
      /\ c.streaming = g_streaming /\ c.wrapping = g_flag["param_wrapping"]
  BY DEF Arguments
<1>3. c.form # NoCall.form
  BY <1>2 DEF Forms, NoCall
<1>4. QED
  BY <1>1, <1>2, <1>3 DEF IsRequest

LEMMA RefusalIsAnError ==
  ASSUME NEW c
  PROVE  /\ Refusal(c) \in ArgumentErrors \union {"none"}
         /\ Refusal(c) = "none" <=> Refusals(c) = {}
<1>1. Refusals(c) \subseteq ArgumentErrors /\ "none" \notin ArgumentErrors
  BY DEF Refusals, ArgumentErrors
<1>2. CASE Refusals(c) = {}
  <2>1. Refusal(c) = "none"
    BY <1>2 DEF Refusal
  <2>2. QED
    BY <1>2, <2>1
<1>3. CASE Refusals(c) # {}
  <2>1. Refusal(c) \in Refusals(c)
    BY <1>3 DEF Refusal
  <2>2. QED
    BY <1>1, <1>3, <2>1
<1>4. QED
  BY <1>2, <1>3

\* The numbers of values, executions and placeholders of arguments that fit.
LEMMA Counts ==
  ASSUME NEW c, IsRequest(c), Refusal(c) = "none"
  PROVE  /\ countBindParam(c) \in 0 .. MaxArgs * MaxNeeded
         /\ ~haveParamStruct(c) => countBindParam(c) <= MaxArgs
         /\ haveParamStruct(c) => countBindParam(c) = c.needed * c.size
         /\ count(c) \in 1 .. MaxArgs
         /\ c.wrapping /\ c.needed > 0 => c.needed * count(c) = countBindParam(c)
         /\ ~(c.wrapping /\ c.needed > 0) => count(c) = 1
<1> DEFINE n == countBindParam(c)
<1>1. /\ c.size \in Nat /\ c.size <= MaxArgs /\ c.needed \in Nat /\ c.needed <= MaxNeeded
      /\ MaxArgs \in Nat /\ MaxNeeded \in Nat /\ MaxArgs >= 1 /\ MaxNeeded >= 1
  BY StatementAssumption DEF IsRequest
<1>2. c.needed * c.size \in Nat /\ c.needed * c.size <= MaxArgs * MaxNeeded
  <2>1. c.needed * c.size <= MaxNeeded * c.size
    BY <1>1
  <2>2. MaxNeeded * c.size <= MaxNeeded * MaxArgs
    BY <1>1
  <2>3. QED
    BY <1>1, <2>1, <2>2
<1>3. MaxArgs <= MaxArgs * MaxNeeded /\ 1 <= MaxArgs * MaxNeeded
  BY <1>1
<1>4. n = IF haveParamStruct(c) THEN c.needed * c.size ELSE IF AsWhole(c) THEN 1 ELSE c.size
  BY DEF countBindParam
<1>5. n \in Nat /\ n <= MaxArgs * MaxNeeded /\ (~haveParamStruct(c) => n <= MaxArgs)
  BY <1>1, <1>2, <1>3, <1>4
<1>6. Refusals(c) = {}
  BY RefusalIsAnError
<1>7. c.wrapping /\ c.needed > 0 => n % c.needed = 0 /\ count(c) # 0
  BY <1>6 DEF Refusals, ArgumentErrors
<1> HIDE DEF n
<1>8. CASE c.wrapping /\ c.needed > 0
  <2> DEFINE q == n \div c.needed
  <2>1. q \in Nat /\ n = c.needed * q + (n % c.needed)
    <3>1. c.needed \in Nat \ {0}
      BY <1>1, <1>8
    <3>2. QED
      BY <1>5, <3>1, DivFloor
  <2>2. count(c) = q
    BY <1>8 DEF count, n
  <2> HIDE DEF q
  <2>3. n = c.needed * q /\ q >= 1
    <3>1. n = c.needed * q + 0 /\ q # 0
      BY <1>7, <1>8, <2>1, <2>2
    <3>2. QED
      BY <1>1, <2>1, <3>1
  <2>4. q <= MaxArgs
    <3>1. CASE haveParamStruct(c)
      <4>1. c.needed * q = c.needed * c.size
        BY <1>4, <2>3, <3>1
      <4>2. q = c.size
        <5>1. c.needed \in Nat \ {0} /\ c.size \in Nat
          BY <1>1, <1>8
        <5> HIDE DEF IsRequest
        <5>2. QED
          BY <2>1, <4>1, <5>1, Cancel, Zenon
      <4>3. QED
        BY <1>1, <2>1, <4>2
    <3>2. CASE ~haveParamStruct(c)
      <4>1. q <= c.needed * q
        BY <1>1, <1>8, <2>1
      <4>2. QED
        BY <1>1, <1>5, <2>1, <2>3, <3>2, <4>1
    <3>3. QED
      BY <3>1, <3>2
  <2>5. QED
    BY <1>1, <1>4, <1>5, <1>8, <2>1, <2>2, <2>3, <2>4 DEF n
<1>9. CASE ~(c.wrapping /\ c.needed > 0)
  <2>1. count(c) = 1
    BY <1>9 DEF count
  <2>2. QED
    BY <1>1, <1>4, <1>5, <1>9, <2>1 DEF n
<1>10. QED
  BY <1>8, <1>9

\* Field p of the e-th struct: NULL where nothing was assigned to it.
FieldAt(c, e, p) == IF <<e, p>> \in c.unset THEN Null ELSE <<e, p>>

LEMMA SuppliedIsCounted ==
  ASSUME NEW c, IsRequest(c)
  PROVE  /\ Len(Supplied(c)) = countBindParam(c)
         /\ AsWhole(c) => Supplied(c) = <<Whole>>
         /\ haveParamStruct(c) => ~AsWhole(c) /\ Supplied(c) =
              [k \in 1 .. c.size * c.needed |->
                 FieldAt(c, ((k - 1) \div c.needed) + 1, ((k - 1) % c.needed) + 1)]
         /\ ~haveParamStruct(c) /\ ~AsWhole(c) =>
              Supplied(c) = [k \in 1 .. c.size |-> <<k, 0>>]
<1>1. c.size \in Nat /\ c.needed \in Nat /\ c.size * c.needed \in Nat
      /\ c.size * c.needed = c.needed * c.size
  BY StatementAssumption DEF IsRequest
<1>2. haveParamStruct(c) => c.form \in OfStruct /\ ~AsWhole(c)
  BY DEF haveParamStruct, AsWhole, OfStruct
<1>3. ~haveParamStruct(c) /\ ~AsWhole(c) => c.form \notin OfStruct
  BY DEF AsWhole, OfStruct
<1>4. CASE AsWhole(c)
  BY <1>2, <1>4 DEF Supplied, countBindParam
<1>5. CASE haveParamStruct(c)
  BY <1>1, <1>2, <1>5 DEF Supplied, FieldAt, countBindParam
<1>6. CASE ~haveParamStruct(c) /\ ~AsWhole(c)
  BY <1>1, <1>3, <1>6 DEF Supplied, countBindParam
<1>7. QED
  BY <1>4, <1>5, <1>6

\* The value of placeholder p in execution j.
ValueAt(c, j, p) ==
    IF c.needed * (j - 1) + p <= countBindParam(c)
    THEN IF haveParamStruct(c) THEN FieldAt(c, j, p)
         ELSE IF AsWhole(c) THEN Whole ELSE <<c.needed * (j - 1) + p, 0>>
    ELSE Null

NthOf(c, k) == IF k <= Len(Supplied(c)) THEN Supplied(c)[k] ELSE Null

LEMMA NthIsValueAt ==
  ASSUME NEW c, IsRequest(c), NEW j \in Nat \ {0}, NEW p \in 1 .. c.needed
  PROVE  NthOf(c, (j - 1) * c.needed + p) = ValueAt(c, j, p)
<1> DEFINE d == c.needed
           k == d * (j - 1) + p
<1>1. d \in Nat \ {0} /\ c.size \in Nat /\ p \in Nat /\ p >= 1 /\ p <= d
  BY StatementAssumption DEF IsRequest
<1>2. d * (j - 1) \in Nat /\ (j - 1) * d = d * (j - 1)
  BY <1>1
<1>3. k \in Nat /\ k >= 1 /\ (j - 1) * c.needed + p = k
  BY <1>1, <1>2
<1>4. Len(Supplied(c)) = countBindParam(c)
  BY SuppliedIsCounted
<1>5. CASE ~(k <= countBindParam(c))
  <2>1. ValueAt(c, j, p) = Null
    BY <1>5 DEF ValueAt
  <2>2. NthOf(c, k) = Null
    BY <1>4, <1>5 DEF NthOf
  <2>3. QED
    BY <1>3, <2>1, <2>2
<1>6. CASE k <= countBindParam(c)
  <2>1. NthOf(c, k) = Supplied(c)[k]
    BY <1>4, <1>6 DEF NthOf
  <2>2. CASE haveParamStruct(c)
    <3>1. ValueAt(c, j, p) = FieldAt(c, j, p)
      BY <1>6, <2>2 DEF ValueAt
    <3>2. c.size * c.needed = countBindParam(c) /\ c.size * c.needed \in Nat
      BY <1>1, <2>2 DEF countBindParam
    <3>3. k \in 1 .. c.size * c.needed
      BY <1>3, <1>6, <3>2
    <3>4. Supplied(c)[k] = FieldAt(c, ((k - 1) \div d) + 1, ((k - 1) % d) + 1)
      BY <2>2, <3>3, SuppliedIsCounted
    <3>5. (k - 1) \div d = j - 1 /\ (k - 1) % d = p - 1
      <4>1. j - 1 \in Nat /\ p - 1 \in 0 .. d - 1 /\ k - 1 = d * (j - 1) + (p - 1)
        BY <1>1, <1>2
      <4> DEFINE q == j - 1
                 r == p - 1
      <4>2. q \in Nat /\ r \in 0 .. d - 1 /\ k - 1 = d * q + r /\ d \in Nat \ {0}
        BY <1>1, <4>1
      <4> HIDE DEF d, k, q, r
      <4>3. (k - 1) \div d = q /\ (k - 1) % d = r
        <5>1. (d * q + r) \div d = q /\ (d * q + r) % d = r
          BY <4>2, DivOfPlace, Zenon
        <5>2. QED
          BY <4>2, <5>1, Zenon
      <4>4. QED
        BY <4>3 DEF q, r
    <3>6. QED
      BY <1>1, <1>3, <2>1, <3>1, <3>4, <3>5
  <2>3. CASE AsWhole(c)
    <3>1. ~haveParamStruct(c) /\ countBindParam(c) = 1
      BY <2>3 DEF AsWhole, countBindParam
    <3>2. ValueAt(c, j, p) = Whole
      BY <1>6, <2>3, <3>1 DEF ValueAt
    <3>3. k = 1
      BY <1>3, <1>6, <3>1
    <3>4. Supplied(c)[k] = Whole
      BY <2>3, <3>3, SuppliedIsCounted
    <3>5. QED
      BY <1>3, <2>1, <3>2, <3>4
  <2>4. CASE ~haveParamStruct(c) /\ ~AsWhole(c)
    <3>1. ValueAt(c, j, p) = <<k, 0>>
      BY <1>6, <2>4 DEF ValueAt
    <3>2. k \in 1 .. c.size
      BY <1>1, <1>3, <1>6, <2>4 DEF countBindParam
    <3>3. Supplied(c)[k] = <<k, 0>>
      BY <2>4, <3>2, SuppliedIsCounted
    <3>4. QED
      BY <1>3, <2>1, <3>1, <3>3
  <2>5. QED
    BY <2>2, <2>3, <2>4
<1>7. QED
  BY <1>5, <1>6

LEMMA PlanEntries ==
  ASSUME NEW c, IsRequest(c), Refusal(c) = "none"
  PROVE  PlanOf(c) = [j \in 1 .. count(c) |-> [p \in 1 .. c.needed |-> ValueAt(c, j, p)]]
<1>1. PlanOf(c) = [j \in 1 .. count(c) |->
                     [p \in 1 .. c.needed |-> NthOf(c, (j - 1) * c.needed + p)]]
  <2>1. count(c) = IF c.wrapping /\ c.needed > 0 THEN Len(Supplied(c)) \div c.needed ELSE 1
    BY SuppliedIsCounted DEF count
  <2>2. QED
    BY <2>1 DEF PlanOf, NthOf
<1>2. \A j \in 1 .. count(c) : j \in Nat \ {0}
  BY Counts
<1>3. \A j \in 1 .. count(c) : \A p \in 1 .. c.needed :
         NthOf(c, (j - 1) * c.needed + p) = ValueAt(c, j, p)
  BY <1>2, NthIsValueAt
<1>4. QED
  BY <1>1, <1>3

\* Every value of the plan is one of the call.
LEMMA ValuesAreBound ==
  ASSUME NEW c, IsRequest(c), Refusal(c) = "none",
         NEW j \in 1 .. count(c), NEW p \in 1 .. c.needed
  PROVE  ValueAt(c, j, p) \in Bound
<1>1. /\ j \in 0 .. MaxArgs /\ p \in 0 .. MaxNeeded /\ 0 \in 0 .. MaxNeeded
      /\ c.needed \in Nat /\ p \in Nat
  BY Counts, StatementAssumption DEF IsRequest
<1>2. <<j, p>> \in Bound /\ Whole \in Bound /\ Null \in Bound
  BY <1>1, StatementAssumption DEF Bound, Whole
<1>3. CASE ~haveParamStruct(c) /\ c.needed * (j - 1) + p <= countBindParam(c)
  <2>1. c.needed * (j - 1) + p \in 0 .. MaxArgs
    <3>1. c.needed * (j - 1) \in Nat
      BY <1>1
    <3>2. countBindParam(c) <= MaxArgs /\ countBindParam(c) \in Nat
      BY <1>3, Counts, StatementAssumption
    <3>3. QED
      BY <1>1, <1>3, <3>1, <3>2, StatementAssumption
  <2>2. <<c.needed * (j - 1) + p, 0>> \in Bound
    BY <1>1, <2>1 DEF Bound
  <2>3. QED
    BY <1>2, <1>3, <2>2 DEF ValueAt
<1>4. FieldAt(c, j, p) \in Bound
  BY <1>2 DEF FieldAt
<1>5. QED
  BY <1>2, <1>3, <1>4 DEF ValueAt

LEMMA PlanIsATypedBatch ==
  ASSUME NEW c, IsRequest(c), Refusal(c) = "none"
  PROVE  PlanOf(c) \in Seq(Seq(Bound)) /\ Len(PlanOf(c)) = count(c)
<1>1. count(c) \in Nat /\ c.needed \in Nat
  BY Counts, StatementAssumption DEF IsRequest
<1>2. \A j \in 1 .. count(c) : [p \in 1 .. c.needed |-> ValueAt(c, j, p)] \in Seq(Bound)
  BY <1>1, ValuesAreBound
<1> DEFINE e == [j \in 1 .. count(c) |-> [p \in 1 .. c.needed |-> ValueAt(c, j, p)]]
<1>3. e \in [1 .. count(c) -> Seq(Bound)]
  BY <1>2
<1> HIDE DEF e
<1>4. e \in Seq(Seq(Bound)) /\ Len(e) = count(c)
  BY <1>1, <1>3
<1>5. PlanOf(c) = e
  BY PlanEntries DEF e
<1>6. QED
  BY <1>4, <1>5

-----------------------------------------------------------------------------
(* The inductive invariant *)

AtWork == pc \in {"bind", "step"}
Answering == pc = "finalize" /\ err = "none"

\* What is being carried out is arguments that fit, and what was made is their plan.
RequestOK ==
    AtWork \/ Answering =>
        /\ IsRequest(call) /\ call # NoCall /\ Refusal(call) = "none"
        /\ \A j \in 1 .. Len(made) : made[j] = PlanOf(call)[j]

\* The execution at work is the next one of the plan.
WorkOK ==
    AtWork =>
        /\ err = "none"
        /\ i \in 1 .. count(call) /\ Len(made) = i - 1 /\ rowids = 1 .. i - 1
        /\ ~haveParamStruct(call) => next + left = countBindParam(call) + 1

\* Where the code's pointer and counter stand before execution j.
PlaceOf(j) ==
    /\ left = countBindParam(call) - call.needed * (j - 1)
    /\ ~haveParamStruct(call) => next = call.needed * (j - 1) + 1

BindOK ==
    pc = "bind" => PlaceOf(i) /\ IF i = 1 THEN fetched = <<>> ELSE cols = fetched

StepOK ==
    pc = "step" =>
        /\ cols = fetched
        /\ bindings = PlanOf(call)[i]
        /\ i < count(call) => PlaceOf(i + 1)

\* The fields were there for the first struct, so they are for all of them.
FieldsOK ==
    /\ pc = "step" \/ (pc = "bind" /\ i > 1)
    /\ haveParamStruct(call) /\ call.size > 0
    => 1 .. call.needed \subseteq call.fields

AnswerOK ==
    Answering => /\ Len(made) = count(call) /\ cols = fetched
                 /\ rowids = 1 .. count(call)

StInv ==
    /\ SettingsInv /\ StatementTypeOK
    /\ RequestOK /\ WorkOK /\ BindOK /\ StepOK /\ FieldsOK /\ AnswerOK
    /\ MismatchExecutesNothing

LEMMA InitStInv == StatementInit => StInv
<1> SUFFICES ASSUME StatementInit PROVE StInv
  OBVIOUS
<1>1. SettingsInv
  BY InitiallySettings DEF StatementInit
<1>2. StatementTypeOK
  <2>1. 0 \in 0 .. MaxArgs * MaxNeeded /\ 1 \in 1 .. MaxArgs + 1
    BY StatementAssumption
  <2>2. QED
    BY <1>1, <2>1 DEF StatementInit, StatementTypeOK, SettingsInv, NoCall, Errors
<1>3. QED
  BY <1>1, <1>2 DEF StInv, StatementInit, RequestOK, WorkOK, BindOK, StepOK, FieldsOK, AnswerOK,
     MismatchExecutesNothing, AtWork, Answering

\* What is said of the statement says nothing of the settings.
LEMMA SettingsApart ==
  ASSUME StInv, [SettingCommand]_settingVars, UNCHANGED statementVars
  PROVE  StInv'
<1>1. SettingsInv'
  BY SettingsStep DEF StInv
<1>2. StatementTypeOK'
  BY <1>1 DEF StInv, StatementTypeOK, SettingsInv, statementVars, callVars
<1>3. QED
  BY <1>1, <1>2 DEF StInv, statementVars, callVars, RequestOK, WorkOK, BindOK, PlaceOf, StepOK,
     FieldsOK, AnswerOK, MismatchExecutesNothing, AtWork, Answering

\* All other actions leave the settings alone.
LEMMA SettingsKept ==
  ASSUME StInv, UNCHANGED settingVars
  PROVE  SettingsInv' /\ SettingsTypeOK'
<1>1. SettingsInv'
  BY SettingsStep DEF StInv
<1>2. QED
  BY <1>1 DEF SettingsInv

LEMMA PrepareKeepsStInv ==
  ASSUME StInv, NEW form \in Forms, NEW size \in 0 .. MaxArgs, NEW needed \in 0 .. MaxNeeded,
         NEW c \in Arguments(form, size, needed), Prepare(c)
  PROVE  StInv'
<1>1. IsRequest(c) /\ c # NoCall
  BY ArgumentsAreRequests DEF StInv, StatementTypeOK
<1>2. /\ call' = c /\ i' = 1 /\ next' = 1 /\ left' = countBindParam(c)
      /\ bindings' = <<>> /\ cols' = <<>> /\ fetched' = <<>> /\ rowids' = {} /\ made' = <<>>
      /\ err' = Refusal(c) /\ pc' = IF err' = "none" THEN "bind" ELSE "finalize"
      /\ UNCHANGED settingVars
  BY DEF Prepare
<1>3. Refusal(c) \in ArgumentErrors \union {"none"}
  BY RefusalIsAnError
<1>4. StatementTypeOK'
  <2>1. countBindParam(c) \in 0 .. MaxArgs * MaxNeeded
    <3>1. /\ c.size \in Nat /\ c.size <= MaxArgs /\ c.needed \in Nat /\ c.needed <= MaxNeeded
          /\ MaxArgs \in Nat /\ MaxNeeded \in Nat /\ MaxArgs >= 1 /\ MaxNeeded >= 1
      BY <1>1, StatementAssumption DEF IsRequest
    <3>2. c.needed * c.size <= MaxNeeded * c.size /\ MaxNeeded * c.size <= MaxNeeded * MaxArgs
      BY <3>1
    <3>3. c.needed * c.size \in 0 .. MaxArgs * MaxNeeded
      BY <3>1, <3>2
    <3>4. MaxArgs <= MaxArgs * MaxNeeded /\ 1 <= MaxArgs * MaxNeeded
      BY <3>1
    <3>5. QED
      BY <3>1, <3>3, <3>4 DEF countBindParam
  <2>2. 1 \in 1 .. MaxArgs + 1 /\ {} \subseteq 1 .. MaxArgs
    BY StatementAssumption
  <2>3. <<>> \in Seq(Bound) /\ <<>> \in Seq(1 .. MaxArgs) /\ <<>> \in Seq(Seq(Bound))
    OBVIOUS
  <2>4. err' \in Errors
    BY <1>2, <1>3 DEF Errors
  <2>5. QED
    BY <1>1, <1>2, <2>1, <2>2, <2>3, <2>4, SettingsKept DEF StatementTypeOK, IsRequest
<1>5. RequestOK' /\ MismatchExecutesNothing'
  BY <1>1, <1>2, <1>3 DEF RequestOK, AtWork, Answering, MismatchExecutesNothing
<1>6. CASE Refusal(c) = "none"
  <2>1. pc' = "bind" /\ err' = "none"
    BY <1>2, <1>6
  <2>2. /\ countBindParam(c) \in Nat /\ count(c) \in Nat /\ 1 <= count(c)
        /\ c.needed \in Nat
    BY <1>1, <1>6, Counts, StatementAssumption DEF IsRequest
  <2>3. WorkOK'
    BY <1>2, <2>1, <2>2 DEF WorkOK
  <2>4. BindOK'
    BY <1>2, <2>1, <2>2 DEF BindOK, PlaceOf
  <2>5. StepOK' /\ FieldsOK' /\ AnswerOK'
    BY <1>2, <2>1 DEF StepOK, FieldsOK, AnswerOK, Answering
  <2>6. QED
    BY <1>2, <1>4, <1>5, <2>3, <2>4, <2>5, SettingsKept DEF StInv
<1>7. CASE Refusal(c) # "none"
  <2>1. pc' = "finalize" /\ err' # "none"
    BY <1>2, <1>7
  <2>2. WorkOK' /\ BindOK' /\ StepOK' /\ FieldsOK' /\ AnswerOK'
    BY <2>1 DEF WorkOK, BindOK, StepOK, FieldsOK, AnswerOK, AtWork, Answering
  <2>3. QED
    BY <1>2, <1>4, <1>5, <2>2, SettingsKept DEF StInv
<1>8. QED
  BY <1>6, <1>7

\* What the pointer and the counter say before an execution.
LEMMA PlaceFacts ==
  ASSUME StInv, pc = "bind"
  PROVE  /\ IsRequest(call) /\ Refusal(call) = "none" /\ err = "none"
         /\ i \in Nat \ {0} /\ i <= count(call) /\ count(call) \in Nat /\ count(call) <= MaxArgs
         /\ call.needed \in Nat /\ call.needed <= MaxNeeded /\ left \in Nat /\ next \in Nat
         /\ call.needed * (i - 1) \in Nat /\ countBindParam(call) \in Nat
         /\ left = countBindParam(call) - call.needed * (i - 1)
         /\ ~haveParamStruct(call) =>
              /\ next = call.needed * (i - 1) + 1
              /\ countBindParam(call) <= MaxArgs /\ next + left = countBindParam(call) + 1
<1>1. /\ IsRequest(call) /\ Refusal(call) = "none" /\ err = "none" /\ i \in 1 .. count(call)
      /\ PlaceOf(i)
      /\ ~haveParamStruct(call) => next + left = countBindParam(call) + 1
  BY DEF StInv, RequestOK, WorkOK, BindOK, AtWork
<1>2. /\ count(call) \in 1 .. MaxArgs /\ countBindParam(call) \in 0 .. MaxArgs * MaxNeeded
      /\ ~haveParamStruct(call) => countBindParam(call) <= MaxArgs
  BY <1>1, Counts
<1>3. call.needed \in Nat /\ call.needed <= MaxNeeded
  BY <1>1, StatementAssumption DEF IsRequest
<1>4. left \in Nat /\ next \in Nat
  BY StatementAssumption DEF StInv, StatementTypeOK
<1>5. i \in Nat \ {0} /\ i <= count(call) /\ count(call) \in Nat /\ count(call) <= MaxArgs
  BY <1>1, <1>2, StatementAssumption
<1>6. call.needed * (i - 1) \in Nat /\ countBindParam(call) \in Nat
  BY <1>2, <1>3, <1>5, StatementAssumption
<1>7. QED
  BY <1>1, <1>2, <1>3, <1>4, <1>5, <1>6 DEF PlaceOf

\* The placeholders that get a value are those the plan has one for, and the same one.
LEMMA BindingsOfThePlan ==
  ASSUME StInv, pc = "bind"
  PROVE  [p \in 1 .. call.needed |-> IF p \in Filled THEN Pick(p) ELSE Null]
            = PlanOf(call)[i]
<1>1. i \in 1 .. count(call) /\ i \in Nat
  BY PlaceFacts
<1>2. ASSUME NEW p \in 1 .. call.needed
      PROVE  (IF p \in Filled THEN Pick(p) ELSE Null) = ValueAt(call, i, p)
  <2>1. p \in Filled <=> call.needed * (i - 1) + p <= countBindParam(call)
    <3>1. p \in Filled <=> p <= left
      BY PlaceFacts DEF Filled
    <3>2. QED
      BY <3>1, PlaceFacts
  <2>2. CASE haveParamStruct(call)
    <3>1. ASSUME p \in Filled PROVE i <= call.size
      <4>1. /\ call.needed \in Nat /\ call.size \in Nat /\ i \in Nat \ {0} /\ p \in Nat \ {0}
            /\ p <= call.needed
        BY PlaceFacts, StatementAssumption DEF IsRequest
      <4>2. call.needed * (i - 1) + p <= call.needed * call.size
        BY <2>1, <2>2, <3>1 DEF countBindParam
      <4> DEFINE n == call.needed
                 s == call.size
      <4> HIDE DEF n, s
      <4>3. n \in Nat /\ s \in Nat /\ n * (i - 1) + p <= n * s
        BY <4>1, <4>2 DEF n, s
      <4>4. ASSUME ~(i <= s) PROVE FALSE
        <5>1. PICK k \in Nat : i - 1 = s + k
          BY <4>1, <4>3, <4>4
        <5>2. n * (s + k) = n * s + n * k /\ n * k \in Nat /\ n * s \in Nat
          BY <4>3, <5>1
        <5>3. QED
          BY <4>1, <4>3, <5>1, <5>2
      <4>5. QED
        BY <4>4 DEF s
    <3>2. QED
      BY <2>1, <2>2, <3>1 DEF ValueAt, FieldAt, Pick, GetField
  <2>3. CASE ~haveParamStruct(call)
    <3>1. next + p - 1 = call.needed * (i - 1) + p
      BY <2>3, PlaceFacts
    <3>2. QED
      BY <2>1, <2>3, <3>1 DEF ValueAt, Pick
  <2>4. QED
    BY <2>2, <2>3
<1>3. PlanOf(call)[i] = [p \in 1 .. call.needed |-> ValueAt(call, i, p)]
  <2>1. PlanOf(call) =
          [j \in 1 .. count(call) |-> [p \in 1 .. call.needed |-> ValueAt(call, j, p)]]
    BY PlaceFacts, PlanEntries
  <2>2. QED
    BY <1>1, <2>1
<1>4. QED
  BY <1>2, <1>3

LEMMA PlanEntryType ==
  ASSUME NEW c, IsRequest(c), Refusal(c) = "none", NEW j \in 1 .. count(c)
  PROVE  PlanOf(c)[j] \in Seq(Bound)
<1>1. PlanOf(c) \in Seq(Seq(Bound)) /\ Len(PlanOf(c)) = count(c)
  BY PlanIsATypedBatch
<1>2. QED
  BY <1>1

\* As long as there is another execution, there are values for all of this one.
LEMMA PlaceMovesOn ==
  ASSUME StInv, pc = "bind", Advance, UNCHANGED <<call, i>>
  PROVE  /\ left' \in 0 .. MaxArgs * MaxNeeded /\ next' \in 1 .. MaxArgs + 1
         /\ ~haveParamStruct(call) => next' + left' = countBindParam(call) + 1
         /\ i < count(call) => PlaceOf(i + 1)'
<1> DEFINE bound == IF call.needed < left THEN call.needed ELSE left
<1>1. bound \in Nat /\ bound <= left
  BY PlaceFacts
<1>2. left' = left - bound /\ next' = IF haveParamStruct(call) THEN next ELSE next + bound
  BY DEF Advance
<1>3. left \in 0 .. MaxArgs * MaxNeeded /\ next \in 1 .. MaxArgs + 1
  BY DEF StInv, StatementTypeOK
<1>4. MaxArgs * MaxNeeded \in Nat /\ MaxArgs \in Nat
  BY StatementAssumption
<1>5. i < count(call) => bound = call.needed
  <2> SUFFICES ASSUME i < count(call) PROVE call.needed <= left
    BY PlaceFacts
  <2>1. call.wrapping /\ call.needed > 0
    BY PlaceFacts, Counts
  <2>2. call.needed * count(call) = countBindParam(call)
    BY <2>1, PlaceFacts, Counts
  <2> DEFINE n == call.needed
             q == i - 1
             k == count(call) - i - 1
  <2>3. n \in Nat /\ q \in Nat /\ k \in Nat /\ count(call) = q + 2 + k
    <3>1. n \in Nat /\ i \in Nat \ {0} /\ count(call) \in Nat
      BY PlaceFacts
    <3> HIDE DEF n
    <3>2. QED
      BY <3>1
  <2>4. left = n * count(call) - n * q
    BY <2>2, PlaceFacts
  <2> HIDE DEF n, q, k
  <2>5. n * (q + 2 + k) = n * q + n + n + n * k /\ n * k \in Nat /\ n * q \in Nat
    BY <2>3
  <2>6. n <= left
    BY <2>3, <2>4, <2>5
  <2>7. QED
    BY <2>6 DEF n
<1> HIDE DEF bound
<1>6. left' \in 0 .. MaxArgs * MaxNeeded
  BY <1>1, <1>2, <1>3, <1>4
<1>7. ~haveParamStruct(call) => next' + left' = countBindParam(call) + 1
  BY <1>1, <1>2, PlaceFacts
<1>8. next' \in 1 .. MaxArgs + 1
  BY <1>1, <1>2, <1>3, <1>4, <1>6, <1>7, PlaceFacts
<1>9. i < count(call) => PlaceOf(i + 1)'
  <2> SUFFICES ASSUME i < count(call) PROVE PlaceOf(i + 1)'
    OBVIOUS
  <2>1. call' = call /\ i' = i
    OBVIOUS
  <2>2. call.needed * ((i + 1) - 1) = call.needed * (i - 1) + call.needed
    BY PlaceFacts
  <2>3. left' = countBindParam(call) - call.needed * ((i + 1) - 1)
    BY <1>2, <1>5, <2>2, PlaceFacts
  <2>4. ~haveParamStruct(call) => next' = call.needed * ((i + 1) - 1) + 1
    BY <1>2, <1>5, <2>2, PlaceFacts
  <2>5. QED
    BY <2>1, <2>3, <2>4 DEF PlaceOf, haveParamStruct, CellOpened, countBindParam, AsWhole
<1>10. QED
  BY <1>6, <1>7, <1>8, <1>9

\* The types that a step may touch; the others, and the settings, stay.
LEMMA BindKeepsStInv ==
  ASSUME StInv, Bind
  PROVE  StInv'
<1>1. /\ pc = "bind" /\ pc' = "step" /\ Unfit = {} /\ Advance
      /\ bindings' = [p \in 1 .. call.needed |-> IF p \in Filled THEN Pick(p) ELSE Null]
      /\ cols' = IF i = 1 THEN <<>> ELSE cols
      /\ UNCHANGED <<call, i, fetched, rowids, made, err, settingVars>>
  BY DEF Bind, Initialize
<1>2. bindings' = PlanOf(call)[i] /\ i \in 1 .. count(call)
  BY <1>1, BindingsOfThePlan, PlaceFacts
<1>3. StatementTypeOK'
  <2>1. bindings' \in Seq(Bound)
    <3>1. IsRequest(call) /\ Refusal(call) = "none"
      BY <1>1, PlaceFacts
    <3>2. PlanOf(call)[i] \in Seq(Bound)
      BY <1>2, <3>1, PlanEntryType, Zenon
    <3>3. QED
      BY <1>2, <3>2, Zenon
  <2>2. cols' \in Seq(1 .. MaxArgs)
    <3>1. cols \in Seq(1 .. MaxArgs) /\ <<>> \in Seq(1 .. MaxArgs)
      BY DEF StInv, StatementTypeOK
    <3>2. QED
      BY <1>1, <3>1
  <2>3. left' \in 0 .. MaxArgs * MaxNeeded /\ next' \in 1 .. MaxArgs + 1
    BY <1>1, PlaceMovesOn
  <2>4. QED
    BY <1>1, <2>1, <2>2, <2>3, SettingsKept DEF StInv, StatementTypeOK
<1>4. RequestOK'
  BY <1>1 DEF StInv, RequestOK, AtWork
<1>5. WorkOK'
  BY <1>1, PlaceMovesOn DEF StInv, WorkOK, AtWork
<1>6. BindOK' /\ AnswerOK'
  BY <1>1 DEF BindOK, AnswerOK, Answering
<1>7. StepOK'
  <2>1. cols' = fetched'
    BY <1>1 DEF StInv, BindOK
  <2>2. i < count(call) => PlaceOf(i + 1)'
    BY <1>1, PlaceMovesOn
  <2>3. QED
    BY <1>1, <1>2, <2>1, <2>2 DEF StepOK
<1>8. FieldsOK'
  <2>1. CASE i > 1
    BY <1>1, <2>1 DEF StInv, FieldsOK
  <2>2. CASE ~(i > 1)
    <3> SUFFICES ASSUME haveParamStruct(call), call.size > 0, NEW p \in 1 .. call.needed
                 PROVE  p \in call.fields
      BY <1>1 DEF FieldsOK
    <3>1. i = 1
      BY <2>2, PlaceFacts, <1>1
    <3>2. left = call.needed * call.size /\ call.needed \in Nat /\ call.size \in Nat \ {0}
      <4>1. call.needed \in Nat /\ call.size \in Nat \ {0}
        BY <1>1, PlaceFacts, StatementAssumption DEF IsRequest
      <4>2. left = countBindParam(call)
        BY <1>1, <3>1, <4>1, PlaceFacts
      <4>3. QED
        BY <4>1, <4>2 DEF countBindParam
    <3>3. call.needed <= left
      BY <3>2
    <3>4. p \in Filled
      BY <1>1, <3>3, PlaceFacts DEF Filled
    <3>5. ~FieldMissing(p)
      BY <1>1, <3>4 DEF Unfit
    <3>6. QED
      BY <3>5 DEF FieldMissing
  <2>3. QED
    BY <2>1, <2>2
<1>9. MismatchExecutesNothing'
  BY <1>1 DEF StInv, MismatchExecutesNothing
<1>10. QED
  BY <1>1, <1>3, <1>4, <1>5, <1>6, <1>7, <1>8, <1>9, SettingsKept DEF StInv

\* A field is missing before the first execution or not at all.
LEMMA BindFailsKeepsStInv ==
  ASSUME StInv, BindFails
  PROVE  StInv'
<1>1. /\ pc = "bind" /\ pc' = "finalize"
      /\ UNCHANGED <<call, i, next, left, bindings, cols, fetched, rowids, made, settingVars>>
  BY DEF BindFails
<1>2. err' \in {"MSG_MISSINGARG_STRUCT", "MSG_INVALIDARG", "SQLITE_ERROR"}
  BY DEF BindFails
<1>3. err' # "none"
  BY <1>2
<1>4. StatementTypeOK'
  BY <1>1, <1>2, SettingsKept DEF StInv, StatementTypeOK, Errors, ArgumentErrors
<1>5. RequestOK' /\ WorkOK' /\ BindOK' /\ StepOK' /\ FieldsOK' /\ AnswerOK'
  BY <1>1, <1>3 DEF RequestOK, WorkOK, BindOK, StepOK, FieldsOK, AnswerOK, AtWork, Answering
<1>6. MismatchExecutesNothing'
  <2>1. ASSUME err' = "MSG_MISSINGARG_STRUCT" PROVE i = 1
    <3>1. PICK p \in Unfit : FieldMissing(p)
      BY <2>1 DEF BindFails
    <3>2. p \in 1 .. call.needed /\ haveParamStruct(call)
      BY <1>1, <3>1, PlaceFacts DEF Unfit, Filled, FieldMissing
    <3>3. ASSUME i > 1 PROVE FALSE
      <4>1. call.wrapping /\ call.needed > 0
        BY <1>1, <3>3, PlaceFacts, Counts
      <4>2. call.needed * count(call) = call.needed * call.size
        BY <1>1, <3>2, <4>1, PlaceFacts, Counts
      <4>3. count(call) = call.size
        <5>1. call.needed \in Nat \ {0} /\ count(call) \in Nat /\ call.size \in Nat
          BY <1>1, <4>1, PlaceFacts, StatementAssumption DEF IsRequest
        <5>2. QED
          BY <4>2, <5>1, Cancel, Zenon
      <4>4. i <= call.size /\ call.size > 0
        BY <1>1, <4>3, PlaceFacts
      <4>5. p \in call.fields
        BY <1>1, <3>2, <3>3, <4>4 DEF StInv, FieldsOK
      <4>6. QED
        BY <1>1, <3>1, <4>4, <4>5, PlaceFacts, StatementAssumption
           DEF FieldMissing, IsRequest
    <3>4. i \in Nat \ {0}
      BY <1>1, PlaceFacts
    <3>5. QED
      BY <3>3, <3>4
  <2>2. Len(made) = i - 1 /\ made \in Seq(Seq(Bound))
    BY <1>1 DEF StInv, WorkOK, AtWork, StatementTypeOK
  <2>3. err' \in ArgumentErrors => made = <<>>
    BY <1>2, <2>1, <2>2 DEF ArgumentErrors
  <2>4. QED
    BY <1>1, <2>3 DEF MismatchExecutesNothing
<1>7. QED
  BY <1>1, <1>4, <1>5, <1>6, SettingsKept DEF StInv

\* What is known while a statement is stepped.
LEMMA StepFacts ==
  ASSUME StInv, pc = "step"
  PROVE  /\ IsRequest(call) /\ call # NoCall /\ Refusal(call) = "none" /\ err = "none"
         /\ i \in 1 .. count(call) /\ count(call) \in 1 .. MaxArgs /\ MaxArgs \in Nat
         /\ i \in Nat /\ count(call) \in Nat
         /\ Len(made) = i - 1 /\ rowids = 1 .. i - 1 /\ cols = fetched
         /\ made \in Seq(Seq(Bound)) /\ bindings \in Seq(Bound)
         /\ bindings = PlanOf(call)[i]
         /\ \A j \in 1 .. Len(made) : made[j] = PlanOf(call)[j]
         /\ ~haveParamStruct(call) => next + left = countBindParam(call) + 1
         /\ i < count(call) => PlaceOf(i + 1)
<1>1. /\ IsRequest(call) /\ call # NoCall /\ Refusal(call) = "none" /\ err = "none"
      /\ i \in 1 .. count(call)
      /\ Len(made) = i - 1 /\ rowids = 1 .. i - 1 /\ cols = fetched
      /\ bindings = PlanOf(call)[i]
      /\ \A j \in 1 .. Len(made) : made[j] = PlanOf(call)[j]
      /\ ~haveParamStruct(call) => next + left = countBindParam(call) + 1
      /\ i < count(call) => PlaceOf(i + 1)
  BY DEF StInv, RequestOK, WorkOK, StepOK, AtWork
<1>2. count(call) \in 1 .. MaxArgs /\ MaxArgs \in Nat
  BY <1>1, Counts, StatementAssumption
<1>3. made \in Seq(Seq(Bound)) /\ bindings \in Seq(Bound)
  BY DEF StInv, StatementTypeOK
<1>4. QED
  BY <1>1, <1>2, <1>3

LEMMA StepRowKeepsStInv ==
  ASSUME StInv, StepRow
  PROVE  StInv'
<1>1. /\ pc = "step" /\ cols' = Append(cols, i) /\ fetched' = Append(fetched, i)
      /\ UNCHANGED <<pc, call, i, next, left, bindings, rowids, made, err, settingVars>>
  BY DEF StepRow
<1>2. i \in 1 .. MaxArgs
  BY <1>1, StepFacts
<1>3. StatementTypeOK'
  <2>1. cols' \in Seq(1 .. MaxArgs) /\ fetched' \in Seq(1 .. MaxArgs)
    <3>1. cols \in Seq(1 .. MaxArgs) /\ fetched \in Seq(1 .. MaxArgs)
      BY DEF StInv, StatementTypeOK
    <3>2. QED
      BY <1>1, <1>2, <3>1
  <2>2. QED
    BY <1>1, <2>1, SettingsKept DEF StInv, StatementTypeOK
<1>4. RequestOK' /\ WorkOK' /\ BindOK' /\ FieldsOK' /\ AnswerOK' /\ MismatchExecutesNothing'
  BY <1>1 DEF StInv, RequestOK, WorkOK, BindOK, FieldsOK, AnswerOK, AtWork, Answering,
     MismatchExecutesNothing
<1>5. StepOK'
  <2>1. cols' = fetched' /\ bindings = PlanOf(call)[i]
    BY <1>1, StepFacts
  <2>2. QED
    BY <1>1, <2>1 DEF StInv, StepOK, PlaceOf
<1>6. QED
  BY <1>1, <1>3, <1>4, <1>5, SettingsKept DEF StInv

LEMMA StepDoneKeepsStInv ==
  ASSUME StInv, StepDone
  PROVE  StInv'
<1>1. /\ pc = "step" /\ made' = Append(made, bindings) /\ rowids' = rowids \union {i}
      /\ i' = i + 1 /\ pc' = IF i < count(call) THEN "bind" ELSE "finalize"
      /\ UNCHANGED <<call, next, left, bindings, cols, fetched, err, settingVars>>
  BY DEF StepDone
<1>2. /\ Len(made') = i /\ made' \in Seq(Seq(Bound))
      /\ \A j \in 1 .. Len(made') : made'[j] = PlanOf(call)[j]
  BY <1>1, StepFacts
<1>3. rowids' = 1 .. i /\ i' \in 1 .. MaxArgs + 1 /\ rowids' \subseteq 1 .. MaxArgs
  BY <1>1, StepFacts
<1>4. err = "none" /\ err' = "none" /\ i \in Nat /\ i >= 1 /\ i <= count(call)
      /\ count(call) \in Nat
  BY <1>1, StepFacts
<1>5. StatementTypeOK'
  BY <1>1, <1>2, <1>3, SettingsKept DEF StInv, StatementTypeOK
<1>6. RequestOK'
  BY <1>1, <1>2, StepFacts DEF RequestOK
<1>7. MismatchExecutesNothing'
  BY <1>4 DEF MismatchExecutesNothing, ArgumentErrors
<1>8. CASE i < count(call)
  <2>1. pc' = "bind" /\ i' \in 1 .. count(call) /\ i' > 1 /\ i' - 1 = i /\ i' # 1
    BY <1>1, <1>4, <1>8
  <2>2. WorkOK'
    BY <1>1, <1>2, <1>3, <1>4, <2>1, StepFacts DEF WorkOK
  <2>3. /\ left' = countBindParam(call) - call.needed * (i' - 1)
        /\ ~haveParamStruct(call) => next' = call.needed * (i' - 1) + 1
    <3>1. PlaceOf(i + 1)
      BY <1>1, <1>8, StepFacts
    <3>2. QED
      BY <1>1, <3>1 DEF PlaceOf
  <2>4. BindOK'
    BY <1>1, <2>1, <2>3, StepFacts DEF BindOK, PlaceOf
  <2>5. FieldsOK'
    BY <1>1, <2>1 DEF StInv, FieldsOK
  <2>6. StepOK' /\ AnswerOK'
    BY <2>1 DEF StepOK, AnswerOK, Answering
  <2>7. QED
    BY <1>1, <1>5, <1>6, <1>7, <2>2, <2>4, <2>5, <2>6, SettingsKept DEF StInv
<1>9. CASE ~(i < count(call))
  <2>1. pc' = "finalize" /\ i = count(call)
    BY <1>1, <1>4, <1>9
  <2>2. WorkOK' /\ BindOK' /\ StepOK' /\ FieldsOK'
    BY <2>1 DEF WorkOK, BindOK, StepOK, FieldsOK, AtWork
  <2>3. AnswerOK'
    BY <1>1, <1>2, <1>3, <2>1, StepFacts DEF AnswerOK
  <2>4. QED
    BY <1>1, <1>5, <1>6, <1>7, <2>2, <2>3, SettingsKept DEF StInv
<1>10. QED
  BY <1>8, <1>9

LEMMA StepFailsKeepsStInv ==
  ASSUME StInv, StepFails
  PROVE  StInv'
<1>1. /\ pc = "step" /\ pc' = "finalize" /\ err' = "SQLITE_ERROR" /\ cols' = <<>>
      /\ UNCHANGED <<call, i, next, left, bindings, fetched, rowids, made, settingVars>>
  BY DEF StepFails
<1>2. StatementTypeOK'
  BY <1>1, SettingsKept DEF StInv, StatementTypeOK, Errors
<1>3. err' # "none" /\ err' \notin ArgumentErrors
  BY <1>1 DEF ArgumentErrors
<1>4. QED
  BY <1>1, <1>2, <1>3, SettingsKept DEF StInv, RequestOK, WorkOK, BindOK, StepOK, FieldsOK,
     AnswerOK, AtWork, Answering, MismatchExecutesNothing

LEMMA FinalizeKeepsStInv ==
  ASSUME StInv, Finalize
  PROVE  StInv'
<1>1. /\ pc' = "idle" /\ bindings' = <<>>
      /\ UNCHANGED <<call, i, next, left, cols, fetched, rowids, made, err, settingVars>>
  BY DEF Finalize
<1>2. StatementTypeOK'
  <2>1. <<>> \in Seq(Bound)
    OBVIOUS
  <2>2. QED
    BY <1>1, <2>1, SettingsKept DEF StInv, StatementTypeOK
<1>3. QED
  BY <1>1, <1>2, SettingsKept DEF StInv, RequestOK, WorkOK, BindOK, StepOK, FieldsOK,
     AnswerOK, AtWork, Answering, MismatchExecutesNothing

LEMMA StepStInv == StInv /\ [StatementNext]_<<settingVars, statementVars>> => StInv'
<1> SUFFICES ASSUME StInv, [StatementNext]_<<settingVars, statementVars>> PROVE StInv'
  OBVIOUS
<1>1. CASE pc = "idle" /\ SettingCommand /\ UNCHANGED statementVars
  BY <1>1, SettingsApart
<1>2. ASSUME NEW form \in Forms, NEW size \in 0 .. MaxArgs, NEW needed \in 0 .. MaxNeeded,
             NEW c \in Arguments(form, size, needed), Prepare(c)
      PROVE  StInv'
  BY <1>2, PrepareKeepsStInv
<1>3. CASE Bind
  BY <1>3, BindKeepsStInv
<1>4. CASE BindFails
  BY <1>4, BindFailsKeepsStInv
<1>5. CASE StepRow
  BY <1>5, StepRowKeepsStInv
<1>6. CASE StepDone
  BY <1>6, StepDoneKeepsStInv
<1>7. CASE StepFails
  BY <1>7, StepFailsKeepsStInv
<1>8. CASE Callback
  BY <1>8, SettingsApart DEF Callback
<1>9. CASE Finalize
  BY <1>9, FinalizeKeepsStInv
<1>10. CASE UNCHANGED <<settingVars, statementVars>>
  BY <1>10, SettingsApart
<1>11. QED
  BY <1>1, <1>2, <1>3, <1>4, <1>5, <1>6, <1>7, <1>8, <1>9, <1>10 DEF StatementNext

LEMMA StInvAlways == StatementSpec => []StInv
  BY InitStInv, StepStInv, PTL DEF StatementSpec

-----------------------------------------------------------------------------
(* Theorems *)

\* The types of what cmdHandleSQLStatement keeps: pointer, counter, bindings and columns.
THEOREM StatementTypeCorrect == StatementSpec => []StatementTypeOK
<1>1. StInv => StatementTypeOK
  BY DEF StInv
<1>2. QED
  BY <1>1, StInvAlways, PTL

\* A refusal for what the arguments are comes before the first execution.
THEOREM MismatchesExecuteNothing == StatementSpec => []MismatchExecutesNothing
<1>1. StInv => MismatchExecutesNothing
  BY DEF StInv
<1>2. QED
  BY <1>1, StInvAlways, PTL

\* What a call answers when all went well has the rows and row ids of all executions.
THEOREM AnswersAreComplete == StatementSpec => []AnswerIsComplete
<1>1. StInv => AnswerIsComplete
  BY DEF StInv, AnswerOK, Answering, AnswerIsComplete
<1>2. QED
  BY <1>1, StInvAlways, PTL

-----------------------------------------------------------------------------
(* The promise of Batch is kept *)

\* What Batch sees of a statement.
BatchPlan == IF call = NoCall \/ Refusal(call) # "none" THEN <<>> ELSE PlanOf(call)
BatchStatus ==
    IF pc # "idle" /\ Refusal(call) = "none" THEN "running"
    ELSE IF err = "none" THEN "ok" ELSE "failed"

LEMMA InitialBatch == StatementInit => Promise!Init
  BY DEF StatementInit, Promise!Init

LEMMA PrepareBegins ==
  ASSUME StInv, NEW form \in Forms, NEW size \in 0 .. MaxArgs, NEW needed \in 0 .. MaxNeeded,
         NEW c \in Arguments(form, size, needed), Prepare(c)
  PROVE  Promise!Begin \/ Promise!Refuse
<1>1. IsRequest(c) /\ c # NoCall
  BY ArgumentsAreRequests DEF StInv, StatementTypeOK
<1>2. /\ pc = "idle" /\ call' = c /\ made' = <<>> /\ err' = Refusal(c)
      /\ pc' = IF err' = "none" THEN "bind" ELSE "finalize"
  BY DEF Prepare
<1>3. BatchStatus # "running" /\ pc' # "idle"
  BY <1>2 DEF BatchStatus
<1>4. CASE Refusal(c) = "none"
  <2>1. BatchPlan' = PlanOf(c) /\ BatchStatus' = "running"
    BY <1>1, <1>2, <1>3, <1>4 DEF BatchPlan, BatchStatus
  <2>2. PlanOf(c) \in Seq(Seq(Bound))
    BY <1>1, <1>4, PlanIsATypedBatch
  <2>3. QED
    BY <1>2, <1>3, <2>1, <2>2 DEF Promise!Begin, BatchPlan, BatchStatus
<1>5. CASE Refusal(c) # "none"
  <2>1. BatchPlan' = <<>> /\ BatchStatus' = "failed"
    BY <1>2, <1>5 DEF BatchPlan, BatchStatus
  <2>2. QED
    BY <1>2, <1>3, <2>1 DEF Promise!Refuse, BatchPlan, BatchStatus
<1>6. QED
  BY <1>4, <1>5

LEMMA StepDoneExecutes ==
  ASSUME StInv, StepDone
  PROVE  Promise!Execute
<1>1. /\ pc = "step" /\ made' = Append(made, bindings) /\ UNCHANGED <<call, err>>
      /\ pc' \in {"bind", "finalize"}
  BY DEF StepDone
<1>2. BatchPlan = PlanOf(call) /\ BatchStatus = "running"
  BY <1>1, StepFacts DEF BatchPlan, BatchStatus
<1>3. BatchPlan' = BatchPlan /\ BatchStatus' = "running"
  BY <1>1, <1>2, StepFacts DEF BatchPlan, BatchStatus
<1>4. Len(made) < Len(PlanOf(call)) /\ bindings = PlanOf(call)[Len(made) + 1]
  BY <1>1, StepFacts, PlanIsATypedBatch
<1>5. QED
  BY <1>1, <1>2, <1>3, <1>4 DEF Promise!Execute, BatchPlan, BatchStatus

LEMMA FinalizeEnds ==
  ASSUME StInv, Finalize
  PROVE  Promise!Succeed \/ Promise!Fail \/ UNCHANGED Promise!vars
<1>1. pc = "finalize" /\ pc' = "idle" /\ UNCHANGED <<call, made, err>>
  BY DEF Finalize
<1>2. BatchPlan' = BatchPlan
  BY <1>1 DEF BatchPlan
<1>3. CASE Refusal(call) # "none"
  <2>1. BatchStatus' = BatchStatus
    BY <1>1, <1>3 DEF BatchStatus
  <2>2. QED
    BY <1>1, <1>2, <2>1 DEF Promise!vars, BatchPlan, BatchStatus
<1>4. CASE Refusal(call) = "none" /\ err = "none"
  <2>1. BatchStatus = "running" /\ BatchStatus' = "ok"
    BY <1>1, <1>4 DEF BatchStatus
  <2>2. /\ IsRequest(call) /\ call # NoCall /\ Len(made) = count(call)
        /\ \A j \in 1 .. Len(made) : made[j] = PlanOf(call)[j]
    BY <1>1, <1>4 DEF StInv, RequestOK, AnswerOK, Answering
  <2>3. PlanOf(call) \in Seq(Seq(Bound)) /\ Len(PlanOf(call)) = count(call)
    BY <1>4, <2>2, PlanIsATypedBatch
  <2>4. made = PlanOf(call)
    <3>1. made \in Seq(Seq(Bound))
      BY DEF StInv, StatementTypeOK
    <3>2. QED
      BY <2>2, <2>3, <3>1
  <2>5. BatchPlan = PlanOf(call)
    BY <1>4, <2>2 DEF BatchPlan
  <2>6. QED
    BY <1>1, <1>2, <2>1, <2>4, <2>5 DEF Promise!Succeed, BatchPlan, BatchStatus
<1>5. CASE Refusal(call) = "none" /\ err # "none"
  <2>1. BatchStatus = "running" /\ BatchStatus' = "failed"
    BY <1>1, <1>5 DEF BatchStatus
  <2>2. QED
    BY <1>1, <1>2, <2>1 DEF Promise!Fail, BatchPlan, BatchStatus
<1>6. QED
  BY <1>3, <1>4, <1>5

\* The other steps of a statement are none of the batch.
LEMMA QuietSteps ==
  ASSUME UNCHANGED <<call, made>>,
         \/ UNCHANGED <<pc, err>>
         \/ pc # "idle" /\ pc' # "idle" /\ Refusal(call) = "none"
  PROVE  UNCHANGED Promise!vars
  BY DEF Promise!vars

LEMMA StepKeepsPromise ==
  StInv /\ [StatementNext]_<<settingVars, statementVars>> => [Promise!Next]_Promise!vars
<1> SUFFICES ASSUME StInv, [StatementNext]_<<settingVars, statementVars>>
             PROVE  [Promise!Next]_Promise!vars
  OBVIOUS
<1>1. CASE UNCHANGED statementVars
  BY <1>1, QuietSteps DEF statementVars, callVars
<1>2. ASSUME NEW form \in Forms, NEW size \in 0 .. MaxArgs, NEW needed \in 0 .. MaxNeeded,
             NEW c \in Arguments(form, size, needed), Prepare(c)
      PROVE  [Promise!Next]_Promise!vars
  BY <1>2, PrepareBegins DEF Promise!Next
<1>3. CASE Bind
  <2>1. pc = "bind" /\ pc' = "step" /\ UNCHANGED <<call, made>>
    BY <1>3 DEF Bind
  <2>2. QED
    BY <2>1, PlaceFacts, QuietSteps
<1>4. CASE BindFails
  <2>1. pc = "bind" /\ pc' = "finalize" /\ UNCHANGED <<call, made>>
    BY <1>4 DEF BindFails
  <2>2. QED
    BY <2>1, PlaceFacts, QuietSteps
<1>5. CASE StepRow
  BY <1>5, QuietSteps DEF StepRow
<1>6. CASE StepDone
  BY <1>6, StepDoneExecutes DEF Promise!Next
<1>7. CASE StepFails
  <2>1. pc = "step" /\ pc' = "finalize" /\ UNCHANGED <<call, made>>
    BY <1>7 DEF StepFails
  <2>2. QED
    BY <2>1, StepFacts, QuietSteps
<1>8. CASE Finalize
  BY <1>8, FinalizeEnds DEF Promise!Next
<1>9. QED
  BY <1>1, <1>2, <1>3, <1>4, <1>5, <1>6, <1>7, <1>8 DEF StatementNext, Callback

\* cmdHandleSQLStatement: however the arguments are given and whatever is set meanwhile,
\* the executions are those of the plan, in order, and success means all of them.
THEOREM StatementsKeepThePromise == StatementSpec => BatchSpec
<1>1. StatementSpec => Promise!Init
  BY InitialBatch DEF StatementSpec
<1>2. StatementSpec => [][Promise!Next]_Promise!vars
  BY StInvAlways, StepKeepsPromise, PTL DEF StatementSpec
<1>3. QED
  BY <1>1, <1>2 DEF BatchSpec, Promise!Spec
==============================================================================
