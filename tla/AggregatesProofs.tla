-------------------------- MODULE AggregatesProofs --------------------------
(***************************************************************************)
(* Proofs about Aggregates, for any aggregates and any nesting of          *)
(* statements with any number of expressions.                              *)
(***************************************************************************)
EXTENDS Aggregates, SequenceTheorems, TLAPS

-----------------------------------------------------------------------------
(* Types *)

LEMMA NoCallIsNone == \A c \in Call : c # NoCall /\ c.func # "none"
  BY DEF Call, NoCall

\* What a function in progress is.
LEMMA CallInProgress ==
  ASSUME AggregatesTypeOK, NEW n \in Levels, call[n] # NoCall
  PROVE  /\ call[n] \in Call
         /\ call[n].func \in {"STEP", "FINAL"} /\ call[n].use \in Uses
         /\ call[n].data \in Rows /\ call[n].row \in Nat
<1>1. call[n] \in Call \union {NoCall}
  BY DEF AggregatesTypeOK
<1>2. QED
  BY <1>1 DEF Call

LEMMA LevelsInUse ==
  ASSUME AggregatesTypeOK
  PROVE  /\ depth \in Nat /\ depth <= MaxDepth
         /\ \A n \in 1 .. depth : n \in Levels
         /\ depth > 0 => depth \in Levels
  BY BoundsAssumption DEF AggregatesTypeOK, Levels

LEMMA DisturbedProperties ==
  ASSUME AggregatesTypeOK, NEW a, NEW n, NEW u
  PROVE  /\ Disturbed(a, n, u) \in [Levels -> [Uses -> BOOLEAN]]
         /\ \A m \in Levels, v \in Uses :
               Disturbed(a, n, u)[m][v] <=>
                  undisturbed[m][v]
                    /\ ~(v \in UsesOf(m) /\ uses[m][v] = a /\ ~(m = n /\ v = u))
  BY DEF Disturbed, AggregatesTypeOK

LEMMA InitType == Init => AggregatesTypeOK
<1> SUFFICES ASSUME Init PROVE AggregatesTypeOK
  OBVIOUS
<1>1. <<>> \in Rows /\ <<>> \in Seq(AggregateNames) /\ Len(<<>>) = 0
  BY DEF Rows
<1>2. 0 \in 0 .. MaxDepth /\ 0 \in 0 .. MaxUses /\ 0 \in 0 .. MaxRows /\ 0 <= MaxUses
  BY BoundsAssumption
<1> HIDE DEF Rows
<1>3. QED
  BY <1>1, <1>2 DEF Init, AggregatesTypeOK, Call

LEMMA QueryStartType ==
  ASSUME AggregatesTypeOK, NEW k \in Uses, NEW expressions \in [1 .. k -> AggregateNames],
         QueryStart(expressions)
  PROVE  AggregatesTypeOK'
<1>1. expressions \in Seq(AggregateNames) /\ Len(expressions) = k /\ k <= MaxUses
  BY BoundsAssumption DEF Uses
<1>2. depth' = depth + 1 /\ depth' \in Levels /\ depth' \in 0 .. MaxDepth
  BY BoundsAssumption DEF QueryStart, AggregatesTypeOK, Levels
<1>3. uses' \in [Levels -> Seq(AggregateNames)] /\ \A n \in Levels : Len(uses'[n]) <= MaxUses
  BY <1>1, <1>2 DEF QueryStart, AggregatesTypeOK
<1>4. acc' \in [Levels -> [Uses -> Rows]]
  <2>1. <<>> \in Rows
    BY DEF Rows
  <2> HIDE DEF Rows
  <2>2. QED
    BY <1>2, <2>1 DEF QueryStart, AggregatesTypeOK
<1>5. undisturbed' \in [Levels -> [Uses -> BOOLEAN]]
  BY <1>2 DEF QueryStart, AggregatesTypeOK
<1>6. done' \in [Levels -> 0 .. MaxUses] /\ failed' \in [Levels -> BOOLEAN]
  BY <1>2, BoundsAssumption DEF QueryStart, AggregatesTypeOK
<1>7. call' \in [Levels -> Call \union {NoCall}]
  BY <1>2 DEF QueryStart, AggregatesTypeOK
<1>8. QED
  BY <1>2, <1>3, <1>4, <1>5, <1>6, <1>7 DEF QueryStart, AggregatesTypeOK

\* A call that begins: of an expression of the innermost statement.
LEMMA StartedCallType ==
  ASSUME AggregatesTypeOK, Stepping, NEW u \in UsesOf(depth),
         NEW func \in {"STEP", "FINAL"}, NEW row \in Nat
  PROVE  /\ u \in Uses /\ uses[depth][u] \in AggregateNames
         /\ [func |-> func, use |-> u, data |-> m_group_data[uses[depth][u]], row |-> row]
              \in Call
<1>1. depth \in Levels
  BY LevelsInUse DEF Stepping
<1>2. uses[depth] \in Seq(AggregateNames) /\ Len(uses[depth]) <= MaxUses
  BY <1>1 DEF AggregatesTypeOK
<1>3. u \in Uses /\ uses[depth][u] \in AggregateNames
  BY <1>2, BoundsAssumption DEF UsesOf, Uses
<1>4. m_group_data[uses[depth][u]] \in Rows
  BY <1>3 DEF AggregatesTypeOK
<1>5. QED
  BY <1>3, <1>4 DEF Call

LEMMA CallStepType ==
  ASSUME AggregatesTypeOK, NEW u \in Uses, CallStep(u)
  PROVE  AggregatesTypeOK'
<1>1. Stepping /\ u \in UsesOf(depth) /\ depth \in Levels
  BY LevelsInUse DEF CallStep, CanStep, Stepping
<1>2. rows' \in 0 .. MaxRows /\ rows' \in Nat
  BY BoundsAssumption DEF CallStep, AggregatesTypeOK
<1>3. call'[depth] \in Call /\ call' \in [Levels -> Call \union {NoCall}]
  BY <1>1, <1>2, StartedCallType DEF CallStep, AggregatesTypeOK
<1>4. undisturbed' \in [Levels -> [Uses -> BOOLEAN]]
  BY DisturbedProperties DEF CallStep
<1>5. QED
  BY <1>2, <1>3, <1>4 DEF CallStep, AggregatesTypeOK

LEMMA CallFinalType ==
  ASSUME AggregatesTypeOK, CallFinal
  PROVE  AggregatesTypeOK'
<1>1. Stepping /\ depth \in Levels
  BY LevelsInUse DEF CallFinal, CanFinalize, Stepping
<1>2. NextFinal \in UsesOf(depth)
  <2>1. done[depth] \in Nat /\ uses[depth] \in Seq(AggregateNames)
    BY <1>1, BoundsAssumption DEF AggregatesTypeOK
  <2>2. QED
    BY <2>1 DEF CallFinal, CanFinalize, NextFinal, UsesOf
<1>3. call' \in [Levels -> Call \union {NoCall}]
  BY <1>1, <1>2, StartedCallType DEF CallFinal, AggregatesTypeOK
<1>4. undisturbed' \in [Levels -> [Uses -> BOOLEAN]]
  BY DisturbedProperties DEF CallFinal
<1>5. QED
  BY <1>3, <1>4 DEF CallFinal, AggregatesTypeOK

LEMMA EmptyRows == <<>> \in Rows
  BY DEF Rows

LEMMA RowsAreNaturals == \A s \in Rows : RowsIn(s) \subseteq Nat
  BY DEF Rows, RowsIn

\* The function in progress is of an expression of the innermost statement.
LEMMA StepRecursiveType ==
  ASSUME AggregatesTypeOK, NEW u \in Uses, StepRecursive(u)
  PROVE  AggregatesTypeOK'
<1>1. failed' \in [Levels -> BOOLEAN]
  BY DEF StepRecursive, AggregatesTypeOK
<1>2. QED
  BY <1>1 DEF StepRecursive, AggregatesTypeOK

LEMMA StepReturnType ==
  ASSUME AggregatesTypeOK, NEW result \in {"data", "nothing", "exception"},
         StepReturn(result)
  PROVE  AggregatesTypeOK'
<1>1. depth \in Levels /\ call[depth] # NoCall
  BY LevelsInUse DEF StepReturn, NoCall
<1>2. call[depth].data \in Rows /\ call[depth].row \in Nat /\ call[depth].use \in Uses
  BY <1>1, CallInProgress
<1>3. Append(call[depth].data, call[depth].row) \in Rows
  BY <1>2 DEF Rows
<1>4. acc[depth][call[depth].use] \in Rows
  BY <1>1, <1>2 DEF AggregatesTypeOK
<1>5. Append(acc[depth][call[depth].use], call[depth].row) \in Rows
  BY <1>2, <1>4 DEF Rows
<1>6. m_group_data' \in [AggregateNames -> Rows]
  BY <1>3 DEF StepReturn, DataAfterStep, AggregatesTypeOK
<1>7. acc' \in [Levels -> [Uses -> Rows]]
  BY <1>1, <1>2, <1>5 DEF StepReturn, AggregatesTypeOK
<1>8. failed' \in [Levels -> BOOLEAN]
  BY DEF StepReturn, AggregatesTypeOK
<1>9. call' \in [Levels -> Call \union {NoCall}]
  BY DEF StepReturn, AggregatesTypeOK
<1>10. QED
  BY <1>6, <1>7, <1>8, <1>9 DEF StepReturn, AggregatesTypeOK

LEMMA FinalRecursiveType ==
  ASSUME AggregatesTypeOK, FinalRecursive
  PROVE  AggregatesTypeOK'
<1>1. m_group_data' \in [AggregateNames -> Rows]
  BY EmptyRows DEF FinalRecursive, initGroupData, AggregatesTypeOK
<1>2. undisturbed' \in [Levels -> [Uses -> BOOLEAN]]
  BY DisturbedProperties DEF FinalRecursive
<1>3. failed' \in [Levels -> BOOLEAN]
  BY DEF FinalRecursive, AggregatesTypeOK
<1>4. QED
  BY <1>1, <1>2, <1>3 DEF FinalRecursive, AggregatesTypeOK

LEMMA FinalReturnType ==
  ASSUME AggregatesTypeOK, NEW result \in {"value", "error"}, FinalReturn(result),
         call[depth].use = NextFinal, NextFinal \in UsesOf(depth)
  PROVE  AggregatesTypeOK'
<1>1. depth \in Levels
  BY LevelsInUse DEF FinalReturn
<1>2. m_group_data' \in [AggregateNames -> Rows]
  BY EmptyRows DEF FinalReturn, initGroupData, AggregatesTypeOK
<1>3. acc' \in [Levels -> [Uses -> Rows]]
  BY <1>1, EmptyRows DEF FinalReturn, AggregatesTypeOK
<1>4. done' \in [Levels -> 0 .. MaxUses]
  <2>1. NextFinal \in 0 .. MaxUses /\ 0 \in 0 .. MaxUses
    BY <1>1, BoundsAssumption DEF AggregatesTypeOK, UsesOf
  <2>2. QED
    BY <2>1 DEF FinalReturn, EndOfGroup, AggregatesTypeOK
<1>5. undisturbed' \in [Levels -> [Uses -> BOOLEAN]]
  <2> DEFINE fresh == [u \in Uses |->
                 u \in UsesOf(depth) /\ m_group_data'[uses[depth][u]] = <<>>]
  <2>1. fresh \in [Uses -> BOOLEAN]
    OBVIOUS
  <2>2. undisturbed' = [undisturbed EXCEPT ![depth] = fresh] \/ undisturbed' = undisturbed
    BY DEF FinalReturn, EndOfGroup
  <2>3. undisturbed \in [Levels -> [Uses -> BOOLEAN]]
    BY DEF AggregatesTypeOK
  <2> HIDE DEF fresh
  <2>4. QED
    BY <2>1, <2>2, <2>3
<1>6. failed' \in [Levels -> BOOLEAN]
  BY DEF FinalReturn, AggregatesTypeOK
<1>7. call' \in [Levels -> Call \union {NoCall}]
  BY DEF FinalReturn, AggregatesTypeOK
<1>8. QED
  BY <1>2, <1>3, <1>4, <1>5, <1>6, <1>7 DEF FinalReturn, AggregatesTypeOK

LEMMA QueryEndType ==
  ASSUME AggregatesTypeOK, QueryEnd
  PROVE  AggregatesTypeOK'
<1>1. depth \in Levels /\ depth' \in 0 .. MaxDepth
  BY LevelsInUse, BoundsAssumption DEF QueryEnd, Stepping, AggregatesTypeOK
<1>2. \A u \in Uses : RowsIn(acc[depth][u]) \subseteq Nat
  BY <1>1, RowsAreNaturals DEF AggregatesTypeOK
<1>3. abandoned' \subseteq Nat
  BY <1>2 DEF QueryEnd, AggregatesTypeOK
<1>4. QED
  BY <1>1, <1>3 DEF QueryEnd, AggregatesTypeOK

LEMMA attachMexFunctionType ==
  ASSUME AggregatesTypeOK, NEW a \in AggregateNames, attachMexFunction(a)
  PROVE  AggregatesTypeOK'
<1>1. m_group_data' \in [AggregateNames -> Rows]
  BY EmptyRows DEF attachMexFunction, initGroupData, AggregatesTypeOK
<1>2. QED
  BY <1>1 DEF attachMexFunction, statementVars, AggregatesTypeOK

-----------------------------------------------------------------------------
(* The inductive invariant *)

\* What is known of a function in progress: its place in the group that SQLite steps
\* over or finalizes, and that no other one works on the same data.
CallsOK ==
    \A n \in 1 .. depth : call[n] # NoCall =>
        /\ call[n].use \in UsesOf(n)
        /\ call[n].func = "STEP" => done[n] = 0
        /\ call[n].func = "FINAL" => call[n].use = done[n] + 1
        /\ \A m \in 1 .. depth : m # n /\ call[m] # NoCall => Aggregate(m) # Aggregate(n)

\* An expression that is final has no rows left.
DoneOK ==
    \A n \in 1 .. depth :
        /\ done[n] <= Len(uses[n])
        /\ \A u \in UsesOf(n) : u <= done[n] => acc[n][u] = <<>>

\* Row x is of a group that an expression of aggregate a has not finished.
Owned(a, x) ==
    \/ x \in abandoned
    \/ \E n \in 1 .. depth : \E u \in UsesOf(n) : uses[n][u] = a /\ x \in RowsIn(acc[n][u])

OwnedOK ==
    /\ \A a \in AggregateNames : \A x \in RowsIn(m_group_data[a]) : Owned(a, x)
    /\ \A n \in 1 .. depth : \A a \in AggregateNames : call[n] # NoCall /\ Aggregate(n) = a =>
         \A x \in RowsIn(call[n].data) : Owned(a, x)

\* The data of an expression nobody disturbed are its rows, in the functor and in the
\* hands of its function; while that is in progress it is the only such expression.
FoldsOK ==
    /\ \A n \in 1 .. depth : \A u \in UsesOf(n) :
         undisturbed[n][u] => m_group_data[uses[n][u]] = acc[n][u]
    /\ \A n \in 1 .. depth : call[n] # NoCall /\ undisturbed[n][call[n].use] =>
         call[n].data = acc[n][call[n].use]
    /\ \A n \in 1 .. depth : call[n] # NoCall =>
         \A m \in 1 .. n : \A v \in UsesOf(m) :
            uses[m][v] = Aggregate(n) /\ undisturbed[m][v] => m = n /\ v = call[n].use

IInv == AggregatesTypeOK /\ CallsOK /\ DoneOK /\ OwnedOK /\ FoldsOK

\* The expressions of the statements that run.
LEMMA ExpressionsInUse ==
  ASSUME AggregatesTypeOK, NEW n \in 1 .. depth
  PROVE  /\ n \in Levels /\ n \in Nat
         /\ uses[n] \in Seq(AggregateNames) /\ Len(uses[n]) \in Nat
         /\ \A u \in UsesOf(n) : u \in Uses /\ uses[n][u] \in AggregateNames
<1>1. n \in Levels /\ n \in Nat
  BY LevelsInUse
<1>2. uses[n] \in Seq(AggregateNames) /\ Len(uses[n]) <= MaxUses
  BY <1>1 DEF AggregatesTypeOK
<1>3. QED
  BY <1>1, <1>2, BoundsAssumption DEF UsesOf, Uses

LEMMA InitIInv == Init => IInv
<1> SUFFICES ASSUME Init PROVE IInv
  OBVIOUS
<1>1. AggregatesTypeOK
  BY InitType
<1>2. \A n \in 1 .. depth : FALSE
  BY DEF Init
<1>3. \A a \in AggregateNames : RowsIn(m_group_data[a]) = {}
  <2>1. RowsIn(<<>>) = {}
    BY DEF RowsIn
  <2>2. QED
    BY <2>1 DEF Init
<1>4. QED
  BY <1>1, <1>2, <1>3 DEF IInv, CallsOK, DoneOK, OwnedOK, FoldsOK

\* A step or final function is called: it gets the data of a functor that is at rest.
LEMMA StartedCallKeeps ==
  ASSUME IInv, Stepping, NEW u \in UsesOf(depth), NEW c \in Call,
         c.use = u, c.data = m_group_data[uses[depth][u]],
         c.func = "STEP" => done[depth] = 0,
         c.func = "FINAL" => u = done[depth] + 1,
         ~m_busy(uses[depth][u]),
         call' = [call EXCEPT ![depth] = c],
         undisturbed' = Disturbed(uses[depth][u], depth, u),
         UNCHANGED <<m_group_data, depth, uses, acc, done, abandoned>>
  PROVE  CallsOK' /\ DoneOK' /\ OwnedOK' /\ FoldsOK'
<1> DEFINE a == uses[depth][u]
<1>1. /\ AggregatesTypeOK /\ CallsOK /\ DoneOK /\ OwnedOK /\ FoldsOK
      /\ depth \in 1 .. depth /\ depth \in Levels /\ call[depth] = NoCall
  BY LevelsInUse DEF IInv, Stepping
<1>2. \A n : UsesOf(n)' = UsesOf(n)
  BY DEF UsesOf
<1>3. call'[depth] = c /\ \A n \in 1 .. depth : n # depth => call'[n] = call[n]
  BY <1>1, LevelsInUse DEF AggregatesTypeOK
<1>4. Aggregate(depth)' = a /\ \A n \in 1 .. depth : n # depth => Aggregate(n)' = Aggregate(n)
  BY <1>3 DEF Aggregate
<1>5. \A n \in 1 .. depth : call[n] # NoCall => Aggregate(n) # a
  BY DEF m_busy
<1>6. \A n \in 1 .. depth : \A v \in UsesOf(n) :
         undisturbed'[n][v] <=>
            undisturbed[n][v] /\ ~(uses[n][v] = a /\ ~(n = depth /\ v = u))
  BY <1>1, DisturbedProperties, ExpressionsInUse
<1>7. a \in AggregateNames
  BY <1>1, ExpressionsInUse
<1> HIDE DEF a
<1>8. CallsOK'
  BY <1>1, <1>2, <1>3, <1>4, <1>5 DEF CallsOK
<1>9. DoneOK'
  BY <1>1, <1>2 DEF DoneOK
<1>10. \A b, x : Owned(b, x) <=> Owned(b, x)'
  BY <1>2 DEF Owned
<1>11. OwnedOK'
  <2>1. \A b \in AggregateNames : \A x \in RowsIn(m_group_data[b]) : Owned(b, x)'
    BY <1>1, <1>10 DEF OwnedOK
  <2>2. \A b \in AggregateNames : b = a => \A x \in RowsIn(c.data) : Owned(b, x)'
    BY <2>1 DEF a
  <2>3. \A n \in 1 .. depth : \A b \in AggregateNames :
          n # depth /\ call[n] # NoCall /\ Aggregate(n) = b =>
            \A x \in RowsIn(call[n].data) : Owned(b, x)'
    BY <1>1, <1>10 DEF OwnedOK
  <2>4. \A n \in 1 .. depth : \A b \in AggregateNames :
          call'[n] # NoCall /\ Aggregate(n)' = b => \A x \in RowsIn(call'[n].data) : Owned(b, x)'
    <3> SUFFICES ASSUME NEW n \in 1 .. depth, NEW b \in AggregateNames,
                        call'[n] # NoCall, Aggregate(n)' = b
                 PROVE  \A x \in RowsIn(call'[n].data) : Owned(b, x)'
      OBVIOUS
    <3>1. CASE n = depth
      <4>1. call'[n].data = c.data /\ b = a
        BY <3>1, <1>3, <1>4
      <4>2. QED
        BY <4>1, <2>2
    <3>2. CASE n # depth
      <4>1. call'[n] = call[n] /\ Aggregate(n) = b
        BY <3>2, <1>3, <1>4
      <4>2. QED
        BY <3>2, <4>1, <2>3
    <3>3. QED
      BY <3>1, <3>2
  <2>5. QED
    BY <2>1, <2>4 DEF OwnedOK, RowsIn
<1>12. FoldsOK'
  <2>1. \A n \in 1 .. depth : \A v \in UsesOf(n) :
           undisturbed'[n][v] => m_group_data[uses[n][v]] = acc[n][v]
    BY <1>1, <1>6 DEF FoldsOK
  <2>2. \A n \in 1 .. depth : call'[n] # NoCall /\ undisturbed'[n][call'[n].use] =>
           call'[n].data = acc[n][call'[n].use]
    <3> SUFFICES ASSUME NEW n \in 1 .. depth, call'[n] # NoCall, undisturbed'[n][call'[n].use]
                 PROVE  call'[n].data = acc[n][call'[n].use]
      OBVIOUS
    <3>1. CASE n = depth
      BY <2>1, <3>1, <1>3
    <3>2. CASE n # depth
      <4>1. call'[n] = call[n] /\ call[n].use \in UsesOf(n)
        BY <1>1, <1>3, <3>2 DEF CallsOK
      <4>2. undisturbed[n][call[n].use]
        BY <1>6, <4>1
      <4>3. QED
        BY <1>1, <4>1, <4>2 DEF FoldsOK
    <3>3. QED
      BY <3>1, <3>2
  <2>3. \A n \in 1 .. depth : call'[n] # NoCall =>
           \A m \in 1 .. n : \A v \in UsesOf(m) :
              uses[m][v] = Aggregate(n)' /\ undisturbed'[m][v] => m = n /\ v = call'[n].use
    <3> SUFFICES ASSUME NEW n \in 1 .. depth, call'[n] # NoCall,
                        NEW m \in 1 .. n, NEW v \in UsesOf(m),
                        uses[m][v] = Aggregate(n)', undisturbed'[m][v]
                 PROVE  m = n /\ v = call'[n].use
      OBVIOUS
    <3>1. m \in 1 .. depth
      BY <1>1, LevelsInUse
    <3>2. CASE n = depth
      BY <3>1, <3>2, <1>3, <1>4, <1>6
    <3>3. CASE n # depth
      BY <3>1, <3>3, <1>1, <1>3, <1>4, <1>6 DEF FoldsOK
    <3>4. QED
      BY <3>2, <3>3
  <2>4. QED
    BY <1>2, <2>1, <2>2, <2>3 DEF FoldsOK
<1>13. QED
  BY <1>8, <1>9, <1>11, <1>12

LEMMA CallStepKeepsIInv ==
  ASSUME IInv, NEW u \in Uses, CallStep(u)
  PROVE  IInv'
<1> DEFINE c == [func |-> "STEP", use |-> u, data |-> m_group_data[uses[depth][u]],
                 row |-> rows']
<1>1. AggregatesTypeOK /\ Stepping /\ u \in UsesOf(depth) /\ done[depth] = 0
  BY DEF IInv, CallStep, CanStep
<1>2. rows' \in Nat
  BY <1>1, BoundsAssumption DEF CallStep, AggregatesTypeOK
<1>3. c \in Call /\ c.use = u /\ c.func = "STEP" /\ c.data = m_group_data[uses[depth][u]]
  BY <1>1, <1>2, StartedCallType
<1>4. /\ ~m_busy(uses[depth][u])
      /\ call' = [call EXCEPT ![depth] = c]
      /\ undisturbed' = Disturbed(uses[depth][u], depth, u)
      /\ UNCHANGED <<m_group_data, depth, uses, acc, done, abandoned>>
  BY DEF CallStep
<1> HIDE DEF c
<1>5. CallsOK' /\ DoneOK' /\ OwnedOK' /\ FoldsOK'
  BY <1>1, <1>3, <1>4, StartedCallKeeps
<1>6. QED
  BY <1>1, <1>5, CallStepType DEF IInv

LEMMA CallFinalKeepsIInv ==
  ASSUME IInv, CallFinal
  PROVE  IInv'
<1> DEFINE u == NextFinal
           c == [func |-> "FINAL", use |-> u, data |-> m_group_data[uses[depth][u]],
                 row |-> 0]
<1>1. AggregatesTypeOK /\ Stepping /\ depth \in Levels
  BY LevelsInUse DEF IInv, CallFinal, CanFinalize, Stepping
<1>2. u \in UsesOf(depth) /\ u = done[depth] + 1
  <2>1. done[depth] \in Nat /\ uses[depth] \in Seq(AggregateNames)
    BY <1>1, BoundsAssumption DEF AggregatesTypeOK
  <2>2. QED
    BY <2>1 DEF CallFinal, CanFinalize, NextFinal, UsesOf
<1>3. c \in Call /\ c.use = u /\ c.func = "FINAL" /\ c.data = m_group_data[uses[depth][u]]
  BY <1>1, <1>2, StartedCallType
<1>4. /\ ~m_busy(uses[depth][u])
      /\ call' = [call EXCEPT ![depth] = c]
      /\ undisturbed' = Disturbed(uses[depth][u], depth, u)
      /\ UNCHANGED <<m_group_data, depth, uses, acc, done, abandoned>>
  BY DEF CallFinal
<1> HIDE DEF c, u
<1>5. CallsOK' /\ DoneOK' /\ OwnedOK' /\ FoldsOK'
  BY <1>1, <1>2, <1>3, <1>4, StartedCallKeeps
<1>6. QED
  BY <1>1, <1>5, CallFinalType DEF IInv

LEMMA StepRecursiveKeepsIInv ==
  ASSUME IInv, NEW u \in Uses, StepRecursive(u)
  PROVE  IInv'
<1>1. UNCHANGED <<m_group_data, depth, uses, acc, undisturbed, done, call, abandoned>>
  BY DEF StepRecursive
<1>2. AggregatesTypeOK'
  BY StepRecursiveType DEF IInv
<1>3. (CallsOK /\ DoneOK /\ OwnedOK /\ FoldsOK)'
  BY <1>1 DEF IInv, CallsOK, DoneOK, OwnedOK, FoldsOK, Owned, Aggregate, UsesOf
<1>4. QED
  BY <1>2, <1>3 DEF IInv

LEMMA AppendedRows ==
  ASSUME NEW s \in Rows, NEW x \in Nat
  PROVE  /\ RowsIn(s) \subseteq RowsIn(Append(s, x))
         /\ RowsIn(Append(s, x)) \subseteq RowsIn(s) \union {x}
         /\ x \in RowsIn(Append(s, x))
<1>1. Append(s, x) \in Seq(Nat) /\ Len(Append(s, x)) = Len(s) + 1 /\ Len(s) \in Nat
  BY DEF Rows
<1>2. \A k \in 1 .. Len(s) : Append(s, x)[k] = s[k]
  BY DEF Rows
<1>3. Append(s, x)[Len(s) + 1] = x
  BY DEF Rows
<1>4. QED
  BY <1>1, <1>2, <1>3 DEF RowsIn

\* The step function returns: only its functor and its expression get the row.
LEMMA StepReturnKeepsIInv ==
  ASSUME IInv, NEW result \in {"data", "nothing", "exception"}, StepReturn(result)
  PROVE  IInv'
<1> DEFINE u == call[depth].use
           a == Aggregate(depth)
           row == call[depth].row
<1>1. /\ AggregatesTypeOK /\ CallsOK /\ DoneOK /\ OwnedOK /\ FoldsOK
      /\ depth \in 1 .. depth /\ depth \in Levels /\ call[depth] # NoCall
  BY LevelsInUse DEF IInv, StepReturn, NoCall
<1>2. u \in UsesOf(depth) /\ done[depth] = 0 /\ a = uses[depth][u]
  BY <1>1 DEF CallsOK, Aggregate, StepReturn
<1>3. u \in Uses /\ a \in AggregateNames
  BY <1>1, <1>2, ExpressionsInUse
<1>4. row \in Nat /\ call[depth].data \in Rows /\ acc[depth][u] \in Rows
  BY <1>1, <1>3, CallInProgress DEF AggregatesTypeOK
<1>5. UNCHANGED <<depth, uses, undisturbed, done, abandoned>> /\ \A n : UsesOf(n)' = UsesOf(n)
  BY DEF StepReturn, UsesOf
<1>6. call'[depth] = NoCall /\ \A n \in 1 .. depth : n # depth => call'[n] = call[n]
  BY <1>1, LevelsInUse DEF AggregatesTypeOK, StepReturn
<1>7. \A n \in 1 .. depth : n # depth => Aggregate(n)' = Aggregate(n)
  BY <1>5, <1>6 DEF Aggregate
<1>8. /\ \A n \in 1 .. depth : \A v \in UsesOf(n) :
           ~(n = depth /\ v = u) => acc'[n][v] = acc[n][v]
      /\ \A b \in AggregateNames : b # a => m_group_data'[b] = m_group_data[b]
  BY <1>1, <1>3, ExpressionsInUse DEF StepReturn, DataAfterStep, AggregatesTypeOK
<1>9. \/ /\ acc'[depth][u] = Append(acc[depth][u], row)
         /\ m_group_data'[a] = Append(call[depth].data, row)
      \/ acc'[depth][u] = acc[depth][u] /\ m_group_data'[a] = m_group_data[a]
  BY <1>1, <1>3 DEF StepReturn, DataAfterStep, AggregatesTypeOK
<1>10. AggregatesTypeOK'
  BY <1>1, StepReturnType
<1> HIDE DEF u, a, row
<1>11. CallsOK'
  BY <1>1, <1>5, <1>6, <1>7 DEF CallsOK
<1>12. DoneOK'
  <2>1. \A v \in UsesOf(depth) : ~(v <= done[depth])
    BY <1>1, <1>2, ExpressionsInUse DEF UsesOf
  <2>2. QED
    BY <1>1, <1>5, <1>8, <2>1 DEF DoneOK
<1>13. \A b \in AggregateNames : \A x : Owned(b, x) => Owned(b, x)'
  <2>1. RowsIn(acc[depth][u]) \subseteq RowsIn(acc'[depth][u])
    BY <1>4, <1>9, AppendedRows
  <2>2. \A n \in 1 .. depth : \A v \in UsesOf(n) : RowsIn(acc[n][v]) \subseteq RowsIn(acc'[n][v])
    BY <1>8, <2>1
  <2> HIDE DEF RowsIn
  <2>3. \A b \in AggregateNames : \A x : Owned(b, x) => Owned(b, x)'
    BY <1>5, <2>2 DEF Owned, RowsIn
  <2>4. QED
    BY <2>3
<1>14. OwnedOK'
  <2>1. \A x \in RowsIn(m_group_data'[a]) :
          \/ x \in RowsIn(m_group_data[a])
          \/ x \in RowsIn(call[depth].data)
          \/ x \in RowsIn(acc'[depth][u])
    BY <1>4, <1>9, AppendedRows
  <2>2. \A b \in AggregateNames : b = a => \A x \in RowsIn(acc'[depth][u]) : Owned(b, x)'
    BY <1>1, <1>2, <1>5 DEF Owned, RowsIn
  <2>3. \A b \in AggregateNames : b = a => \A x \in RowsIn(m_group_data'[b]) : Owned(b, x)'
    <3> SUFFICES ASSUME NEW b \in AggregateNames, b = a, NEW x \in RowsIn(m_group_data'[b])
                 PROVE  Owned(b, x)'
      OBVIOUS
    <3>1. CASE x \in RowsIn(m_group_data[b])
      BY <1>1, <1>13, <3>1 DEF OwnedOK
    <3>2. CASE x \in RowsIn(call[depth].data)
      <4>1. Owned(b, x)
        BY <1>1, <3>2 DEF OwnedOK, a
      <4>2. QED
        BY <1>13, <4>1
    <3>3. CASE x \in RowsIn(acc'[depth][u])
      BY <2>2, <3>3
    <3>4. QED
      BY <2>1, <3>1, <3>2, <3>3
  <2>4. \A b \in AggregateNames : \A x \in RowsIn(m_group_data'[b]) : Owned(b, x)'
    <3>1. \A b \in AggregateNames : b # a => \A x \in RowsIn(m_group_data[b]) : Owned(b, x)'
      BY <1>1, <1>13 DEF OwnedOK
    <3>2. QED
      BY <1>8, <2>3, <3>1
  <2>5. \A n \in 1 .. depth : \A b \in AggregateNames :
          call'[n] # NoCall /\ Aggregate(n)' = b => \A x \in RowsIn(call'[n].data) : Owned(b, x)'
    <3>1. \A n \in 1 .. depth : \A b \in AggregateNames : call[n] # NoCall /\ Aggregate(n) = b
            => \A x \in RowsIn(call[n].data) : Owned(b, x)'
      BY <1>1, <1>13 DEF OwnedOK
    <3>2. QED
      BY <1>6, <1>7, <3>1
  <2>6. QED
    BY <1>5, <2>4, <2>5 DEF OwnedOK, RowsIn
<1>15. FoldsOK'
  <2>1. \A n \in 1 .. depth : \A v \in UsesOf(n) :
           undisturbed[n][v] => m_group_data'[uses[n][v]] = acc'[n][v]
    <3> SUFFICES ASSUME NEW n \in 1 .. depth, NEW v \in UsesOf(n), undisturbed[n][v]
                 PROVE  m_group_data'[uses[n][v]] = acc'[n][v]
      OBVIOUS
    <3>1. m_group_data[uses[n][v]] = acc[n][v] /\ uses[n][v] \in AggregateNames
      BY <1>1, ExpressionsInUse DEF FoldsOK
    <3>2. CASE n = depth /\ v = u
      <4>1. call[depth].data = acc[depth][u]
        BY <1>1, <3>2 DEF FoldsOK, u
      <4>2. QED
        BY <1>2, <1>9, <3>1, <3>2, <4>1
    <3>3. CASE ~(n = depth /\ v = u)
      <4>1. uses[n][v] # a
        BY <1>1, <3>3 DEF FoldsOK, u, a
      <4>2. QED
        BY <1>8, <3>1, <3>3, <4>1
    <3>4. QED
      BY <3>2, <3>3
  <2>2. \A n \in 1 .. depth : call'[n] # NoCall /\ undisturbed[n][call'[n].use] =>
           call'[n].data = acc'[n][call'[n].use]
    BY <1>1, <1>6, <1>8 DEF FoldsOK, CallsOK
  <2>3. \A n \in 1 .. depth : call'[n] # NoCall =>
           \A m \in 1 .. n : \A v \in UsesOf(m) :
              uses[m][v] = Aggregate(n)' /\ undisturbed[m][v] => m = n /\ v = call'[n].use
    BY <1>1, <1>6, <1>7 DEF FoldsOK
  <2>4. QED
    BY <1>5, <2>1, <2>2, <2>3 DEF FoldsOK
<1>16. QED
  BY <1>10, <1>11, <1>12, <1>14, <1>15 DEF IInv

LEMMA NextFinalIsAnExpression ==
  ASSUME AggregatesTypeOK, CanFinalize
  PROVE  NextFinal \in UsesOf(depth) /\ uses[depth][NextFinal] \in AggregateNames
<1>1. depth \in 1 .. depth /\ depth \in Levels
  BY LevelsInUse DEF CanFinalize, Stepping
<1>2. done[depth] \in Nat
  BY <1>1, BoundsAssumption DEF AggregatesTypeOK
<1>3. NextFinal \in UsesOf(depth)
  BY <1>1, <1>2, ExpressionsInUse DEF CanFinalize, NextFinal, UsesOf
<1>4. QED
  BY <1>1, <1>3, ExpressionsInUse

\* A refused call of the final function: whoever works on these data is disturbed.
LEMMA FinalRecursiveKeepsIInv ==
  ASSUME IInv, FinalRecursive
  PROVE  IInv'
<1> DEFINE a == uses[depth][NextFinal]
<1>1. AggregatesTypeOK /\ CallsOK /\ DoneOK /\ OwnedOK /\ FoldsOK
  BY DEF IInv
<1>2. UNCHANGED <<depth, uses, acc, done, call, abandoned>> /\ \A n : UsesOf(n)' = UsesOf(n)
  BY DEF FinalRecursive, UsesOf
<1>3. \A n \in 1 .. depth : Aggregate(n)' = Aggregate(n)
  BY <1>2 DEF Aggregate
<1>4. \A b \in AggregateNames :
         m_group_data'[b] = IF b = a THEN <<>> ELSE m_group_data[b]
  BY <1>1 DEF FinalRecursive, initGroupData, AggregatesTypeOK
<1>5. \A n \in 1 .. depth : \A v \in UsesOf(n) :
         undisturbed'[n][v] <=> undisturbed[n][v] /\ uses[n][v] # a
  <2>1. undisturbed' = Disturbed(a, 0, 0)
    BY DEF FinalRecursive
  <2> HIDE DEF a
  <2>2. QED
    BY <1>1, <2>1, DisturbedProperties, ExpressionsInUse
<1>6. AggregatesTypeOK'
  BY <1>1, FinalRecursiveType
<1> HIDE DEF a
<1>7. CallsOK' /\ DoneOK'
  BY <1>1, <1>2, <1>3 DEF CallsOK, DoneOK
<1>8. OwnedOK'
  <2>1. \A b \in AggregateNames : \A x : Owned(b, x) <=> Owned(b, x)'
    BY <1>2 DEF Owned
  <2>2. \A b \in AggregateNames : RowsIn(m_group_data'[b]) \subseteq RowsIn(m_group_data[b])
    <3>1. RowsIn(<<>>) = {}
      BY DEF RowsIn
    <3>2. QED
      BY <1>4, <3>1
  <2>3. \A b \in AggregateNames : \A x \in RowsIn(m_group_data'[b]) : Owned(b, x)'
    BY <1>1, <2>1, <2>2 DEF OwnedOK
  <2>4. \A n \in 1 .. depth : \A b \in AggregateNames : call[n] # NoCall /\ Aggregate(n)' = b
            => \A x \in RowsIn(call[n].data) : Owned(b, x)'
    BY <1>1, <1>3, <2>1 DEF OwnedOK
  <2>5. QED
    BY <1>2, <2>3, <2>4 DEF OwnedOK, RowsIn
<1>9. FoldsOK'
  <2>1. \A n \in 1 .. depth : \A v \in UsesOf(n) :
           undisturbed'[n][v] => m_group_data'[uses[n][v]] = acc[n][v]
    BY <1>1, <1>4, <1>5, ExpressionsInUse DEF FoldsOK
  <2>2. \A n \in 1 .. depth : call[n] # NoCall /\ undisturbed'[n][call[n].use] =>
           call[n].data = acc[n][call[n].use]
    BY <1>1, <1>5 DEF FoldsOK, CallsOK
  <2>3. \A n \in 1 .. depth : \A m \in 1 .. n : m \in 1 .. depth
    BY <1>1, LevelsInUse
  <2>4. \A n \in 1 .. depth : call[n] # NoCall =>
           \A m \in 1 .. n : \A v \in UsesOf(m) :
              uses[m][v] = Aggregate(n)' /\ undisturbed'[m][v] => m = n /\ v = call[n].use
    BY <1>1, <1>3, <1>5, <2>3 DEF FoldsOK
  <2>5. QED
    BY <1>2, <2>1, <2>2, <2>4 DEF FoldsOK
<1>10. QED
  BY <1>6, <1>7, <1>8, <1>9 DEF IInv

\* The final function returns: its data and the rows of its expression go together.
LEMMA FinalReturnKeepsIInv ==
  ASSUME IInv, NEW result \in {"value", "error"}, FinalReturn(result)
  PROVE  IInv'
<1> DEFINE u == call[depth].use
           a == Aggregate(depth)
<1>1. /\ AggregatesTypeOK /\ CallsOK /\ DoneOK /\ OwnedOK /\ FoldsOK
      /\ depth \in 1 .. depth /\ depth \in Levels /\ call[depth] # NoCall
  BY LevelsInUse DEF IInv, FinalReturn, NoCall
<1>2. u \in UsesOf(depth) /\ u = NextFinal /\ a = uses[depth][u]
  BY <1>1 DEF CallsOK, Aggregate, FinalReturn, NextFinal
<1>3. u \in Uses /\ a \in AggregateNames
  BY <1>1, <1>2, ExpressionsInUse
<1>4. UNCHANGED <<depth, uses, abandoned>> /\ \A n : UsesOf(n)' = UsesOf(n)
  BY DEF FinalReturn, UsesOf
<1>5. call'[depth] = NoCall /\ \A n \in 1 .. depth : n # depth => call'[n] = call[n]
  BY <1>1, LevelsInUse DEF AggregatesTypeOK, FinalReturn
<1>6. \A n \in 1 .. depth : n # depth => Aggregate(n)' = Aggregate(n)
  BY <1>4, <1>5 DEF Aggregate
<1>7. \A n \in 1 .. depth : \A v \in UsesOf(n) :
         acc'[n][v] = IF n = depth /\ v = u THEN <<>> ELSE acc[n][v]
  BY <1>1, <1>3, ExpressionsInUse DEF FinalReturn, AggregatesTypeOK
<1>8. \A b \in AggregateNames : m_group_data'[b] = IF b = a THEN <<>> ELSE m_group_data[b]
  BY <1>1 DEF FinalReturn, initGroupData, AggregatesTypeOK
<1>9. /\ \A n \in 1 .. depth : n # depth =>
           done'[n] = done[n] /\ undisturbed'[n] = undisturbed[n]
      /\ \/ /\ u = Len(uses[depth]) /\ done'[depth] = 0
            /\ \A v \in UsesOf(depth) :
                 undisturbed'[depth][v] <=> m_group_data'[uses[depth][v]] = <<>>
         \/ /\ u # Len(uses[depth]) /\ done'[depth] = u
            /\ undisturbed'[depth] = undisturbed[depth]
  <2>1. \A v \in UsesOf(depth) : v \in Uses
    BY <1>1, ExpressionsInUse
  <2>2. CASE u = Len(uses[depth])
    <3>1. \A n \in 1 .. depth : n \in Levels
      BY <1>1, LevelsInUse
    <3>2. /\ done' = [done EXCEPT ![depth] = 0]
          /\ undisturbed' = [undisturbed EXCEPT ![depth] = [v \in Uses |->
                 v \in UsesOf(depth) /\ m_group_data'[uses[depth][v]] = <<>>]]
      BY <1>2, <2>2 DEF FinalReturn, EndOfGroup
    <3>3. /\ done \in [Levels -> 0 .. MaxUses]
          /\ undisturbed \in [Levels -> [Uses -> BOOLEAN]]
      BY <1>1 DEF AggregatesTypeOK
    <3>4. undisturbed'[depth] = [v \in Uses |->
                 v \in UsesOf(depth) /\ m_group_data'[uses[depth][v]] = <<>>]
      BY <1>1, <3>2, <3>3
    <3>5. \A v \in UsesOf(depth) :
                 undisturbed'[depth][v] <=> m_group_data'[uses[depth][v]] = <<>>
      BY <2>1, <3>4
    <3>6. \A n \in 1 .. depth : n # depth =>
             done'[n] = done[n] /\ undisturbed'[n] = undisturbed[n]
      BY <3>1, <3>2, <3>3
    <3>7. QED
      BY <1>1, <2>2, <3>2, <3>3, <3>5, <3>6
  <2>3. CASE u # Len(uses[depth])
    BY <1>1, <1>2, <2>3, LevelsInUse DEF FinalReturn, EndOfGroup, AggregatesTypeOK
  <2>4. QED
    BY <2>2, <2>3
<1>10. AggregatesTypeOK'
  BY <1>1, <1>2, FinalReturnType
<1>11. done[depth] \in Nat /\ u = done[depth] + 1 /\ Len(uses[depth]) \in Nat
  BY <1>1, <1>2, ExpressionsInUse, BoundsAssumption DEF NextFinal, AggregatesTypeOK
<1>12. \A n \in 1 .. depth : call[n] # NoCall /\ n # depth => Aggregate(n) # a
  BY <1>1 DEF CallsOK
<1> HIDE DEF u, a
<1>13. CallsOK'
  BY <1>1, <1>4, <1>5, <1>6, <1>9 DEF CallsOK
<1>14. \A v \in UsesOf(depth) : v <= u => acc'[depth][v] = <<>>
  BY <1>1, <1>7, <1>11 DEF DoneOK, UsesOf
<1>15. DoneOK'
  <2>1. done'[depth] <= Len(uses[depth])
    BY <1>2, <1>9, <1>11 DEF UsesOf
  <2>2. \A v \in UsesOf(depth) : v <= done'[depth] => acc'[depth][v] = <<>>
    BY <1>9, <1>14 DEF UsesOf
  <2>3. \A n \in 1 .. depth : n # depth =>
          /\ done'[n] <= Len(uses[n])
          /\ \A v \in UsesOf(n) : v <= done'[n] => acc'[n][v] = <<>>
    BY <1>1, <1>7, <1>9 DEF DoneOK
  <2>4. QED
    BY <1>4, <2>1, <2>2, <2>3 DEF DoneOK
<1>16. OwnedOK'
  <2>1. \A b \in AggregateNames : \A x : b # a /\ Owned(b, x) => Owned(b, x)'
    BY <1>2, <1>4, <1>7 DEF Owned
  <2>2. RowsIn(<<>>) = {}
    BY DEF RowsIn
  <2>3. \A b \in AggregateNames : \A x \in RowsIn(m_group_data'[b]) : Owned(b, x)'
    <3>1. \A b \in AggregateNames : b # a => \A x \in RowsIn(m_group_data[b]) : Owned(b, x)'
      BY <1>1, <2>1 DEF OwnedOK
    <3>2. QED
      BY <1>8, <2>2, <3>1
  <2>4. \A n \in 1 .. depth : \A b \in AggregateNames :
          call'[n] # NoCall /\ Aggregate(n)' = b => \A x \in RowsIn(call'[n].data) : Owned(b, x)'
    <3>1. \A n \in 1 .. depth : \A b \in AggregateNames :
            n # depth /\ call[n] # NoCall /\ Aggregate(n) = b
              => \A x \in RowsIn(call[n].data) : Owned(b, x)'
      BY <1>1, <1>12, <2>1 DEF OwnedOK
    <3>2. QED
      BY <1>5, <1>6, <3>1
  <2>5. QED
    BY <1>4, <2>3, <2>4 DEF OwnedOK, RowsIn
<1>17. FoldsOK'
  <2>1. \A n \in 1 .. depth : \A v \in UsesOf(n) :
           undisturbed'[n][v] => m_group_data'[uses[n][v]] = acc'[n][v]
    <3> SUFFICES ASSUME NEW n \in 1 .. depth, NEW v \in UsesOf(n), undisturbed'[n][v]
                 PROVE  m_group_data'[uses[n][v]] = acc'[n][v]
      OBVIOUS
    <3>1. uses[n][v] \in AggregateNames
      BY <1>1, ExpressionsInUse
    <3>2. CASE n = depth /\ v = u
      BY <1>2, <1>3, <1>7, <1>8, <3>2
    <3>3. CASE ~(n = depth /\ v = u) /\ undisturbed[n][v]
      <4>1. uses[n][v] # a /\ m_group_data[uses[n][v]] = acc[n][v]
        BY <1>1, <3>3 DEF FoldsOK, u, a
      <4>2. QED
        BY <1>7, <1>8, <3>1, <3>3, <4>1
    <3>4. CASE n = depth /\ u = Len(uses[depth])
      <4>1. v <= u
        BY <3>4, <1>11 DEF UsesOf
      <4>2. acc'[n][v] = <<>>
        BY <1>14, <3>4, <4>1
      <4>3. m_group_data'[uses[n][v]] = <<>>
        BY <1>9, <3>4
      <4>4. QED
        BY <4>2, <4>3
    <3>5. QED
      BY <1>9, <3>2, <3>3, <3>4
  <2>2. \A n \in 1 .. depth : call'[n] # NoCall /\ undisturbed'[n][call'[n].use] =>
           call'[n].data = acc'[n][call'[n].use]
    BY <1>1, <1>5, <1>7, <1>9 DEF FoldsOK, CallsOK
  <2>3. \A n \in 1 .. depth : n # depth => \A m \in 1 .. n : m \in 1 .. depth /\ m # depth
    BY <1>1, LevelsInUse
  <2>4. \A n \in 1 .. depth : call'[n] # NoCall =>
           \A m \in 1 .. n : \A v \in UsesOf(m) :
              uses[m][v] = Aggregate(n)' /\ undisturbed'[m][v] => m = n /\ v = call'[n].use
    BY <1>1, <1>5, <1>6, <1>9, <2>3 DEF FoldsOK
  <2>5. QED
    BY <1>4, <2>1, <2>2, <2>4 DEF FoldsOK
<1>18. QED
  BY <1>10, <1>13, <1>15, <1>16, <1>17 DEF IInv

\* A statement starts: its expressions have no rows, and count as undisturbed only if
\* they find no data.
LEMMA QueryStartKeepsIInv ==
  ASSUME IInv, NEW k \in Uses, NEW expressions \in [1 .. k -> AggregateNames],
         QueryStart(expressions)
  PROVE  IInv'
<1> DEFINE d == depth + 1
<1>1. /\ AggregatesTypeOK /\ CallsOK /\ DoneOK /\ OwnedOK /\ FoldsOK
      /\ depth \in Nat /\ d \in Nat /\ d # 0 /\ depth' = d
      /\ \A n \in 1 .. d : n \in Levels
      /\ \A n \in 1 .. d : n = d \/ n \in 1 .. depth
      /\ \A n \in 1 .. depth : n # d /\ n \in 1 .. d
  BY LevelsInUse, BoundsAssumption DEF IInv, QueryStart, Levels
<1>2. expressions \in Seq(AggregateNames) /\ Len(expressions) = k /\ k \in Nat /\ k <= MaxUses
  BY BoundsAssumption DEF Uses
<1>3. d \in Levels /\ d \in 1 .. d
  BY <1>1
<1>4. /\ uses'[d] = expressions /\ done'[d] = 0 /\ call'[d] = NoCall
      /\ \A n \in 1 .. depth : uses'[n] = uses[n] /\ done'[n] = done[n] /\ call'[n] = call[n]
  BY <1>1, <1>3 DEF QueryStart, AggregatesTypeOK
<1>5. /\ \A v \in Uses : acc'[d][v] = <<>>
      /\ \A n \in 1 .. depth : acc'[n] = acc[n]
  BY <1>1, <1>3 DEF QueryStart, AggregatesTypeOK
<1>6. /\ \A v \in Uses : undisturbed'[d][v] <=>
            v \in 1 .. Len(expressions) /\ m_group_data[expressions[v]] = <<>>
      /\ \A n \in 1 .. depth : undisturbed'[n] = undisturbed[n]
  <2> DEFINE fresh == [v \in Uses |->
            v \in 1 .. Len(expressions) /\ m_group_data[expressions[v]] = <<>>]
  <2>1. undisturbed' = [undisturbed EXCEPT ![d] = fresh]
    BY <1>1 DEF QueryStart
  <2>2. \A v \in Uses : fresh[v] <=>
            v \in 1 .. Len(expressions) /\ m_group_data[expressions[v]] = <<>>
    OBVIOUS
  <2> HIDE DEF fresh
  <2>3. undisturbed'[d] = fresh /\ \A n \in 1 .. depth : undisturbed'[n] = undisturbed[n]
    BY <1>1, <1>3, <2>1 DEF AggregatesTypeOK
  <2>4. QED
    BY <2>2, <2>3
<1>7. UNCHANGED <<m_group_data, abandoned>>
  BY DEF QueryStart
<1>8. /\ \A n : n = d => UsesOf(n)' = 1 .. k
      /\ \A v \in 1 .. k : v \in Uses
      /\ \A n \in 1 .. depth : UsesOf(n)' = UsesOf(n)
  BY <1>2, <1>4, BoundsAssumption DEF UsesOf, Uses
<1>9. \A n \in 1 .. depth : Aggregate(n)' = Aggregate(n)
  BY <1>4 DEF Aggregate
<1>10. AggregatesTypeOK'
  BY <1>1, QueryStartType
<1> HIDE DEF d
<1>11. CallsOK'
  BY <1>1, <1>4, <1>8, <1>9 DEF CallsOK
<1>12. DoneOK'
  <2>1. 0 <= Len(uses'[d]) /\ \A v \in 1 .. k : ~(v <= 0)
    BY <1>2, <1>4
  <2>2. QED
    BY <1>1, <1>4, <1>5, <1>8, <2>1 DEF DoneOK
<1>13. \A b \in AggregateNames : \A x : Owned(b, x) => Owned(b, x)'
  BY <1>1, <1>4, <1>5, <1>7, <1>8 DEF Owned
<1>14. OwnedOK'
  <2>1. \A b \in AggregateNames : \A x \in RowsIn(m_group_data[b]) : Owned(b, x)'
    BY <1>1, <1>13 DEF OwnedOK
  <2>2. \A n \in 1 .. d : \A b \in AggregateNames :
          call'[n] # NoCall /\ Aggregate(n)' = b => \A x \in RowsIn(call'[n].data) : Owned(b, x)'
    <3>1. \A n \in 1 .. depth : \A b \in AggregateNames : call[n] # NoCall /\ Aggregate(n) = b
            => \A x \in RowsIn(call[n].data) : Owned(b, x)'
      BY <1>1, <1>13 DEF OwnedOK
    <3>2. QED
      BY <1>1, <1>4, <1>9, <3>1
  <2>3. QED
    BY <1>1, <1>7, <2>1, <2>2 DEF OwnedOK, RowsIn
<1>15. FoldsOK'
  <2>1. \A n \in 1 .. d : \A v \in UsesOf(n)' :
           undisturbed'[n][v] => m_group_data[uses'[n][v]] = acc'[n][v]
    <3>1. \A v \in 1 .. k : undisturbed'[d][v] => m_group_data[uses'[d][v]] = acc'[d][v]
      BY <1>4, <1>5, <1>6, <1>8
    <3>2. \A n \in 1 .. depth : \A v \in UsesOf(n) :
            undisturbed'[n][v] => m_group_data[uses'[n][v]] = acc'[n][v]
      BY <1>1, <1>4, <1>5, <1>6 DEF FoldsOK
    <3>3. QED
      BY <1>1, <1>8, <3>1, <3>2
  <2>2. \A n \in 1 .. d : call'[n] # NoCall /\ undisturbed'[n][call'[n].use] =>
           call'[n].data = acc'[n][call'[n].use]
    BY <1>1, <1>4, <1>5, <1>6 DEF FoldsOK
  <2>3. \A n \in 1 .. depth : \A m \in 1 .. n : m \in 1 .. depth
    BY <1>1
  <2>4. \A n \in 1 .. d : call'[n] # NoCall =>
           \A m \in 1 .. n : \A v \in UsesOf(m)' :
              uses'[m][v] = Aggregate(n)' /\ undisturbed'[m][v] => m = n /\ v = call'[n].use
    <3> SUFFICES ASSUME NEW n \in 1 .. d, call'[n] # NoCall,
                        NEW m \in 1 .. n, NEW v \in UsesOf(m)',
                        uses'[m][v] = Aggregate(n)', undisturbed'[m][v]
                 PROVE  m = n /\ v = call'[n].use
      OBVIOUS
    <3>1. n \in 1 .. depth /\ m \in 1 .. depth
      BY <1>1, <1>4, <2>3
    <3>2. /\ call[n] # NoCall /\ call'[n] = call[n] /\ v \in UsesOf(m)
          /\ uses[m][v] = Aggregate(n) /\ undisturbed[m][v]
      BY <3>1, <1>4, <1>6, <1>8, <1>9
    <3>3. QED
      BY <1>1, <3>1, <3>2 DEF FoldsOK
  <2>5. QED
    BY <1>1, <1>7, <2>1, <2>2, <2>4 DEF FoldsOK
<1>16. QED
  BY <1>10, <1>11, <1>12, <1>14, <1>15 DEF IInv

\* A statement ends: the rows of the group it gives up are abandoned.
LEMMA QueryEndKeepsIInv ==
  ASSUME IInv, QueryEnd
  PROVE  IInv'
<1>1. /\ AggregatesTypeOK /\ CallsOK /\ DoneOK /\ OwnedOK /\ FoldsOK
      /\ depth \in 1 .. depth /\ depth \in Nat /\ depth' = depth - 1
      /\ \A n \in 1 .. depth : n = depth \/ n \in 1 .. depth'
      /\ \A n \in 1 .. depth' : n \in 1 .. depth
  BY LevelsInUse DEF IInv, QueryEnd, Stepping
<1>2. UNCHANGED <<m_group_data, uses, acc, undisturbed, done, call>> /\ call[depth] = NoCall
  BY DEF QueryEnd, Stepping
<1>3. \A n : UsesOf(n)' = UsesOf(n) /\ Aggregate(n)' = Aggregate(n)
  BY <1>2 DEF UsesOf, Aggregate
<1>4. AggregatesTypeOK'
  BY <1>1, QueryEndType
<1>5. \A b, x : Owned(b, x) => Owned(b, x)'
  <2>1. \A u \in UsesOf(depth) : \A x \in RowsIn(acc[depth][u]) : x \in abandoned'
    BY <1>1, ExpressionsInUse DEF QueryEnd
  <2>2. abandoned \subseteq abandoned'
    BY DEF QueryEnd
  <2>3. QED
    BY <1>1, <1>2, <1>3, <2>1, <2>2 DEF Owned, RowsIn
<1>6. CallsOK' /\ DoneOK'
  BY <1>1, <1>2, <1>3 DEF CallsOK, DoneOK
<1>7. OwnedOK'
  <2>1. \A b \in AggregateNames : \A x \in RowsIn(m_group_data[b]) : Owned(b, x)'
    BY <1>1, <1>5 DEF OwnedOK
  <2>2. \A n \in 1 .. depth' : \A b \in AggregateNames : call[n] # NoCall /\ Aggregate(n)' = b
          => \A x \in RowsIn(call[n].data) : Owned(b, x)'
    BY <1>1, <1>3, <1>5 DEF OwnedOK
  <2>3. QED
    BY <1>2, <2>1, <2>2 DEF OwnedOK, RowsIn
<1>8. FoldsOK'
  BY <1>1, <1>2, <1>3 DEF FoldsOK
<1>9. QED
  BY <1>4, <1>6, <1>7, <1>8 DEF IInv

LEMMA attachMexFunctionKeepsIInv ==
  ASSUME IInv, NEW a \in AggregateNames, attachMexFunction(a)
  PROVE  IInv'
<1>1. AggregatesTypeOK /\ OwnedOK /\ depth = 0
  BY DEF IInv, attachMexFunction
<1>2. UNCHANGED <<depth, uses, acc, undisturbed, done, call, abandoned>>
      /\ \A n \in 1 .. depth : FALSE
  BY <1>1 DEF attachMexFunction, statementVars
<1>3. AggregatesTypeOK'
  BY <1>1, attachMexFunctionType
<1>4. CallsOK' /\ DoneOK' /\ FoldsOK'
  BY <1>2 DEF CallsOK, DoneOK, FoldsOK
<1>5. OwnedOK'
  <2>1. RowsIn(<<>>) = {}
    BY DEF RowsIn
  <2>2. \A b \in AggregateNames : m_group_data'[b] = IF b = a THEN <<>> ELSE m_group_data[b]
    BY <1>1 DEF attachMexFunction, initGroupData, AggregatesTypeOK
  <2>3. \A b, x : Owned(b, x) => Owned(b, x)'
    BY <1>2 DEF Owned
  <2>4. \A b \in AggregateNames : \A x \in RowsIn(m_group_data'[b]) : Owned(b, x)'
    BY <1>1, <2>1, <2>2, <2>3 DEF OwnedOK
  <2>5. QED
    BY <1>2, <2>4 DEF OwnedOK, RowsIn
<1>6. QED
  BY <1>3, <1>4, <1>5 DEF IInv

LEMMA StepIInv == IInv /\ [Next]_vars => IInv'
<1> SUFFICES ASSUME IInv, [Next]_vars PROVE IInv'
  OBVIOUS
<1>1. ASSUME NEW n \in Uses, NEW expressions \in [1 .. n -> AggregateNames],
             QueryStart(expressions)
      PROVE  IInv'
  BY <1>1, QueryStartKeepsIInv
<1>2. ASSUME NEW u \in Uses, CallStep(u) PROVE IInv'
  BY <1>2, CallStepKeepsIInv
<1>3. ASSUME NEW u \in Uses, StepRecursive(u) PROVE IInv'
  BY <1>3, StepRecursiveKeepsIInv
<1>4. ASSUME NEW result \in {"data", "nothing", "exception"}, StepReturn(result) PROVE IInv'
  BY <1>4, StepReturnKeepsIInv
<1>5. CASE CallFinal
  BY <1>5, CallFinalKeepsIInv
<1>6. CASE FinalRecursive
  BY <1>6, FinalRecursiveKeepsIInv
<1>7. ASSUME NEW result \in {"value", "error"}, FinalReturn(result) PROVE IInv'
  BY <1>7, FinalReturnKeepsIInv
<1>8. CASE QueryEnd
  BY <1>8, QueryEndKeepsIInv
<1>9. ASSUME NEW a \in AggregateNames, attachMexFunction(a) PROVE IInv'
  BY <1>9, attachMexFunctionKeepsIInv
<1>10. CASE UNCHANGED vars
  <2>1. UNCHANGED <<m_group_data, depth, uses, acc, undisturbed, done, failed, call, rows,
                    abandoned>>
    BY <1>10 DEF vars, statementVars
  <2>2. AggregatesTypeOK'
    BY <2>1 DEF IInv, AggregatesTypeOK
  <2>3. CallsOK' /\ DoneOK'
    BY <2>1 DEF IInv, CallsOK, DoneOK, Aggregate, UsesOf
  <2>4. OwnedOK'
    BY <2>1 DEF IInv, OwnedOK, Owned, Aggregate, UsesOf
  <2>5. FoldsOK'
    BY <2>1 DEF IInv, FoldsOK, Aggregate, UsesOf
  <2>6. QED
    BY <2>2, <2>3, <2>4, <2>5 DEF IInv
<1>11. QED
  BY <1>1, <1>2, <1>3, <1>4, <1>5, <1>6, <1>7, <1>8, <1>9, <1>10 DEF Next

LEMMA IInvAlways == Spec => []IInv
  BY InitIInv, StepIInv, PTL DEF Spec

-----------------------------------------------------------------------------
(* Theorems *)

\* The types of the functors' data and of the statements that use them.
THEOREM AggregatesTypeOKAlways == Spec => []AggregatesTypeOK
<1>1. IInv => AggregatesTypeOK
  BY DEF IInv
<1>2. QED
  BY <1>1, IInvAlways, PTL

\* MexFunctors::m_group_data: an expression nobody disturbs folds its own rows, however
\* deep statements are nested in the functions they call.
THEOREM UndisturbedFoldsItsRowsAlways == Spec => []UndisturbedFoldsItsRows
<1>1. IInv => UndisturbedFoldsItsRows
  BY DEF IInv, FoldsOK, UndisturbedFoldsItsRows
<1>2. QED
  BY <1>1, IInvAlways, PTL

\* mexFcnWrapper, FINAL: the rows of a finished group are in no functor's data.
THEOREM NoGroupOutlivesItsResultAlways == Spec => []NoGroupOutlivesItsResult
<1>1. ASSUME IInv PROVE NoGroupOutlivesItsResult
  <2>1. ASSUME NEW a \in AggregateNames, NEW x \in RowsIn(m_group_data[a])
        PROVE  x \in abandoned \/ \E n \in 1 .. depth, u \in Uses : x \in RowsIn(acc[n][u])
    <3>1. Owned(a, x)
      BY <1>1 DEF IInv, OwnedOK
    <3>2. QED
      BY <1>1, <3>1, ExpressionsInUse DEF IInv, Owned
  <2>2. QED
    BY <2>1 DEF NoGroupOutlivesItsResult
<1>2. QED
  BY <1>1, IInvAlways, PTL
=============================================================================
