--------------------------- MODULE SettingsProofs ---------------------------
(***************************************************************************)
(* Proofs about Settings, for any flags, compressors and quantizers.       *)
(***************************************************************************)
EXTENDS Settings, TLAPS

SettingsInv == SettingsTypeOK /\ StreamingNeedsTypedBlobs

LEMMA InitiallySettings == SettingsInit => SettingsInv
<1> SUFFICES ASSUME SettingsInit PROVE SettingsInv
  OBVIOUS
<1>1. g_flag \in [Flags -> BOOLEAN]
  BY DEF SettingsInit, DefaultFlags
<1>2. g_compression \in Compression
  BY CompressorAssumption DEF SettingsInit, Compression, Levels
<1>3. g_result_type \in ResultTypes
  BY DEF SettingsInit, ResultTypes
<1>4. answer.cmd \in SettingCommands \union {"none"} /\ answer.refused \in BOOLEAN
  BY DEF SettingsInit
<1>5. QED
  BY <1>1, <1>2, <1>3, <1>4
  DEF SettingsInit, SettingsInv, SettingsTypeOK, StreamingNeedsTypedBlobs

\* What typedBLOBs leaves is a pair of flags, streaming on only with typed BLOBs.
LEMMA TypedBlobsAfterFits ==
  ASSUME NEW mode \in Modes, NEW typed \in BOOLEAN, NEW streaming \in BOOLEAN,
         streaming => typed
  PROVE  /\ TypedBlobsAfter(mode, typed, streaming) \in BOOLEAN \X BOOLEAN
         /\ TypedBlobsAfter(mode, typed, streaming)[2] =>
               TypedBlobsAfter(mode, typed, streaming)[1]
<1>1. CASE mode = Mode(typed, streaming)
  BY <1>1 DEF TypedBlobsAfter
<1>2. CASE mode # Mode(typed, streaming)
  <2> DEFINE on == mode > 0
             stream == mode = 2
  <2>1. TypedBlobsAfter(mode, typed, streaming) = <<on, stream>>
    BY <1>2 DEF TypedBlobsAfter
  <2>2. on \in BOOLEAN /\ stream \in BOOLEAN /\ (stream => on)
    BY DEF Modes
  <2> HIDE DEF on, stream
  <2>3. QED
    BY <2>1, <2>2
<1>3. QED
  BY <1>1, <1>2

LEMMA CompressionAfterFits ==
  ASSUME NEW type \in Compressors \union Quantizers, NEW level \in Levels
  PROVE  CompressionAfter(type, level) \in Compression
  BY DEF CompressionAfter, Compression, Levels

LEMMA ModeFits ==
  ASSUME NEW typed \in BOOLEAN, NEW streaming \in BOOLEAN
  PROVE  Mode(typed, streaming) \in Modes
  BY DEF Mode, Modes

LEMMA SettingsStep ==
  ASSUME SettingsInv, [SettingCommand]_settingVars
  PROVE  SettingsInv'
<1> USE DEF SettingsInv, SettingsTypeOK, StreamingNeedsTypedBlobs
<1>1. ASSUME NEW name \in Flags, NEW arg \in BOOLEAN \union {NoValue},
             cmdTryHandleFlag(name, arg)
      PROVE  SettingsInv'
  <2>1. g_flag' \in [Flags -> BOOLEAN]
    BY <1>1 DEF cmdTryHandleFlag
  <2>2. QED
    BY <1>1, <2>1 DEF cmdTryHandleFlag, Answer, SettingCommands
<1>2. ASSUME NEW arg \in Modes \union {NoValue}, cmdTryHandleTypedBlob(arg)
      PROVE  SettingsInv'
  <2> DEFINE old == Mode(typed_blobs_mode, g_streaming)
             new == IF arg = NoValue THEN old ELSE arg
             after == TypedBlobsAfter(new, typed_blobs_mode, g_streaming)
  <2>1. new \in Modes
    BY <1>2 DEF cmdTryHandleTypedBlob
  <2>2. after \in BOOLEAN \X BOOLEAN /\ (after[2] => after[1])
    BY <2>1, TypedBlobsAfterFits
  <2>3. typed_blobs_mode' = after[1] /\ g_streaming' = after[2]
    BY <1>2 DEF cmdTryHandleTypedBlob
  <2> HIDE DEF after
  <2>4. QED
    BY <1>2, <2>2, <2>3 DEF cmdTryHandleTypedBlob, Answer, SettingCommands, ValueCommands
<1>3. ASSUME NEW arg \in BOOLEAN \union {NoValue}, cmdTryHandleStreaming(arg)
      PROVE  SettingsInv'
  BY <1>3 DEF cmdTryHandleStreaming, StreamingAfter, Answer, SettingCommands, ValueCommands
<1>4. ASSUME NEW arg \in ResultTypes \union {NoValue}, cmdTryHandleResultType(arg)
      PROVE  SettingsInv'
  BY <1>4 DEF cmdTryHandleResultType, Answer, SettingCommands, ValueCommands
<1>5. ASSUME NEW type \in Compressors \union Quantizers, NEW level \in Levels,
             cmdTryHandleCompression(type, level)
      PROVE  SettingsInv'
  BY <1>5, CompressionAfterFits
  DEF cmdTryHandleCompression, Answer, SettingCommands, ValueCommands
<1>6. ASSUME NEW arg \in Languages, cmdTryHandleLanguage(arg)
      PROVE  SettingsInv'
  BY <1>6 DEF cmdTryHandleLanguage, Answer, SettingCommands, ValueCommands
<1>7. ASSUME NEW cmd \in SettingCommands, Refused(cmd)
      PROVE  SettingsInv'
  BY <1>7 DEF Refused, settings
<1>8. CASE UNCHANGED settingVars
  BY <1>8 DEF settingVars, settings
<1>9. QED
  BY <1>1, <1>2, <1>3, <1>4, <1>5, <1>6, <1>7, <1>8 DEF SettingCommand

LEMMA SettingsAlways == SettingsSpec => []SettingsInv
  BY InitiallySettings, SettingsStep, PTL DEF SettingsSpec

\* Every setting keeps to its values: the code stores what a command gives it only after
\* checking it, whatever commands there were before.
THEOREM SettingsTypeCorrect == SettingsSpec => []SettingsTypeOK
<1>1. SettingsInv => SettingsTypeOK
  BY DEF SettingsInv
<1>2. QED
  BY <1>1, SettingsAlways, PTL

\* No sequence of 'streaming' and 'typedBLOBs' leaves streaming on without typed BLOBs
\* (cmdTryHandleStreaming refuses it, cmdTryHandleTypedBlob sets both).
THEOREM StreamingIsTyped == SettingsSpec => []StreamingNeedsTypedBlobs
<1>1. SettingsInv => StreamingNeedsTypedBlobs
  BY DEF SettingsInv
<1>2. QED
  BY <1>1, SettingsAlways, PTL

-----------------------------------------------------------------------------
\* The answer of typedBLOBs, given back, undoes the command.
LEMMA ModeRestores ==
  ASSUME NEW typed \in BOOLEAN, NEW streaming \in BOOLEAN, streaming => typed,
         NEW typed2 \in BOOLEAN, NEW streaming2 \in BOOLEAN, streaming2 => typed2
  PROVE  TypedBlobsAfter(Mode(typed, streaming), typed2, streaming2)
            = <<typed, streaming>>
  BY DEF TypedBlobsAfter, Mode

LEMMA CompressionRestores ==
  ASSUME NEW c \in Compression
  PROVE  CompressionAfter(c[1], c[2]) = c
  BY CompressorAssumption DEF CompressionAfter, Compression, Levels

Restores ==
    ~answer'.refused =>
         /\ answer'.cmd = "typedBLOBs" =>
               TypedBlobsAfter(answer'.value, typed_blobs_mode', g_streaming')
                  = <<typed_blobs_mode, g_streaming>>
         /\ answer'.cmd = "streaming" /\ have_serialize =>
               StreamingAfter(answer'.value, typed_blobs_mode', have_serialize)
                  = g_streaming
         /\ answer'.cmd = "compression" =>
               CompressionAfter(answer'.value[1], answer'.value[2]) = g_compression

LEMMA CommandRestores ==
  ASSUME SettingsInv, SettingsInv', SettingCommand
  PROVE  Restores
<1> USE DEF SettingsInv, SettingsTypeOK, StreamingNeedsTypedBlobs
<1>1. ASSUME NEW name \in Flags, NEW arg \in BOOLEAN \union {NoValue},
             cmdTryHandleFlag(name, arg)
      PROVE  Restores
  BY <1>1, FlagAssumption DEF cmdTryHandleFlag, Answer, Restores, ValueCommands
<1>2. ASSUME NEW arg \in Modes \union {NoValue}, cmdTryHandleTypedBlob(arg)
      PROVE  Restores
  <2>1. answer' = [cmd |-> "typedBLOBs", refused |-> FALSE,
                   value |-> Mode(typed_blobs_mode, g_streaming)]
    BY <1>2 DEF cmdTryHandleTypedBlob, Answer
  <2>2. TypedBlobsAfter(Mode(typed_blobs_mode, g_streaming), typed_blobs_mode', g_streaming')
          = <<typed_blobs_mode, g_streaming>>
    BY ModeRestores
  <2>3. QED
    BY <2>1, <2>2 DEF Restores
<1>3. ASSUME NEW arg \in BOOLEAN \union {NoValue}, cmdTryHandleStreaming(arg)
      PROVE  Restores
  BY <1>3 DEF cmdTryHandleStreaming, StreamingAfter, Answer, Restores
<1>4. ASSUME NEW arg \in ResultTypes \union {NoValue}, cmdTryHandleResultType(arg)
      PROVE  Restores
  BY <1>4 DEF cmdTryHandleResultType, Answer, Restores
<1>5. ASSUME NEW type \in Compressors \union Quantizers, NEW level \in Levels,
             cmdTryHandleCompression(type, level)
      PROVE  Restores
  <2>1. answer' = [cmd |-> "compression", refused |-> FALSE, value |-> g_compression]
    BY <1>5 DEF cmdTryHandleCompression, Answer
  <2>2. QED
    BY <2>1, CompressionRestores DEF Restores
<1>6. ASSUME NEW arg \in Languages, cmdTryHandleLanguage(arg)
      PROVE  Restores
  BY <1>6 DEF cmdTryHandleLanguage, Answer, Restores
<1>7. ASSUME NEW cmd, Refused(cmd)
      PROVE  Restores
  BY <1>7 DEF Refused, Restores
<1>8. QED
  BY <1>1, <1>2, <1>3, <1>4, <1>5, <1>6, <1>7 DEF SettingCommand

\* Saving and restoring a setting by means of the answers works in every state: the
\* answer of a command, given to it, undoes it.
THEOREM SettingsCanBeRestored == SettingsSpec => AnswersRestore
<1>1. SettingsInv /\ SettingsInv' /\ [SettingCommand]_settingVars => [Restores]_settingVars
  BY CommandRestores
<1>2. [][Restores]_settingVars => AnswersRestore
  BY PTL DEF AnswersRestore, Restores
<1>3. QED
  BY <1>1, <1>2, SettingsAlways, PTL DEF SettingsSpec
=============================================================================
