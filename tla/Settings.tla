------------------------------- MODULE Settings -------------------------------
(***************************************************************************)
(* The settings of mksqlite that are not those of a connection: global     *)
(* variables, each with a command that changes it and answers with what it *)
(* was before.  Two of them depend on each other: a byte stream can only   *)
(* be told from other bytes in a typed BLOB, so streaming needs typed      *)
(* BLOBs, whichever of the two commands the user gives.                    *)
(***************************************************************************)
EXTENDS Integers

CONSTANTS
    Flags,          \* the settings that are just on or off
    Compressors,    \* the compressors of blosc, "blosclz" among them
    Quantizers,     \* qlin16, qlog16, float: they are on (1) or off (0)
    NoValue         \* no argument, or no answer

ASSUME CompressorAssumption ==
    /\ "blosclz" \in Compressors
    /\ Compressors \intersect Quantizers = {}

Levels == 0 .. 9
ResultTypes == 0 .. 2       \* array of structs, struct of arrays, matrix
Modes == 0 .. 2             \* of typedBLOBs: off, on, on with streaming
Languages == 0 .. 1
ValueCommands == {"typedBLOBs", "streaming", "result_type", "compression", "lang"}
SettingCommands == Flags \union ValueCommands

ASSUME FlagAssumption == Flags \intersect ValueCommands = {} /\ "none" \notin Flags

VARIABLES
    g_flag,             \* the flags, by name
    typed_blobs_mode,
    g_streaming,
    g_result_type,
    g_compression,      \* g_compression_type and g_compression_level
    Language,
    have_serialize,     \* this MATLAB has getByteStreamFromArray
    answer              \* the last command, whether it was refused, its result

settings == <<g_flag, typed_blobs_mode, g_streaming, g_result_type, g_compression, Language>>
settingVars == <<settings, have_serialize, answer>>

Compression == (Compressors \X Levels) \union (Quantizers \X {0, 1})
Values == BOOLEAN \union Modes \union Compression \union {NoValue}

SettingsTypeOK ==
    /\ g_flag \in [Flags -> BOOLEAN]
    /\ typed_blobs_mode \in BOOLEAN
    /\ g_streaming \in BOOLEAN
    /\ g_result_type \in ResultTypes
    /\ g_compression \in Compression
    /\ Language \in Languages
    /\ have_serialize \in BOOLEAN
    /\ answer.cmd \in SettingCommands \union {"none"}
    /\ answer.refused \in BOOLEAN

Answer(cmd, value) == answer' = [cmd |-> cmd, refused |-> FALSE, value |-> value]

\* Too many arguments, too few, or one of the wrong type or out of range.
Refused(cmd) ==
    /\ answer' = [cmd |-> cmd, refused |-> TRUE, value |-> NoValue]
    /\ UNCHANGED <<settings, have_serialize>>

-----------------------------------------------------------------------------
\* A flag, by any number or by none.
cmdTryHandleFlag(name, arg) ==
    /\ g_flag' = [g_flag EXCEPT ![name] = IF arg = NoValue THEN @ ELSE arg]
    /\ Answer(name, g_flag[name])
    /\ UNCHANGED <<typed_blobs_mode, g_streaming, g_result_type, g_compression, Language,
                   have_serialize>>

\* Mutant of Mode: streaming is not told.
ModeWithoutStreaming(typed, streaming) == IF typed THEN 1 ELSE 0

\* The mode typedBLOBs answers with.
Mode(typed, streaming) ==
    IF typed THEN IF streaming THEN 2 ELSE 1 ELSE 0

TypedBlobsAfter(mode, typed, streaming) ==
    IF mode = Mode(typed, streaming) THEN <<typed, streaming>>
    ELSE <<mode > 0, mode = 2>>

\* Whether MATLAB can serialize is not asked here.
cmdTryHandleTypedBlob(arg) ==
    LET old == Mode(typed_blobs_mode, g_streaming)
        new == IF arg = NoValue THEN old ELSE arg
        after == TypedBlobsAfter(new, typed_blobs_mode, g_streaming)
    IN  /\ new \in Modes
        /\ typed_blobs_mode' = after[1]
        /\ g_streaming' = after[2]
        /\ Answer("typedBLOBs", old)
        /\ UNCHANGED <<g_flag, g_result_type, g_compression, Language, have_serialize>>

\* Mutant of StreamingAfter: typed BLOBs are not asked for.
StreamingAfterAnyway(on, typed, serialize) == on /\ serialize

\* Switching streaming on without the means for it switches it off, with a message.
StreamingAfter(on, typed, serialize) == on /\ serialize /\ typed

cmdTryHandleStreaming(arg) ==
    /\ g_streaming' = StreamingAfter(IF arg = NoValue THEN g_streaming ELSE arg,
                                     typed_blobs_mode, have_serialize)
    /\ Answer("streaming", g_streaming)
    /\ UNCHANGED <<g_flag, typed_blobs_mode, g_result_type, g_compression, Language,
                   have_serialize>>

cmdTryHandleResultType(arg) ==
    /\ arg \in ResultTypes \union {NoValue}
    /\ g_result_type' = IF arg = NoValue THEN g_result_type ELSE arg
    /\ Answer("result_type", g_result_type)
    /\ UNCHANGED <<g_flag, typed_blobs_mode, g_streaming, g_compression, Language,
                   have_serialize>>

\* Mutant of CompressionAfter: the level is taken as given.
CompressionAfterRaw(type, level) == <<type, level>>

CompressionAfter(type, level) ==
    IF type \in Quantizers THEN <<type, IF level > 0 THEN 1 ELSE 0>> ELSE <<type, level>>

cmdTryHandleCompression(type, level) ==
    /\ type \in Compressors \union Quantizers
    /\ level \in Levels
    /\ g_compression' = CompressionAfter(type, level)
    /\ Answer("compression", g_compression)
    /\ UNCHANGED <<g_flag, typed_blobs_mode, g_streaming, g_result_type, Language,
                   have_serialize>>

cmdTryHandleLanguage(arg) ==
    /\ arg \in Languages
    /\ Language' = arg
    /\ Answer("lang", NoValue)
    /\ UNCHANGED <<g_flag, typed_blobs_mode, g_streaming, g_result_type, g_compression,
                   have_serialize>>

-----------------------------------------------------------------------------
SettingCommand ==
    \/ \E name \in Flags, arg \in BOOLEAN \union {NoValue} : cmdTryHandleFlag(name, arg)
    \/ \E arg \in Modes \union {NoValue} : cmdTryHandleTypedBlob(arg)
    \/ \E arg \in BOOLEAN \union {NoValue} : cmdTryHandleStreaming(arg)
    \/ \E arg \in ResultTypes \union {NoValue} : cmdTryHandleResultType(arg)
    \/ \E type \in Compressors \union Quantizers, level \in Levels :
          cmdTryHandleCompression(type, level)
    \/ \E arg \in Languages : cmdTryHandleLanguage(arg)
    \/ \E cmd \in SettingCommands : Refused(cmd)

\* What config.h and mex_module_init set; the language is that of the computer.
DefaultFlags == [name \in Flags |-> name \in {"convertUTF8", "check4uniquefields"}]

SettingsInit ==
    /\ g_flag = DefaultFlags
    /\ typed_blobs_mode = FALSE
    /\ g_streaming = FALSE
    /\ g_result_type = 0
    /\ g_compression = <<"blosclz", 0>>
    /\ Language \in Languages
    /\ have_serialize \in BOOLEAN
    /\ answer = [cmd |-> "none", refused |-> FALSE, value |-> NoValue]

SettingsSpec == SettingsInit /\ [][SettingCommand]_settingVars

-----------------------------------------------------------------------------
(* Properties *)

\* Streaming is on only while BLOBs are typed, whatever the order of 'streaming' and
\* 'typedBLOBs' (the comment in cmdTryHandleTypedBlob says why it has to be).
StreamingNeedsTypedBlobs == g_streaming => typed_blobs_mode

\* Giving a command what it answered restores what was: this is how a function saves
\* and restores settings.  Streaming can be restored where MATLAB can serialize.
AnswersRestore ==
    [][~answer'.refused =>
         /\ answer'.cmd = "typedBLOBs" =>
               TypedBlobsAfter(answer'.value, typed_blobs_mode', g_streaming')
                  = <<typed_blobs_mode, g_streaming>>
         /\ answer'.cmd = "streaming" /\ have_serialize =>
               StreamingAfter(answer'.value, typed_blobs_mode', have_serialize)
                  = g_streaming
         /\ answer'.cmd = "compression" =>
               CompressionAfter(answer'.value[1], answer'.value[2]) = g_compression
      ]_settingVars
=============================================================================
