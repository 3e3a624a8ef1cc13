\* All levels and modes; of the flags and compressors one or two of each kind.
CONSTANTS
    Flags <- MCFlags
    Compressors <- MCCompressors
    Quantizers <- MCQuantizers
    NoValue = NoValue
SPECIFICATION SettingsSpec
INVARIANTS SettingsTypeOK StreamingNeedsTypedBlobs
PROPERTIES AnswersRestore
VIEW SettingsView
