----------------------------- MODULE MCStatement -----------------------------
(***************************************************************************)
(* Statement with the bounds TLC explores.                                 *)
(***************************************************************************)
EXTENDS Statement

\* The only flag a statement reads, and one compressor: it is not read at all.
MCFlags == {"param_wrapping"}
MCCompressors == {"blosclz"}

\* Between two statements no action reads anything of the last one, and the invariants
\* are about the moment before it returns.  The settings left out are read by none.
StatementView == <<pc, IF pc = "idle" THEN <<>> ELSE callVars,
                   g_flag, typed_blobs_mode, g_streaming, have_serialize>>
=============================================================================
