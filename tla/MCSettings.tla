----------------------------- MODULE MCSettings -----------------------------
(***************************************************************************)
(* Settings with the bounds TLC explores.                                  *)
(***************************************************************************)
EXTENDS Settings

\* A flag that is on by default and one that is off.
MCFlags == {"convertUTF8", "param_wrapping"}

MCCompressors == {"blosclz", "lz4"}
MCQuantizers == {"qlin16"}

\* No action reads the answer.
SettingsView == <<settings, have_serialize>>
=============================================================================
