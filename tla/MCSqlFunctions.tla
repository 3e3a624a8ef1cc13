--------------------------- MODULE MCSqlFunctions ---------------------------
(***************************************************************************)
(* SqlFunctions with the bounds TLC explores.                              *)
(***************************************************************************)
EXTENDS SqlFunctions, TLC

CONSTANTS f, g

MCFcnNames == {f, g}

\* The names of the functions are interchangeable.
FcnSymmetry == Permutations(MCFcnNames)

\* What the timeouts are makes no difference here.
MCTimeouts == {1000}

\* No action reads reply or thrown.
FcnView == <<m_db, m_dbid, calls, crashed,
             m_fcnmap, registered, m_busy, frames, m_exception, corrupt>>
=============================================================================
