------------------------------ MODULE MCDbSlots ------------------------------
(***************************************************************************)
(* DbSlots with the bounds TLC explores.                                   *)
(***************************************************************************)
EXTENDS DbSlots

\* The default and one other timeout: enough to tell a connection that was
\* configured from a fresh one.
MCTimeouts == {1000, 5}

\* No action reads reply: states that differ in it alone have the same successors.
\* The action properties are evaluated on every step, seen state or not.
StateView == <<m_db, m_dbid, calls, crashed>>
=============================================================================
