----------------------------- MODULE Connections -----------------------------
(***************************************************************************)
(* What mksqlite promises about the databases behind the ids: a table of   *)
(* usable connections and the SQL statements that run on them.  A          *)
(* statement runs on a usable connection, statements end innermost first   *)
(* (a nested one was started by a MATLAB function the outer one called),   *)
(* and no command, at any depth, takes a connection away from under a      *)
(* statement that still runs on it.  How a slot is picked, which slot is   *)
(* "current" and how a command is refused are left to DbSlots.             *)
(***************************************************************************)
EXTENDS Integers, Sequences

CONSTANT Slots

VARIABLES
    usable,     \* the slots whose connection can run SQL
    running     \* the slots of the running statements, innermost last

vars == <<usable, running>>

Idle(s) == \A i \in DOMAIN running : running[i] # s

Init ==
    /\ usable = {}
    /\ running = <<>>

Connect(s) ==
    /\ Idle(s)
    /\ usable' = usable \union {s}
    /\ UNCHANGED running

Disconnect(S) ==
    /\ \A s \in S : Idle(s)
    /\ usable' = usable \ S
    /\ UNCHANGED running

Start(s) ==
    /\ s \in usable
    /\ running' = Append(running, s)
    /\ UNCHANGED usable

Finish ==
    /\ running # <<>>
    /\ running' = SubSeq(running, 1, Len(running) - 1)
    /\ UNCHANGED usable

Next ==
    \/ \E s \in Slots : Connect(s) \/ Start(s)
    \/ \E S \in SUBSET Slots : Disconnect(S)
    \/ Finish

Spec == Init /\ [][Next]_vars
=============================================================================
