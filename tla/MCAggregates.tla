---------------------------- MODULE MCAggregates ----------------------------
(***************************************************************************)
(* Aggregates with the bounds TLC explores.                                *)
(***************************************************************************)
EXTENDS Aggregates, TLC

CONSTANTS Mean, Spread

MCAggregateNames == {Mean, Spread}
MCSymmetry == Permutations(MCAggregateNames)

\* The variables of a level that is not in use are read by no action.
AggregatesView ==
    <<m_group_data, rows, abandoned,
      [n \in 1 .. depth |-> <<uses[n], acc[n], undisturbed[n], done[n], failed[n], call[n]>>]>>
=============================================================================
