----------------------------- MODULE MCVclAgent -----------------------------
(***************************************************************************)
(* Instances of VclAgent for TLC.                                          *)
(***************************************************************************)
EXTENDS VclAgent, TLC

\* Slots are interchangeable, and so are names that compile; what is checked is
\* safety.
Symmetry == Permutations(Slots) \cup Permutations(Names)

=============================================================================
