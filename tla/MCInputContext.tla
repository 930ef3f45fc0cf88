----------------------------- MODULE MCInputContext -----------------------------
(* Instances of InputContext for TLC.                                      *)
EXTENDS InputContext

\* The local groups are interchangeable.
GroupSymmetry == Permutations(Group)

\* No action reads "log": two states that differ only there have the same future.
WithoutLog == <<idVars, focusVars, dataVars, freed>>
=============================================================================
