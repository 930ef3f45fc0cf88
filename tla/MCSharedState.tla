----------------------------- MODULE MCSharedState -----------------------------
(* Instance of SharedState for TLC.                                        *)
EXTENDS SharedState, TLC

\* Contexts are interchangeable, and so are values and the slots with a policy.
DataSymmetry == Permutations(Context) \cup Permutations(Value) \cup Permutations(PolicySlot)
=============================================================================
