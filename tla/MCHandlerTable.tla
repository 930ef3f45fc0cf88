----------------------------- MODULE MCHandlerTable -----------------------------
(* Instance of HandlerTable for TLC.                                       *)
EXTENDS HandlerTable

\* Keys are interchangeable, and so are handlers.
DataSymmetry == Permutations(Key) \cup Permutations(Obj)

\* No action reads "calls".
WithoutCalls == <<pool, objs, keys, order>>
=============================================================================
