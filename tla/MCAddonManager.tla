------------------------------ MODULE MCAddonManager ------------------------------
(* Three addons, one of them named by two files; the second and the third  *)
(* are frontends.                                                          *)
EXTENDS AddonManager

CONSTANTS a1, a2, a3

MCFiles == <<a1, a2, a3, a2>>
MCOverride ==
  { [enabled |-> {}, disabled |-> {a2}, all |-> FALSE],
    [enabled |-> {a1, a3}, disabled |-> {a3}, all |-> TRUE] }
=============================================================================
