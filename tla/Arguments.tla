-------------------------------- MODULE Arguments --------------------------------
(***************************************************************************)
(* Arguments from outside: the command line (lib/fcitx/instance.c) and the *)
(* calls of functions that addons offer to each other (lib/fcitx/addon.c). *)
(***************************************************************************)
EXTENDS Config
LOCAL INSTANCE Integers
LOCAL INSTANCE Sequences
LOCAL INSTANCE SequencesExt

CONSTANT FUNCTION_MAX_ARG  \* FCITX_ADDON_FUNCTION_MAX_ARG, 20 in the code

----------------------------------------------------------------------------
(* An option as getopt_long returns it: a long or a short name, with its   *)
(* argument.  What it does not know it calls "?".                          *)
NoArguments ==
  [uiname |-> <<>>, tryReplace |-> FALSE, enableList |-> <<>>, disableList |-> <<>>, quietQuit |-> FALSE,
   runasdaemon |-> FALSE, overrideDelay |-> -1]

Parsed(arg, option) ==
  CASE option.name \in {"ui", "u"} -> [arg EXCEPT !.uiname = option.arg]
    [] option.name \in {"replace", "r"} -> [arg EXCEPT !.tryReplace = TRUE]
    [] option.name = "enable" -> [arg EXCEPT !.enableList = option.arg]
    [] option.name = "disable" -> [arg EXCEPT !.disableList = option.arg]
    [] option.name = "d" -> [arg EXCEPT !.runasdaemon = TRUE]
    [] option.name = "D" -> [arg EXCEPT !.runasdaemon = FALSE]
    [] option.name = "s" -> [arg EXCEPT !.overrideDelay = atoi(option.arg)]
    [] OTHER -> [arg EXCEPT !.quietQuit = TRUE]  \* version, v, help, h, ?

arugment_parse(options) == FoldLeft(Parsed, NoArguments, options)

----------------------------------------------------------------------------
(* Signatures: a letter for the result and one for each argument.          *)
Widths == [y |-> 8, z |-> 8, n |-> 16, q |-> 16]
SignedTypes == {"y", "n", "i", "x"}
Types == {"a", "y", "n", "i", "x", "z", "q", "u", "t", "f", "d", "v"}

ValidSignature(s) ==
  /\ Len(s) \in 1..(FUNCTION_MAX_ARG + 1)
  /\ \A i \in DOMAIN s : s[i] \in Types /\ (s[i] = "v" => i = 1)

(* Small integers come as int and are narrowed; the others keep their      *)
(* value.                                                                  *)
va_arg_to_fcitx_arg(c, value) ==
  IF c \notin DOMAIN Widths THEN value
  ELSE LET low == value % 2^Widths[c]
       IN  IF c \in SignedTypes /\ low >= 2^(Widths[c] - 1) THEN low - 2^Widths[c] ELSE low

(* What the function is called with, the addon's data first, or no call.   *)
NoCall == <<>>

(* addons maps names to records of data and functions; a function that     *)
(* does not exist has no pointer.                                          *)
addon_manager_invoke(addons, addonName, functionName, args) ==
  IF \/ addonName \notin DOMAIN addons
     \/ functionName \notin DOMAIN addons[addonName].functions
     \/ ~addons[addonName].functions[functionName].pointer
     \/ ~ValidSignature(addons[addonName].functions[functionName].signature)
  THEN NoCall
  ELSE LET s == addons[addonName].functions[functionName].signature
       IN  <<addons[addonName].data>> \o [i \in 1..(Len(s) - 1) |-> va_arg_to_fcitx_arg(s[i + 1], args[i])]
=============================================================================
