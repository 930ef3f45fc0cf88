------------------------------ MODULE AddonManager ------------------------------
(***************************************************************************)
(* The addon manager of fcitx (lib/fcitx/addon.c): it reads the addons'    *)
(* metadata, loads the enabled addons whose dependencies are loaded, and   *)
(* unloads them in the reverse order.                                      *)
(*                                                                         *)
(* An addon's init and destroy are phases of their own: while they run,    *)
(* the addon may invoke the functions of the addons it depends on.         *)
(* Whether a library is found, has the right version and initialises is a  *)
(* choice made when the addon is resolved.                                 *)
(***************************************************************************)
EXTENDS Naturals, FiniteSets, SequencesExt

CONSTANTS
  Addon,     \* names of addons
  Frontend,  \* the addons of category FAC_Frontend
  Files,     \* the name in each *.conf file, in the sorted order of the files
  Override,  \* command lines: records of the addons enabled, disabled, and whether all are
  None

ASSUME AddonAssumption ==
  /\ None \notin Addon
  /\ Frontend \subseteq Addon
  /\ Files \in Seq(Addon)
  /\ Override \subseteq [enabled : SUBSET Addon, disabled : SUBSET Addon, all : BOOLEAN]

VARIABLES
  phase,         \* what the manager is doing
  pos,           \* the file, or the addon of the dictionary, that is next
  update,        \* the local of fcitx_addon_manager_load
  override,      \* manager->enabledAddons, disabledAddons, disabledAllAddons
  addons,        \* manager->addons: the names in insertion order
  deps,          \* addon->dependencies
  enabled,       \* the addons with config->addon.enabled
  loaded,        \* the addons with addon->loaded
  loadedAddons,  \* manager->loadedAddons
  left,          \* how many of them are not yet unloaded
  frontends,     \* manager->frontends
  frontendId,    \* frontendId in the api of each frontend
  cur,           \* the addon whose init or destroy runs
  tried          \* the addons that a resolver has been asked for

loadVars == <<override, addons, deps>>
instVars == <<loaded, loadedAddons, left, frontends, frontendId, tried>>
vars == <<phase, pos, update, loadVars, enabled, instVars, cur>>

Init ==
  /\ phase = "new" /\ pos = 1 /\ update = FALSE
  /\ override = [enabled |-> {}, disabled |-> {}, all |-> FALSE]
  /\ addons = <<>>
  /\ deps = [a \in Addon |-> {}]
  /\ enabled = {} /\ loaded = {}
  /\ loadedAddons = <<>> /\ left = 0
  /\ frontends = <<>>
  /\ frontendId = [a \in Frontend |-> 0]
  /\ cur = None /\ tried = {}

----------------------------------------------------------------------------
(* Reading the metadata, file by file.                                     *)
set_override(o) ==
  /\ phase = "new"
  /\ override' = o
  /\ UNCHANGED <<phase, pos, update, addons, deps, enabled, instVars, cur>>

manager_load ==
  /\ phase = "new"
  /\ phase' = "metadata"
  /\ UNCHANGED <<pos, update, loadVars, enabled, instVars, cur>>

(* Being enabled on the command line wins over being disabled there.       *)
Enabled(a, conf) ==
  \/ a \in override.enabled
  \/ conf /\ ~override.all /\ a \notin override.disabled

AtFile == phase = "metadata" /\ pos <= Len(Files)

(* A file without a name, a type or a category is passed over.             *)
load_metadata_invalid ==
  /\ AtFile
  /\ pos' = pos + 1
  /\ UNCHANGED <<phase, update, loadVars, enabled, instVars, cur>>

(* A second file for a name replaces what the first one said.              *)
load_metadata(conf, d) ==
  LET a == Files[pos] IN
  /\ AtFile
  /\ pos' = pos + 1
  /\ addons' = IF Contains(addons, a) THEN addons ELSE Append(addons, a)
  /\ deps' = [deps EXCEPT ![a] = d]
  /\ enabled' = IF Enabled(a, conf) THEN enabled \cup {a} ELSE enabled \ {a}
  /\ UNCHANGED <<phase, update, override, instVars, cur>>

metadata_end ==
  /\ phase = "metadata" /\ pos > Len(Files)
  /\ phase' = "pass" /\ pos' = 1 /\ update' = FALSE
  /\ UNCHANGED <<loadVars, enabled, instVars, cur>>

----------------------------------------------------------------------------
(* Loading: passes over the dictionary.                                    *)
AtAddon == phase = "pass" /\ pos <= Len(addons)

\* Plausible bug: the dictionary is walked from its newest entry.
ThisFromLast == addons[Len(addons) - pos + 1]

This == addons[pos]

DepsLoaded(a) == deps[a] \subseteq loaded
DepsKnown(a) == deps[a] \subseteq ToSet(addons)

Skip(a) ==
  \/ a \notin enabled
  \/ DepsKnown(a) /\ (~DepsLoaded(a) \/ a \in loaded)

visit_skip ==
  /\ AtAddon /\ Skip(This)
  /\ pos' = pos + 1
  /\ UNCHANGED <<phase, update, loadVars, enabled, instVars, cur>>

visit_disable ==
  /\ AtAddon /\ This \in enabled /\ ~DepsKnown(This)
  /\ pos' = pos + 1
  /\ update' = TRUE
  /\ enabled' = enabled \ {This}
  /\ UNCHANGED <<phase, loadVars, instVars, cur>>

Loadable == AtAddon /\ ~Skip(This) /\ DepsKnown(This)

Disable(a) == enabled \ {a}

(* The resolver is not there, or finds no library or no usable api.        *)
resolve_fails ==
  /\ Loadable
  /\ pos' = pos + 1
  /\ enabled' = Disable(This)
  /\ tried' = tried \cup {This}
  /\ UNCHANGED <<phase, update, loadVars, loaded, loadedAddons, left, frontends, frontendId, cur>>

\* Plausible bug: the id counts the addons of every category.
NextFrontendIdOfAny == Len(loadedAddons)

NextFrontendId == Len(frontends)

(* A frontend learns its id before its init runs.                          *)
init_begin ==
  /\ Loadable
  /\ phase' = "init" /\ cur' = This
  /\ tried' = tried \cup {This}
  /\ frontendId' = IF This \in Frontend THEN [frontendId EXCEPT ![This] = NextFrontendId]
                   ELSE frontendId
  /\ UNCHANGED <<pos, update, loadVars, enabled, loaded, loadedAddons, left, frontends>>

FrontendsAfterInit(ok) ==
  IF ok /\ cur \in Frontend THEN Append(frontends, cur) ELSE frontends

init_succeeds ==
  /\ phase = "init"
  /\ phase' = "pass" /\ pos' = pos + 1 /\ cur' = None
  /\ frontends' = FrontendsAfterInit(TRUE)
  /\ loaded' = loaded \cup {cur}
  /\ loadedAddons' = Append(loadedAddons, cur)
  /\ left' = left + 1
  /\ UNCHANGED <<update, loadVars, enabled, frontendId, tried>>

init_fails ==
  /\ phase = "init"
  /\ phase' = "pass" /\ pos' = pos + 1 /\ cur' = None
  /\ frontends' = FrontendsAfterInit(FALSE)
  /\ enabled' = Disable(cur)
  /\ UNCHANGED <<update, loadVars, loaded, loadedAddons, left, frontendId, tried>>

\* Plausible bug: every pass is followed by another one.
AlwaysAgain == TRUE

Again == update

(* Another pass follows if this one disabled an addon.                     *)
pass_end ==
  /\ phase = "pass" /\ pos > Len(addons)
  /\ phase' = IF Again THEN "pass" ELSE "ready"
  /\ pos' = 1 /\ update' = FALSE
  /\ UNCHANGED <<loadVars, enabled, instVars, cur>>

----------------------------------------------------------------------------
(* Unloading.  A second unload finds loadedAddons empty and does nothing.  *)
manager_unload ==
  /\ phase = "ready"
  /\ phase' = "unload"
  /\ UNCHANGED <<pos, update, loadVars, enabled, instVars, cur>>

\* Plausible bug: addons are destroyed in the order they were loaded in.
ToUnloadInLoadOrder == loadedAddons[Len(loadedAddons) - left + 1]

ToUnload == loadedAddons[left]

destroy_begin ==
  /\ phase = "unload" /\ left > 0
  /\ phase' = "destroy" /\ cur' = ToUnload
  /\ UNCHANGED <<pos, update, loadVars, enabled, instVars>>

destroy_end ==
  /\ phase = "destroy"
  /\ phase' = "unload" /\ cur' = None
  /\ loaded' = loaded \ {cur}
  /\ left' = left - 1
  /\ UNCHANGED <<pos, update, loadVars, enabled, loadedAddons, frontends, frontendId, tried>>

unload_end ==
  /\ phase = "unload" /\ left = 0
  /\ phase' = "idle"
  /\ loadedAddons' = <<>>
  /\ UNCHANGED <<pos, update, loadVars, enabled, loaded, left, frontends, frontendId, tried, cur>>

(* The manager unloads before it frees the addons.                         *)
manager_free ==
  /\ phase \in {"new", "idle"}
  /\ phase' = "freed"
  /\ addons' = <<>> /\ frontends' = <<>>
  /\ UNCHANGED <<pos, update, override, deps, enabled, loaded, loadedAddons, left, frontendId,
                 cur, tried>>

----------------------------------------------------------------------------
LoadStep ==
  \/ load_metadata_invalid
  \/ \E conf \in BOOLEAN, d \in SUBSET Addon : load_metadata(conf, d)
  \/ metadata_end \/ visit_skip \/ visit_disable \/ resolve_fails
  \/ init_begin \/ init_succeeds \/ init_fails \/ pass_end

UnloadStep == destroy_begin \/ destroy_end \/ unload_end

Next ==
  \/ \E o \in Override : set_override(o)
  \/ manager_load \/ LoadStep
  \/ manager_unload \/ UnloadStep
  \/ manager_free

(* The thread goes on: init and destroy return.                            *)
Fairness == WF_vars(LoadStep) /\ WF_vars(UnloadStep)

Spec == Init /\ [][Next]_vars /\ Fairness

----------------------------------------------------------------------------
(* The types of the manager's state.                                       *)
TypeOK ==
  /\ phase \in {"new", "metadata", "pass", "init", "ready", "unload", "destroy", "idle",
               "freed"}
  /\ pos \in Nat \ {0} /\ update \in BOOLEAN
  /\ override \in [enabled : SUBSET Addon, disabled : SUBSET Addon, all : BOOLEAN]
  /\ addons \in Seq(Addon)
  /\ deps \in [Addon -> SUBSET Addon]
  /\ enabled \subseteq Addon /\ loaded \subseteq Addon /\ tried \subseteq Addon
  /\ loadedAddons \in Seq(Addon)
  /\ left \in 0..Len(loadedAddons) /\ (phase = "destroy" => left > 0)
  /\ frontends \in Seq(Frontend)
  /\ frontendId \in [Frontend -> Nat]
  /\ cur \in Addon \cup {None} /\ (cur = None <=> phase \notin {"init", "destroy"})

(* Whatever an addon depends on is loaded as long as the addon is in use:  *)
(* while it initialises, while it is loaded and while it is destroyed, so  *)
(* that what it invokes through fcitx_addon_manager_invoke has live data.  *)
DependenciesUsable ==
  \A a \in loaded \cup ({cur} \ {None}) : deps[a] \subseteq loaded

(* No addon is initialised twice, however many passes there are and        *)
(* whatever fails in between.                                              *)
InitAtMostOnce == [][\A a \in tried : ~(phase # "init" /\ phase' = "init" /\ cur' = a)]_vars

(* A frontend that is loaded is found in the manager under the id its      *)
(* input contexts carry, even if the init of another frontend failed.      *)
FrontendIdsExact ==
  phase # "freed" =>
    \A a \in loaded \cap Frontend :
      frontendId[a] + 1 \in DOMAIN frontends /\ frontends[frontendId[a] + 1] = a

(* When all passes are over, an addon that is still enabled but not loaded *)
(* waits for one that is not loaded, or that comes after it: a successful  *)
(* load asks for no further pass.                                          *)
Before(a, b) == \E i, j \in 1..Len(addons) : i < j /\ addons[i] = a /\ addons[j] = b

OnlyOrderKeepsOut ==
  phase = "ready" =>
    \A a \in ToSet(addons) \cap enabled :
      a \in loaded \/ \E d \in deps[a] : d \notin loaded \/ ~Before(d, a)

(* Loading comes to an end, and so does unloading.                         *)
LoadTerminates == (phase = "metadata" ~> phase = "ready") /\ (phase = "unload" ~> phase = "idle")
=============================================================================
