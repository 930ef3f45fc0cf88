--------------------------- MODULE AddonManager_proofs ---------------------------
(***************************************************************************)
(* Proofs, for any set of addons, any files and any overrides, that what   *)
(* an addon depends on is loaded while the addon is in use, that no addon  *)
(* is initialised twice, and that frontends are found under their ids.     *)
(***************************************************************************)
EXTENDS AddonManager, TLAPS

USE AddonAssumption

(* The loop stands at an addon of the dictionary.                          *)
LEMMA ThisIsAddon == ASSUME TypeOK, AtAddon PROVE This \in Addon
<1>1. pos \in 1..Len(addons)
  BY DEF TypeOK, AtAddon
<1> QED BY <1>1 DEF TypeOK, This

(* Every step of the manager keeps its state well formed: in particular    *)
(* the addons that are left to unload are a prefix of those loaded, and    *)
(* there is a current addon exactly while an init or a destroy runs.       *)
THEOREM TypeCorrect == Spec => []TypeOK
<1>1. Init => TypeOK
  <2>1. 1 \in Nat \ {0} /\ Len(<<>>) = 0 /\ 0 \in 0..0
    OBVIOUS
  <2>2. [enabled |-> {}, disabled |-> {}, all |-> FALSE]
          \in [enabled : SUBSET Addon, disabled : SUBSET Addon, all : BOOLEAN]
    OBVIOUS
  <2>3. <<>> \in Seq(Addon) /\ <<>> \in Seq(Frontend)
    OBVIOUS
  <2>4. [a \in Addon |-> {}] \in [Addon -> SUBSET Addon] /\ [a \in Frontend |-> 0] \in [Frontend -> Nat]
    OBVIOUS
  <2> SUFFICES ASSUME Init PROVE TypeOK
    OBVIOUS
  <2>5. left \in 0..Len(loadedAddons)
    BY <2>1 DEF Init
  <2> QED BY <2>1, <2>2, <2>3, <2>4, <2>5 DEF Init, TypeOK
<1>2. TypeOK /\ [Next]_vars => TypeOK'
  <2> SUFFICES ASSUME TypeOK, [Next]_vars PROVE TypeOK'
    OBVIOUS
  <2> USE DEF TypeOK, loadVars, instVars
  <2>0. 1 \in Nat \ {0}
    OBVIOUS
  <2>1. ASSUME NEW o \in Override, set_override(o) PROVE TypeOK'
    BY <2>1 DEF set_override
  <2>2. CASE manager_load
    BY <2>2 DEF manager_load
  <2>3. CASE load_metadata_invalid
    BY <2>3 DEF load_metadata_invalid, AtFile
  <2>4. ASSUME NEW conf \in BOOLEAN, NEW d \in SUBSET Addon, load_metadata(conf, d) PROVE TypeOK'
    <3>1. pos \in 1..Len(Files)
      BY <2>4 DEF load_metadata, AtFile
    <3>2. Files[pos] \in Addon
      BY <3>1
    <3> QED BY <2>4, <3>2 DEF load_metadata, AtFile
  <2>5. CASE metadata_end
    BY <2>0, <2>5 DEF metadata_end
  <2>6. CASE visit_skip
    BY <2>6 DEF visit_skip, AtAddon
  <2>7. CASE visit_disable
    BY <2>7 DEF visit_disable, AtAddon
  <2>8. CASE resolve_fails
    <3>1. This \in Addon
      BY <2>8, ThisIsAddon DEF resolve_fails, Loadable
    <3> QED BY <2>8, <3>1 DEF resolve_fails, Loadable, AtAddon, Disable
  <2>9. CASE init_begin
    <3>1. This \in Addon
      BY <2>9, ThisIsAddon DEF init_begin, Loadable
    <3>2. frontendId' \in [Frontend -> Nat]
      BY <2>9 DEF init_begin, NextFrontendId
    <3> QED BY <2>9, <3>1, <3>2 DEF init_begin
  <2>10. CASE init_succeeds
    BY <2>10 DEF init_succeeds, FrontendsAfterInit
  <2>11. CASE init_fails
    BY <2>11 DEF init_fails, FrontendsAfterInit, Disable
  <2>12. CASE pass_end
    BY <2>0, <2>12 DEF pass_end
  <2>13. CASE manager_unload
    BY <2>13 DEF manager_unload
  <2>14. CASE destroy_begin
    <3>1. loadedAddons[left] \in Addon
      BY <2>14 DEF destroy_begin
    <3> QED BY <2>14, <3>1 DEF destroy_begin, ToUnload
  <2>15. CASE destroy_end
    BY <2>15 DEF destroy_end
  <2>16. CASE unload_end
    BY <2>16 DEF unload_end
  <2>17. CASE manager_free
    BY <2>17 DEF manager_free
  <2>18. CASE UNCHANGED vars
    BY <2>18 DEF vars
  <2> QED
    BY <2>1, <2>2, <2>3, <2>4, <2>5, <2>6, <2>7, <2>8, <2>9, <2>10, <2>11, <2>12, <2>13,
       <2>14, <2>15, <2>16, <2>17, <2>18 DEF Next, LoadStep, UnloadStep
<1> QED BY <1>1, <1>2, PTL DEF Spec

----------------------------------------------------------------------------
(* The inductive invariant: every addon is loaded after all it depends on, *)
(* the loaded addons are the ones not yet unloaded, and an addon that was  *)
(* tried and is still enabled has been loaded.                             *)
Loading == phase \in {"new", "metadata", "pass", "init", "ready"}

OrderInv ==
  /\ \A i, j \in 1..Len(loadedAddons) : loadedAddons[i] = loadedAddons[j] => i = j
  /\ \A a \in Addon : a \in loaded <=> \E i \in 1..left : loadedAddons[i] = a
  /\ \A i \in 1..left : \A d \in deps[loadedAddons[i]] :
       \E j \in 1..(i - 1) : loadedAddons[j] = d
  /\ Loading => left = Len(loadedAddons)
  /\ phase \in {"new", "metadata"} => loaded = {} /\ tried = {}
  /\ phase = "init" => cur \notin loaded /\ deps[cur] \subseteq loaded
  /\ phase = "destroy" => cur = loadedAddons[left]

TriedInv ==
  phase \in {"new", "metadata", "pass", "init"} => tried \cap enabled \subseteq loaded \cup {cur}

FrontendInv ==
  /\ FrontendIdsExact
  /\ phase = "init" /\ cur \in Frontend => frontendId[cur] = Len(frontends)

IInv == OrderInv /\ TriedInv /\ FrontendInv

(* An addon whose init has succeeded goes to the end of the load order.    *)
LEMMA LoadKeepsOrder ==
  ASSUME TypeOK, OrderInv, init_succeeds
  PROVE  OrderInv'
<1> DEFINE n == Len(loadedAddons)
<1>1. /\ n \in Nat /\ left = n /\ left' = n + 1
      /\ phase = "init" /\ cur \in Addon /\ phase' = "pass"
      /\ loadedAddons' = Append(loadedAddons, cur) /\ loaded' = loaded \cup {cur}
      /\ deps' = deps /\ tried' = tried
  BY DEF init_succeeds, TypeOK, OrderInv, Loading, loadVars
<1>2. /\ Len(loadedAddons') = n + 1
      /\ \A k \in 1..n : loadedAddons'[k] = loadedAddons[k]
      /\ loadedAddons'[n + 1] = cur
  BY <1>1 DEF TypeOK
<1>3. cur \notin loaded /\ deps[cur] \subseteq loaded
  BY <1>1 DEF OrderInv
<1>4. \A a \in Addon : a \in loaded <=> \E k \in 1..n : loadedAddons[k] = a
  BY <1>1 DEF OrderInv
<1> HIDE DEF n
<1>5. \A k, l \in 1..(n + 1) : loadedAddons'[k] = loadedAddons'[l] => k = l
  <2> TAKE k, l \in 1..(n + 1)
  <2>1. \A j \in 1..n : loadedAddons'[j] # cur
    BY <1>1, <1>2, <1>3, <1>4
  <2>2. (k \in 1..n \/ k = n + 1) /\ (l \in 1..n \/ l = n + 1)
    BY <1>1
  <2>3. \A i, j \in 1..n : loadedAddons[i] = loadedAddons[j] => i = j
    BY DEF OrderInv, n
  <2> QED BY <1>2, <2>1, <2>2, <2>3
<1>6. \A a \in Addon : a \in loaded' <=> \E k \in 1..(n + 1) : loadedAddons'[k] = a
  <2>1. 1..(n + 1) = (1..n) \cup {n + 1}
    BY <1>1
  <2> QED BY <1>1, <1>2, <1>4, <2>1
<1>7. \A k \in 1..(n + 1) :
        \A d \in deps[loadedAddons'[k]] : \E j \in 1..(k - 1) : loadedAddons'[j] = d
  <2> TAKE k \in 1..(n + 1)
  <2>1. CASE k \in 1..n
    <3>1. \A d \in deps[loadedAddons[k]] : \E j \in 1..(k - 1) : loadedAddons[j] = d
      BY <1>1, <2>1 DEF OrderInv
    <3>2. \A j \in 1..(k - 1) : j \in 1..n
      BY <1>1, <2>1
    <3> QED BY <1>2, <2>1, <3>1, <3>2
  <2>2. CASE k = n + 1
    <3>1. k - 1 = n /\ loadedAddons'[k] = cur
      BY <1>1, <1>2, <2>2
    <3>2. deps[cur] \subseteq Addon
      BY <1>1 DEF TypeOK
    <3> QED BY <1>2, <1>3, <1>4, <3>1, <3>2
  <2>3. k \in 1..n \/ k = n + 1
    BY <1>1
  <2> QED BY <2>1, <2>2, <2>3
<1>8. left' = n + 1 /\ Len(loadedAddons') = n + 1 /\ phase' = "pass" /\ deps' = deps
  BY <1>1, <1>2
<1> QED BY <1>5, <1>6, <1>7, <1>8 DEF OrderInv, Loading

(* The addon that goes is the last one loaded, and nothing depends on it.  *)
LEMMA UnloadKeepsOrder ==
  ASSUME TypeOK, OrderInv, destroy_end
  PROVE  OrderInv'
<1>1. /\ left \in 1..Len(loadedAddons) /\ left' = left - 1 /\ Len(loadedAddons) \in Nat
      /\ phase = "destroy" /\ phase' = "unload" /\ cur = loadedAddons[left]
      /\ loaded' = loaded \ {cur}
      /\ UNCHANGED <<loadedAddons, deps, tried>>
  BY DEF destroy_end, TypeOK, OrderInv, loadVars
<1>2. \A k \in 1..left : loadedAddons[k] = cur <=> k = left
  <2>1. \A k \in 1..left : k \in 1..Len(loadedAddons)
    BY <1>1
  <2> QED BY <1>1, <2>1 DEF OrderInv
<1>3. 1..left = (1..(left - 1)) \cup {left} /\ left \notin 1..(left - 1)
  BY <1>1
<1>4. \A a \in Addon : a \in loaded' <=> \E k \in 1..(left - 1) : loadedAddons[k] = a
  BY <1>1, <1>2, <1>3 DEF OrderInv
<1>5. \A k \in 1..(left - 1) :
        \A d \in deps[loadedAddons[k]] : \E j \in 1..(k - 1) : loadedAddons[j] = d
  BY <1>3 DEF OrderInv
<1>6. \A a \in Addon : a \in loaded' <=> \E k \in 1..left' : loadedAddons'[k] = a
  BY <1>1, <1>4
<1>7. \A k \in 1..left' : \A d \in deps'[loadedAddons'[k]] :
        \E j \in 1..(k - 1) : loadedAddons'[j] = d
  <2>1. left' = left - 1 /\ deps' = deps /\ loadedAddons' = loadedAddons
    BY <1>1
  <2> QED BY <1>5, <2>1
<1>8. \A i, j \in 1..Len(loadedAddons') : loadedAddons'[i] = loadedAddons'[j] => i = j
  BY <1>1 DEF OrderInv
<1> QED BY <1>1, <1>6, <1>7, <1>8 DEF OrderInv, Loading

(* Steps that load and unload nothing.                                     *)
LEMMA SameOrder ==
  ASSUME TypeOK, OrderInv, UNCHANGED <<deps, loaded, loadedAddons, left>>,
         Loading' => Loading,
         phase' \in {"new", "metadata"} => phase \in {"new", "metadata"} /\ tried' = tried,
         phase' # "init", phase' # "destroy"
  PROVE  OrderInv'
BY DEF OrderInv

(* Every step keeps the order of the loaded addons.                        *)
LEMMA OrderStep == ASSUME TypeOK, OrderInv, [Next]_vars PROVE OrderInv'
<1> USE DEF loadVars, instVars
<1>1. ASSUME NEW o \in Override, set_override(o) PROVE OrderInv'
  BY <1>1, SameOrder DEF set_override, Loading
<1>2. CASE manager_load
  BY <1>2, SameOrder DEF manager_load, Loading
<1>3. CASE load_metadata_invalid
  BY <1>3, SameOrder DEF load_metadata_invalid, AtFile, Loading
<1>4. ASSUME NEW conf \in BOOLEAN, NEW d \in SUBSET Addon, load_metadata(conf, d) PROVE OrderInv'
  <2>1. /\ phase = "metadata" /\ UNCHANGED <<phase, loaded, loadedAddons, left, tried>>
    BY <1>4 DEF load_metadata, AtFile
  <2>2. \A i \in 1..left : FALSE
    <3>1. \A i \in 1..left : loadedAddons[i] \in Addon
      BY DEF TypeOK
    <3> QED BY <2>1, <3>1 DEF OrderInv
  <2> QED BY <2>1, <2>2 DEF OrderInv, Loading
<1>5. CASE metadata_end
  BY <1>5, SameOrder DEF metadata_end, Loading
<1>6. CASE visit_skip
  BY <1>6, SameOrder DEF visit_skip, AtAddon, Loading
<1>7. CASE visit_disable
  BY <1>7, SameOrder DEF visit_disable, AtAddon, Loading
<1>8. CASE resolve_fails
  BY <1>8, SameOrder DEF resolve_fails, Loadable, AtAddon, Loading
<1>9. CASE init_begin
  <2>1. This \notin loaded /\ deps[This] \subseteq loaded
    BY <1>9 DEF init_begin, Loadable, Skip, DepsLoaded
  <2> QED BY <1>9, <2>1 DEF init_begin, Loadable, AtAddon, OrderInv, Loading
<1>10. CASE init_succeeds
  BY <1>10, LoadKeepsOrder
<1>11. CASE init_fails
  BY <1>11, SameOrder DEF init_fails, Loading
<1>12. CASE pass_end
  BY <1>12, SameOrder DEF pass_end, Loading
<1>13. CASE manager_unload
  BY <1>13, SameOrder DEF manager_unload, Loading
<1>14. CASE destroy_begin
  BY <1>14 DEF destroy_begin, ToUnload, OrderInv, Loading
<1>15. CASE destroy_end
  BY <1>15, UnloadKeepsOrder
<1>16. CASE unload_end
  <2>1. Len(<<>>) = 0
    OBVIOUS
  <2> QED BY <1>16, <2>1 DEF unload_end, OrderInv, Loading
<1>17. CASE manager_free
  BY <1>17, SameOrder DEF manager_free, Loading
<1>18. CASE UNCHANGED vars
  BY <1>18 DEF vars, OrderInv, Loading
<1> QED
  BY <1>1, <1>2, <1>3, <1>4, <1>5, <1>6, <1>7, <1>8, <1>9, <1>10, <1>11, <1>12, <1>13,
     <1>14, <1>15, <1>16, <1>17, <1>18 DEF Next, LoadStep, UnloadStep

(* An addon that a resolver was asked for is loaded, being initialised, or *)
(* disabled for good.                                                      *)
LEMMA TriedStep == ASSUME TypeOK, OrderInv, TriedInv, [Next]_vars PROVE TriedInv'
<1> USE DEF loadVars, instVars, TriedInv
<1>1. ASSUME NEW o \in Override, set_override(o) PROVE TriedInv'
  BY <1>1 DEF set_override
<1>2. CASE manager_load
  BY <1>2 DEF manager_load
<1>3. CASE load_metadata_invalid
  BY <1>3 DEF load_metadata_invalid, AtFile
<1>4. ASSUME NEW conf \in BOOLEAN, NEW d \in SUBSET Addon, load_metadata(conf, d) PROVE TriedInv'
  <2>1. tried' = {}
    BY <1>4 DEF load_metadata, AtFile, OrderInv
  <2> QED BY <2>1
<1>5. CASE metadata_end
  BY <1>5 DEF metadata_end
<1>6. CASE visit_skip
  BY <1>6 DEF visit_skip, AtAddon
<1>7. CASE visit_disable
  BY <1>7 DEF visit_disable, AtAddon
<1>8. CASE resolve_fails
  BY <1>8 DEF resolve_fails, Loadable, AtAddon, Disable
<1>9. CASE init_begin
  <2>1. cur = None /\ tried \subseteq Addon
    BY <1>9 DEF init_begin, Loadable, AtAddon, TypeOK
  <2> QED BY <1>9, <2>1 DEF init_begin, Loadable, AtAddon
<1>10. CASE init_succeeds
  BY <1>10 DEF init_succeeds
<1>11. CASE init_fails
  BY <1>11 DEF init_fails, Disable
<1>12. CASE pass_end
  BY <1>12 DEF pass_end
<1>13. CASE manager_unload \/ UnloadStep \/ manager_free
  BY <1>13 DEF manager_unload, UnloadStep, destroy_begin, destroy_end, unload_end, manager_free
<1>14. CASE UNCHANGED vars
  BY <1>14 DEF vars
<1> QED
  BY <1>1, <1>2, <1>3, <1>4, <1>5, <1>6, <1>7, <1>8, <1>9, <1>10, <1>11, <1>12, <1>13,
     <1>14 DEF Next, LoadStep

(* A frontend gets the id of the slot that its init, if it succeeds, fills *)
(* next; no other step moves frontends or ids of loaded addons.            *)
LEMMA FrontendStep == ASSUME TypeOK, OrderInv, FrontendInv, [Next]_vars PROVE FrontendInv'
<1> USE DEF loadVars, instVars, FrontendInv, FrontendIdsExact
<1>1. ASSUME NEW o \in Override, set_override(o) PROVE FrontendInv'
  BY <1>1 DEF set_override
<1>2. CASE manager_load
  BY <1>2 DEF manager_load
<1>3. CASE load_metadata_invalid
  BY <1>3 DEF load_metadata_invalid, AtFile
<1>4. ASSUME NEW conf \in BOOLEAN, NEW d \in SUBSET Addon, load_metadata(conf, d) PROVE FrontendInv'
  BY <1>4 DEF load_metadata, AtFile
<1>5. CASE metadata_end
  BY <1>5 DEF metadata_end
<1>6. CASE visit_skip
  BY <1>6 DEF visit_skip, AtAddon
<1>7. CASE visit_disable
  BY <1>7 DEF visit_disable, AtAddon
<1>8. CASE resolve_fails
  BY <1>8 DEF resolve_fails, Loadable, AtAddon
<1>9. CASE init_begin
  <2>1. This \notin loaded
    BY <1>9 DEF init_begin, Loadable, Skip, DepsLoaded
  <2>2. /\ phase = "pass" /\ phase' = "init" /\ cur' = This /\ UNCHANGED <<loaded, frontends>>
        /\ frontendId' = IF This \in Frontend THEN [frontendId EXCEPT ![This] = Len(frontends)]
                         ELSE frontendId
    BY <1>9 DEF init_begin, Loadable, AtAddon, NextFrontendId
  <2>3. \A a \in Frontend : a # This => frontendId'[a] = frontendId[a]
    BY <2>2 DEF TypeOK
  <2>4. This \in Frontend => frontendId'[This] = Len(frontends)
    BY <2>2 DEF TypeOK
  <2> QED BY <2>1, <2>2, <2>3, <2>4
<1>10. CASE init_succeeds
  <2>1. /\ phase = "init" /\ phase' = "pass" /\ loaded' = loaded \cup {cur} /\ frontendId' = frontendId
        /\ frontends' = IF cur \in Frontend THEN Append(frontends, cur) ELSE frontends
    BY <1>10 DEF init_succeeds, FrontendsAfterInit
  <2>2. CASE cur \notin Frontend
    BY <2>1, <2>2
  <2>3. CASE cur \in Frontend
    <3>1. /\ frontends' = Append(frontends, cur) /\ Len(frontends) \in Nat
          /\ DOMAIN frontends = 1..Len(frontends)
          /\ DOMAIN frontends' = 1..(Len(frontends) + 1)
          /\ \A k \in 1..Len(frontends) : frontends'[k] = frontends[k]
          /\ frontends'[Len(frontends) + 1] = cur
      BY <2>1, <2>3 DEF TypeOK
    <3>2. frontendId[cur] + 1 = Len(frontends) + 1
      BY <2>1, <2>3
    <3>3. \A a \in loaded \cap Frontend :
            frontendId[a] + 1 \in DOMAIN frontends /\ frontends[frontendId[a] + 1] = a
      BY <2>1
    <3>4. \A a \in loaded \cap Frontend :
            frontendId[a] + 1 \in DOMAIN frontends' /\ frontends'[frontendId[a] + 1] = a
      BY <3>1, <3>3
    <3>5. frontendId[cur] + 1 \in DOMAIN frontends' /\ frontends'[frontendId[cur] + 1] = cur
      BY <3>1, <3>2
    <3> QED BY <2>1, <3>4, <3>5
  <2> QED BY <2>2, <2>3
<1>11. CASE init_fails
  BY <1>11 DEF init_fails, FrontendsAfterInit
<1>12. CASE pass_end
  BY <1>12 DEF pass_end
<1>13. CASE manager_unload
  BY <1>13 DEF manager_unload
<1>14. CASE destroy_begin
  BY <1>14 DEF destroy_begin
<1>15. CASE destroy_end
  BY <1>15 DEF destroy_end
<1>16. CASE unload_end
  BY <1>16 DEF unload_end
<1>17. CASE manager_free
  BY <1>17 DEF manager_free
<1>18. CASE UNCHANGED vars
  BY <1>18 DEF vars
<1> QED
  BY <1>1, <1>2, <1>3, <1>4, <1>5, <1>6, <1>7, <1>8, <1>9, <1>10, <1>11, <1>12, <1>13,
     <1>14, <1>15, <1>16, <1>17, <1>18 DEF Next, LoadStep, UnloadStep

(* The three parts of the invariant hold in every reachable state.         *)
THEOREM Inductive == Spec => []IInv
<1>1. Init => IInv
  <2>1. Len(<<>>) = 0
    OBVIOUS
  <2> QED BY <2>1 DEF Init, IInv, OrderInv, TriedInv, FrontendInv, FrontendIdsExact, Loading
<1>2. TypeOK /\ IInv /\ [Next]_vars => IInv'
  BY OrderStep, TriedStep, FrontendStep DEF IInv
<1> QED BY <1>1, <1>2, TypeCorrect, PTL DEF Spec

----------------------------------------------------------------------------
(* Whatever an addon depends on is loaded while the addon initialises, is  *)
(* loaded, or is destroyed, whatever the dependencies look like and        *)
(* whatever fails.                                                         *)
THEOREM DependenciesAreUsable == Spec => []DependenciesUsable
<1>1. TypeOK /\ IInv => DependenciesUsable
  <2> SUFFICES ASSUME TypeOK, OrderInv, NEW a \in loaded \cup ({cur} \ {None})
               PROVE  deps[a] \subseteq loaded
    BY DEF IInv, DependenciesUsable
  <2>1. CASE a \in loaded
    <3>1. PICK i \in 1..left : a = loadedAddons[i]
      BY <2>1 DEF OrderInv, TypeOK
    <3>2. \A j \in 1..(i - 1) : j \in 1..left
      BY <3>1 DEF TypeOK
    <3>3. deps[a] \subseteq Addon
      BY <2>1 DEF TypeOK
    <3> QED BY <3>1, <3>2, <3>3 DEF OrderInv
  <2>2. CASE a \notin loaded
    <3>1. a = cur /\ phase \in {"init", "destroy"}
      BY <2>2 DEF TypeOK
    <3>2. phase # "destroy"
      BY <2>2, <3>1 DEF OrderInv, TypeOK
    <3> QED BY <3>1, <3>2 DEF OrderInv
  <2> QED BY <2>1, <2>2
<1> QED BY <1>1, TypeCorrect, Inductive, PTL

(* No addon's init runs twice, whatever fails and however often the        *)
(* passes repeat.                                                          *)
THEOREM InitRunsOnce == Spec => InitAtMostOnce
<1>1. TypeOK /\ IInv /\ [Next]_vars =>
        [\A a \in tried : ~(phase # "init" /\ phase' = "init" /\ cur' = a)]_vars
  <2> SUFFICES ASSUME TypeOK, TriedInv, [Next]_vars, NEW a \in tried,
                      phase # "init", phase' = "init", cur' = a
               PROVE  FALSE
    BY DEF IInv
  <2>1. init_begin
    BY DEF Next, LoadStep, UnloadStep, set_override, manager_load, load_metadata_invalid,
           load_metadata, metadata_end, visit_skip, visit_disable, resolve_fails, init_succeeds,
           init_fails, pass_end, manager_unload, destroy_begin, destroy_end, unload_end,
           manager_free, vars
  <2>2. a = This /\ This \in enabled /\ This \notin loaded /\ phase = "pass"
    BY <2>1 DEF init_begin, Loadable, AtAddon, Skip, DepsLoaded
  <2>3. cur = None /\ a \in Addon
    BY <2>2 DEF TypeOK
  <2> QED BY <2>2, <2>3 DEF TriedInv
<1> QED BY <1>1, TypeCorrect, Inductive, PTL DEF Spec, InitAtMostOnce

(* A loaded frontend is found under the id its input contexts carry.       *)
THEOREM FrontendIdsAreExact == Spec => []FrontendIdsExact
<1>1. IInv => FrontendIdsExact
  BY DEF IInv, FrontendInv
<1> QED BY <1>1, Inductive, PTL

----------------------------------------------------------------------------
(***************************************************************************)
(* Why one pass without disabling is enough: an addon that was visited and *)
(* passed over waits for another one, and if that one is loaded later in   *)
(* the pass, it comes later in the dictionary.                             *)
(***************************************************************************)
Waits(a, l, d, as) ==
  a \in l \/ \E b \in d[a] : b \notin l \/ ~ \E i, j \in 1..Len(as) : i < j /\ as[i] = b /\ as[j] = a

PassInv ==
  /\ \A i, j \in 1..Len(addons) : addons[i] = addons[j] => i = j
  /\ phase = "init" => pos \in 1..Len(addons) /\ cur = addons[pos]
  /\ phase \in {"pass", "init"} /\ ~update =>
       \A k \in 1..Len(addons) : k < pos /\ addons[k] \in enabled => Waits(addons[k], loaded, deps, addons)
  /\ phase = "ready" =>
       \A k \in 1..Len(addons) : addons[k] \in enabled => Waits(addons[k], loaded, deps, addons)

(* What was visited goes on waiting when the addon visited now is loaded.  *)
LEMMA VisitedWaits ==
  ASSUME TypeOK, PassInv, phase \in {"pass", "init"}, pos \in 1..Len(addons), phase' = "pass", pos' = pos + 1,
         UNCHANGED <<update, addons, deps>>, enabled' \subseteq enabled,
         loaded' = loaded \/ loaded' = loaded \cup {addons[pos]},
         addons[pos] \in enabled' => Waits(addons[pos], loaded', deps, addons)
  PROVE  PassInv'
<1>1. ASSUME ~update, NEW k \in 1..Len(addons), k < pos + 1, addons[k] \in enabled'
      PROVE  Waits(addons[k], loaded', deps, addons)
  <2>1. CASE k = pos
    BY <1>1, <2>1
  <2>2. CASE k # pos
    <3>1. k < pos /\ addons[k] \in enabled
      BY <1>1, <2>2
    <3>2. Waits(addons[k], loaded, deps, addons)
      BY <1>1, <3>1 DEF PassInv
    <3>3. ~ \E i, j \in 1..Len(addons) : i < j /\ addons[i] = addons[pos] /\ addons[j] = addons[k]
      <4> SUFFICES ASSUME NEW i \in 1..Len(addons), NEW j \in 1..Len(addons), i < j,
                          addons[i] = addons[pos], addons[j] = addons[k]
                   PROVE  FALSE
        OBVIOUS
      <4>1. i = pos /\ j = k
        BY DEF PassInv
      <4> QED BY <3>1, <4>1
    <3> QED BY <3>2, <3>3 DEF Waits
  <2> QED BY <2>1, <2>2
<1> QED BY <1>1 DEF PassInv

LEMMA PassStep == ASSUME TypeOK, PassInv, [Next]_vars PROVE PassInv'
<1> USE DEF loadVars, instVars
<1>1. CASE (\E o \in Override : set_override(o)) \/ manager_load \/ load_metadata_invalid
  BY <1>1 DEF set_override, manager_load, load_metadata_invalid, AtFile, PassInv
<1>2. ASSUME NEW conf \in BOOLEAN, NEW d \in SUBSET Addon, load_metadata(conf, d) PROVE PassInv'
  <2> DEFINE a == Files[pos]
  <2>1. /\ phase = "metadata" /\ phase' = phase
        /\ addons' = IF Contains(addons, a) THEN addons ELSE Append(addons, a)
    BY <1>2 DEF load_metadata, AtFile
  <2>2. a \in Addon
    BY <1>2 DEF load_metadata, AtFile, TypeOK
  <2> HIDE DEF a
  <2>3. CASE Contains(addons, a)
    BY <2>1, <2>3 DEF PassInv
  <2>4. CASE ~Contains(addons, a)
    <3>1. \A k \in 1..Len(addons) : addons[k] # a
      BY <2>4 DEF Contains
    <3>2. /\ Len(addons) \in Nat /\ Len(addons') = Len(addons) + 1 /\ addons'[Len(addons) + 1] = a
          /\ \A k \in 1..Len(addons) : addons'[k] = addons[k]
      BY <2>1, <2>2, <2>4 DEF TypeOK
    <3>3. \A k \in 1..Len(addons') : k = Len(addons) + 1 \/ k \in 1..Len(addons)
      BY <3>2
    <3>4. \A i, j \in 1..Len(addons') : addons'[i] = addons'[j] => i = j
      BY <3>1, <3>2, <3>3 DEF PassInv
    <3> QED BY <2>1, <3>4 DEF PassInv
  <2> QED BY <2>3, <2>4
<1>3. CASE metadata_end
  BY <1>3 DEF metadata_end, PassInv
<1>4. CASE visit_skip
  <2>1. /\ phase = "pass" /\ phase' = phase /\ pos \in 1..Len(addons) /\ pos' = pos + 1
        /\ UNCHANGED <<update, addons, deps, enabled, loaded>>
    BY <1>4 DEF visit_skip, AtAddon, TypeOK
  <2>2. addons[pos] \in enabled => Waits(addons[pos], loaded, deps, addons)
    BY <1>4 DEF visit_skip, Skip, This, DepsLoaded, Waits
  <2> QED BY <2>1, <2>2, VisitedWaits
<1>5. CASE visit_disable
  BY <1>5 DEF visit_disable, AtAddon, PassInv
<1>6. CASE resolve_fails
  <2>1. /\ phase = "pass" /\ phase' = phase /\ pos \in 1..Len(addons) /\ pos' = pos + 1
        /\ UNCHANGED <<update, addons, deps, loaded>> /\ enabled' = enabled \ {addons[pos]}
    BY <1>6 DEF resolve_fails, Loadable, AtAddon, Disable, This, TypeOK
  <2> QED BY <2>1, VisitedWaits
<1>7. CASE init_begin
  <2>1. /\ phase = "pass" /\ phase' = "init" /\ pos \in 1..Len(addons) /\ cur' = addons[pos]
        /\ UNCHANGED <<pos, update, addons, deps, enabled, loaded>>
    BY <1>7 DEF init_begin, Loadable, AtAddon, This, TypeOK
  <2> QED BY <2>1 DEF PassInv
<1>8. CASE init_succeeds
  <2>1. /\ phase = "init" /\ phase' = "pass" /\ pos' = pos + 1 /\ loaded' = loaded \cup {cur}
        /\ UNCHANGED <<update, addons, deps, enabled>>
    BY <1>8 DEF init_succeeds
  <2>2. pos \in 1..Len(addons) /\ cur = addons[pos]
    BY <2>1 DEF PassInv
  <2>3. Waits(addons[pos], loaded', deps, addons)
    BY <2>1, <2>2 DEF Waits
  <2> QED BY <2>1, <2>2, <2>3, VisitedWaits
<1>9. CASE init_fails
  <2>1. /\ phase = "init" /\ phase' = "pass" /\ pos' = pos + 1 /\ enabled' = enabled \ {cur}
        /\ UNCHANGED <<update, addons, deps, loaded>>
    BY <1>9 DEF init_fails, Disable
  <2>2. pos \in 1..Len(addons) /\ cur = addons[pos]
    BY <2>1 DEF PassInv
  <2> QED BY <2>1, <2>2, VisitedWaits
<1>10. CASE pass_end
  <2>1. /\ phase = "pass" /\ pos > Len(addons) /\ phase' = IF update THEN "pass" ELSE "ready"
        /\ pos' = 1 /\ UNCHANGED <<addons, deps, enabled, loaded>>
    BY <1>10 DEF pass_end, Again
  <2>2. pos \in Nat /\ Len(addons) \in Nat /\ update \in BOOLEAN
    BY DEF TypeOK
  <2>3. \A k \in 1..Len(addons) : k < pos /\ ~(k < 1)
    BY <2>1, <2>2
  <2>4. CASE update
    BY <2>1, <2>3, <2>4 DEF PassInv
  <2>5. CASE ~update
    BY <2>1, <2>3, <2>5 DEF PassInv
  <2> QED BY <2>4, <2>5
<1>11. CASE manager_unload \/ UnloadStep
  BY <1>11 DEF manager_unload, UnloadStep, destroy_begin, destroy_end, unload_end, PassInv
<1>12. CASE manager_free
  <2>1. Len(<<>>) = 0 /\ addons' = <<>> /\ phase' = "freed"
    BY <1>12 DEF manager_free
  <2> QED BY <2>1 DEF PassInv
<1>13. CASE UNCHANGED vars
  BY <1>13 DEF vars, PassInv
<1> QED
  BY <1>1, <1>2, <1>3, <1>4, <1>5, <1>6, <1>7, <1>8, <1>9, <1>10, <1>11, <1>12, <1>13 DEF Next, LoadStep

(* When the manager is done, what is enabled and not loaded waits for an   *)
(* addon that is not loaded or comes after it (addon.c:423-454).           *)
THEOREM OrderAloneKeepsOut == Spec => []OnlyOrderKeepsOut
<1>1. Init => PassInv
  <2>1. Len(<<>>) = 0
    OBVIOUS
  <2> QED BY <2>1 DEF Init, PassInv
<1>2. TypeOK /\ PassInv /\ [Next]_vars => PassInv'
  BY PassStep
<1>3. TypeOK /\ PassInv => OnlyOrderKeepsOut
  <2> SUFFICES ASSUME TypeOK, PassInv, phase = "ready", NEW a \in ToSet(addons) \cap enabled
               PROVE  a \in loaded \/ \E d \in deps[a] : d \notin loaded \/ ~Before(d, a)
    BY DEF OnlyOrderKeepsOut
  <2>1. PICK k \in 1..Len(addons) : a = addons[k]
    BY DEF ToSet, TypeOK
  <2> QED BY <2>1 DEF PassInv, Waits, Before
<1> QED BY <1>1, <1>2, <1>3, TypeCorrect, PTL DEF Spec
=============================================================================
