------------------------------ MODULE SharedState ------------------------------
(***************************************************************************)
(* The properties of input contexts and the policy that shares them        *)
(* (lib/fcitx/inputcontext.c).  Every context has one value per slot.  A   *)
(* policy on a slot links the contexts whose value gives the same key, for *)
(* instance the same application name, on a list found through a           *)
(* dictionary.  Under the manager's policy, what is set on one context of  *)
(* a list is copied to the others by the slot's copy callback.  The only   *)
(* one in the program is that of inputMethodState (instance.c).            *)
(*                                                                         *)
(* A list is the set of the contexts linked on it: the copy to its members *)
(* does not depend on their order.                                         *)
(***************************************************************************)
EXTENDS FiniteSets

CONSTANTS
  Context,     \* input contexts
  Value,       \* a string, which is also its key, or what a local list holds
  NoValue,     \* NULL: no value, and the key of length 0
  NoList,      \* an input method state without a local list
  PolicySlot,  \* slots a policy may be created for
  CopySlot,    \* slots registered with a copyProperty callback
  NoSlot       \* no policy is set on the manager

Slot == PolicySlot \cup CopySlot

ASSUME SlotAssumption ==
  \* as registered in fcitx_instance_run: appName has the policy and no copy
  \* callback, inputMethodState has the copy callback and no policy
  /\ PolicySlot \cap CopySlot = {}
  /\ NoSlot \notin Slot

ASSUME ValueAssumption ==
  /\ NoValue \notin Value
  /\ NoList \notin Value \cup {NoValue}

\* programs open input contexts
ASSUME ContextAssumption == Context # {}

VARIABLES
  live,      \* the contexts that exist
  data,      \* property->data, per context and slot; in a copied slot the state:
             \* NoValue, NoList, or what its local list holds
  head,      \* property->head, as the key whose list it is; NoValue if not linked
  policies,  \* the slots that have a policy
  policy,    \* manager->policy, as the slot it is for
  dict,      \* policy->propertyDict, as the keys that have a list
  linked     \* the contexts on each list

sharingVars == <<live, data, head, policies, policy, dict, linked>>

SharingInit ==
  /\ live = {}
  /\ data = [i \in Context |-> [s \in Slot |-> NoValue]]
  /\ head = [i \in Context |-> [s \in PolicySlot |-> NoValue]]
  /\ policies = {}
  /\ policy = NoSlot
  /\ dict = [s \in PolicySlot |-> {}]
  /\ linked = [s \in PolicySlot |-> [k \in Value |-> {}]]

----------------------------------------------------------------------------
input_context_new(i) ==
  /\ i \notin live
  /\ live' = live \cup {i}
  /\ UNCHANGED <<data, head, policies, policy, dict, linked>>

shared_state_policy_new(s) ==
  /\ s \notin policies
  /\ policies' = policies \cup {s}
  /\ UNCHANGED <<live, data, head, policy, dict, linked>>

set_shared_state_policy(s) ==
  /\ s \in policies
  /\ policy' = s
  /\ UNCHANGED <<live, data, head, policies, dict, linked>>

----------------------------------------------------------------------------
(***************************************************************************)
(* Leaving a list: the property is unlinked, and when nobody is left on    *)
(* the list, the entry of the key of the property's data is removed.       *)
(***************************************************************************)
LinkedAfterLeave(i, s) ==
  [linked[s] EXCEPT ![head[i][s]] = @ \ {i}]

\* Plausible bug: the entry goes with the first context that leaves.
DictAfterFirstLeave(i, s) == dict[s] \ {data[i][s]}

DictAfterLeave(i, s) ==
  IF head[i][s] # NoValue /\ linked[s][head[i][s]] \ {i} = {}
  THEN dict[s] \ {data[i][s]}
  ELSE dict[s]

(* Joining the list of the key of v; there is none for a key of length 0.  *)
DictAfterJoin(d, v) == IF v = NoValue THEN d ELSE d \cup {v}

LinkedAfterSet(i, s, v) ==
  LET left == IF head[i][s] = NoValue THEN linked[s] ELSE LinkedAfterLeave(i, s)
  IN  IF v = NoValue THEN left ELSE [left EXCEPT ![v] = @ \cup {i}]

(***************************************************************************)
(* Once the value is set and the lists are up to date, the other contexts  *)
(* on the list of the manager's policy get copies: of every slot when the  *)
(* key itself was set, else of the slot that was set.                      *)
(***************************************************************************)
\* Plausible bug: the copy goes to every context.
PeersAreAll(i, hd, lk) == live \ {i}

Peers(i, hd, lk) ==
  IF policy = NoSlot \/ hd[i][policy] = NoValue THEN {} ELSE lk[policy][hd[i][policy]] \ {i}

\* Plausible bug: joining a list copies nothing, as if only the set slot mattered.
CopyRangeOfSlot(s) == {s} \cap CopySlot

CopyRange(s) == IF s = policy THEN CopySlot ELSE {s} \cap CopySlot

(***************************************************************************)
(* The callbacks of inputMethodState.  An update of the local list creates *)
(* it if need be, and v is what the list holds then; any other update, with*)
(* v = NoValue, goes to the list of the instance and only creates the      *)
(* state.  The copy gives the destination a local list if the source has   *)
(* one and takes it away if it has none, but never overwrites one.         *)
(***************************************************************************)
StateSet(state, v) ==
  CASE v # NoValue -> v
    [] v = NoValue /\ state = NoValue -> NoList
    [] OTHER -> state

StateCopy(dst, src) == IF src \in Value /\ dst \in Value THEN dst ELSE src

SetProperty(s, old, v) == IF s \in CopySlot THEN StateSet(old, v) ELSE v

DataAfterSet(i, s, v, peers) ==
  LET source == [data[i] EXCEPT ![s] = SetProperty(s, @, v)]
  IN  [j \in Context |->
         IF j = i THEN source
         ELSE [t \in Slot |-> IF j \in peers /\ t \in CopyRange(s)
                              THEN StateCopy(data[j][t], source[t]) ELSE data[j][t]]]

input_context_set_property(i, s, v) ==
  /\ i \in live
  /\ IF s \in policies
     THEN /\ dict' = [dict EXCEPT ![s] = DictAfterJoin(DictAfterLeave(i, s), v)]
          /\ linked' = [linked EXCEPT ![s] = LinkedAfterSet(i, s, v)]
          /\ head' = [head EXCEPT ![i][s] = v]
     ELSE UNCHANGED <<dict, linked, head>>
  /\ data' = DataAfterSet(i, s, v, Peers(i, head', linked'))
  /\ UNCHANGED <<live, policies, policy>>

(* Destroying a context frees its properties, slot by slot.                *)
input_context_destroy(i) ==
  /\ i \in live
  /\ live' = live \ {i}
  /\ dict' = [s \in PolicySlot |-> DictAfterLeave(i, s)]
  /\ linked' = [s \in PolicySlot |-> [k \in Value |->
                  IF k = head[i][s] THEN linked[s][k] \ {i} ELSE linked[s][k]]]
  /\ head' = [head EXCEPT ![i] = [s \in PolicySlot |-> NoValue]]
  /\ data' = [data EXCEPT ![i] = [s \in Slot |-> NoValue]]
  /\ UNCHANGED <<policies, policy>>

----------------------------------------------------------------------------
SharingNext ==
  \/ \E i \in Context : input_context_new(i) \/ input_context_destroy(i)
  \/ \E s \in PolicySlot : shared_state_policy_new(s) \/ set_shared_state_policy(s)
  \/ \E i \in Context, s \in Slot, v \in Value \cup {NoValue} : input_context_set_property(i, s, v)

SharingSpec == SharingInit /\ [][SharingNext]_sharingVars

----------------------------------------------------------------------------
(* The types of the properties, the lists and the dictionaries.            *)
SharingTypes ==
  /\ live \in SUBSET Context
  /\ data \in [Context -> [Slot -> Value \cup {NoValue, NoList}]]
  /\ head \in [Context -> [PolicySlot -> Value \cup {NoValue}]]
  /\ policies \in SUBSET PolicySlot
  /\ policy \in policies \cup {NoSlot}
  /\ dict \in [PolicySlot -> SUBSET Value]
  /\ linked \in [PolicySlot -> [Value -> SUBSET Context]]

(* The lists are exactly the contexts that point to them, a linked context *)
(* has the value whose key found the list, and a list is in the dictionary *)
(* as long as somebody is on it, and no longer: property->head never       *)
(* points to a list head the dictionary has freed, and none is leaked.     *)
ListsExact ==
  /\ \A s \in PolicySlot, k \in Value : linked[s][k] = {i \in Context : head[i][s] = k}
  /\ \A i \in Context, s \in PolicySlot :
       head[i][s] # NoValue => i \in live /\ s \in policies /\ data[i][s] = head[i][s]
  /\ \A s \in PolicySlot : dict[s] = {k \in Value : linked[s][k] # {}}

Together(i, j) ==
  policy # NoSlot /\ head[i][policy] = head[j][policy] /\ head[i][policy] # NoValue

(* Both have no state, both a state without a local list, or both a list.  *)
SameKind(i, j, t) == data[i][t] = data[j][t] \/ {data[i][t], data[j][t]} \subseteq Value

(* Sharing converges: while the manager's policy stays the same, two       *)
(* contexts on one of its lists have a state, and a local list in it,      *)
(* either both or neither, from the moment they come together, or from the *)
(* first time they do, for as long as they stay together; and their local  *)
(* lists come into being equal.  What the lists hold later may differ: the *)
(* copy leaves an existing list as it is.                                  *)
SharingConverges ==
  [][policy' = policy =>
       \A i, j \in Context, t \in CopySlot :
         Together(i, j)' /\ (Together(i, j) => SameKind(i, j, t)) =>
           /\ SameKind(i, j, t)'
           /\ {data[i][t], data[j][t]} \cap Value = {} => data'[i][t] = data'[j][t]]_sharingVars

(* State is shared with the contexts of the same list only: a step changes *)
(* one context, and beyond it only shared slots of contexts that are on    *)
(* the same list of the manager's policy.                                  *)
SharingStaysOnTheList ==
  [][\E i \in Context : \A j \in Context \ {i}, t \in Slot :
       data'[j][t] = data[j][t] \/ (t \in CopySlot /\ Together(i, j)')]_sharingVars
=============================================================================
