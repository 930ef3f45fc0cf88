---------------------------- MODULE Instance_proofs ----------------------------
(***************************************************************************)
(* Proofs about the instance: the life of fcitx processes, for any number  *)
(* of them and any number of signals; and the policies fcitx_instance_run  *)
(* sets up to share state between contexts, for any number of contexts,    *)
(* values and slots.                                                       *)
(***************************************************************************)
EXTENDS Instance, SharedState, TLAPS

(* A process that is in its main loop, or about to enter it, has set       *)
(* running, so that a shutdown makes the loop quit; before that it has not.*)
RunningExact ==
  \A p \in Proc :
    /\ pc[p] \in {"enter", "loop"} => running[p]
    /\ pc[p] \in {"main", "connect", "request", "loaded"} => ~running[p]

(* Only a failed request for the name asks for a shutdown before the loop  *)
(* runs, and it leaves the process without a connection.                   *)
EarlyShutdown ==
  \A p \in Proc : pc[p] \in {"main", "connect", "request", "enter"} => ~shutdown[p]

(* Nobody is connected before the D-Bus module has run or after the end,   *)
(* and who asks for the name is.                                           *)
ConnectionKnown ==
  \A p \in Proc :
    /\ pc[p] \in {"main", "connect", "exited"} => p \notin conn
    /\ pc[p] = "request" => p \in conn

IInv == TypeOK /\ RunningExact /\ EarlyShutdown /\ ConnectionKnown /\ ShutdownIsKept /\ OneStays

USE InstanceAssumption DEF At, Goto, flags, busVars

LEMMA InitHolds == Init => IInv
BY DEF Init, IInv, TypeOK, RunningExact, EarlyShutdown, ConnectionKnown, ShutdownIsKept, OneStays

(* Steps that touch neither the bus nor the flags of shutdown.             *)
LEMMA StartHolds ==
  ASSUME IInv, NEW p \in Proc,
         instance_new(p) \/ bus_get(p) \/ bus_get_fails(p) \/ dbus_fails(p) \/ request_name_again(p)
           \/ instance_run(p) \/ mainloop_run(p) \/ mainloop_returns(p)
  PROVE  IInv'
<1> USE DEF IInv, TypeOK, RunningExact, EarlyShutdown, ConnectionKnown, ShutdownIsKept, OneStays
<1>1. CASE instance_new(p) BY <1>1 DEF instance_new
<1>2. CASE bus_get(p) BY <1>2 DEF bus_get
<1>3. CASE bus_get_fails(p) BY <1>3 DEF bus_get_fails
<1>4. CASE dbus_fails(p) BY <1>4 DEF dbus_fails
<1>5. CASE request_name_again(p) BY <1>5 DEF request_name_again, MoreTries
<1>6. CASE instance_run(p) BY <1>6 DEF instance_run, MayEnter
<1>7. CASE mainloop_run(p) BY <1>7 DEF mainloop_run
<1>8. CASE mainloop_returns(p) BY <1>8 DEF mainloop_returns
<1> QED BY <1>1, <1>2, <1>3, <1>4, <1>5, <1>6, <1>7, <1>8

(* Steps that decide who owns the name.                                    *)
LEMMA NameHolds ==
  ASSUME IInv, NEW p \in Proc,
         request_name(p) \/ request_name_fails(p) \/ dbus_filter_name_lost(p) \/ instance_destroy(p)
  PROVE  IInv'
<1> USE DEF IInv, TypeOK, RunningExact, EarlyShutdown, ConnectionKnown, ShutdownIsKept, OneStays
<1>1. CASE request_name(p)
  <2>1. p \in conn' /\ owner' = p /\ conn' = conn
    BY <1>1 DEF request_name
  <2>2. TypeOK'
    BY <1>1, <2>1 DEF request_name
  <2>3. RunningExact' /\ EarlyShutdown' /\ ConnectionKnown' /\ ShutdownIsKept'
    BY <1>1 DEF request_name
  <2>4. OneStays'
    BY <1>1, <2>1 DEF request_name
  <2> QED BY <2>2, <2>3, <2>4
<1>2. CASE request_name_fails(p) BY <1>2 DEF request_name_fails, MoreTries, instance_shutdown, Leave
<1>3. CASE dbus_filter_name_lost(p)
  BY <1>3 DEF dbus_filter_name_lost, OnNameLost, instance_shutdown
<1>4. CASE instance_destroy(p) BY <1>4 DEF instance_destroy, Leave
<1> QED BY <1>1, <1>2, <1>3, <1>4

(* Signals, and what else ends a process from outside.                     *)
LEMMA SignalHolds ==
  ASSUME IInv, NEW p \in Proc, NEW sig \in {"term", "hup", "abort"},
         handle_signal(p) \/ dbus_exit(p) \/ OnException(p, sig) \/ OnExceptionExits(p, sig)
  PROVE  IInv'
<1> USE DEF IInv, TypeOK, RunningExact, EarlyShutdown, ConnectionKnown, ShutdownIsKept, OneStays
<1>1. CASE handle_signal(p)
  <2>1. pipe' \in [Proc -> Seq({"term", "hup"})]
    <3>1. <<>> \in Seq({"term", "hup"})
      OBVIOUS
    <3> QED BY <1>1, <3>1 DEF handle_signal
  <2>2. CASE TermInPipe(p)
    <3>1. TypeOK'
      BY <1>1, <2>1, <2>2 DEF handle_signal, instance_shutdown
    <3>2. RunningExact' /\ EarlyShutdown'
      BY <1>1, <2>2 DEF handle_signal, instance_shutdown
    <3>3. ConnectionKnown' /\ ShutdownIsKept' /\ OneStays'
      BY <1>1, <2>2 DEF handle_signal, instance_shutdown
    <3> QED BY <3>1, <3>2, <3>3
  <2>3. CASE ~TermInPipe(p) BY <1>1, <2>1, <2>3 DEF handle_signal
  <2> QED BY <2>2, <2>3
<1>2. CASE dbus_exit(p) BY <1>2 DEF dbus_exit, instance_shutdown
<1>3. CASE OnException(p, sig)
  BY <1>3 DEF OnException, Signalled, Alive, HasInstance
<1>4. CASE OnExceptionExits(p, sig)
  BY <1>4 DEF OnExceptionExits, Signalled, Alive, HasInstance, Leave
<1> QED BY <1>1, <1>2, <1>3, <1>4

LEMMA NextHolds == IInv /\ [Next]_vars => IInv'
<1> SUFFICES ASSUME IInv, [Next]_vars PROVE IInv'
  OBVIOUS
<1>1. ASSUME NEW p \in Proc, Start(p) \/ Stop(p) PROVE IInv'
  BY <1>1, StartHolds, NameHolds DEF Start, Stop
<1>2. ASSUME NEW p \in Proc, handle_signal(p) \/ dbus_filter_name_lost(p) \/ dbus_exit(p) PROVE IInv'
  BY <1>2, NameHolds, SignalHolds
<1>3. ASSUME NEW p \in Proc, NEW sig \in {"term", "hup", "abort"},
             OnException(p, sig) \/ OnExceptionExits(p, sig)
      PROVE  IInv'
  BY <1>3, SignalHolds
<1>4. CASE OtherLeaves
  BY <1>4 DEF OtherLeaves, IInv, TypeOK, RunningExact, EarlyShutdown, ConnectionKnown, ShutdownIsKept, OneStays
<1>5. CASE UNCHANGED vars
  BY <1>5 DEF vars, IInv, TypeOK, RunningExact, EarlyShutdown, ConnectionKnown, ShutdownIsKept, OneStays
<1> QED BY <1>1, <1>2, <1>3, <1>4, <1>5 DEF Next

LEMMA Inductive == Spec => []IInv
BY InitHolds, NextHolds, PTL DEF Spec

(* The state of every process keeps its type: the countdown of             *)
(* fcitx_dbus_init does not go below zero, and only connected processes    *)
(* own the name or wait for NameLost.                                      *)
THEOREM TypeCorrect == Spec => []TypeOK
BY Inductive, PTL DEF IInv

(* fcitx_instance_shutdown is never forgotten, not even when the D-Bus     *)
(* module calls it while addons load, before there is a loop to quit.      *)
THEOREM ShutdownIsNeverForgotten == Spec => []ShutdownIsKept
BY Inductive, PTL DEF IInv

(* Of any number of processes that start, replace each other and end in    *)
(* any order, all but the owner of org.fcitx.Fcitx know that they must end,*)
(* or NameLost is on its way to them.                                      *)
THEOREM AtMostOneStays == Spec => []OneStays
BY Inductive, PTL DEF IInv

----------------------------------------------------------------------------
(***************************************************************************)
(* The state that contexts share.                                          *)
(***************************************************************************)
HIDE InstanceAssumption DEF At, Goto, flags, busVars
USE SlotAssumption, ValueAssumption

LEMMA LinkTypes ==
  ASSUME SharingTypes, NEW i \in Context, NEW s \in PolicySlot, NEW v \in Value \cup {NoValue}
  PROVE  /\ DictAfterJoin(DictAfterLeave(i, s), v) \in SUBSET Value
         /\ LinkedAfterSet(i, s, v) \in [Value -> SUBSET Context]
<1>1. DictAfterLeave(i, s) \in SUBSET Value
  BY DEF DictAfterLeave, SharingTypes
<1>2. DictAfterJoin(DictAfterLeave(i, s), v) \in SUBSET Value
  BY <1>1 DEF DictAfterJoin
<1>3. LinkedAfterSet(i, s, v) \in [Value -> SUBSET Context]
  BY DEF LinkedAfterSet, LinkedAfterLeave, SharingTypes
<1> QED BY <1>2, <1>3

(* Setting a value gives every slot a value, whoever gets the copies.      *)
LEMMA SetDataType ==
  ASSUME SharingTypes, NEW i \in Context, NEW s \in Slot, NEW v \in Value \cup {NoValue}, NEW peers
  PROVE  DataAfterSet(i, s, v, peers) \in [Context -> [Slot -> Value \cup {NoValue, NoList}]]
<1> DEFINE source == [data[i] EXCEPT ![s] = SetProperty(s, data[i][s], v)]
<1>1. data[i] \in [Slot -> Value \cup {NoValue, NoList}]
  BY DEF SharingTypes
<1>2. SetProperty(s, data[i][s], v) \in Value \cup {NoValue, NoList}
  BY <1>1 DEF SetProperty, StateSet
<1>3. source \in [Slot -> Value \cup {NoValue, NoList}]
  BY <1>1, <1>2
<1>4. DataAfterSet(i, s, v, peers) =
        [j \in Context |->
           IF j = i THEN source
           ELSE [t \in Slot |-> IF j \in peers /\ t \in CopyRange(s)
                                THEN StateCopy(data[j][t], source[t]) ELSE data[j][t]]]
  BY DEF DataAfterSet
<1> HIDE DEF source
<1>5. \A j \in Context, t \in Slot : StateCopy(data[j][t], source[t]) \in Value \cup {NoValue, NoList}
  BY <1>3 DEF StateCopy, SharingTypes
<1> QED BY <1>3, <1>4, <1>5 DEF SharingTypes

(* No operation stores anything but a value, a key or a set of contexts    *)
(* where the code expects one, and the manager's policy is one of the      *)
(* policies that were created.                                             *)
THEOREM SharingTypeCorrect == SharingSpec => []SharingTypes
<1>1. SharingInit => SharingTypes
  BY DEF SharingInit, SharingTypes
<1>2. SharingTypes /\ [SharingNext]_sharingVars => SharingTypes'
  <2> SUFFICES ASSUME SharingTypes, [SharingNext]_sharingVars PROVE SharingTypes'
    OBVIOUS
  <2>1. ASSUME NEW i \in Context, input_context_new(i) PROVE SharingTypes'
    BY <2>1 DEF input_context_new, SharingTypes
  <2>2. ASSUME NEW i \in Context, input_context_destroy(i) PROVE SharingTypes'
    <3>1. dict' \in [PolicySlot -> SUBSET Value]
      BY <2>2 DEF input_context_destroy, DictAfterLeave, SharingTypes
    <3>2. linked' \in [PolicySlot -> [Value -> SUBSET Context]]
      BY <2>2 DEF input_context_destroy, SharingTypes
    <3>3. head' \in [Context -> [PolicySlot -> Value \cup {NoValue}]]
      BY <2>2 DEF input_context_destroy, SharingTypes
    <3>4. data' \in [Context -> [Slot -> Value \cup {NoValue, NoList}]]
      BY <2>2 DEF input_context_destroy, SharingTypes
    <3> QED BY <2>2, <3>1, <3>2, <3>3, <3>4 DEF input_context_destroy, SharingTypes
  <2>3. ASSUME NEW s \in PolicySlot, shared_state_policy_new(s) PROVE SharingTypes'
    BY <2>3 DEF shared_state_policy_new, SharingTypes
  <2>4. ASSUME NEW s \in PolicySlot, set_shared_state_policy(s) PROVE SharingTypes'
    BY <2>4 DEF set_shared_state_policy, SharingTypes
  <2>5. ASSUME NEW i \in Context, NEW s \in Slot, NEW v \in Value \cup {NoValue},
               input_context_set_property(i, s, v)
        PROVE  SharingTypes'
    <3>1. data' \in [Context -> [Slot -> Value \cup {NoValue, NoList}]]
      BY <2>5, SetDataType DEF input_context_set_property
    <3>2. CASE s \in policies
      <4>1. s \in PolicySlot
        BY <3>2 DEF SharingTypes
      <4> DEFINE d == DictAfterJoin(DictAfterLeave(i, s), v)
                 l == LinkedAfterSet(i, s, v)
      <4>5. d \in SUBSET Value /\ l \in [Value -> SUBSET Context]
        BY <4>1, LinkTypes
      <4>6. /\ dict' = [dict EXCEPT ![s] = d]
            /\ linked' = [linked EXCEPT ![s] = l]
            /\ head' = [head EXCEPT ![i][s] = v]
        BY <2>5, <3>2 DEF input_context_set_property
      <4> HIDE DEF d, l
      <4>2. dict' \in [PolicySlot -> SUBSET Value]
        BY <4>5, <4>6 DEF SharingTypes
      <4>3. linked' \in [PolicySlot -> [Value -> SUBSET Context]]
        BY <4>5, <4>6 DEF SharingTypes
      <4>4. head' \in [Context -> [PolicySlot -> Value \cup {NoValue}]]
        <5>1. head[i] \in [PolicySlot -> Value \cup {NoValue}]
          BY DEF SharingTypes
        <5>2. [head[i] EXCEPT ![s] = v] \in [PolicySlot -> Value \cup {NoValue}]
          BY <4>1, <5>1
        <5> QED BY <4>6, <5>2 DEF SharingTypes
      <4> QED BY <2>5, <3>1, <4>2, <4>3, <4>4 DEF input_context_set_property, SharingTypes
    <3>3. CASE s \notin policies
      BY <2>5, <3>1, <3>3 DEF input_context_set_property, SharingTypes
    <3> QED BY <3>2, <3>3
  <2>6. CASE UNCHANGED sharingVars
    BY <2>6 DEF sharingVars, SharingTypes
  <2> QED BY <2>1, <2>2, <2>3, <2>4, <2>5, <2>6 DEF SharingNext
<1> QED BY <1>1, <1>2, PTL DEF SharingSpec

----------------------------------------------------------------------------
(* Setting a value moves one context between the lists of one slot.        *)
LEMMA SetKeepsLists ==
  ASSUME SharingTypes, ListsExact, NEW i \in Context, NEW s \in Slot, NEW v \in Value \cup {NoValue},
         input_context_set_property(i, s, v)
  PROVE  ListsExact'
<1>1. \A j \in Context, t \in PolicySlot :
        data'[j][t] = IF j = i /\ t = s THEN v ELSE data[j][t]
  BY DEF input_context_set_property, DataAfterSet, SetProperty, CopyRange, Slot, SharingTypes
<1>2. CASE s \notin policies
  <2>1. UNCHANGED <<dict, linked, head, policies, live>>
    BY <1>2 DEF input_context_set_property
  <2>2. head[i][s] = NoValue \/ s \notin PolicySlot
    BY <1>2 DEF ListsExact
  <2> QED BY <1>1, <2>1, <2>2 DEF ListsExact
<1>3. CASE s \in policies
  <2>1. s \in PolicySlot
    BY <1>3 DEF SharingTypes
  <2>2. /\ dict' = [dict EXCEPT ![s] = DictAfterJoin(DictAfterLeave(i, s), v)]
        /\ linked' = [linked EXCEPT ![s] = LinkedAfterSet(i, s, v)]
        /\ head' = [head EXCEPT ![i][s] = v]
        /\ UNCHANGED <<live, policies>> /\ i \in live
    BY <1>3 DEF input_context_set_property
  <2>3. \A j \in Context, t \in PolicySlot :
          head'[j][t] = IF j = i /\ t = s THEN v ELSE head[j][t]
    BY <2>1, <2>2 DEF SharingTypes
  <2>4. \A k \in Value : LinkedAfterSet(i, s, v)[k] =
          IF k = v THEN linked[s][k] \cup {i} ELSE linked[s][k] \ {i}
    <3>1. \A k \in Value : k # head[i][s] => i \notin linked[s][k]
      BY <2>1 DEF ListsExact
    <3> DEFINE left == IF head[i][s] = NoValue THEN linked[s] ELSE LinkedAfterLeave(i, s)
    <3>2. linked[s] \in [Value -> SUBSET Context] /\ head[i][s] \in Value \cup {NoValue}
      BY <2>1 DEF SharingTypes
    <3>3. left \in [Value -> SUBSET Context] /\ \A k \in Value : left[k] = linked[s][k] \ {i}
      <4>1. CASE head[i][s] = NoValue
        <5>1. \A k \in Value : i \notin linked[s][k]
          BY <3>1, <4>1
        <5> QED BY <3>2, <4>1, <5>1
      <4>2. CASE head[i][s] # NoValue
        <5>1. left = [linked[s] EXCEPT ![head[i][s]] = linked[s][head[i][s]] \ {i}]
          BY <4>2 DEF LinkedAfterLeave
        <5>2. \A k \in Value : k # head[i][s] => linked[s][k] = linked[s][k] \ {i}
          BY <3>1
        <5> HIDE DEF left
        <5> QED BY <3>2, <5>1, <5>2
      <4> QED BY <4>1, <4>2
    <3>4. LinkedAfterSet(i, s, v) = IF v = NoValue THEN left ELSE [left EXCEPT ![v] = left[v] \cup {i}]
      BY DEF LinkedAfterSet
    <3> HIDE DEF left
    <3>5. CASE v = NoValue
      BY <3>3, <3>4, <3>5
    <3>6. CASE v # NoValue
      <4>1. \A k \in Value : (linked[s][k] \ {i}) \cup {i} = linked[s][k] \cup {i}
        OBVIOUS
      <4> QED BY <3>3, <3>4, <3>6, <4>1
    <3> QED BY <3>5, <3>6
  <2>5. \A t \in PolicySlot, k \in Value : linked'[t][k] =
          IF t # s THEN linked[t][k]
          ELSE IF k = v THEN linked[s][k] \cup {i} ELSE linked[s][k] \ {i}
    BY <2>1, <2>2, <2>4 DEF SharingTypes
  <2>6. \A t \in PolicySlot, k \in Value : linked'[t][k] = {j \in Context : head'[j][t] = k}
    <3> SUFFICES ASSUME NEW t \in PolicySlot, NEW k \in Value
                 PROVE  \A j : j \in linked'[t][k] <=> j \in Context /\ head'[j][t] = k
      OBVIOUS
    <3>1. linked[t][k] = {j \in Context : head[j][t] = k}
      BY DEF ListsExact
    <3>2. CASE t # s
      <4>1. \A j \in Context : head'[j][t] = head[j][t]
        BY <2>3, <3>2
      <4>2. linked'[t][k] = linked[t][k]
        BY <2>5, <3>2
      <4> QED BY <3>1, <4>1, <4>2
    <3>3. CASE t = s
      <4>1. \A j \in Context : head'[j][t] = IF j = i THEN v ELSE head[j][t]
        BY <2>3, <3>3
      <4>2. linked'[t][k] = IF k = v THEN linked[t][k] \cup {i} ELSE linked[t][k] \ {i}
        BY <2>5, <3>3
      <4>3. CASE k = v
        BY <3>1, <4>1, <4>2, <4>3
      <4>4. CASE k # v
        BY <3>1, <4>1, <4>2, <4>4
      <4> QED BY <4>3, <4>4
    <3> QED BY <3>2, <3>3
  <2>7. \A j \in Context, t \in PolicySlot :
          head'[j][t] # NoValue => j \in live' /\ t \in policies' /\ data'[j][t] = head'[j][t]
    BY <1>1, <1>3, <2>1, <2>2, <2>3 DEF ListsExact
  <2>8. ASSUME NEW t \in PolicySlot PROVE dict'[t] = {k \in Value : linked'[t][k] # {}}
    <3>1. CASE t # s
      BY <2>2, <2>5, <3>1 DEF ListsExact, SharingTypes
    <3>2. CASE t = s
      <4>1. dict'[s] = DictAfterJoin(DictAfterLeave(i, s), v)
        BY <2>1, <2>2 DEF SharingTypes
      <4>2. dict[s] = {k \in Value : linked[s][k] # {}}
        BY <2>1 DEF ListsExact
      <4>3. DictAfterLeave(i, s) = {k \in Value : linked[s][k] \ {i} # {}}
        <5>1. CASE head[i][s] = NoValue
          <6>1. \A k \in Value : i \notin linked[s][k]
            BY <2>1, <5>1 DEF ListsExact
          <6> QED BY <4>2, <5>1, <6>1 DEF DictAfterLeave
        <5>2. CASE head[i][s] # NoValue
          <6>1. head[i][s] \in Value /\ data[i][s] = head[i][s]
            BY <2>1, <5>2 DEF ListsExact, SharingTypes
          <6>2. \A k \in Value : i \in linked[s][k] <=> k = head[i][s]
            BY <2>1 DEF ListsExact
          <6> QED BY <4>2, <5>2, <6>1, <6>2 DEF DictAfterLeave
        <5> QED BY <5>1, <5>2
      <4>4. \A k \in Value : linked'[s][k] # {} <=> k = v \/ linked[s][k] \ {i} # {}
        BY <2>1, <2>5
      <4> QED BY <3>2, <4>1, <4>3, <4>4 DEF DictAfterJoin
    <3> QED BY <3>1, <3>2
  <2> QED BY <2>6, <2>7, <2>8 DEF ListsExact
<1> QED BY <1>2, <1>3

LEMMA DestroyKeepsLists ==
  ASSUME SharingTypes, ListsExact, NEW i \in Context, input_context_destroy(i)
  PROVE  ListsExact'
<1>1. \A j \in Context, t \in PolicySlot : head'[j][t] = IF j = i THEN NoValue ELSE head[j][t]
  BY DEF input_context_destroy, SharingTypes
<1>2. \A t \in PolicySlot, k \in Value : linked'[t][k] = linked[t][k] \ {i}
  <2>1. \A t \in PolicySlot, k \in Value : linked'[t][k] =
          IF k = head[i][t] THEN linked[t][k] \ {i} ELSE linked[t][k]
    BY DEF input_context_destroy
  <2>2. \A t \in PolicySlot, k \in Value : k # head[i][t] => i \notin linked[t][k]
    BY DEF ListsExact
  <2> SUFFICES ASSUME NEW t \in PolicySlot, NEW k \in Value
               PROVE  linked'[t][k] = linked[t][k] \ {i}
    OBVIOUS
  <2>3. CASE k = head[i][t]
    BY <2>1, <2>3
  <2>4. CASE k # head[i][t]
    <3>1. linked[t][k] \ {i} = linked[t][k]
      BY <2>2, <2>4
    <3> QED BY <2>1, <2>4, <3>1
  <2> QED BY <2>3, <2>4
<1>3. \A t \in PolicySlot, k \in Value : linked'[t][k] = {j \in Context : head'[j][t] = k}
  BY <1>1, <1>2 DEF ListsExact
<1>4. \A j \in Context, t \in PolicySlot :
        head'[j][t] # NoValue => j \in live' /\ t \in policies' /\ data'[j][t] = head'[j][t]
  BY <1>1 DEF input_context_destroy, ListsExact, SharingTypes
<1>5. ASSUME NEW t \in PolicySlot PROVE dict'[t] = {k \in Value : linked'[t][k] # {}}
  <2>1. dict'[t] = DictAfterLeave(i, t)
    BY DEF input_context_destroy
  <2>2. dict[t] = {k \in Value : linked[t][k] # {}}
    BY DEF ListsExact
  <2>3. CASE head[i][t] = NoValue
    <3>1. \A k \in Value : i \notin linked[t][k]
      BY <2>3 DEF ListsExact
    <3> QED BY <1>2, <2>1, <2>2, <2>3, <3>1 DEF DictAfterLeave
  <2>4. CASE head[i][t] # NoValue
    <3>1. head[i][t] \in Value /\ data[i][t] = head[i][t]
      BY <2>4 DEF ListsExact, SharingTypes
    <3>2. \A k \in Value : i \in linked[t][k] <=> k = head[i][t]
      BY DEF ListsExact
    <3> QED BY <1>2, <2>1, <2>2, <2>4, <3>1, <3>2 DEF DictAfterLeave
  <2> QED BY <2>3, <2>4
<1> QED BY <1>3, <1>4, <1>5 DEF ListsExact

(* In every reachable state the policy lists, the head pointers of the     *)
(* properties and the dictionary agree: no property points to a list that  *)
(* was freed, and no empty list stays in the dictionary.                   *)
THEOREM ListsAreExact == SharingSpec => []ListsExact
<1>1. SharingInit => ListsExact
  BY DEF SharingInit, ListsExact
<1>2. SharingTypes /\ ListsExact /\ [SharingNext]_sharingVars => ListsExact'
  <2> SUFFICES ASSUME SharingTypes, ListsExact, [SharingNext]_sharingVars PROVE ListsExact'
    OBVIOUS
  <2>1. ASSUME NEW i \in Context, input_context_new(i) PROVE ListsExact'
    BY <2>1 DEF input_context_new, ListsExact
  <2>2. ASSUME NEW i \in Context, input_context_destroy(i) PROVE ListsExact'
    BY <2>2, DestroyKeepsLists
  <2>3. ASSUME NEW s \in PolicySlot, shared_state_policy_new(s) PROVE ListsExact'
    BY <2>3 DEF shared_state_policy_new, ListsExact
  <2>4. ASSUME NEW s \in PolicySlot, set_shared_state_policy(s) PROVE ListsExact'
    BY <2>4 DEF set_shared_state_policy, ListsExact
  <2>5. ASSUME NEW i \in Context, NEW s \in Slot, NEW v \in Value \cup {NoValue},
               input_context_set_property(i, s, v)
        PROVE  ListsExact'
    BY <2>5, SetKeepsLists
  <2>6. CASE UNCHANGED sharingVars
    BY <2>6 DEF sharingVars, ListsExact
  <2> QED BY <2>1, <2>2, <2>3, <2>4, <2>5, <2>6 DEF SharingNext
<1> QED BY <1>1, <1>2, SharingTypeCorrect, PTL DEF SharingSpec
----------------------------------------------------------------------------
(***************************************************************************)
(* The copies.  Who gets one is read off the lists as they are after the   *)
(* step, and the lists are exact then, so the receivers are the contexts   *)
(* that are together with the one that was set.                            *)
(***************************************************************************)
LEMMA PeersAreTogether ==
  ASSUME SharingTypes, SharingTypes', ListsExact', policy' = policy, NEW i \in Context, NEW j \in Context \ {i}
  PROVE  j \in Peers(i, head', linked') <=> Together(i, j)'
<1>1. CASE policy = NoSlot
  BY <1>1 DEF Peers, Together
<1>2. CASE policy # NoSlot
  <2>1. policy \in PolicySlot
    BY <1>2 DEF SharingTypes
  <2>2. CASE head'[i][policy] = NoValue
    BY <2>2 DEF Peers, Together
  <2>3. CASE head'[i][policy] # NoValue
    <3>1. head'[i][policy] \in Value
      BY <2>1, <2>3 DEF SharingTypes
    <3>2. linked'[policy][head'[i][policy]] = {k \in Context : head'[k][policy] = head'[i][policy]}
      BY <2>1, <3>1 DEF ListsExact
    <3>3. Peers(i, head', linked') = linked'[policy][head'[i][policy]] \ {i}
      BY <1>2, <2>3 DEF Peers
    <3>4. Together(i, j)' <=> head'[i][policy] = head'[j][policy]
      BY <1>2, <2>3 DEF Together
    <3> QED BY <3>2, <3>3, <3>4
  <2> QED BY <2>2, <2>3
<1> QED BY <1>1, <1>2

(* Beside the context that was set, exactly the contexts that are then     *)
(* together with it change, and only in the slots that are copied.         *)
LEMMA SetCopies ==
  ASSUME SharingTypes, SharingTypes', ListsExact', NEW i \in Context, NEW s \in Slot,
         NEW v \in Value \cup {NoValue}, input_context_set_property(i, s, v)
  PROVE  /\ \A t \in Slot : data'[i][t] = IF t = s THEN SetProperty(s, data[i][s], v) ELSE data[i][t]
         /\ \A j \in Context \ {i}, t \in Slot :
              data'[j][t] = IF Together(i, j)' /\ t \in CopyRange(s)
                            THEN StateCopy(data[j][t], data'[i][t])
                            ELSE data[j][t]
<1>1. policy' = policy /\ data' = DataAfterSet(i, s, v, Peers(i, head', linked'))
  BY DEF input_context_set_property
<1>2. \A j \in Context \ {i} : j \in Peers(i, head', linked') <=> Together(i, j)'
  BY <1>1, PeersAreTogether
<1> DEFINE P == Peers(i, head', linked')
           source == [data[i] EXCEPT ![s] = SetProperty(s, data[i][s], v)]
<1>3. /\ data'[i] = source
      /\ \A j \in Context \ {i}, t \in Slot :
           data'[j][t] = IF j \in P /\ t \in CopyRange(s) THEN StateCopy(data[j][t], source[t]) ELSE data[j][t]
  BY <1>1 DEF DataAfterSet
<1>4. \A j \in Context \ {i} : j \in P <=> Together(i, j)'
  BY <1>2
<1>5. \A t \in Slot : source[t] = IF t = s THEN SetProperty(s, data[i][s], v) ELSE data[i][t]
  BY DEF SharingTypes
<1> HIDE DEF P, source
<1> QED BY <1>3, <1>4, <1>5

(* A step of any other operation changes the values of at most one         *)
(* context, which is then on no list.                                      *)
LEMMA OthersCopyNothing ==
  ASSUME SharingTypes, [SharingNext]_sharingVars,
         ~\E i \in Context, s \in Slot, v \in Value \cup {NoValue} : input_context_set_property(i, s, v)
  PROVE  \/ data' = data /\ head' = head
         \/ \E i \in Context :
              /\ \A s \in PolicySlot : head'[i][s] = NoValue
              /\ \A j \in Context \ {i} : data'[j] = data[j] /\ head'[j] = head[j]
<1>1. ASSUME NEW i \in Context, input_context_destroy(i)
      PROVE  /\ \A s \in PolicySlot : head'[i][s] = NoValue
             /\ \A j \in Context \ {i} : data'[j] = data[j] /\ head'[j] = head[j]
  BY <1>1 DEF input_context_destroy, SharingTypes
<1>2. ASSUME NEW i \in Context, input_context_new(i) PROVE data' = data /\ head' = head
  BY <1>2 DEF input_context_new
<1>3. ASSUME NEW s \in PolicySlot, shared_state_policy_new(s) \/ set_shared_state_policy(s)
      PROVE  data' = data /\ head' = head
  BY <1>3 DEF shared_state_policy_new, set_shared_state_policy
<1>4. CASE UNCHANGED sharingVars
  BY <1>4 DEF sharingVars
<1> QED BY <1>1, <1>2, <1>3, <1>4 DEF SharingNext

(* Two contexts are of one kind on a slot and, if neither had a local list *)
(* there, hold the same.                                                   *)
Converge(i, j, t) ==
  /\ SameKind(i, j, t)'
  /\ {data[i][t], data[j][t]} \cap Value = {} => data'[i][t] = data'[j][t]

(* A copy leaves the destination of the kind of the source, and equal to   *)
(* it unless both had a local list.                                        *)
LEMMA CopyConverges ==
  ASSUME NEW src \in Value \cup {NoValue, NoList}, NEW dst \in Value \cup {NoValue, NoList}
  PROVE  /\ StateCopy(dst, src) = src \/ {StateCopy(dst, src), src} \subseteq Value
         /\ dst \notin Value => StateCopy(dst, src) = src
BY DEF StateCopy

LEMMA SetConverges ==
  ASSUME SharingTypes, SharingTypes', ListsExact', NEW a \in Context, NEW s \in Slot,
         NEW v \in Value \cup {NoValue}, input_context_set_property(a, s, v),
         NEW i \in Context, NEW j \in Context, NEW t \in CopySlot,
         Together(i, j)', Together(i, j) => SameKind(i, j, t)
  PROVE  Converge(i, j, t)
<1>1. t \in Slot /\ policy' = policy
  BY DEF Slot, input_context_set_property
<1>2. \A k \in Context \ {a} :
        data'[k][t] = IF Together(a, k)' /\ t \in CopyRange(s)
                      THEN StateCopy(data[k][t], data'[a][t])
                      ELSE data[k][t]
  BY <1>1, SetCopies
<1>3. Together(a, i)' <=> Together(a, j)'
  BY DEF Together
<1>4. CASE Together(a, i)' /\ t \in CopyRange(s)
  <2>1. \A k \in Context \ {a} : Together(a, k)' =>
          /\ data'[k][t] = data'[a][t] \/ {data'[k][t], data'[a][t]} \subseteq Value
          /\ data[k][t] \notin Value => data'[k][t] = data'[a][t]
    BY <1>1, <1>2, <1>4, CopyConverges DEF SharingTypes
  <2>2. \A k \in {i, j} :
          /\ data'[k][t] = data'[a][t] \/ {data'[k][t], data'[a][t]} \subseteq Value
          /\ data[k][t] \notin Value => data'[k][t] = data'[a][t]
    BY <1>3, <1>4, <2>1
  <2> QED BY <2>2 DEF Converge, SameKind
<1>5. CASE ~Together(a, i)'
  (* Neither is the context that was set, nor on its list.                 *)
  <2>1. a # i /\ a # j
    BY <1>5, <1>3 DEF Together
  <2>2. head'[i] = head[i] /\ head'[j] = head[j]
    BY <2>1 DEF input_context_set_property, SharingTypes
  <2>3. Together(i, j)
    BY <1>1, <2>2 DEF Together
  <2>4. data'[i][t] = data[i][t] /\ data'[j][t] = data[j][t]
    BY <1>2, <1>3, <1>5, <2>1
  <2> QED BY <2>3, <2>4 DEF Converge, SameKind
<1>6. CASE Together(a, i)' /\ t \notin CopyRange(s)
  (* The policy's own slot is not the one that was set.                    *)
  <2>1. s # policy /\ t # s
    BY <1>6 DEF CopyRange
  <2>2. policy \in PolicySlot
    BY <1>1 DEF Together, SharingTypes
  <2>3. \A k \in Context : head'[k][policy] = head[k][policy]
    <3>1. head' = head \/ (s \in PolicySlot /\ head' = [head EXCEPT ![a][s] = v])
      BY DEF input_context_set_property, SharingTypes
    <3>2. head \in [Context -> [PolicySlot -> Value \cup {NoValue}]]
      BY DEF SharingTypes
    <3> QED BY <2>1, <2>2, <3>1, <3>2
  <2>4. Together(i, j)
    BY <1>1, <2>3 DEF Together
  <2>5. data'[a][t] = data[a][t]
    BY <1>1, <2>1, SetCopies
  <2>6. \A k \in Context : data'[k][t] = data[k][t]
    BY <1>2, <1>6, <2>5
  <2> QED BY <2>4, <2>6 DEF Converge, SameKind
<1> QED BY <1>4, <1>5, <1>6

(* As long as the manager keeps its policy, two contexts on one of its     *)
(* lists either both have a state, with or without a local list, or        *)
(* neither, from the moment they come together or from the first time they *)
(* do, until they part; and a local list that either gets while they are   *)
(* together is the same for both at first.  Later writes to it may make    *)
(* them differ.                                                            *)
THEOREM SharingAlwaysConverges == SharingSpec => SharingConverges
<1>1. SharingTypes /\ SharingTypes' /\ ListsExact' /\ [SharingNext]_sharingVars =>
        [policy' = policy =>
           \A i, j \in Context, t \in CopySlot :
             Together(i, j)' /\ (Together(i, j) => SameKind(i, j, t)) =>
               /\ SameKind(i, j, t)'
               /\ {data[i][t], data[j][t]} \cap Value = {} => data'[i][t] = data'[j][t]]_sharingVars
  <2> SUFFICES ASSUME SharingTypes, SharingTypes', ListsExact', [SharingNext]_sharingVars, policy' = policy,
                      NEW i \in Context, NEW j \in Context, NEW t \in CopySlot,
                      Together(i, j)', Together(i, j) => SameKind(i, j, t)
               PROVE  Converge(i, j, t)
    BY DEF Converge
  <2>1. CASE \E a \in Context, s \in Slot, v \in Value \cup {NoValue} : input_context_set_property(a, s, v)
    BY <2>1, SetConverges
  <2>2. CASE data' = data /\ head' = head
    BY <2>2 DEF Together, SameKind, Converge
  <2>3. ASSUME NEW a \in Context, \A s \in PolicySlot : head'[a][s] = NoValue,
               \A k \in Context \ {a} : data'[k] = data[k] /\ head'[k] = head[k]
        PROVE  Converge(i, j, t)
    <3>1. a # i /\ a # j
      BY <2>3 DEF Together, SharingTypes
    <3> QED BY <2>3, <3>1 DEF Together, SameKind, Converge
  <2> QED BY <2>1, <2>2, <2>3, OthersCopyNothing
<1> QED BY <1>1, SharingTypeCorrect, ListsAreExact, PTL DEF SharingSpec, SharingConverges

(* A step changes the values of one context and, beyond it, only shared    *)
(* slots of contexts that are on the same list of the manager's policy: no *)
(* state leaks to a context of another program.                            *)
THEOREM SharingNeverLeaves == SharingSpec => SharingStaysOnTheList
<1> DEFINE Stays == \E i \in Context : \A j \in Context \ {i}, t \in Slot :
                      data'[j][t] = data[j][t] \/ (t \in CopySlot /\ Together(i, j)')
<1>1. SharingTypes /\ SharingTypes' /\ ListsExact' /\ [SharingNext]_sharingVars => [Stays]_sharingVars
  <2> SUFFICES ASSUME SharingTypes, SharingTypes', ListsExact', [SharingNext]_sharingVars PROVE Stays
    OBVIOUS
  <2>1. ASSUME NEW i \in Context, NEW s \in Slot, NEW v \in Value \cup {NoValue},
               input_context_set_property(i, s, v)
        PROVE  Stays
    <3>1. CopyRange(s) \subseteq CopySlot
      BY DEF CopyRange
    <3>2. \A j \in Context \ {i}, t \in Slot :
            data'[j][t] = data[j][t] \/ (t \in CopySlot /\ Together(i, j)')
      BY <2>1, <3>1, SetCopies
    <3> QED BY <3>2
  <2>2. CASE data' = data /\ head' = head
    BY <2>2, ContextAssumption
  <2>3. ASSUME NEW i \in Context, \A j \in Context \ {i} : data'[j] = data[j]
        PROVE  Stays
    BY <2>3
  <2> QED BY <2>1, <2>2, <2>3, OthersCopyNothing
<1> QED BY <1>1, SharingTypeCorrect, ListsAreExact, PTL DEF SharingSpec, SharingStaysOnTheList
=============================================================================
