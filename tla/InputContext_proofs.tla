-------------------------- MODULE InputContext_proofs --------------------------
(***************************************************************************)
(* Proofs that the input context manager keeps its types, loses and        *)
(* duplicates no id, resets what it recycles, keeps its two records of the *)
(* focus in agreement, and tells a listener enough, in the right order,    *)
(* for every size of the id counter and every set of focus groups.         *)
(***************************************************************************)
EXTENDS InputContext, FcitxList_proofs

USE IdAssumption, GroupAssumption, DataAssumption

(* The strengthening that makes the focus properties inductive.            *)
IInv == TypeOK /\ IdsConserved /\ FocusConsistent /\ FocusExclusive

----------------------------------------------------------------------------
(* The steps that leave ids, groups and focus alone.                       *)
DataStep ==
  /\ UNCHANGED <<idVars, focusVars, freed>>
  /\ flags' \in [Ids -> FlagValues]
  /\ rect' \in [Ids -> RectValues]
  /\ text' \in [Ids -> Texts \cup {NoText}]

(* Reports and requests of a frontend are such steps.                      *)
LEMMA DataSteps ==
  ASSUME TypeOK, NEW i \in Ids,
         \/ \E f \in FlagValues : input_context_set_capability_flags(i, f)
         \/ \E r \in RectValues : input_context_set_cursor_rect(i, r)
         \/ \E t \in Texts \cup {NoText} : input_context_set_surrounding_text(i, t)
         \/ input_context_delete_surrounding_text(i)
         \/ \E kind \in Requests : input_context_request(i, kind)
  PROVE  DataStep
<1>1. ASSUME NEW f \in FlagValues, input_context_set_capability_flags(i, f) PROVE DataStep
  BY <1>1 DEF input_context_set_capability_flags, DataStep, TypeOK
<1>2. ASSUME NEW r \in RectValues, input_context_set_cursor_rect(i, r) PROVE DataStep
  BY <1>2 DEF input_context_set_cursor_rect, DataStep, TypeOK
<1>3. ASSUME NEW t \in Texts \cup {NoText}, input_context_set_surrounding_text(i, t) PROVE DataStep
  BY <1>3 DEF input_context_set_surrounding_text, DataStep, TypeOK
<1>4. ASSUME input_context_delete_surrounding_text(i) PROVE DataStep
  BY <1>4 DEF input_context_delete_surrounding_text, DataStep, TypeOK
<1>5. ASSUME NEW kind \in Requests, input_context_request(i, kind) PROVE DataStep
  BY <1>5 DEF input_context_request, DataStep, TypeOK, dataVars
<1> QED BY <1>1, <1>2, <1>3, <1>4, <1>5

----------------------------------------------------------------------------
(* What a creation does to the ids, when it returns a context: one id that *)
(* was not in use is in use now.                                           *)
LEMMA NewTypes ==
  ASSUME TypeOK, input_context_new
  PROVE  TypeOK'
<1>1. NextId \in Ids
  BY DEF NextId, TypeOK, Ids
<1>2. ASSUME NEW i \in Ids, Register(i)
      PROVE  /\ ics' \in Seq(Ids)
             /\ flags' \in [Ids -> FlagValues]
             /\ rect' \in [Ids -> RectValues]
             /\ text' \in [Ids -> Texts \cup {NoText}]
  <2>1. ics' \in Seq(Ids)
    BY <1>2, AppendIsLink DEF Register, TypeOK
  <2> QED BY <1>2, <2>1 DEF Register, FreshData, TypeOK
<1>3. CASE Recycle
  <2>1. Head(freeList) \in Ids /\ Tail(freeList) \in Seq(Ids)
    BY <1>3, PopIsUnlink DEF Recycle, TypeOK
  <2> QED BY <1>2, <1>3, <2>1 DEF Recycle, TypeOK, input_context_new, focusVars
<1>4. CASE DrawFreshId
  <2>1. NextId \in 0..MaxId
    BY <1>1 DEF Ids
  <2> QED BY <1>1, <1>2, <1>4, <2>1 DEF DrawFreshId, TypeOK, input_context_new, focusVars
<1>5. CASE NoIdLeft
  <2>1. NextId \in 0..MaxId
    BY <1>1 DEF Ids
  <2> QED BY <1>5, <2>1 DEF NoIdLeft, TypeOK, input_context_new, focusVars, dataVars
<1> QED BY <1>3, <1>4, <1>5 DEF input_context_new

(* What a focus change makes of the focus is a focus.                      *)
LEMMA FocusTypes ==
  ASSUME TypeOK, NEW i \in Ids, NEW g, NEW fc \in [Scopes -> Ids \cup {NoIC}],
         NEW fd \in [Ids -> BOOLEAN]
  PROVE  /\ FocusAfterIn(i, g, fc) \in [Scopes -> Ids \cup {NoIC}]
         /\ FocusedAfterIn(i, g, fc, fd) \in [Ids -> BOOLEAN]
         /\ FocusAfterOut(i) \in [Scopes -> Ids \cup {NoIC}]
         /\ FocusedAfterOut(i) \in [Ids -> BOOLEAN]
<1>1. FocusAfterIn(i, g, fc) \in [Scopes -> Ids \cup {NoIC}]
  BY DEF FocusAfterIn
<1>2. FocusedAfterIn(i, g, fc, fd) \in [Ids -> BOOLEAN]
  BY Zenon DEF FocusedAfterIn
<1>3. FocusAfterOut(i) \in [Scopes -> Ids \cup {NoIC}]
  BY DEF FocusAfterOut, TypeOK
<1>4. FocusedAfterOut(i) \in [Ids -> BOOLEAN]
  BY DEF FocusedAfterOut, TypeOK
<1> QED BY <1>1, <1>2, <1>3, <1>4

(* Ending all contexts keeps the types.                                    *)
LEMMA DestroyEachTypes ==
  ASSUME TypeOK, DestroyEach
  PROVE  /\ freeList' \in Seq(Ids)
         /\ ics' \in Seq(Ids)
         /\ group' \in [Ids -> Scopes \cup {Independent}]
         /\ focused' \in [Ids -> BOOLEAN]
         /\ focus' \in [Scopes -> Ids \cup {NoIC}]
<1>1. freeList' \in Seq(Ids)
  BY SpliceReversed DEF DestroyEach, TypeOK
<1>2. ics' \in Seq(Ids)
  BY DEF DestroyEach
<1>3. group' \in [Ids -> Scopes \cup {Independent}]
  BY DEF DestroyEach, TypeOK
<1>4. focused' \in [Ids -> BOOLEAN]
  BY Zenon DEF DestroyEach
<1>5. focus' \in [Scopes -> Ids \cup {NoIC}]
  BY DEF DestroyEach, TypeOK
<1> QED BY <1>1, <1>2, <1>3, <1>4, <1>5

(* Every operation of inputcontext.c leaves every piece of state in its    *)
(* type: no operation writes an id, a group or a flag out of its range.    *)
THEOREM TypeCorrect == Spec => []TypeOK
<1>1. Init => TypeOK
  <2>1. 0 \in 0..MaxId
    OBVIOUS
  <2> SUFFICES ASSUME Init PROVE TypeOK
    OBVIOUS
  <2>2. icid \in 0..MaxId /\ freeList \in Seq(Ids) /\ ics \in Seq(Ids) /\ groups \in Seq(Group)
    BY <2>1 DEF Init
  <2>3. /\ group \in [Ids -> Scopes \cup {Independent}]
        /\ focus \in [Scopes -> Ids \cup {NoIC}]
    BY DEF Init
  <2>4. focused \in [Ids -> BOOLEAN] /\ freed \in BOOLEAN
    BY DEF Init
  <2>5. flags \in [Ids -> FlagValues]
    BY DEF Init
  <2>6. rect \in [Ids -> RectValues] /\ text \in [Ids -> Texts \cup {NoText}]
    BY DEF Init
  <2> QED BY <2>2, <2>3, <2>4, <2>5, <2>6 DEF TypeOK
<1>2. TypeOK /\ [Next]_vars => TypeOK'
  <2> SUFFICES ASSUME TypeOK, [Next]_vars PROVE TypeOK'
    OBVIOUS
  <2>1. CASE input_context_new
    BY <2>1, NewTypes
  <2>2. ASSUME NEW i \in Ids, input_context_focus_in(i) PROVE TypeOK'
    <3>1. focus' \in [Scopes -> Ids \cup {NoIC}] /\ focused' \in [Ids -> BOOLEAN]
      BY <2>2, FocusTypes DEF input_context_focus_in, TypeOK
    <3> QED BY <2>2, <3>1 DEF input_context_focus_in, TypeOK, idVars, dataVars
  <2>3. ASSUME NEW i \in Ids, input_context_focus_out(i) PROVE TypeOK'
    <3>1. focus' \in [Scopes -> Ids \cup {NoIC}] /\ focused' \in [Ids -> BOOLEAN]
      BY <2>3, FocusTypes DEF input_context_focus_out, TypeOK
    <3> QED BY <2>3, <3>1 DEF input_context_focus_out, TypeOK, idVars, dataVars
  <2>4. ASSUME NEW i \in Ids, NEW g \in Group \cup {Global, Independent},
               input_context_set_focus_group(i, g)
        PROVE  TypeOK'
    <3>1. group' \in [Ids -> Scopes \cup {Independent}]
      BY <2>4 DEF input_context_set_focus_group, Move, TypeOK, Scopes
    <3>2. focus' \in [Scopes -> Ids \cup {NoIC}] /\ focused' \in [Ids -> BOOLEAN]
      <4>1. CASE focused[i]
        <5>1. /\ FocusAfterOut(i) \in [Scopes -> Ids \cup {NoIC}]
              /\ FocusedAfterOut(i) \in [Ids -> BOOLEAN]
          BY FocusTypes DEF TypeOK
        <5> QED BY <2>4, <4>1, <5>1, FocusTypes DEF input_context_set_focus_group, Move
      <4>2. CASE ~focused[i]
        BY <2>4, <4>2 DEF input_context_set_focus_group, Move, TypeOK
      <4> QED BY <4>1, <4>2
    <3> QED BY <2>4, <3>1, <3>2 DEF input_context_set_focus_group, TypeOK, idVars, dataVars
  <2>5. ASSUME NEW i \in Ids, input_context_destroy(i) PROVE TypeOK'
    <3>1. focus' \in [Scopes -> Ids \cup {NoIC}] /\ focused' \in [Ids -> BOOLEAN]
      BY <2>5, FocusTypes DEF input_context_destroy, TypeOK
    <3>2. ics' \in Seq(Ids)
      BY <2>5, RemoveIsUnlink DEF input_context_destroy, TypeOK, Live
    <3>3. freeList' \in Seq(Ids)
      BY <2>5, PrependIsLink DEF input_context_destroy, TypeOK
    <3> QED BY <2>5, <3>1, <3>2, <3>3 DEF input_context_destroy, TypeOK, dataVars
  <2>6. CASE DataStep
    BY <2>6 DEF DataStep, TypeOK, idVars, focusVars
  <2>7. ASSUME NEW g \in Group, focus_group_new(g) PROVE TypeOK'
    <3>1. groups' \in Seq(Group)
      BY <2>7, AppendIsLink DEF focus_group_new, list_append, TypeOK
    <3> QED BY <2>7, <3>1 DEF focus_group_new, TypeOK, idVars, dataVars
  <2>8. ASSUME NEW g \in Group, focus_group_free(g) PROVE TypeOK'
    <3>1. groups' \in Seq(Group)
      BY <2>8, RemoveIsUnlink DEF focus_group_free, TypeOK
    <3>2. group' \in [Ids -> Scopes \cup {Independent}]
      BY <2>8 DEF focus_group_free, Detach, TypeOK
    <3>3. focus' \in [Scopes -> Ids \cup {NoIC}]
      BY <2>8 DEF focus_group_free, TypeOK
    <3> QED BY <2>8, <3>1, <3>2, <3>3 DEF focus_group_free, TypeOK, idVars, dataVars
  <2>9. CASE manager_destroy_all_input_context
    BY <2>9, DestroyEachTypes DEF manager_destroy_all_input_context, TypeOK, dataVars
  <2>10. CASE manager_free
    BY <2>10, DestroyEachTypes DEF manager_free, TypeOK, dataVars
  <2>11. CASE UNCHANGED vars
    BY <2>11 DEF vars, idVars, focusVars, dataVars, TypeOK
  <2> QED
    BY <2>1, <2>2, <2>3, <2>4, <2>5, <2>6, <2>7, <2>8, <2>9, <2>10, <2>11, DataSteps
       DEF Next, ContextStep
<1> QED BY <1>1, <1>2, PTL DEF Spec
----------------------------------------------------------------------------
(* The ids.  Drawing a fresh id is safe because an empty free list means   *)
(* that every id drawn so far is in use: the next one is new, or all are   *)
(* in use.                                                                 *)
LEMMA DrawnIds ==
  ASSUME TypeOK, IdsConserved, freeList = <<>>
  PROVE  /\ NextId \in Ids
         /\ NextId \notin Live => Live = 1..icid /\ NextId = icid + 1
         /\ NextId \in Live => Live = Ids
<1>1. NextId \in Ids
  BY DEF NextId, TypeOK, Ids
<1>2. ToSet(freeList) = {}
  BY DEF ToSet
<1>3. Live = 1..icid \/ Live = Ids
  BY <1>2 DEF IdsConserved
<1>4. icid = MaxId => 1..icid = Ids
  BY DEF Ids
<1>5. icid # MaxId => NextId = icid + 1 /\ icid + 1 \notin 1..icid
  BY DEF NextId, TypeOK
<1> QED BY <1>1, <1>3, <1>4, <1>5

(* Creation takes a free id or a fresh one, and no id in use.              *)
LEMMA NewKeepsIds ==
  ASSUME TypeOK, IdsConserved, input_context_new
  PROVE  IdsConserved' /\ Live \subseteq Live'
<1>1. CASE Recycle
  <2> DEFINE h == Head(freeList)
  <2>1. /\ h \in Ids /\ h \in ToSet(freeList)
        /\ ToSet(freeList') = ToSet(freeList) \ {h}
        /\ IsInjective(freeList')
    BY <1>1, PopIsUnlink DEF Recycle, TypeOK, IdsConserved
  <2>2. h \notin Live
    BY <2>1 DEF IdsConserved
  <2>3. Live' = Live \cup {h} /\ IsInjective(ics')
    BY <1>1, <2>1, <2>2, AppendIsLink DEF Recycle, Register, TypeOK, Live, IdsConserved
  <2>4. icid' = icid
    BY <1>1 DEF Recycle
  <2> HIDE DEF h
  <2> QED BY <2>1, <2>2, <2>3, <2>4 DEF IdsConserved
<1>2. CASE DrawFreshId
  <2>1. NextId \in Ids /\ NextId \notin Live /\ Live = 1..icid /\ NextId = icid + 1
    BY <1>2, DrawnIds DEF DrawFreshId
  <2>2. Live' = Live \cup {NextId} /\ IsInjective(ics')
    BY <1>2, <2>1, AppendIsLink DEF DrawFreshId, Register, TypeOK, Live, IdsConserved
  <2>3. freeList' = freeList /\ ToSet(freeList) = {} /\ icid' = icid + 1
    BY <1>2, <2>1 DEF DrawFreshId, ToSet
  <2>4. Live' = 1..icid'
    BY <2>1, <2>2, <2>3 DEF TypeOK
  <2> QED BY <2>2, <2>3, <2>4 DEF IdsConserved
<1>3. CASE NoIdLeft
  <2>1. Live = Ids
    BY <1>3, DrawnIds DEF NoIdLeft
  <2>2. ics' = ics /\ freeList' = freeList /\ ToSet(freeList) = {}
    BY <1>3 DEF NoIdLeft, ToSet
  <2> QED BY <2>1, <2>2 DEF IdsConserved, Live
<1> QED BY <1>1, <1>2, <1>3 DEF input_context_new

(* Destruction makes exactly the id of the context free.                   *)
LEMMA DestroyKeepsIds ==
  ASSUME TypeOK, IdsConserved, NEW i \in Ids, input_context_destroy(i)
  PROVE  IdsConserved' /\ Live' = Live \ {i}
<1>1. Live' = Live \ {i} /\ IsInjective(ics')
  BY RemoveIsUnlink DEF input_context_destroy, TypeOK, Live, IdsConserved
<1>2. i \in Live /\ i \notin ToSet(freeList)
  BY DEF input_context_destroy, IdsConserved
<1>3. ToSet(freeList') = ToSet(freeList) \cup {i} /\ IsInjective(freeList')
  BY <1>2, PrependIsLink DEF input_context_destroy, TypeOK, IdsConserved
<1>4. icid' = icid
  BY DEF input_context_destroy
<1> QED BY <1>1, <1>2, <1>3, <1>4 DEF IdsConserved

(* Ending all contexts makes exactly their ids free.                       *)
LEMMA DestroyEachKeepsIds ==
  ASSUME TypeOK, IdsConserved, DestroyEach, UNCHANGED icid
  PROVE  IdsConserved' /\ Live' = {}
<1>1. ics' = <<>> /\ Live' = {} /\ IsInjective(ics')
  BY DEF DestroyEach, Live, ToSet, IsInjective
<1>2. /\ ToSet(freeList') = Live \cup ToSet(freeList)
      /\ IsInjective(freeList')
  BY SpliceReversed DEF DestroyEach, TypeOK, IdsConserved, Live
<1> QED BY <1>1, <1>2 DEF IdsConserved

(* Every operation keeps each id either in use or free.                    *)
LEMMA NextKeepsIds ==
  ASSUME TypeOK, IdsConserved, [Next]_vars
  PROVE  IdsConserved'
<1>1. CASE UNCHANGED idVars
  BY <1>1 DEF idVars, IdsConserved, Live
<1>2. CASE input_context_new
  BY <1>2, NewKeepsIds
<1>3. ASSUME NEW i \in Ids, input_context_destroy(i) PROVE IdsConserved'
  BY <1>3, DestroyKeepsIds
<1>4. CASE manager_destroy_all_input_context \/ manager_free
  BY <1>4, DestroyEachKeepsIds DEF manager_destroy_all_input_context, manager_free
<1>5. ASSUME NEW i \in Ids, ContextStep(i), ~input_context_destroy(i) PROVE UNCHANGED idVars
  <2>1. CASE DataStep
    BY <2>1 DEF DataStep
  <2> QED BY <1>5, <2>1, DataSteps DEF ContextStep, input_context_focus_in,
             input_context_focus_out, input_context_set_focus_group
<1>6. ASSUME NEW g \in Group, focus_group_new(g) \/ focus_group_free(g) PROVE UNCHANGED idVars
  BY <1>6 DEF focus_group_new, focus_group_free
<1> QED BY <1>1, <1>2, <1>3, <1>4, <1>5, <1>6 DEF Next, vars

(* No operation hands out an id twice, loses one, or leaves one both in    *)
(* use and free, whatever the width of the counter and however often it    *)
(* wraps.                                                                  *)
THEOREM IdsAreConserved == Spec => []IdsConserved
<1>1. Init => IdsConserved
  BY DEF Init, IdsConserved, Live, ToSet, IsInjective
<1>2. TypeOK /\ IdsConserved /\ [Next]_vars => IdsConserved'
  BY NextKeepsIds
<1> QED BY <1>1, <1>2, TypeCorrect, PTL DEF Spec

(* fcitx_input_context_new returns NULL only when every id of the counter  *)
(* is the id of a context.                                                 *)
THEOREM AllocationIsComplete == Spec => NewFailsOnlyWhenFull
<1>1. ASSUME TypeOK, IdsConserved, [Next]_vars, icid' # icid, ics' = ics
      PROVE  Live = Ids
  <2>1. CASE input_context_new
    <3>1. CASE NoIdLeft
      BY <1>1, <3>1, DrawnIds DEF NoIdLeft
    <3>2. CASE DrawFreshId
      <4>1. Live' = Live /\ NextId \notin Live
        BY <1>1, <3>2 DEF DrawFreshId, Live
      <4>2. NextId \in Live'
        BY <1>1, <3>2, DrawnIds, AppendIsLink DEF DrawFreshId, Register, Live, TypeOK
      <4> QED BY <4>1, <4>2
    <3> QED BY <1>1, <2>1, <3>1, <3>2 DEF input_context_new, Recycle
  <2>2. CASE UNCHANGED icid
    BY <1>1, <2>2
  <2>3. ASSUME NEW i \in Ids, ContextStep(i) PROVE UNCHANGED icid
    <3>1. CASE DataStep
      BY <3>1 DEF DataStep, idVars
    <3> QED BY <1>1, <2>3, <3>1, DataSteps DEF ContextStep, input_context_focus_in, idVars,
               input_context_focus_out, input_context_set_focus_group, input_context_destroy
  <2> QED BY <1>1, <2>1, <2>2, <2>3 DEF Next, vars, idVars, focus_group_new, focus_group_free,
             manager_destroy_all_input_context, manager_free
<1>2. TypeOK /\ IdsConserved /\ [Next]_vars => [icid' # icid /\ ics' = ics => Live = Ids]_vars
  BY <1>1
<1> QED BY <1>2, TypeCorrect, IdsAreConserved, PTL DEF Spec, NewFailsOnlyWhenFull
----------------------------------------------------------------------------
(* The focus.  Agree is FocusConsistent over any set of contexts and any   *)
(* group, focus and flag functions, so that it can be carried through the  *)
(* stages of an operation.                                                 *)
Agree(live, grp, fc, fd) ==
  /\ \A s \in Scopes, i \in Ids : fc[s] = i <=> i \in live /\ grp[i] = s /\ fd[i]
  /\ \A i \in Ids : i \notin live => grp[i] = Independent /\ ~fd[i]

Exclusive(fc) == fc[Global] # NoIC => \A g \in Group : fc[g] = NoIC

Member(grp, gs) == \A i \in Ids : grp[i] \in ToSet(gs) \cup {Global, Independent}

(* The focus properties are the stages' properties of the current state.   *)
LEMMA FocusInParts ==
  ASSUME TypeOK
  PROVE  /\ FocusConsistent <=> Agree(Live, group, focus, focused) /\ Member(group, groups)
         /\ FocusExclusive <=> Exclusive(focus)
BY DEF FocusConsistent, FocusExclusive, Agree, Exclusive, Member

(* The scopes that lose their focus, as a set.                             *)
LEMMA ClearedScopes ==
  ASSUME TypeOK, NEW g
  PROVE  Cleared(g) = IF g = Independent THEN {}
                      ELSE IF g = Global THEN ToSet(groups) \cup {Global} ELSE {Global, g}
<1>1. CASE g = Independent
  BY <1>1 DEF Cleared, ClearOrder, ToSet
<1>2. CASE g = Global
  <2>1. groups \in Seq(Scopes)
    BY DEF TypeOK, Scopes
  <2>2. ToSet(Append(groups, Global)) = ToSet(groups) \cup {Global}
    BY <2>1, AppendIsLink DEF Scopes
  <2> QED BY <1>2, <2>2 DEF Cleared, ClearOrder
<1>3. CASE g # Independent /\ g # Global
  BY <1>3 DEF Cleared, ClearOrder, ToSet
<1> QED BY <1>1, <1>2, <1>3

(* Gaining the focus: the records agree afterwards, and one side of the    *)
(* global/local divide has the focus.                                      *)
LEMMA FocusInAgrees ==
  ASSUME TypeOK, NEW live \in SUBSET Ids, NEW i \in live,
         NEW grp \in [Ids -> Scopes \cup {Independent}], Member(grp, groups),
         NEW fc \in [Scopes -> Ids \cup {NoIC}], NEW fd \in [Ids -> BOOLEAN],
         Agree(live, grp, fc, fd), Exclusive(fc)
  PROVE  /\ Agree(live, grp, FocusAfterIn(i, grp[i], fc), FocusedAfterIn(i, grp[i], fc, fd))
         /\ Exclusive(FocusAfterIn(i, grp[i], fc))
<1> DEFINE g == grp[i]
           fc2 == FocusAfterIn(i, g, fc)
           fd2 == FocusedAfterIn(i, g, fc, fd)
<1>1. i \in Ids /\ i # NoIC /\ NoIC \notin Ids
  BY DEF Ids, NoIC
<1>2. \A s \in Scopes : fc2[s] = IF s = g THEN i ELSE IF s \in Cleared(g) THEN NoIC ELSE fc[s]
  BY DEF FocusAfterIn
<1>3. \A j \in Ids : fd2[j] <=> j = i \/ (fd[j] /\ ~ \E s \in Cleared(g) : fc[s] = j)
  BY DEF FocusedAfterIn
<1>4. Cleared(g) = IF g = Independent THEN {}
                   ELSE IF g = Global THEN ToSet(groups) \cup {Global} ELSE {Global, g}
  BY ClearedScopes
<1>5. g \in Scopes \cup {Independent} /\ Cleared(g) \subseteq Scopes
  <2>1. ToSet(groups) \subseteq Group
    BY DEF TypeOK, ToSet
  <2> QED BY <1>1, <1>4, <2>1 DEF Scopes
<1>6. g \in Scopes => g \in Cleared(g)
  BY <1>4, GroupAssumption DEF Scopes
<1> HIDE DEF fc2, fd2, g
<1>7. ASSUME NEW s \in Scopes, NEW j \in Ids
      PROVE  fc2[s] = j <=> j \in live /\ grp[j] = s /\ fd2[j]
  <2>1. CASE s = g
    <3>1. j = i => (fc2[s] = j /\ j \in live /\ grp[j] = s /\ fd2[j])
      BY <1>1, <1>2, <1>3, <2>1 DEF g
    <3>2. j # i => fc2[s] # j
      BY <1>1, <1>2, <2>1
    <3>3. ASSUME j # i, j \in live, grp[j] = s, fd2[j] PROVE FALSE
      <4>1. fd[j]
        BY <1>3, <3>3
      <4>2. fc[s] = j
        BY <3>3, <4>1 DEF Agree
      <4> QED BY <1>3, <1>6, <2>1, <3>3, <4>2
    <3> QED BY <3>1, <3>2, <3>3
  <2>2. CASE s # g /\ s \in Cleared(g)
    <3>1. fc2[s] # j
      BY <1>1, <1>2, <2>2
    <3>2. ASSUME j \in live, grp[j] = s, fd2[j] PROVE FALSE
      <4>1. j # i
        BY <2>2, <3>2 DEF g
      <4>2. fd[j]
        BY <1>3, <3>2, <4>1
      <4>3. fc[s] = j
        BY <3>2, <4>2 DEF Agree
      <4> QED BY <1>3, <2>2, <3>2, <4>1, <4>3
    <3> QED BY <3>1, <3>2
  <2>3. CASE s # g /\ s \notin Cleared(g)
    <3>1. fc2[s] = fc[s]
      BY <1>2, <2>3
    <3>2. ASSUME fc[s] = j PROVE j \in live /\ grp[j] = s /\ fd2[j]
      <4>1. j \in live /\ grp[j] = s /\ fd[j]
        BY <3>2 DEF Agree
      <4>2. \A t \in Cleared(g) : fc[t] # j
        BY <1>5, <2>3, <4>1 DEF Agree
      <4> QED BY <1>3, <4>1, <4>2
    <3>3. ASSUME j \in live, grp[j] = s, fd2[j] PROVE fc[s] = j
      <4>1. j # i
        BY <2>3, <3>3 DEF g
      <4>2. fd[j]
        BY <1>3, <3>3, <4>1
      <4> QED BY <3>3, <4>2 DEF Agree
    <3> QED BY <3>1, <3>2, <3>3
  <2> QED BY <2>1, <2>2, <2>3
<1>8. ASSUME NEW j \in Ids, j \notin live PROVE grp[j] = Independent /\ ~fd2[j]
  BY <1>3, <1>8 DEF Agree
<1>9. Exclusive(fc2)
  <2> SUFFICES ASSUME fc2[Global] # NoIC, NEW h \in Group PROVE fc2[h] = NoIC
    BY DEF Exclusive
  <2>1. Global \in Scopes /\ h \in Scopes /\ h # Global
    BY DEF Scopes
  <2>2. CASE g = Independent
    <3>1. fc2[Global] = fc[Global] /\ fc2[h] = fc[h]
      BY <1>2, <1>4, <2>1, <2>2
    <3> QED BY <3>1 DEF Exclusive
  <2>3. CASE g = Global
    <3>1. CASE h \in ToSet(groups)
      BY <1>2, <1>4, <2>1, <2>3, <3>1
    <3>2. CASE h \notin ToSet(groups)
      <4>1. \A j \in Ids : grp[j] # h
        BY <2>1, <3>2 DEF Member
      <4>2. \A j \in Ids : fc[h] # j
        BY <2>1, <4>1 DEF Agree
      <4>3. fc[h] = NoIC
        BY <2>1, <4>2
      <4> QED BY <1>2, <1>4, <2>1, <2>3, <3>2, <4>3
    <3> QED BY <3>1, <3>2
  <2>4. CASE g \in Group
    BY <1>2, <1>4, <2>1, <2>4
  <2> QED BY <1>5, <2>2, <2>3, <2>4 DEF Scopes
<1> QED BY <1>7, <1>8, <1>9 DEF Agree, fc2, fd2, g

(* Giving the focus up: the records agree, and the context is unfocused.   *)
LEMMA FocusOutAgrees ==
  ASSUME TypeOK, Agree(Live, group, focus, focused), Exclusive(focus), NEW i \in Ids, i \in Live
  PROVE  /\ Agree(Live, group, FocusAfterOut(i), FocusedAfterOut(i))
         /\ Exclusive(FocusAfterOut(i))
         /\ ~FocusedAfterOut(i)[i]
<1>1. i # NoIC /\ NoIC \notin Ids
  BY DEF Ids, NoIC
<1>2. group[i] \in Scopes \cup {Independent} /\ Independent \notin Scopes
  BY DEF TypeOK, Scopes
<1>3. GivesUp(i) <=> focused[i]
  BY <1>2 DEF GivesUp, Agree
<1>4. \A j \in Ids : FocusedAfterOut(i)[j] <=> focused[j] /\ j # i
  BY <1>3 DEF FocusedAfterOut, TypeOK
<1>5. \A s \in Scopes : FocusAfterOut(i)[s] = IF s = group[i] /\ focused[i] THEN NoIC ELSE focus[s]
  BY <1>3 DEF FocusAfterOut
<1>6. \A s \in Scopes, j \in Ids :
        FocusAfterOut(i)[s] = j <=> j \in Live /\ group[j] = s /\ FocusedAfterOut(i)[j]
  BY <1>1, <1>4, <1>5 DEF Agree
<1>7. \A j \in Ids : j \notin Live => group[j] = Independent /\ ~FocusedAfterOut(i)[j]
  BY <1>4 DEF Agree
<1>8. Exclusive(FocusAfterOut(i))
  BY <1>5 DEF Exclusive, Scopes
<1> QED BY <1>4, <1>6, <1>7, <1>8 DEF Agree
----------------------------------------------------------------------------
(* Ending all contexts leaves no focus.                                    *)
LEMMA DestroyEachUnfocuses ==
  ASSUME IInv, DestroyEach
  PROVE  /\ \A i \in Ids : group'[i] = Independent /\ ~focused'[i]
         /\ \A s \in Scopes : focus'[s] = NoIC
<1>1. Independent \notin Scopes
  BY DEF Scopes
<1>2. \A i \in Live : GivesUp(i) <=> focused[i]
  BY <1>1 DEF IInv, TypeOK, GivesUp, FocusConsistent, Live, ToSet
<1>3. \A i \in Ids : group'[i] = Independent /\ ~focused'[i]
  BY <1>2 DEF DestroyEach, IInv, FocusConsistent
<1>4. ASSUME NEW s \in Scopes PROVE focus'[s] = NoIC
  <2>1. CASE focus[s] = NoIC
    BY <2>1 DEF DestroyEach
  <2>2. CASE focus[s] \in Ids
    <3>1. focus[s] \in Live /\ group[focus[s]] = s /\ focused[focus[s]]
      BY <2>2 DEF IInv, FocusConsistent
    <3>2. \E i \in Live : group[i] = s /\ GivesUp(i)
      BY <1>2, <3>1
    <3> QED BY <3>2 DEF DestroyEach
  <2> QED BY <2>1, <2>2 DEF IInv, TypeOK
<1> QED BY <1>3, <1>4

(* Agreement, exclusion and membership survive each operation.             *)
LEMMA NextKeepsFocus ==
  ASSUME IInv, TypeOK', IdsConserved', [Next]_vars
  PROVE  FocusConsistent' /\ FocusExclusive'
<1> USE DEF IInv
<1>1. /\ Agree(Live, group, focus, focused)
      /\ Member(group, groups)
      /\ Exclusive(focus)
  BY FocusInParts
<1>2. SUFFICES /\ Agree(Live', group', focus', focused')
               /\ Member(group', groups')
               /\ Exclusive(focus')
  BY DEF FocusConsistent, FocusExclusive, Agree, Exclusive, Member
<1>3. Live \subseteq Ids /\ Live' \subseteq Ids
  BY DEF Live, TypeOK, ToSet
<1>4. NoIC \notin Ids /\ Independent \notin Scopes
  BY DEF NoIC, Ids, Scopes
<1>5. CASE UNCHANGED <<idVars, focusVars>>
  BY <1>1, <1>5 DEF idVars, focusVars, Live, Agree, Member, Exclusive
<1>6. CASE input_context_new
  <2>1. Live \subseteq Live' /\ UNCHANGED focusVars
    BY <1>6, NewKeepsIds DEF input_context_new
  <2>2. Agree(Live', group, focus, focused)
    BY <1>1, <1>4, <2>1 DEF Agree
  <2> QED BY <1>1, <2>1, <2>2 DEF focusVars
<1>7. ASSUME NEW i \in Ids, input_context_focus_in(i)
      PROVE  /\ Agree(Live', group', focus', focused')
             /\ Member(group', groups')
             /\ Exclusive(focus')
  <2>1. i \in Live /\ UNCHANGED <<groups, group, ics>> /\ Live' = Live
    BY <1>7 DEF input_context_focus_in, idVars, Live
  <2>2. /\ focus' = FocusAfterIn(i, group[i], focus)
        /\ focused' = FocusedAfterIn(i, group[i], focus, focused)
    BY <1>7 DEF input_context_focus_in
  <2>3. /\ Agree(Live, group, focus', focused')
        /\ Exclusive(focus')
    BY <1>1, <1>3, <2>1, <2>2, FocusInAgrees DEF TypeOK
  <2> QED BY <1>1, <2>1, <2>3
<1>8. ASSUME NEW i \in Ids, input_context_focus_out(i)
      PROVE  /\ Agree(Live', group', focus', focused')
             /\ Member(group', groups')
             /\ Exclusive(focus')
  <2>1. i \in Live /\ UNCHANGED <<groups, group, ics>> /\ Live' = Live
    BY <1>8 DEF input_context_focus_out, idVars, Live
  <2>2. focus' = FocusAfterOut(i) /\ focused' = FocusedAfterOut(i)
    BY <1>8 DEF input_context_focus_out
  <2> QED BY <1>1, <2>1, <2>2, FocusOutAgrees
<1>9. ASSUME NEW i \in Ids, NEW g \in Group \cup {Global, Independent},
             input_context_set_focus_group(i, g)
      PROVE  /\ Agree(Live', group', focus', focused')
             /\ Member(group', groups')
             /\ Exclusive(focus')
  <2>1. /\ i \in Live /\ UNCHANGED <<groups, ics>> /\ Live' = Live
        /\ g \in ToSet(groups) \cup {Global, Independent}
        /\ g # group[i]
        /\ group' = [group EXCEPT ![i] = g]
    BY <1>9 DEF input_context_set_focus_group, Move, idVars, Live
  <2>2. Member(group', groups) /\ group' \in [Ids -> Scopes \cup {Independent}] /\ group'[i] = g
    BY <1>1, <2>1 DEF Member, TypeOK
  <2>3. CASE focused[i]
    <3> DEFINE fc == FocusAfterOut(i)
               fd == FocusedAfterOut(i)
    <3>1. /\ Agree(Live, group, fc, fd) /\ Exclusive(fc) /\ ~fd[i]
          /\ fc \in [Scopes -> Ids \cup {NoIC}] /\ fd \in [Ids -> BOOLEAN]
      BY <1>1, <2>1, FocusOutAgrees, FocusTypes DEF TypeOK
    <3>2. focus' = FocusAfterIn(i, g, fc) /\ focused' = FocusedAfterIn(i, g, fc, fd)
      BY <1>9, <2>3 DEF input_context_set_focus_group, Move
    <3> HIDE DEF fc, fd
    <3>3. Agree(Live, group', fc, fd)
      BY <2>1, <3>1 DEF Agree, TypeOK
    <3>4. /\ Agree(Live, group', FocusAfterIn(i, group'[i], fc), FocusedAfterIn(i, group'[i], fc, fd))
          /\ Exclusive(FocusAfterIn(i, group'[i], fc))
      BY <1>3, <2>1, <2>2, <3>1, <3>3, FocusInAgrees
    <3> QED BY <2>1, <2>2, <3>2, <3>4
  <2>4. CASE ~focused[i]
    <3>1. UNCHANGED <<focus, focused>>
      BY <1>9, <2>4 DEF input_context_set_focus_group, Move
    <3>2. Agree(Live, group', focus, focused)
      BY <1>1, <2>1, <2>4 DEF Agree, TypeOK
    <3> QED BY <1>1, <2>1, <2>2, <3>1, <3>2
  <2> QED BY <2>3, <2>4
<1>10. ASSUME NEW i \in Ids, input_context_destroy(i)
       PROVE  /\ Agree(Live', group', focus', focused')
              /\ Member(group', groups')
              /\ Exclusive(focus')
  <2>1. /\ i \in Live /\ groups' = groups /\ Live' = Live \ {i}
        /\ group' = [group EXCEPT ![i] = Independent]
        /\ focus' = FocusAfterOut(i) /\ focused' = FocusedAfterOut(i)
    BY <1>10, DestroyKeepsIds DEF input_context_destroy
  <2>2. Agree(Live, group, focus', focused') /\ Exclusive(focus') /\ ~focused'[i]
    BY <1>1, <2>1, FocusOutAgrees
  <2>3. Agree(Live', group', focus', focused')
    BY <1>4, <2>1, <2>2 DEF Agree, TypeOK
  <2>4. Member(group', groups')
    BY <1>1, <2>1 DEF Member, TypeOK
  <2> QED BY <2>2, <2>3, <2>4
<1>11. ASSUME NEW g \in Group, focus_group_new(g)
       PROVE  /\ Agree(Live', group', focus', focused')
              /\ Member(group', groups')
              /\ Exclusive(focus')
  <2>1. UNCHANGED <<ics, group, focus, focused>> /\ Live' = Live
    BY <1>11 DEF focus_group_new, idVars, Live
  <2>2. ToSet(groups') = ToSet(groups) \cup {g}
    BY <1>11, AppendIsLink DEF focus_group_new, list_append, TypeOK
  <2>3. Member(group', groups')
    BY <1>1, <2>1, <2>2 DEF Member
  <2> QED BY <1>1, <2>1, <2>3
<1>12. ASSUME NEW g \in Group, focus_group_free(g)
       PROVE  /\ Agree(Live', group', focus', focused')
              /\ Member(group', groups')
              /\ Exclusive(focus')
  <2>1. /\ UNCHANGED <<ics, focused>> /\ Live' = Live
        /\ groups' = list_remove(groups, g) /\ g \in ToSet(groups)
        /\ focus' = [focus EXCEPT ![g] = NoIC]
    BY <1>12 DEF focus_group_free, idVars, Live
  <2>2. \A i \in Ids : group'[i] = IF group[i] = g THEN Independent ELSE group[i]
    BY <1>12 DEF focus_group_free, Detach
  <2>3. Agree(Live', group', focus', focused')
    BY <1>1, <1>4, <2>1, <2>2 DEF Agree, TypeOK, Scopes
  <2>4. Exclusive(focus')
    BY <1>1, <2>1 DEF Exclusive, TypeOK, Scopes
  <2>5. ASSUME NEW h \in ToSet(groups), h # g PROVE h \in ToSet(groups')
    BY <2>1, <2>5, RemoveIsUnlink DEF TypeOK
  <2>6. Member(group', groups')
    BY <1>1, <2>2, <2>5 DEF Member
  <2> QED BY <2>3, <2>4, <2>6
<1>13. CASE manager_destroy_all_input_context \/ manager_free
  <2>1. DestroyEach /\ Live' = {}
    BY <1>13, DestroyEachKeepsIds DEF manager_destroy_all_input_context, manager_free
  <2>2. /\ \A i \in Ids : group'[i] = Independent /\ ~focused'[i]
        /\ \A s \in Scopes : focus'[s] = NoIC
    BY <2>1, DestroyEachUnfocuses
  <2> QED BY <1>4, <2>1, <2>2 DEF Agree, Member, Exclusive, Scopes
<1>14. CASE DataStep
  BY <1>5, <1>14 DEF DataStep
<1>15. CASE UNCHANGED vars
  BY <1>5, <1>15 DEF vars
<1> QED
  BY <1>6, <1>7, <1>8, <1>9, <1>10, <1>11, <1>12, <1>13, <1>14, <1>15, DataSteps
     DEF Next, ContextStep

(* So both properties of the focus hold in every reachable state.          *)
LEMMA FocusInvariant == Spec => [](FocusConsistent /\ FocusExclusive)
<1>1. Init => FocusConsistent /\ FocusExclusive
  BY DEF Init, FocusConsistent, FocusExclusive, Live, ToSet, NoIC, Ids, Scopes
<1>2. IInv /\ [Next]_vars /\ TypeOK' /\ IdsConserved' => (FocusConsistent /\ FocusExclusive)'
  BY NextKeepsFocus
<1> QED BY <1>1, <1>2, TypeCorrect, IdsAreConserved, PTL DEF Spec, IInv

(* In every reachable state the focus pointers of the groups and the       *)
(* focused flags of the contexts agree, no destroyed context is focused or *)
(* in a group, no context is in a group that has been freed, and either    *)
(* the global group or the local groups have no focus: focus_in and        *)
(* set_focus_group never leave both sides with one.                        *)
THEOREM FocusIsExact == Spec => []FocusExact
BY FocusInvariant, PTL DEF FocusExact

(* Only fcitx_input_context_new makes a context: the blocks in use after   *)
(* any other step were in use before it.                                   *)
LEMMA OthersMakeNoContext ==
  ASSUME TypeOK, IdsConserved, [Next]_vars, ~input_context_new
  PROVE  Live' \subseteq Live
<1>1. CASE UNCHANGED idVars
  BY <1>1 DEF idVars, Live
<1>2. ASSUME NEW i \in Ids, input_context_destroy(i) PROVE Live' \subseteq Live
  BY <1>2, DestroyKeepsIds
<1>3. CASE manager_destroy_all_input_context \/ manager_free
  BY <1>3, DestroyEachKeepsIds DEF manager_destroy_all_input_context, manager_free
<1>4. ASSUME NEW i \in Ids, ContextStep(i), ~input_context_destroy(i) PROVE UNCHANGED idVars
  <2>1. CASE DataStep
    BY <2>1 DEF DataStep
  <2> QED BY <1>4, <2>1, DataSteps DEF ContextStep, input_context_focus_in,
             input_context_focus_out, input_context_set_focus_group
<1>5. ASSUME NEW g \in Group, focus_group_new(g) \/ focus_group_free(g) PROVE UNCHANGED idVars
  BY <1>5 DEF focus_group_new, focus_group_free
<1> QED BY <1>1, <1>2, <1>3, <1>4, <1>5 DEF Next, vars

(* A context that reuses the block and the id of a destroyed one starts    *)
(* without flags, rectangle and text, in no group and without the focus:   *)
(* what creation does not reset, destruction has left reset.               *)
THEOREM NewContextsAreFresh == Spec => NewContextIsFresh
<1> DEFINE Fresh(i) == /\ flags'[i] = {} /\ rect'[i] = 0 /\ text'[i] = NoText
                       /\ group'[i] = Independent /\ ~focused'[i]
<1>1. ASSUME TypeOK, IdsConserved, FocusConsistent, [Next]_vars, NEW i \in Ids, i \notin Live, i \in Live'
      PROVE  Fresh(i)
  <2>1. input_context_new
    BY <1>1, OthersMakeNoContext
  <2>2. ASSUME NEW n \in Ids, Register(n) PROVE i = n /\ FreshData(n)
    <3>1. ics' = Append(ics, n) /\ FreshData(n)
      BY <2>2 DEF Register
    <3>2. Live' = Live \cup {n}
      BY <1>1, <3>1, AppendIsLink DEF Live, TypeOK
    <3> QED BY <1>1, <3>1, <3>2
  <2>3. FreshData(i)
    <3>1. CASE Recycle
      <4>1. Head(freeList) \in Ids /\ Register(Head(freeList))
        BY <1>1, <3>1 DEF Recycle, TypeOK
      <4> QED BY <2>2, <4>1
    <3>2. CASE DrawFreshId
      <4>1. NextId \in Ids /\ Register(NextId)
        BY <1>1, <3>2, DrawnIds DEF DrawFreshId
      <4> QED BY <2>2, <4>1
    <3>3. CASE NoIdLeft
      BY <1>1, <3>3 DEF NoIdLeft, Live
    <3> QED BY <2>1, <3>1, <3>2, <3>3 DEF input_context_new
  <2>4. group'[i] = Independent /\ ~focused'[i]
    BY <1>1, <2>1 DEF input_context_new, focusVars, FocusConsistent
  <2> QED BY <1>1, <2>3, <2>4 DEF FreshData, TypeOK
<1>2. TypeOK /\ IdsConserved /\ FocusConsistent /\ [Next]_vars
        => [\A i \in Ids : i \notin Live /\ i \in Live' => Fresh(i)]_vars
  BY <1>1
<1> QED BY <1>2, TypeCorrect, IdsAreConserved, FocusInvariant, PTL DEF Spec, NewContextIsFresh

----------------------------------------------------------------------------
(***************************************************************************)
(* What a listener of the event dispatcher sees.  A log leads from one     *)
(* view to another if observing its events, one after the other, does.     *)
(***************************************************************************)
Kinds == Requests \cup {"Created", "FocusIn", "FocusOut", "Destroyed", "destroyNotify",
                        "CapabilityChanged", "CursorRectChanged", "DeleteSurroundingText"}
Events == [kind : Kinds, ic : Ids]
Quiet == [kind : Kinds \ {"FocusIn"}, ic : Ids]
Views == [Ids -> {"absent", "out", "in", "gone", "illegal"}]

IsViews(f, v, s) ==
  /\ f = [n \in 0..Len(s) |-> f[n]] /\ f[0] = v
  /\ \A n \in 1..Len(s) : f[n] = Observe(f[n - 1], s[n])

Leads(v, s, w) == \E f : IsViews(f, v, s) /\ f[Len(s)] = w

(* The view of a state.                                                    *)
View(live, fd) == [j \in Ids |-> IF j \notin live THEN "absent" ELSE IF fd[j] THEN "in" ELSE "out"]

(* No event, no change.                                                    *)
LEMMA NothingObserved ==
  ASSUME NEW v
  PROVE  Leads(v, <<>>, v)
<1>1. IsViews([n \in 0..0 |-> v], v, <<>>)
  BY DEF IsViews
<1> QED BY <1>1 DEF Leads

(* One log after another.                                                  *)
LEMMA LeadsOn ==
  ASSUME NEW s \in Seq(Events), NEW t \in Seq(Events), NEW u, NEW v, NEW w,
         Leads(u, s, v), Leads(v, t, w)
  PROVE  Leads(u, s \o t, w)
<1> DEFINE M == Len(s)
           N == Len(t)
           st == s \o t
<1>1. PICK f : IsViews(f, u, s) /\ f[M] = v
  BY DEF Leads
<1>2. PICK g : IsViews(g, v, t) /\ g[N] = w
  BY DEF Leads
<1>3. /\ M \in Nat /\ N \in Nat /\ Len(st) = M + N
      /\ \A n \in 1..M : st[n] = s[n]
      /\ \A n \in 1..N : st[M + n] = t[n]
  OBVIOUS
<1> DEFINE h == [n \in 0..(M + N) |-> IF n <= M THEN f[n] ELSE g[n - M]]
<1> HIDE DEF M, N, st
<1>0. f[0] = u /\ f[M] = v /\ g[0] = v /\ g[N] = w
  BY <1>1, <1>2 DEF IsViews
<1>4. h[0] = u /\ h[M + N] = w
  <2>1. 0 \in 0..(M + N) /\ M + N \in 0..(M + N) /\ (M + N) - M = N /\ 0 <= M
    BY <1>3
  <2>2. h[0] = f[0] /\ h[M + N] = IF M + N <= M THEN f[M + N] ELSE g[N]
    BY <2>1
  <2>3. M + N <= M => N = 0 /\ M + N = M
    BY <1>3
  <2> QED BY <1>0, <2>2, <2>3
<1>5. ASSUME NEW n \in 1..(M + N) PROVE h[n] = Observe(h[n - 1], st[n])
  <2>1. CASE n <= M
    <3>1. n \in 1..M /\ h[n] = f[n] /\ h[n - 1] = f[n - 1]
      BY <1>3, <2>1
    <3> HIDE DEF h
    <3> QED BY <1>1, <1>3, <3>1 DEF IsViews, M
  <2>2. CASE n > M
    <3> DEFINE m == n - M
    <3>1. m \in 1..N /\ n = M + m /\ h[n] = g[m]
      BY <1>3, <2>2
    <3>2. h[n - 1] = g[m - 1]
      <4>1. CASE m = 1
        <5>1. n - 1 = M /\ n - 1 \in 0..(M + N) /\ M <= M
          BY <1>3, <3>1, <4>1
        <5>2. h[n - 1] = f[M]
          BY <5>1
        <5> HIDE DEF h
        <5> QED BY <1>0, <4>1, <5>2
      <4>2. CASE m # 1
        <5>1. n - 1 \in 0..(M + N) /\ ~(n - 1 <= M) /\ (n - 1) - M = m - 1
          BY <1>3, <2>2, <3>1, <4>2
        <5> HIDE DEF m
        <5> QED BY <5>1
      <4> QED BY <4>1, <4>2
    <3> HIDE DEF h, m
    <3> QED BY <1>2, <1>3, <3>1, <3>2 DEF IsViews, N
  <2> QED BY <1>3, <2>1, <2>2
<1>6. h = [n \in 0..(M + N) |-> h[n]]
  OBVIOUS
<1> HIDE DEF h
<1>7. IsViews(h, u, st)
  BY <1>3, <1>4, <1>5, <1>6 DEF IsViews
<1> QED BY <1>3, <1>4, <1>7 DEF Leads, st

(* One event.                                                              *)
LEMMA OneObserved ==
  ASSUME NEW v, NEW e \in Events
  PROVE  <<e>> \in Seq(Events) /\ Leads(v, <<e>>, Observe(v, e))
<1> DEFINE f == [n \in 0..1 |-> IF n = 0 THEN v ELSE Observe(v, e)]
<1>1. f = [n \in 0..1 |-> f[n]] /\ f[0] = v /\ f[1] = Observe(v, e)
  OBVIOUS
<1>2. <<e>> \in Seq(Events) /\ Len(<<e>>) = 1 /\ <<e>>[1] = e
  OBVIOUS
<1> HIDE DEF f
<1>3. \A n \in 1..1 : n = 1
  OBVIOUS
<1>4. IsViews(f, v, <<e>>)
  BY <1>1, <1>2, <1>3 DEF IsViews
<1> QED BY <1>1, <1>2, <1>4 DEF Leads

(* One event more.                                                         *)
LEMMA OneMoreObserved ==
  ASSUME NEW s \in Seq(Events), NEW e \in Events, NEW u, NEW v, Leads(u, s, v)
  PROVE  Append(s, e) \in Seq(Events) /\ Leads(u, Append(s, e), Observe(v, e))
<1>1. <<e>> \in Seq(Events) /\ Leads(v, <<e>>, Observe(v, e))
  BY OneObserved
<1>2. Leads(u, s \o <<e>>, Observe(v, e))
  BY <1>1, LeadsOn
<1>3. s \o <<e>> = Append(s, e) /\ Append(s, e) \in Seq(Events)
  BY <1>1
<1> QED BY <1>2, <1>3

(* The view after a step is the one its log leads to.                      *)
LEMMA ViewAfterLog ==
  ASSUME log' \in Seq(Events), NEW w, Leads(View(Live, focused), log', w)
  PROVE  ViewAfter(Len(log')) = w
<1> DEFINE N == Len(log')
           base == View(Live, focused)
           Is(f) == f = [n \in 0..N |-> IF n = 0 THEN base ELSE Observe(f[n - 1], log'[n])]
<1>1. N \in Nat
  OBVIOUS
<1> HIDE DEF base
<1>2. PICK f : IsViews(f, base, log') /\ f[N] = w
  BY DEF Leads, base
<1> HIDE DEF N
<1>3. /\ f = [n \in 0..N |-> f[n]]
      /\ \A n \in 0..N : f[n] = IF n = 0 THEN base ELSE Observe(f[n - 1], log'[n])
  BY <1>1, <1>2 DEF IsViews, N
<1>4. Is(f)
  BY <1>3
<1> DEFINE F == CHOOSE g : Is(g)
<1>5. \A n \in 0..N : F[n] = IF n = 0 THEN base ELSE Observe(F[n - 1], log'[n])
  <2>1. Is(F)
    <3> HIDE DEF Is
    <3> QED BY <1>4
  <2> HIDE DEF F
  <2> QED BY <2>1
<1>6. ViewAfter(Len(log')) = F[N]
  BY DEF ViewAfter, View, Seen, N, base
<1> HIDE DEF F
<1> DEFINE T == {n \in 0..N : F[n] = f[n]}
<1>7. 0 \in T
  <2>1. 0 \in 0..N
    BY <1>1
  <2> QED BY <1>3, <1>5, <2>1
<1>8. ASSUME NEW n \in 0..(N - 1), n \in T PROVE n + 1 \in T
  <2>1. n + 1 \in 0..N /\ n + 1 # 0 /\ (n + 1) - 1 = n
    BY <1>1
  <2> QED BY <1>3, <1>5, <1>8, <2>1
<1>9. N \in T
  <2> HIDE DEF T
  <2>1. \A n \in 0..N : n \in T
    BY <1>1, <1>7, <1>8, CountingUp
  <2> QED BY <1>1, <2>1
<1> QED BY <1>2, <1>6, <1>9

(* What each event does to the view of its context.                        *)
LEMMA Observed ==
  ASSUME NEW v \in Views, NEW i \in Ids
  PROVE  /\ v[i] = "absent" => Observe(v, Event("Created", i)) = [v EXCEPT ![i] = "out"]
         /\ v[i] = "out" => Observe(v, Event("FocusIn", i)) = [v EXCEPT ![i] = "in"]
         /\ v[i] = "in" => Observe(v, Event("FocusOut", i)) = [v EXCEPT ![i] = "out"]
         /\ v[i] = "out" => Observe(v, Event("Destroyed", i)) = [v EXCEPT ![i] = "gone"]
         /\ v[i] = "gone" => Observe(v, Event("destroyNotify", i)) = [v EXCEPT ![i] = "absent"]
<1>1. \A kind : Event(kind, i).ic = i /\ Event(kind, i).kind = kind
  BY DEF Event
<1> QED BY <1>1 DEF Observe

(* What changes neither life nor focus changes no view of them.            *)
LEMMA OthersObserved ==
  ASSUME NEW v \in Views, NEW i \in Ids, v[i] \in {"out", "in"},
         NEW kind, kind \notin {"Created", "FocusIn", "FocusOut", "Destroyed", "destroyNotify"}
  PROVE  Observe(v, Event(kind, i)) = v
<1>1. Event(kind, i).ic = i /\ Event(kind, i).kind = kind
  BY DEF Event
<1>2. Observe(v, Event(kind, i)) = [v EXCEPT ![i] = v[i]]
  BY <1>1 DEF Observe
<1> QED BY <1>2 DEF Views

(* The events of a context.                                                *)
LEMMA EventTypes ==
  ASSUME NEW kind \in Kinds, NEW i \in Ids
  PROVE  Event(kind, i) \in Events
BY DEF Event, Events

(* Logs without a FocusIn are logs.                                        *)
LEMMA QuietTypes ==
  /\ \A s \in Seq(Quiet) : s \in Seq(Events)
  /\ \A kind \in Kinds \ {"FocusIn"}, i \in Ids : Event(kind, i) \in Quiet
<1>1. Quiet \subseteq Events
  BY DEF Quiet, Events
<1>2. \A s \in Seq(Quiet) : s \in Seq(Events)
  BY <1>1
<1>3. \A kind \in Kinds \ {"FocusIn"}, i \in Ids : Event(kind, i) \in Quiet
  BY DEF Event, Quiet
<1> QED BY <1>2, <1>3

----------------------------------------------------------------------------
(* Each scope has its own holder, and the view has it in focus.            *)
SeenHolding(fc, v) ==
  /\ \A r, s \in Scopes : fc[r] = fc[s] /\ fc[r] # NoIC => r = s
  /\ \A s \in Scopes : fc[s] # NoIC => v[fc[s]] = "in"

(* Clearing the scopes, one after the other, is seen as every holder       *)
(* leaving: each scope has its own holder, so nobody leaves twice.         *)
LEMMA ClearIsFollowed ==
  ASSUME NEW scopes \in Seq(Scopes), IsInjective(scopes),
         NEW fc \in [Scopes -> Ids \cup {NoIC}], NEW v \in Views,
         SeenHolding(fc, v)
  PROVE  /\ LogOfClear(scopes, fc) \in Seq(Quiet)
         /\ Leads(v, LogOfClear(scopes, fc),
                  [j \in Ids |-> IF \E s \in ToSet(scopes) : fc[s] = j THEN "out" ELSE v[j]])
<1> DEFINE N == Len(scopes)
           more(told, n) == IF fc[scopes[n]] = NoIC THEN told
                            ELSE Append(told, Event("FocusOut", fc[scopes[n]]))
           step == [x \in Seq(Quiet) \X (1..N) |-> more(x[1], x[2])]
           Is(f) == f = [n \in 0..N |-> IF n = 0 THEN <<>> ELSE more(f[n - 1], n)]
           Seen_(n) == [j \in Ids |-> IF \E m \in 1..n : fc[scopes[m]] = j THEN "out" ELSE v[j]]
<1>1. N \in Nat /\ DOMAIN scopes = 1..N /\ \A n \in 1..N : scopes[n] \in Scopes
  OBVIOUS
<1> HIDE DEF N
<1>2. ASSUME NEW told \in Seq(Quiet), NEW n \in 1..N PROVE more(told, n) \in Seq(Quiet)
  <2>1. CASE fc[scopes[n]] = NoIC
    BY <2>1
  <2>2. CASE fc[scopes[n]] # NoIC
    <3>1. fc[scopes[n]] \in Ids
      BY <1>1, <2>2
    <3>2. Event("FocusOut", fc[scopes[n]]) \in Quiet
      BY <3>1, QuietTypes DEF Kinds
    <3> QED BY <2>2, <3>2
  <2> QED BY <2>1, <2>2
<1> HIDE DEF more
<1>3. step \in [Seq(Quiet) \X (1..N) -> Seq(Quiet)]
  BY <1>2
<1>4. \E f : Is(f)
  <2>1. \A x \in Seq(Quiet), n \in 1..N : step[<<x, n>>] = more(x, n)
    OBVIOUS
  <2>2. <<>> \in Seq(Quiet)
    OBVIOUS
  <2> HIDE DEF step
  <2>3. PICK f : IsSteps(f, N, Seq(Quiet), <<>>, step)
    BY <1>1, <1>3, <2>2, StepsExist
  <2>4. ASSUME NEW n \in 0..N
        PROVE  f[n] = IF n = 0 THEN <<>> ELSE more(f[n - 1], n)
    <3>1. CASE n = 0
      BY <2>3, <3>1 DEF IsSteps
    <3>2. CASE n # 0
      <4>1. n \in 1..N /\ n - 1 \in 0..N
        BY <1>1, <3>2
      <4>2. f[n - 1] \in Seq(Quiet)
        BY <2>3, <4>1 DEF IsSteps
      <4> QED BY <2>1, <2>3, <3>2, <4>1, <4>2 DEF IsSteps
    <3> QED BY <3>1, <3>2
  <2>5. Is(f)
    BY <2>3, <2>4 DEF IsSteps
  <2> HIDE DEF Is
  <2> QED BY <2>5
<1> DEFINE F == CHOOSE f : Is(f)
<1>5. \A n \in 0..N : F[n] = IF n = 0 THEN <<>> ELSE more(F[n - 1], n)
  <2>1. Is(F)
    <3> HIDE DEF Is
    <3> QED BY <1>4
  <2> HIDE DEF F
  <2> QED BY <2>1
<1>6. LogOfClear(scopes, fc) = F[N]
  BY DEF LogOfClear, more, N
<1> HIDE DEF F, Is
<1> DEFINE T == {n \in 0..N : F[n] \in Seq(Quiet) /\ Leads(v, F[n], Seen_(n))}
<1>7. 0 \in T
  <2>1. 0 \in 0..N /\ F[0] = <<>> /\ <<>> \in Seq(Quiet)
    BY <1>1, <1>5
  <2>2. Seen_(0) = v
    BY DEF Views
  <2> HIDE DEF Seen_
  <2>3. Leads(v, <<>>, v)
    BY NothingObserved
  <2> QED BY <2>1, <2>2, <2>3
<1>8. ASSUME NEW n \in 0..(N - 1), n \in T PROVE n + 1 \in T
  <2> DEFINE i == fc[scopes[n + 1]]
  <2>1. n + 1 \in 1..N /\ (n + 1) - 1 = n /\ n + 1 \in 0..N /\ n + 1 # 0 /\ n \in 0..N
        /\ 1..(n + 1) = 1..n \cup {n + 1} /\ 1..n \subseteq 1..N /\ n + 1 \notin 1..n
    BY <1>1
  <2>2. F[n + 1] = more(F[n], n + 1)
    BY <1>5, <2>1
  <2>3. F[n] \in Seq(Quiet) /\ Leads(v, F[n], Seen_(n))
    BY <1>8
  <2>4. F[n + 1] \in Seq(Quiet)
    BY <1>2, <2>1, <2>2, <2>3
  <2>5. CASE i = NoIC
    <3>1. F[n + 1] = F[n]
      BY <2>2, <2>5 DEF more
    <3>2. Seen_(n + 1) = Seen_(n)
      <4>1. NoIC \notin Ids
        BY DEF NoIC, Ids
      <4>2. \A j \in Ids : (\E m \in 1..(n + 1) : fc[scopes[m]] = j) <=> \E m \in 1..n : fc[scopes[m]] = j
        BY <2>1, <2>5, <4>1
      <4> QED BY <4>2
    <3> QED BY <2>1, <2>3, <3>1, <3>2
  <2>6. CASE i # NoIC
    <3>1. i \in Ids /\ scopes[n + 1] \in Scopes /\ v[i] = "in"
      BY <1>1, <2>1, <2>6 DEF SeenHolding
    <3>2. \A m \in 1..n : fc[scopes[m]] # i
      <4>1. \A m \in 1..n : scopes[m] \in Scopes /\ scopes[m] # scopes[n + 1]
        BY <1>1, <2>1 DEF IsInjective
      <4> QED BY <2>6, <3>1, <4>1 DEF SeenHolding
    <3> HIDE DEF i
    <3>3. Seen_(n) \in Views /\ Seen_(n)[i] = "in"
      BY <3>1, <3>2 DEF Views
    <3>4. Observe(Seen_(n), Event("FocusOut", i)) = [Seen_(n) EXCEPT ![i] = "out"]
      <4> HIDE DEF Seen_
      <4> QED BY <3>1, <3>3, Observed
    <3>5. [Seen_(n) EXCEPT ![i] = "out"] = Seen_(n + 1)
      <4>1. \A j \in Ids : (\E m \in 1..(n + 1) : fc[scopes[m]] = j)
                             <=> (\E m \in 1..n : fc[scopes[m]] = j) \/ j = i
        BY <2>1 DEF i
      <4> QED BY <3>1, <4>1
    <3>6. F[n + 1] = Append(F[n], Event("FocusOut", i))
      BY <2>2, <2>6 DEF more, i
    <3>7. Event("FocusOut", i) \in Events
      BY <3>1, EventTypes DEF Kinds
    <3> HIDE DEF Seen_
    <3>8. Leads(v, F[n + 1], Seen_(n + 1))
      <4> DEFINE e == Event("FocusOut", i)
                 old == F[n]
                 now == Seen_(n)
      <4>1. e \in Events /\ old \in Seq(Events) /\ Leads(v, old, now)
        BY <2>3, <3>7, QuietTypes
      <4> HIDE DEF e, old, now
      <4>2. Leads(v, Append(old, e), Observe(now, e))
        BY <4>1, OneMoreObserved
      <4> QED BY <3>4, <3>5, <3>6, <4>2 DEF e, old, now
    <3> QED BY <2>1, <2>4, <3>8
  <2> QED BY <2>5, <2>6
<1>9. N \in T
  <2> HIDE DEF T
  <2>1. \A n \in 0..N : n \in T
    BY <1>1, <1>7, <1>8, CountingUp
  <2> QED BY <1>1, <2>1
<1>10. Seen_(N) = [j \in Ids |-> IF \E s \in ToSet(scopes) : fc[s] = j THEN "out" ELSE v[j]]
  <2>1. \A j : (\E m \in 1..N : fc[scopes[m]] = j) <=> \E s \in ToSet(scopes) : fc[s] = j
    BY <1>1 DEF ToSet
  <2> QED BY <2>1
<1> QED BY <1>6, <1>9, <1>10

(* What the view of a state says of each context.                          *)
LEMMA ViewTypes ==
  ASSUME NEW live, NEW fd
  PROVE  /\ View(live, fd) \in Views
         /\ \A j \in Ids : /\ j \notin live => View(live, fd)[j] = "absent"
                           /\ j \in live /\ fd[j] => View(live, fd)[j] = "in"
                           /\ j \in live /\ ~fd[j] => View(live, fd)[j] = "out"
BY DEF View, Views

(* The scopes that are cleared are named once.                             *)
LEMMA ClearOrderTypes ==
  ASSUME TypeOK, IsInjective(groups), NEW g \in Scopes \cup {Independent}
  PROVE  ClearOrder(g) \in Seq(Scopes) /\ IsInjective(ClearOrder(g))
<1>1. CASE g = Independent
  <2>1. ClearOrder(g) = <<>> /\ <<>> \in Seq(Scopes) /\ DOMAIN <<>> = {}
    BY <1>1 DEF ClearOrder
  <2> QED BY <2>1 DEF IsInjective
<1>2. CASE g = Global
  <2>1. ClearOrder(g) = Append(groups, Global) /\ Global \in Scopes
    BY <1>2 DEF ClearOrder, Scopes
  <2>2. groups \in Seq(Scopes)
    BY DEF TypeOK, Scopes
  <2>3. Global \notin ToSet(groups)
    BY DEF TypeOK, ToSet
  <2> QED BY <2>1, <2>2, <2>3, AppendIsLink
<1>3. CASE g \in Group
  <2>1. g # Global /\ g # Independent /\ g \in Scopes /\ Global \in Scopes
    BY <1>3 DEF Scopes
  <2>2. ClearOrder(g) = <<Global, g>>
    BY <2>1 DEF ClearOrder
  <2>3. <<Global, g>> \in Seq(Scopes) /\ IsInjective(<<Global, g>>)
    BY <2>1 DEF IsInjective
  <2> QED BY <2>2, <2>3
<1> QED BY <1>1, <1>2, <1>3 DEF Scopes

(* Gaining the focus is seen as the old holders leaving and the new one    *)
(* entering, last.                                                         *)
LEMMA InIsFollowed ==
  ASSUME TypeOK, IsInjective(groups), NEW i \in Ids, i \in Live,
         NEW g \in Scopes \cup {Independent}, NEW grp,
         NEW fc \in [Scopes -> Ids \cup {NoIC}], NEW fd \in [Ids -> BOOLEAN],
         Agree(Live, grp, fc, fd), fd[i] => g = Independent \/ fc[g] = i
  PROVE  /\ LogOfIn(i, g, fc, fd) \in Seq(Events)
         /\ Leads(View(Live, fd), LogOfIn(i, g, fc, fd), View(Live, FocusedAfterIn(i, g, fc, fd)))
<1> DEFINE v == View(Live, fd)
           after == FocusedAfterIn(i, g, fc, fd)
           mid == [j \in Ids |-> IF \E s \in Cleared(g) : fc[s] = j THEN "out" ELSE v[j]]
           cleared == LogOfClear(ClearOrder(g), fc)
<1>1. \A j \in Ids : after[j] <=> j = i \/ (fd[j] /\ ~ \E s \in Cleared(g) : fc[s] = j)
  BY DEF FocusedAfterIn
<1>2. /\ v \in Views
      /\ \A j \in Ids : /\ j \notin Live => v[j] = "absent"
                        /\ j \in Live /\ fd[j] => v[j] = "in"
                        /\ j \in Live /\ ~fd[j] => v[j] = "out"
  BY ViewTypes
<1>3. Cleared(g) \subseteq Scopes /\ (g # Independent => g \in Cleared(g)) /\ (g = Independent => Cleared(g) = {})
  <2>1. Cleared(g) = IF g = Independent THEN {}
                     ELSE IF g = Global THEN ToSet(groups) \cup {Global} ELSE {Global, g}
    BY ClearedScopes
  <2>2. ToSet(groups) \subseteq Scopes /\ Global \in Scopes
    BY DEF TypeOK, Scopes, ToSet
  <2> QED BY <2>1, <2>2
<1>4. \A s \in Scopes : fc[s] # NoIC => fc[s] \in Ids /\ fc[s] \in Live /\ grp[fc[s]] = s /\ fd[fc[s]]
  BY DEF Agree
<1>5. SeenHolding(fc, v)
  BY <1>2, <1>4 DEF SeenHolding
<1>6. CASE g = Independent /\ fd[i]
  <2>1. LogOfIn(i, g, fc, fd) = <<>> /\ <<>> \in Seq(Events)
    BY <1>6 DEF LogOfIn
  <2>2. \A j \in Ids : after[j] <=> fd[j]
    BY <1>1, <1>3, <1>6
  <2>3. View(Live, after) = v
    <3> HIDE DEF after
    <3> QED BY <2>2 DEF View
  <2> QED BY <2>1, <2>3, NothingObserved
<1>7. CASE ~(g = Independent /\ fd[i])
  <2>1. LogOfIn(i, g, fc, fd) = Append(cleared, Event("FocusIn", i))
    BY <1>7 DEF LogOfIn
  <2>2. cleared \in Seq(Events) /\ Leads(v, cleared, mid)
    <3>1. ClearOrder(g) \in Seq(Scopes) /\ IsInjective(ClearOrder(g))
      BY ClearOrderTypes
    <3> DEFINE scopes == ClearOrder(g)
    <3>2. v \in Views /\ scopes \in Seq(Scopes) /\ IsInjective(scopes)
      BY <1>2, <3>1
    <3> HIDE DEF v, scopes
    <3>3. /\ LogOfClear(scopes, fc) \in Seq(Quiet)
          /\ Leads(v, LogOfClear(scopes, fc),
                   [j \in Ids |-> IF \E s \in ToSet(scopes) : fc[s] = j THEN "out" ELSE v[j]])
      BY <1>5, <3>2, ClearIsFollowed
    <3>4. cleared = LogOfClear(scopes, fc) /\ Cleared(g) = ToSet(scopes)
      BY DEF scopes, Cleared
    <3> HIDE DEF cleared
    <3> QED BY <3>3, <3>4, QuietTypes
  <2> HIDE DEF v, after
  <2>3. mid \in Views /\ mid[i] = "out"
    <3>1. mid \in Views
      BY <1>2 DEF Views
    <3>4. mid[i] = IF \E s \in Cleared(g) : fc[s] = i THEN "out" ELSE v[i]
      OBVIOUS
    <3> HIDE DEF mid
    <3>2. CASE fd[i]
      <4>1. g \in Cleared(g) /\ fc[g] = i
        BY <1>3, <1>7, <3>2
      <4> QED BY <3>1, <3>4, <4>1
    <3>3. CASE ~fd[i]
      <4>1. v[i] = "out"
        BY <1>2, <3>3
      <4> QED BY <3>1, <3>4, <4>1
    <3> QED BY <3>1, <3>2, <3>3
  <2>4. [mid EXCEPT ![i] = "in"] = View(Live, after)
    <3> DEFINE w == [mid EXCEPT ![i] = "in"]
    <3>1. w = [j \in Ids |-> w[j]] /\ View(Live, after) = [j \in Ids |-> View(Live, after)[j]]
      BY DEF View
    <3>2. ASSUME NEW j \in Ids PROVE w[j] = View(Live, after)[j]
      <4>1. CASE j = i
        BY <1>1, <4>1, ViewTypes
      <4>2. CASE j # i /\ \E s \in Cleared(g) : fc[s] = j
        <5>1. w[j] = "out" /\ ~after[j]
          BY <1>1, <4>2
        <5>2. j \in Live
          BY <1>3, <1>4, <4>2 DEF NoIC, Ids
        <5> QED BY <5>1, <5>2, ViewTypes
      <4>3. CASE j # i /\ ~ \E s \in Cleared(g) : fc[s] = j
        <5>1. w[j] = v[j] /\ (after[j] <=> fd[j])
          BY <1>1, <4>3
        <5> QED BY <1>2, <5>1, ViewTypes
      <4> QED BY <4>1, <4>2, <4>3
    <3> HIDE DEF w
    <3> QED BY <3>1, <3>2 DEF w
  <2> HIDE DEF mid, cleared
  <2>5. Observe(mid, Event("FocusIn", i)) = View(Live, after)
    BY <2>3, <2>4, Observed
  <2> DEFINE e == Event("FocusIn", i)
  <2>6. e \in Events
    BY EventTypes DEF Kinds
  <2> HIDE DEF e
  <2>7. Append(cleared, e) \in Seq(Events) /\ Leads(v, Append(cleared, e), Observe(mid, e))
    BY <2>2, <2>6, OneMoreObserved
  <2> QED BY <2>1, <2>5, <2>7 DEF e, v, after
<1> QED BY <1>6, <1>7

(* Giving the focus up is seen as leaving.                                 *)
LEMMA OutIsFollowed ==
  ASSUME TypeOK, NEW i \in Ids, i \in Live, Agree(Live, group, focus, focused)
  PROVE  /\ LogOfOut(i) \in Seq(Events)
         /\ Leads(View(Live, focused), LogOfOut(i), View(Live, FocusedAfterOut(i)))
<1> DEFINE v == View(Live, focused)
           after == FocusedAfterOut(i)
<1>1. GivesUp(i) <=> focused[i]
  <2>1. group[i] \in Scopes \cup {Independent} /\ Independent \notin Scopes
    BY DEF TypeOK, Scopes
  <2> QED BY <2>1 DEF GivesUp, Agree
<1>2. \A j \in Ids : after[j] <=> focused[j] /\ j # i
  BY <1>1 DEF FocusedAfterOut, TypeOK
<1>3. /\ v \in Views
      /\ \A j \in Ids : /\ j \notin Live => v[j] = "absent"
                        /\ j \in Live /\ focused[j] => v[j] = "in"
                        /\ j \in Live /\ ~focused[j] => v[j] = "out"
  BY ViewTypes
<1> HIDE DEF v, after
<1>4. CASE focused[i]
  <2> DEFINE e == Event("FocusOut", i)
  <2>1. LogOfOut(i) = <<e>> /\ e \in Events
    BY <1>1, <1>4, EventTypes DEF LogOfOut, Kinds
  <2>2. v[i] = "in"
    BY <1>3, <1>4
  <2>3. Observe(v, e) = [v EXCEPT ![i] = "out"]
    BY <1>3, <2>2, Observed
  <2>4. [v EXCEPT ![i] = "out"] = View(Live, after)
    <3>1. View(Live, after) = [j \in Ids |-> View(Live, after)[j]] /\ v = [j \in Ids |-> v[j]]
      BY <1>3 DEF View, Views
    <3>2. \A j \in Ids : View(Live, after)[j] = IF j = i THEN "out" ELSE v[j]
      BY <1>2, <1>3, ViewTypes
    <3> QED BY <3>1, <3>2
  <2> HIDE DEF e
  <2>5. <<e>> \in Seq(Events) /\ Leads(v, <<e>>, Observe(v, e))
    BY <2>1, OneObserved
  <2> QED BY <2>1, <2>3, <2>4, <2>5 DEF v, after
<1>5. CASE ~focused[i]
  <2>1. LogOfOut(i) = <<>> /\ <<>> \in Seq(Events)
    BY <1>1, <1>5 DEF LogOfOut
  <2>2. \A j \in Ids : after[j] <=> focused[j]
    BY <1>2, <1>5
  <2>3. View(Live, after) = v
    BY <2>2 DEF View, v
  <2> QED BY <2>1, <2>3, NothingObserved DEF v, after
<1> QED BY <1>4, <1>5

----------------------------------------------------------------------------
(* The manager's list never names a local group twice.                     *)
LEMMA NextKeepsGroups ==
  ASSUME TypeOK, IsInjective(groups), [Next]_vars
  PROVE  IsInjective(groups')
<1>1. CASE UNCHANGED groups
  BY <1>1
<1>2. CASE groups' = <<>>
  BY <1>2 DEF IsInjective
<1>3. ASSUME NEW g \in Group, focus_group_new(g) PROVE IsInjective(groups')
  <2>1. groups' = Append(groups, g) /\ g \notin ToSet(groups)
    BY <1>3 DEF focus_group_new, list_append
  <2> QED BY <2>1, AppendIsLink DEF TypeOK
<1>4. ASSUME NEW g \in Group, focus_group_free(g) PROVE IsInjective(groups')
  <2>1. groups' = list_remove(groups, g) /\ g \in ToSet(groups)
    BY <1>4 DEF focus_group_free
  <2> QED BY <2>1, RemoveIsUnlink DEF TypeOK
<1>5. ASSUME NEW i \in Ids, ContextStep(i) PROVE UNCHANGED groups
  <2>1. CASE DataStep
    BY <2>1 DEF DataStep, focusVars
  <2> QED BY <1>5, <2>1, DataSteps DEF ContextStep, input_context_focus_in,
             input_context_focus_out, input_context_set_focus_group, input_context_destroy
<1>6. CASE input_context_new \/ manager_destroy_all_input_context \/ manager_free
  BY <1>1, <1>2, <1>6 DEF input_context_new, manager_destroy_all_input_context, manager_free, focusVars
<1>7. CASE UNCHANGED vars
  BY <1>1, <1>7 DEF vars, focusVars
<1> QED BY <1>1, <1>3, <1>4, <1>5, <1>6, <1>7 DEF Next

(* No local group is ever on the list twice.                               *)
LEMMA GroupsAreListedOnce == Spec => []IsInjective(groups)
<1>1. Init => IsInjective(groups)
  BY DEF Init, IsInjective
<1>2. TypeOK /\ IsInjective(groups) /\ [Next]_vars => IsInjective(groups)'
  BY NextKeepsGroups
<1> QED BY <1>1, <1>2, TypeCorrect, PTL DEF Spec

(* The end of a context is seen as it leaving, if it was focused, and      *)
(* going, whatever the others are seen as.                                 *)
LEMMA EndIsFollowed ==
  ASSUME TypeOK, Agree(Live, group, focus, focused), NEW i \in Ids, i \in Live,
         NEW v \in Views, v[i] = IF focused[i] THEN "in" ELSE "out"
  PROVE  /\ LogOfDestroy(i) \in Seq(Events)
         /\ Leads(v, LogOfDestroy(i), [v EXCEPT ![i] = "absent"])
<1> DEFINE u == [v EXCEPT ![i] = "out"]
           gone == [u EXCEPT ![i] = "gone"]
           end == [v EXCEPT ![i] = "absent"]
           left == Event("FocusOut", i)
           d == Event("Destroyed", i)
           n == Event("destroyNotify", i)
<1>1. GivesUp(i) <=> focused[i]
  <2>1. group[i] \in Scopes \cup {Independent} /\ Independent \notin Scopes
    BY DEF TypeOK, Scopes
  <2> QED BY <2>1 DEF GivesUp, Agree
<1>2. left \in Events /\ d \in Events /\ n \in Events
  BY EventTypes DEF Kinds
<1>3. u \in Views /\ u[i] = "out" /\ gone \in Views /\ gone[i] = "gone"
  BY DEF Views
<1>4. Observe(u, d) = gone /\ Observe(gone, n) = [gone EXCEPT ![i] = "absent"]
  <2> HIDE DEF u, gone
  <2>1. Observe(u, Event("Destroyed", i)) = [u EXCEPT ![i] = "gone"]
    BY <1>3, Observed
  <2>2. Observe(gone, Event("destroyNotify", i)) = [gone EXCEPT ![i] = "absent"]
    BY <1>3, Observed
  <2> QED BY <2>1, <2>2 DEF gone
<1>5. [gone EXCEPT ![i] = "absent"] = end
  BY DEF Views
<1>6. LogOfOut(i) \in Seq(Events) /\ Leads(v, LogOfOut(i), u)
  <2>1. CASE focused[i]
    <3>1. LogOfOut(i) = <<left>> /\ v[i] = "in"
      BY <1>1, <2>1 DEF LogOfOut
    <3>2. Observe(v, left) = u
      BY <3>1, Observed
    <3> HIDE DEF left, u
    <3> QED BY <1>2, <3>1, <3>2, OneObserved
  <2>2. CASE ~focused[i]
    <3>1. LogOfOut(i) = <<>> /\ v[i] = "out" /\ <<>> \in Seq(Events)
      BY <1>1, <2>2 DEF LogOfOut
    <3>2. u = v
      BY <3>1 DEF Views
    <3> HIDE DEF u
    <3> QED BY <3>1, <3>2, NothingObserved
  <2> QED BY <2>1, <2>2
<1>7. LogOfDestroy(i) = LogOfOut(i) \o <<d, n>>
  BY DEF LogOfDestroy
<1> HIDE DEF u, gone, end, d, n
<1>8. <<d, n>> \in Seq(Events) /\ Leads(u, <<d, n>>, end)
  <2>1. <<d>> \in Seq(Events) /\ Leads(u, <<d>>, gone)
    BY <1>2, <1>4, OneObserved
  <2>2. <<n>> \in Seq(Events) /\ Leads(gone, <<n>>, end)
    <3>1. Observe(gone, n) = end
      BY <1>4, <1>5
    <3> QED BY <1>2, <3>1, OneObserved
  <2>3. Leads(u, <<d>> \o <<n>>, end)
    BY <2>1, <2>2, LeadsOn
  <2>4. <<d, n>> \in Seq(Events)
    BY <1>2
  <2> QED BY <2>3, <2>4, TwoElements
<1>9. Leads(v, LogOfOut(i) \o <<d, n>>, end)
  BY <1>6, <1>8, LeadsOn
<1> QED BY <1>6, <1>7, <1>8, <1>9 DEF end

(* The ends of all contexts are seen as everyone leaving and going: none   *)
(* of them is on the list twice.                                           *)
LEMMA EachEndIsFollowed ==
  ASSUME TypeOK, IdsConserved, Agree(Live, group, focus, focused)
  PROVE  LET told == FlattenSeq([k \in DOMAIN ics |-> LogOfDestroy(ics[k])])
         IN  /\ told \in Seq(Events)
             /\ Leads(View(Live, focused), told, [j \in Ids |-> "absent"])
<1> DEFINE N == Len(ics)
           seqs == [k \in DOMAIN ics |-> LogOfDestroy(ics[k])]
           v == View(Live, focused)
           W(n) == [j \in Ids |-> IF \E m \in 1..n : ics[m] = j THEN "absent" ELSE v[j]]
<1>1. /\ N \in Nat /\ DOMAIN ics = 1..N
      /\ \A n \in 1..N : ics[n] \in Ids /\ ics[n] \in Live
  BY DEF TypeOK, Live, ToSet
<1>2. /\ v \in Views
      /\ \A j \in Ids : /\ j \notin Live => v[j] = "absent"
                        /\ j \in Live => v[j] = IF focused[j] THEN "in" ELSE "out"
  BY ViewTypes DEF TypeOK
<1> HIDE DEF v, N
<1>3. ASSUME NEW n \in 1..N, NEW x \in Views, x[ics[n]] = IF focused[ics[n]] THEN "in" ELSE "out"
      PROVE  /\ LogOfDestroy(ics[n]) \in Seq(Events)
             /\ Leads(x, LogOfDestroy(ics[n]), [x EXCEPT ![ics[n]] = "absent"])
  BY <1>1, <1>3, EndIsFollowed
<1>4. \A n \in 1..N : LogOfDestroy(ics[n]) \in Seq(Events)
  BY <1>1, <1>2, <1>3
<1>5. seqs \in Seq(Seq(Events)) /\ Len(seqs) = N /\ \A n \in 1..N : seqs[n] = LogOfDestroy(ics[n])
  BY <1>1, <1>4
<1> HIDE DEF seqs
<1>6. PICK f : IsFlattening(f, seqs, Events) /\ FlattenSeq(seqs) = f[Len(seqs)]
  BY <1>5, FlattenedInSteps
<1>7. /\ \A n \in 0..N : f[n] \in Seq(Events)
      /\ f[0] = <<>> /\ \A n \in 1..N : f[n] = f[n - 1] \o seqs[n]
  BY <1>5, <1>6 DEF IsFlattening
<1> DEFINE T == {n \in 0..N : Leads(v, f[n], W(n))}
<1>8. 0 \in T
  <2>1. W(0) = v
    BY <1>2 DEF Views
  <2> HIDE DEF W
  <2> QED BY <1>1, <1>7, <2>1, NothingObserved
<1>9. ASSUME NEW n \in 0..(N - 1), n \in T PROVE n + 1 \in T
  <2> DEFINE i == ics[n + 1]
             x == W(n)
             s == f[n]
             t == seqs[n + 1]
  <2>1. n + 1 \in 1..N /\ (n + 1) - 1 = n /\ n + 1 \in 0..N /\ n \in 0..N
        /\ 1..(n + 1) = 1..n \cup {n + 1} /\ 1..n \subseteq 1..N /\ n + 1 \notin 1..n
    BY <1>1
  <2>2. f[n + 1] = f[n] \o seqs[n + 1]
    BY <1>7, <2>1
  <2>3. i \in Ids /\ i \in Live
    BY <1>1, <2>1
  <2>4. \A m \in 1..n : ics[m] # i
    BY <1>1, <2>1 DEF IdsConserved, IsInjective
  <2>5. x \in Views /\ x[i] = v[i]
    BY <1>2, <2>3, <2>4 DEF Views
  <2>6. [x EXCEPT ![i] = "absent"] = W(n + 1)
    <3>1. \A j \in Ids : (\E m \in 1..(n + 1) : ics[m] = j) <=> (\E m \in 1..n : ics[m] = j) \/ j = i
      BY <2>1
    <3> QED BY <2>3, <3>1
  <2> HIDE DEF x
  <2>7. t \in Seq(Events) /\ Leads(x, t, [x EXCEPT ![i] = "absent"])
    <3>1. x[i] = IF focused[i] THEN "in" ELSE "out"
      BY <1>2, <2>3, <2>5
    <3> QED BY <1>3, <1>5, <2>1, <2>5, <3>1
  <2>8. s \in Seq(Events) /\ Leads(v, s, x)
    BY <1>7, <1>9, <2>1 DEF x
  <2> HIDE DEF W, i, s, t
  <2>9. Leads(v, s \o t, W(n + 1))
    BY <2>6, <2>7, <2>8, LeadsOn
  <2> QED BY <2>1, <2>2, <2>9 DEF s, t
<1>10. N \in T
  <2> HIDE DEF T
  <2>1. \A n \in 0..N : n \in T
    BY <1>1, <1>8, <1>9, CountingUp
  <2> QED BY <1>1, <2>1
<1>11. W(N) = [j \in Ids |-> "absent"]
  <2>1. \A j \in Live : \E m \in 1..N : ics[m] = j
    BY <1>1 DEF Live, ToSet
  <2> QED BY <1>2, <2>1
<1>12. N \in 0..N
  BY <1>1
<1>13. f[N] \in Seq(Events) /\ Leads(v, f[N], [j \in Ids |-> "absent"])
  <2> HIDE DEF W
  <2> QED BY <1>7, <1>10, <1>11, <1>12
<1> QED BY <1>5, <1>6, <1>13 DEF seqs, v

----------------------------------------------------------------------------
(* What the listener has to see of a step.                                 *)
Followed ==
  /\ log' \in Seq(Events)
  /\ Leads(View(Live, focused), log', View(Live', focused'))

(* A step that tells nothing of a state that looks the same.               *)
LEMMA SilenceIsFollowed ==
  ASSUME log' = <<>>, Live' = Live, focused' = focused
  PROVE  Followed
<1>1. <<>> \in Seq(Events)
  OBVIOUS
<1> QED BY <1>1, NothingObserved DEF Followed

(* An event that is not one of the life or the focus.                      *)
LEMMA DataIsFollowed ==
  ASSUME NEW i \in Ids, i \in Live, NEW kind \in Kinds,
         kind \notin {"Created", "FocusIn", "FocusOut", "Destroyed", "destroyNotify"},
         log' = <<Event(kind, i)>>, Live' = Live, focused' = focused
  PROVE  Followed
<1> DEFINE v == View(Live, focused)
           e == Event(kind, i)
<1>1. v \in Views /\ v[i] \in {"out", "in"}
  <2>1. v \in Views /\ (focused[i] => v[i] = "in") /\ (~focused[i] => v[i] = "out")
    BY ViewTypes
  <2> QED BY <2>1
<1>2. e \in Events
  BY EventTypes
<1>3. Observe(v, e) = v
  <2> HIDE DEF v
  <2> QED BY <1>1, OthersObserved
<1> HIDE DEF v, e
<1>4. <<e>> \in Seq(Events) /\ Leads(v, <<e>>, v)
  BY <1>2, <1>3, OneObserved
<1> QED BY <1>4 DEF Followed, v, e

(* A creation is seen as the new context, unfocused.                       *)
LEMMA NewIsFollowed ==
  ASSUME IInv, input_context_new
  PROVE  Followed
<1>1. ASSUME NEW n \in Ids, n \notin Live, Register(n) PROVE Followed
  <2> DEFINE v == View(Live, focused)
             w == View(Live', focused')
             e == Event("Created", n)
  <2>1. ics' = Append(ics, n) /\ log' = <<e>>
    BY <1>1 DEF Register
  <2>2. Live' = Live \cup {n}
    BY <2>1, AppendIsLink DEF Live, IInv, TypeOK
  <2>3. focused' = focused /\ ~focused[n]
    BY <1>1 DEF input_context_new, focusVars, IInv, FocusConsistent
  <2>4. v \in Views /\ v[n] = "absent" /\ e \in Events
    BY <1>1, ViewTypes, EventTypes DEF Kinds
  <2>5. w = [v EXCEPT ![n] = "out"]
    BY <2>2, <2>3 DEF View
  <2> HIDE DEF v, w
  <2>6. Observe(v, e) = w
    BY <2>4, <2>5, Observed
  <2> HIDE DEF e
  <2>7. <<e>> \in Seq(Events) /\ Leads(v, <<e>>, w)
    BY <2>4, <2>6, OneObserved
  <2> QED BY <2>1, <2>7 DEF Followed, v, w
<1>2. CASE Recycle
  <2>1. Head(freeList) \in Ids /\ Head(freeList) \in ToSet(freeList) /\ Register(Head(freeList))
    BY <1>2, PopIsUnlink DEF Recycle, IInv, TypeOK
  <2>2. Head(freeList) \notin Live
    BY <2>1 DEF IInv, IdsConserved
  <2> QED BY <1>1, <2>1, <2>2
<1>3. CASE DrawFreshId
  <2>1. NextId \in Ids /\ NextId \notin Live /\ Register(NextId)
    BY <1>3, DrawnIds DEF DrawFreshId, IInv
  <2> QED BY <1>1, <2>1
<1>4. CASE NoIdLeft
  <2>1. log' = <<>> /\ ics' = ics /\ focused' = focused
    BY <1>4 DEF NoIdLeft, input_context_new, focusVars
  <2> QED BY <2>1, SilenceIsFollowed DEF Live
<1> QED BY <1>2, <1>3, <1>4 DEF input_context_new

(* A move is seen as the context leaving and entering again, if it was     *)
(* focused, and as the holders in its new group leaving in between.        *)
LEMMA MoveIsFollowed ==
  ASSUME IInv, IsInjective(groups), NEW i \in Ids, NEW g \in Group \cup {Global, Independent},
         input_context_set_focus_group(i, g)
  PROVE  Followed
<1>1. /\ TypeOK /\ i \in Live /\ g \in Scopes \cup {Independent}
      /\ Agree(Live, group, focus, focused) /\ Exclusive(focus)
  BY FocusInParts DEF IInv, input_context_set_focus_group, Scopes
<1>2. Live' = Live /\ Move(i, g)
  BY DEF input_context_set_focus_group, idVars, Live
<1>3. CASE ~focused[i]
  BY <1>2, <1>3, SilenceIsFollowed DEF Move
<1>4. CASE focused[i]
  <2> DEFINE fc == FocusAfterOut(i)
             fd == FocusedAfterOut(i)
             s == LogOfOut(i)
             t == LogOfIn(i, g, fc, fd)
             v == View(Live, focused)
             u == View(Live, fd)
             w == View(Live, FocusedAfterIn(i, g, fc, fd))
  <2>1. log' = s \o t /\ focused' = FocusedAfterIn(i, g, fc, fd)
    BY <1>2, <1>4 DEF Move
  <2>2. s \in Seq(Events) /\ Leads(v, s, u)
    BY <1>1, OutIsFollowed
  <2>3. Agree(Live, group, fc, fd) /\ ~fd[i]
    BY <1>1, FocusOutAgrees
  <2>4. fc \in [Scopes -> Ids \cup {NoIC}] /\ fd \in [Ids -> BOOLEAN]
    BY <1>1, FocusTypes DEF TypeOK
  <2> HIDE DEF fc, fd
  <2>5. t \in Seq(Events) /\ Leads(u, t, w)
    BY <1>1, <2>3, <2>4, InIsFollowed
  <2> HIDE DEF s, t, u, v, w
  <2>6. Leads(v, s \o t, w) /\ s \o t \in Seq(Events)
    BY <2>2, <2>5, LeadsOn
  <2> QED BY <1>2, <2>1, <2>6 DEF Followed, v, w
<1> QED BY <1>3, <1>4

(* The one in focus in a group that is freed is seen leaving and entering. *)
LEMMA GroupEndIsFollowed ==
  ASSUME IInv, NEW g \in Group, focus_group_free(g)
  PROVE  Followed
<1>1. log' = LogOfFree(g) /\ Live' = Live /\ focused' = focused
  BY DEF focus_group_free, idVars, Live
<1>2. CASE focus[g] = NoIC
  BY <1>1, <1>2, SilenceIsFollowed DEF LogOfFree
<1>3. CASE focus[g] # NoIC
  <2> DEFINE i == focus[g]
             v == View(Live, focused)
             u == [v EXCEPT ![i] = "out"]
             a == Event("FocusOut", i)
             b == Event("FocusIn", i)
  <2>1. g \in Scopes /\ i \in Ids /\ i \in Live /\ focused[i]
    BY <1>3 DEF IInv, TypeOK, FocusConsistent, Scopes
  <2>2. log' = <<a, b>> /\ a \in Events /\ b \in Events
    BY <1>1, <1>3, <2>1, EventTypes DEF LogOfFree, Kinds
  <2> HIDE DEF i
  <2>3. v \in Views /\ v[i] = "in"
    BY <2>1, ViewTypes
  <2> HIDE DEF v
  <2>4. u \in Views /\ u[i] = "out" /\ [u EXCEPT ![i] = "in"] = v
    BY <2>1, <2>3 DEF Views
  <2> HIDE DEF u
  <2>5. Observe(v, a) = u
    BY <2>1, <2>3, Observed DEF u
  <2>6. Observe(u, b) = v
    BY <2>1, <2>4, Observed
  <2> HIDE DEF a, b
  <2>7. <<a>> \in Seq(Events) /\ Leads(v, <<a>>, u)
    BY <2>2, <2>5, OneObserved
  <2>8. <<b>> \in Seq(Events) /\ Leads(u, <<b>>, v)
    BY <2>2, <2>6, OneObserved
  <2>9. Leads(v, <<a>> \o <<b>>, v)
    BY <2>7, <2>8, LeadsOn
  <2>10. <<a, b>> \in Seq(Events)
    BY <2>2
  <2> QED BY <1>1, <2>2, <2>9, <2>10, TwoElements DEF Followed, v
<1> QED BY <1>2, <1>3

(* A destroyed context is seen leaving and going.                          *)
LEMMA DestroyIsFollowed ==
  ASSUME IInv, NEW i \in Ids, input_context_destroy(i)
  PROVE  Followed
<1> DEFINE v == View(Live, focused)
           w == View(Live', focused')
<1>1. TypeOK /\ IdsConserved /\ Agree(Live, group, focus, focused) /\ i \in Live
  BY FocusInParts DEF IInv, input_context_destroy
<1>2. log' = LogOfDestroy(i) /\ focused' = FocusedAfterOut(i)
  BY DEF input_context_destroy
<1>3. Live' = Live \ {i}
  BY <1>1, DestroyKeepsIds
<1>4. v \in Views /\ v[i] = IF focused[i] THEN "in" ELSE "out"
  BY <1>1, ViewTypes
<1>5. \A j \in Ids : j # i => (focused'[j] <=> focused[j])
  BY <1>1, <1>2 DEF FocusedAfterOut, TypeOK
<1>6. w = [v EXCEPT ![i] = "absent"]
  BY <1>3, <1>5 DEF View
<1> HIDE DEF v, w
<1>7. LogOfDestroy(i) \in Seq(Events) /\ Leads(v, LogOfDestroy(i), w)
  BY <1>1, <1>4, <1>6, EndIsFollowed
<1> QED BY <1>2, <1>7 DEF Followed, v, w

(* The step that announces a text with ET_InputContextFocusIn.             *)
TextStep == \E i \in Ids, t \in Texts \cup {NoText} : input_context_set_surrounding_text(i, t)

(* Every other step is seen for what it does.                              *)
LEMMA StepIsFollowed ==
  ASSUME IInv, IsInjective(groups), Next, ~TextStep
  PROVE  Followed
<1>1. TypeOK /\ IdsConserved /\ Agree(Live, group, focus, focused) /\ Exclusive(focus)
  BY FocusInParts DEF IInv
<1>2. CASE input_context_new
  BY <1>2, NewIsFollowed
<1>3. ASSUME NEW i \in Ids, input_context_focus_in(i) PROVE Followed
  <2>1. /\ i \in Live /\ Live' = Live
        /\ log' = LogOfIn(i, group[i], focus, focused)
        /\ focused' = FocusedAfterIn(i, group[i], focus, focused)
    BY <1>3 DEF input_context_focus_in, idVars, Live
  <2>2. /\ group[i] \in Scopes \cup {Independent}
        /\ focus \in [Scopes -> Ids \cup {NoIC}] /\ focused \in [Ids -> BOOLEAN]
    BY <1>1 DEF TypeOK
  <2>3. focused[i] => group[i] = Independent \/ focus[group[i]] = i
    BY <1>1, <2>1, <2>2 DEF Agree
  <2>4. /\ LogOfIn(i, group[i], focus, focused) \in Seq(Events)
        /\ Leads(View(Live, focused), LogOfIn(i, group[i], focus, focused),
                 View(Live, FocusedAfterIn(i, group[i], focus, focused)))
    BY <1>1, <2>1, <2>2, <2>3, InIsFollowed
  <2> QED BY <2>1, <2>4 DEF Followed
<1>4. ASSUME NEW i \in Ids, input_context_focus_out(i) PROVE Followed
  <2>1. i \in Live /\ Live' = Live /\ log' = LogOfOut(i) /\ focused' = FocusedAfterOut(i)
    BY <1>4 DEF input_context_focus_out, idVars, Live
  <2> QED BY <1>1, <2>1, OutIsFollowed DEF Followed
<1>5. ASSUME NEW i \in Ids, NEW g \in Group \cup {Global, Independent},
             input_context_set_focus_group(i, g)
      PROVE  Followed
  BY <1>5, MoveIsFollowed
<1>6. ASSUME NEW i \in Ids, input_context_destroy(i) PROVE Followed
  BY <1>6, DestroyIsFollowed
<1>7. ASSUME NEW i \in Ids, i \in Live, NEW kind \in Kinds, log' = <<Event(kind, i)>>,
             kind \notin {"Created", "FocusIn", "FocusOut", "Destroyed", "destroyNotify"},
             UNCHANGED <<idVars, focusVars>>
      PROVE  Followed
  <2>1. Live' = Live /\ focused' = focused
    BY <1>7 DEF idVars, focusVars, Live
  <2> QED BY <1>7, <2>1, DataIsFollowed
<1>8. ASSUME NEW i \in Ids, NEW f \in FlagValues, input_context_set_capability_flags(i, f)
      PROVE  Followed
  BY <1>7, <1>8 DEF input_context_set_capability_flags, Kinds
<1>9. ASSUME NEW i \in Ids, NEW r \in RectValues, input_context_set_cursor_rect(i, r)
      PROVE  Followed
  BY <1>7, <1>9 DEF input_context_set_cursor_rect, Kinds
<1>10. ASSUME NEW i \in Ids, input_context_delete_surrounding_text(i) PROVE Followed
  BY <1>7, <1>10 DEF input_context_delete_surrounding_text, Kinds
<1>11. ASSUME NEW i \in Ids, NEW kind \in Requests, input_context_request(i, kind)
       PROVE  Followed
  <2>1. kind \in Kinds /\ kind \notin {"Created", "FocusIn", "FocusOut", "Destroyed", "destroyNotify"}
    BY RequestAssumption DEF Kinds
  <2> QED BY <1>7, <1>11, <2>1 DEF input_context_request
<1>12. ASSUME NEW i \in Ids, ContextStep(i) PROVE Followed
  BY <1>3, <1>4, <1>5, <1>6, <1>8, <1>9, <1>10, <1>11, <1>12 DEF ContextStep, TextStep
<1>13. ASSUME NEW g \in Group, focus_group_new(g) PROVE Followed
  <2>1. log' = <<>> /\ Live' = Live /\ focused' = focused
    BY <1>13 DEF focus_group_new, idVars, Live
  <2> QED BY <2>1, SilenceIsFollowed
<1>14. ASSUME NEW g \in Group, focus_group_free(g) PROVE Followed
  BY <1>14, GroupEndIsFollowed
<1>15. CASE manager_destroy_all_input_context \/ manager_free
  <2>1. DestroyEach /\ Live' = {}
    BY <1>1, <1>15, DestroyEachKeepsIds DEF manager_destroy_all_input_context, manager_free
  <2>2. View(Live', focused') = [j \in Ids |-> "absent"]
    BY <2>1 DEF View
  <2>3. log' = FlattenSeq([k \in DOMAIN ics |-> LogOfDestroy(ics[k])])
    BY <2>1 DEF DestroyEach
  <2> QED BY <1>1, <2>2, <2>3, EachEndIsFollowed DEF Followed
<1> QED BY <1>2, <1>12, <1>13, <1>14, <1>15 DEF Next

(* A listener of the event dispatcher that only follows the events knows   *)
(* after an operation, whichever it is but the one that announces a text,  *)
(* which contexts exist and which are focused, if it knew before: however  *)
(* the scopes hand the focus on, and when all contexts end at once.        *)
THEOREM OnlyTextsMislead ==
  Spec => [][~TextStep => ViewAfter(Len(log')) = [i \in Ids |-> Seen(i)']]_vars
<1>1. ASSUME IInv, IsInjective(groups), Next, ~TextStep
      PROVE  ViewAfter(Len(log')) = [i \in Ids |-> Seen(i)']
  <2>1. log' \in Seq(Events) /\ Leads(View(Live, focused), log', View(Live', focused'))
    BY <1>1, StepIsFollowed DEF Followed
  <2>2. View(Live', focused') = [i \in Ids |-> Seen(i)']
    BY DEF View, Seen
  <2> QED BY <2>1, <2>2, ViewAfterLog
<1>2. IInv /\ IsInjective(groups) /\ [Next]_vars
        => [~TextStep => ViewAfter(Len(log')) = [i \in Ids |-> Seen(i)']]_vars
  BY <1>1
<1> QED
  BY <1>2, TypeCorrect, IdsAreConserved, FocusInvariant, GroupsAreListedOnce, PTL DEF Spec, IInv

(* Where no client claims to have surrounding texts.                       *)
NoTexts == \A f \in FlagValues : "SURROUNDING_TEXT" \notin f

LEMMA NoTextStep == ASSUME NoTexts, TypeOK PROVE ~TextStep
<1>1. ASSUME NEW i \in Ids, NEW t \in Texts \cup {NoText}, input_context_set_surrounding_text(i, t) PROVE FALSE
  <2>1. flags[i] \in FlagValues /\ "SURROUNDING_TEXT" \in flags[i]
    BY <1>1 DEF TypeOK, input_context_set_surrounding_text
  <2> QED BY <2>1 DEF NoTexts
<1> QED BY <1>1 DEF TextStep

(* Without surrounding texts, the listener always knows: each context is   *)
(* seen Created, in focus and out of it by turns, and Destroyed when it is *)
(* out.                                                                    *)
THEOREM ListenersFollow ==
  ASSUME NoTexts
  PROVE  Spec => ListenerFollowsFocus
<1>1. TypeOK /\ [~TextStep => ViewAfter(Len(log')) = [i \in Ids |-> Seen(i)']]_vars
        => [ViewAfter(Len(log')) = [i \in Ids |-> Seen(i)']]_vars
  BY NoTextStep
<1> QED BY <1>1, OnlyTextsMislead, TypeCorrect, PTL DEF ListenerFollowsFocus

----------------------------------------------------------------------------
(* A FocusIn is the last event of an operation: everyone who has to yield  *)
(* is told before.                                                         *)
EntersLast(s) ==
  /\ s \in Seq(Events)
  /\ \A k \in DOMAIN s : s[k].kind = "FocusIn" => k = Len(s)

(* A log in which nobody enters.                                           *)
LEMMA QuietEntersNobody ==
  ASSUME NEW s \in Seq(Quiet)
  PROVE  EntersLast(s)
<1>1. \A k \in DOMAIN s : s[k] \in Quiet
  OBVIOUS
<1>2. \A k \in DOMAIN s : s[k].kind # "FocusIn"
  BY <1>1 DEF Quiet
<1> QED BY <1>2, QuietTypes DEF EntersLast

(* What is told before keeps it last.                                      *)
LEMMA QuietBefore ==
  ASSUME NEW s \in Seq(Quiet), NEW t, EntersLast(t)
  PROVE  EntersLast(s \o t)
<1>1. /\ s \in Seq(Events) /\ t \in Seq(Events)
      /\ \A k \in 1..Len(s) : s[k].kind # "FocusIn"
      /\ \A k \in 1..Len(t) : t[k].kind = "FocusIn" => k = Len(t)
  <2>1. \A k \in 1..Len(s) : s[k] \in Quiet
    OBVIOUS
  <2>2. \A k \in 1..Len(s) : s[k].kind # "FocusIn"
    BY <2>1 DEF Quiet
  <2>3. t \in Seq(Events) /\ \A k \in 1..Len(t) : t[k].kind = "FocusIn" => k = Len(t)
    BY DEF EntersLast
  <2> QED BY <2>2, <2>3, QuietTypes
<1>2. /\ s \o t \in Seq(Events) /\ DOMAIN (s \o t) = 1..(Len(s) + Len(t))
      /\ Len(s \o t) = Len(s) + Len(t)
      /\ \A k \in 1..Len(s) : (s \o t)[k] = s[k]
      /\ \A k \in (Len(s) + 1)..(Len(s) + Len(t)) : (s \o t)[k] = t[k - Len(s)]
      /\ Len(s) \in Nat /\ Len(t) \in Nat
  BY <1>1
<1> DEFINE st == s \o t
           m == Len(s)
           n == Len(t)
<1>3. ASSUME NEW k \in 1..(m + n), st[k].kind = "FocusIn" PROVE k = m + n
  <2>1. CASE k \in 1..m
    BY <1>1, <1>2, <1>3, <2>1
  <2>2. CASE k \in (m + 1)..(m + n)
    <3>1. k - m \in 1..n /\ st[k] = t[k - m]
      BY <1>2, <2>2
    <3>2. k - m = n
      BY <1>1, <1>3, <3>1
    <3> QED BY <1>2, <3>2
  <2> QED BY <1>2, <2>1, <2>2
<1> QED BY <1>2, <1>3 DEF EntersLast

(* One event alone is the last.                                            *)
LEMMA AloneIsLast ==
  ASSUME NEW e \in Events
  PROVE  EntersLast(<<e>>)
BY DEF EntersLast

(* The one that gains the focus enters last.                               *)
LEMMA InEntersLast ==
  ASSUME TypeOK, IsInjective(groups), NEW i \in Ids, i \in Live,
         NEW g \in Scopes \cup {Independent}, NEW grp,
         NEW fc \in [Scopes -> Ids \cup {NoIC}], NEW fd \in [Ids -> BOOLEAN],
         Agree(Live, grp, fc, fd)
  PROVE  EntersLast(LogOfIn(i, g, fc, fd))
<1> DEFINE cleared == LogOfClear(ClearOrder(g), fc)
           e == Event("FocusIn", i)
<1>1. CASE g = Independent /\ fd[i]
  <2>1. LogOfIn(i, g, fc, fd) = <<>> /\ <<>> \in Seq(Quiet)
    BY <1>1 DEF LogOfIn
  <2> QED BY <2>1, QuietEntersNobody
<1>2. CASE ~(g = Independent /\ fd[i])
  <2>1. LogOfIn(i, g, fc, fd) = Append(cleared, e)
    BY <1>2 DEF LogOfIn
  <2>2. ClearOrder(g) \in Seq(Scopes) /\ IsInjective(ClearOrder(g))
    BY ClearOrderTypes
  <2> DEFINE v == View(Live, fd)
  <2>3. v \in Views /\ SeenHolding(fc, v)
    <3>1. /\ v \in Views
          /\ \A j \in Ids : j \in Live /\ fd[j] => v[j] = "in"
      BY ViewTypes
    <3>2. \A s \in Scopes : fc[s] # NoIC => fc[s] \in Ids /\ fc[s] \in Live /\ grp[fc[s]] = s /\ fd[fc[s]]
      BY DEF Agree
    <3> HIDE DEF v
    <3> QED BY <3>1, <3>2 DEF SeenHolding
  <2> HIDE DEF v
  <2>4. cleared \in Seq(Quiet)
    BY <2>2, <2>3, ClearIsFollowed
  <2>5. e \in Events
    BY EventTypes DEF Kinds
  <2> HIDE DEF cleared, e
  <2>6. EntersLast(cleared \o <<e>>)
    BY <2>4, <2>5, AloneIsLast, QuietBefore
  <2>7. Append(cleared, e) = cleared \o <<e>>
    BY <2>4, AppendIsBehind
  <2> QED BY <2>1, <2>6, <2>7
<1> QED BY <1>1, <1>2

(* Nobody enters when a context leaves or ends.                            *)
LEMMA OutEntersNobody ==
  ASSUME NEW i \in Ids
  PROVE  LogOfOut(i) \in Seq(Quiet) /\ LogOfDestroy(i) \in Seq(Quiet)
<1>1. /\ Event("FocusOut", i) \in Quiet /\ Event("Destroyed", i) \in Quiet
      /\ Event("destroyNotify", i) \in Quiet
  BY QuietTypes DEF Kinds
<1>2. LogOfOut(i) \in Seq(Quiet)
  BY <1>1 DEF LogOfOut
<1>3. <<Event("Destroyed", i), Event("destroyNotify", i)>> \in Seq(Quiet)
  BY <1>1
<1>4. LogOfOut(i) \o <<Event("Destroyed", i), Event("destroyNotify", i)>> \in Seq(Quiet)
  BY <1>2, <1>3
<1> QED BY <1>2, <1>4 DEF LogOfDestroy

(* Nobody enters when all contexts end.                                    *)
LEMMA EachEndEntersNobody ==
  ASSUME TypeOK
  PROVE  FlattenSeq([k \in DOMAIN ics |-> LogOfDestroy(ics[k])]) \in Seq(Quiet)
<1> DEFINE seqs == [k \in DOMAIN ics |-> LogOfDestroy(ics[k])]
<1>1. Len(ics) \in Nat /\ DOMAIN ics = 1..Len(ics) /\ \A n \in 1..Len(ics) : ics[n] \in Ids
  BY DEF TypeOK
<1>2. \A n \in 1..Len(ics) : LogOfDestroy(ics[n]) \in Seq(Quiet)
  BY <1>1, OutEntersNobody
<1>3. seqs \in Seq(Seq(Quiet))
  BY <1>1, <1>2
<1> HIDE DEF seqs
<1>4. PICK f : IsFlattening(f, seqs, Quiet) /\ FlattenSeq(seqs) = f[Len(seqs)]
  BY <1>3, FlattenedInSteps
<1>5. Len(seqs) \in 0..Len(seqs)
  BY <1>3
<1> QED BY <1>4, <1>5 DEF IsFlattening, seqs

(* Each operation of the manager tells of an entry last.                   *)
LEMMA StepEntersLast ==
  ASSUME IInv, IsInjective(groups), Next
  PROVE  EntersLast(log')
<1>1. TypeOK /\ Agree(Live, group, focus, focused) /\ Exclusive(focus)
  BY FocusInParts DEF IInv
<1>2. ASSUME log' = <<>> PROVE EntersLast(log')
  <2>1. <<>> \in Seq(Quiet)
    OBVIOUS
  <2> QED BY <1>2, <2>1, QuietEntersNobody
<1>3. ASSUME NEW kind \in Kinds, NEW i \in Ids, log' = <<Event(kind, i)>> PROVE EntersLast(log')
  BY <1>3, EventTypes, AloneIsLast
<1>4. CASE input_context_new
  <2>1. ASSUME NEW n \in Ids, Register(n) PROVE EntersLast(log')
    BY <1>3, <2>1 DEF Register, Kinds
  <2>2. CASE Recycle
    <3>1. Head(freeList) \in Ids /\ Register(Head(freeList))
      BY <1>1, <2>2 DEF Recycle, TypeOK
    <3> QED BY <2>1, <3>1
  <2>3. CASE DrawFreshId
    <3>1. NextId \in Ids /\ Register(NextId)
      BY <2>3, DrawnIds DEF DrawFreshId, IInv
    <3> QED BY <2>1, <3>1
  <2>4. CASE NoIdLeft
    BY <1>2, <2>4 DEF NoIdLeft
  <2> QED BY <1>4, <2>2, <2>3, <2>4 DEF input_context_new
<1>5. ASSUME NEW i \in Ids, input_context_focus_in(i) PROVE EntersLast(log')
  <2>1. i \in Live /\ log' = LogOfIn(i, group[i], focus, focused)
    BY <1>5 DEF input_context_focus_in
  <2>2. /\ group[i] \in Scopes \cup {Independent}
        /\ focus \in [Scopes -> Ids \cup {NoIC}] /\ focused \in [Ids -> BOOLEAN]
    BY <1>1 DEF TypeOK
  <2> QED BY <1>1, <2>1, <2>2, InEntersLast
<1>6. ASSUME NEW i \in Ids, input_context_focus_out(i) PROVE EntersLast(log')
  BY <1>6, OutEntersNobody, QuietEntersNobody DEF input_context_focus_out
<1>7. ASSUME NEW i \in Ids, NEW g \in Group \cup {Global, Independent},
             input_context_set_focus_group(i, g)
      PROVE  EntersLast(log')
  <2>1. i \in Live /\ g \in Scopes \cup {Independent} /\ Move(i, g)
    BY <1>7 DEF input_context_set_focus_group, Scopes
  <2>2. CASE ~focused[i]
    BY <1>2, <2>1, <2>2 DEF Move
  <2>3. CASE focused[i]
    <3> DEFINE fc == FocusAfterOut(i)
               fd == FocusedAfterOut(i)
               s == LogOfOut(i)
               t == LogOfIn(i, g, fc, fd)
    <3>1. log' = s \o t
      BY <2>1, <2>3 DEF Move
    <3>2. s \in Seq(Quiet)
      BY OutEntersNobody
    <3>3. Agree(Live, group, fc, fd)
      BY <1>1, <2>1, FocusOutAgrees
    <3>4. fc \in [Scopes -> Ids \cup {NoIC}] /\ fd \in [Ids -> BOOLEAN]
      BY <1>1, FocusTypes DEF TypeOK
    <3> HIDE DEF fc, fd
    <3>5. EntersLast(t)
      BY <1>1, <2>1, <3>3, <3>4, InEntersLast
    <3> HIDE DEF s, t
    <3> QED BY <3>1, <3>2, <3>5, QuietBefore
  <2> QED BY <2>2, <2>3
<1>8. ASSUME NEW i \in Ids, input_context_destroy(i) PROVE EntersLast(log')
  BY <1>8, OutEntersNobody, QuietEntersNobody DEF input_context_destroy
<1>9. ASSUME NEW i \in Ids, NEW f \in FlagValues, input_context_set_capability_flags(i, f)
      PROVE  EntersLast(log')
  BY <1>3, <1>9 DEF input_context_set_capability_flags, Kinds
<1>10. ASSUME NEW i \in Ids, NEW r \in RectValues, input_context_set_cursor_rect(i, r)
       PROVE  EntersLast(log')
  BY <1>3, <1>10 DEF input_context_set_cursor_rect, Kinds
<1>11. ASSUME NEW i \in Ids, NEW t \in Texts \cup {NoText}, input_context_set_surrounding_text(i, t)
       PROVE  EntersLast(log')
  BY <1>3, <1>11 DEF input_context_set_surrounding_text, Kinds
<1>12. ASSUME NEW i \in Ids, input_context_delete_surrounding_text(i) PROVE EntersLast(log')
  BY <1>3, <1>12 DEF input_context_delete_surrounding_text, Kinds
<1>13. ASSUME NEW i \in Ids, NEW kind \in Requests, input_context_request(i, kind)
       PROVE  EntersLast(log')
  BY <1>3, <1>13 DEF input_context_request, Kinds
<1>14. ASSUME NEW i \in Ids, ContextStep(i) PROVE EntersLast(log')
  BY <1>5, <1>6, <1>7, <1>8, <1>9, <1>10, <1>11, <1>12, <1>13, <1>14 DEF ContextStep
<1>15. ASSUME NEW g \in Group, focus_group_new(g) PROVE EntersLast(log')
  BY <1>2, <1>15 DEF focus_group_new
<1>16. ASSUME NEW g \in Group, focus_group_free(g) PROVE EntersLast(log')
  <2>1. CASE focus[g] = NoIC
    BY <1>2, <1>16, <2>1 DEF focus_group_free, LogOfFree
  <2>2. CASE focus[g] # NoIC
    <3> DEFINE a == Event("FocusOut", focus[g])
               b == Event("FocusIn", focus[g])
    <3>1. focus[g] \in Ids
      BY <1>1, <2>2 DEF TypeOK, Scopes
    <3>2. log' = <<a, b>>
      BY <1>16, <2>2 DEF focus_group_free, LogOfFree
    <3>3. a \in Quiet /\ b \in Events
      BY <3>1, QuietTypes, EventTypes DEF Kinds
    <3> HIDE DEF a, b
    <3>4. <<a>> \in Seq(Quiet) /\ EntersLast(<<b>>)
      BY <3>3, AloneIsLast
    <3>5. EntersLast(<<a>> \o <<b>>)
      BY <3>4, QuietBefore
    <3> QED BY <3>2, <3>5, TwoElements
  <2> QED BY <2>1, <2>2
<1>17. CASE manager_destroy_all_input_context \/ manager_free
  <2>1. log' = FlattenSeq([k \in DOMAIN ics |-> LogOfDestroy(ics[k])])
    BY <1>17 DEF manager_destroy_all_input_context, manager_free, DestroyEach
  <2> QED BY <1>1, <2>1, EachEndEntersNobody, QuietEntersNobody
<1> QED BY <1>4, <1>14, <1>15, <1>16, <1>17 DEF Next

(* The one whose FocusIn ends a log that leads to a view is in focus there.*)
LEMMA TheLastIsIn ==
  ASSUME NEW s \in Seq(Events), s # <<>>, s[Len(s)].kind = "FocusIn",
         NEW v, NEW live, NEW fd, Leads(v, s, View(live, fd))
  PROVE  s[Len(s)].ic \in live /\ fd[s[Len(s)].ic]
<1> DEFINE N == Len(s)
           e == s[N]
           w == View(live, fd)
<1>1. N \in 1..N /\ e \in Events
  OBVIOUS
<1>2. e.ic \in Ids /\ e.kind = "FocusIn"
  BY <1>1 DEF Events
<1>3. PICK f : IsViews(f, v, s) /\ f[N] = w
  BY DEF Leads
<1>4. w = Observe(f[N - 1], e)
  BY <1>1, <1>3 DEF IsViews
<1> HIDE DEF w, e, N
<1>5. PICK now \in {"in", "illegal"} : w = [f[N - 1] EXCEPT ![e.ic] = now]
  BY <1>2, <1>4 DEF Observe
<1>6. DOMAIN w = Ids
  BY DEF w, View
<1>7. w[e.ic] = now
  BY <1>2, <1>5, <1>6
<1>8. w[e.ic] = IF e.ic \notin live THEN "absent" ELSE IF fd[e.ic] THEN "in" ELSE "out"
  BY <1>2 DEF w, View
<1> QED BY <1>7, <1>8 DEF e, N

(* When a context enters, nobody who cannot be in focus beside it is: not  *)
(* in its group, and not on the other side of the global/local divide.     *)
LEMMA OnlyOneIsIn ==
  ASSUME TypeOK', FocusConsistent', FocusExclusive', NEW i \in Ids, NEW j \in Ids \ {i},
         group'[i] # Independent, group'[j] # Independent,
         group'[j] = group'[i] \/ Global \in {group'[i], group'[j]},
         i \in Live', focused'[i], j \in Live', focused'[j]
  PROVE  FALSE
<1>1. group'[i] \in Scopes /\ group'[j] \in Scopes
  BY DEF TypeOK
<1>2. focus'[group'[i]] = i /\ focus'[group'[j]] = j
  BY <1>1 DEF FocusConsistent
<1>3. group'[i] # group'[j] /\ i # NoIC /\ j # NoIC
  BY <1>2 DEF NoIC, Ids
<1> QED BY <1>1, <1>2, <1>3 DEF FocusExclusive, Scopes

(* When a FocusIn is delivered, whoever has to yield to the context was    *)
(* told before: in fcitx_input_context_focus_in and in a move to another   *)
(* group the holders of the scopes are cleared first, the context enters   *)
(* last.                                                                   *)
THEOREM OldHoldersLeaveFirst ==
  ASSUME NoTexts
  PROVE  Spec => OldFocusLeavesFirst
<1> DEFINE Rivals(i) == {j \in Ids \ {i} :
                          /\ group'[j] # Independent /\ group'[i] # Independent
                          /\ \/ group'[j] = group'[i]
                             \/ Global \in {group'[i], group'[j]}}
           First == \A k \in DOMAIN log' : log'[k].kind = "FocusIn" =>
                      \A j \in Rivals(log'[k].ic) : ViewAfter(k)[j] # "in"
<1>1. ASSUME IInv, IInv', IsInjective(groups), Next PROVE First
  <2> SUFFICES ASSUME NEW k \in DOMAIN log', log'[k].kind = "FocusIn",
                      NEW j \in Rivals(log'[k].ic), ViewAfter(k)[j] = "in"
               PROVE  FALSE
    OBVIOUS
  <2> DEFINE i == log'[k].ic
  <2>1. log' \in Seq(Events) /\ k = Len(log') /\ log' # <<>>
    BY <1>1, StepEntersLast DEF EntersLast
  <2>2. Leads(View(Live, focused), log', View(Live', focused'))
    <3>1. ~TextStep
      BY <1>1, NoTextStep DEF IInv
    <3> QED BY <1>1, <3>1, StepIsFollowed DEF Followed
  <2>3. ViewAfter(k) = View(Live', focused')
    BY <2>1, <2>2, ViewAfterLog
  <2>4. i \in Ids /\ i \in Live' /\ focused'[i]
    <3>1. log'[k] \in Events
      BY <2>1
    <3>2. i \in Live' /\ focused'[i]
      BY <2>1, <2>2, TheLastIsIn
    <3> QED BY <3>1, <3>2 DEF Events
  <2>5. /\ j \in Ids \ {i} /\ group'[j] # Independent /\ group'[i] # Independent
        /\ group'[j] = group'[i] \/ Global \in {group'[i], group'[j]}
    OBVIOUS
  <2>6. j \in Live' /\ focused'[j]
    BY <2>3, <2>5 DEF View
  <2> HIDE DEF i
  <2>7. IInv'
    BY <1>1
  <2> QED BY <2>4, <2>5, <2>6, <2>7, OnlyOneIsIn DEF IInv
<1>2. IInv /\ IInv' /\ IsInjective(groups) /\ [Next]_vars => [First]_vars
  BY <1>1
<1>3. [First]_vars
        => [\A k \in DOMAIN log' : log'[k].kind = "FocusIn" =>
              LET i == log'[k].ic
                  rivals == {j \in Ids \ {i} :
                               /\ group'[j] # Independent /\ group'[i] # Independent
                               /\ \/ group'[j] = group'[i]
                                  \/ Global \in {group'[i], group'[j]}}
              IN  \A j \in rivals : ViewAfter(k)[j] # "in"]_vars
  OBVIOUS
<1> QED
  BY <1>2, <1>3, TypeCorrect, IdsAreConserved, FocusInvariant, GroupsAreListedOnce, PTL
     DEF Spec, IInv, OldFocusLeavesFirst
=============================================================================
