------------------------------ MODULE InputContext ------------------------------
(***************************************************************************)
(* The input context manager of fcitx (lib/fcitx/inputcontext.c): the      *)
(* allocation and recycling of context ids, the focus groups, and the      *)
(* events and callbacks that leave the manager.                            *)
(*                                                                         *)
(* Every operation runs to completion on the one thread of the main loop,  *)
(* so it is one action.  The calls an operation makes out of the manager   *)
(* (event dispatcher and destroy callbacks) are recorded, in order, in     *)
(* "log", which holds the calls of the last operation only.                *)
(***************************************************************************)
EXTENDS FcitxList

CONSTANTS
  MaxId,        \* the largest value of the id counter, 2^32 - 1 in the code
  Group,        \* handles of local focus groups
  Global,       \* the manager's globalGroup
  Independent,  \* the NULL group
  FlagValues,   \* values a frontend gives the capability flags
  RectValues,   \* values a frontend gives the cursor rectangle
  Texts,        \* surrounding texts with their cursor and anchor
  NoText,       \* the NULL surrounding text
  Requests      \* the events an operation forwards without a state change

ASSUME IdAssumption == MaxId \in Nat \ {0}

ASSUME GroupAssumption ==
  /\ Global \notin Group
  /\ Independent \notin Group \cup {Global}

ASSUME DataAssumption ==
  /\ {} \in FlagValues
  /\ 0 \in RectValues
  /\ NoText \notin Texts

(* The forwarded events are not those of the life and the focus.           *)
ASSUME RequestAssumption ==
  Requests \cap {"Created", "FocusIn", "FocusOut", "Destroyed", "destroyNotify"} = {}

VARIABLES
  icid,      \* manager->icid, the id counter
  freeList,  \* manager->freeList, ids of destroyed contexts, last one first
  ics,       \* manager->ics, ids of the contexts, in order of insertion
  groups,    \* manager->groups, the local focus groups
  group,     \* ic->group
  focused,   \* ic->focused
  focus,     \* group->focus
  flags,     \* ic->flags
  rect,      \* ic->rect
  text,      \* ic->surroundingText, cursor and anchor
  freed,     \* the manager has been freed
  log        \* calls out of the manager during the last operation

idVars    == <<icid, freeList, ics>>
focusVars == <<groups, group, focused, focus>>
dataVars  == <<flags, rect, text>>
vars      == <<idVars, focusVars, dataVars, freed, log>>

----------------------------------------------------------------------------
Ids    == 1..MaxId
NoIC   == 0                        \* a NULL context
Scopes == Group \cup {Global}      \* the objects that have a focus
Live   == ToSet(ics)

Event(kind, i) == [kind |-> kind, ic |-> i]

(* manager_new: the global group and no context, no local group.           *)
Init ==
  /\ icid = 0
  /\ freeList = <<>>
  /\ ics = <<>>
  /\ groups = <<>>
  /\ group = [i \in Ids |-> Independent]
  /\ focused = [i \in Ids |-> FALSE]
  /\ focus = [s \in Scopes |-> NoIC]
  /\ flags = [i \in Ids |-> {}]
  /\ rect = [i \in Ids |-> 0]
  /\ text = [i \in Ids |-> NoText]
  /\ freed = FALSE
  /\ log = <<>>

----------------------------------------------------------------------------
(***************************************************************************)
(* Creation.  A destroyed context is recycled with its id before a new id  *)
(* is drawn; the counter is a uint32_t that skips 0 when it wraps.         *)
(***************************************************************************)
NextId == IF icid = MaxId THEN 1 ELSE icid + 1

\* Plausible bug: the recycled block keeps what the destroyed context held.
FreshDataKept(i) == UNCHANGED dataVars

FreshData(i) ==
  /\ flags' = [flags EXCEPT ![i] = {}]
  /\ rect' = [rect EXCEPT ![i] = 0]
  /\ text' = [text EXCEPT ![i] = NoText]

Register(i) ==
  /\ ics' = Append(ics, i)
  /\ FreshData(i)
  /\ log' = <<Event("Created", i)>>

\* Plausible bug: the head of the free list is used and never unlinked.
RecycleKeepsHead ==
  /\ freeList # <<>>
  /\ Register(Head(freeList))
  /\ UNCHANGED <<icid, freeList>>

Recycle ==
  /\ freeList # <<>>
  /\ Register(Head(freeList))
  /\ freeList' = Tail(freeList)
  /\ UNCHANGED icid

DrawFreshId ==
  /\ freeList = <<>>
  /\ NextId \notin Live
  /\ icid' = NextId
  /\ Register(NextId)
  /\ UNCHANGED freeList

(* The id after the counter is taken: the call returns NULL.               *)
NoIdLeft ==
  /\ freeList = <<>>
  /\ NextId \in Live
  /\ icid' = NextId
  /\ log' = <<>>
  /\ UNCHANGED <<freeList, ics, dataVars>>

input_context_new ==
  /\ ~freed
  /\ Recycle \/ DrawFreshId \/ NoIdLeft
  /\ UNCHANGED <<focusVars, freed>>

----------------------------------------------------------------------------
(***************************************************************************)
(* Focus.  The scopes that lose their focus when a context of group g      *)
(* gains it, in the order they are cleared: the local groups and then the  *)
(* global group itself, or the global group and then the context's own.    *)
(***************************************************************************)
\* Plausible bug: the two scopes are cleared, the local ones are forgotten.
ClearOrderOwn(g) ==
  IF g = Independent THEN <<>> ELSE IF g = Global THEN <<Global>> ELSE <<Global, g>>

ClearOrder(g) ==
  IF g = Independent THEN <<>>
  ELSE IF g = Global THEN Append(groups, Global) ELSE <<Global, g>>

Cleared(g) == ToSet(ClearOrder(g))

(* fcitx_input_context_focus_in of context i in group g, from the foci fc  *)
(* of the scopes and the flags fd of the contexts.                         *)
FocusAfterIn(i, g, fc) ==
  [s \in Scopes |-> IF s = g THEN i ELSE IF s \in Cleared(g) THEN NoIC ELSE fc[s]]

FocusedAfterIn(i, g, fc, fd) ==
  [j \in Ids |-> j = i \/ (fd[j] /\ ~ \E s \in Cleared(g) : fc[s] = j)]

(* One scope after the other loses its focus; its holder, if any, is told. *)
LogOfClear(scopes, fc) ==
  LET told[n \in 0..Len(scopes)] ==
        IF n = 0 THEN <<>>
        ELSE IF fc[scopes[n]] = NoIC THEN told[n - 1]
        ELSE Append(told[n - 1], Event("FocusOut", fc[scopes[n]]))
  IN  told[Len(scopes)]

\* Plausible bug: the new holder is told before the old one.
LogOfInFirst(i, g, fc, fd) == <<Event("FocusIn", i)>> \o LogOfClear(ClearOrder(g), fc)

LogOfIn(i, g, fc, fd) ==
  IF g = Independent /\ fd[i] THEN <<>>
  ELSE Append(LogOfClear(ClearOrder(g), fc), Event("FocusIn", i))

(* fcitx_input_context_focus_out: whether context i gives up a focus.      *)
\* Plausible bug: the flag of the context decides, not the focus of its group.
GivesUpWrong(i) == group[i] # Independent \/ focused[i]

GivesUp(i) == IF group[i] = Independent THEN focused[i] ELSE focus[group[i]] = i

FocusAfterOut(i) == [s \in Scopes |-> IF s = group[i] /\ GivesUp(i) THEN NoIC ELSE focus[s]]

FocusedAfterOut(i) == [focused EXCEPT ![i] = @ /\ ~GivesUp(i)]

LogOfOut(i) == IF GivesUp(i) THEN <<Event("FocusOut", i)>> ELSE <<>>

input_context_focus_in(i) ==
  /\ i \in Live
  /\ focus' = FocusAfterIn(i, group[i], focus)
  /\ focused' = FocusedAfterIn(i, group[i], focus, focused)
  /\ log' = LogOfIn(i, group[i], focus, focused)
  /\ UNCHANGED <<idVars, groups, group, dataVars, freed>>

input_context_focus_out(i) ==
  /\ i \in Live
  /\ focus' = FocusAfterOut(i)
  /\ focused' = FocusedAfterOut(i)
  /\ log' = LogOfOut(i)
  /\ UNCHANGED <<idVars, groups, group, dataVars, freed>>

----------------------------------------------------------------------------
(***************************************************************************)
(* Group membership.  A focused context takes its focus along: it loses    *)
(* it in the old group and claims it in the new one.                       *)
(***************************************************************************)
Move(i, g) ==
  /\ group' = [group EXCEPT ![i] = g]
  /\ IF focused[i]
     THEN /\ focus' = FocusAfterIn(i, g, FocusAfterOut(i))
          /\ focused' = FocusedAfterIn(i, g, FocusAfterOut(i), FocusedAfterOut(i))
          /\ log' = LogOfOut(i) \o LogOfIn(i, g, FocusAfterOut(i), FocusedAfterOut(i))
     ELSE /\ log' = <<>>
          /\ UNCHANGED <<focus, focused>>

(* set_focus_group with a valid pair of type and group: FICFG_Local and a  *)
(* group of the manager, FICFG_Global, or FICFG_Independent.               *)
input_context_set_focus_group(i, g) ==
  /\ i \in Live
  /\ g \in ToSet(groups) \cup {Global, Independent}
  /\ g # group[i]
  /\ Move(i, g)
  /\ UNCHANGED <<idVars, groups, dataVars, freed>>

focus_group_new(g) ==
  /\ ~freed
  /\ g \in Group \ ToSet(groups)
  /\ groups' = list_append(groups, g)
  /\ log' = <<>>
  /\ UNCHANGED <<idVars, group, focused, focus, dataVars, freed>>

(* Freeing a group makes its contexts independent; the one in focus is     *)
(* told to leave and re-enter and stays focused.                           *)
Detach(g) == [i \in Ids |-> IF group[i] = g THEN Independent ELSE group[i]]

LogOfFree(g) ==
  IF focus[g] = NoIC THEN <<>>
  ELSE <<Event("FocusOut", focus[g]), Event("FocusIn", focus[g])>>

focus_group_free(g) ==
  /\ g \in ToSet(groups)
  /\ groups' = list_remove(groups, g)
  /\ group' = Detach(g)
  /\ focus' = [focus EXCEPT ![g] = NoIC]
  /\ log' = LogOfFree(g)
  /\ UNCHANGED <<idVars, focused, dataVars, freed>>

----------------------------------------------------------------------------
(***************************************************************************)
(* Destruction: the context gives up its focus and its group, its end is   *)
(* announced, its owner is notified, and its block goes to the free list.  *)
(***************************************************************************)
LogOfDestroy(i) == LogOfOut(i) \o <<Event("Destroyed", i), Event("destroyNotify", i)>>

input_context_destroy(i) ==
  /\ i \in Live
  /\ focus' = FocusAfterOut(i)
  /\ focused' = FocusedAfterOut(i)
  /\ group' = [group EXCEPT ![i] = Independent]
  /\ log' = LogOfDestroy(i)
  /\ ics' = list_remove(ics, i)
  /\ freeList' = <<i>> \o freeList
  /\ UNCHANGED <<icid, groups, dataVars, freed>>

(* The contexts are destroyed one after the other, the oldest first.       *)
DestroyEach ==
  /\ focus' = [s \in Scopes |-> IF \E i \in Live : group[i] = s /\ GivesUp(i)
                                 THEN NoIC ELSE focus[s]]
  /\ focused' = [i \in Ids |-> focused[i] /\ ~(i \in Live /\ GivesUp(i))]
  /\ group' = [i \in Ids |-> IF i \in Live THEN Independent ELSE group[i]]
  /\ log' = FlattenSeq([k \in DOMAIN ics |-> LogOfDestroy(ics[k])])
  /\ ics' = <<>>
  /\ freeList' = Reverse(ics) \o freeList

manager_destroy_all_input_context ==
  /\ ~freed
  /\ ics # <<>>
  /\ DestroyEach
  /\ UNCHANGED <<icid, groups, dataVars, freed>>

(* The last reference is dropped: contexts, groups and blocks go.          *)
manager_free ==
  /\ ~freed
  /\ DestroyEach
  /\ groups' = <<>>
  /\ freed' = TRUE
  /\ UNCHANGED <<icid, dataVars>>

----------------------------------------------------------------------------
(***************************************************************************)
(* What a frontend reports about a context, and what is asked of it.       *)
(***************************************************************************)
input_context_set_capability_flags(i, f) ==
  /\ i \in Live
  /\ flags[i] # f
  /\ flags' = [flags EXCEPT ![i] = f]
  /\ log' = <<Event("CapabilityChanged", i)>>
  /\ UNCHANGED <<idVars, focusVars, rect, text, freed>>

input_context_set_cursor_rect(i, r) ==
  /\ i \in Live
  /\ rect[i] # r
  /\ rect' = [rect EXCEPT ![i] = r]
  /\ log' = <<Event("CursorRectChanged", i)>>
  /\ UNCHANGED <<idVars, focusVars, flags, text, freed>>

(* The event sent for a changed text is ET_InputContextFocusIn.  A new     *)
(* position (str is NULL) moves in the text that is there; while there is  *)
(* none, t = NoText, it is announced each time.                            *)
input_context_set_surrounding_text(i, t) ==
  /\ i \in Live
  /\ "SURROUNDING_TEXT" \in flags[i]
  /\ IF t = NoText THEN text[i] = NoText ELSE text[i] # t
  /\ text' = [text EXCEPT ![i] = t]
  /\ log' = <<Event("FocusIn", i)>>
  /\ UNCHANGED <<idVars, focusVars, flags, rect, freed>>

(* The text, if there is one, loses characters; SurroundingText says which. *)
input_context_delete_surrounding_text(i) ==
  /\ i \in Live
  /\ \/ text[i] = NoText /\ UNCHANGED text
     \/ text[i] # NoText /\ \E t \in Texts : text' = [text EXCEPT ![i] = t]
  /\ log' = <<Event("DeleteSurroundingText", i)>>
  /\ UNCHANGED <<idVars, focusVars, flags, rect, freed>>

(* reset, process_key_event, commit_string, update_preedit, forward_key:   *)
(* an event and nothing else.                                              *)
input_context_request(i, kind) ==
  /\ i \in Live
  /\ log' = <<Event(kind, i)>>
  /\ UNCHANGED <<idVars, focusVars, dataVars, freed>>

----------------------------------------------------------------------------
ContextStep(i) ==
  \/ input_context_focus_in(i)
  \/ input_context_focus_out(i)
  \/ \E g \in Group \cup {Global, Independent} : input_context_set_focus_group(i, g)
  \/ input_context_destroy(i)
  \/ \E f \in FlagValues : input_context_set_capability_flags(i, f)
  \/ \E r \in RectValues : input_context_set_cursor_rect(i, r)
  \/ \E t \in Texts \cup {NoText} : input_context_set_surrounding_text(i, t)
  \/ input_context_delete_surrounding_text(i)
  \/ \E kind \in Requests : input_context_request(i, kind)

Next ==
  \/ input_context_new
  \/ \E i \in Ids : ContextStep(i)
  \/ \E g \in Group : focus_group_new(g) \/ focus_group_free(g)
  \/ manager_destroy_all_input_context
  \/ manager_free

Spec == Init /\ [][Next]_vars

----------------------------------------------------------------------------
(***************************************************************************)
(* Properties.                                                             *)
(***************************************************************************)

(* The type of every piece of state the operations of inputcontext.c       *)
(* read and write ("log" is observed by the action properties only).       *)
TypeOK ==
  /\ icid \in 0..MaxId
  /\ freeList \in Seq(Ids)
  /\ ics \in Seq(Ids)
  /\ groups \in Seq(Group)
  /\ group \in [Ids -> Scopes \cup {Independent}]
  /\ focused \in [Ids -> BOOLEAN]
  /\ focus \in [Scopes -> Ids \cup {NoIC}]
  /\ flags \in [Ids -> FlagValues]
  /\ rect \in [Ids -> RectValues]
  /\ text \in [Ids -> Texts \cup {NoText}]
  /\ freed \in BOOLEAN

(* An id is either in use or on the free list, never both and never twice, *)
(* and together they are exactly the ids drawn so far: fcitx_input_context_*)
(* new loses no id, and hands none out twice, even after the counter wraps.*)
IdsConserved ==
  /\ IsInjective(ics)
  /\ IsInjective(freeList)
  /\ Live \cap ToSet(freeList) = {}
  /\ Live \cup ToSet(freeList) \in {1..icid, Ids}

(* The two records of the focus agree: a scope's focus pointer and the     *)
(* focused flag of the contexts in it.  No operation leaves a pointer to a *)
(* context that is unfocused, elsewhere, or on the free list.              *)
FocusConsistent ==
  /\ \A s \in Scopes, i \in Ids :
       focus[s] = i <=> i \in Live /\ group[i] = s /\ focused[i]
  /\ \A i \in Ids : i \notin Live => group[i] = Independent /\ ~focused[i]
  /\ \A i \in Ids : group[i] \in ToSet(groups) \cup {Global, Independent}

(* The global group and the local groups are never in focus together: a    *)
(* focus_in or a move into either side takes the focus from the other.     *)
FocusExclusive ==
  focus[Global] # NoIC => \A g \in Group : focus[g] = NoIC

(* Who has the focus is recorded once: the pointers of the scopes and the  *)
(* flags of the contexts agree, and of the two kinds of groups only one    *)
(* has a focus, after any sequence of focus changes, moves and ends.       *)
FocusExact == FocusConsistent /\ FocusExclusive

(* fcitx_input_context_new returns NULL only when every id is in use.      *)
NewFailsOnlyWhenFull ==
  [][icid' # icid /\ ics' = ics => Live = Ids]_vars

(* A recycled block starts like a new one: nothing that was set on the     *)
(* destroyed context is visible through the one that reuses its id.        *)
NewContextIsFresh ==
  [][\A i \in Ids : i \notin Live /\ i \in Live' =>
       /\ flags'[i] = {} /\ rect'[i] = 0 /\ text'[i] = NoText
       /\ group'[i] = Independent /\ ~focused'[i]]_vars

----------------------------------------------------------------------------
(***************************************************************************)
(* The focus as a listener of the event dispatcher reconstructs it.        *)
(***************************************************************************)
Seen(i) == IF i \notin Live THEN "absent" ELSE IF focused[i] THEN "in" ELSE "out"

Observe(view, e) ==
  LET was == view[e.ic]
      now == CASE e.kind = "Created"   /\ was = "absent"      -> "out"
               [] e.kind = "FocusIn"   /\ was = "out"         -> "in"
               [] e.kind = "FocusOut"  /\ was = "in"          -> "out"
               [] e.kind = "Destroyed" /\ was = "out"         -> "gone"
               [] e.kind = "destroyNotify" /\ was = "gone"    -> "absent"
               [] e.kind \notin {"Created", "FocusIn", "FocusOut", "Destroyed", "destroyNotify"}
                  /\ was \in {"out", "in"}                    -> was
               [] OTHER                                       -> "illegal"
  IN  [view EXCEPT ![e.ic] = now]

(* The view after the first k events of a step.                            *)
ViewAfter(k) ==
  LET view[n \in 0..k] ==
        IF n = 0 THEN [i \in Ids |-> Seen(i)] ELSE Observe(view[n - 1], log'[n])
  IN  view[k]

(* A listener that only follows the events always knows which contexts     *)
(* exist and which are focused, and sees every context go through Created, *)
(* alternating FocusIn and FocusOut, and Destroyed while unfocused.  It     *)
(* holds without surrounding texts only: a new text is announced by        *)
(* ET_InputContextFocusIn, whoever has the focus (OnlyTextsMislead says    *)
(* that nothing else misleads a listener).                                 *)
ListenerFollowsFocus ==
  [][ViewAfter(Len(log')) = [i \in Ids |-> Seen(i)']]_vars

(* When a FocusIn is delivered, everyone who has to yield has already been *)
(* told: nobody else in the same scope, and nobody on the other side of    *)
(* the global/local divide, is focused in the listener's view.             *)
OldFocusLeavesFirst ==
  [][\A k \in DOMAIN log' : log'[k].kind = "FocusIn" =>
       LET i == log'[k].ic
           rivals == {j \in Ids \ {i} :
                        /\ group'[j] # Independent /\ group'[i] # Independent
                        /\ \/ group'[j] = group'[i]
                           \/ Global \in {group'[i], group'[j]}}
       IN  \A j \in rivals : ViewAfter(k)[j] # "in"]_vars
=============================================================================
