--------------------------------- MODULE Dispatch ---------------------------------
(***************************************************************************)
(* How the instance takes events and which input method a context has      *)
(* (lib/fcitx/instance.c, event.h).                                        *)
(*                                                                         *)
(* Every event of an input context, of an input method and of the input    *)
(* method manager comes to fcitx_instance_event_dispatch.  It chooses a    *)
(* branch by the class of the event's type: keys for the core, what an     *)
(* input method sends for the frontend of the context, groups for the      *)
(* state of the instance.  The frontends turn what they get into signals   *)
(* on the bus (frontend/ipc/ipc.c) or messages to an X client              *)
(* (frontend/xim/xim.c).                                                   *)
(*                                                                         *)
(* Contexts never go here, their frontends stay loaded, and the input      *)
(* methods of a group are only counted: groups.                            *)
(***************************************************************************)
EXTENDS Integers, Sequences, Keys
LOCAL INSTANCE SequencesExt

CONSTANTS
  IC,          \* input contexts
  FrontendOf,  \* the id of the frontend of each, counted from 0
  Frontends,   \* the frontends that are loaded: a sequence of "ipc" and "xim"
  Texts,       \* texts an input method may commit or show
  Items,       \* input methods
  Keyboard,    \* keys that may be pressed
  triggerKey,  \* the hotkeys of the global configuration
  MaxTime,     \* bound on the time stamps of keys
  MaxGroups    \* bound on the groups

VARIABLES
  groups,    \* the manager's groups: how many input methods each has
  group,     \* instance->group, -1 for none
  globalIM,  \* instance->globalInputMethod: one input method per group
  localIM,   \* per context: NoState, NoList, or its own list
  private,   \* per context: lastKeyPressedTime and releasedKey
  preedit,   \* per context: preeditStarted and lastPreeditLength of xim.c
  posted     \* the last event, what became of it and who got it

vars == <<groups, group, globalIM, localIM, private, preedit, posted>>

NoItem == "no item"
NoState == <<"no state">>
NoList == <<"no list">>

----------------------------------------------------------------------------
(* Types and their classes: event.h.                                       *)
ET_EventTypeFlag == 65536       \* 0xffff0000: the bits from 2^16 up
ET_InputContextEventFlag == 4096
ET_InputMethodEventFlag == 8192
ET_InputMethodManagerEventFlag == 16384

EventType ==
  [Reset |-> ET_InputContextEventFlag + 6, KeyEvent |-> ET_InputContextEventFlag + 5,
   ForwardKey |-> ET_InputMethodEventFlag + 1, CommitString |-> ET_InputMethodEventFlag + 2,
   DeleteSurroundingText |-> ET_InputMethodEventFlag + 3, UpdatePreedit |-> ET_InputMethodEventFlag + 4,
   GroupReset |-> ET_InputMethodManagerEventFlag + 2, NewGroup |-> ET_InputMethodManagerEventFlag + 3]

Class(type) == (type \div ET_EventTypeFlag) * ET_EventTypeFlag

----------------------------------------------------------------------------
(***************************************************************************)
(* Keys.  The table has one row per kind of hotkey, all with the trigger   *)
(* keys and without a callback.  LRK_None has no row, and a row counts     *)
(* only while its kind is the one remembered.                              *)
(***************************************************************************)
LRK == {"Trigger", "TriggerAlt", "ScrollForward", "ScrollBackward", "Activate", "Deactivate"}

(* fcitx_input_context_input_method_private_state_set makes it when it is  *)
(* asked for first.                                                        *)
NewPrivateState == [lastKeyPressedTime |-> 0, releasedKey |-> "None"]

GroupSize(g) == IF g \in 0..(Len(groups) - 1) THEN groups[g + 1] ELSE 0

Handled(ic, key) ==
  /\ private[ic].releasedKey \in LRK
  /\ GroupSize(group) > 0
  /\ key_list_check(triggerKey, key)

(* A press that is a hotkey is kept until the release if it is a modifier; *)
(* for another key the row's callback would be called, which is NULL.      *)
KeyPress(ic, key, time) ==
  [lastKeyPressedTime |-> time, releasedKey |-> IF Handled(ic, key) THEN private[ic].releasedKey ELSE "None"]

KeyRelease(ic) == [private[ic] EXCEPT !.releasedKey = "None"]

(* Whether the core takes the key: a press by the table, the release of a  *)
(* modifier if it is quick.                                                *)
TakesKey(ic, key, time, isRelease) ==
  /\ isRelease => is_modifier(key) /\ time < private[ic].lastKeyPressedTime + 500
  /\ Handled(ic, key)

----------------------------------------------------------------------------
(* fcitx_instance_set_input_method_group                                   *)
SetGroup(g, ims) == IF g >= 0 /\ g >= Len(ims) THEN group ELSE g

(* fcitx_instance_input_method_group_reset_foreach: a list is emptied.     *)
ResetForeach(state) == IF state \in {NoState, NoList} THEN state ELSE <<>>

GroupReset ==
  /\ globalIM' = <<>>
  /\ localIM' = [ic \in IC |-> ResetForeach(localIM[ic])]
  /\ group' = SetGroup(-1, <<>>)

NewGroup ==
  /\ globalIM' = Append(globalIM, NoItem)
  /\ group' = IF group < 0 THEN SetGroup(0, globalIM') ELSE group
  /\ UNCHANGED localIM

----------------------------------------------------------------------------
(***************************************************************************)
(* Frontends.  An event is a record; its text is a sequence of pieces with *)
(* a format and a number of characters, and whether it is valid UTF-8.     *)
(***************************************************************************)
Event(type, ic) ==
  [type |-> type, ic |-> ic, key |-> KEY(0, {}), time |-> 0, isRelease |-> FALSE, text |-> [pieces |-> <<>>, valid |-> TRUE]]

Length(text) == FoldLeft(LAMBDA n, piece : n + piece.length, 0, text.pieces)

(* What a handler answers, what it sends to the client, and the preedit    *)
(* afterwards.                                                             *)
Handling(answer, sent, shown) == [answer |-> answer, sent |-> sent, preedit |-> shown]

ipc_handle_event(e) ==
  LET Signals ==
        CASE e.type = EventType.CommitString /\ e.text.valid -> << <<"CommitString">> >>
          [] e.type = EventType.DeleteSurroundingText -> << <<"DeleteSurroundingText">> >>
          [] e.type = EventType.ForwardKey -> << <<"ForwardKey", IF e.isRelease THEN "release" ELSE "press">> >>
          [] OTHER -> <<>>
  IN  Handling(e.type \in {EventType.CommitString, EventType.DeleteSurroundingText, EventType.ForwardKey,
                           EventType.UpdatePreedit}, Signals, preedit[e.ic])

(* The format of each character, without the plain ones at the end.        *)
Feedback(pieces) ==
  LET all == FlattenSeq([i \in DOMAIN pieces |-> [j \in 1..pieces[i].length |-> pieces[i].format]])
      marked == {i \in DOMAIN all : all[i] # {}}
  IN  SubSeq(all, 1, IF marked = {} THEN 0 ELSE CHOOSE i \in marked : \A j \in marked : j <= i)

(* The change a draw announces covers what was shown last, also when the   *)
(* preedit was taken away in between.  A text that has no form the client  *)
(* understands is started and not drawn.                                   *)
xim_update_preedit(shown, text) ==
  CASE Length(text) = 0 /\ ~shown.started -> Handling(TRUE, <<>>, shown)
    [] Length(text) = 0 /\ shown.started ->
         Handling(TRUE, << <<"draw", shown.last, <<>>>>, <<"done">> >>, [shown EXCEPT !.started = FALSE])
    [] OTHER ->
         LET start == IF shown.started THEN <<>> ELSE << <<"start">> >>
         IN  IF text.valid
             THEN Handling(TRUE, start \o << <<"draw", shown.last, Feedback(text.pieces)>> >>,
                           [started |-> TRUE, last |-> Length(text)])
             ELSE Handling(TRUE, start, [shown EXCEPT !.started = TRUE])

(* A forwarded release is sent as a press and a press as a release.        *)
xim_handle_event(e) ==
  CASE Class(e.type) # ET_InputMethodEventFlag -> Handling(FALSE, <<>>, preedit[e.ic])
    [] Class(e.type) = ET_InputMethodEventFlag /\ e.type = EventType.UpdatePreedit ->
         xim_update_preedit(preedit[e.ic], e.text)
    [] OTHER ->
         Handling(TRUE, CASE e.type = EventType.ForwardKey -> << <<"forward", IF e.isRelease THEN "press" ELSE "release">> >>
                          [] e.type = EventType.CommitString -> << <<"commit">> >>
                          [] OTHER -> <<>>,
                  preedit[e.ic])

handleEvent(e) == IF Frontends[FrontendOf[e.ic] + 1] = "ipc" THEN ipc_handle_event(e) ELSE xim_handle_event(e)

----------------------------------------------------------------------------
Posted(e, result, to, sent) == [type |-> e.type, ic |-> e.ic, result |-> result, to |-> to, sent |-> sent]

(* fcitx_instance_event_dispatch                                           *)
EventDispatch(e) ==
  \/ /\ Class(e.type) = ET_InputContextEventFlag /\ e.type = EventType.KeyEvent
     /\ private' = [private EXCEPT ![e.ic] = IF e.isRelease THEN KeyRelease(e.ic) ELSE KeyPress(e.ic, e.key, e.time)]
     /\ posted' = Posted(e, TakesKey(e.ic, e.key, e.time, e.isRelease), "core", <<>>)
     /\ UNCHANGED <<groups, group, globalIM, localIM, preedit>>
  \/ /\ Class(e.type) = ET_InputMethodEventFlag /\ FrontendOf[e.ic] < Len(Frontends)
     /\ posted' = Posted(e, handleEvent(e).answer, "frontend", handleEvent(e).sent)
     /\ preedit' = [preedit EXCEPT ![e.ic] = handleEvent(e).preedit]
     /\ UNCHANGED <<groups, group, globalIM, localIM, private>>
  \/ /\ Class(e.type) = ET_InputMethodManagerEventFlag
     /\ \/ e.type = EventType.GroupReset /\ GroupReset
        \/ e.type = EventType.NewGroup /\ NewGroup
     /\ posted' = Posted(e, FALSE, "core", <<>>)
     /\ UNCHANGED <<groups, private, preedit>>
  \/ /\ \/ Class(e.type) \notin {ET_InputContextEventFlag, ET_InputMethodEventFlag, ET_InputMethodManagerEventFlag}
        \/ Class(e.type) = ET_InputContextEventFlag /\ e.type # EventType.KeyEvent
        \/ Class(e.type) = ET_InputMethodEventFlag /\ FrontendOf[e.ic] >= Len(Frontends)
     /\ posted' = Posted(e, FALSE, "nobody", <<>>)
     /\ UNCHANGED <<groups, group, globalIM, localIM, private, preedit>>

(* fcitx_instance_post_event has nothing to do yet for any event.          *)

----------------------------------------------------------------------------
(* What the program does.                                                  *)
Key(ic, key, isRelease) ==
  \E time \in 0..MaxTime :
    /\ time >= private[ic].lastKeyPressedTime
    /\ EventDispatch([Event(EventType.KeyEvent, ic) EXCEPT !.key = key, !.time = time, !.isRelease = isRelease])

(* A frontend resets its context.                                          *)
Reset(ic) == EventDispatch(Event(EventType.Reset, ic))

(* The input method of a context sends something.                          *)
Send(ic, type, text, isRelease) ==
  EventDispatch([Event(type, ic) EXCEPT !.text = text, !.isRelease = isRelease])

ManagerEvent(type, ic) == EventDispatch(Event(type, ic))

(* fcitx_input_method_manager_create_group and _set_input_method_list      *)
CreateGroup ==
  /\ Len(groups) < MaxGroups
  /\ \E n \in 0..1 : groups' = Append(groups, n)
  /\ UNCHANGED <<group, globalIM, localIM, private, preedit, posted>>

(* ptr_array_set leaves a list alone that is too short.                    *)
SetAt(list, item) == [i \in DOMAIN list |-> IF i = group + 1 THEN item ELSE list[i]]

(* fcitx_input_context_input_method_state_set: a list of its own is made   *)
(* as long as the global one.                                              *)
StateSet(state, item, local) ==
  CASE local -> SetAt(IF state \in {NoState, NoList} THEN [i \in DOMAIN globalIM |-> NoItem] ELSE state, item)
    [] ~local /\ state = NoState -> NoList
    [] OTHER -> state

(* fcitx_instance_set_input_method_for_input_context                       *)
SetInputMethod(ic, item, local) ==
  /\ localIM' = [localIM EXCEPT ![ic] = StateSet(@, item, local)]
  /\ globalIM' = IF local THEN globalIM ELSE SetAt(globalIM, item)
  /\ UNCHANGED <<groups, group, private, preedit, posted>>

(* fcitx_input_context_input_method_state_copy: a list the context has     *)
(* already stays as it is.                                                 *)
StateCopy(dst, src) ==
  /\ dst # src
  /\ localIM' = [localIM EXCEPT ![dst] =
                   CASE localIM[src] \in {NoState, NoList} -> localIM[src]
                     [] localIM[src] \notin {NoState, NoList} /\ @ \in {NoState, NoList} -> localIM[src]
                     [] OTHER -> @]
  /\ UNCHANGED <<groups, group, globalIM, private, preedit, posted>>

Init ==
  /\ groups = <<>>
  /\ group = 0
  /\ globalIM = <<>>
  /\ localIM = [ic \in IC |-> NoState]
  /\ private = [ic \in IC |-> NewPrivateState]
  /\ preedit = [ic \in IC |-> [started |-> FALSE, last |-> 0]]
  /\ posted = Posted(Event(0, CHOOSE ic \in IC : TRUE), FALSE, "nobody", <<>>)

Next ==
  \/ \E ic \in IC, key \in Keyboard, isRelease \in BOOLEAN : Key(ic, key, isRelease)
  \/ \E ic \in IC : Reset(ic)
  \/ \E ic \in IC, type \in {EventType.ForwardKey, EventType.CommitString, EventType.DeleteSurroundingText,
                            EventType.UpdatePreedit}, text \in Texts, isRelease \in BOOLEAN :
       Send(ic, type, text, isRelease)
  \/ \E type \in {EventType.GroupReset, EventType.NewGroup}, ic \in IC : ManagerEvent(type, ic)
  \/ CreateGroup
  \/ \E ic \in IC, item \in Items, local \in BOOLEAN : SetInputMethod(ic, item, local)
  \/ \E dst, src \in IC : StateCopy(dst, src)

Spec == Init /\ [][Next]_vars

----------------------------------------------------------------------------
(***************************************************************************)
(* What an input method sends to a context of a loaded frontend is         *)
(* captured: event.h says "send by im, captured by frontend, or module".   *)
(* Without it a commit never reaches the client.                           *)
(***************************************************************************)
EventsAreCaptured ==
  posted.type = EventType.CommitString /\ FrontendOf[posted.ic] < Len(Frontends) => posted.to = "frontend"
=============================================================================
