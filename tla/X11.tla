----------------------------------- MODULE X11 -----------------------------------
(***************************************************************************)
(* The X display connection (module/xcb/xcbmodule.c) and the input method  *)
(* server on it (frontend/xim/xim.c): the life of the connection and of    *)
(* the server, the filters that see each event, and the keyboard state by  *)
(* which the key of a client is looked up.                                 *)
(*                                                                         *)
(* The X server and its clients are external: the keyboard changes and     *)
(* clients talk at any time, and the connection may break.  An event is    *)
(* first on the wire; every round trip to the server takes what is there   *)
(* over into the queue of the library.  libxcb-imdkit turns the events of  *)
(* clients into calls of the server's callback.                            *)
(***************************************************************************)
EXTENDS FcitxList

CONSTANTS
  Context,    \* input contexts, those of other frontends included
  MaxKeymap,  \* bound: layouts the keyboard goes through
  MaxSent,    \* bound: events sent
  None

ASSUME BoundAssumption == MaxKeymap \in Nat /\ MaxSent \in Nat

VARIABLES
  pc,            \* where the thread is; "idle" is in the poll of the main loop
  conn,          \* "none", "open", "broken", "freed"
  listed,        \* the connection is in xcb->conns
  xkb,           \* the extension: "absent", "refused", "selected" (hasXKB)
  keymap,        \* fconn->keymap: its origin and the layout it shows
  state,         \* fconn->state: the same with the modifiers
  table,         \* xcb->table: who is called for each key
  xim,           \* the frontend: "none", "running", "destroyed"
  server,        \* FcitxXIMServer: "none", "live", "freed"
  serverListed,  \* the server is in xim->connFilterId
  ics,           \* the contexts of the manager
  xics,          \* those with a FcitxXIMICData
  group,         \* the focus group of each context
  device,        \* the keyboard of the X server
  wire, queue,   \* events sent, events read by the library
  sent           \* the number of events sent so far

connVars   == <<conn, listed, xkb>>
keyVars    == <<keymap, state>>
serverVars == <<xim, server, serverListed>>
icVars     == <<ics, xics, group>>
outside    == <<device, wire, queue, sent>>
vars == <<pc, connVars, keyVars, table, serverVars, icVars, outside>>

----------------------------------------------------------------------------
Mods == {0, 1}
Group == "group"                         \* fconn->group
Keys == {"connection_created", "connection_closed", "filter"}

Init ==
  /\ pc = "start"
  /\ conn = "none" /\ listed = FALSE /\ xkb = "absent"
  /\ keymap = None /\ state = None
  /\ table = [k \in Keys |-> <<>>]
  /\ xim = "none" /\ server = "none" /\ serverListed = FALSE
  /\ ics = {} /\ xics = {} /\ group = [i \in Context |-> None]
  /\ \E m \in Mods : device = [layout |-> 0, mods |-> m]
  /\ wire = <<>> /\ queue = <<>> /\ sent = 0

RoundTrip == queue' = queue \o wire /\ wire' = <<>> /\ UNCHANGED <<device, sent>>

----------------------------------------------------------------------------
(***************************************************************************)
(* Opening, and fcitx_xcb_update_keymap, which asks the server twice.  The *)
(* connection is listed only after the first keymap has been loaded, so    *)
(* that the rules the server publishes are not found then.                 *)
(***************************************************************************)
fcitx_xcb_init ==
  /\ pc = "start"
  /\ \/ pc' = "loading" /\ UNCHANGED <<conn, xkb>>
     \/ /\ conn' = "open"
        /\ xkb' \in {"absent", "refused", "selected"}
        /\ pc' = IF xkb' = "selected" THEN "fetch_keymap" ELSE "insert"
  /\ UNCHANGED <<listed, keyVars, table, serverVars, icVars, outside>>

Resume == IF listed THEN "events" ELSE "insert"

KeymapFromDevice ==
  /\ pc = "fetch_keymap" /\ xkb = "selected" /\ conn = "open"
  /\ keymap' = [from |-> "device", layout |-> device.layout]
  /\ pc' = "fetch_state"
  /\ RoundTrip
  /\ UNCHANGED <<connVars, state, table, serverVars, icVars>>

\* Plausible bug: the modifiers of the state that is replaced are kept.
ModsFromDeviceStale == IF state = None THEN 0 ELSE state.mods

ModsFromDevice == device.mods

StateFromDevice ==
  /\ pc = "fetch_state"
  /\ IF conn = "open"
     THEN state' = [from |-> "device", layout |-> keymap.layout, mods |-> ModsFromDevice] /\ RoundTrip
     ELSE state' = None /\ UNCHANGED outside
  /\ pc' = Resume
  /\ UNCHANGED <<connVars, keymap, table, serverVars, icVars>>

(* No keymap from the device: the one named by the rules, else the default *)
(* one, else none.  How the names are taken apart is left out: the loop    *)
(* writes names[5] and beyond when the rules hold more than five, and      *)
(* reads past the end when they hold fewer (xcbmodule.c:509-514).          *)
KeymapFromNames ==
  /\ pc = "fetch_keymap"
  /\ \E from \in {"rules", "default", "nothing"} :
       /\ from = "rules" => listed /\ conn = "open"
       /\ keymap' = IF from = "nothing" THEN None ELSE [from |-> from, layout |-> device.layout]
       /\ state' = IF from = "nothing" THEN None ELSE [from |-> from, layout |-> device.layout, mods |-> 0]
  /\ pc' = Resume
  /\ IF listed /\ conn = "open" THEN RoundTrip ELSE UNCHANGED outside
  /\ UNCHANGED <<connVars, table, serverVars, icVars>>

(* The rest of fcitx_xcb_open_connection; nobody waits for it yet.         *)
OpenConnection ==
  /\ pc = "insert"
  /\ listed' = TRUE
  /\ table' = [table EXCEPT !["filter"] = Append(@, "xcb")]
  /\ pc' = "loading"
  /\ UNCHANGED <<conn, xkb, keyVars, serverVars, icVars, outside>>

----------------------------------------------------------------------------
(***************************************************************************)
(* The frontend is loaded next: the created callback is called for the     *)
(* connection that is there.  The server may fail to open.                 *)
(***************************************************************************)
ServerOpens ==
  /\ server' = "live" /\ serverListed' = TRUE
  /\ table' = [table EXCEPT !["connection_created"] = <<"xim">>,
                            !["connection_closed"] = <<"xim">>, !["filter"] = Append(@, "xim")]
  /\ RoundTrip

NoServer ==
  /\ server' = IF listed THEN "freed" ELSE "none"
  /\ table' = [table EXCEPT !["connection_created"] = <<"xim">>, !["connection_closed"] = <<"xim">>]
  /\ UNCHANGED <<serverListed, outside>>

fcitx_xim_init ==
  /\ pc = "loading" /\ xim = "none"
  /\ xim' = "running"
  /\ (listed /\ conn = "open" /\ ServerOpens) \/ NoServer
  /\ UNCHANGED <<pc, connVars, keyVars, icVars>>

(* The frontend may also be missing or disabled.                           *)
mainloop_run ==
  /\ pc = "loading"
  /\ pc' = "idle"
  /\ UNCHANGED <<connVars, keyVars, table, serverVars, icVars, outside>>

----------------------------------------------------------------------------
(***************************************************************************)
(* fcitx_xcb_connection_close.  The closed callback of the frontend is the *)
(* wrong way round: it returns if the server is found, which stays with    *)
(* its filter and its pointers to the connection, and writes to a NULL     *)
(* server if not.  The filters of the connection stay in the table under   *)
(* its address; the callback that calls them goes with its event.          *)
(***************************************************************************)
ClosedCallbackDies == \E k \in DOMAIN table["connection_closed"] : ~serverListed

\* Plausible bug: the group is not freed with its connection.
GroupsAfterCloseKept == group

GroupsAfterClose == [i \in Context |-> None]

Close(next) ==
  /\ listed' = FALSE
  /\ IF ClosedCallbackDies
     THEN pc' = "dead" /\ UNCHANGED <<conn, keyVars, icVars>>
     ELSE /\ pc' = next
          /\ conn' = "freed" /\ keymap' = None /\ state' = None
          /\ group' = GroupsAfterClose
          /\ UNCHANGED <<ics, xics>>
  /\ wire' = <<>> /\ queue' = <<>>
  /\ UNCHANGED <<xkb, serverVars, device, sent>>

(* fcitx_xcb_io_callback: the descriptor is readable, or has failed.       *)
IOCallbackCloses ==
  /\ pc = "idle" /\ listed /\ conn = "broken"
  /\ Close("idle")
  /\ UNCHANGED table

IOCallback ==
  /\ pc = "idle" /\ listed /\ conn = "open" /\ wire # <<>>
  /\ pc' = "events"
  /\ UNCHANGED <<connVars, keyVars, table, serverVars, icVars, outside>>

PollReads ==
  /\ pc = "events" /\ conn = "open" /\ queue = <<>> /\ wire # <<>>
  /\ RoundTrip
  /\ UNCHANGED <<pc, connVars, keyVars, table, serverVars, icVars>>

\* Plausible bug: the callback returns after the events of one read.
AllReadOnce == TRUE

AllRead == queue = <<>> /\ wire = <<>>

PollIsEmpty ==
  /\ pc = "events" /\ (AllRead \/ conn = "broken")
  /\ pc' = "idle"
  /\ UNCHANGED <<connVars, keyVars, table, serverVars, icVars, outside>>

----------------------------------------------------------------------------
(***************************************************************************)
(* One event: the filter of the module first, then that of the server.     *)
(***************************************************************************)
Next1 == Head(queue)
Take(kinds) ==
  /\ pc = "events" /\ conn = "open" /\ queue # <<>>
  /\ Next1.kind \in kinds
  /\ queue' = Tail(queue)
  /\ UNCHANGED <<device, wire, sent>>

\* Plausible bug: new keycodes do not reload the keymap.
ReloadsOnMapOnly(e) == e.kind = "map"

ReloadsKeymap(e) == e.kind \in {"map", "keyboard"}

(* Without the extension its first event has the number 0, that of the     *)
(* errors the library delivers: error codes are then read as its types.    *)
Means(e, kind) == e.kind = kind \/ (e.kind = "error" /\ xkb = "absent" /\ e.code = kind)

StateNotify ==
  /\ Take({"state", "error"}) /\ Means(Next1, "state")
  /\ IF state = None
     THEN pc' = "dead" /\ UNCHANGED state
     ELSE state' = [state EXCEPT !.mods = Next1.mods] /\ UNCHANGED pc
  /\ UNCHANGED <<connVars, keymap, table, serverVars, icVars>>

MapNotify ==
  /\ Take({"map", "keyboard", "error"})
  /\ Means(Next1, "map") \/ Next1.kind = "keyboard"
  /\ pc' = IF ReloadsKeymap(Next1) \/ Next1.kind = "error" THEN "fetch_keymap" ELSE pc
  /\ UNCHANGED <<connVars, keyVars, table, serverVars, icVars>>

ErrorIsIgnored ==
  /\ Take({"error"}) /\ xkb # "absent"
  /\ UNCHANGED <<pc, connVars, keyVars, table, serverVars, icVars>>

(* A client message names a context, which may be gone.                    *)
SelectGroup ==
  /\ Take({"select"})
  /\ group' = IF Next1.ic \in ics THEN [group EXCEPT ![Next1.ic] = Group] ELSE group
  /\ UNCHANGED <<pc, connVars, keyVars, table, serverVars, ics, xics>>

ServerSees == "xim" \in ToSet(table["filter"])

CreateIC ==
  /\ Take({"create"}) /\ ServerSees
  /\ \E i \in Context \ ics :
       /\ ics' = ics \cup {i} /\ xics' = xics \cup {i}
       /\ group' = [group EXCEPT ![i] = Group]
  /\ UNCHANGED <<pc, connVars, keyVars, table, serverVars>>

DestroyIC ==
  /\ Take({"destroy"})
  /\ ics' = ics \ {Next1.ic} /\ xics' = xics \ {Next1.ic}
  /\ group' = [group EXCEPT ![Next1.ic] = None]
  /\ UNCHANGED <<pc, connVars, keyVars, table, serverVars>>

(* A forwarded key is looked up in the state, if there is one, and given   *)
(* to the context; keys, focus and reset change nothing here.              *)
ForwardEvent ==
  /\ Take({"key"})
  /\ UNCHANGED <<pc, connVars, keyVars, table, serverVars, icVars>>

----------------------------------------------------------------------------
(***************************************************************************)
(* The end: the contexts go first, then the frontend, then the module.     *)
(***************************************************************************)
destroy_all_input_context ==
  /\ pc = "idle"
  /\ ics' = {} /\ group' = [i \in Context |-> None]
  /\ pc' = "destroy_xim"
  /\ UNCHANGED <<connVars, keyVars, table, serverVars, xics, outside>>

(* The window of a server is destroyed through its connection; if that is  *)
(* freed the program may go on or not.                                     *)
FilterAfterDestroy == IF serverListed THEN list_remove(table["filter"], "xim") ELSE table["filter"]

fcitx_xim_destroy ==
  /\ pc = "destroy_xim"
  /\ pc' \in IF serverListed /\ conn = "freed" THEN {"destroy_xcb", "dead"} ELSE {"destroy_xcb"}
  /\ IF xim = "running"
     THEN /\ xim' = "destroyed" /\ serverListed' = FALSE /\ xics' = {}
          /\ server' = IF serverListed THEN "freed" ELSE server
          /\ table' = [table EXCEPT !["connection_created"] = <<>>, !["connection_closed"] = <<>>,
                                    !["filter"] = FilterAfterDestroy]
     ELSE UNCHANGED <<serverVars, xics, table>>
  /\ UNCHANGED <<connVars, keyVars, ics, group, outside>>

fcitx_xcb_destroy ==
  /\ pc = "destroy_xcb"
  /\ IF listed
     THEN Close("ended")
     ELSE pc' = "ended" /\ UNCHANGED <<connVars, keyVars, serverVars, icVars, outside>>
  /\ table' = [k \in Keys |-> <<>>]

----------------------------------------------------------------------------
(***************************************************************************)
(* Outside: the keyboard, the clients, other frontends, the connection.    *)
(***************************************************************************)
Send(e) ==
  /\ conn = "open" /\ pc \notin {"dead", "ended"} /\ sent < MaxSent
  /\ wire' = Append(wire, e)
  /\ sent' = sent + 1
  /\ UNCHANGED queue

Inside == <<pc, connVars, keyVars, table, serverVars, icVars>>

LayoutChanges ==
  /\ device.layout < MaxKeymap /\ xkb = "selected"
  /\ device' = [device EXCEPT !.layout = @ + 1]
  /\ \E kind \in {"map", "keyboard"} : Send([kind |-> kind])
  /\ UNCHANGED Inside

ModsChange ==
  /\ xkb = "selected"
  /\ \E m \in Mods \ {device.mods} :
       device' = [device EXCEPT !.mods = m] /\ Send([kind |-> "state", mods |-> m])
  /\ UNCHANGED Inside

ErrorOccurs ==
  /\ \E code \in {"state", "map"} : Send([kind |-> "error", code |-> code, mods |-> 0])
  /\ UNCHANGED <<Inside, device>>

ClientSelects(i) ==
  /\ Send([kind |-> "select", ic |-> i])
  /\ UNCHANGED <<Inside, device>>

InFlight(e) == e \in ToSet(wire) \cup ToSet(queue)

ClientCreates ==
  /\ server = "live" /\ ~InFlight([kind |-> "create"]) /\ ics # Context
  /\ Send([kind |-> "create"])
  /\ UNCHANGED <<Inside, device>>

ClientDestroys(i) ==
  /\ server = "live" /\ i \in xics /\ ~InFlight([kind |-> "destroy", ic |-> i])
  /\ Send([kind |-> "destroy", ic |-> i])
  /\ UNCHANGED <<Inside, device>>

ClientTypes(i) ==
  /\ server = "live" /\ i \in xics /\ ~InFlight([kind |-> "destroy", ic |-> i])
  /\ Send([kind |-> "key", at |-> device.layout])
  /\ UNCHANGED <<Inside, device>>

OtherFrontend(i) ==
  /\ pc = "idle" /\ i \notin xics
  /\ \/ i \notin ics /\ ~InFlight([kind |-> "create"]) /\ ics' = ics \cup {i}
     \/ i \in ics /\ ics' = ics \ {i}
  /\ group' = [group EXCEPT ![i] = None]
  /\ UNCHANGED <<pc, connVars, keyVars, table, serverVars, xics, outside>>

Break ==
  /\ conn = "open" /\ pc \notin {"dead", "ended"}
  /\ conn' = "broken" /\ wire' = <<>> /\ queue' = <<>>
  /\ UNCHANGED <<pc, listed, xkb, keyVars, table, serverVars, icVars, device, sent>>

----------------------------------------------------------------------------
KeymapStep == KeymapFromDevice \/ StateFromDevice \/ KeymapFromNames
EventStep ==
  \/ StateNotify \/ MapNotify \/ ErrorIsIgnored \/ SelectGroup
  \/ CreateIC \/ DestroyIC \/ ForwardEvent
LoopStep == IOCallbackCloses \/ IOCallback \/ PollReads \/ PollIsEmpty

Next ==
  \/ fcitx_xcb_init \/ OpenConnection \/ fcitx_xim_init \/ mainloop_run
  \/ KeymapStep \/ LoopStep \/ EventStep
  \/ destroy_all_input_context \/ fcitx_xim_destroy \/ fcitx_xcb_destroy
  \/ LayoutChanges \/ ModsChange \/ ErrorOccurs \/ ClientCreates \/ Break
  \/ \E i \in Context : ClientSelects(i) \/ ClientDestroys(i) \/ ClientTypes(i) \/ OtherFrontend(i)

(* The main loop calls the callback of a descriptor that is ready, and the *)
(* callback goes on until it returns.                                      *)
Fairness == WF_vars(LoopStep) /\ WF_vars(EventStep) /\ WF_vars(KeymapStep) /\ WF_vars(OpenConnection)

Spec == Init /\ [][Next]_vars /\ Fairness

----------------------------------------------------------------------------
(* The types of the connection, the server and what is on the way.         *)
Layout == 0..MaxKeymap
Keymap == [from : {"device", "rules", "default"}, layout : Layout]
State == [from : {"device", "rules", "default"}, layout : Layout, mods : Mods]
Event ==
  [kind : {"map", "keyboard", "create"}] \cup [kind : {"state"}, mods : Mods]
    \cup [kind : {"error"}, code : {"state", "map"}, mods : {0}]
    \cup [kind : {"select", "destroy"}, ic : Context] \cup [kind : {"key"}, at : Layout]

ConnectionOK ==
  /\ pc \in {"start", "fetch_keymap", "fetch_state", "insert", "loading", "idle", "events",
             "destroy_xim", "destroy_xcb", "ended", "dead"}
  /\ conn \in {"none", "open", "broken", "freed"}
  /\ listed \in BOOLEAN /\ serverListed \in BOOLEAN
  /\ xkb \in {"absent", "refused", "selected"}
  /\ keymap \in Keymap \cup {None} /\ state \in State \cup {None}
  /\ table \in [Keys -> Seq({"xcb", "xim"})]
  /\ xim \in {"none", "running", "destroyed"}
  /\ server \in {"none", "live", "freed"}

ContextsOK ==
  /\ ics \subseteq Context /\ xics \subseteq Context
  /\ group \in [Context -> {Group, None}]

WireOK ==
  /\ device \in [layout : Layout, mods : Mods]
  /\ wire \in Seq(Event) /\ queue \in Seq(Event)
  /\ sent \in 0..MaxSent

TypeOK == ConnectionOK /\ ContextsOK /\ WireOK

(* When every event has been handled, the state by which keys are looked   *)
(* up is that of the keyboard, however changes of the layout and of the    *)
(* modifiers fall between the two questions of update_keymap and the       *)
(* events already read (xcbmodule.c:442-472, 490-536).                     *)
Quiet == queue = <<>> /\ wire = <<>>

KeyStateCurrent ==
  pc = "idle" /\ listed /\ conn = "open" /\ Quiet /\ state # None /\ state.from = "device"
  => state.layout = device.layout /\ state.mods = device.mods

(* A key is looked up in a layout that is not older than the key: no       *)
(* change of the layout that the client saw is still waiting behind it     *)
(* (xim.c:141-159 against xcbmodule.c:458-469).                            *)
KeySeesLayout ==
  pc = "events" /\ queue # <<>> /\ Next1.kind = "key" /\ state # None /\ state.from = "device"
  => state.layout >= Next1.at

(* What refers to something that is gone: a filter to its connection or    *)
(* its server, a watcher to the frontend, a context to the focus group of  *)
(* a connection, the server to the connection, the group and the input     *)
(* method made of it.                                                      *)
Refers(kind, S) == {<<kind, x>> : x \in S}

FiltersOfTheGone == {f \in ToSet(table["filter"]) : conn = "freed" \/ (f = "xim" /\ server # "live")}

WatchersOfTheGone == {k \in Keys \ {"filter"} : table[k] # <<>> /\ xim # "running"}

ContextsOfTheGone == {i \in Context : group[i] # None /\ (i \notin ics \/ conn \notin {"open", "broken"})}

ServerOfTheGone == IF server = "live" /\ conn = "freed" THEN {"conn", "group", "im"} ELSE {}

Dangling ==
  Refers("filter", FiltersOfTheGone) \cup Refers("watcher", WatchersOfTheGone)
    \cup Refers("context", ContextsOfTheGone) \cup Refers("server", ServerOfTheGone)

(* What dangles, wherever the connection breaks, whoever is in its group   *)
(* and whatever has been loaded: filters and the server that are left      *)
(* behind by a connection that broke, and nothing else ever.  The loop     *)
(* does not read the events they wait for again (the event is removed and  *)
(* the connection not listed), and they are gone when the program has      *)
(* ended: the first to use them is fcitx_xim_destroy (xcbmodule.c:130-157, *)
(* xim.c:226-252).  fcitx_xim_handle_event, which would use the server for *)
(* a context of its clients, returns at once for every event (xim.c:290).  *)
(* While the frontend runs, the server does dangle after a break, though   *)
(* its destroy function means to be called then ("connection is going to   *)
(* close, what's the point of destroy window?", xim.c:246).                *)
DanglesAfterBreakOnly ==
  /\ Dangling # {} =>
       /\ \A d \in Dangling : d[1] \in {"filter", "server"}
       /\ conn = "freed" /\ ~listed
       /\ pc \in {"idle", "destroy_xim", "destroy_xcb", "dead"}
  /\ conn = "freed" /\ xim = "running" => ServerOfTheGone # {}

(* What is readable is handled to the last event, also what a round trip   *)
(* of a callback has read early, unless the connection or the program ends.*)
Stopped == pc \notin {"idle", "events", "fetch_keymap", "fetch_state"} \/ conn # "open"

EventsAreHandled == (wire # <<>> /\ ~Stopped) ~> (Stopped \/ Quiet)
=============================================================================
