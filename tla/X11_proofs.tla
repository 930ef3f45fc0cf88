------------------------------- MODULE X11_proofs -------------------------------
(***************************************************************************)
(* Proofs about the X connection and the XIM server on it, for any number  *)
(* of contexts, layouts and events: what dangles is what a connection that *)
(* broke has left behind, and keys are looked up in the keyboard state     *)
(* they were typed in.                                                     *)
(***************************************************************************)
EXTENDS X11, FcitxList_proofs

USE BoundAssumption

(* Every event that is taken from the queue is one, and the types of the   *)
(* connection and the server are kept by every step.                       *)
LEMMA TakeIsEvent ==
  ASSUME TypeOK, NEW kinds, Take(kinds)
  PROVE  Next1 \in Event /\ Next1.kind \in kinds /\ queue' \in Seq(Event)
<1>1. queue \in Seq(Event) /\ queue # <<>>
  BY DEF TypeOK, ConnectionOK, ContextsOK, WireOK, Take
<1>2. Head(queue) \in Event /\ Tail(queue) \in Seq(Event)
  BY <1>1
<1> QED BY <1>2 DEF Take, Next1

LEMMA RoundTripTypes ==
  ASSUME TypeOK, RoundTrip
  PROVE  queue' \in Seq(Event) /\ wire' \in Seq(Event) /\ device' = device /\ sent' = sent
<1>1. queue \in Seq(Event) /\ wire \in Seq(Event)
  BY DEF TypeOK, ConnectionOK, ContextsOK, WireOK
<1>2. queue \o wire \in Seq(Event) /\ <<>> \in Seq(Event)
  BY <1>1
<1> QED BY <1>2 DEF RoundTrip

LEMMA SendTypes ==
  ASSUME TypeOK, NEW e \in Event, Send(e)
  PROVE  queue' \in Seq(Event) /\ wire' \in Seq(Event) /\ sent' \in 0..MaxSent
<1>1. wire \in Seq(Event) /\ queue \in Seq(Event) /\ sent \in 0..MaxSent
  BY DEF TypeOK, ConnectionOK, ContextsOK, WireOK
<1>2. Append(wire, e) \in Seq(Event)
  BY <1>1
<1>3. wire' = Append(wire, e) /\ queue' = queue /\ sent < MaxSent /\ sent' = sent + 1
  BY DEF Send
<1> QED BY <1>1, <1>2, <1>3

LEMMA FilterTypes ==
  ASSUME TypeOK, serverListed => "xim" \in ToSet(table["filter"])
  PROVE  /\ FilterAfterDestroy \in Seq({"xcb", "xim"})
         /\ IsInjective(table["filter"]) /\ serverListed
              => "xim" \notin ToSet(FilterAfterDestroy) /\ IsInjective(FilterAfterDestroy)
         /\ ~serverListed => FilterAfterDestroy = table["filter"]
<1>1. table["filter"] \in Seq({"xcb", "xim"})
  BY DEF TypeOK, ConnectionOK, ContextsOK, WireOK, Keys
<1> DEFINE f == table["filter"]
<1>2. CASE serverListed
  BY <1>1, <1>2, RemoveIsUnlink DEF FilterAfterDestroy
<1>3. CASE ~serverListed
  BY <1>1, <1>3 DEF FilterAfterDestroy
<1> QED BY <1>2, <1>3

(* The connection and the server live and end together.  A freed           *)
(* connection is in no list and nobody fetches from it; the server that is *)
(* listed is the one the filter of the table calls, and belongs to a       *)
(* frontend that runs; nothing is read or sent once the connection fails.  *)
Alive ==
  /\ conn = "freed" => ~listed /\ pc \in {"idle", "destroy_xim", "destroy_xcb", "ended", "dead"}
  /\ pc = "start" => conn = "none" /\ state = None
  /\ conn # "open" => wire = <<>> /\ queue = <<>>
  /\ serverListed <=> "xim" \in ToSet(table["filter"])
  /\ serverListed => xim = "running"
  /\ xim = "running" => table["connection_closed"] # <<>>
  /\ conn = "freed" /\ xim = "running" => serverListed
  /\ server = "live" <=> serverListed
  /\ pc = "ended" => table["filter"] = <<>>
  /\ pc = "destroy_xcb" => xim # "running"
  /\ pc = "fetch_state" => keymap \in Keymap
  /\ pc = "events" => listed
  /\ \A k \in Keys \ {"filter"} : table[k] # <<>> => xim = "running"
  /\ IsInjective(table["filter"])
  /\ pc \in {"start", "insert"} \/ (pc \in {"fetch_keymap", "fetch_state"} /\ ~listed)
       => "xcb" \notin ToSet(table["filter"])

LEMMA FilterAppend ==
  ASSUME NEW f \in Seq({"xcb", "xim"}), NEW w \in {"xcb", "xim"}
  PROVE  /\ Append(f, w) \in Seq({"xcb", "xim"})
         /\ ToSet(Append(f, w)) = ToSet(f) \cup {w}
         /\ IsInjective(f) /\ w \notin ToSet(f) => IsInjective(Append(f, w))
BY AppendIsLink

(* The steps that neither take an event from the queue nor send one.       *)
LoopSteps == fcitx_xcb_init \/ OpenConnection \/ fcitx_xim_init \/ mainloop_run \/ KeymapStep \/ LoopStep

EndSteps == destroy_all_input_context \/ fcitx_xim_destroy \/ fcitx_xcb_destroy \/ Break

ClientSteps ==
  \/ LayoutChanges \/ ModsChange \/ ErrorOccurs \/ ClientCreates
  \/ \E i \in Context : ClientSelects(i) \/ ClientDestroys(i) \/ ClientTypes(i)

OtherSteps == \E i \in Context : OtherFrontend(i)

LEMMA NextSteps == Next => LoopSteps \/ EventStep \/ EndSteps \/ ClientSteps \/ OtherSteps
BY DEF Next, LoopSteps, EndSteps, ClientSteps, OtherSteps

ChangesLayout(e) == e.kind \in {"map", "keyboard"}

(* What a client sees when it sends e, and what e tells of the keyboard.   *)
Tells(e) ==
  /\ device'.layout >= device.layout
  /\ device'.layout = device.layout \/ ChangesLayout(e)
  /\ e.kind = "key" => e.at = device'.layout
  /\ IF e.kind = "state" THEN e.mods = device'.mods ELSE device'.mods = device.mods

(* What is sent is an event that tells the truth.                          *)
LEMMA ClientSends ==
  ASSUME TypeOK, ClientSteps
  PROVE  /\ \E e \in Event : Send(e) /\ Tells(e)
         /\ UNCHANGED Inside
         /\ device' \in [layout : Layout, mods : Mods]
<1>1. device \in [layout : Layout, mods : Mods] /\ xics \subseteq Context
  BY DEF TypeOK, ContextsOK, WireOK
<1>2. device.layout \in Int
  BY <1>1 DEF Layout
<1>3. CASE LayoutChanges
  <2>1. PICK kind \in {"map", "keyboard"} : Send([kind |-> kind])
    BY <1>3 DEF LayoutChanges
  <2>2. [kind |-> kind] \in Event
    BY DEF Event
  <2>3. /\ device' \in [layout : Layout, mods : Mods]
        /\ device'.layout = device.layout + 1 /\ device'.mods = device.mods
    BY <1>1, <1>3 DEF LayoutChanges, Layout
  <2>4. Tells([kind |-> kind])
    BY <1>2, <2>3 DEF Tells, ChangesLayout
  <2> QED BY <1>3, <2>1, <2>2, <2>3, <2>4 DEF LayoutChanges
<1>4. CASE ModsChange
  <2>1. PICK m \in Mods : device' = [device EXCEPT !.mods = m] /\ Send([kind |-> "state", mods |-> m])
    BY <1>4 DEF ModsChange
  <2>2. [kind |-> "state", mods |-> m] \in Event
    BY DEF Event
  <2>3. Tells([kind |-> "state", mods |-> m])
    BY <1>1, <1>2, <2>1 DEF Tells
  <2> QED BY <1>1, <1>4, <2>1, <2>2, <2>3 DEF ModsChange
<1>5. CASE ErrorOccurs
  <2>1. PICK code \in {"state", "map"} : Send([kind |-> "error", code |-> code, mods |-> 0])
    BY <1>5 DEF ErrorOccurs
  <2>2. [kind |-> "error", code |-> code, mods |-> 0] \in Event
    BY DEF Event
  <2>3. device' = device
    BY <1>5 DEF ErrorOccurs
  <2> QED BY <1>1, <1>2, <1>5, <2>1, <2>2, <2>3 DEF ErrorOccurs, Tells
<1>6. CASE ClientCreates
  <2>1. [kind |-> "create"] \in Event
    BY DEF Event
  <2> QED BY <1>1, <1>2, <1>6, <2>1 DEF ClientCreates, Tells
<1>7. ASSUME NEW i \in Context, ClientSelects(i) \/ ClientDestroys(i) \/ ClientTypes(i)
      PROVE  /\ \E e \in Event : Send(e) /\ Tells(e)
             /\ UNCHANGED Inside
             /\ device' \in [layout : Layout, mods : Mods]
  <2>1. [kind |-> "select", ic |-> i] \in Event /\ [kind |-> "destroy", ic |-> i] \in Event
    BY DEF Event
  <2>2. [kind |-> "key", at |-> device.layout] \in Event
    BY <1>1 DEF Event
  <2>3. UNCHANGED Inside /\ device' = device
    BY <1>7 DEF ClientSelects, ClientDestroys, ClientTypes
  <2> QED BY <1>1, <1>2, <1>7, <2>1, <2>2, <2>3 DEF ClientSelects, ClientDestroys, ClientTypes, Tells
<1> QED BY <1>3, <1>4, <1>5, <1>6, <1>7 DEF ClientSteps

----------------------------------------------------------------------------
(* Each kind of step keeps the types and what Alive says.                  *)
LEMMA InitAlive == Init => TypeOK /\ Alive
<1>1. <<>> \in Seq({"xcb", "xim"}) /\ <<>> \in Seq(Event) /\ ToSet(<<>>) = {} /\ IsInjective(<<>>)
  BY DEF ToSet, IsInjective
<1>2. 0 \in Layout /\ 0 \in 0..MaxSent
  BY DEF Layout
<1> SUFFICES ASSUME Init PROVE TypeOK /\ Alive
  OBVIOUS
<1>3. device \in [layout : Layout, mods : Mods]
  BY <1>2 DEF Init
<1>4. table["filter"] = <<>> /\ table \in [Keys -> Seq({"xcb", "xim"})] /\ \A k \in Keys : table[k] = <<>>
  BY <1>1 DEF Init, Keys
<1>5. TypeOK
  BY <1>1, <1>2, <1>3, <1>4 DEF Init, TypeOK, ConnectionOK, ContextsOK, WireOK
<1>6. Alive
  BY <1>1, <1>4 DEF Init, Alive
<1> QED BY <1>5, <1>6

LEMMA LoopAlive == ASSUME TypeOK, Alive, LoopSteps PROVE TypeOK' /\ Alive'
<1>1. table \in [Keys -> Seq({"xcb", "xim"})] /\ table["filter"] \in Seq({"xcb", "xim"})
  BY DEF TypeOK, ConnectionOK, ContextsOK, WireOK, Keys
<1>2. <<>> \in Seq(Event)
  OBVIOUS
<1>3. CASE fcitx_xcb_init
  BY <1>3 DEF fcitx_xcb_init, TypeOK, ConnectionOK, ContextsOK, WireOK, Alive, keyVars, serverVars, icVars, outside
<1>4. CASE OpenConnection
  <2>1. table'["filter"] = Append(table["filter"], "xcb")
        /\ \A k \in Keys \ {"filter"} : table'[k] = table[k]
    BY <1>1, <1>4 DEF OpenConnection, Keys
  <2>2. table' \in [Keys -> Seq({"xcb", "xim"})]
    BY <1>1, <1>4, FilterAppend DEF OpenConnection, Keys
  <2>3. /\ ToSet(table'["filter"]) = ToSet(table["filter"]) \cup {"xcb"}
        /\ IsInjective(table'["filter"])
    BY <1>1, <1>4, <2>1, FilterAppend DEF OpenConnection, Alive
  <2>4. TypeOK'
    BY <1>4, <2>2 DEF OpenConnection, TypeOK, ConnectionOK, ContextsOK, WireOK, keyVars, serverVars, icVars, outside
  <2>5. Alive'
    BY <1>4, <2>1, <2>3 DEF OpenConnection, Alive, keyVars, serverVars, outside
  <2> QED BY <2>4, <2>5
<1>5. CASE fcitx_xim_init
  <2>1. "xim" \notin ToSet(table["filter"]) /\ xim' = "running"
        /\ UNCHANGED <<pc, conn, listed, xkb, keymap, state, ics, xics, group>>
    BY <1>5 DEF Alive, fcitx_xim_init, connVars, keyVars, icVars
  <2>2. CASE ServerOpens
    <3>1. table'["filter"] = Append(table["filter"], "xim")
      BY <1>1, <2>2 DEF ServerOpens, Keys
    <3>2. <<"xim">> \in Seq({"xcb", "xim"}) /\ Append(table["filter"], "xim") \in Seq({"xcb", "xim"})
      BY <1>1
    <3>3. table' \in [Keys -> Seq({"xcb", "xim"})]
      BY <1>1, <2>2, <3>2 DEF ServerOpens, Keys
    <3>4. /\ ToSet(table'["filter"]) = ToSet(table["filter"]) \cup {"xim"}
          /\ IsInjective(table'["filter"])
      BY <1>1, <2>1, <3>1, FilterAppend DEF Alive
    <3>5. RoundTrip /\ server' = "live" /\ serverListed' = TRUE
      BY <2>2 DEF ServerOpens
    <3>6. TypeOK'
      BY <2>1, <3>3, <3>5, RoundTripTypes DEF TypeOK, ConnectionOK, ContextsOK, WireOK
    <3>7. conn' = "open" /\ pc' = "loading"
      BY <1>5, <2>1, <2>2, <3>5 DEF fcitx_xim_init, TypeOK, ConnectionOK, ContextsOK, WireOK, NoServer, Alive, ServerOpens
    <3>8. table'["connection_closed"] = <<"xim">> /\ <<"xim">> # <<>>
      BY <1>1, <2>2 DEF ServerOpens, Keys
    <3>9. Alive'
      BY <2>1, <3>4, <3>5, <3>7, <3>8 DEF Alive
    <3> QED BY <3>6, <3>9
  <2>3. CASE NoServer
    <3>1. table'["filter"] = table["filter"] /\ UNCHANGED <<serverListed, device, wire, queue, sent>>
      BY <1>1, <2>3 DEF NoServer, Keys, outside
    <3>2. <<"xim">> \in Seq({"xcb", "xim"})
      OBVIOUS
    <3>3. table' \in [Keys -> Seq({"xcb", "xim"})]
      BY <1>1, <2>3, <3>2 DEF NoServer, Keys
    <3>4. TypeOK'
      <4>1. server' \in {"none", "live", "freed"}
        BY <2>3 DEF NoServer
      <4>2. ConnectionOK'
        BY <2>1, <3>1, <3>3, <4>1 DEF TypeOK, ConnectionOK
      <4>3. ContextsOK' /\ WireOK'
        BY <2>1, <2>3, <3>1 DEF TypeOK, ContextsOK, WireOK, NoServer
      <4> QED BY <4>2, <4>3 DEF TypeOK
    <3>5. ~serverListed /\ pc = "loading" /\ server' # "live"
      BY <1>5, <2>3 DEF Alive, fcitx_xim_init, NoServer
    <3>6. table'["connection_closed"] = <<"xim">> /\ <<"xim">> # <<>> /\ conn # "freed"
      BY <1>1, <2>3, <3>5 DEF NoServer, Keys, Alive
    <3>7. Alive'
      BY <2>1, <3>1, <3>5, <3>6 DEF Alive
    <3> QED BY <3>4, <3>7
  <2> QED BY <1>5, <2>2, <2>3 DEF fcitx_xim_init
<1>6. CASE mainloop_run
  BY <1>6 DEF mainloop_run, TypeOK, ConnectionOK, ContextsOK, WireOK, Alive, connVars, keyVars, serverVars, icVars, outside
<1>7. CASE KeymapFromDevice
  <2>1. device.layout \in Layout
    BY DEF TypeOK, ConnectionOK, ContextsOK, WireOK
  <2>2. [from |-> "device", layout |-> device.layout] \in Keymap
    BY <2>1 DEF Keymap
  <2>3. TypeOK'
    BY <1>7, <2>2, RoundTripTypes DEF KeymapFromDevice, TypeOK, ConnectionOK, ContextsOK, WireOK, connVars, serverVars, icVars
  <2>4. Alive'
    BY <1>7, <2>2 DEF KeymapFromDevice, Alive, connVars, serverVars, icVars
  <2> QED BY <2>3, <2>4
<1>8. CASE StateFromDevice
  <2>1. CASE conn = "open"
    <3>1. RoundTrip /\ state' = [from |-> "device", layout |-> keymap.layout, mods |-> device.mods]
      BY <1>8, <2>1 DEF StateFromDevice, ModsFromDevice
    <3>2. keymap \in Keymap
      BY <1>8 DEF StateFromDevice, Alive
    <3>3. state' \in State
      BY <3>1, <3>2 DEF TypeOK, ConnectionOK, ContextsOK, WireOK, Keymap, State
    <3>4. TypeOK'
      BY <1>8, <3>1, <3>3, RoundTripTypes DEF StateFromDevice, Resume, TypeOK, ConnectionOK, ContextsOK, WireOK, connVars, serverVars, icVars
    <3>5. Alive'
      BY <1>8, <2>1 DEF StateFromDevice, Resume, Alive, connVars, serverVars, icVars
    <3> QED BY <3>4, <3>5
  <2>2. CASE conn # "open"
    <3>1. TypeOK'
      BY <1>8, <2>2 DEF StateFromDevice, Resume, TypeOK, ConnectionOK, ContextsOK, WireOK, connVars, serverVars, icVars, outside
    <3>2. Alive'
      BY <1>8, <2>2 DEF StateFromDevice, Resume, Alive, connVars, serverVars, icVars, outside
    <3> QED BY <3>1, <3>2
  <2> QED BY <2>1, <2>2
<1>9. CASE KeymapFromNames
  <2>1. device.layout \in Layout
    BY DEF TypeOK, ConnectionOK, ContextsOK, WireOK
  <2>2. keymap' \in Keymap \cup {None} /\ state' \in State \cup {None}
    <3>1. PICK from \in {"rules", "default", "nothing"} :
            /\ keymap' = IF from = "nothing" THEN None ELSE [from |-> from, layout |-> device.layout]
            /\ state' = IF from = "nothing" THEN None ELSE [from |-> from, layout |-> device.layout, mods |-> 0]
      BY <1>9 DEF KeymapFromNames
    <3>2. CASE from = "nothing"
      BY <3>1, <3>2
    <3>3. CASE from # "nothing"
      BY <2>1, <3>1, <3>3 DEF Keymap, State, Mods
    <3> QED BY <3>2, <3>3
  <2>3. /\ queue' \in Seq(Event) /\ wire' \in Seq(Event) /\ device' = device /\ sent' = sent
        /\ conn # "open" => UNCHANGED <<wire, queue>>
    BY <1>9, RoundTripTypes DEF KeymapFromNames, outside, TypeOK, ConnectionOK, ContextsOK, WireOK
  <2>4. TypeOK'
    BY <1>9, <2>2, <2>3 DEF KeymapFromNames, Resume, TypeOK, ConnectionOK, ContextsOK, WireOK, connVars, serverVars, icVars
  <2>5. Alive'
    BY <1>9, <2>3 DEF KeymapFromNames, Resume, Alive, connVars, serverVars, icVars
  <2> QED BY <2>4, <2>5
<1>10. CASE IOCallbackCloses
  <2>1. [i \in Context |-> None] \in [Context -> {Group, None}]
    OBVIOUS
  <2>2. TypeOK'
    BY <1>2, <1>10, <2>1 DEF IOCallbackCloses, Close, GroupsAfterClose, TypeOK, ConnectionOK, ContextsOK, WireOK, keyVars, icVars, serverVars
  <2>3. xim = "running" /\ ~ClosedCallbackDies => serverListed
    <3>1. table["connection_closed"] \in Seq({"xcb", "xim"})
      BY <1>1 DEF Keys
    <3>2. table["connection_closed"] # <<>> => 1 \in DOMAIN table["connection_closed"]
      BY <3>1
    <3> QED BY <3>2 DEF Alive, ClosedCallbackDies
  <2>4. Alive'
    BY <1>10, <2>3 DEF IOCallbackCloses, Close, Alive, keyVars, icVars, serverVars
  <2> QED BY <2>2, <2>4
<1>11. CASE IOCallback
  BY <1>11 DEF IOCallback, TypeOK, ConnectionOK, ContextsOK, WireOK, Alive, connVars, keyVars, serverVars, icVars, outside
<1>12. CASE PollReads
  <2>1. TypeOK'
    BY <1>12, RoundTripTypes DEF PollReads, TypeOK, ConnectionOK, ContextsOK, WireOK, connVars, keyVars, serverVars, icVars
  <2>2. Alive'
    BY <1>12 DEF PollReads, Alive, connVars, keyVars, serverVars
  <2> QED BY <2>1, <2>2
<1>13. CASE PollIsEmpty
  BY <1>13 DEF PollIsEmpty, TypeOK, ConnectionOK, ContextsOK, WireOK, Alive, connVars, keyVars, serverVars, icVars, outside
<1> QED
  BY <1>3, <1>4, <1>5, <1>6, <1>7, <1>8, <1>9, <1>10, <1>11, <1>12, <1>13
     DEF LoopSteps, KeymapStep, LoopStep

LEMMA EventAlive == ASSUME TypeOK, Alive, EventStep PROVE TypeOK' /\ Alive'
<1>1. CASE StateNotify
  <2>1. Next1 \in Event /\ Next1.kind \in {"state", "error"} /\ queue' \in Seq(Event)
    BY <1>1, TakeIsEvent DEF StateNotify
  <2>2. Next1.mods \in Mods
    BY <2>1 DEF Event, Mods
  <2>3. state' \in State \cup {None}
    BY <1>1, <2>2 DEF StateNotify, TypeOK, ConnectionOK, ContextsOK, WireOK, State
  <2>4. conn = "open" /\ pc = "events" /\ UNCHANGED <<device, wire, sent>>
    BY <1>1 DEF StateNotify, Take
  <2>5. TypeOK'
    BY <1>1, <2>1, <2>3, <2>4 DEF StateNotify, TypeOK, ConnectionOK, ContextsOK, WireOK, connVars, serverVars, icVars
  <2>6. Alive'
    BY <1>1, <2>4 DEF StateNotify, Alive, connVars, serverVars
  <2> QED BY <2>5, <2>6
<1>2. CASE MapNotify
  <2>1. queue' \in Seq(Event) /\ conn = "open" /\ pc = "events" /\ UNCHANGED <<device, wire, sent>>
    BY <1>2, TakeIsEvent DEF MapNotify, Take
  <2>2. listed
    BY <2>1 DEF Alive
  <2>3. TypeOK'
    BY <1>2, <2>1 DEF MapNotify, TypeOK, ConnectionOK, ContextsOK, WireOK, connVars, keyVars, serverVars, icVars
  <2>4. Alive'
    BY <1>2, <2>1, <2>2 DEF MapNotify, Alive, connVars, keyVars, serverVars
  <2> QED BY <2>3, <2>4
<1>3. CASE ErrorIsIgnored
  <2>1. queue' \in Seq(Event) /\ conn = "open" /\ UNCHANGED <<device, wire, sent>>
    BY <1>3, TakeIsEvent DEF ErrorIsIgnored, Take
  <2>8. TypeOK'
    BY <1>3, <2>1 DEF ErrorIsIgnored, TypeOK, ConnectionOK, ContextsOK, WireOK, connVars, keyVars, serverVars, icVars
  <2>9. Alive'
    BY <1>3, <2>1 DEF ErrorIsIgnored, Alive, connVars, keyVars, serverVars, icVars
  <2> QED BY <2>8, <2>9
<1>4. CASE SelectGroup
  <2>1. queue' \in Seq(Event) /\ conn = "open" /\ UNCHANGED <<device, wire, sent>>
    BY <1>4, TakeIsEvent DEF SelectGroup, Take
  <2>2. group' \in [Context -> {Group, None}]
    BY <1>4 DEF SelectGroup, TypeOK, ConnectionOK, ContextsOK, WireOK
  <2>7. UNCHANGED <<pc, conn, listed, xkb, keymap, state, table, xim, server, serverListed, ics, xics>>
    BY <1>4 DEF SelectGroup, connVars, keyVars, serverVars
  <2>8. TypeOK'
    BY <2>1, <2>2, <2>7 DEF TypeOK, ConnectionOK, ContextsOK, WireOK
  <2>9. Alive'
    BY <1>4, <2>1, <2>2 DEF SelectGroup, Alive, connVars, keyVars, serverVars
  <2> QED BY <2>8, <2>9
<1>5. CASE CreateIC
  <2>1. queue' \in Seq(Event) /\ conn = "open" /\ UNCHANGED <<device, wire, sent>>
    BY <1>5, TakeIsEvent DEF CreateIC, Take
  <2>2. PICK i \in Context : ics' = ics \cup {i} /\ xics' = xics \cup {i} /\ group' = [group EXCEPT ![i] = Group]
    BY <1>5 DEF CreateIC
  <2>3. group' \in [Context -> {Group, None}] /\ ics' \subseteq Context /\ xics' \subseteq Context
    BY <2>2 DEF TypeOK, ConnectionOK, ContextsOK, WireOK
  <2>7. UNCHANGED <<pc, conn, listed, xkb, keymap, state, table, xim, server, serverListed>>
    BY <1>5 DEF CreateIC, connVars, keyVars, serverVars
  <2>8. TypeOK'
    BY <2>1, <2>3, <2>7 DEF TypeOK, ConnectionOK, ContextsOK, WireOK
  <2>9. Alive'
    BY <1>5, <2>1, <2>3 DEF CreateIC, Alive, connVars, keyVars, serverVars
  <2> QED BY <2>8, <2>9
<1>6. CASE DestroyIC
  <2>1. queue' \in Seq(Event) /\ conn = "open" /\ UNCHANGED <<device, wire, sent>>
    BY <1>6, TakeIsEvent DEF DestroyIC, Take
  <2>2. group' \in [Context -> {Group, None}] /\ ics' \subseteq Context /\ xics' \subseteq Context
    BY <1>6 DEF DestroyIC, TypeOK, ConnectionOK, ContextsOK, WireOK
  <2>7. UNCHANGED <<pc, conn, listed, xkb, keymap, state, table, xim, server, serverListed>>
    BY <1>6 DEF DestroyIC, connVars, keyVars, serverVars
  <2>8. TypeOK'
    BY <2>1, <2>2, <2>7 DEF TypeOK, ConnectionOK, ContextsOK, WireOK
  <2>9. Alive'
    BY <1>6, <2>1, <2>2 DEF DestroyIC, Alive, connVars, keyVars, serverVars
  <2> QED BY <2>8, <2>9
<1>7. CASE ForwardEvent
  <2>1. queue' \in Seq(Event) /\ conn = "open" /\ UNCHANGED <<device, wire, sent>>
    BY <1>7, TakeIsEvent DEF ForwardEvent, Take
  <2>7. UNCHANGED <<pc, conn, listed, xkb, keymap, state, table, xim, server, serverListed, ics, xics, group>>
    BY <1>7 DEF ForwardEvent, connVars, keyVars, serverVars, icVars
  <2>8. TypeOK'
    BY <2>1, <2>7 DEF TypeOK, ConnectionOK, ContextsOK, WireOK
  <2>9. Alive'
    BY <1>7, <2>1 DEF ForwardEvent, Alive, connVars, keyVars, serverVars, icVars
  <2> QED BY <2>8, <2>9
<1> QED BY <1>1, <1>2, <1>3, <1>4, <1>5, <1>6, <1>7 DEF EventStep

LEMMA EndAlive == ASSUME TypeOK, Alive, EndSteps PROVE TypeOK' /\ Alive'
<1>1. table \in [Keys -> Seq({"xcb", "xim"})] /\ <<>> \in Seq({"xcb", "xim"}) /\ <<>> \in Seq(Event)
  BY DEF TypeOK, ConnectionOK, ContextsOK, WireOK
<1>2. [i \in Context |-> None] \in [Context -> {Group, None}]
  OBVIOUS
<1>3. ToSet(<<>>) = {} /\ IsInjective(<<>>)
  BY DEF ToSet, IsInjective
<1>4. CASE destroy_all_input_context
  BY <1>2, <1>4 DEF destroy_all_input_context, TypeOK, ConnectionOK, ContextsOK, WireOK, Alive, connVars, keyVars, serverVars, outside
<1>5. CASE fcitx_xim_destroy
  <2>1. CASE xim = "running"
    <3>1. /\ table'["filter"] = FilterAfterDestroy
          /\ \A k \in Keys \ {"filter"} : table'[k] = <<>>
          /\ xim' = "destroyed" /\ serverListed' = FALSE
      BY <1>1, <1>5, <2>1 DEF fcitx_xim_destroy, Keys
    <3>2. FilterAfterDestroy \in Seq({"xcb", "xim"}) /\ "xim" \notin ToSet(FilterAfterDestroy)
          /\ IsInjective(FilterAfterDestroy)
      BY FilterTypes DEF Alive
    <3>3. table' \in [Keys -> Seq({"xcb", "xim"})]
      BY <1>1, <1>5, <2>1, <3>2 DEF fcitx_xim_destroy, Keys
    <3>4. TypeOK'
      BY <1>5, <2>1, <3>1, <3>3 DEF fcitx_xim_destroy, TypeOK, ConnectionOK, ContextsOK, WireOK, connVars, keyVars, outside
    <3>5. Alive'
      BY <1>5, <2>1, <3>1, <3>2 DEF fcitx_xim_destroy, Alive, connVars, keyVars, outside
    <3> QED BY <3>4, <3>5
  <2>2. CASE xim # "running"
    BY <1>5, <2>2 DEF fcitx_xim_destroy, TypeOK, ConnectionOK, ContextsOK, WireOK, Alive, connVars, keyVars, serverVars, outside
  <2> QED BY <2>1, <2>2
<1>6. CASE fcitx_xcb_destroy
  <2>1. table' \in [Keys -> Seq({"xcb", "xim"})] /\ \A k \in Keys : table'[k] = <<>>
    BY <1>1, <1>6 DEF fcitx_xcb_destroy
  <2>2. ~serverListed /\ xim # "running" /\ pc = "destroy_xcb"
    BY <1>6 DEF fcitx_xcb_destroy, Alive
  <2>3. CASE listed
    <3>1. table["connection_closed"] = <<>>
      BY <2>2 DEF Alive, Keys
    <3>2. ~ClosedCallbackDies
      BY <3>1 DEF ClosedCallbackDies
    <3>3. Close("ended")
      BY <1>6, <2>3 DEF fcitx_xcb_destroy
    <3>4. TypeOK'
      BY <1>1, <1>2, <2>1, <3>2, <3>3 DEF Close, GroupsAfterClose, TypeOK, ConnectionOK, ContextsOK, WireOK, serverVars
    <3>5. Alive'
      BY <1>3, <2>1, <2>2, <3>2, <3>3 DEF Close, Alive, serverVars, Keys
    <3> QED BY <3>4, <3>5
  <2>4. CASE ~listed
    BY <1>3, <1>6, <2>1, <2>2, <2>4 DEF fcitx_xcb_destroy, TypeOK, ConnectionOK, ContextsOK, WireOK, Alive, connVars, keyVars, serverVars, icVars, outside, Keys
  <2> QED BY <2>3, <2>4
<1>7. CASE Break
  <2>3. UNCHANGED <<pc, listed, xkb, keymap, state, table, xim, server, serverListed, ics, xics, group, device, sent>>
    BY <1>7 DEF Break, keyVars, serverVars, icVars
  <2>1. TypeOK'
    BY <1>1, <1>7, <2>3 DEF Break, TypeOK, ConnectionOK, ContextsOK, WireOK
  <2>2. Alive'
    BY <1>7 DEF Break, Alive, keyVars, serverVars, icVars
  <2> QED BY <2>1, <2>2
<1> QED BY <1>4, <1>5, <1>6, <1>7 DEF EndSteps

LEMMA OutsideAlive == ASSUME TypeOK, Alive, ClientSteps \/ OtherSteps PROVE TypeOK' /\ Alive'
<1>1. CASE ClientSteps
  <2>1. PICK e \in Event : Send(e)
    BY <1>1, ClientSends
  <2>2. /\ queue' \in Seq(Event) /\ wire' \in Seq(Event) /\ sent' \in 0..MaxSent
        /\ device' \in [layout : Layout, mods : Mods] /\ conn = "open"
    BY <1>1, <2>1, ClientSends, SendTypes DEF Send
  <2>3. UNCHANGED <<pc, connVars, keyVars, table, serverVars, icVars>>
    BY <1>1, ClientSends DEF Inside
  <2>7. UNCHANGED <<pc, conn, listed, xkb, keymap, state, table, xim, server, serverListed, ics, xics, group>>
    BY <2>3 DEF connVars, keyVars, serverVars, icVars
  <2>8. TypeOK'
    BY <2>2, <2>7 DEF TypeOK, ConnectionOK, ContextsOK, WireOK
  <2>9. Alive'
    BY <2>2, <2>3 DEF Alive, connVars, keyVars, serverVars, icVars
  <2> QED BY <2>8, <2>9
<1>2. ASSUME NEW i \in Context, OtherFrontend(i) PROVE TypeOK' /\ Alive'
  BY <1>2 DEF OtherFrontend, TypeOK, ConnectionOK, ContextsOK, WireOK, Alive, connVars, keyVars, serverVars, outside
<1> QED BY <1>1, <1>2 DEF OtherSteps

(* A context is never in the focus group of a connection that is gone,     *)
(* whoever put it there and whenever it was created (xcbmodule.c:142-144). *)
GroupsLive == \A i \in Context : group[i] # None => i \in ics /\ conn \in {"open", "broken"}

----------------------------------------------------------------------------
(* A context joins the group in an event of the open connection, and       *)
(* leaves it when it is destroyed or the connection is freed.              *)
LEMMA GroupsStayLive ==
  ASSUME TypeOK, Alive, GroupsLive, Next
  PROVE  GroupsLive'
<1>1. group \in [Context -> {Group, None}]
  BY DEF TypeOK, ContextsOK
<1>2. CASE LoopSteps
  <2>1. CASE IOCallbackCloses
    BY <2>1 DEF IOCallbackCloses, Close, GroupsAfterClose, GroupsLive, icVars
  <2>2. CASE fcitx_xcb_init
    BY <2>2 DEF fcitx_xcb_init, GroupsLive, icVars
  <2>3. ASSUME LoopSteps, ~IOCallbackCloses, ~fcitx_xcb_init
        PROVE  UNCHANGED <<conn, ics, group>>
    BY <2>3 DEF LoopSteps, OpenConnection, fcitx_xim_init, mainloop_run, KeymapStep, KeymapFromDevice, StateFromDevice,
                KeymapFromNames, LoopStep, IOCallback, PollReads, PollIsEmpty, connVars, icVars
  <2> QED BY <1>2, <2>1, <2>2, <2>3 DEF GroupsLive
<1>3. CASE EventStep
  <2>1. conn = "open" /\ conn' = conn
    BY <1>3 DEF EventStep, StateNotify, MapNotify, ErrorIsIgnored, SelectGroup, CreateIC, DestroyIC, ForwardEvent, Take, connVars
  <2>2. CASE SelectGroup
    BY <1>1, <2>1, <2>2 DEF SelectGroup, GroupsLive
  <2>3. CASE CreateIC
    BY <1>1, <2>1, <2>3 DEF CreateIC, GroupsLive
  <2>4. CASE DestroyIC
    BY <1>1, <2>1, <2>4 DEF DestroyIC, GroupsLive
  <2>5. CASE StateNotify \/ MapNotify \/ ErrorIsIgnored \/ ForwardEvent
    BY <2>1, <2>5 DEF StateNotify, MapNotify, ErrorIsIgnored, ForwardEvent, GroupsLive, icVars
  <2> QED BY <1>3, <2>2, <2>3, <2>4, <2>5 DEF EventStep
<1>4. CASE EndSteps
  <2>1. CASE destroy_all_input_context
    BY <2>1 DEF destroy_all_input_context, GroupsLive
  <2>2. CASE fcitx_xim_destroy
    BY <2>2 DEF fcitx_xim_destroy, GroupsLive, connVars
  <2>3. CASE fcitx_xcb_destroy
    BY <2>3 DEF fcitx_xcb_destroy, Close, GroupsAfterClose, GroupsLive, connVars, icVars
  <2>4. CASE Break
    BY <2>4 DEF Break, GroupsLive, icVars
  <2> QED BY <1>4, <2>1, <2>2, <2>3, <2>4 DEF EndSteps
<1>5. CASE ClientSteps
  BY <1>5, ClientSends DEF Inside, connVars, icVars, GroupsLive
<1>6. CASE OtherSteps
  BY <1>1, <1>6 DEF OtherSteps, OtherFrontend, connVars, GroupsLive
<1> QED BY <1>2, <1>3, <1>4, <1>5, <1>6, NextSteps

Safe == TypeOK /\ Alive /\ GroupsLive

(* What is inductive: the types, the life of connection and server, and    *)
(* the groups.                                                             *)
LEMMA SafeInvariant == Spec => []Safe
<1>1. Init => Safe
  <2>1. Init => GroupsLive
    BY DEF Init, GroupsLive
  <2> QED BY <2>1, InitAlive DEF Safe
<1>2. Safe /\ [Next]_vars => Safe'
  <2> SUFFICES ASSUME Safe, [Next]_vars PROVE Safe'
    OBVIOUS
  <2>1. CASE Next
    BY <2>1, NextSteps, LoopAlive, EventAlive, EndAlive, OutsideAlive, GroupsStayLive DEF Safe
  <2>2. CASE UNCHANGED vars
    BY <2>2 DEF Safe, TypeOK, ConnectionOK, ContextsOK, WireOK, Alive, GroupsLive,
                vars, connVars, keyVars, serverVars, icVars, outside
  <2> QED BY <2>1, <2>2
<1> QED BY <1>1, <1>2, PTL DEF Spec

(* The connection, the server, the contexts and the events on the way are  *)
(* always of their types (xcbmodule.c:142-536, xim.c:63-312).              *)
THEOREM TypeCorrect == Spec => []TypeOK
<1>1. Safe => TypeOK
  BY DEF Safe
<1> QED BY <1>1, SafeInvariant, PTL

(* No watcher and no context ever refers to what is gone; the filters and  *)
(* the server that do are those of a connection that broke, which no event *)
(* of the loop reaches any more, and the end of the program removes them;  *)
(* the server stays behind whenever the frontend runs                      *)
(* (xcbmodule.c:114-157, xim.c:226-252).                                   *)
THEOREM OnlyABreakLeavesDangling == Spec => []DanglesAfterBreakOnly
<1>1. Safe => DanglesAfterBreakOnly
  <2>0. Safe => (conn = "freed" /\ xim = "running" => ServerOfTheGone # {})
    BY DEF Safe, Alive, ServerOfTheGone
  <2> SUFFICES ASSUME Safe, NEW d \in Dangling
               PROVE  /\ d[1] \in {"filter", "server"} /\ conn = "freed" /\ ~listed
                      /\ pc \in {"idle", "destroy_xim", "destroy_xcb", "dead"}
    BY <2>0 DEF DanglesAfterBreakOnly
  <2>1. TypeOK /\ Alive /\ GroupsLive
    BY DEF Safe
  <2>2. WatchersOfTheGone = {} /\ ContextsOfTheGone = {}
    BY <2>1 DEF WatchersOfTheGone, ContextsOfTheGone, Alive, GroupsLive
  <2>3. d \in Refers("filter", FiltersOfTheGone) \cup Refers("server", ServerOfTheGone)
    BY <2>2 DEF Dangling, Refers
  <2>4. d[1] \in {"filter", "server"}
    BY <2>3 DEF Refers
  <2>5. CASE d \in Refers("filter", FiltersOfTheGone)
    <3>1. PICK f \in ToSet(table["filter"]) : conn = "freed" \/ (f = "xim" /\ server # "live")
      BY <2>5 DEF Refers, FiltersOfTheGone
    <3>2. conn = "freed"
      BY <2>1, <3>1 DEF Alive
    <3>3. table["filter"] # <<>>
      BY <3>1 DEF ToSet
    <3>4. pc # "ended"
      BY <2>1, <3>3 DEF Alive
    <3> QED BY <2>1, <2>4, <3>2, <3>4 DEF Alive
  <2>6. CASE d \in Refers("server", ServerOfTheGone)
    <3>1. server = "live" /\ conn = "freed"
      BY <2>6 DEF Refers, ServerOfTheGone
    <3>2. "xim" \in ToSet(table["filter"])
      BY <2>1, <3>1 DEF Alive
    <3>3. table["filter"] # <<>>
      BY <3>2 DEF ToSet
    <3>4. pc # "ended"
      BY <2>1, <3>3 DEF Alive
    <3> QED BY <2>1, <2>4, <3>1, <3>4 DEF Alive
  <2> QED BY <2>3, <2>5, <2>6
<1> QED BY <1>1, SafeInvariant, PTL

----------------------------------------------------------------------------
(* The events on the way, those the library has read first, are in the     *)
(* order of what happened to the keyboard: no key is of a layout that is   *)
(* yet to come, and the last change of the modifiers is the current one.   *)
All == queue \o wire

InOrder(s, d) ==
  /\ \A k \in 1..Len(s) : s[k].kind = "key" => s[k].at <= d.layout
  /\ \A k \in 1..Len(s) :
       s[k].kind = "state" /\ (\A j \in 1..Len(s) : j > k => s[j].kind # "state") => s[k].mods = d.mods

(* A layout that is behind is followed by a change that brings it up to    *)
(* date, and that change is before every key it would be wrong for.        *)
LayoutFollows(s, layout, d) ==
  /\ layout <= d.layout
  /\ layout = d.layout \/ \E j \in 1..Len(s) : ChangesLayout(s[j])
  /\ \A k \in 1..Len(s) :
       s[k].kind = "key" => s[k].at <= layout \/ \E j \in 1..(k - 1) : ChangesLayout(s[j])

ModsFollow(s, mods, d) == mods = d.mods \/ \E k \in 1..Len(s) : s[k].kind = "state"

FromDevice == state # None /\ state.from = "device"
Fetching == pc \in {"fetch_keymap", "fetch_state"}

(* The layout that is known once the fetch that is going on has ended.     *)
Seen == CASE pc = "fetch_keymap" -> device.layout
          [] pc = "fetch_state"  -> keymap.layout
          [] OTHER               -> state.layout

Selected ==
  /\ pc = "fetch_state" => xkb = "selected"
  /\ FromDevice => xkb = "selected"

Follows ==
  conn = "open" /\ pc \notin {"dead", "ended"} =>
    /\ InOrder(All, device)
    /\ FromDevice \/ Fetching => LayoutFollows(All, Seen, device)
    /\ FromDevice => ModsFollow(All, state.mods, device)

(* A round trip keeps the order, taking an event drops the first one, and  *)
(* sending appends one.                                                    *)
LEMMA AllSteps ==
  ASSUME TypeOK
  PROVE  /\ All \in Seq(Event)
         /\ RoundTrip => All' = All
         /\ \A kinds : Take(kinds) => All # <<>> /\ Next1 = Head(All) /\ All' = Tail(All)
         /\ \A e \in Event : Send(e) => All' = Append(All, e)
<1>1. queue \in Seq(Event) /\ wire \in Seq(Event)
  BY DEF TypeOK, WireOK
<1>2. ASSUME RoundTrip PROVE All' = All
  BY <1>1, <1>2 DEF RoundTrip, All
<1>3. ASSUME NEW kinds, Take(kinds) PROVE All # <<>> /\ Next1 = Head(All) /\ All' = Tail(All)
  <2>1. queue # <<>> /\ queue' = Tail(queue) /\ wire' = wire
    BY <1>3 DEF Take
  <2>2. Head(queue \o wire) = Head(queue) /\ queue \o wire # <<>>
    BY <1>1, <2>1
  <2>3. Tail(queue \o wire) = Tail(queue) \o wire
    BY <1>1, <2>1
  <2> QED BY <2>1, <2>2, <2>3 DEF All, Next1
<1>4. ASSUME NEW e \in Event, Send(e) PROVE All' = Append(All, e)
  <2>1. wire' = Append(wire, e) /\ queue' = queue
    BY <1>4 DEF Send
  <2>2. queue \o Append(wire, e) = Append(queue \o wire, e)
    BY <1>1
  <2> QED BY <2>1, <2>2 DEF All
<1>5. All \in Seq(Event)
  BY <1>1 DEF All
<1> QED BY <1>2, <1>3, <1>4, <1>5

(* Taking an event that does not change the layout, or the modifiers,      *)
(* leaves nothing behind that the state lacks.                             *)
LEMMA TailFollows ==
  ASSUME NEW s \in Seq(Event), s # <<>>, NEW d \in [layout : Layout, mods : Mods],
         NEW layout \in Layout, NEW mods \in Mods, InOrder(s, d)
  PROVE  /\ InOrder(Tail(s), d)
         /\ LayoutFollows(s, layout, d) /\ ~ChangesLayout(Head(s)) => LayoutFollows(Tail(s), layout, d)
         /\ ModsFollow(s, mods, d) /\ Head(s).kind # "state" => ModsFollow(Tail(s), mods, d)
         /\ Head(s).kind = "state" => ModsFollow(Tail(s), Head(s).mods, d)
<1> DEFINE t == Tail(s)
<1>1. t \in Seq(Event) /\ Len(t) = Len(s) - 1 /\ Len(s) \in Nat /\ Len(s) >= 1 /\ Head(s) = s[1]
  OBVIOUS
<1>2. \A k \in 1..Len(t) : t[k] = s[k + 1] /\ k + 1 \in 1..Len(s)
  BY <1>1
<1>3. \A k \in 2..Len(s) : k - 1 \in 1..Len(t) /\ t[k - 1] = s[k]
  BY <1>1
<1> HIDE DEF t
<1>4. InOrder(t, d)
  <2>1. ASSUME NEW k \in 1..Len(t), t[k].kind = "key" PROVE t[k].at <= d.layout
    BY <1>2, <2>1 DEF InOrder
  <2>2. ASSUME NEW k \in 1..Len(t), t[k].kind = "state", \A j \in 1..Len(t) : j > k => t[j].kind # "state"
        PROVE  t[k].mods = d.mods
    <3>1. ASSUME NEW j \in 1..Len(s), j > k + 1 PROVE s[j].kind # "state"
      <4>1. j \in 2..Len(s) /\ j - 1 > k
        BY <1>1, <3>1
      <4> QED BY <1>3, <2>2, <4>1
    <3> QED BY <1>2, <2>2, <3>1 DEF InOrder
  <2> QED BY <2>1, <2>2 DEF InOrder
<1>5. ASSUME LayoutFollows(s, layout, d), ~ChangesLayout(Head(s))
      PROVE  LayoutFollows(t, layout, d)
  <2>1. layout = d.layout \/ \E j \in 1..Len(t) : ChangesLayout(t[j])
    <3>1. ASSUME NEW j \in 1..Len(s), ChangesLayout(s[j]) PROVE \E i \in 1..Len(t) : ChangesLayout(t[i])
      <4>1. j \in 2..Len(s)
        BY <1>1, <1>5, <3>1
      <4> QED BY <1>3, <3>1, <4>1
    <3> QED BY <1>5, <3>1 DEF LayoutFollows
  <2>2. ASSUME NEW k \in 1..Len(t), t[k].kind = "key", ~(t[k].at <= layout)
        PROVE  \E j \in 1..(k - 1) : ChangesLayout(t[j])
    <3>1. PICK j \in 1..((k + 1) - 1) : ChangesLayout(s[j])
      BY <1>2, <1>5, <2>2 DEF LayoutFollows
    <3>2. j \in 2..Len(s) /\ j - 1 \in 1..(k - 1)
      BY <1>1, <1>5, <3>1
    <3> QED BY <1>3, <3>1, <3>2
  <2> QED BY <1>5, <2>1, <2>2 DEF LayoutFollows
<1>6. ASSUME ModsFollow(s, mods, d), Head(s).kind # "state"
      PROVE  ModsFollow(t, mods, d)
  <2>1. ASSUME NEW j \in 1..Len(s), s[j].kind = "state" PROVE \E i \in 1..Len(t) : t[i].kind = "state"
    <3>1. j \in 2..Len(s)
      BY <1>1, <1>6, <2>1
    <3> QED BY <1>3, <2>1, <3>1
  <2> QED BY <1>6, <2>1 DEF ModsFollow
<1>7. ASSUME Head(s).kind = "state"
      PROVE  ModsFollow(t, Head(s).mods, d)
  <2>1. CASE \A k \in 1..Len(t) : t[k].kind # "state"
    <3>1. ASSUME NEW j \in 1..Len(s), j > 1 PROVE s[j].kind # "state"
      <4>1. j \in 2..Len(s)
        BY <1>1, <3>1
      <4> QED BY <1>3, <2>1, <4>1
    <3>2. 1 \in 1..Len(s)
      BY <1>1
    <3> QED BY <1>1, <1>7, <3>1, <3>2 DEF InOrder, ModsFollow
  <2>2. CASE \E k \in 1..Len(t) : t[k].kind = "state"
    BY <2>2 DEF ModsFollow
  <2> QED BY <2>1, <2>2
<1> QED BY <1>4, <1>5, <1>6, <1>7 DEF t

(* Sending an event that tells the truth keeps the order and, unless it    *)
(* says so itself, makes nothing known out of date.                        *)
LEMMA AppendFollows ==
  ASSUME NEW s \in Seq(Event), NEW e \in Event,
         NEW d \in [layout : Layout, mods : Mods], NEW d2 \in [layout : Layout, mods : Mods],
         NEW layout \in Layout, NEW mods \in Mods, InOrder(s, d),
         d2.layout >= d.layout,
         d2.layout = d.layout \/ ChangesLayout(e),
         e.kind = "key" => e.at = d2.layout,
         IF e.kind = "state" THEN e.mods = d2.mods ELSE d2.mods = d.mods
  PROVE  /\ InOrder(Append(s, e), d2)
         /\ LayoutFollows(Append(s, e), d2.layout, d2)
         /\ LayoutFollows(s, layout, d) => LayoutFollows(Append(s, e), layout, d2)
         /\ ModsFollow(s, mods, d) => ModsFollow(Append(s, e), mods, d2)
<1> DEFINE t == Append(s, e)
<1>1. Len(s) \in Nat /\ Len(t) = Len(s) + 1 /\ t[Len(t)] = e /\ \A k \in 1..Len(s) : t[k] = s[k]
  OBVIOUS
<1>2. \A k \in 1..Len(t) : k = Len(t) \/ k \in 1..Len(s)
  BY <1>1
<1>3. Len(t) \in 1..Len(t) /\ \A k \in 1..Len(s) : k \in 1..Len(t) /\ k < Len(t)
  BY <1>1
<1>4. d.layout \in Int /\ d2.layout \in Int /\ layout \in Int
  BY DEF Layout
<1>5. \A k \in 1..Len(s) : s[k] \in Event /\ (s[k].kind = "key" => s[k].at \in Int)
  BY DEF Event, Layout
<1> HIDE DEF t
<1>6. InOrder(t, d2)
  <2>1. ASSUME NEW k \in 1..Len(t), t[k].kind = "key" PROVE t[k].at <= d2.layout
    BY <1>1, <1>2, <1>4, <1>5, <2>1 DEF InOrder
  <2>2. ASSUME NEW k \in 1..Len(t), t[k].kind = "state", \A j \in 1..Len(t) : j > k => t[j].kind # "state"
        PROVE  t[k].mods = d2.mods
    <3>1. CASE k = Len(t)
      BY <1>1, <2>2, <3>1
    <3>2. CASE k \in 1..Len(s)
      <4>1. e.kind # "state"
        BY <1>1, <1>3, <2>2, <3>2
      <4>2. \A j \in 1..Len(s) : j > k => s[j].kind # "state"
        BY <1>1, <1>3, <2>2
      <4> QED BY <1>1, <2>2, <3>2, <4>1, <4>2 DEF InOrder
    <3> QED BY <1>2, <3>1, <3>2
  <2> QED BY <2>1, <2>2 DEF InOrder
<1>7. LayoutFollows(t, d2.layout, d2)
  BY <1>4, <1>6 DEF InOrder, LayoutFollows
<1>8. ASSUME LayoutFollows(s, layout, d) PROVE LayoutFollows(t, layout, d2)
  <2>1. layout <= d2.layout
    BY <1>4, <1>8 DEF LayoutFollows
  <2>2. layout = d.layout \/ \E j \in 1..Len(s) : ChangesLayout(t[j])
    BY <1>1, <1>8 DEF LayoutFollows
  <2>3. layout = d2.layout \/ \E j \in 1..Len(t) : ChangesLayout(t[j])
    BY <1>1, <1>3, <2>2
  <2>4. ASSUME NEW k \in 1..Len(t), t[k].kind = "key", ~(t[k].at <= layout)
        PROVE  \E j \in 1..(k - 1) : ChangesLayout(t[j])
    <3>1. CASE k = Len(t)
      <4>1. d2.layout = d.layout /\ t[k].at = d.layout
        BY <1>1, <2>4, <3>1 DEF ChangesLayout
      <4>2. layout # d.layout
        BY <1>4, <2>4, <4>1
      <4> QED BY <1>1, <2>2, <3>1, <4>2
    <3>2. CASE k \in 1..Len(s)
      <4>1. PICK j \in 1..(k - 1) : ChangesLayout(s[j])
        BY <1>1, <1>8, <2>4, <3>2 DEF LayoutFollows
      <4>2. j \in 1..Len(s)
        BY <1>1, <3>2
      <4> QED BY <1>1, <4>1, <4>2
    <3> QED BY <1>2, <3>1, <3>2
  <2> QED BY <2>1, <2>3, <2>4 DEF LayoutFollows
<1>9. ASSUME ModsFollow(s, mods, d) PROVE ModsFollow(t, mods, d2)
  <2>1. CASE e.kind = "state"
    BY <1>1, <1>3, <2>1 DEF ModsFollow
  <2>2. CASE e.kind # "state"
    BY <1>1, <1>3, <1>9, <2>2 DEF ModsFollow
  <2> QED BY <2>1, <2>2
<1> QED BY <1>6, <1>7, <1>8, <1>9 DEF t

Running == conn = "open" /\ pc \notin {"dead", "ended"}

(* A step outside of a fetch that changes neither the keyboard state nor   *)
(* what is on the way, and a step that ends the connection.                *)
LEMMA StillFollows ==
  ASSUME Selected, Follows, UNCHANGED <<All, device, keymap, state, xkb>>,
         conn' = conn, pc \notin {"dead", "ended"}, ~Fetching, ~Fetching'
  PROVE  Selected' /\ Follows'
BY DEF Selected, Follows, FromDevice, Fetching, Seen

LEMMA EndFollows ==
  ASSUME Selected, ~Running', xkb' = xkb, state' \in {state, None}, pc' = pc \/ ~Fetching'
  PROVE  Selected' /\ Follows'
BY DEF Selected, Follows, Running, FromDevice, Fetching

LEMMA LoopFollows ==
  ASSUME TypeOK, Alive, Selected, Follows, LoopSteps
  PROVE  Selected' /\ Follows'
<1>1. RoundTrip => UNCHANGED <<All, device>>
  BY AllSteps DEF RoundTrip
<1>2. UNCHANGED <<wire, queue>> => UNCHANGED All
  BY DEF All
<1>3. CASE fcitx_xcb_init
  <2>1. All = <<>> /\ All' = <<>> /\ state' = None
    BY <1>3 DEF fcitx_xcb_init, Alive, All, outside, keyVars
  <2>2. device' \in [layout : Layout, mods : Mods]
    BY <1>3 DEF fcitx_xcb_init, TypeOK, WireOK, outside
  <2>3. pc' # "fetch_state" /\ (Fetching' => pc' = "fetch_keymap")
    BY <1>3 DEF fcitx_xcb_init, Fetching
  <2>4. InOrder(<<>>, device') /\ LayoutFollows(<<>>, device'.layout, device')
    BY <2>2 DEF InOrder, LayoutFollows, Layout
  <2>5. ~FromDevice' /\ Selected'
    BY <2>1, <2>3 DEF FromDevice, Selected
  <2> QED BY <2>1, <2>3, <2>4, <2>5 DEF Follows, Seen
<1>4. CASE OpenConnection \/ fcitx_xim_init \/ mainloop_run \/ IOCallback \/ PollReads \/ PollIsEmpty
  <2>1. UNCHANGED <<All, device, keymap, state, xkb, conn>> /\ ~Fetching /\ ~Fetching' /\ pc \notin {"dead", "ended"}
    BY <1>1, <1>2, <1>4 DEF OpenConnection, fcitx_xim_init, ServerOpens, NoServer, mainloop_run, IOCallback, PollReads,
          PollIsEmpty, connVars, keyVars, outside, Fetching
  <2> QED BY <2>1, StillFollows
<1>5. CASE KeymapFromDevice
  <2>1. /\ UNCHANGED <<All, device, state, xkb, conn>> /\ xkb = "selected" /\ conn = "open"
        /\ pc = "fetch_keymap" /\ pc' = "fetch_state" /\ keymap' = [from |-> "device", layout |-> device.layout]
    BY <1>1, <1>5 DEF KeymapFromDevice, connVars
  <2>2. keymap'.layout = device.layout
    BY <2>1
  <2>3. Seen' = Seen
    BY <2>1, <2>2 DEF Seen
  <2> QED BY <2>1, <2>3 DEF Selected, Follows, FromDevice, Fetching
<1>6. CASE StateFromDevice
  <2>1. CASE conn = "open"
    <3>1. /\ UNCHANGED <<All, device, keymap, xkb, conn>> /\ xkb = "selected" /\ pc = "fetch_state"
          /\ state' = [from |-> "device", layout |-> keymap.layout, mods |-> device.mods]
          /\ pc' \in {"events", "insert"}
      BY <1>1, <1>6, <2>1 DEF StateFromDevice, ModsFromDevice, Resume, connVars, Selected
    <3>2. state'.layout = keymap.layout /\ state'.mods = device.mods
      BY <3>1
    <3>3. Seen' = Seen
      BY <3>1, <3>2 DEF Seen
    <3>4. ModsFollow(All', state'.mods, device')
      BY <3>1, <3>2 DEF ModsFollow
    <3> QED BY <2>1, <3>1, <3>3, <3>4 DEF Selected, Follows, FromDevice, Fetching
  <2>2. CASE conn # "open"
    BY <1>6, <2>2, EndFollows DEF StateFromDevice, Resume, connVars, Running, Fetching
  <2> QED BY <2>1, <2>2
<1>7. CASE KeymapFromNames
  <2>1. UNCHANGED <<All, device, xkb, conn>> /\ pc = "fetch_keymap" /\ pc' \in {"events", "insert"}
    BY <1>1, <1>2, <1>7 DEF KeymapFromNames, Resume, connVars, outside
  <2>2. ~FromDevice'
    BY <1>7 DEF KeymapFromNames, FromDevice
  <2> QED BY <2>1, <2>2 DEF Selected, Follows, Fetching
<1>8. CASE IOCallbackCloses
  BY <1>8, EndFollows DEF IOCallbackCloses, Close, keyVars, Running, Fetching
<1> QED BY <1>3, <1>4, <1>5, <1>6, <1>7, <1>8 DEF LoopSteps, KeymapStep, LoopStep

LEMMA EventFollows ==
  ASSUME TypeOK, Alive, Selected, Follows, EventStep
  PROVE  Selected' /\ Follows'
<1> DEFINE e == Head(All)
<1>1. /\ All \in Seq(Event) /\ All # <<>> /\ Next1 = e /\ All' = Tail(All)
      /\ pc = "events" /\ UNCHANGED <<device, conn, xkb, keymap>> /\ conn = "open"
  BY AllSteps DEF EventStep, StateNotify, MapNotify, ErrorIsIgnored, SelectGroup, CreateIC, DestroyIC, ForwardEvent, Take,
        connVars, keyVars
<1>2. device \in [layout : Layout, mods : Mods] /\ state \in State \cup {None} /\ 0 \in Layout /\ 0 \in Mods
  BY DEF TypeOK, ConnectionOK, WireOK, Layout, Mods
<1>3. /\ InOrder(All, device)
      /\ FromDevice => LayoutFollows(All, state.layout, device) /\ ModsFollow(All, state.mods, device)
  BY <1>1 DEF Follows, Seen
<1>4. FromDevice => state.layout \in Layout /\ state.mods \in Mods /\ xkb = "selected"
  BY <1>2 DEF FromDevice, State, Selected
<1>5. InOrder(Tail(All), device)
  BY <1>1, <1>2, <1>3, TailFollows
<1>6. ~ChangesLayout(e) /\ FromDevice => LayoutFollows(Tail(All), state.layout, device)
  BY <1>1, <1>2, <1>3, <1>4, TailFollows
<1>7. e.kind # "state" /\ FromDevice => ModsFollow(Tail(All), state.mods, device)
  BY <1>1, <1>2, <1>3, <1>4, TailFollows
<1>8. e.kind = "state" => ModsFollow(Tail(All), e.mods, device)
  BY <1>1, <1>2, <1>3, <1>4, TailFollows
<1> HIDE DEF e
<1>9. CASE StateNotify
  <2>1. CASE state = None
    BY <1>1, <1>9, <2>1, EndFollows DEF StateNotify, Running, Fetching
  <2>2. CASE state # None
    <3>1. state' = [state EXCEPT !.mods = e.mods] /\ pc' = pc
      BY <1>1, <1>9, <2>2 DEF StateNotify
    <3>3. state \in State
      BY <1>2, <2>2
    <3>4. state'.from = state.from /\ state'.layout = state.layout /\ state'.mods = e.mods
      BY <3>1, <3>3 DEF State
    <3>5. FromDevice' => FromDevice
      BY <2>2, <3>4 DEF FromDevice
    <3>6. FromDevice => e.kind = "state"
      BY <1>1, <1>4, <1>9 DEF StateNotify, Take, Means
    <3>7. FromDevice' => LayoutFollows(All', state'.layout, device') /\ ModsFollow(All', state'.mods, device')
      BY <1>1, <1>6, <1>8, <3>4, <3>5, <3>6 DEF ChangesLayout
    <3>8. ~Fetching' /\ InOrder(All', device') /\ Seen' = state'.layout /\ Selected'
      BY <1>1, <1>4, <1>5, <3>1, <3>5 DEF Fetching, Seen, Selected
    <3> QED BY <3>7, <3>8 DEF Follows
  <2> QED BY <2>1, <2>2
<1>10. CASE MapNotify
  <2>1. pc' = "fetch_keymap" /\ state' = state /\ e.kind # "state"
    BY <1>1, <1>10 DEF MapNotify, Take, ReloadsKeymap, Means, keyVars
  <2>2. LayoutFollows(All', device'.layout, device') /\ InOrder(All', device')
    BY <1>1, <1>2, <1>5 DEF LayoutFollows, InOrder, Layout
  <2>3. FromDevice' => ModsFollow(All', state'.mods, device')
    BY <1>1, <1>7, <2>1 DEF FromDevice
  <2>4. Seen' = device'.layout /\ Selected'
    BY <1>1, <2>1 DEF Seen, Selected, FromDevice
  <2> QED BY <2>2, <2>3, <2>4 DEF Follows
<1>11. CASE ErrorIsIgnored \/ SelectGroup \/ CreateIC \/ DestroyIC \/ ForwardEvent
  <2>1. pc' = pc /\ state' = state /\ e.kind # "state" /\ ~ChangesLayout(e)
    BY <1>1, <1>11 DEF ErrorIsIgnored, SelectGroup, CreateIC, DestroyIC, ForwardEvent, Take, keyVars, ChangesLayout
  <2>2. FromDevice' => LayoutFollows(All', state'.layout, device') /\ ModsFollow(All', state'.mods, device')
    BY <1>1, <1>6, <1>7, <2>1 DEF FromDevice
  <2>3. ~Fetching' /\ InOrder(All', device') /\ Seen' = state'.layout /\ Selected'
    BY <1>1, <1>5, <2>1 DEF Fetching, Seen, Selected, FromDevice
  <2> QED BY <2>2, <2>3 DEF Follows
<1> QED BY <1>9, <1>10, <1>11 DEF EventStep

LEMMA OutsideFollows ==
  ASSUME TypeOK, Alive, Selected, Follows, ClientSteps \/ OtherSteps
  PROVE  Selected' /\ Follows'
<1>1. CASE ClientSteps
  <2>1. PICK e \in Event : Send(e) /\ Tells(e)
    BY <1>1, ClientSends
  <2>2. /\ UNCHANGED <<pc, conn, xkb, keymap, state>> /\ All \in Seq(Event) /\ All' = Append(All, e)
        /\ conn = "open" /\ pc \notin {"dead", "ended"}
    BY <1>1, <2>1, ClientSends, AllSteps DEF Inside, connVars, keyVars, Send
  <2>3. /\ device \in [layout : Layout, mods : Mods] /\ device' \in [layout : Layout, mods : Mods]
        /\ state \in State \cup {None} /\ 0 \in Layout /\ 0 \in Mods
    BY <1>1, ClientSends DEF TypeOK, ConnectionOK, WireOK, Layout, Mods
  <2>4. /\ device'.layout >= device.layout
        /\ device'.layout = device.layout \/ ChangesLayout(e)
        /\ e.kind = "key" => e.at = device'.layout
        /\ IF e.kind = "state" THEN e.mods = device'.mods ELSE device'.mods = device.mods
    BY <2>1 DEF Tells
  <2>5. InOrder(All, device)
    BY <2>2 DEF Follows
  <2>6. InOrder(All', device') /\ LayoutFollows(All', device'.layout, device')
    BY <2>2, <2>3, <2>4, <2>5, AppendFollows
  <2>7. FromDevice => ModsFollow(All', state.mods, device')
    <3>1. FromDevice => state.mods \in Mods /\ ModsFollow(All, state.mods, device)
      BY <2>2, <2>3 DEF Follows, FromDevice, State
    <3> QED BY <2>2, <2>3, <2>4, <2>5, <3>1, AppendFollows
  <2>8. FromDevice \/ Fetching => LayoutFollows(All', Seen', device')
    <3>1. CASE pc = "fetch_keymap"
      BY <2>2, <2>6, <3>1 DEF Seen
    <3>2. ASSUME pc # "fetch_keymap", FromDevice \/ Fetching PROVE LayoutFollows(All', Seen', device')
      <4>1. Seen \in Layout
        BY <2>3, <3>2 DEF Seen, FromDevice, Fetching, State, Keymap, Alive
      <4>2. LayoutFollows(All, Seen, device)
        BY <2>2, <3>2 DEF Follows
      <4>3. LayoutFollows(Append(All, e), Seen, device')
        BY <2>2, <2>3, <2>4, <2>5, <4>1, <4>2, AppendFollows
      <4>4. Seen' = Seen
        BY <2>2, <3>2 DEF Seen
      <4> QED BY <2>2, <4>3, <4>4
    <3> QED BY <3>1, <3>2
  <2> QED BY <2>2, <2>6, <2>7, <2>8 DEF Follows, Selected, FromDevice, Fetching
<1>2. CASE OtherSteps
  <2>1. UNCHANGED <<pc, conn, xkb, keymap, state, wire, queue, device>> /\ pc = "idle"
    BY <1>2 DEF OtherSteps, OtherFrontend, connVars, keyVars, outside
  <2> QED BY <2>1, StillFollows DEF All, Fetching
<1> QED BY <1>1, <1>2

LEMMA EndStepsFollow ==
  ASSUME TypeOK, Alive, Selected, Follows, EndSteps
  PROVE  Selected' /\ Follows'
<1>1. CASE destroy_all_input_context \/ fcitx_xim_destroy
  <2>1. UNCHANGED <<conn, xkb, keymap, state, wire, queue, device>> /\ ~Fetching /\ ~Fetching'
        /\ pc \notin {"dead", "ended"}
    BY <1>1 DEF destroy_all_input_context, fcitx_xim_destroy, connVars, keyVars, outside, Fetching
  <2> QED BY <2>1, StillFollows DEF All
<1>2. CASE fcitx_xcb_destroy
  BY <1>2, EndFollows DEF fcitx_xcb_destroy, Close, connVars, keyVars, Running, Fetching
<1>3. CASE Break
  BY <1>3, EndFollows DEF Break, keyVars, Running
<1> QED BY <1>1, <1>2, <1>3 DEF EndSteps

(* What is inductive about the keyboard rests on the life of the           *)
(* connection: that nothing is on the way when it opens or has ended.      *)
LEMMA FollowsInvariant == Spec => [](Safe /\ Selected /\ Follows)
<1>1. Init => Selected /\ Follows
  BY DEF Init, Selected, Follows, FromDevice
<1>2. Safe /\ Selected /\ Follows /\ [Next]_vars => Selected' /\ Follows'
  <2> SUFFICES ASSUME Safe, Selected, Follows, [Next]_vars PROVE Selected' /\ Follows'
    OBVIOUS
  <2>1. CASE Next
    BY <2>1, NextSteps, LoopFollows, EventFollows, EndStepsFollow, OutsideFollows DEF Safe
  <2>2. CASE UNCHANGED vars
    <3>1. UNCHANGED <<pc, conn, xkb, keymap, state, wire, queue, device>>
      BY <2>2 DEF vars, connVars, keyVars, outside
    <3> QED BY <3>1 DEF Selected, Follows, FromDevice, Fetching, Seen, All
  <2> QED BY <2>1, <2>2
<1> QED BY <1>1, <1>2, SafeInvariant, PTL DEF Spec

(* A key is never looked up in a layout that is older than the key         *)
(* (xim.c:141-159 against xcbmodule.c:458-469).                            *)
THEOREM KeysSeeTheirLayout == Spec => []KeySeesLayout
<1>1. Safe /\ Selected /\ Follows => KeySeesLayout
  <2> SUFFICES ASSUME Safe, Selected, Follows, pc = "events", queue # <<>>, Next1.kind = "key", FromDevice
               PROVE  state.layout >= Next1.at
    BY DEF KeySeesLayout, FromDevice
  <2>1. queue \in Seq(Event) /\ wire \in Seq(Event) /\ state \in State
    BY DEF Safe, TypeOK, ConnectionOK, WireOK, FromDevice
  <2>2. conn = "open"
    BY DEF Safe, Alive
  <2>3. All[1] = Next1 /\ 1 \in 1..Len(All)
    BY <2>1 DEF All, Next1
  <2>4. LayoutFollows(All, state.layout, device)
    BY <2>2 DEF Follows, Seen
  <2>5. Next1.at <= state.layout \/ \E j \in 1..(1 - 1) : ChangesLayout(All[j])
    BY <2>3, <2>4 DEF LayoutFollows
  <2>6. Next1 \in Event
    BY <2>1 DEF Next1
  <2>7. Next1.at \in Int /\ state.layout \in Int
    BY <2>1, <2>6 DEF Event, State, Layout
  <2> QED BY <2>5, <2>7
<1> QED BY <1>1, FollowsInvariant, PTL

(* When every event has been handled, keys are looked up in the state the  *)
(* keyboard is in (xcbmodule.c:442-472, 490-536).                          *)
THEOREM TheKeyStateIsCurrent == Spec => []KeyStateCurrent
<1>1. Safe /\ Selected /\ Follows => KeyStateCurrent
  <2> SUFFICES ASSUME Safe, Selected, Follows, pc = "idle", conn = "open", Quiet, FromDevice
               PROVE  state.layout = device.layout /\ state.mods = device.mods
    BY DEF KeyStateCurrent, FromDevice
  <2>1. All = <<>>
    BY DEF Quiet, All
  <2>2. LayoutFollows(All, state.layout, device) /\ ModsFollow(All, state.mods, device)
    BY DEF Follows, Seen
  <2> QED BY <2>1, <2>2 DEF LayoutFollows, ModsFollow
<1> QED BY <1>1, FollowsInvariant, PTL
=============================================================================
