-------------------------------- MODULE DBusLoop --------------------------------
(***************************************************************************)
(* The bus connection on the main loop (module/dbus/dbusmodule.c): libdbus *)
(* asks for its descriptor to be watched and for calls to wake it up, and  *)
(* the D-Bus module turns both into events of the loop of MainLoop.        *)
(*                                                                         *)
(* libdbus is external.  It adds two watches when the connection is set    *)
(* up, for reading and for writing, switches them on and off as its        *)
(* buffers demand, and takes them back when the connection closes: in the  *)
(* end, or when the other side has closed it and a read or write notices,  *)
(* which may be in the callback of a watch.  It switches the watch whose   *)
(* event it is handling at most once in that call, and then does not lose  *)
(* the connection in it.  It asks for a wake-up with every message that    *)
(* arrives, whether it was read in a callback or while some call of it     *)
(* blocked; the loss of the connection is a message of its own.            *)
(***************************************************************************)
EXTENDS MainLoop

CONSTANTS
  Reading,   \* the watch for reading; PollKey is the set of watches
  MaxQueue   \* bound: messages waiting for dispatch

ASSUME WatchAssumption == Reading \in PollKey /\ MaxQueue \in Nat

VARIABLES
  state,       \* the module: "none", "setup", "up", "ending", "destroyed"; "lost"
               \* in the call of libdbus that loses the connection
  added,       \* the watches libdbus has handed over
  enabled,     \* dbus_watch_get_enabled
  data,        \* dbus_watch_get_data: the event of each watch
  watchOf,     \* userData of each IO event
  wakeup_main, \* dbus->wakeup_main
  queue        \* libdbus: messages received and not dispatched

dbusVars == <<state, added, enabled, data, watchOf, wakeup_main, queue>>
allVars == <<vars, dbusVars>>

Watch == PollKey
Ends == "end"    \* a message upon which the instance shuts down

DBusInit ==
  /\ Init
  /\ state = "none"
  /\ added = {} /\ enabled = {Reading}
  /\ data = [w \in Watch |-> None]
  /\ watchOf = [e \in IOEvent |-> None]
  /\ wakeup_main = None
  /\ queue = <<>>

----------------------------------------------------------------------------
(***************************************************************************)
(* The functions given to libdbus.                                         *)
(***************************************************************************)
Registers(on, w) == w \in on

add_dbus_watch(w) ==
  IF Registers(enabled', w)
  THEN \E e \in IOEvent :
         /\ register_io_event(e, w)
         /\ data' = [data EXCEPT ![w] = e]
         /\ watchOf' = [watchOf EXCEPT ![e] = w]
  ELSE UNCHANGED <<vars, data, watchOf>>

(* fcitx_dbus_watch_remove_notify, called when the last reference goes.    *)
DataAfterNotify(e) == [data EXCEPT ![watchOf[e]] = None]

\* Plausible bug: the watch is told only when its event is released by the dispatch.
DataAfterRemoveKept(e) == data

DataAfterRemove(e) == IF RefAfterRemove(e) = 0 THEN DataAfterNotify(e) ELSE data

remove_dbus_watch(w) ==
  /\ IF data[w] = None THEN UNCHANGED <<vars, data>>
     ELSE remove_io_event(data[w]) /\ data' = DataAfterRemove(data[w])
  /\ UNCHANGED watchOf

(* Switched twice in its own callback, a watch would lose the event of the *)
(* second switch when the first event is released.                         *)
OwnCallback(w) == phase = "callback" /\ cur \in IOEvent /\ watchOf[cur] = w
LibraryMaySwitch(w) == OwnCallback(w) => cur \in owned

toggle_dbus_watch(w) ==
  /\ state = "up" /\ UserCode /\ w \in added /\ LibraryMaySwitch(w)
  /\ enabled' = IF w \in enabled THEN enabled \ {w} ELSE enabled \cup {w}
  /\ IF w \in enabled THEN remove_dbus_watch(w) ELSE add_dbus_watch(w)
  /\ UNCHANGED <<state, added, wakeup_main, queue>>

WakesUp == state # "ending"

wakeup ==
  IF WakesUp
  THEN \E t \in Timer : register_timeout_event(t, 0, FALSE) /\ wakeup_main' = t
  ELSE UNCHANGED <<vars, wakeup_main>>

----------------------------------------------------------------------------
(* fcitx_dbus_init: the connection is set up, or the module has failed to  *)
(* get one and has not touched the loop.                                   *)
setup_connection ==
  /\ state = "none" /\ phase = "stopped" /\ ~quit
  /\ state' = "setup"
  /\ UNCHANGED <<vars, added, enabled, data, watchOf, wakeup_main, queue>>

LibraryAddsWatch(w) ==
  /\ state = "setup" /\ w \notin added
  /\ added' = added \cup {w}
  /\ UNCHANGED enabled
  /\ add_dbus_watch(w)
  /\ UNCHANGED <<state, wakeup_main, queue>>

SetUp ==
  /\ state = "setup" /\ added = Watch
  /\ state' = "up"
  /\ UNCHANGED <<vars, added, enabled, data, watchOf, wakeup_main, queue>>

(* A call to the controller that leaves the program, or the loss of the    *)
(* name, arrive as messages.                                               *)
Connected == state = "up" /\ added = Watch

CanReceive ==
  /\ Connected /\ UserCode /\ Len(queue) < MaxQueue
  /\ phase = "callback" /\ cur \in IOEvent => watchOf[cur] = Reading

Receive(m) ==
  /\ CanReceive
  /\ queue' = Append(queue, m)
  /\ wakeup
  /\ UNCHANGED <<state, added, enabled, data, watchOf>>

(***************************************************************************)
(* A call of libdbus finds that the other side has closed the connection:  *)
(* it takes its watches back and frees them, and then puts the message     *)
(* Disconnected at the end of the queue, even a full one.  The bound on    *)
(* registrations leaves room for its wake-up.                              *)
(***************************************************************************)
RoomForWakeup == regs < MaxReg /\ \E t \in Timer : ref[t] = 0

ConnectionBreaks ==
  /\ Connected /\ UserCode /\ RoomForWakeup
  /\ \A w \in Watch : LibraryMaySwitch(w)
  /\ state' = "lost"
  /\ UNCHANGED <<vars, added, enabled, data, watchOf, wakeup_main, queue>>

LibraryTellsEnd ==
  /\ state = "lost" /\ added = {}
  /\ state' = "up"
  /\ queue' = Append(queue, Ends)
  /\ wakeup
  /\ UNCHANGED <<added, enabled, data, watchOf>>

----------------------------------------------------------------------------
(***************************************************************************)
(* The loop, with what the callbacks of the module do.                     *)
(***************************************************************************)
Quietly(A) == A /\ UNCHANGED dbusVars

Run == state = "up" /\ ~quit /\ Quietly(mainloop_run)

(* fcitx_dbus_dispatch begins with the pointer and ends when nothing is    *)
(* left to dispatch.                                                       *)
WakeupMainAtDispatch == None

CallTimer ==
  /\ dispatch_timeout_call
  /\ wakeup_main' = WakeupMainAtDispatch
  /\ UNCHANGED <<state, added, enabled, data, watchOf, queue>>

dbus_dispatch ==
  /\ state = "up" /\ phase = "callback" /\ cur \in Timer /\ queue # <<>>
  /\ queue' = Tail(queue)
  /\ quit' = (quit \/ Head(queue) = Ends)
  /\ UNCHANGED <<phase, nextTimeout, tVars, ioVars, ref, owned, passVars, ready, wake, regs>>
  /\ UNCHANGED <<state, added, enabled, data, watchOf, wakeup_main>>

\* Plausible bug: the dispatch is not repeated while data remains.
DispatchedSome == TRUE

Dispatched == queue = <<>>

ReturnFromTimer == state = "up" /\ Dispatched /\ Quietly(dispatch_timeout_return)

(* The notify also comes for a watch that was taken back in its callback:  *)
(* it then writes to memory that libdbus has freed.  The model keeps the   *)
(* data of such a watch; what else the write may hit is left out.          *)
ReturnFromIO ==
  /\ state = "up" /\ dispatch_io_return
  /\ data' = IF RefAfterCall(cur) = 0 THEN DataAfterNotify(cur) ELSE data
  /\ UNCHANGED <<state, added, enabled, watchOf, wakeup_main, queue>>

----------------------------------------------------------------------------
(* fcitx_dbus_destroy, once the loop has stopped or when the name was      *)
(* refused; the loop is run no more.                                       *)
dbus_destroy ==
  /\ state = "up" /\ phase = "stopped"
  /\ state' = "ending"
  /\ IF wakeup_main = None THEN UNCHANGED vars ELSE remove_timeout_event(wakeup_main)
  /\ UNCHANGED <<added, enabled, data, watchOf, wakeup_main, queue>>

LibraryTakesWatch(w) ==
  /\ state \in {"ending", "lost"} /\ w \in added
  /\ added' = added \ {w}
  /\ remove_dbus_watch(w)
  /\ UNCHANGED <<state, enabled, wakeup_main, queue>>

Destroyed ==
  /\ state = "ending" /\ added = {}
  /\ state' = "destroyed"
  /\ queue' = <<>>
  /\ UNCHANGED <<vars, added, enabled, data, watchOf, wakeup_main>>

Free == state \in {"none", "destroyed"} /\ Quietly(mainloop_free)

----------------------------------------------------------------------------
LoopTurns ==
  \/ mainloop_prepare \/ mainloop_poll
  \/ dispatch_timeout_begin \/ dispatch_timeout_end \/ dispatch_timeout_skip
  \/ dispatch_io_end \/ dispatch_io_key \/ dispatch_io_call

DBusNext ==
  \/ setup_connection \/ SetUp \/ dbus_destroy \/ Destroyed \/ Free
  \/ \E w \in Watch : LibraryAddsWatch(w) \/ LibraryTakesWatch(w) \/ toggle_dbus_watch(w)
  \/ \E m \in {"call", Ends} : Receive(m)
  \/ ConnectionBreaks \/ LibraryTellsEnd
  \/ Run \/ CallTimer \/ dbus_dispatch \/ ReturnFromTimer \/ ReturnFromIO
  \/ Quietly(LoopTurns)
  \/ \E w \in Watch : Quietly(BecomesReady(w)) \/ Quietly(Consume(w))

(* As in MainLoop; the handlers of messages return, so that the dispatch   *)
(* of what has arrived comes to an end, and so do the calls of libdbus.    *)
DBusFairness ==
  /\ WF_allVars(Quietly(mainloop_prepare \/ PollQuit \/ PollSkipped \/ PollTimesOut))
  /\ WF_allVars(Quietly(dispatch_timeout_begin \/ dispatch_timeout_end \/ dispatch_timeout_skip
                         \/ dispatch_io_end \/ dispatch_io_key \/ dispatch_io_call))
  /\ WF_allVars(CallTimer) /\ WF_allVars(dbus_dispatch)
  /\ WF_allVars(ReturnFromTimer) /\ WF_allVars(ReturnFromIO)
  /\ WF_allVars(LibraryTellsEnd \/ (state = "lost" /\ \E w \in Watch : LibraryTakesWatch(w)))
  /\ SF_allVars(Quietly(PollReturns))

DBusSpec == DBusInit /\ [][DBusNext]_allVars /\ DBusFairness

----------------------------------------------------------------------------
(* A watch has one event on the loop exactly while libdbus has it and has  *)
(* it switched on, and the pointer kept in the watch is to that event,     *)
(* through any order of switching, removal in the event's own callback,    *)
(* a broken connection and the end (dbusmodule.c:155-203).                 *)
EventsOf(w) == {e \in owned \cap IOEvent : watchOf[e] = w}

WatchesExact ==
  \A w \in Watch :
    /\ w \in added \cap enabled => EventsOf(w) = {data[w]}
    /\ w \notin added \cap enabled => EventsOf(w) = {}
    /\ data[w] # None => ref[data[w]] > 0 /\ watchOf[data[w]] = w

(* An event refers to a watch that libdbus has and has switched on, except *)
(* while its own callback runs: what was switched off or taken back there  *)
(* waits for the return, so a watch that was freed is still referred to    *)
(* until then, by the event and, in the notify, by the module, and by      *)
(* nothing else and no longer.                                             *)
OnlyOwnCallbackOutlives ==
  \A e \in IOEvent : ref[e] > 0 =>
    watchOf[e] \in added \cap enabled \/ (phase = "callback" /\ cur = e)

(* wakeup_main is overwritten by every wake-up and forgotten by the first  *)
(* dispatch; what it holds when the module is destroyed is still an event  *)
(* of the loop, and a timer it has lost never calls into the module        *)
(* after its destruction (dbusmodule.c:260-279, 551-563).                  *)
WakeupLive ==
  /\ state \notin {"ending", "destroyed"} /\ wakeup_main # None => wakeup_main \in owned
  /\ phase = "callback" => state \in {"up", "lost"}

(* Nothing the loop or the module keeps for the other is out of date:      *)
(* watches and their events, outside of an event's own callback, the timer *)
(* of the wake-up, and the module in every callback.                       *)
EventsPaired == WatchesExact /\ OnlyOwnCallbackOutlives /\ WakeupLive

(* What has been received is dispatched, however wake-ups and dispatches   *)
(* overlap, unless the loop stops.                                         *)
MessagesAreDispatched == (Running /\ queue # <<>>) ~> (~Running \/ queue = <<>>)
=============================================================================
