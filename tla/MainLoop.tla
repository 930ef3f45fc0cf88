-------------------------------- MODULE MainLoop --------------------------------
(***************************************************************************)
(* The main loop of fcitx (lib/fcitx-utils/mainloop.c): timeout and IO     *)
(* events, dispatched by one thread that prepares, polls and dispatches    *)
(* until it is told to quit.                                               *)
(*                                                                         *)
(* A callback may register events, remove any event including its own, or  *)
(* quit the loop; it is a phase of its own, in which these operations are  *)
(* enabled.  The clock is kept as the relation of each timer's time to     *)
(* now.  The table of IO events is the map HandlerMap describes; that its  *)
(* pool may move its array under a pointer of the dispatch is left out.    *)
(***************************************************************************)
EXTENDS FcitxList

CONSTANTS
  Timer,    \* timeout events
  IOEvent,  \* IO events
  PollKey,  \* pairs of a file descriptor and the flags it is polled for
  MaxReg,   \* bound: registrations in a behaviour
  None

ASSUME BoundAssumption == MaxReg \in Nat

ASSUME EventAssumption ==
  /\ Timer \cap IOEvent = {}
  /\ None \notin Timer \cup IOEvent \cup PollKey

VARIABLES
  phase,        \* what the thread is doing
  quit,         \* mainloop->quit
  nextTimeout,  \* mainloop->nextTimeout: -1 for ever, 0 do not poll, 1 some time
  timers,       \* mainloop->timeoutHandler, last registered first
  time,         \* event->time against the clock: "future", "now" or "past"
  timeout,      \* event->timeout: 0, or 1 for any longer one
  repeat,       \* event->repeat
  ioOrder,      \* the keys of mainloop->ioHandler, oldest first
  ioList,       \* the events of each key, in order
  ref,          \* refcount of every event, 0 when it does not exist
  owned,        \* the events whose owner has not removed them
  cur,          \* the event the dispatch stands at
  snap,         \* the timers that are overdue at the start of a pass
  revents,      \* mainloop->pollfds: the keys polled, None without revents
  ready,        \* keys whose descriptor is ready
  wake,         \* the wakeup pipe holds a byte
  regs          \* registrations so far

tVars == <<timers, time, timeout, repeat>>
ioVars == <<ioOrder, ioList>>
passVars == <<cur, snap, revents>>
vars == <<phase, quit, nextTimeout, tVars, ioVars, ref, owned, passVars, ready, wake, regs>>

Event == Timer \cup IOEvent

Init ==
  /\ phase = "stopped" /\ quit = FALSE /\ nextTimeout = 0
  /\ timers = <<>>
  /\ time = [t \in Timer |-> "past"]
  /\ timeout = [t \in Timer |-> 0]
  /\ repeat = [t \in Timer |-> FALSE]
  /\ ioOrder = <<>>
  /\ ioList = [k \in PollKey |-> <<>>]
  /\ ref = [e \in Event |-> 0]
  /\ owned = {}
  /\ cur = None /\ snap = {} /\ revents = <<>>
  /\ ready = {} /\ wake = FALSE
  /\ regs = 0

----------------------------------------------------------------------------
(***************************************************************************)
(* Operations: called by a callback, or while the loop is not running.     *)
(***************************************************************************)
UserCode == phase \in {"stopped", "callback"}

SetTime(n) == IF n = 0 THEN "past" ELSE "future"

register_timeout_event(t, n, r) ==
  /\ UserCode /\ ref[t] = 0 /\ regs < MaxReg
  /\ timeout' = [timeout EXCEPT ![t] = n]
  /\ time' = [time EXCEPT ![t] = SetTime(n)]
  /\ repeat' = [repeat EXCEPT ![t] = r]
  /\ ref' = [ref EXCEPT ![t] = 1]
  /\ owned' = owned \cup {t}
  /\ timers' = list_prepend(timers, t)
  /\ wake' = TRUE
  /\ regs' = regs + 1
  /\ UNCHANGED <<phase, quit, nextTimeout, ioVars, passVars, ready>>

KeyOf(e) == CHOOSE k \in PollKey : e \in ToSet(ioList[k])

register_io_event(e, k) ==
  /\ UserCode /\ ref[e] = 0 /\ regs < MaxReg
  /\ ioOrder' = IF ioList[k] = <<>> THEN Append(ioOrder, k) ELSE ioOrder
  /\ ioList' = [ioList EXCEPT ![k] = list_append(@, e)]
  /\ ref' = [ref EXCEPT ![e] = 1]
  /\ owned' = owned \cup {e}
  /\ wake' = TRUE
  /\ regs' = regs + 1
  /\ UNCHANGED <<phase, quit, nextTimeout, tVars, passVars, ready>>

\* Plausible bug: an event is freed even while its callback runs.
RefAfterRemoveAtOnce(e) == 0

RefAfterRemove(e) == ref[e] - 1

UnlinkTimer(t) ==
  /\ timers' = list_remove(timers, t)
  /\ UNCHANGED <<time, timeout, repeat>>

UnlinkIO(e) ==
  LET k == KeyOf(e) IN
  /\ ioList' = [ioList EXCEPT ![k] = list_remove(@, e)]
  /\ ioOrder' = IF ioList[k] = <<e>> THEN list_remove(ioOrder, k) ELSE ioOrder

remove_timeout_event(t) ==
  /\ UserCode /\ t \in owned
  /\ owned' = owned \ {t}
  /\ ref' = [ref EXCEPT ![t] = RefAfterRemove(t)]
  /\ IF RefAfterRemove(t) = 0 THEN UnlinkTimer(t) ELSE UNCHANGED tVars
  /\ UNCHANGED <<phase, quit, nextTimeout, ioVars, passVars, ready, wake, regs>>

remove_io_event(e) ==
  /\ UserCode /\ e \in owned
  /\ owned' = owned \ {e}
  /\ ref' = [ref EXCEPT ![e] = RefAfterRemove(e)]
  /\ IF RefAfterRemove(e) = 0 THEN UnlinkIO(e) ELSE UNCHANGED ioVars
  /\ UNCHANGED <<phase, quit, nextTimeout, tVars, passVars, ready, wake, regs>>

mainloop_quit ==
  /\ UserCode /\ ~quit
  /\ quit' = TRUE
  /\ UNCHANGED <<phase, nextTimeout, tVars, ioVars, ref, owned, passVars, ready, wake, regs>>

----------------------------------------------------------------------------
(***************************************************************************)
(* One turn of the loop: prepare, poll, dispatch.                          *)
(***************************************************************************)
Goto(p) == phase' = p /\ UNCHANGED <<ioVars, owned, ready, regs>>

mainloop_run ==
  /\ phase = "stopped"
  /\ quit' = FALSE
  /\ Goto("prepare")
  /\ UNCHANGED <<nextTimeout, tVars, ref, passVars, wake>>

\* Plausible bug: only timers that are due count, the loop sleeps through the others.
NextTimeoutDueOnly ==
  IF \E t \in ToSet(timers) : time[t] # "future" THEN 0 ELSE -1

NextTimeout ==
  IF timers = <<>> THEN -1
  ELSE IF \E t \in ToSet(timers) : time[t] # "future" THEN 0 ELSE 1

(* A timer that is due now counts as due here, and not when timers are     *)
(* dispatched.  The wakeup pipe is drained.                                *)
mainloop_prepare ==
  /\ phase = "prepare"
  /\ IF quit THEN UNCHANGED <<nextTimeout, wake>>
     ELSE nextTimeout' = NextTimeout /\ wake' = FALSE
  /\ Goto("poll")
  /\ UNCHANGED <<quit, tVars, ref, passVars>>

EndTurn(p) ==
  /\ Goto(p)
  /\ UNCHANGED <<quit, nextTimeout, tVars, ref, snap, cur, wake>>

PollQuit ==
  /\ phase = "poll" /\ quit
  /\ EndTurn("stopped")
  /\ revents' = <<>>

PollSkipped ==
  /\ phase = "poll" /\ ~quit /\ nextTimeout = 0
  /\ EndTurn("dispatch")
  /\ revents' = <<>>

Polling == phase = "poll" /\ ~quit /\ nextTimeout # 0

\* Plausible bug: the wakeup pipe is counted among the descriptors that had revents.
ReventsButOne ==
  [i \in DOMAIN ioOrder |-> IF ioOrder[i] \in ready /\ i # Len(ioOrder) THEN ioOrder[i] ELSE None]

Revents == [i \in DOMAIN ioOrder |-> IF ioOrder[i] \in ready THEN ioOrder[i] ELSE None]

PollReturns ==
  /\ Polling
  /\ wake \/ \E k \in ToSet(ioOrder) : k \in ready
  /\ EndTurn("dispatch")
  /\ revents' = Revents

PollTimesOut ==
  /\ Polling /\ nextTimeout > 0
  /\ \E t \in ToSet(timers) : time[t] # "future"
  /\ EndTurn("dispatch")
  /\ revents' = <<>>

PollInterrupted ==
  /\ Polling
  /\ EndTurn("dispatch")
  /\ revents' = <<>>

mainloop_poll == PollQuit \/ PollSkipped \/ PollReturns \/ PollTimesOut \/ PollInterrupted

----------------------------------------------------------------------------
(* Timers: those overdue when the pass begins, in the order of the list as *)
(* it is after each callback.                                              *)
First(s) == IF s = <<>> THEN None ELSE Head(s)
After(s, e) == IF e = Last(s) THEN None ELSE s[Position(s, e) + 1]

dispatch_timeout_begin ==
  /\ phase = "dispatch"
  /\ snap' = {t \in ToSet(timers) : time[t] = "past"}
  /\ cur' = First(timers)
  /\ Goto("timers")
  /\ UNCHANGED <<quit, nextTimeout, tVars, ref, revents, wake>>

StopHere == quit

dispatch_timeout_end ==
  /\ phase = "timers" /\ (cur = None \/ StopHere)
  /\ cur' = None
  /\ Goto("io")
  /\ UNCHANGED <<quit, nextTimeout, tVars, ref, snap, revents, wake>>

AtTimer == phase = "timers" /\ cur # None /\ ~StopHere

dispatch_timeout_skip ==
  /\ AtTimer /\ cur \notin snap
  /\ cur' = After(timers, cur)
  /\ Goto("timers")
  /\ UNCHANGED <<quit, nextTimeout, tVars, ref, snap, revents, wake>>

dispatch_timeout_call ==
  /\ AtTimer /\ cur \in snap
  /\ ref' = [ref EXCEPT ![cur] = @ + 1]
  /\ Goto("callback")
  /\ UNCHANGED <<quit, nextTimeout, tVars, passVars, wake>>

\* Plausible bug: a repeating timer stays although its callback removed it.
StaysIfRepeating(t) == repeat[t]

Stays(t) == ref[t] # 1 /\ repeat[t]

(* Back from the callback of a timer: it goes if it was removed meanwhile  *)
(* or does not repeat.                                                     *)
dispatch_timeout_return ==
  /\ phase = "callback" /\ cur \in Timer
  /\ cur' = After(timers, cur)
  /\ IF Stays(cur)
     THEN /\ ref' = [ref EXCEPT ![cur] = @ - 1]
          /\ time' = [time EXCEPT ![cur] = SetTime(timeout[cur])]
          /\ UNCHANGED <<timers, timeout, repeat, owned>>
     ELSE /\ ref' = [ref EXCEPT ![cur] = 0]
          /\ UnlinkTimer(cur)
          /\ owned' = owned \ {cur}
  /\ phase' = "timers"
  /\ UNCHANGED <<quit, nextTimeout, ioVars, snap, revents, ready, wake, regs>>

----------------------------------------------------------------------------
(* IO events: of every key that had revents, the events it has now.        *)
HasRevents(i) == revents[i] # None

dispatch_io_end ==
  /\ phase = "io" /\ cur = None
  /\ StopHere \/ \A i \in DOMAIN revents : ~HasRevents(i)
  /\ revents' = <<>>
  /\ Goto("prepare")
  /\ UNCHANGED <<quit, nextTimeout, tVars, ref, cur, snap, wake>>

dispatch_io_key ==
  /\ phase = "io" /\ cur = None /\ ~StopHere
  /\ \E i \in DOMAIN revents :
       /\ HasRevents(i) /\ \A j \in 1..(i - 1) : ~HasRevents(j)
       /\ cur' = First(ioList[revents[i]])
       /\ revents' = [revents EXCEPT ![i] = None]
  /\ Goto("io")
  /\ UNCHANGED <<quit, nextTimeout, tVars, ref, snap, wake>>

dispatch_io_call ==
  /\ phase = "io" /\ cur # None
  /\ ref' = [ref EXCEPT ![cur] = @ + 1]
  /\ Goto("callback")
  /\ UNCHANGED <<quit, nextTimeout, tVars, passVars, wake>>

RefAfterCall(e) == ref[e] - 1

dispatch_io_return ==
  /\ phase = "callback" /\ cur \in IOEvent
  /\ ref' = [ref EXCEPT ![cur] = RefAfterCall(cur)]
  /\ cur' = IF StopHere THEN None ELSE After(ioList[KeyOf(cur)], cur)
  /\ IF RefAfterCall(cur) = 0 THEN UnlinkIO(cur) ELSE UNCHANGED ioVars
  /\ phase' = "io"
  /\ UNCHANGED <<quit, nextTimeout, tVars, owned, snap, revents, ready, wake, regs>>

(* Every event that is left goes with the loop.                            *)
mainloop_free ==
  /\ phase = "stopped"
  /\ phase' = "freed"
  /\ timers' = <<>> /\ ioOrder' = <<>>
  /\ ioList' = [k \in PollKey |-> <<>>]
  /\ ref' = [e \in Event |-> 0]
  /\ owned' = {}
  /\ UNCHANGED <<quit, nextTimeout, time, timeout, repeat, passVars, ready, wake, regs>>

----------------------------------------------------------------------------
(* The clock and the descriptors.                                          *)
Tick(t) ==
  /\ t \in ToSet(timers) /\ time[t] # "past"
  /\ time' = [time EXCEPT ![t] = IF @ = "future" THEN "now" ELSE "past"]
  /\ UNCHANGED <<phase, quit, nextTimeout, timers, timeout, repeat, ioVars, ref, owned,
                 passVars, ready, wake, regs>>

BecomesReady(k) ==
  /\ k \notin ready
  /\ ready' = ready \cup {k}
  /\ UNCHANGED <<phase, quit, nextTimeout, tVars, ioVars, ref, owned, passVars, wake, regs>>

Consume(k) ==
  /\ phase = "callback" /\ k \in ready
  /\ ready' = ready \ {k}
  /\ UNCHANGED <<phase, quit, nextTimeout, tVars, ioVars, ref, owned, passVars, wake, regs>>

Dispatch ==
  \/ dispatch_timeout_begin \/ dispatch_timeout_end \/ dispatch_timeout_skip
  \/ dispatch_timeout_call \/ dispatch_io_end \/ dispatch_io_key \/ dispatch_io_call

Return == dispatch_timeout_return \/ dispatch_io_return

Next ==
  \/ \E t \in Timer : \/ \E n \in {0, 1}, r \in BOOLEAN : register_timeout_event(t, n, r)
                      \/ remove_timeout_event(t)
                      \/ Tick(t)
  \/ \E e \in IOEvent : remove_io_event(e) \/ \E k \in PollKey : register_io_event(e, k)
  \/ mainloop_quit \/ mainloop_run \/ mainloop_free
  \/ mainloop_prepare \/ mainloop_poll \/ Dispatch \/ Return
  \/ \E k \in PollKey : BecomesReady(k) \/ Consume(k)

(* The thread goes on as long as it can, callbacks return, the clock runs, *)
(* and signals do not interrupt every single poll.                         *)
Fairness ==
  /\ WF_vars(mainloop_prepare \/ PollQuit \/ PollSkipped \/ PollTimesOut)
  /\ WF_vars(Dispatch)
  /\ WF_vars(Return)
  /\ SF_vars(PollReturns)
  /\ \A t \in Timer : WF_vars(Tick(t))

Spec == Init /\ [][Next]_vars /\ Fairness

----------------------------------------------------------------------------
(* The types of the loop's state.                                          *)
TypeOK ==
  /\ phase \in {"stopped", "prepare", "poll", "dispatch", "timers", "io", "callback", "freed"}
  /\ quit \in BOOLEAN /\ wake \in BOOLEAN
  /\ nextTimeout \in {-1, 0, 1}
  /\ timers \in Seq(Timer)
  /\ time \in [Timer -> {"future", "now", "past"}]
  /\ timeout \in [Timer -> {0, 1}]
  /\ repeat \in [Timer -> BOOLEAN]
  /\ ioOrder \in Seq(PollKey)
  /\ ioList \in [PollKey -> Seq(IOEvent)]
  /\ ref \in [Event -> 0..2]
  /\ owned \subseteq Event
  /\ cur \in Event \cup {None}
  /\ snap \subseteq Timer
  /\ revents \in Seq(PollKey \cup {None})
  /\ ready \subseteq PollKey
  /\ regs \in 0..MaxReg

(* The reference count of an event is the number of those who hold it, its *)
(* owner and the dispatch while its callback runs, and an event is linked  *)
(* exactly as long as somebody holds it, under one key: removing an event  *)
(* from its own callback, or another event's, frees nothing that is still  *)
(* used, and the dispatch never stands at an event that has been freed.    *)
Holders(e) == (IF e \in owned THEN 1 ELSE 0) + (IF phase = "callback" /\ cur = e THEN 1 ELSE 0)

CountsExact == \A e \in Event : ref[e] = Holders(e)

TimersLinked == IsInjective(timers) /\ \A t \in Timer : t \in ToSet(timers) <=> ref[t] > 0

IOLinked ==
  /\ \A e \in IOEvent : (\E k \in PollKey : e \in ToSet(ioList[k])) <=> ref[e] > 0
  /\ \A k, l \in PollKey : k # l => ToSet(ioList[k]) \cap ToSet(ioList[l]) = {}
  /\ \A k \in PollKey : IsInjective(ioList[k]) /\ (k \in ToSet(ioOrder) <=> ioList[k] # <<>>)

RefsExact == CountsExact /\ TimersLinked /\ IOLinked /\ (cur # None => ref[cur] > 0)

(* A callback is called only while its owner still wants it and the loop   *)
(* is to go on: not after the event was removed, by whatever callback, and *)
(* not after one has quit the loop.                                        *)
OnlyWantedIsCalled ==
  [][phase # "callback" /\ phase' = "callback" => ~quit /\ cur \in owned]_vars

Running == phase \notin {"stopped", "freed"} /\ ~quit

(* An overdue timer is called, unless it is removed or the loop stops:     *)
(* neither IO events nor timers that expire all the time keep it waiting.  *)
DueTimerFires ==
  \A t \in Timer :
    (Running /\ t \in ToSet(timers) /\ time[t] = "past") ~>
      (~Running \/ t \notin ToSet(timers) \/ (phase = "callback" /\ cur = t))

(* A ready descriptor is served unless the loop stops, provided that the   *)
(* loop polls again and again: it does not poll while a timer is due, so a *)
(* repeating timeout of 0 starves every descriptor.                        *)
ReadyIsServed ==
  []<>(Polling \/ ~Running) =>
    \A k \in PollKey :
      (Running /\ k \in ready /\ k \in ToSet(ioOrder)) ~>
        (~Running \/ k \notin ready \/ k \notin ToSet(ioOrder)
           \/ (phase = "callback" /\ cur \in ToSet(ioList[k])))

=============================================================================
