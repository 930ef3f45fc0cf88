----------------------------- MODULE MainLoop_proofs -----------------------------
(***************************************************************************)
(* Proofs about the main loop, for any number of events and registrations: *)
(* reference counts are exact, and only what is wanted is called.          *)
(***************************************************************************)
EXTENDS DBusLoop, FcitxList_proofs

USE DEF Event

(* Where the dispatch stands: it has an event only while it goes through a *)
(* list or has called it, and once the loop has quit it calls no IO event. *)
Standing ==
  /\ cur # None => phase \in {"timers", "io", "callback"}
  /\ phase = "callback" => cur # None
  /\ phase = "timers" /\ cur # None => cur \in Timer
  /\ phase = "io" /\ cur # None => cur \in IOEvent /\ ~quit
  /\ IsInjective(ioOrder)

Inv == TypeOK /\ RefsExact /\ Standing

----------------------------------------------------------------------------
(* The event after another one of a list is another one of the list.       *)
LEMMA AfterIsOther ==
  ASSUME NEW S, NEW s \in Seq(S), NEW e \in ToSet(s), IsInjective(s)
  PROVE  After(s, e) = None \/ After(s, e) \in ToSet(s) \ {e}
<1> DEFINE p == Position(s, e)
<1>1. p \in 1..Len(s) /\ s[p] = e
  BY DEF Position, ToSet
<1>2. CASE e = Last(s)
  BY <1>2 DEF After
<1>3. CASE e # Last(s)
  <2>1. p # Len(s)
    BY <1>1, <1>3 DEF Last
  <2>2. p + 1 \in 1..Len(s) /\ p + 1 # p
    BY <1>1, <2>1
  <2>3. s[p + 1] # s[p] /\ s[p + 1] \in ToSet(s)
    BY <1>1, <2>2 DEF IsInjective, ToSet
  <2> QED BY <1>1, <1>3, <2>3 DEF After
<1> QED BY <1>2, <1>3

LEMMA EmptyOrOne ==
  ASSUME NEW S, NEW s \in Seq(S)
  PROVE  /\ ToSet(s) = {} <=> s = <<>>
         /\ \A e \in S : IsInjective(s) => (ToSet(s) = {e} <=> s = <<e>>)
<1>1. DOMAIN s = 1..Len(s) /\ Len(s) \in Nat
  OBVIOUS
<1>2. ASSUME ToSet(s) = {} PROVE s = <<>>
  <2>1. ~(1 \in DOMAIN s)
    BY <1>2 DEF ToSet
  <2> QED BY <1>1, <2>1
<1>3. ASSUME NEW e \in S, IsInjective(s), ToSet(s) = {e} PROVE s = <<e>>
  <2>1. \A i \in DOMAIN s : s[i] = e
    BY <1>3 DEF ToSet
  <2>2. \A i, j \in DOMAIN s : i = j
    BY <1>3, <2>1 DEF IsInjective
  <2>3. \E i \in DOMAIN s : TRUE
    BY <1>3 DEF ToSet
  <2>4. Len(s) = 1
    <3>1. Len(s) >= 1 /\ 1 \in DOMAIN s
      BY <1>1, <2>3
    <3>2. ~(2 \in DOMAIN s)
      BY <2>2, <3>1
    <3> QED BY <1>1, <3>1, <3>2
  <2> QED BY <1>1, <2>1, <2>4
<1>4. ToSet(<<>>) = {} /\ \A e \in S : ToSet(<<e>>) = {e}
  BY DEF ToSet
<1> QED BY <1>2, <1>3, <1>4

LEMMA FirstIsMember ==
  ASSUME NEW S, NEW s \in Seq(S)
  PROVE  First(s) = None \/ First(s) \in ToSet(s)
BY PopIsUnlink DEF First

(* An event that is linked has one key, and unlinking it there leaves the  *)
(* table exact.                                                            *)
LEMMA KeyOfIsKey ==
  ASSUME TypeOK, IOLinked, NEW e \in IOEvent, ref[e] > 0
  PROVE  /\ KeyOf(e) \in PollKey /\ e \in ToSet(ioList[KeyOf(e)])
         /\ \A k \in PollKey : e \in ToSet(ioList[k]) => k = KeyOf(e)
<1>1. \E k \in PollKey : e \in ToSet(ioList[k])
  BY DEF IOLinked
<1>2. KeyOf(e) \in PollKey /\ e \in ToSet(ioList[KeyOf(e)])
  BY <1>1 DEF KeyOf
<1> QED BY <1>2 DEF IOLinked

LEMMA UnlinkIOIsExact ==
  ASSUME TypeOK, IOLinked, IsInjective(ioOrder), NEW e \in IOEvent, ref[e] > 0,
         UnlinkIO(e), ref' = [ref EXCEPT ![e] = 0]
  PROVE  /\ IOLinked' /\ IsInjective(ioOrder')
         /\ ioList' \in [PollKey -> Seq(IOEvent)] /\ ioOrder' \in Seq(PollKey)
<1> DEFINE k == KeyOf(e)
<1>0. ioList \in [PollKey -> Seq(IOEvent)] /\ ioOrder \in Seq(PollKey) /\ ref \in [Event -> 0..2]
  BY DEF TypeOK
<1>1. k \in PollKey /\ e \in ToSet(ioList[k]) /\ \A l \in PollKey : e \in ToSet(ioList[l]) => l = k
  BY KeyOfIsKey
<1> HIDE DEF k
<1>2. /\ ioList' = [ioList EXCEPT ![k] = list_remove(ioList[k], e)]
      /\ ioOrder' = IF ioList[k] = <<e>> THEN list_remove(ioOrder, k) ELSE ioOrder
  BY DEF UnlinkIO, k
<1>3. IsInjective(ioList[k]) /\ ioList[k] \in Seq(IOEvent) /\ k \in ToSet(ioOrder)
  <2>1. ioList[k] # <<>>
    BY <1>1 DEF ToSet
  <2> QED BY <1>0, <1>1, <2>1 DEF IOLinked
<1>4. /\ list_remove(ioList[k], e) \in Seq(IOEvent) /\ IsInjective(list_remove(ioList[k], e))
      /\ ToSet(list_remove(ioList[k], e)) = ToSet(ioList[k]) \ {e}
  BY <1>1, <1>3, RemoveIsUnlink
<1>5. ioList' \in [PollKey -> Seq(IOEvent)]
  BY <1>0, <1>2, <1>4
<1>6. /\ ioList'[k] = list_remove(ioList[k], e)
      /\ \A l \in PollKey \ {k} : ioList'[l] = ioList[l]
  BY <1>0, <1>1, <1>2
<1>7. \A l \in PollKey : ToSet(ioList'[l]) = ToSet(ioList[l]) \ {e}
  BY <1>1, <1>4, <1>6
<1>8. \A d \in IOEvent : (\E l \in PollKey : d \in ToSet(ioList'[l])) <=> ref'[d] > 0
  <2>1. \A d \in IOEvent \ {e} : ref'[d] = ref[d]
    BY <1>0
  <2>2. ref'[e] = 0
    BY <1>0
  <2>3. \A d \in IOEvent \ {e}, l \in PollKey : d \in ToSet(ioList'[l]) <=> d \in ToSet(ioList[l])
    BY <1>7
  <2>4. \A l \in PollKey : e \notin ToSet(ioList'[l])
    BY <1>7
  <2> QED BY <2>1, <2>2, <2>3, <2>4 DEF IOLinked
<1>9. \A l, m \in PollKey : l # m => ToSet(ioList'[l]) \cap ToSet(ioList'[m]) = {}
  BY <1>7 DEF IOLinked
<1>10. ioList[k] = <<e>> <=> ioList'[k] = <<>>
  <2>1. ToSet(ioList[k]) = {e} <=> ToSet(ioList'[k]) = {}
    BY <1>1, <1>7
  <2>2. ToSet(ioList[k]) = {e} <=> ioList[k] = <<e>>
    BY <1>3, EmptyOrOne
  <2>3. ToSet(ioList'[k]) = {} <=> ioList'[k] = <<>>
    BY <1>1, <1>5, EmptyOrOne
  <2> QED BY <2>1, <2>2, <2>3
<1>11. /\ ioOrder' \in Seq(PollKey) /\ IsInjective(ioOrder')
       /\ ToSet(ioOrder') = IF ioList[k] = <<e>> THEN ToSet(ioOrder) \ {k} ELSE ToSet(ioOrder)
  BY <1>0, <1>2, <1>3, RemoveIsUnlink
<1>12. \A l \in PollKey : IsInjective(ioList'[l]) /\ (l \in ToSet(ioOrder') <=> ioList'[l] # <<>>)
  BY <1>3, <1>4, <1>6, <1>10, <1>11 DEF IOLinked
<1> QED BY <1>5, <1>8, <1>9, <1>11, <1>12 DEF IOLinked

(* So does unlinking a timer.                                              *)
LEMMA UnlinkTimerIsExact ==
  ASSUME TypeOK, TimersLinked, NEW t \in Timer, ref[t] > 0, UnlinkTimer(t), ref' = [ref EXCEPT ![t] = 0]
  PROVE  TimersLinked' /\ timers' \in Seq(Timer)
<1>1. timers \in Seq(Timer) /\ ref \in [Event -> 0..2] /\ t \in ToSet(timers) /\ IsInjective(timers)
  BY DEF TypeOK, TimersLinked
<1>2. timers' = list_remove(timers, t)
  BY DEF UnlinkTimer
<1>3. timers' \in Seq(Timer) /\ IsInjective(timers') /\ ToSet(timers') = ToSet(timers) \ {t}
  BY <1>1, <1>2, RemoveIsUnlink
<1> QED BY <1>1, <1>3 DEF TimersLinked

----------------------------------------------------------------------------
(* Steps that touch neither the lists nor the counts: the thread moves on, *)
(* the clock runs, a descriptor becomes ready.                             *)
Untouched == UNCHANGED <<timers, timeout, repeat, ioVars, ref, owned, regs>>

LEMMA StandingStep ==
  ASSUME Inv, Untouched, TypeOK', Standing',
         phase # "callback", phase' # "callback",
         cur' # None => ref[cur'] > 0
  PROVE  Inv'
<1>1. CountsExact'
  BY DEF Inv, RefsExact, CountsExact, Holders, Untouched
<1>2. TimersLinked' /\ IOLinked'
  BY DEF Inv, RefsExact, TimersLinked, IOLinked, Untouched, ioVars
<1> QED BY <1>1, <1>2 DEF Inv, RefsExact, Untouched

LEMMA InitInv == Init => Inv
<1> SUFFICES ASSUME Init PROVE Inv
  OBVIOUS
<1>1. ToSet(<<>>) = {} /\ IsInjective(<<>>)
  BY DEF ToSet, IsInjective
<1>2. TypeOK
  <2>1. 0 \in 0..MaxReg /\ \A S : <<>> \in Seq(S)
    BY BoundAssumption
  <2>2. ioList \in [PollKey -> Seq(IOEvent)] /\ ref \in [Event -> 0..2]
    BY <2>1 DEF Init
  <2> QED BY <2>1, <2>2 DEF Init, TypeOK
<1>3. CountsExact /\ TimersLinked
  BY <1>1 DEF Init, CountsExact, TimersLinked, Holders
<1>4. IOLinked
  <2>1. \A k \in PollKey : ioList[k] = <<>>
    BY DEF Init
  <2>2. \A e \in IOEvent : ref[e] = 0
    BY DEF Init
  <2>3. ioOrder = <<>>
    BY DEF Init
  <2> QED BY <1>1, <2>1, <2>2, <2>3 DEF IOLinked
<1>5. Standing
  BY <1>1 DEF Init, Standing
<1> QED BY <1>2, <1>3, <1>4, <1>5 DEF Inv, RefsExact, Init

LEMMA TurnInv ==
  ASSUME Inv, mainloop_run \/ mainloop_prepare \/ mainloop_poll
  PROVE  Inv'
<1>1. Untouched /\ cur' = cur /\ cur = None /\ phase \notin {"callback"} /\ phase' \notin {"callback", "io", "timers"}
  BY DEF mainloop_run, mainloop_prepare, mainloop_poll, PollQuit, PollSkipped, PollReturns, PollTimesOut, PollInterrupted,
         Polling, EndTurn, Goto, tVars, passVars, ioVars, Untouched, Inv, Standing
<1>2. Revents \in Seq(PollKey \cup {None}) /\ <<>> \in Seq(PollKey \cup {None})
  <2>1. ioOrder \in Seq(PollKey)
    BY DEF Inv, TypeOK
  <2> QED BY <2>1 DEF Revents
<1>3. NextTimeout \in {-1, 0, 1}
  BY DEF NextTimeout
<1>4. TypeOK'
  <2>1. CASE mainloop_run
    BY <2>1 DEF mainloop_run, Goto, tVars, passVars, ioVars, Inv, TypeOK
  <2>2. CASE mainloop_prepare
    BY <1>3, <2>2 DEF mainloop_prepare, Goto, tVars, passVars, ioVars, Inv, TypeOK
  <2>3. CASE mainloop_poll
    BY <1>2, <2>3 DEF mainloop_poll, PollQuit, PollSkipped, PollReturns, PollTimesOut, PollInterrupted, EndTurn, Goto,
          tVars, ioVars, Inv, TypeOK
  <2> QED BY <2>1, <2>2, <2>3
<1>5. Standing'
  BY <1>1 DEF Untouched, ioVars, Inv, Standing
<1> QED BY <1>1, <1>4, <1>5, StandingStep

LEMMA OutsideInv ==
  ASSUME Inv, (\E t \in Timer : Tick(t)) \/ (\E k \in PollKey : BecomesReady(k) \/ Consume(k)) \/ mainloop_quit
  PROVE  Inv'
<1>1. UNCHANGED <<phase, timers, ioVars, ref, owned, cur>>
  BY DEF Tick, BecomesReady, Consume, mainloop_quit, tVars, passVars
<1>2. quit' = quit \/ phase # "io"
  BY DEF Tick, BecomesReady, Consume, mainloop_quit, UserCode
<1>3. TypeOK'
  <2>1. ASSUME NEW t \in Timer, Tick(t) PROVE TypeOK'
    <3>1. time' \in [Timer -> {"future", "now", "past"}]
      BY <2>1 DEF Inv, TypeOK, Tick
    <3>2. UNCHANGED <<phase, quit, nextTimeout, timers, timeout, repeat, ioOrder, ioList, ref, owned,
                      cur, snap, revents, ready, wake, regs>>
      BY <2>1 DEF Tick, ioVars, passVars
    <3> QED BY <3>1, <3>2 DEF Inv, TypeOK
  <2>2. ASSUME NEW k \in PollKey, BecomesReady(k) PROVE TypeOK'
    BY <2>2 DEF Inv, TypeOK, BecomesReady, tVars, ioVars, passVars
  <2>3. ASSUME NEW k \in PollKey, Consume(k) PROVE TypeOK'
    BY <2>3 DEF Inv, TypeOK, Consume, tVars, ioVars, passVars
  <2>4. CASE mainloop_quit
    BY <2>4 DEF Inv, TypeOK, mainloop_quit, tVars, ioVars, passVars
  <2> QED BY <2>1, <2>2, <2>3, <2>4
<1>4. RefsExact'
  BY <1>1 DEF Inv, RefsExact, CountsExact, TimersLinked, IOLinked, Holders, ioVars
<1>5. Standing'
  BY <1>1, <1>2 DEF Inv, Standing, ioVars
<1> QED BY <1>3, <1>4, <1>5 DEF Inv

LEMMA DispatchInv == ASSUME Inv, Dispatch PROVE Inv'
<1>1. /\ timers \in Seq(Timer) /\ ioList \in [PollKey -> Seq(IOEvent)] /\ revents \in Seq(PollKey \cup {None})
      /\ ref \in [Event -> 0..2] /\ cur \in Event \cup {None}
  BY DEF Inv, TypeOK
<1>2. \A t \in ToSet(timers) : t \in Timer /\ ref[t] > 0
  BY <1>1 DEF Inv, RefsExact, TimersLinked, ToSet
<1>3. CASE dispatch_timeout_begin
  <2>1. cur' = None \/ cur' \in ToSet(timers)
    BY <1>1, <1>3, FirstIsMember DEF dispatch_timeout_begin
  <2>2. Untouched /\ phase = "dispatch" /\ phase' = "timers" /\ UNCHANGED <<time, quit>>
    BY <1>3 DEF dispatch_timeout_begin, Goto, tVars, Untouched, ioVars
  <2>3. TypeOK'
    BY <1>2, <1>3, <2>1 DEF dispatch_timeout_begin, Goto, tVars, ioVars, Inv, TypeOK
  <2>4. Standing'
    BY <1>2, <2>1, <2>2 DEF Inv, Standing, Untouched, ioVars
  <2> QED BY <1>2, <2>1, <2>2, <2>3, <2>4, StandingStep
<1>4. CASE dispatch_timeout_end
  <2>1. Untouched /\ cur' = None /\ phase # "callback" /\ phase' = "io"
    BY <1>4 DEF dispatch_timeout_end, Goto, tVars, Untouched, ioVars
  <2>2. TypeOK'
    BY <1>4 DEF dispatch_timeout_end, Goto, tVars, ioVars, Inv, TypeOK
  <2>3. Standing'
    BY <2>1 DEF Inv, Standing, Untouched, ioVars
  <2> QED BY <2>1, <2>2, <2>3, StandingStep
<1>5. CASE dispatch_timeout_skip
  <2>1. cur \in ToSet(timers)
    BY <1>1, <1>5 DEF dispatch_timeout_skip, AtTimer, Inv, Standing, RefsExact, TimersLinked
  <2>2. cur' = None \/ cur' \in ToSet(timers)
    BY <1>1, <1>5, <2>1, AfterIsOther DEF dispatch_timeout_skip, Inv, RefsExact, TimersLinked
  <2>3. Untouched /\ phase = "timers" /\ phase' = "timers" /\ UNCHANGED <<time, quit>>
    BY <1>5 DEF dispatch_timeout_skip, AtTimer, Goto, tVars, Untouched, ioVars
  <2>4. TypeOK'
    BY <1>2, <1>5, <2>2 DEF dispatch_timeout_skip, Goto, tVars, ioVars, Inv, TypeOK
  <2>5. Standing'
    BY <1>2, <2>2, <2>3 DEF Inv, Standing, Untouched, ioVars
  <2> QED BY <1>2, <2>2, <2>3, <2>4, <2>5, StandingStep
<1>6. CASE dispatch_timeout_call \/ dispatch_io_call
  <2>1. /\ cur \in Event /\ cur # None /\ ref[cur] > 0 /\ phase \in {"timers", "io"}
        /\ ref' = [ref EXCEPT ![cur] = ref[cur] + 1] /\ phase' = "callback"
        /\ UNCHANGED <<quit, nextTimeout, timers, time, timeout, repeat, ioOrder, ioList, owned, cur, snap, revents,
                       ready, wake, regs>>
    BY <1>1, <1>6 DEF dispatch_timeout_call, dispatch_io_call, AtTimer, Goto, tVars, ioVars, passVars, Inv, RefsExact
  <2>2. \A e \in Event : ref[e] = IF e \in owned THEN 1 ELSE 0
    BY <2>1 DEF Inv, RefsExact, CountsExact, Holders
  <2>3. \A e \in Event : ref'[e] = (IF e \in owned THEN 1 ELSE 0) + (IF e = cur THEN 1 ELSE 0)
    BY <1>1, <2>1, <2>2
  <2>4. \A e \in Event : ref'[e] > 0 <=> ref[e] > 0
    BY <1>1, <2>1
  <2>5. ref' \in [Event -> 0..2]
    BY <1>1, <2>1, <2>2
  <2>6. TypeOK'
    BY <2>1, <2>5 DEF Inv, TypeOK
  <2>7. RefsExact'
    <3>1. CountsExact'
      BY <2>1, <2>3 DEF CountsExact, Holders
    <3>2. TimersLinked' /\ IOLinked'
      BY <2>1, <2>4 DEF Inv, RefsExact, TimersLinked, IOLinked
    <3> QED BY <2>1, <2>4, <3>1, <3>2 DEF RefsExact
  <2>8. Standing'
    BY <2>1 DEF Inv, Standing
  <2> QED BY <2>6, <2>7, <2>8 DEF Inv
<1>7. CASE dispatch_io_end
  <2>1. Untouched /\ cur' = cur /\ cur = None /\ phase # "callback" /\ phase' = "prepare"
    BY <1>7 DEF dispatch_io_end, Goto, tVars, Untouched, ioVars
  <2>2. TypeOK'
    BY <1>7 DEF dispatch_io_end, Goto, tVars, ioVars, Inv, TypeOK
  <2>3. Standing'
    BY <2>1 DEF Inv, Standing, Untouched, ioVars
  <2> QED BY <2>1, <2>2, <2>3, StandingStep
<1>8. CASE dispatch_io_key
  <2>1. PICK i \in DOMAIN revents :
          /\ HasRevents(i) /\ cur' = First(ioList[revents[i]])
          /\ revents' = [revents EXCEPT ![i] = None]
    BY <1>8 DEF dispatch_io_key
  <2>2. revents[i] \in PollKey /\ revents' \in Seq(PollKey \cup {None})
    BY <1>1, <2>1 DEF HasRevents
  <2>3. cur' # None => cur' \in IOEvent /\ ref[cur'] > 0
    <3>1. cur' = None \/ cur' \in ToSet(ioList[revents[i]])
      BY <1>1, <2>1, <2>2, FirstIsMember
    <3>2. \A e \in ToSet(ioList[revents[i]]) : e \in IOEvent
      BY <1>1, <2>2 DEF ToSet
    <3> QED BY <2>2, <3>1, <3>2 DEF Inv, RefsExact, IOLinked
  <2>4. Untouched /\ phase = "io" /\ phase' = "io" /\ ~quit'
    BY <1>8 DEF dispatch_io_key, StopHere, Goto, tVars, Untouched, ioVars
  <2>5. TypeOK'
    BY <1>8, <2>2, <2>3 DEF dispatch_io_key, Goto, tVars, ioVars, Inv, TypeOK
  <2>6. Standing'
    BY <2>3, <2>4 DEF Inv, Standing, Untouched, ioVars
  <2> QED BY <2>3, <2>4, <2>5, <2>6, StandingStep
<1> QED BY <1>3, <1>4, <1>5, <1>6, <1>7, <1>8 DEF Dispatch

(* Back from a callback, the event is released, and unlinked if nobody     *)
(* holds it any more; the dispatch goes on to another one.                 *)
LEMMA ReturnInv == ASSUME Inv, Return PROVE Inv'
<1>1. /\ timers \in Seq(Timer) /\ ioList \in [PollKey -> Seq(IOEvent)] /\ ioOrder \in Seq(PollKey)
      /\ ref \in [Event -> 0..2] /\ owned \subseteq Event
  BY DEF Inv, TypeOK
<1>2. /\ phase = "callback" /\ cur \in Event /\ ref[cur] > 0
      /\ \A e \in Event : ref[e] = (IF e \in owned THEN 1 ELSE 0) + (IF e = cur THEN 1 ELSE 0)
  BY DEF Return, dispatch_timeout_return, dispatch_io_return, Inv, RefsExact, CountsExact, Holders, Standing
<1>3. CASE dispatch_timeout_return
  <2>1. cur \in Timer /\ cur \in ToSet(timers) /\ IsInjective(timers)
    BY <1>2, <1>3 DEF dispatch_timeout_return, Inv, RefsExact, TimersLinked
  <2>2. cur' = None \/ cur' \in ToSet(timers) \ {cur}
    BY <1>1, <1>3, <2>1, AfterIsOther DEF dispatch_timeout_return
  <2>3. cur' # None => cur' \in Timer /\ cur' # cur /\ ref[cur'] > 0
    <3>1. \A t \in ToSet(timers) : t \in Timer
      BY <1>1 DEF ToSet
    <3> QED BY <2>2, <3>1 DEF Inv, RefsExact, TimersLinked
  <2>4. phase' = "timers" /\ UNCHANGED <<quit, nextTimeout, ioOrder, ioList, snap, revents, ready, wake, regs>>
    BY <1>3 DEF dispatch_timeout_return, ioVars
  <2>5. /\ timers' \in Seq(Timer) /\ TimersLinked' /\ CountsExact'
        /\ ref' \in [Event -> 0..2] /\ owned' \subseteq Event
        /\ \A e \in Event \ {cur} : ref'[e] = ref[e]
        /\ time' \in [Timer -> {"future", "now", "past"}] /\ UNCHANGED <<timeout, repeat>>
    <3>1. CASE Stays(cur)
      <4>1. /\ ref' = [ref EXCEPT ![cur] = ref[cur] - 1] /\ timers' = timers /\ owned' = owned
            /\ time' = [time EXCEPT ![cur] = SetTime(timeout[cur])] /\ UNCHANGED <<timeout, repeat>>
        BY <1>3, <3>1 DEF dispatch_timeout_return
      <4>2. cur \in owned /\ ref[cur] = 2
        BY <1>2, <3>1 DEF Stays
      <4>3. ref' \in [Event -> 0..2] /\ ref'[cur] = 1 /\ \A e \in Event \ {cur} : ref'[e] = ref[e]
        BY <1>1, <1>2, <4>1, <4>2
      <4>4. CountsExact'
        BY <1>2, <2>4, <4>1, <4>2, <4>3 DEF CountsExact, Holders
      <4>5. TimersLinked'
        <5>1. \A t \in Timer : ref'[t] > 0 <=> ref[t] > 0
          BY <4>2, <4>3
        <5> QED BY <4>1, <5>1 DEF Inv, RefsExact, TimersLinked
      <4> QED BY <1>1, <4>1, <4>3, <4>4, <4>5 DEF Inv, TypeOK, SetTime
    <3>2. CASE ~Stays(cur)
      <4>1. ref' = [ref EXCEPT ![cur] = 0] /\ UnlinkTimer(cur) /\ owned' = owned \ {cur}
        BY <1>3, <3>2 DEF dispatch_timeout_return
      <4>2. timers' \in Seq(Timer) /\ TimersLinked'
        BY <1>2, <2>1, <4>1, UnlinkTimerIsExact DEF Inv, RefsExact
      <4>3. ref' \in [Event -> 0..2] /\ ref'[cur] = 0 /\ \A e \in Event \ {cur} : ref'[e] = ref[e]
        BY <1>1, <1>2, <4>1
      <4>4. CountsExact'
        BY <1>2, <2>4, <4>1, <4>3 DEF CountsExact, Holders
      <4> QED BY <1>1, <4>1, <4>2, <4>3, <4>4 DEF Inv, TypeOK, UnlinkTimer
    <3> QED BY <3>1, <3>2
  <2>6. IOLinked'
    <3>1. \A e \in IOEvent : ref'[e] = ref[e]
      BY <2>1, <2>5, EventAssumption
    <3> QED BY <2>4, <3>1 DEF Inv, RefsExact, IOLinked
  <2>7. TypeOK'
    BY <2>3, <2>4, <2>5 DEF Inv, TypeOK
  <2>8. RefsExact'
    BY <2>3, <2>5, <2>6 DEF RefsExact
  <2>9. Standing'
    BY <2>3, <2>4 DEF Inv, Standing
  <2> QED BY <2>7, <2>8, <2>9 DEF Inv
<1>4. CASE dispatch_io_return
  <2> DEFINE k == KeyOf(cur)
  <2>1. cur \in IOEvent /\ IOLinked /\ TypeOK
    BY <1>4 DEF dispatch_io_return, Inv, RefsExact
  <2>2. k \in PollKey /\ cur \in ToSet(ioList[k]) /\ IsInjective(ioList[k])
    BY <1>2, <2>1, KeyOfIsKey DEF IOLinked
  <2>3. cur' = None \/ (~quit /\ cur' \in ToSet(ioList[k]) \ {cur})
    BY <1>1, <1>4, <2>2, AfterIsOther DEF dispatch_io_return, StopHere
  <2>4. cur' # None => cur' \in IOEvent /\ cur' # cur /\ ref[cur'] > 0
    <3>1. \A e \in ToSet(ioList[k]) : e \in IOEvent
      BY <1>1, <2>2 DEF ToSet
    <3> QED BY <2>1, <2>2, <2>3, <3>1 DEF IOLinked
  <2>5. /\ ref' = [ref EXCEPT ![cur] = ref[cur] - 1] /\ phase' = "io"
        /\ UNCHANGED <<quit, nextTimeout, timers, time, timeout, repeat, owned, snap, revents, ready, wake, regs>>
    BY <1>4 DEF dispatch_io_return, RefAfterCall, tVars
  <2>6. /\ ref' \in [Event -> 0..2] /\ ref'[cur] = ref[cur] - 1
        /\ \A e \in Event \ {cur} : ref'[e] = ref[e]
    BY <1>1, <1>2, <2>5
  <2>7. CountsExact'
    BY <1>2, <2>5, <2>6 DEF CountsExact, Holders
  <2>8. TimersLinked'
    <3>1. \A t \in Timer : ref'[t] = ref[t]
      BY <2>1, <2>6, EventAssumption
    <3> QED BY <2>5, <3>1 DEF Inv, RefsExact, TimersLinked
  <2>9. IOLinked' /\ IsInjective(ioOrder') /\ ioList' \in [PollKey -> Seq(IOEvent)] /\ ioOrder' \in Seq(PollKey)
    <3>1. CASE ref[cur] - 1 = 0
      <4>1. UnlinkIO(cur) /\ ref' = [ref EXCEPT ![cur] = 0]
        BY <1>4, <2>5, <3>1 DEF dispatch_io_return, RefAfterCall
      <4> QED BY <1>2, <2>1, <4>1, UnlinkIOIsExact DEF Inv, Standing
    <3>2. CASE ref[cur] - 1 # 0
      <4>1. UNCHANGED <<ioList, ioOrder>>
        BY <1>4, <3>2 DEF dispatch_io_return, RefAfterCall, ioVars
      <4>2. \A e \in IOEvent : ref'[e] > 0 <=> ref[e] > 0
        <5>1. ref[cur] \in 0..2 /\ ref[cur] > 0 /\ ref'[cur] > 0
          BY <1>1, <1>2, <2>6, <3>2
        <5> QED BY <2>6, <5>1
      <4> QED BY <1>1, <2>1, <4>1, <4>2 DEF IOLinked, Inv, Standing
    <3> QED BY <3>1, <3>2
  <2>10. TypeOK'
    BY <2>4, <2>5, <2>6, <2>9 DEF Inv, TypeOK
  <2>11. RefsExact'
    BY <2>4, <2>6, <2>7, <2>8, <2>9 DEF RefsExact
  <2>12. Standing'
    BY <2>3, <2>4, <2>5, <2>9 DEF Standing
  <2> QED BY <2>10, <2>11, <2>12 DEF Inv
<1> QED BY <1>3, <1>4 DEF Return

(* A new event is linked and held by its owner; a removed one is unlinked  *)
(* unless its callback runs.                                               *)
LEMMA TimerOpInv ==
  ASSUME Inv, NEW t \in Timer,
         (\E n \in {0, 1}, r \in BOOLEAN : register_timeout_event(t, n, r)) \/ remove_timeout_event(t)
  PROVE  Inv'
<1>1. /\ timers \in Seq(Timer) /\ ref \in [Event -> 0..2] /\ owned \subseteq Event
      /\ ref[t] = Holders(t) /\ t \notin IOEvent /\ IsInjective(timers)
      /\ \A e \in Event : ref[e] = Holders(e)
  BY EventAssumption DEF Inv, TypeOK, RefsExact, CountsExact, TimersLinked
<1>2. /\ phase \in {"stopped", "callback"} /\ (cur # None <=> phase = "callback")
      /\ UNCHANGED <<phase, quit, nextTimeout, ioOrder, ioList, cur, snap, revents, ready>>
  BY DEF register_timeout_event, remove_timeout_event, UserCode, ioVars, passVars, Inv, Standing
<1>3. CASE \E n \in {0, 1}, r \in BOOLEAN : register_timeout_event(t, n, r)
  <2>1. PICK n \in {0, 1}, r \in BOOLEAN : register_timeout_event(t, n, r)
    BY <1>3
  <2>2. /\ ref[t] = 0 /\ ref' = [ref EXCEPT ![t] = 1] /\ owned' = owned \cup {t} /\ timers' = <<t>> \o timers
    BY <2>1 DEF register_timeout_event, list_prepend
  <2>3. t \notin ToSet(timers) /\ t \notin owned /\ ~(phase = "callback" /\ cur = t)
    BY <1>1, <2>2 DEF Inv, RefsExact, TimersLinked, Holders
  <2>4. timers' \in Seq(Timer) /\ ToSet(timers') = ToSet(timers) \cup {t} /\ IsInjective(timers')
    BY <1>1, <2>2, <2>3, PrependIsLink
  <2>5. ref' \in [Event -> 0..2] /\ ref'[t] = 1 /\ \A e \in Event \ {t} : ref'[e] = ref[e]
    BY <1>1, <2>2
  <2>6. CountsExact'
    BY <1>1, <1>2, <2>2, <2>3, <2>5 DEF CountsExact, Holders
  <2>7. TimersLinked'
    BY <2>4, <2>5 DEF Inv, RefsExact, TimersLinked
  <2>8. IOLinked'
    <3>1. \A e \in IOEvent : ref'[e] = ref[e]
      BY <1>1, <2>5
    <3> QED BY <1>2, <3>1 DEF Inv, RefsExact, IOLinked
  <2>9. TypeOK'
    <3>1. /\ time' \in [Timer -> {"future", "now", "past"}] /\ timeout' \in [Timer -> {0, 1}]
          /\ repeat' \in [Timer -> BOOLEAN]
      BY <2>1 DEF register_timeout_event, SetTime, Inv, TypeOK
    <3>2. wake' \in BOOLEAN /\ regs' \in 0..MaxReg
      BY <2>1, BoundAssumption DEF register_timeout_event, Inv, TypeOK
    <3> QED BY <1>1, <1>2, <2>2, <2>4, <2>5, <3>1, <3>2 DEF Inv, TypeOK
  <2>10. cur' # None => ref'[cur'] > 0
    <3>1. cur # None => cur \in Event /\ ref[cur] > 0
      BY DEF Inv, RefsExact, TypeOK
    <3>2. cur' = cur
      BY <1>2
    <3> QED BY <2>5, <3>1, <3>2
  <2>11. Standing'
    BY <1>2 DEF Inv, Standing
  <2> QED BY <2>6, <2>7, <2>8, <2>9, <2>10, <2>11 DEF Inv, RefsExact
<1>4. CASE remove_timeout_event(t)
  <2>1. /\ t \in owned /\ owned' = owned \ {t} /\ ref' = [ref EXCEPT ![t] = ref[t] - 1]
        /\ IF ref[t] - 1 = 0 THEN UnlinkTimer(t) ELSE UNCHANGED <<timers, time, timeout, repeat>>
        /\ UNCHANGED <<wake, regs>>
    BY <1>4 DEF remove_timeout_event, RefAfterRemove, tVars
  <2>2. ref[t] = IF phase = "callback" /\ cur = t THEN 2 ELSE 1
    BY <1>1, <2>1 DEF Holders
  <2>3. ref' \in [Event -> 0..2] /\ ref'[t] = ref[t] - 1 /\ \A e \in Event \ {t} : ref'[e] = ref[e]
    BY <1>1, <2>1, <2>2
  <2>4. CountsExact'
    BY <1>1, <1>2, <2>1, <2>2, <2>3 DEF CountsExact, Holders
  <2>5. TimersLinked' /\ timers' \in Seq(Timer) /\ UNCHANGED <<time, timeout, repeat>>
    <3>1. CASE phase = "callback" /\ cur = t
      <4>1. timers' = timers /\ \A e \in Timer : ref'[e] > 0 <=> ref[e] > 0
        BY <2>1, <2>2, <2>3, <3>1
      <4> QED BY <1>1, <2>1, <2>2, <3>1, <4>1 DEF Inv, RefsExact, TimersLinked
    <3>2. CASE ~(phase = "callback" /\ cur = t)
      <4>1. UnlinkTimer(t) /\ ref' = [ref EXCEPT ![t] = 0] /\ ref[t] > 0
        <5>1. ref[t] = 1 /\ ref[t] - 1 = 0
          BY <2>2, <3>2
        <5> QED BY <2>1, <5>1
      <4> QED BY <4>1, UnlinkTimerIsExact DEF Inv, RefsExact, UnlinkTimer
    <3> QED BY <3>1, <3>2
  <2>6. IOLinked'
    <3>1. \A e \in IOEvent : ref'[e] = ref[e]
      BY <1>1, <2>3
    <3> QED BY <1>2, <3>1 DEF Inv, RefsExact, IOLinked
  <2>7. TypeOK'
    BY <1>1, <1>2, <2>1, <2>3, <2>5 DEF Inv, TypeOK
  <2>8. cur' # None => ref'[cur'] > 0
    BY <1>2, <2>2, <2>3 DEF Inv, RefsExact, TypeOK
  <2>9. Standing'
    BY <1>2 DEF Inv, Standing
  <2> QED BY <2>4, <2>5, <2>6, <2>7, <2>8, <2>9 DEF Inv, RefsExact
<1> QED BY <1>3, <1>4

LEMMA IOOpInv ==
  ASSUME Inv, NEW e \in IOEvent,
         (\E k \in PollKey : register_io_event(e, k)) \/ remove_io_event(e)
  PROVE  Inv'
<1>1. /\ ioList \in [PollKey -> Seq(IOEvent)] /\ ioOrder \in Seq(PollKey) /\ ref \in [Event -> 0..2]
      /\ owned \subseteq Event /\ ref[e] = Holders(e) /\ e \notin Timer /\ IsInjective(ioOrder)
      /\ \A x \in Event : ref[x] = Holders(x)
  BY EventAssumption DEF Inv, TypeOK, RefsExact, CountsExact, Standing
<1>2. /\ phase \in {"stopped", "callback"} /\ (cur # None <=> phase = "callback")
      /\ UNCHANGED <<phase, quit, nextTimeout, timers, time, timeout, repeat, cur, snap, revents, ready>>
  BY DEF register_io_event, remove_io_event, UserCode, tVars, passVars, Inv, Standing
<1>3. CASE \E k \in PollKey : register_io_event(e, k)
  <2>1. PICK k \in PollKey : register_io_event(e, k)
    BY <1>3
  <2>2. /\ ref[e] = 0 /\ ref' = [ref EXCEPT ![e] = 1] /\ owned' = owned \cup {e}
        /\ ioOrder' = IF ioList[k] = <<>> THEN Append(ioOrder, k) ELSE ioOrder
        /\ ioList' = [ioList EXCEPT ![k] = Append(ioList[k], e)]
    BY <2>1 DEF register_io_event, list_append
  <2>3. /\ e \notin owned /\ ~(phase = "callback" /\ cur = e)
        /\ \A l \in PollKey : e \notin ToSet(ioList[l])
    <3>1. ~(ref[e] > 0)
      BY <2>2
    <3>2. \A l \in PollKey : e \notin ToSet(ioList[l])
      BY <3>1 DEF Inv, RefsExact, IOLinked
    <3> QED BY <1>1, <2>2, <3>2 DEF Holders
  <2>4. ref' \in [Event -> 0..2] /\ ref'[e] = 1 /\ \A x \in Event \ {e} : ref'[x] = ref[x]
    BY <1>1, <2>2
  <2>5. CountsExact'
    BY <1>1, <1>2, <2>2, <2>3, <2>4 DEF CountsExact, Holders
  <2>6. TimersLinked'
    <3>1. \A t \in Timer : ref'[t] = ref[t]
      BY <1>1, <2>4
    <3> QED BY <1>2, <3>1 DEF Inv, RefsExact, TimersLinked
  <2>7. /\ Append(ioList[k], e) \in Seq(IOEvent) /\ IsInjective(Append(ioList[k], e))
        /\ ToSet(Append(ioList[k], e)) = ToSet(ioList[k]) \cup {e}
    BY <1>1, <2>3, AppendIsLink DEF Inv, RefsExact, IOLinked
  <2>8. /\ ioList' \in [PollKey -> Seq(IOEvent)] /\ ioList'[k] = Append(ioList[k], e)
        /\ \A l \in PollKey \ {k} : ioList'[l] = ioList[l]
    BY <1>1, <2>2, <2>7
  <2>9. /\ ioOrder' \in Seq(PollKey) /\ IsInjective(ioOrder') /\ ToSet(ioOrder') = ToSet(ioOrder) \cup {k}
    <3>1. k \in ToSet(ioOrder) <=> ioList[k] # <<>>
      BY DEF Inv, RefsExact, IOLinked
    <3> QED BY <1>1, <2>2, <3>1, AppendIsLink
  <2>10. IOLinked'
    <3>1. \A x \in IOEvent : (\E l \in PollKey : x \in ToSet(ioList'[l])) <=> ref'[x] > 0
      <4>1. \A x \in IOEvent \ {e}, l \in PollKey : x \in ToSet(ioList'[l]) <=> x \in ToSet(ioList[l])
        BY <2>7, <2>8
      <4>2. e \in ToSet(ioList'[k])
        BY <2>7, <2>8
      <4> QED BY <2>4, <4>1, <4>2 DEF Inv, RefsExact, IOLinked
    <3>2. \A l, m \in PollKey : l # m => ToSet(ioList'[l]) \cap ToSet(ioList'[m]) = {}
      <4>1. \A l \in PollKey : l # k => ToSet(ioList'[k]) \cap ToSet(ioList'[l]) = {}
        <5>1. \A l \in PollKey : l # k => ToSet(ioList[k]) \cap ToSet(ioList[l]) = {} /\ e \notin ToSet(ioList[l])
          BY <2>3 DEF Inv, RefsExact, IOLinked
        <5>2. ToSet(ioList'[k]) = ToSet(ioList[k]) \cup {e}
          BY <2>7, <2>8
        <5>3. \A l \in PollKey : l # k => ToSet(ioList'[l]) = ToSet(ioList[l])
          BY <2>8
        <5> QED BY <5>1, <5>2, <5>3
      <4>2. \A l, m \in PollKey \ {k} : l # m => ToSet(ioList'[l]) \cap ToSet(ioList'[m]) = {}
        BY <2>8 DEF Inv, RefsExact, IOLinked
      <4> QED BY <4>1, <4>2
    <3>3. ioList'[k] # <<>>
      <4>1. ToSet(<<>>) = {}
        BY DEF ToSet
      <4> QED BY <2>7, <2>8, <4>1
    <3>4. \A l \in PollKey : IsInjective(ioList'[l]) /\ (l \in ToSet(ioOrder') <=> ioList'[l] # <<>>)
      BY <2>7, <2>8, <2>9, <3>3 DEF Inv, RefsExact, IOLinked
    <3> QED BY <3>1, <3>2, <3>4 DEF IOLinked
  <2>11. TypeOK'
    <3>1. wake' \in BOOLEAN /\ regs' \in 0..MaxReg
      BY <2>1, BoundAssumption DEF register_io_event, Inv, TypeOK
    <3> QED BY <1>1, <1>2, <2>2, <2>4, <2>8, <2>9, <3>1 DEF Inv, TypeOK
  <2>12. cur' # None => ref'[cur'] > 0
    <3>1. cur # None => cur \in Event /\ ref[cur] > 0
      BY DEF Inv, RefsExact, TypeOK
    <3>2. cur' = cur
      BY <1>2
    <3> QED BY <2>4, <3>1, <3>2
  <2>13. Standing'
    BY <1>2, <2>9 DEF Inv, Standing
  <2> QED BY <2>5, <2>6, <2>10, <2>11, <2>12, <2>13 DEF Inv, RefsExact
<1>4. CASE remove_io_event(e)
  <2>1. /\ e \in owned /\ owned' = owned \ {e} /\ ref' = [ref EXCEPT ![e] = ref[e] - 1]
        /\ IF ref[e] - 1 = 0 THEN UnlinkIO(e) ELSE UNCHANGED <<ioOrder, ioList>>
        /\ UNCHANGED <<wake, regs>>
    BY <1>4 DEF remove_io_event, RefAfterRemove, ioVars
  <2>2. ref[e] = IF phase = "callback" /\ cur = e THEN 2 ELSE 1
    BY <1>1, <2>1 DEF Holders
  <2>3. ref' \in [Event -> 0..2] /\ ref'[e] = ref[e] - 1 /\ \A x \in Event \ {e} : ref'[x] = ref[x]
    BY <1>1, <2>1, <2>2
  <2>4. CountsExact'
    BY <1>1, <1>2, <2>1, <2>2, <2>3 DEF CountsExact, Holders
  <2>5. IOLinked' /\ IsInjective(ioOrder') /\ ioList' \in [PollKey -> Seq(IOEvent)] /\ ioOrder' \in Seq(PollKey)
    <3>1. CASE phase = "callback" /\ cur = e
      <4>1. UNCHANGED <<ioOrder, ioList>> /\ \A x \in IOEvent : ref'[x] > 0 <=> ref[x] > 0
        BY <2>1, <2>2, <2>3, <3>1
      <4> QED BY <1>1, <4>1 DEF Inv, RefsExact, IOLinked
    <3>2. CASE ~(phase = "callback" /\ cur = e)
      <4>1. UnlinkIO(e) /\ ref' = [ref EXCEPT ![e] = 0] /\ ref[e] > 0
        <5>1. ref[e] = 1 /\ ref[e] - 1 = 0
          BY <2>2, <3>2
        <5> QED BY <2>1, <5>1
      <4> QED BY <1>1, <4>1, UnlinkIOIsExact DEF Inv, RefsExact
    <3> QED BY <3>1, <3>2
  <2>6. TimersLinked'
    <3>1. \A t \in Timer : ref'[t] = ref[t]
      BY <1>1, <2>3
    <3> QED BY <1>2, <3>1 DEF Inv, RefsExact, TimersLinked
  <2>7. TypeOK'
    BY <1>1, <1>2, <2>1, <2>3, <2>5 DEF Inv, TypeOK
  <2>8. cur' # None => ref'[cur'] > 0
    BY <1>2, <2>2, <2>3 DEF Inv, RefsExact, TypeOK
  <2>9. Standing'
    BY <1>2, <2>5 DEF Inv, Standing
  <2> QED BY <2>4, <2>5, <2>6, <2>7, <2>8, <2>9 DEF Inv, RefsExact
<1> QED BY <1>3, <1>4

LEMMA FreeInv == ASSUME Inv, mainloop_free PROVE Inv'
<1>1. ToSet(<<>>) = {} /\ IsInjective(<<>>)
  BY DEF ToSet, IsInjective
<1>2. /\ phase' = "freed" /\ timers' = <<>> /\ ioOrder' = <<>> /\ cur' = None /\ owned' = {}
      /\ ioList' = [k \in PollKey |-> <<>>] /\ ref' = [e \in Event |-> 0]
      /\ UNCHANGED <<quit, nextTimeout, time, timeout, repeat, snap, revents, ready, wake, regs>>
  BY DEF mainloop_free, passVars, Inv, Standing
<1>3. ioList' \in [PollKey -> Seq(IOEvent)] /\ ref' \in [Event -> 0..2]
  <2>1. <<>> \in Seq(IOEvent)
    OBVIOUS
  <2> QED BY <1>2, <2>1
<1>4. TypeOK'
  BY <1>2, <1>3 DEF Inv, TypeOK
<1>5. CountsExact' /\ TimersLinked'
  BY <1>1, <1>2 DEF CountsExact, TimersLinked, Holders
<1>6. IOLinked'
  <2>1. (\A k \in PollKey : ioList'[k] = <<>>) /\ \A e \in IOEvent : ref'[e] = 0
    BY <1>2
  <2> QED BY <1>1, <1>2, <2>1 DEF IOLinked
<1>7. Standing'
  BY <1>1, <1>2 DEF Standing
<1> QED BY <1>2, <1>4, <1>5, <1>6, <1>7 DEF Inv, RefsExact

----------------------------------------------------------------------------
LEMMA NextInv == Inv /\ [Next]_vars => Inv'
<1> SUFFICES ASSUME Inv, [Next]_vars PROVE Inv'
  OBVIOUS
<1>1. CASE Next
  BY <1>1, TimerOpInv, IOOpInv, OutsideInv, TurnInv, DispatchInv, ReturnInv, FreeInv DEF Next
<1>2. CASE UNCHANGED vars
  BY <1>2 DEF Inv, TypeOK, RefsExact, CountsExact, Holders, TimersLinked, IOLinked, Standing,
              vars, tVars, ioVars, passVars
<1> QED BY <1>1, <1>2

LEMMA Invariant == Spec => []Inv
<1> QED BY InitInv, NextInv, PTL DEF Spec

(* Every variable of the loop keeps its type (mainloop.c:33-80).           *)
THEOREM TypeCorrect == Spec => []TypeOK
<1>1. Inv => TypeOK
  BY DEF Inv
<1> QED BY <1>1, Invariant, PTL

(* Reference counts, lists and the position of the dispatch agree whatever *)
(* callbacks register and remove (mainloop.c:212-292, 384-500).            *)
THEOREM ReferencesAreExact == Spec => []RefsExact
<1>1. Inv => RefsExact
  BY DEF Inv
<1> QED BY <1>1, Invariant, PTL

(* A callback that was removed, or is reached after the loop was told to   *)
(* quit, is not called (mainloop.c:226-250, 258-288).                      *)
THEOREM OnlyTheWantedAreCalled == Spec => OnlyWantedIsCalled
<1>1. Inv /\ [Next]_vars => [phase # "callback" /\ phase' = "callback" => ~quit /\ cur \in owned]_vars
  <2> SUFFICES ASSUME Inv, Next, phase # "callback", phase' = "callback"
               PROVE  ~quit /\ cur \in owned
    BY DEF vars
  <2>1. dispatch_timeout_call \/ dispatch_io_call
    BY DEF Next, register_timeout_event, remove_timeout_event, Tick, remove_io_event, register_io_event, mainloop_quit,
           mainloop_run, mainloop_free, mainloop_prepare, mainloop_poll, PollQuit, PollSkipped, PollReturns, PollTimesOut,
           PollInterrupted, EndTurn, Dispatch, dispatch_timeout_begin, dispatch_timeout_end, dispatch_timeout_skip,
           dispatch_io_end, dispatch_io_key, Return, dispatch_timeout_return, dispatch_io_return, BecomesReady, Consume, Goto
  <2>2. ~quit /\ cur # None
    BY <2>1 DEF dispatch_timeout_call, dispatch_io_call, AtTimer, StopHere, Inv, Standing
  <2>3. ref[cur] > 0 /\ ref[cur] = Holders(cur)
    BY <2>2 DEF Inv, RefsExact, CountsExact, TypeOK
  <2> QED BY <2>2, <2>3 DEF Holders
<1> QED BY <1>1, Invariant, PTL DEF Spec, OnlyWantedIsCalled

----------------------------------------------------------------------------
(***************************************************************************)
(* The bus connection on the loop.  The module is called back only while   *)
(* it is up or losing its connection; an event that is being released      *)
(* belongs to a watch that is off or gone; the timer whose callback runs   *)
(* is not the one that is kept.                                            *)
(***************************************************************************)
DBusTypes ==
  /\ added \subseteq Watch /\ enabled \subseteq Watch
  /\ data \in [Watch -> IOEvent \cup {None}]
  /\ watchOf \in [IOEvent -> Watch \cup {None}]
  /\ \A e \in owned \cap IOEvent : watchOf[e] \in Watch
  /\ wakeup_main \in Timer \cup {None}

Stage ==
  /\ phase \notin {"stopped", "freed"} => state \in {"up", "lost"}
  /\ state \in {"none", "destroyed"} => added = {}
  /\ state \in {"none", "setup"} => wakeup_main = None

Releasing ==
  phase = "callback" =>
    /\ cur \in IOEvent /\ cur \notin owned => watchOf[cur] \notin added \cap enabled
    /\ cur \in Timer => wakeup_main # cur

DBusInv == DBusTypes /\ Stage /\ Releasing /\ WatchesExact /\ WakeupLive

(* A new event for a watch that had none, and the removal of the event of  *)
(* a watch.                                                                *)
LEMMA WatchIsLinked ==
  ASSUME Inv, DBusTypes, WatchesExact, NEW w \in Watch, NEW e \in IOEvent, register_io_event(e, w),
         data' = [data EXCEPT ![w] = e], watchOf' = [watchOf EXCEPT ![e] = w],
         w \notin added \cap enabled, w \in (added \cap enabled)',
         \A v \in Watch \ {w} : v \in added \cap enabled <=> v \in (added \cap enabled)'
  PROVE  WatchesExact'
<1>1. /\ ref[e] = 0 /\ e \notin owned /\ owned' = owned \cup {e}
      /\ ref' = [ref EXCEPT ![e] = 1] /\ ref \in [Event -> 0..2]
  BY DEF register_io_event, Inv, TypeOK, RefsExact, CountsExact, Holders
<1>2. ref'[e] = 1 /\ \A x \in IOEvent \ {e} : ref'[x] = ref[x]
  BY <1>1
<1>3. watchOf'[e] = w /\ \A x \in IOEvent \ {e} : watchOf'[x] = watchOf[x]
  BY DEF DBusTypes
<1>4. data'[w] = e /\ \A v \in Watch \ {w} : data'[v] = data[v]
  BY DEF DBusTypes
<1>5. EventsOf(w) = {}
  BY DEF WatchesExact
<1>6. EventsOf(w)' = {e}
  BY <1>1, <1>3, <1>5 DEF EventsOf
<1>7. \A v \in Watch \ {w} : EventsOf(v)' = EventsOf(v)
  BY <1>1, <1>3 DEF EventsOf
<1>8. \A v \in Watch \ {w} : data[v] # None => data[v] \in IOEvent \ {e}
  BY <1>1 DEF WatchesExact, DBusTypes
<1>9. ASSUME NEW v \in Watch \ {w}, data'[v] # None PROVE ref'[data'[v]] > 0 /\ watchOf'[data'[v]] = v
  BY <1>2, <1>3, <1>4, <1>8, <1>9 DEF WatchesExact
<1>10. \A v \in Watch \ {w} :
         /\ v \in (added \cap enabled)' => EventsOf(v)' = {data'[v]}
         /\ v \notin (added \cap enabled)' => EventsOf(v)' = {}
  BY <1>4, <1>7 DEF WatchesExact
<1> QED BY <1>2, <1>3, <1>4, <1>6, <1>9, <1>10 DEF WatchesExact

LEMMA WatchIsUnlinked ==
  ASSUME Inv, DBusTypes, WatchesExact, NEW w \in Watch, remove_dbus_watch(w),
         w \notin (added \cap enabled)',
         \A v \in Watch \ {w} : v \in added \cap enabled <=> v \in (added \cap enabled)'
  PROVE  WatchesExact'
<1>1. CASE data[w] = None
  <2>1. UNCHANGED <<ref, owned, data, watchOf>>
    BY <1>1 DEF remove_dbus_watch, vars
  <2>2. None \notin owned
    BY EventAssumption DEF Inv, TypeOK
  <2>3. EventsOf(w) = {}
    BY <1>1, <2>2 DEF WatchesExact, EventsOf
  <2> QED BY <1>1, <2>1, <2>3 DEF WatchesExact, EventsOf
<1>2. CASE data[w] # None
  <2> DEFINE e == data[w]
  <2>1. /\ e \in IOEvent /\ watchOf[e] = w /\ e \in owned /\ owned' = owned \ {e} /\ watchOf' = watchOf
        /\ ref' = [ref EXCEPT ![e] = ref[e] - 1] /\ ref \in [Event -> 0..2] /\ ref[e] \in {1, 2}
        /\ data' = IF ref[e] - 1 = 0 THEN [data EXCEPT ![w] = None] ELSE data
    BY <1>2 DEF remove_dbus_watch, remove_io_event, DataAfterRemove, DataAfterNotify, RefAfterRemove, WatchesExact, DBusTypes,
          Inv, TypeOK, RefsExact, CountsExact, Holders
  <2> HIDE DEF e
  <2>2. EventsOf(w)' = {}
    <3>1. e \in EventsOf(w)
      BY <2>1 DEF EventsOf
    <3>2. EventsOf(w) = {e}
      BY <3>1 DEF WatchesExact, e
    <3> QED BY <2>1, <3>2 DEF EventsOf
  <2>3. \A v \in Watch \ {w} : EventsOf(v)' = EventsOf(v)
    BY <2>1 DEF EventsOf
  <2>4. /\ \A v \in Watch \ {w} : data'[v] = data[v]
        /\ data'[w] = IF ref[e] - 1 = 0 THEN None ELSE e
    BY <2>1 DEF DBusTypes, e
  <2>5. ref'[e] = ref[e] - 1 /\ \A x \in IOEvent \ {e} : ref'[x] = ref[x]
    BY <2>1
  <2>6. data'[w] # None => ref'[data'[w]] > 0 /\ watchOf'[data'[w]] = w
    BY <2>1, <2>4, <2>5
  <2>7. ASSUME NEW v \in Watch \ {w}, data'[v] # None PROVE ref'[data'[v]] > 0 /\ watchOf'[data'[v]] = v
    <3>1. data[v] \in IOEvent /\ watchOf[data[v]] = v /\ ref[data[v]] > 0
      BY <2>4, <2>7 DEF WatchesExact, DBusTypes
    <3> QED BY <2>1, <2>4, <2>5, <3>1
  <2>8. \A v \in Watch \ {w} :
          /\ v \in (added \cap enabled)' => EventsOf(v)' = {data'[v]}
          /\ v \notin (added \cap enabled)' => EventsOf(v)' = {}
    BY <2>3, <2>4 DEF WatchesExact
  <2> QED BY <2>2, <2>6, <2>7, <2>8 DEF WatchesExact
<1> QED BY <1>1, <1>2

(* Steps that neither register nor remove an IO event.                     *)
LEMMA WatchesKept ==
  ASSUME DBusTypes, WatchesExact, UNCHANGED <<data, watchOf>>, (added \cap enabled)' = added \cap enabled,
         \A e \in IOEvent : (e \in owned' <=> e \in owned) /\ (ref[e] > 0 => ref'[e] > 0)
  PROVE  WatchesExact'
<1>1. \A w \in Watch : EventsOf(w)' = EventsOf(w)
  BY DEF EventsOf
<1>2. \A w \in Watch : data[w] # None => data[w] \in IOEvent
  BY DEF DBusTypes
<1> QED BY <1>1, <1>2 DEF WatchesExact

(* The steps of the library, and the rest.                                 *)
LEMMA LibraryPairs ==
  ASSUME Inv, DBusInv,
         \E w \in Watch : LibraryAddsWatch(w) \/ LibraryTakesWatch(w) \/ toggle_dbus_watch(w)
  PROVE  [Next]_vars /\ DBusInv'
<1> PICK w \in Watch : LibraryAddsWatch(w) \/ LibraryTakesWatch(w) \/ toggle_dbus_watch(w)
  OBVIOUS
<1>1. DBusTypes /\ WatchesExact /\ Stage /\ Releasing /\ WakeupLive
  BY DEF DBusInv
<1>2. \/ \E e \in IOEvent : /\ register_io_event(e, w) /\ w \in enabled' /\ w \in added'
                            /\ data' = [data EXCEPT ![w] = e] /\ watchOf' = [watchOf EXCEPT ![e] = w]
                            /\ w \notin added \cap enabled /\ (OwnCallback(w) => cur \in owned)
      \/ remove_dbus_watch(w) /\ w \notin (added \cap enabled)'
      \/ UNCHANGED <<vars, data, watchOf>> /\ w \notin (added \cap enabled)' /\ w \notin added
  <2>1. CASE LibraryAddsWatch(w)
    <3>1. ~(phase = "callback")
      BY <1>1, <2>1 DEF LibraryAddsWatch, Stage
    <3>2. CASE w \in enabled
      BY <2>1, <3>1, <3>2 DEF LibraryAddsWatch, add_dbus_watch, Registers, OwnCallback
    <3>3. CASE w \notin enabled
      BY <2>1, <3>3 DEF LibraryAddsWatch, add_dbus_watch, Registers
    <3> QED BY <3>2, <3>3
  <2>2. CASE LibraryTakesWatch(w)
    BY <2>2 DEF LibraryTakesWatch
  <2>3. CASE toggle_dbus_watch(w)
    <3>1. CASE w \in enabled
      BY <2>3, <3>1 DEF toggle_dbus_watch
    <3>2. CASE w \notin enabled
      BY <2>3, <3>2 DEF toggle_dbus_watch, add_dbus_watch, Registers, LibraryMaySwitch
    <3> QED BY <3>1, <3>2
  <2> QED BY <2>1, <2>2, <2>3
<1>3. /\ \A v \in Watch \ {w} : v \in added \cap enabled <=> v \in (added \cap enabled)'
      /\ wakeup_main' = wakeup_main /\ state' = state /\ state \in {"setup", "up", "lost", "ending"}
      /\ added' \subseteq Watch /\ enabled' \subseteq Watch
  BY <1>1 DEF LibraryAddsWatch, LibraryTakesWatch, toggle_dbus_watch, DBusTypes
<1>4. CASE \E e \in IOEvent : /\ register_io_event(e, w) /\ w \in enabled' /\ w \in added'
                              /\ data' = [data EXCEPT ![w] = e] /\ watchOf' = [watchOf EXCEPT ![e] = w]
                              /\ w \notin added \cap enabled /\ (OwnCallback(w) => cur \in owned)
  <2> PICK e \in IOEvent : /\ register_io_event(e, w) /\ w \in enabled' /\ w \in added'
                           /\ data' = [data EXCEPT ![w] = e] /\ watchOf' = [watchOf EXCEPT ![e] = w]
                           /\ w \notin added \cap enabled /\ (OwnCallback(w) => cur \in owned)
    BY <1>4
  <2>1. /\ phase' = phase /\ cur' = cur /\ owned' = owned \cup {e} /\ ref[e] = 0 /\ (phase = "callback" => cur # e)
    BY DEF register_io_event, passVars, Inv, RefsExact, CountsExact, Holders
  <2>2. Next
    BY DEF Next, Watch
  <2>3. WatchesExact'
    BY <1>1, <1>3, WatchIsLinked
  <2>4. DBusTypes'
    <3>1. \A x \in owned' \cap IOEvent : watchOf'[x] \in Watch
      BY <1>1, <2>1 DEF DBusTypes
    <3> QED BY <1>1, <1>3, <3>1 DEF DBusTypes
  <2>5. Stage' /\ WakeupLive'
    BY <1>1, <1>3, <2>1 DEF Stage, WakeupLive
  <2>6. Releasing'
    <3>1. phase = "callback" /\ cur \in IOEvent /\ cur \notin owned => watchOf[cur] # w /\ watchOf'[cur] = watchOf[cur]
      BY <1>1, <2>1 DEF OwnCallback, DBusTypes
    <3>2. watchOf[cur] \in added' \cap enabled' /\ watchOf[cur] # w => watchOf[cur] \in added \cap enabled
      BY <1>3
    <3> QED BY <1>1, <1>3, <2>1, <3>1, <3>2 DEF Releasing
  <2> QED BY <2>2, <2>3, <2>4, <2>5, <2>6 DEF DBusInv
<1>5. CASE remove_dbus_watch(w) /\ w \notin (added \cap enabled)'
  <2>1. WatchesExact'
    BY <1>1, <1>3, <1>5, WatchIsUnlinked
  <2>2. \/ UNCHANGED vars /\ data' = data
        \/ data[w] \in IOEvent /\ watchOf[data[w]] = w /\ remove_io_event(data[w]) /\ data' = DataAfterRemove(data[w])
    BY <1>1, <1>5 DEF remove_dbus_watch, DBusTypes, WatchesExact
  <2>3. /\ [Next]_vars /\ phase' = phase /\ cur' = cur /\ watchOf' = watchOf
        /\ owned' = owned \/ (data[w] \in IOEvent /\ watchOf[data[w]] = w /\ owned' = owned \ {data[w]})
    BY <1>5, <2>2 DEF Next, remove_dbus_watch, remove_io_event, vars, passVars
  <2>4. DBusTypes'
    BY <1>1, <1>3, <2>2, <2>3 DEF DBusTypes, DataAfterRemove, DataAfterNotify
  <2>5. Stage' /\ WakeupLive'
    BY <1>1, <1>3, <2>3, EventAssumption DEF Stage, WakeupLive, DBusTypes
  <2>6. Releasing'
    <3>1. ASSUME phase = "callback", cur \in IOEvent, cur \notin owned'
          PROVE  watchOf[cur] \notin (added \cap enabled)'
      <4>1. watchOf[cur] = w \/ cur \notin owned
        BY <2>3, <3>1
      <4> QED BY <1>1, <1>3, <1>5, <3>1, <4>1 DEF Releasing, DBusTypes
    <3> QED BY <1>1, <1>3, <2>3, <3>1 DEF Releasing
  <2> QED BY <2>1, <2>3, <2>4, <2>5, <2>6 DEF DBusInv
<1>6. CASE UNCHANGED <<vars, data, watchOf>> /\ w \notin (added \cap enabled)' /\ w \notin added
  <2>1. (added \cap enabled)' = added \cap enabled
    BY <1>1, <1>3, <1>6 DEF DBusTypes
  <2>2. UNCHANGED <<phase, cur, owned, ref>>
    BY <1>6 DEF vars, passVars
  <2>3. WatchesExact'
    BY <1>1, <1>6, <2>1, <2>2, WatchesKept
  <2>4. DBusTypes' /\ Stage' /\ WakeupLive' /\ Releasing'
    BY <1>1, <1>3, <1>6, <2>1, <2>2 DEF DBusTypes, Stage, WakeupLive, Releasing
  <2> QED BY <1>6, <2>3, <2>4 DEF DBusInv
<1> QED BY <1>2, <1>4, <1>5, <1>6

ModuleSteps ==
  \/ setup_connection \/ SetUp \/ ConnectionBreaks \/ Destroyed \/ dbus_destroy \/ Free
  \/ LibraryTellsEnd \/ \E m \in {"call", Ends} : Receive(m)

LEMMA ModulePairs == ASSUME Inv, DBusInv, ModuleSteps PROVE [Next]_vars /\ DBusInv'
<1>1. DBusTypes /\ WatchesExact /\ Stage /\ Releasing /\ WakeupLive
  BY DEF DBusInv
<1>2. CASE setup_connection \/ SetUp \/ Destroyed \/ ConnectionBreaks
  <2>1. UNCHANGED <<vars, added, enabled, data, watchOf, wakeup_main>>
        /\ (phase \notin {"stopped", "freed"} => state' \in {"up", "lost"})
        /\ (state' \in {"none", "destroyed"} => added = {}) /\ (state' \in {"none", "setup"} => wakeup_main = None)
        /\ (wakeup_main # None /\ state' \notin {"ending", "destroyed"} => state \notin {"ending", "destroyed"})
    BY <1>1, <1>2 DEF setup_connection, SetUp, Destroyed, ConnectionBreaks, Connected, Stage
  <2>2. UNCHANGED <<phase, cur, owned, ref>>
    BY <2>1 DEF vars, passVars
  <2>3. WatchesExact'
    BY <1>1, <2>1, <2>2, WatchesKept
  <2>4. DBusTypes' /\ Stage' /\ Releasing' /\ WakeupLive'
    BY <1>1, <2>1, <2>2 DEF DBusTypes, Stage, Releasing, WakeupLive
  <2> QED BY <2>1, <2>3, <2>4 DEF DBusInv
<1>3. CASE LibraryTellsEnd \/ \E m \in {"call", Ends} : Receive(m)
  <2>1. PICK t \in Timer : register_timeout_event(t, 0, FALSE) /\ wakeup_main' = t
    BY <1>3 DEF LibraryTellsEnd, Receive, CanReceive, Connected, wakeup, WakesUp
  <2>2. Next
    BY <2>1 DEF Next
  <2>3. /\ state \in {"up", "lost"} /\ state' = "up" /\ UNCHANGED <<added, enabled, data, watchOf, phase, cur>>
        /\ owned' = owned \cup {t} /\ ref[t] = 0 /\ ref' = [ref EXCEPT ![t] = 1] /\ ref \in [Event -> 0..2]
    BY <1>3, <2>1 DEF LibraryTellsEnd, Receive, CanReceive, Connected, register_timeout_event, passVars, Inv, TypeOK
  <2>4. t \notin IOEvent /\ (phase = "callback" => cur # t)
    BY <2>3, EventAssumption DEF Inv, RefsExact, Standing
  <2>5. WatchesExact'
    BY <1>1, <2>3, <2>4, WatchesKept
  <2>6. DBusTypes' /\ Stage' /\ Releasing' /\ WakeupLive'
    BY <1>1, <2>1, <2>3, <2>4 DEF DBusTypes, Stage, Releasing, WakeupLive
  <2> QED BY <2>2, <2>5, <2>6 DEF DBusInv
<1>4. CASE dbus_destroy
  <2>1. /\ state' = "ending" /\ phase = "stopped" /\ UNCHANGED <<added, enabled, data, watchOf, wakeup_main>>
        /\ UNCHANGED vars \/ (wakeup_main \in Timer /\ remove_timeout_event(wakeup_main))
    BY <1>1, <1>4 DEF dbus_destroy, DBusTypes
  <2>2. /\ [Next]_vars
        /\ phase' = phase
        /\ \A e \in IOEvent : (e \in owned' <=> e \in owned) /\ ref'[e] = ref[e]
    BY <2>1, EventAssumption DEF Next, remove_timeout_event, vars, Inv, TypeOK
  <2>3. WatchesExact'
    BY <1>1, <2>1, <2>2, WatchesKept
  <2>4. DBusTypes' /\ Stage' /\ Releasing' /\ WakeupLive'
    BY <1>1, <2>1, <2>2 DEF DBusTypes, Stage, Releasing, WakeupLive
  <2> QED BY <2>2, <2>3, <2>4 DEF DBusInv
<1>5. CASE Free
  <2>1. /\ mainloop_free /\ state \in {"none", "destroyed"} /\ added = {} /\ phase = "stopped" /\ phase' = "freed"
        /\ UNCHANGED dbusVars /\ owned' = {}
    BY <1>1, <1>5 DEF Free, Quietly, mainloop_free, Stage
  <2>2. UNCHANGED <<state, added, enabled, data, watchOf, wakeup_main>>
    BY <2>1 DEF dbusVars
  <2>3. \A w \in Watch : data[w] = None
    <3>1. \A w \in Watch : EventsOf(w) = {}
      BY <1>1, <2>1 DEF WatchesExact
    <3>2. ASSUME NEW w \in Watch, data[w] # None PROVE FALSE
      <4>1. data[w] \in IOEvent /\ ref[data[w]] > 0 /\ watchOf[data[w]] = w
        BY <1>1, <3>2 DEF WatchesExact, DBusTypes
      <4>2. data[w] \in owned
        BY <2>1, <4>1 DEF Inv, RefsExact, CountsExact, Holders
      <4> QED BY <3>1, <4>1, <4>2 DEF EventsOf
    <3> QED BY <3>2
  <2>4. WatchesExact'
    BY <2>1, <2>2, <2>3 DEF WatchesExact, EventsOf
  <2>5. DBusTypes' /\ Stage' /\ Releasing' /\ WakeupLive'
    BY <1>1, <2>1, <2>2 DEF DBusTypes, Stage, Releasing, WakeupLive
  <2> QED BY <2>1, <2>4, <2>5 DEF DBusInv, Next
<1> QED BY <1>2, <1>3, <1>4, <1>5 DEF ModuleSteps

TurnSteps ==
  \/ Run \/ CallTimer \/ dbus_dispatch \/ ReturnFromTimer \/ ReturnFromIO \/ Quietly(LoopTurns)
  \/ \E w \in Watch : Quietly(BecomesReady(w)) \/ Quietly(Consume(w))

LEMMA TurnPairs == ASSUME Inv, DBusInv, TurnSteps PROVE [Next]_vars /\ DBusInv'
<1>1. DBusTypes /\ WatchesExact /\ Stage /\ Releasing /\ WakeupLive
  BY DEF DBusInv
<1>2. ref \in [Event -> 0..2] /\ cur \in Event \cup {None} /\ (cur # None => ref[cur] > 0)
  BY DEF Inv, TypeOK, RefsExact
<1>3. CASE Run \/ CallTimer \/ Quietly(LoopTurns) \/ \E w \in Watch : Quietly(BecomesReady(w)) \/ Quietly(Consume(w))
  <2>1. /\ UNCHANGED <<state, added, enabled, data, watchOf>> /\ wakeup_main' \in {wakeup_main, None}
        /\ Next
    BY <1>3 DEF Run, CallTimer, WakeupMainAtDispatch, LoopTurns, Quietly, dbusVars, Next, Dispatch, Watch
  <2>2. owned' = owned /\ \A e \in IOEvent : ref[e] > 0 => ref'[e] > 0
    BY <1>2, <1>3 DEF Run, CallTimer, Quietly, LoopTurns, mainloop_run, mainloop_prepare, mainloop_poll, PollQuit, PollSkipped,
          PollReturns, PollTimesOut, PollInterrupted, EndTurn, Goto, dispatch_timeout_begin, dispatch_timeout_end,
          dispatch_timeout_skip, dispatch_timeout_call, dispatch_io_end, dispatch_io_key, dispatch_io_call, BecomesReady, Consume
  <2>3. state \in {"up", "lost"} \/ (phase' = phase /\ phase # "callback")
    BY <1>1, <1>3 DEF Run, CallTimer, Quietly, LoopTurns, mainloop_prepare, mainloop_poll, PollQuit, PollSkipped,
          PollReturns, PollTimesOut, PollInterrupted, Polling, dispatch_timeout_begin, dispatch_timeout_end,
          dispatch_timeout_skip, dispatch_timeout_call, AtTimer, dispatch_io_end, dispatch_io_key, dispatch_io_call,
          BecomesReady, Consume, Stage
  <2>4. \/ phase' = phase /\ cur' = cur /\ wakeup_main' = wakeup_main
        \/ phase' # "callback"
        \/ CallTimer /\ cur' = cur /\ cur \in Timer /\ wakeup_main' = None
        \/ dispatch_io_call /\ cur' = cur /\ cur \in IOEvent /\ cur \in owned
    <3>1. CASE Run
      BY <3>1 DEF Run, Quietly, mainloop_run, Goto
    <3>2. CASE CallTimer
      BY <1>2, <3>2 DEF CallTimer, WakeupMainAtDispatch, dispatch_timeout_call, AtTimer, passVars, Inv, Standing
    <3>3. CASE Quietly(LoopTurns)
      <4>1. CASE dispatch_io_call
        <5>1. phase = "io" /\ cur # None /\ cur' = cur /\ cur \in IOEvent
          BY <4>1 DEF dispatch_io_call, passVars, Inv, Standing
        <5>2. cur \in owned
          BY <1>2, <5>1 DEF Inv, RefsExact, CountsExact, Holders
        <5> QED BY <4>1, <5>1, <5>2
      <4>2. CASE ~dispatch_io_call
        BY <3>3, <4>2 DEF Quietly, LoopTurns, mainloop_prepare, mainloop_poll, PollQuit, PollSkipped,
              PollReturns, PollTimesOut, PollInterrupted, EndTurn, Goto, dispatch_timeout_begin, dispatch_timeout_end,
              dispatch_timeout_skip, dispatch_io_end, dispatch_io_key
      <4> QED BY <4>1, <4>2
    <3>4. CASE \E w \in Watch : Quietly(BecomesReady(w)) \/ Quietly(Consume(w))
      BY <3>4 DEF Quietly, BecomesReady, Consume, passVars, dbusVars
    <3> QED BY <1>3, <3>1, <3>2, <3>3, <3>4
  <2>5. WatchesExact'
    BY <1>1, <2>1, <2>2, WatchesKept
  <2>6. Releasing'
    BY <1>1, <2>1, <2>2, <2>4, EventAssumption DEF Releasing
  <2>7. DBusTypes' /\ Stage' /\ WakeupLive'
    BY <1>1, <2>1, <2>2, <2>3 DEF DBusTypes, Stage, WakeupLive
  <2> QED BY <2>1, <2>5, <2>6, <2>7 DEF DBusInv
<1>4. CASE dbus_dispatch
  <2>1. /\ phase = "callback" /\ quit' = (quit \/ Head(queue) = Ends)
        /\ UNCHANGED <<phase, nextTimeout, tVars, ioVars, ref, owned, passVars, ready, wake, regs>>
        /\ UNCHANGED <<state, added, enabled, data, watchOf, wakeup_main>>
    BY <1>4 DEF dbus_dispatch
  <2>2. quit \in BOOLEAN
    BY DEF Inv, TypeOK
  <2>3. mainloop_quit \/ UNCHANGED vars
    <3>1. CASE ~quit /\ Head(queue) = Ends
      BY <2>1, <3>1 DEF mainloop_quit, UserCode
    <3>2. CASE quit \/ Head(queue) # Ends
      <4>1. quit' = quit
        BY <2>1, <2>2, <3>2
      <4> QED BY <2>1, <4>1 DEF vars
    <3> QED BY <3>1, <3>2
  <2>4. WatchesExact'
    BY <1>1, <2>1, WatchesKept
  <2>5. DBusTypes' /\ Stage' /\ Releasing' /\ WakeupLive'
    BY <1>1, <2>1 DEF DBusTypes, Stage, Releasing, WakeupLive, passVars
  <2> QED BY <2>3, <2>4, <2>5 DEF DBusInv, Next
<1>5. CASE ReturnFromTimer
  <2>1. /\ dispatch_timeout_return /\ phase = "callback" /\ phase' = "timers" /\ cur \in Timer
        /\ UNCHANGED <<state, added, enabled, data, watchOf, wakeup_main>>
        /\ owned' \in {owned, owned \ {cur}} /\ \A e \in IOEvent : ref'[e] = ref[e]
    BY <1>2, <1>5, EventAssumption DEF ReturnFromTimer, Quietly, dbusVars, dispatch_timeout_return
  <2>2. \A e \in IOEvent : e \in owned' <=> e \in owned
    BY <2>1, EventAssumption
  <2>3. WatchesExact'
    BY <1>1, <2>1, <2>2, WatchesKept
  <2>4. DBusTypes' /\ Stage' /\ Releasing' /\ WakeupLive'
    BY <1>1, <2>1 DEF DBusTypes, Stage, Releasing, WakeupLive
  <2> QED BY <2>1, <2>3, <2>4 DEF DBusInv, Next, Return
<1>6. CASE ReturnFromIO
  <2>1. /\ dispatch_io_return /\ phase = "callback" /\ phase' = "io" /\ cur \in IOEvent
        /\ UNCHANGED <<state, added, enabled, watchOf, wakeup_main, owned>>
        /\ ref' = [ref EXCEPT ![cur] = ref[cur] - 1]
        /\ data' = IF ref[cur] - 1 = 0 THEN [data EXCEPT ![watchOf[cur]] = None] ELSE data
    BY <1>6 DEF ReturnFromIO, dispatch_io_return, DataAfterNotify, RefAfterCall
  <2>2. ref'[cur] = ref[cur] - 1 /\ \A e \in IOEvent \ {cur} : ref'[e] = ref[e]
    BY <1>2, <2>1
  <2>3. cur \in owned <=> ref[cur] - 1 > 0
    BY <1>2, <2>1 DEF Inv, RefsExact, CountsExact, Holders
  <2>4. \A w \in Watch : EventsOf(w)' = EventsOf(w)
    BY <2>1 DEF EventsOf
  <2>5. ASSUME NEW w \in Watch
        PROVE  /\ w \in (added \cap enabled)' => EventsOf(w)' = {data'[w]}
               /\ w \notin (added \cap enabled)' => EventsOf(w)' = {}
               /\ data'[w] # None => ref'[data'[w]] > 0 /\ watchOf'[data'[w]] = w
    <3>1. CASE cur \in owned
      <4>1. data' = data
        BY <1>2, <2>1, <2>3, <3>1
      <4>2. \A e \in IOEvent : ref[e] > 0 => ref'[e] > 0
        BY <2>2, <2>3, <3>1
      <4>3. data[w] # None => data[w] \in IOEvent
        BY <1>1 DEF DBusTypes
      <4> QED BY <1>1, <2>1, <2>4, <4>1, <4>2, <4>3 DEF WatchesExact
    <3>2. CASE cur \notin owned
      <4>1. data' = [data EXCEPT ![watchOf[cur]] = None] /\ watchOf[cur] \notin added \cap enabled
        <5>1. ref[cur] - 1 = 0
          <6>1. cur # None /\ ref[cur] \in 0..2
            BY <1>2, <2>1, EventAssumption
          <6> QED BY <1>2, <2>3, <3>2, <6>1
        <5> QED BY <1>1, <2>1, <3>2, <5>1 DEF Releasing
      <4>2. CASE w = watchOf[cur]
        <5>1. data'[w] = None
          BY <1>1, <4>1, <4>2 DEF DBusTypes
        <5> QED BY <1>1, <2>1, <2>4, <4>1, <4>2, <5>1 DEF WatchesExact
      <4>3. CASE w # watchOf[cur]
        <5>1. data'[w] = data[w]
          BY <1>1, <4>1, <4>3 DEF DBusTypes
        <5>2. data[w] # None => data[w] \in IOEvent \ {cur}
          BY <1>1, <4>3 DEF DBusTypes, WatchesExact
        <5> QED BY <1>1, <2>1, <2>2, <2>4, <5>1, <5>2 DEF WatchesExact
      <4> QED BY <4>2, <4>3
    <3> QED BY <3>1, <3>2
  <2>6. WatchesExact'
    BY <2>5 DEF WatchesExact
  <2>7. DBusTypes' /\ Stage' /\ Releasing' /\ WakeupLive'
    BY <1>1, <2>1 DEF DBusTypes, Stage, Releasing, WakeupLive
  <2> QED BY <2>1, <2>6, <2>7 DEF DBusInv, Next, Return
<1> QED BY <1>3, <1>4, <1>5, <1>6 DEF TurnSteps

LEMMA DBusInvariant == DBusSpec => [](Inv /\ DBusInv)
<1>1. DBusInit => Inv /\ DBusInv
  <2> SUFFICES ASSUME DBusInit PROVE Inv /\ DBusInv
    OBVIOUS
  <2>1. Inv
    BY InitInv DEF DBusInit
  <2>2. DBusTypes /\ Stage /\ Releasing /\ WakeupLive
    BY WatchAssumption DEF DBusInit, Init, DBusTypes, Stage, Releasing, WakeupLive, Watch
  <2>3. WatchesExact
    BY DEF DBusInit, Init, WatchesExact, EventsOf
  <2> QED BY <2>1, <2>2, <2>3 DEF DBusInv
<1>2. Inv /\ DBusInv /\ [DBusNext]_allVars => Inv' /\ DBusInv'
  <2> SUFFICES ASSUME Inv, DBusInv, [DBusNext]_allVars PROVE Inv' /\ DBusInv'
    OBVIOUS
  <2>1. CASE DBusNext
    BY <2>1, LibraryPairs, ModulePairs, TurnPairs, NextInv DEF DBusNext, ModuleSteps, TurnSteps
  <2>2. CASE UNCHANGED allVars
    <3>1. UNCHANGED vars /\ UNCHANGED <<state, added, enabled, data, watchOf, wakeup_main>>
      BY <2>2 DEF allVars, dbusVars
    <3>2. UNCHANGED <<phase, cur, owned, ref>>
      BY <3>1 DEF vars, passVars
    <3>3. DBusInv'
      BY <3>1, <3>2 DEF DBusInv, DBusTypes, Stage, Releasing, EventsPaired, WatchesExact, EventsOf, WakeupLive
    <3> QED BY <3>1, <3>3, NextInv
  <2> QED BY <2>1, <2>2
<1> QED BY <1>1, <1>2, PTL DEF DBusSpec

(* Watches and their events, and the wake-up and its timer, stay paired in *)
(* any order of switching, removal, broken connection and end; only the    *)
(* event whose own callback runs may outlive its watch, until the callback *)
(* returns (dbusmodule.c:155-279).                                         *)
THEOREM WatchesAndWakeupsArePaired == DBusSpec => []EventsPaired
<1>1. Inv /\ DBusInv => EventsPaired
  <2> SUFFICES ASSUME Inv, DBusInv, NEW e \in IOEvent, ref[e] > 0, ~(phase = "callback" /\ cur = e)
               PROVE  watchOf[e] \in added \cap enabled
    BY DEF DBusInv, EventsPaired, OnlyOwnCallbackOutlives
  <2>1. e \in owned
    BY DEF Inv, RefsExact, CountsExact, Holders
  <2>2. watchOf[e] \in Watch /\ e \in EventsOf(watchOf[e])
    BY <2>1 DEF DBusInv, DBusTypes, EventsOf
  <2> QED BY <2>2 DEF DBusInv, WatchesExact
<1> QED BY <1>1, DBusInvariant, PTL
=============================================================================
