-------------------------------- MODULE Instance --------------------------------
(***************************************************************************)
(* The life of fcitx processes (core/main.c, core/errorhandler.c,          *)
(* lib/fcitx/instance.c and the start of module/dbus/dbusmodule.c): each   *)
(* one starts, asks for the name org.fcitx.Fcitx on the session bus, runs  *)
(* its main loop until it is shut down, and ends.  Several may run at the  *)
(* same time: one started with --replace takes the name from another.      *)
(*                                                                         *)
(* Signals arrive at any moment; the handler writes them to a pipe that    *)
(* the main loop reads.  What the loop owes its descriptors is the matter  *)
(* of MainLoop: here, what is readable is read eventually.                 *)
(***************************************************************************)
EXTENDS Naturals, Sequences, FiniteSets

CONSTANTS
  Proc,          \* processes
  Other,         \* a program that owns the name and does not let it be replaced
  None,
  RETRY,         \* bound: attempts to connect, MAX_RETRY_TIMES in the code
  COUNTDOWN,     \* attempts to replace, 3 in the code
  PipeSize,      \* bytes the pipe takes
  MaxSignals     \* bound: signals in a behaviour

ASSUME InstanceAssumption ==
  /\ RETRY \in Nat /\ COUNTDOWN \in Nat /\ PipeSize \in Nat \ {0} /\ MaxSignals \in Nat
  /\ Other \notin Proc /\ None \notin Proc \cup {Other}

VARIABLES
  pc,         \* where each process is
  tryReplace, \* instance->tryReplace
  running,    \* instance->running
  shutdown,   \* instance->shutdown
  quit,       \* mainloop->quit
  retry,      \* the local of fcitx_dbus_init
  countdown,  \* replaceCountdown
  conn,       \* the processes that are connected to the bus
  owner,      \* the bus: the owner of the name
  lost,       \* the bus: processes that NameLost is on its way to
  pipe,       \* selfpipe
  signals     \* signals sent so far

flags == <<running, shutdown, quit>>
busVars == <<conn, owner, lost>>
vars == <<pc, tryReplace, flags, retry, countdown, busVars, pipe, signals>>

Init ==
  /\ pc = [p \in Proc |-> "main"]
  /\ tryReplace \in [Proc -> BOOLEAN]
  /\ running = [p \in Proc |-> FALSE]
  /\ shutdown = [p \in Proc |-> FALSE]
  /\ quit = [p \in Proc |-> FALSE]
  /\ retry = [p \in Proc |-> 0]
  /\ countdown = [p \in Proc |-> 0]
  /\ conn = {} /\ owner \in {None, Other} /\ lost = {}
  /\ pipe = [p \in Proc |-> <<>>]
  /\ signals = 0

At(p, l) == pc[p] = l
Goto(p, l) == pc' = [pc EXCEPT ![p] = l]

----------------------------------------------------------------------------
(* Start: fcitx_instance_new, then the D-Bus module while addons load.     *)
instance_new(p) ==
  /\ At(p, "main")
  /\ Goto(p, "connect")
  /\ UNCHANGED <<tryReplace, flags, retry, countdown, busVars, pipe, signals>>

bus_get(p) ==
  /\ At(p, "connect")
  /\ Goto(p, "request")
  /\ conn' = conn \cup {p}
  /\ countdown' = [countdown EXCEPT ![p] = IF tryReplace[p] THEN COUNTDOWN ELSE 0]
  /\ UNCHANGED <<tryReplace, flags, retry, owner, lost, pipe, signals>>

bus_get_fails(p) ==
  /\ At(p, "connect")
  /\ retry[p] < RETRY
  /\ retry' = [retry EXCEPT ![p] = @ + 1]
  /\ UNCHANGED <<pc, tryReplace, flags, countdown, busVars, pipe, signals>>

(* No session to look for a bus in, no connection after the last attempt,  *)
(* or one that cannot be set up: the module is not loaded, and fcitx runs  *)
(* without it.                                                             *)
dbus_fails(p) ==
  /\ At(p, "connect")
  /\ Goto(p, "loaded")
  /\ UNCHANGED <<tryReplace, flags, retry, countdown, busVars, pipe, signals>>

(* Every fcitx lets its name be replaced.                                  *)
MayOwn(p) == owner = None \/ (owner \in Proc /\ tryReplace[p])

request_name(p) ==
  /\ At(p, "request") /\ MayOwn(p)
  /\ Goto(p, "loaded")
  /\ owner' = p
  /\ lost' = IF owner \in Proc THEN lost \cup {owner} ELSE lost
  /\ UNCHANGED <<tryReplace, flags, retry, countdown, conn, pipe, signals>>

MoreTries(p) == countdown[p] > 0

(* The name is taken, or the request fails.                                *)
request_name_again(p) ==
  /\ At(p, "request") /\ MoreTries(p)
  /\ countdown' = [countdown EXCEPT ![p] = @ - 1]
  /\ UNCHANGED <<pc, tryReplace, flags, retry, busVars, pipe, signals>>

instance_shutdown(p) ==
  /\ shutdown' = [shutdown EXCEPT ![p] = TRUE]
  /\ quit' = IF running[p] THEN [quit EXCEPT ![p] = TRUE] ELSE quit

Leave(p) ==
  /\ conn' = conn \ {p}
  /\ owner' = IF owner = p THEN None ELSE owner
  /\ lost' = lost \ {p}

request_name_fails(p) ==
  /\ At(p, "request") /\ ~MoreTries(p)
  /\ Goto(p, "loaded")
  /\ instance_shutdown(p)
  /\ Leave(p)
  /\ UNCHANGED <<tryReplace, running, retry, countdown, pipe, signals>>

----------------------------------------------------------------------------
(* The rest of fcitx_instance_run.                                         *)

\* Plausible bug: the flag is not looked at before the loop is entered.
MayEnterAlways(p) == TRUE

MayEnter(p) == ~shutdown[p]

instance_run(p) ==
  /\ At(p, "loaded")
  /\ running' = [running EXCEPT ![p] = TRUE]
  /\ Goto(p, IF MayEnter(p) THEN "enter" ELSE "destroy")
  /\ UNCHANGED <<tryReplace, shutdown, quit, retry, countdown, busVars, pipe, signals>>

mainloop_run(p) ==
  /\ At(p, "enter")
  /\ quit' = [quit EXCEPT ![p] = FALSE]
  /\ Goto(p, "loop")
  /\ UNCHANGED <<tryReplace, running, shutdown, retry, countdown, busVars, pipe, signals>>

mainloop_returns(p) ==
  /\ At(p, "loop") /\ quit[p]
  /\ Goto(p, "destroy")
  /\ UNCHANGED <<tryReplace, flags, retry, countdown, busVars, pipe, signals>>

\* Plausible bug: only the first byte in the pipe is looked at.
TermInPipeFirst(p) == pipe[p] # <<>> /\ Head(pipe[p]) = "term"

TermInPipe(p) == \E i \in DOMAIN pipe[p] : pipe[p][i] = "term"

(* Reads until the pipe is empty.                                          *)
handle_signal(p) ==
  /\ At(p, "loop") /\ pipe[p] # <<>>
  /\ pipe' = [pipe EXCEPT ![p] = <<>>]
  /\ IF TermInPipe(p) THEN instance_shutdown(p) ELSE UNCHANGED <<shutdown, quit>>
  /\ UNCHANGED <<pc, tryReplace, running, retry, countdown, busVars, signals>>

\* Plausible bug: the loss of the name is not noticed.
OnNameLostIgnored(p) == UNCHANGED <<shutdown, quit>>

OnNameLost(p) == instance_shutdown(p)

dbus_filter_name_lost(p) ==
  /\ At(p, "loop") /\ p \in lost
  /\ lost' = lost \ {p}
  /\ OnNameLost(p)
  /\ UNCHANGED <<pc, tryReplace, running, retry, countdown, conn, owner, pipe, signals>>

(* The Exit method of the controller, or the bus hanging up.               *)
dbus_exit(p) ==
  /\ At(p, "loop") /\ p \in conn
  /\ instance_shutdown(p)
  /\ UNCHANGED <<pc, tryReplace, running, retry, countdown, busVars, pipe, signals>>

instance_destroy(p) ==
  /\ At(p, "destroy")
  /\ Goto(p, "exited")
  /\ Leave(p)
  /\ UNCHANGED <<tryReplace, flags, retry, countdown, pipe, signals>>

----------------------------------------------------------------------------
(***************************************************************************)
(* Signals.  "term" is one of those that end fcitx, "hup" any other that   *)
(* is written to the pipe, "abort" one that ends the process at once.      *)
(***************************************************************************)
Alive(p) == pc[p] # "exited"

Signalled(p) ==
  /\ Alive(p) /\ signals < MaxSignals
  /\ signals' = signals + 1

HasInstance(p) == pc[p] # "main"

OnException(p, sig) ==
  /\ Signalled(p)
  /\ sig # "abort" /\ HasInstance(p)
  /\ pipe' = IF Len(pipe[p]) < PipeSize THEN [pipe EXCEPT ![p] = Append(@, sig)] ELSE pipe
  /\ UNCHANGED <<pc, tryReplace, flags, retry, countdown, busVars>>

OnExceptionExits(p, sig) ==
  /\ Signalled(p)
  /\ sig = "abort" \/ ~HasInstance(p)
  /\ Goto(p, "exited")
  /\ Leave(p)
  /\ UNCHANGED <<tryReplace, flags, retry, countdown, pipe>>

(* The program that owned the name goes away.                              *)
OtherLeaves ==
  /\ owner = Other
  /\ owner' = None
  /\ UNCHANGED <<pc, tryReplace, flags, retry, countdown, conn, lost, pipe, signals>>

----------------------------------------------------------------------------
Start(p) ==
  \/ instance_new(p) \/ bus_get(p) \/ bus_get_fails(p) \/ dbus_fails(p)
  \/ request_name(p) \/ request_name_again(p) \/ request_name_fails(p) \/ instance_run(p) \/ mainloop_run(p)

Stop(p) == mainloop_returns(p) \/ instance_destroy(p)

Next ==
  \/ \E p \in Proc : \/ Start(p) \/ Stop(p)
                     \/ handle_signal(p) \/ dbus_filter_name_lost(p) \/ dbus_exit(p)
                     \/ \E sig \in {"term", "hup", "abort"} :
                          OnException(p, sig) \/ OnExceptionExits(p, sig)
  \/ OtherLeaves

(* The thread of a process goes on, and its loop serves the pipe and the   *)
(* bus.                                                                    *)
Fairness ==
  \A p \in Proc :
    /\ WF_vars(Start(p)) /\ WF_vars(Stop(p))
    /\ WF_vars(handle_signal(p)) /\ WF_vars(dbus_filter_name_lost(p))

Spec == Init /\ [][Next]_vars /\ Fairness

----------------------------------------------------------------------------
(* The types of the processes' state.                                      *)
TypeOK ==
  /\ pc \in [Proc -> {"main", "connect", "request", "loaded", "enter", "loop", "destroy", "exited"}]
  /\ tryReplace \in [Proc -> BOOLEAN] /\ running \in [Proc -> BOOLEAN]
  /\ shutdown \in [Proc -> BOOLEAN] /\ quit \in [Proc -> BOOLEAN]
  /\ retry \in [Proc -> 0..RETRY] /\ countdown \in [Proc -> 0..COUNTDOWN]
  /\ conn \subseteq Proc /\ lost \subseteq conn
  /\ owner \in Proc \cup {None, Other} /\ (owner \in Proc => owner \in conn)
  /\ pipe \in [Proc -> Seq({"term", "hup"})]
  /\ signals \in 0..MaxSignals

(* A process whose shutdown was asked for, be it while addons load, does   *)
(* not sit in its main loop: it never enters it, or the loop is to quit.   *)
ShutdownIsKept ==
  \A p \in Proc : shutdown[p] => pc[p] # "enter" /\ (pc[p] = "loop" => quit[p])

(* Of all processes that serve the bus at most one stays: the others have  *)
(* been told that they lost the name, or are on their way out.             *)
OneStays ==
  \A p \in conn :
    pc[p] \in {"loaded", "enter", "loop"} => owner = p \/ p \in lost \/ shutdown[p]

(* A terminating signal that fits into the pipe ends the process, whenever *)
(* it arrives.                                                             *)
TermIsHonoured ==
  \A p \in Proc : (\E i \in DOMAIN pipe[p] : pipe[p][i] = "term") ~> pc[p] = "exited"

(* A process whose name is taken by another one ends.                      *)
ReplacedEnds == \A p \in Proc : p \in lost ~> pc[p] = "exited"
=============================================================================
