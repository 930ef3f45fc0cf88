---------------------------------- MODULE Ipc ----------------------------------
(***************************************************************************)
(* The D-Bus frontend (frontend/ipc/ipc.c) with the name watching of the   *)
(* D-Bus module (module/dbus/dbusmodule.c) it depends on: clients create   *)
(* and destroy input contexts over the bus, and leave; the frontend learns *)
(* that a client left by a match rule it has asked the bus for.            *)
(*                                                                         *)
(* inbox and outbox are the two directions of the connection to the bus,   *)
(* each delivered in order.  A rule is in force only when the bus has read *)
(* the request, and the bus tells of a client that leaves only if a rule   *)
(* is in force then.                                                       *)
(*                                                                         *)
(* The id of a destroyed context is the first to be given out again, and a *)
(* call names its context by the id alone: a DestroyIC that comes late may *)
(* meet another client's context.  MaxIC bounds the calls, so the counter  *)
(* behind the ids does not wrap (InputContext has its wrap).               *)
(***************************************************************************)
EXTENDS Integers, FiniteSets, SequencesExt

CONSTANTS
  Client,    \* unique bus names
  MaxIC,     \* bound: CreateIC calls in a behaviour, and so the ids
  MaxInbox,  \* bound: messages waiting for the frontend
  None

ASSUME IpcAssumption == MaxIC \in Nat /\ MaxInbox \in Nat /\ None \notin Client

IC == 1..MaxIC

VARIABLES
  phase,       \* what the thread does: "running", "leaving", or a stage of the end
  leaving,     \* in the callback of a name that vanished: the client, else None
  shutdown,    \* instance->shutdown
  inbox,       \* from the bus
  outbox,      \* to the bus: requests to add and remove match rules
  matches,     \* the bus: rules in force for each name
  connected,   \* the bus: the clients that are connected
  untold,      \* the clients that left while no rule was in force for them
  sent,        \* CreateIC calls so far
  nextId,      \* one more than the manager's id counter
  freeList,    \* the ids of destroyed contexts, the last one destroyed first
  live,        \* the input contexts of this frontend that exist
  sender,      \* the frontend data property of each: the client that created it
  paths,       \* the object paths /inputcontext/<id> that are registered
  senders,     \* the keys of ipc->senderToIC
  ics,         \* the contexts in the entry of each client
  watched      \* the keys of the D-Bus module's handler table

busVars == <<matches, connected, untold, sent>>
icVars == <<nextId, freeList, live, sender, paths, senders, ics, watched>>
vars == <<phase, leaving, shutdown, inbox, outbox, busVars, icVars>>

Init ==
  /\ phase = "running" /\ leaving = None /\ shutdown = FALSE
  /\ inbox = <<>> /\ outbox = <<>>
  /\ matches = [c \in Client |-> 0]
  /\ connected = Client /\ untold = {} /\ sent = 0
  /\ nextId = 1 /\ freeList = <<>> /\ live = {} /\ paths = {}
  /\ sender = [i \in IC |-> None]
  /\ senders = {} /\ ics = [c \in Client |-> {}]
  /\ watched = {}

----------------------------------------------------------------------------
(* The clients and the bus.                                                *)
CreateIC(c)  == [type |-> "CreateIC", client |-> c]
DestroyIC(i) == [type |-> "DestroyIC", ic |-> i]
NameGone(c)  == [type |-> "NameOwnerChanged", client |-> c]
Exit         == [type |-> "Exit"]

Room == phase \in {"running", "leaving"} /\ Len(inbox) < MaxInbox

ClientCreates(c) ==
  /\ Room /\ c \in connected /\ sent < MaxIC
  /\ inbox' = Append(inbox, CreateIC(c))
  /\ sent' = sent + 1
  /\ UNCHANGED <<phase, leaving, shutdown, outbox, matches, connected, untold, icVars>>

(* The call may be made twice, for a context that is gone already, and for *)
(* an id that is another client's by now: neither the bus nor the frontend *)
(* compares the caller with the sender of the context.                     *)
ClientDestroys(i) ==
  /\ Room /\ connected # {} /\ i < nextId
  /\ inbox' = Append(inbox, DestroyIC(i))
  /\ UNCHANGED <<phase, leaving, shutdown, outbox, busVars, icVars>>

ClientLeaves(c) ==
  /\ Room /\ c \in connected
  /\ connected' = connected \ {c}
  /\ IF matches[c] > 0
     THEN inbox' = Append(inbox, NameGone(c)) /\ untold' = untold
     ELSE inbox' = inbox /\ untold' = untold \cup {c}
  /\ UNCHANGED <<phase, leaving, shutdown, outbox, matches, sent, icVars>>

(* The controller's Exit, or the signal that the name or the bus is lost.  *)
(* Once is enough.                                                         *)
ShutdownIsAsked ==
  /\ Room /\ ~shutdown /\ ~Contains(inbox, Exit)
  /\ inbox' = Append(inbox, Exit)
  /\ UNCHANGED <<phase, leaving, shutdown, outbox, busVars, icVars>>

AddMatch(c)    == [name |-> c, change |-> 1]
RemoveMatch(c) == [name |-> c, change |-> -1]

BusReads ==
  /\ outbox # <<>> /\ phase # "gone"
  /\ matches' = [matches EXCEPT ![Head(outbox).name] = @ + Head(outbox).change]
  /\ outbox' = Tail(outbox)
  /\ UNCHANGED <<phase, leaving, shutdown, inbox, connected, untold, sent, icVars>>

----------------------------------------------------------------------------
(***************************************************************************)
(* The frontend dispatches one message after the other, those behind the   *)
(* one that shut the instance down included.  A client is watched by one   *)
(* handler, so the match rule comes and goes with it.                      *)
(***************************************************************************)
Dispatch(t) == phase = "running" /\ inbox # <<>> /\ Head(inbox).type = t

\* Plausible bug: a sender that is known already is watched once more.
NewSenderAlways(c) == TRUE

NewSender(c) == c \notin senders

(* The id that fcitx_input_context_new takes.                              *)
NewId == IF freeList # <<>> THEN Head(freeList) ELSE nextId

ipc_new_input_context ==
  LET c == Head(inbox).client
      i == NewId
  IN /\ Dispatch("CreateIC") /\ i \in IC
     /\ inbox' = Tail(inbox)
     /\ IF freeList # <<>>
        THEN freeList' = Tail(freeList) /\ nextId' = nextId
        ELSE nextId' = i + 1 /\ freeList' = freeList
     /\ live' = live \cup {i}
     /\ paths' = paths \cup {i}
     /\ sender' = [sender EXCEPT ![i] = c]
     /\ ics' = [ics EXCEPT ![c] = @ \cup {i}]
     /\ senders' = senders \cup {c}
     /\ watched' = watched \cup {c}
     /\ outbox' = IF NewSender(c) THEN Append(outbox, AddMatch(c)) ELSE outbox
     /\ UNCHANGED <<phase, leaving, shutdown, busVars>>

\* Plausible bug: the entry goes with the first context of the sender.
LastOfSenderAlways(i) == TRUE

LastOfSender(i) == ics[sender[i]] = {i}

(* fcitx_input_context_destroy and the frontend's destroy notify.          *)
ipc_destroy_input_context(i) ==
  LET c == sender[i] IN
  /\ live' = live \ {i}
  /\ freeList' = <<i>> \o freeList
  /\ paths' = paths \ {i}
  /\ ics' = [ics EXCEPT ![c] = @ \ {i}]
  /\ IF LastOfSender(i)
     THEN /\ senders' = senders \ {c}
          /\ watched' = watched \ {c}
          /\ outbox' = Append(outbox, RemoveMatch(c))
     ELSE UNCHANGED <<senders, watched, outbox>>
  /\ UNCHANGED <<nextId, sender>>

inputcontext_destroy_ic ==
  LET i == Head(inbox).ic IN
  /\ Dispatch("DestroyIC") /\ i \in live
  /\ ipc_destroy_input_context(i)
  /\ inbox' = Tail(inbox)
  /\ UNCHANGED <<phase, leaving, shutdown, busVars>>

(* No such context: the call is not handled here.                          *)
inputcontext_unknown ==
  /\ Dispatch("DestroyIC") /\ Head(inbox).ic \notin live
  /\ inbox' = Tail(inbox)
  /\ UNCHANGED <<phase, leaving, shutdown, outbox, busVars, icVars>>

(* The signal goes to the handler of the name, if there is one.            *)
dbus_filter_name ==
  LET c == Head(inbox).client IN
  /\ Dispatch("NameOwnerChanged")
  /\ inbox' = Tail(inbox)
  /\ IF c \in watched /\ c \in senders
     THEN phase' = "leaving" /\ leaving' = c
     ELSE UNCHANGED <<phase, leaving>>
  /\ UNCHANGED <<shutdown, outbox, busVars, icVars>>

\* Plausible bug: only the first context of a client that left is destroyed.
MoreAfterNever(i) == FALSE

MoreAfter(i) == ics[leaving] # {i}

(* One turn of the loop over the contexts of the client that left.         *)
ipc_watch_name(i) ==
  /\ phase = "leaving" /\ i \in ics[leaving]
  /\ ipc_destroy_input_context(i)
  /\ IF MoreAfter(i)
     THEN UNCHANGED <<phase, leaving>>
     ELSE phase' = "running" /\ leaving' = None
  /\ UNCHANGED <<shutdown, inbox, busVars>>

dbus_shutdown ==
  /\ Dispatch("Exit")
  /\ shutdown' = TRUE
  /\ inbox' = Tail(inbox)
  /\ UNCHANGED <<phase, leaving, outbox, busVars, icVars>>

----------------------------------------------------------------------------
(* The end: fcitx_instance_destroy once the loop has returned.             *)
Stage(p, q) ==
  /\ phase = p /\ phase' = q
  /\ UNCHANGED <<leaving, shutdown, inbox, busVars, nextId, freeList, live, sender, paths>>

mainloop_returns ==
  /\ shutdown
  /\ Stage("running", "stopping")
  /\ UNCHANGED <<outbox, senders, ics, watched>>

destroy_all_input_context(i) ==
  /\ phase = "stopping" /\ i \in live
  /\ ipc_destroy_input_context(i)
  /\ UNCHANGED <<phase, leaving, shutdown, inbox, busVars>>

AllDestroyed == live = {}

ipc_destroy ==
  /\ AllDestroyed
  /\ Stage("stopping", "unloaded")
  /\ senders' = {} /\ ics' = [c \in Client |-> {}]
  /\ UNCHANGED <<outbox, watched>>

dbus_destroy ==
  /\ Stage("unloaded", "gone")
  /\ watched' = {}
  /\ outbox' = outbox \o SetToSeq({RemoveMatch(c) : c \in watched})
  /\ UNCHANGED <<senders, ics>>

----------------------------------------------------------------------------
Server ==
  \/ ipc_new_input_context \/ inputcontext_destroy_ic \/ inputcontext_unknown
  \/ dbus_filter_name \/ dbus_shutdown
  \/ \E i \in IC : ipc_watch_name(i)

End ==
  \/ mainloop_returns \/ ipc_destroy \/ dbus_destroy
  \/ \E i \in IC : destroy_all_input_context(i)

Next ==
  \/ \E c \in Client : ClientCreates(c) \/ ClientLeaves(c)
  \/ \E i \in IC : ClientDestroys(i)
  \/ ShutdownIsAsked \/ BusReads
  \/ Server \/ End

(* The server dispatches what arrives, and once it is shut down it ends.   *)
Fairness == WF_vars(Server) /\ WF_vars(End)

Spec == Init /\ [][Next]_vars /\ Fairness

----------------------------------------------------------------------------
(* The types of the frontend's state.                                      *)
Message ==
  [type : {"CreateIC", "NameOwnerChanged"}, client : Client]
    \cup [type : {"DestroyIC"}, ic : IC] \cup [type : {"Exit"}]

TypeOK ==
  /\ phase \in {"running", "leaving", "stopping", "unloaded", "gone"}
  /\ leaving \in Client \cup {None} /\ (leaving = None <=> phase # "leaving")
  /\ shutdown \in BOOLEAN
  /\ inbox \in Seq(Message)
  /\ outbox \in Seq([name : Client, change : {1, -1}])
  /\ matches \in [Client -> Nat]
  /\ connected \subseteq Client /\ untold \subseteq Client \ connected
  /\ sent \in 0..MaxIC /\ nextId \in 1..(MaxIC + 1)
  /\ freeList \in Seq(IC) /\ IsInjective(freeList)
  /\ ToSet(freeList) = (1..(nextId - 1)) \ live
  /\ live \subseteq IC /\ paths \subseteq IC
  /\ sender \in [IC -> Client \cup {None}]
  /\ senders \subseteq Client
  /\ ics \in [Client -> SUBSET IC]
  /\ watched \subseteq Client

(* The four places that say which contexts a client has agree: the         *)
(* contexts themselves, the dictionary of senders, the object paths and    *)
(* the watched names.  No entry is left empty, and none is freed early.    *)
(* All of them are gone when the frontend is unloaded, whose destroy       *)
(* notify they call ("input context may have callback to addon, so destroy *)
(* all input context first", instance.c).                                  *)
SendersExact ==
  /\ \A c \in Client : ics[c] = {i \in live : sender[i] = c}
  /\ senders = {sender[i] : i \in live}
  /\ paths = live
  /\ watched = senders
  /\ phase \in {"unloaded", "gone"} => live = {}

(* Every request reaches the bus when it makes sense, a rule being added   *)
(* when none is in force for the name and removed when one is, and once    *)
(* all requests are read the rules are those of the watched names: no rule *)
(* leaks and none is taken back while contexts depend on it.               *)
Requests(c, k) == {j \in 1..k : outbox[j].name = c}

InForceAfter(c, k) ==   \* once the bus has read the first k requests
  LET R == Requests(c, k) IN
  \/ R = {} /\ matches[c] = 1
  \/ \E j \in R : outbox[j].change = 1 /\ \A l \in R : l <= j

MatchesExact ==
  /\ \A c \in Client : matches[c] \in {0, 1}
  /\ \A k \in 1..Len(outbox) :
       outbox[k].change = 1 <=> ~InForceAfter(outbox[k].name, k - 1)
  /\ \A c \in Client : InForceAfter(c, Len(outbox)) <=> c \in watched

(* A context whose client has left is about to be destroyed, because the   *)
(* signal waits in the inbox or is being handled, unless the client left   *)
(* before the bus had read the request to watch it: CreateIC does not make *)
(* sure that its sender is still there.                                    *)
OrphansAreExpected ==
  phase \in {"running", "leaving"} =>
    \A i \in live :
      \/ sender[i] \in connected \cup untold
      \/ Contains(inbox, NameGone(sender[i]))
      \/ leaving = sender[i]

(* The contexts of a client whose leaving the bus announced go away and do *)
(* not come back: its calls are ahead of the signal.                       *)
AnnouncedLeaveIsFinal ==
  \A c \in Client :
    Contains(inbox, NameGone(c)) ~> (shutdown \/ [](ics[c] = {}))
=============================================================================
