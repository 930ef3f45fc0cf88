------------------------------- MODULE Ipc_proofs -------------------------------
(***************************************************************************)
(* Proofs about the D-Bus frontend, for any number of clients, contexts    *)
(* and messages: what says which contexts a client has agrees, and the     *)
(* contexts of a client that left are about to go.                         *)
(***************************************************************************)
EXTENDS Ipc, FiniteSetTheorems, TLAPS

(* What the steps need of the types, and where the ids of the contexts     *)
(* that exist come from.                                                   *)
Types ==
  /\ leaving \in Client \cup {None} /\ (leaving = None <=> phase # "leaving")
  /\ inbox \in Seq(Message)
  /\ nextId \in Int
  /\ freeList \in Seq({i \in IC : i < nextId}) /\ IsInjective(freeList)
  /\ \A k \in 1..Len(freeList) : freeList[k] \notin live
  /\ live \subseteq IC /\ \A i \in live : i < nextId /\ sender[i] \in Client
  /\ sender \in [IC -> Client \cup {None}]
  /\ ics \in [Client -> SUBSET IC]

(* Whoever called left later than the call, if at all, and so its leaving  *)
(* is announced behind the call.                                           *)
CallsAreAhead ==
  \A k \in 1..Len(inbox), c \in Client :
    inbox[k] = CreateIC(c) =>
      c \in connected \cup untold \/ \E j \in 1..Len(inbox) : j > k /\ inbox[j] = NameGone(c)

Inv == Types /\ SendersExact /\ OrphansAreExpected /\ CallsAreAhead

----------------------------------------------------------------------------
(* What arrives is behind everything else.                                 *)
LEMMA Arrives ==
  ASSUME Types, CallsAreAhead, NEW e \in Message, inbox' = Append(inbox, e),
         UNCHANGED <<live, sender, leaving, phase>>,
         \A c \in Client : e = CreateIC(c) => c \in (connected \cup untold)',
         \A c \in connected \cup untold : c \in (connected \cup untold)' \/ e = NameGone(c)
  PROVE  /\ inbox' \in Seq(Message) /\ CallsAreAhead'
         /\ OrphansAreExpected => OrphansAreExpected'
<1>1. /\ Len(inbox) \in Nat /\ Len(inbox') = Len(inbox) + 1 /\ inbox'[Len(inbox')] = e
      /\ \A k \in 1..Len(inbox) : k \in 1..Len(inbox') /\ k < Len(inbox') /\ inbox'[k] = inbox[k]
      /\ Len(inbox') \in 1..Len(inbox') /\ \A k \in 1..Len(inbox') : k = Len(inbox') \/ k \in 1..Len(inbox)
      /\ inbox' \in Seq(Message)
  BY DEF Types
<1>2. CallsAreAhead'
  <2> SUFFICES ASSUME NEW k \in 1..Len(inbox'), NEW c \in Client, inbox'[k] = CreateIC(c)
               PROVE  \/ c \in (connected \cup untold)'
                      \/ \E j \in 1..Len(inbox') : j > k /\ inbox'[j] = NameGone(c)
    BY DEF CallsAreAhead, CreateIC, NameGone
  <2>1. CASE k = Len(inbox')
    BY <1>1, <2>1
  <2>2. CASE k \in 1..Len(inbox)
    <3>1. CASE c \in connected \cup untold
      BY <1>1, <2>2, <3>1
    <3>2. CASE \E j \in 1..Len(inbox) : j > k /\ inbox[j] = NameGone(c)
      BY <1>1, <3>2
    <3> QED BY <1>1, <2>2, <3>1, <3>2 DEF CallsAreAhead
  <2> QED BY <1>1, <2>1, <2>2
<1>3. ASSUME OrphansAreExpected PROVE OrphansAreExpected'
  <2>1. \A m : Contains(inbox, m) => Contains(inbox', m)
    BY <1>1 DEF Contains
  <2>2. Contains(inbox', e)
    BY <1>1 DEF Contains
  <2>3. ASSUME NEW i \in live, sender[i] \in connected \cup untold
        PROVE  sender[i] \in (connected \cup untold)' \/ Contains(inbox', NameGone(sender[i]))
    BY <2>2, <2>3
  <2> QED BY <1>3, <2>1, <2>3 DEF OrphansAreExpected, NameGone
<1> QED BY <1>1, <1>2, <1>3

(* What is dispatched was the first.                                       *)
LEMMA Departs ==
  ASSUME Types, CallsAreAhead, inbox # <<>>, inbox' = Tail(inbox), UNCHANGED <<connected, untold>>
  PROVE  /\ inbox' \in Seq(Message) /\ Head(inbox) \in Message /\ CallsAreAhead'
         /\ \A m : Contains(inbox, m) => m = Head(inbox) \/ Contains(inbox', m)
         /\ \A c \in Client : Head(inbox) = CreateIC(c) => c \in connected \cup untold \/ Contains(inbox', NameGone(c))
<1>1. /\ Len(inbox) \in Nat /\ Len(inbox) >= 1 /\ Len(inbox') = Len(inbox) - 1 /\ Head(inbox) = inbox[1]
      /\ \A k \in 1..Len(inbox') : k + 1 \in 1..Len(inbox) /\ inbox'[k] = inbox[k + 1]
      /\ \A k \in 1..Len(inbox) : k > 1 => k - 1 \in 1..Len(inbox') /\ inbox'[k - 1] = inbox[k]
      /\ inbox' \in Seq(Message) /\ Head(inbox) \in Message
  BY DEF Types
<1>2. CallsAreAhead'
  <2> SUFFICES ASSUME NEW k \in 1..Len(inbox'), NEW c \in Client, inbox'[k] = CreateIC(c), c \notin connected \cup untold
               PROVE  \E j \in 1..Len(inbox') : j > k /\ inbox'[j] = NameGone(c)
    BY DEF CallsAreAhead, CreateIC, NameGone
  <2>1. PICK j \in 1..Len(inbox) : j > k + 1 /\ inbox[j] = NameGone(c)
    BY <1>1 DEF CallsAreAhead
  <2>2. j > 1 /\ j - 1 > k
    BY <2>1
  <2> QED BY <1>1, <2>1, <2>2
<1>3. ASSUME NEW m, Contains(inbox, m) PROVE m = Head(inbox) \/ Contains(inbox', m)
  <2>1. PICK k \in 1..Len(inbox) : inbox[k] = m
    BY <1>3 DEF Contains
  <2>2. CASE k = 1
    BY <1>1, <2>1, <2>2
  <2>3. CASE k > 1
    BY <1>1, <2>1, <2>3 DEF Contains
  <2> QED BY <2>2, <2>3
<1>4. ASSUME NEW c \in Client, Head(inbox) = CreateIC(c), c \notin connected \cup untold
      PROVE  Contains(inbox', NameGone(c))
  <2>1. PICK j \in 1..Len(inbox) : j > 1 /\ inbox[j] = NameGone(c)
    BY <1>1, <1>4 DEF CallsAreAhead
  <2> QED BY <1>1, <2>1 DEF Contains
<1> QED BY <1>1, <1>2, <1>3, <1>4

(* The id that is taken from the list or the counter is no context's, and  *)
(* what stays on the list is none either.                                  *)
LEMMA NewIdIsFree ==
  ASSUME Types, NewId \in IC, live' = live \cup {NewId},
         IF freeList # <<>> THEN freeList' = Tail(freeList) /\ nextId' = nextId
                            ELSE nextId' = NewId + 1 /\ freeList' = freeList
  PROVE  /\ NewId \notin live /\ NewId < nextId' /\ nextId' \in Int /\ nextId <= nextId'
         /\ freeList' \in Seq({i \in IC : i < nextId'}) /\ IsInjective(freeList')
         /\ \A k \in 1..Len(freeList') : freeList'[k] \notin live'
<1> DEFINE Free == {i \in IC : i < nextId}
<1>1. nextId \in Int /\ \A i \in Free : i \in Int /\ i < nextId
  BY DEF Types, IC
<1>2. CASE freeList # <<>>
  <2>0. freeList \in Seq(Free) /\ freeList # <<>>
    BY <1>2 DEF Types
  <2> HIDE DEF Free
  <2>1. /\ Len(freeList) \in Nat /\ Len(freeList) >= 1 /\ NewId = freeList[1] /\ freeList' = Tail(freeList)
        /\ Len(freeList') = Len(freeList) - 1 /\ freeList' \in Seq(Free) /\ nextId' = nextId
        /\ \A k \in 1..Len(freeList') : k + 1 \in 1..Len(freeList) /\ k + 1 # 1 /\ freeList'[k] = freeList[k + 1]
        /\ 1 \in 1..Len(freeList) /\ freeList[1] \in Free
    BY <2>0 DEF NewId
  <2>2. \A j, k \in 1..Len(freeList) : freeList[j] = freeList[k] => j = k
    BY <2>1 DEF Types, IsInjective
  <2>3. NewId \notin live /\ \A k \in 1..Len(freeList') : freeList'[k] \notin live /\ freeList'[k] # NewId
    BY <2>1, <2>2 DEF Types
  <2>4. \A j, k \in 1..Len(freeList') : freeList'[j] = freeList'[k] => j = k
    <3> SUFFICES ASSUME NEW j \in 1..Len(freeList'), NEW k \in 1..Len(freeList'), freeList'[j] = freeList'[k]
                 PROVE  j = k
      OBVIOUS
    <3>1. j + 1 = k + 1
      BY <2>1, <2>2
    <3> QED BY <3>1
  <2>5. DOMAIN freeList' = 1..Len(freeList')
    BY <2>1
  <2>6. {i \in IC : i < nextId'} = Free
    BY <2>1 DEF Free
  <2>7. NewId < nextId' /\ nextId' \in Int /\ nextId <= nextId'
    BY <1>1, <2>1
  <2> QED BY <2>1, <2>3, <2>4, <2>5, <2>6, <2>7 DEF IsInjective
<1>3. CASE freeList = <<>>
  <2>1. NewId = nextId /\ nextId' = nextId + 1 /\ freeList' = <<>>
    BY <1>3 DEF NewId
  <2>2. <<>> \in Seq({i \in IC : i < nextId'}) /\ Len(<<>>) = 0 /\ IsInjective(<<>>)
    BY DEF IsInjective
  <2>3. \A i \in live : i \in Int /\ i < nextId
    BY DEF Types, IC
  <2> QED BY <1>1, <2>1, <2>2, <2>3
<1> QED BY <1>2, <1>3

(* A destroyed context is put on the list, where it was not.               *)
LEMMA DestroyedIsFree ==
  ASSUME Types, NEW i \in live, live' = live \ {i}, freeList' = <<i>> \o freeList, nextId' = nextId
  PROVE  /\ freeList' \in Seq({j \in IC : j < nextId'}) /\ IsInjective(freeList')
         /\ \A k \in 1..Len(freeList') : freeList'[k] \notin live'
<1> DEFINE Free == {j \in IC : j < nextId}
<1>1. i \in Free /\ freeList \in Seq(Free) /\ IsInjective(freeList)
  BY DEF Types
<1> HIDE DEF Free
<1>2. /\ Len(freeList) \in Nat /\ freeList' \in Seq(Free) /\ Len(freeList') = Len(freeList) + 1
      /\ freeList'[1] = i
      /\ \A k \in 1..Len(freeList') : k = 1 \/ (k - 1 \in 1..Len(freeList) /\ freeList'[k] = freeList[k - 1])
  BY <1>1
<1>3. /\ \A k \in 1..Len(freeList) : freeList[k] \notin live /\ freeList[k] # i
      /\ \A j, k \in 1..Len(freeList) : freeList[j] = freeList[k] => j = k
  BY <1>1, <1>2 DEF Types, IsInjective
<1>4. \A j, k \in 1..Len(freeList') : freeList'[j] = freeList'[k] => j = k
  <2> SUFFICES ASSUME NEW j \in 1..Len(freeList'), NEW k \in 1..Len(freeList'), freeList'[j] = freeList'[k]
               PROVE  j = k
    OBVIOUS
  <2>1. CASE j = 1 \/ k = 1
    BY <1>2, <1>3, <2>1
  <2>2. CASE j # 1 /\ k # 1
    <3>1. j - 1 = k - 1
      BY <1>2, <1>3, <2>2
    <3> QED BY <3>1
  <2> QED BY <2>1, <2>2
<1>5. \A k \in 1..Len(freeList') : freeList'[k] \notin live'
  BY <1>2, <1>3
<1>6. DOMAIN freeList' = 1..Len(freeList')
  BY <1>2
<1> QED BY <1>2, <1>4, <1>5, <1>6 DEF IsInjective, Free

(* Destroying a context keeps the four places in step.                     *)
LEMMA DestroyIsExact ==
  ASSUME Types, SendersExact, NEW i \in live, ipc_destroy_input_context(i), phase \notin {"unloaded", "gone"},
         phase' \notin {"unloaded", "gone"}
  PROVE  /\ SendersExact' /\ live' = live \ {i} /\ sender' = sender
         /\ ics' \in [Client -> SUBSET IC] /\ nextId' = nextId
         /\ freeList' \in Seq({j \in IC : j < nextId'}) /\ IsInjective(freeList')
         /\ \A k \in 1..Len(freeList') : freeList'[k] \notin live'
<1> DEFINE c == sender[i]
<1>1. c \in Client /\ ics \in [Client -> SUBSET IC]
  BY DEF Types
<1>2. /\ live' = live \ {i} /\ paths' = paths \ {i} /\ ics' = [ics EXCEPT ![c] = ics[c] \ {i}]
      /\ UNCHANGED <<nextId, sender>> /\ freeList' = <<i>> \o freeList
      /\ IF ics[c] = {i} THEN senders' = senders \ {c} /\ watched' = watched \ {c}
                         ELSE UNCHANGED <<senders, watched>>
  BY DEF ipc_destroy_input_context, LastOfSender
<1> HIDE DEF c
<1>3. /\ ics'[c] = ics[c] \ {i} /\ \A d \in Client \ {c} : ics'[d] = ics[d]
      /\ ics' \in [Client -> SUBSET IC]
  BY <1>1, <1>2
<1>4. \A d \in Client : ics'[d] = {j \in live' : sender'[j] = d}
  BY <1>2, <1>3 DEF SendersExact, c
<1>5. senders' = {sender'[j] : j \in live'}
  <2>1. i \in ics[c] /\ senders = {sender[j] : j \in live} /\ ics[c] = {j \in live : sender[j] = c}
    BY <1>1 DEF SendersExact, c
  <2>2. CASE ics[c] = {i}
    <3>1. \A j \in live \ {i} : sender[j] # c
      BY <2>1, <2>2
    <3> QED BY <1>2, <2>1, <2>2, <3>1 DEF c
  <2>3. CASE ics[c] # {i}
    <3>1. PICK j \in live \ {i} : sender[j] = c
      BY <2>1, <2>3
    <3>2. c \in {sender[k] : k \in live \ {i}}
      BY <3>1
    <3> QED BY <1>2, <2>1, <2>3, <3>2 DEF c
  <2> QED BY <2>2, <2>3
<1>6. paths' = live' /\ watched' = senders'
  BY <1>2 DEF SendersExact
<1>7. /\ freeList' \in Seq({j \in IC : j < nextId'}) /\ IsInjective(freeList')
      /\ \A k \in 1..Len(freeList') : freeList'[k] \notin live'
  BY <1>2, DestroyedIsFree
<1> QED BY <1>2, <1>3, <1>4, <1>5, <1>6, <1>7 DEF SendersExact

----------------------------------------------------------------------------
OutsideSteps ==
  \/ \E c \in Client : ClientCreates(c) \/ ClientLeaves(c)
  \/ \E i \in IC : ClientDestroys(i)
  \/ ShutdownIsAsked \/ BusReads

LEMMA OutsideInv == ASSUME Inv, OutsideSteps PROVE Inv'
<1>1. Types /\ SendersExact /\ OrphansAreExpected /\ CallsAreAhead
  BY DEF Inv
<1>2. UNCHANGED <<phase, leaving, nextId, freeList, live, sender, paths, senders, ics, watched>>
  BY DEF OutsideSteps, ClientCreates, ClientLeaves, ClientDestroys, ShutdownIsAsked, BusReads, icVars
<1>3. SendersExact'
  BY <1>1, <1>2 DEF SendersExact
<1>4. inbox' \in Seq(Message) /\ CallsAreAhead' /\ OrphansAreExpected'
  <2>1. ASSUME NEW c \in Client, ClientCreates(c)
        PROVE  inbox' \in Seq(Message) /\ CallsAreAhead' /\ OrphansAreExpected'
    <3>1. CreateIC(c) \in Message /\ \A d \in Client : CreateIC(c) = CreateIC(d) => d = c
      BY DEF CreateIC, Message
    <3>2. inbox' = Append(inbox, CreateIC(c)) /\ c \in connected /\ UNCHANGED <<connected, untold>>
      BY <2>1 DEF ClientCreates
    <3> QED BY <1>1, <1>2, <3>1, <3>2, Arrives
  <2>2. ASSUME NEW c \in Client, ClientLeaves(c)
        PROVE  inbox' \in Seq(Message) /\ CallsAreAhead' /\ OrphansAreExpected'
    <3>1. CASE matches[c] > 0
      <4>1. NameGone(c) \in Message /\ \A d \in Client : NameGone(c) # CreateIC(d)
        BY DEF NameGone, CreateIC, Message
      <4>2. inbox' = Append(inbox, NameGone(c)) /\ connected' = connected \ {c} /\ untold' = untold
        BY <2>2, <3>1 DEF ClientLeaves
      <4> QED BY <1>1, <1>2, <4>1, <4>2, Arrives
    <3>2. CASE ~(matches[c] > 0)
      <4>1. inbox' = inbox /\ connected' \cup untold' = connected \cup untold
        BY <2>2, <3>2 DEF ClientLeaves
      <4> QED BY <1>1, <1>2, <4>1 DEF Types, CallsAreAhead, OrphansAreExpected
    <3> QED BY <3>1, <3>2
  <2>3. ASSUME NEW i \in IC, ClientDestroys(i)
        PROVE  inbox' \in Seq(Message) /\ CallsAreAhead' /\ OrphansAreExpected'
    <3>1. DestroyIC(i) \in Message /\ \A d \in Client : DestroyIC(i) # CreateIC(d)
      BY DEF DestroyIC, CreateIC, Message
    <3>2. inbox' = Append(inbox, DestroyIC(i)) /\ UNCHANGED <<connected, untold>>
      BY <2>3 DEF ClientDestroys, busVars
    <3> QED BY <1>1, <1>2, <3>1, <3>2, Arrives
  <2>4. CASE ShutdownIsAsked
    <3>1. Exit \in Message /\ \A d \in Client : Exit # CreateIC(d)
      BY DEF Exit, CreateIC, Message
    <3>2. inbox' = Append(inbox, Exit) /\ UNCHANGED <<connected, untold>>
      BY <2>4 DEF ShutdownIsAsked, busVars
    <3> QED BY <1>1, <1>2, <3>1, <3>2, Arrives
  <2>5. CASE BusReads
    <3>1. UNCHANGED <<inbox, connected, untold>>
      BY <2>5 DEF BusReads
    <3> QED BY <1>1, <1>2, <3>1 DEF Types, CallsAreAhead, OrphansAreExpected
  <2> QED BY <2>1, <2>2, <2>3, <2>4, <2>5 DEF OutsideSteps
<1>5. Types'
  BY <1>1, <1>2, <1>4 DEF Types
<1> QED BY <1>3, <1>4, <1>5 DEF Inv

LEMMA ServerInv == ASSUME Inv, Server PROVE Inv'
<1>1. Types /\ SendersExact /\ OrphansAreExpected /\ CallsAreAhead
  BY DEF Inv
<1>2. UNCHANGED <<connected, untold>>
  BY DEF Server, ipc_new_input_context, inputcontext_destroy_ic, inputcontext_unknown, dbus_filter_name, dbus_shutdown,
         ipc_watch_name, busVars
<1> DEFINE h == Head(inbox)
<1>3. ASSUME inbox # <<>>, inbox' = Tail(inbox)
      PROVE  /\ inbox' \in Seq(Message) /\ h \in Message /\ CallsAreAhead'
             /\ \A m : Contains(inbox, m) => m = h \/ Contains(inbox', m)
             /\ \A c \in Client : h = CreateIC(c) => c \in connected \cup untold \/ Contains(inbox', NameGone(c))
  BY <1>1, <1>2, <1>3, Departs
<1> HIDE DEF h
<1>4. CASE ipc_new_input_context
  <2> DEFINE c == h.client
             i == NewId
  <2>1. /\ h.type = "CreateIC" /\ i \in IC /\ live' = live \cup {i} /\ paths' = paths \cup {i}
        /\ sender' = [sender EXCEPT ![i] = c] /\ ics' = [ics EXCEPT ![c] = ics[c] \cup {i}]
        /\ senders' = senders \cup {c} /\ watched' = watched \cup {c}
        /\ IF freeList # <<>> THEN freeList' = Tail(freeList) /\ nextId' = nextId
                              ELSE nextId' = i + 1 /\ freeList' = freeList
        /\ phase = "running" /\ UNCHANGED <<phase, leaving>> /\ inbox # <<>> /\ inbox' = Tail(inbox)
    BY <1>4 DEF ipc_new_input_context, Dispatch, h
  <2>2. c \in Client /\ h = CreateIC(c)
    BY <1>3, <2>1 DEF Message, CreateIC
  <2> HIDE DEF c
  <2>3. /\ i \notin live /\ nextId' \in Int /\ i < nextId' /\ \A j \in live : j < nextId'
        /\ freeList' \in Seq({j \in IC : j < nextId'}) /\ IsInjective(freeList')
        /\ \A k \in 1..Len(freeList') : freeList'[k] \notin live'
    <3>1. /\ i \notin live /\ i < nextId' /\ nextId' \in Int /\ nextId <= nextId'
          /\ freeList' \in Seq({j \in IC : j < nextId'}) /\ IsInjective(freeList')
          /\ \A k \in 1..Len(freeList') : freeList'[k] \notin live'
      BY <1>1, <2>1, NewIdIsFree
    <3>2. nextId \in Int /\ \A j \in live : j \in Int /\ j < nextId
      BY <1>1 DEF Types, IC
    <3> QED BY <3>1, <3>2
  <2> HIDE DEF i
  <2>4. sender'[i] = c /\ \A j \in live : sender'[j] = sender[j]
    BY <1>1, <2>1, <2>3 DEF Types
  <2>5. ics'[c] = ics[c] \cup {i} /\ \A d \in Client \ {c} : ics'[d] = ics[d]
    BY <1>1, <2>1, <2>2 DEF Types
  <2>6. Types'
    <3>1. ics' \in [Client -> SUBSET IC] /\ sender' \in [IC -> Client \cup {None}]
      BY <1>1, <2>1, <2>2 DEF Types
    <3>2. \A j \in live' : j < nextId' /\ sender'[j] \in Client
      BY <1>1, <2>1, <2>2, <2>3, <2>4 DEF Types
    <3> QED BY <1>1, <1>3, <2>1, <2>3, <3>1, <3>2 DEF Types
  <2>7. SendersExact'
    <3>1. \A d \in Client : ics'[d] = {j \in live' : sender'[j] = d}
      BY <1>1, <2>1, <2>3, <2>4, <2>5 DEF SendersExact
    <3>2. senders' = {sender'[j] : j \in live'}
      BY <1>1, <2>1, <2>3, <2>4 DEF SendersExact
    <3> QED BY <1>1, <2>1, <3>1, <3>2 DEF SendersExact
  <2>8. OrphansAreExpected'
    <3>1. c \in connected \cup untold \/ Contains(inbox', NameGone(c))
      BY <1>3, <2>1, <2>2
    <3>2. \A m : Contains(inbox, m) => m = h \/ Contains(inbox', m)
      BY <1>3, <2>1
    <3>3. \A d : NameGone(d) # h
      BY <2>1 DEF NameGone
    <3> QED BY <1>1, <1>2, <2>1, <2>4, <3>1, <3>2, <3>3 DEF OrphansAreExpected
  <2> QED BY <1>3, <2>1, <2>6, <2>7, <2>8 DEF Inv
<1>5. CASE inputcontext_destroy_ic
  <2> DEFINE i == h.ic
  <2>1. /\ phase = "running" /\ UNCHANGED <<phase, leaving>> /\ inbox # <<>> /\ inbox' = Tail(inbox)
        /\ i \in live /\ ipc_destroy_input_context(i) /\ h.type = "DestroyIC"
    BY <1>5 DEF inputcontext_destroy_ic, Dispatch, h
  <2> HIDE DEF i
  <2>2. /\ SendersExact' /\ live' = live \ {i} /\ sender' = sender /\ ics' \in [Client -> SUBSET IC] /\ nextId' = nextId
        /\ freeList' \in Seq({j \in IC : j < nextId'}) /\ IsInjective(freeList')
        /\ \A k \in 1..Len(freeList') : freeList'[k] \notin live'
    BY <1>1, <2>1, DestroyIsExact
  <2>3. Types'
    BY <1>1, <1>3, <2>1, <2>2 DEF Types
  <2>4. OrphansAreExpected'
    <3>1. \A d : Contains(inbox, NameGone(d)) => Contains(inbox', NameGone(d))
      BY <1>3, <2>1 DEF NameGone
    <3> QED BY <1>1, <1>2, <2>1, <2>2, <3>1 DEF OrphansAreExpected
  <2> QED BY <1>3, <2>1, <2>2, <2>3, <2>4 DEF Inv
<1>6. CASE inputcontext_unknown \/ dbus_shutdown
  <2>1. /\ inbox # <<>> /\ inbox' = Tail(inbox) /\ h.type \in {"DestroyIC", "Exit"}
        /\ UNCHANGED <<phase, leaving, nextId, freeList, live, sender, paths, senders, ics, watched>>
    BY <1>6 DEF inputcontext_unknown, dbus_shutdown, Dispatch, icVars, h
  <2>2. Types' /\ SendersExact'
    BY <1>1, <1>3, <2>1 DEF Types, SendersExact
  <2>3. \A d : Contains(inbox, NameGone(d)) => Contains(inbox', NameGone(d))
    BY <1>3, <2>1 DEF NameGone
  <2>4. OrphansAreExpected'
    BY <1>1, <1>2, <2>1, <2>3 DEF OrphansAreExpected
  <2> QED BY <1>3, <2>1, <2>2, <2>4 DEF Inv
<1>7. CASE dbus_filter_name
  <2> DEFINE c == h.client
  <2>1. /\ phase = "running" /\ h.type = "NameOwnerChanged" /\ inbox # <<>> /\ inbox' = Tail(inbox)
        /\ IF c \in watched /\ c \in senders THEN phase' = "leaving" /\ leaving' = c ELSE UNCHANGED <<phase, leaving>>
        /\ UNCHANGED <<nextId, freeList, live, sender, paths, senders, ics, watched>>
    BY <1>7 DEF dbus_filter_name, Dispatch, icVars, h
  <2>2. c \in Client /\ h = NameGone(c)
    BY <1>3, <2>1 DEF Message, NameGone
  <2>3. leaving = None /\ c # None
    BY <1>1, <2>1, <2>2, IpcAssumption DEF Types
  <2> HIDE DEF c
  <2>4. Types' /\ SendersExact'
    BY <1>1, <1>3, <2>1, <2>2, <2>3 DEF Types, SendersExact
  <2>5. OrphansAreExpected'
    <3> SUFFICES ASSUME NEW i \in live
                 PROVE  \/ sender[i] \in connected \cup untold
                        \/ Contains(inbox', NameGone(sender[i]))
                        \/ leaving' = sender[i]
      BY <1>2, <2>1 DEF OrphansAreExpected
    <3>1. CASE sender[i] = c
      BY <1>1, <2>1, <3>1 DEF SendersExact
    <3>2. CASE sender[i] # c
      <4>1. sender[i] \in Client /\ sender[i] # None
        BY <1>1, IpcAssumption DEF Types
      <4>2. NameGone(sender[i]) # h
        BY <2>2, <3>2 DEF NameGone
      <4>3. Contains(inbox, NameGone(sender[i])) => Contains(inbox', NameGone(sender[i]))
        BY <1>3, <2>1, <4>2
      <4> QED BY <1>1, <2>1, <2>3, <4>1, <4>3 DEF OrphansAreExpected
    <3> QED BY <3>1, <3>2
  <2> QED BY <1>3, <2>1, <2>4, <2>5 DEF Inv
<1>8. ASSUME NEW i \in IC, ipc_watch_name(i) PROVE Inv'
  <2>1. /\ phase = "leaving" /\ i \in ics[leaving] /\ ipc_destroy_input_context(i) /\ inbox' = inbox
        /\ IF ics[leaving] # {i} THEN UNCHANGED <<phase, leaving>> ELSE phase' = "running" /\ leaving' = None
    BY <1>8 DEF ipc_watch_name, MoreAfter
  <2>2. leaving \in Client /\ ics[leaving] = {j \in live : sender[j] = leaving}
    BY <1>1, <2>1 DEF Types, SendersExact
  <2>3. i \in live
    BY <2>1, <2>2
  <2>4. /\ SendersExact' /\ live' = live \ {i} /\ sender' = sender /\ ics' \in [Client -> SUBSET IC] /\ nextId' = nextId
        /\ freeList' \in Seq({j \in IC : j < nextId'}) /\ IsInjective(freeList')
        /\ \A k \in 1..Len(freeList') : freeList'[k] \notin live'
    BY <1>1, <2>1, <2>3, DestroyIsExact
  <2>5. Types' /\ CallsAreAhead'
    BY <1>1, <1>2, <2>1, <2>4 DEF Types, CallsAreAhead
  <2>6. OrphansAreExpected'
    <3>1. ASSUME NEW j \in live', leaving' # leaving PROVE sender[j] # leaving
      BY <2>1, <2>2, <2>4, <3>1
    <3> QED BY <1>1, <1>2, <2>1, <2>4, <3>1 DEF OrphansAreExpected
  <2> QED BY <2>4, <2>5, <2>6 DEF Inv
<1> QED BY <1>4, <1>5, <1>6, <1>7, <1>8 DEF Server

LEMMA EndInv == ASSUME Inv, End PROVE Inv'
<1>1. Types /\ SendersExact /\ OrphansAreExpected /\ CallsAreAhead
  BY DEF Inv
<1>2. UNCHANGED <<inbox, connected, untold, leaving>>
  BY DEF End, mainloop_returns, ipc_destroy, dbus_destroy, destroy_all_input_context, Stage, busVars
<1>3. CallsAreAhead'
  BY <1>1, <1>2 DEF CallsAreAhead
<1>4. CASE mainloop_returns \/ ipc_destroy \/ dbus_destroy
  <2>1. /\ phase \in {"running", "stopping", "unloaded"} /\ phase' \in {"stopping", "unloaded", "gone"}
        /\ UNCHANGED <<nextId, freeList, live, sender, paths>>
    BY <1>4 DEF mainloop_returns, ipc_destroy, dbus_destroy, Stage
  <2>2. OrphansAreExpected'
    BY <2>1 DEF OrphansAreExpected
  <2>3. CASE mainloop_returns
    <3>1. phase' = "stopping" /\ phase = "running" /\ UNCHANGED <<senders, ics, watched>>
      BY <2>3 DEF mainloop_returns, Stage
    <3>2. Types' /\ SendersExact'
      BY <1>1, <1>2, <2>1, <3>1 DEF Types, SendersExact
    <3> QED BY <1>3, <2>2, <3>2 DEF Inv
  <2>4. CASE ipc_destroy \/ dbus_destroy
    <3>1. live = {} /\ phase # "running"
      BY <1>1, <2>4 DEF ipc_destroy, dbus_destroy, AllDestroyed, Stage, SendersExact
    <3>2. /\ senders = {} /\ watched = {} /\ \A c \in Client : ics[c] = {}
      BY <1>1, <3>1 DEF SendersExact
    <3>3. /\ senders' = {} /\ watched' = {} /\ ics' \in [Client -> SUBSET IC] /\ \A c \in Client : ics'[c] = {}
      BY <1>1, <2>4, <3>2 DEF ipc_destroy, dbus_destroy, Types
    <3>4. Types'
      BY <1>1, <1>2, <2>1, <3>1, <3>3 DEF Types
    <3>5. SendersExact'
      BY <1>1, <2>1, <3>1, <3>3 DEF SendersExact
    <3> QED BY <1>3, <2>2, <3>4, <3>5 DEF Inv
  <2> QED BY <1>4, <2>3, <2>4
<1>5. ASSUME NEW i \in IC, destroy_all_input_context(i) PROVE Inv'
  <2>1. phase = "stopping" /\ phase' = phase /\ i \in live /\ ipc_destroy_input_context(i)
    BY <1>5 DEF destroy_all_input_context
  <2>2. /\ SendersExact' /\ live' = live \ {i} /\ sender' = sender /\ ics' \in [Client -> SUBSET IC] /\ nextId' = nextId
        /\ freeList' \in Seq({j \in IC : j < nextId'}) /\ IsInjective(freeList')
        /\ \A k \in 1..Len(freeList') : freeList'[k] \notin live'
    BY <1>1, <2>1, DestroyIsExact
  <2>3. Types' /\ OrphansAreExpected'
    BY <1>1, <1>2, <2>1, <2>2 DEF Types, OrphansAreExpected
  <2> QED BY <1>3, <2>2, <2>3 DEF Inv
<1> QED BY <1>4, <1>5 DEF End

LEMMA Invariant == Spec => []Inv
<1>1. Init => Inv
  <2> SUFFICES ASSUME Init PROVE Inv
    OBVIOUS
  <2>1. Types
    <3>1. [c \in Client |-> {}] \in [Client -> SUBSET IC] /\ [i \in IC |-> None] \in [IC -> Client \cup {None}]
      OBVIOUS
    <3>2. <<>> \in Seq({i \in IC : i < nextId}) /\ Len(<<>>) = 0 /\ IsInjective(<<>>)
      BY DEF IsInjective
    <3> QED BY <3>1, <3>2 DEF Init, Types
  <2>2. SendersExact
    BY DEF Init, SendersExact
  <2>3. OrphansAreExpected /\ CallsAreAhead
    BY DEF Init, OrphansAreExpected, CallsAreAhead
  <2> QED BY <2>1, <2>2, <2>3 DEF Inv
<1>2. Inv /\ [Next]_vars => Inv'
  <2> SUFFICES ASSUME Inv, [Next]_vars PROVE Inv'
    OBVIOUS
  <2>1. CASE Next
    BY <2>1, OutsideInv, ServerInv, EndInv DEF Next, OutsideSteps
  <2>2. CASE UNCHANGED vars
    BY <2>2 DEF vars, busVars, icVars, Inv, Types, SendersExact, OrphansAreExpected, CallsAreAhead
  <2> QED BY <2>1, <2>2
<1> QED BY <1>1, <1>2, PTL DEF Spec

(* Contexts, senders, object paths and watched names always agree          *)
(* (ipc.c:155-201, 537-580).                                               *)
THEOREM SendersAreExact == Spec => []SendersExact
<1>1. Inv => SendersExact
  BY DEF Inv
<1> QED BY <1>1, Invariant, PTL

(* A context whose client has left is about to be destroyed, unless the    *)
(* client left before it was watched (ipc.c:189-195, 537-560).             *)
THEOREM OrphansAreAlwaysExpected == Spec => []OrphansAreExpected
<1>1. Inv => OrphansAreExpected
  BY DEF Inv
<1> QED BY <1>1, Invariant, PTL

----------------------------------------------------------------------------
(***************************************************************************)
(* The match rules.  The requests and the rules are taken as values, o and *)
(* m, so that what a request or the bus does to them is a fact about       *)
(* sequences.                                                              *)
(***************************************************************************)
Request == [name : Client, change : {1, -1}]

After(o, m, c, k) ==
  \/ {j \in 1..k : o[j].name = c} = {} /\ m[c] = 1
  \/ \E j \in {j \in 1..k : o[j].name = c} :
       o[j].change = 1 /\ \A l \in {l \in 1..k : o[l].name = c} : l <= j

Follows(o, m) == \A k \in 1..Len(o) : o[k].change = 1 <=> ~After(o, m, o[k].name, k - 1)

Rules ==
  /\ outbox \in Seq(Request) /\ matches \in [Client -> {0, 1}]
  /\ Follows(outbox, matches)
  /\ \A c \in Client : After(outbox, matches, c, Len(outbox)) <=> c \in watched

LEMMA RulesAreExact == Rules => MatchesExact
BY DEF Rules, Follows, After, MatchesExact, InForceAfter, Requests

(* After, without the sets.                                                *)
LEMMA AfterMeans ==
  ASSUME NEW o, NEW m, NEW c, NEW k
  PROVE  After(o, m, c, k) <=>
           \/ m[c] = 1 /\ \A j \in 1..k : o[j].name # c
           \/ \E j \in 1..k : /\ o[j].name = c /\ o[j].change = 1
                              /\ \A l \in 1..k : o[l].name = c => l <= j
BY DEF After

(* A request behind the others decides on its own name only.               *)
LEMMA Asked ==
  ASSUME NEW o \in Seq(Request), NEW m, NEW r \in Request, Follows(o, m),
         r.change = 1 <=> ~After(o, m, r.name, Len(o))
  PROVE  LET n == Append(o, r) IN
         /\ n \in Seq(Request) /\ Follows(n, m)
         /\ \A c \in Client : After(n, m, c, Len(n)) <=>
              IF c = r.name THEN r.change = 1 ELSE After(o, m, c, Len(o))
<1> DEFINE n == Append(o, r)
<1>1. /\ Len(o) \in Nat /\ n \in Seq(Request) /\ Len(n) = Len(o) + 1 /\ n[Len(o) + 1] = r
      /\ \A k \in 1..Len(o) : n[k] = o[k]
  OBVIOUS
<1> HIDE DEF n
<1>2. ASSUME NEW c, NEW k \in 0..Len(o) PROVE After(n, m, c, k) <=> After(o, m, c, k)
  <2>1. \A j \in 1..k : j \in 1..Len(o) /\ n[j] = o[j]
    BY <1>1
  <2>2. /\ (\A j \in 1..k : n[j].name # c) <=> (\A j \in 1..k : o[j].name # c)
        /\ \A j \in 1..k : (\A l \in 1..k : n[l].name = c => l <= j) <=> (\A l \in 1..k : o[l].name = c => l <= j)
    BY <2>1
  <2> QED BY <2>1, <2>2, AfterMeans
<1>3. Follows(n, m)
  <2> SUFFICES ASSUME NEW k \in 1..Len(n)
               PROVE  n[k].change = 1 <=> ~After(n, m, n[k].name, k - 1)
    BY DEF Follows
  <2>1. k - 1 \in 0..Len(o) /\ (k = Len(o) + 1 \/ k \in 1..Len(o))
    BY <1>1
  <2>2. After(n, m, n[k].name, k - 1) <=> After(o, m, n[k].name, k - 1)
    BY <1>2, <2>1
  <2>3. CASE k = Len(o) + 1
    <3>1. k - 1 = Len(o) /\ n[k] = r
      BY <1>1, <2>3
    <3> QED BY <2>2, <3>1
  <2>4. CASE k \in 1..Len(o)
    BY <1>1, <2>2, <2>4 DEF Follows
  <2> QED BY <2>1, <2>3, <2>4
<1>4. ASSUME NEW c \in Client
      PROVE  After(n, m, c, Len(n)) <=> IF c = r.name THEN r.change = 1 ELSE After(o, m, c, Len(o))
  <2>1. 1..Len(n) = (1..Len(o)) \cup {Len(n)} /\ n[Len(n)] = r /\ \A k \in 1..Len(o) : Len(n) > k /\ Len(n) \in Nat
    BY <1>1
  <2>2. CASE c = r.name
    <3>1. ~\A j \in 1..Len(n) : n[j].name # c
      BY <2>1, <2>2
    <3>2. \A l \in 1..Len(n) : l <= Len(n)
      BY <1>1
    <3>3. ASSUME NEW j \in 1..Len(n), \A l \in 1..Len(n) : n[l].name = c => l <= j PROVE j = Len(n)
      <4>1. Len(n) <= j
        BY <2>1, <2>2, <3>3
      <4> QED BY <1>1, <4>1
    <3> QED BY <2>1, <2>2, <3>1, <3>2, <3>3, AfterMeans
  <2>3. CASE c # r.name
    <3>1. /\ (\A j \in 1..Len(n) : n[j].name # c) <=> (\A j \in 1..Len(o) : n[j].name # c)
          /\ \A j : (\A l \in 1..Len(n) : n[l].name = c => l <= j) <=> (\A l \in 1..Len(o) : n[l].name = c => l <= j)
      BY <2>1, <2>3
    <3>2. After(n, m, c, Len(n)) <=> After(n, m, c, Len(o))
      BY <2>1, <2>3, <3>1, AfterMeans
    <3> QED BY <1>1, <1>2, <2>3, <3>2
  <2> QED BY <2>2, <2>3
<1> QED BY <1>1, <1>3, <1>4 DEF n

(* What the bus has read counts among the rules, and nothing else changes. *)
LEMMA Read ==
  ASSUME NEW o \in Seq(Request), NEW m \in [Client -> {0, 1}], Follows(o, m), o # <<>>
  PROVE  LET t == Tail(o)
             w == [m EXCEPT ![Head(o).name] = @ + Head(o).change]
         IN /\ t \in Seq(Request) /\ w \in [Client -> {0, 1}] /\ Follows(t, w)
            /\ \A c \in Client : After(t, w, c, Len(t)) <=> After(o, m, c, Len(o))
<1> DEFINE t == Tail(o)
           h == Head(o)
           w == [m EXCEPT ![h.name] = @ + h.change]
<1>1. /\ Len(o) \in Nat /\ Len(o) >= 1 /\ Len(t) = Len(o) - 1 /\ h = o[1] /\ h \in Request /\ t \in Seq(Request)
      /\ \A k \in 1..Len(t) : t[k] = o[k + 1]
      /\ \A k \in 1..Len(o) : o[k] \in Request
  OBVIOUS
<1> HIDE DEF t
<1>2. h.change = 1 <=> m[h.name] # 1
  <2>1. h.change = 1 <=> ~After(o, m, h.name, 0)
    BY <1>1 DEF Follows
  <2>2. After(o, m, h.name, 0) <=> m[h.name] = 1
    BY AfterMeans
  <2> QED BY <2>1, <2>2
<1>3. w \in [Client -> {0, 1}] /\ \A c \in Client : w[c] = 1 <=> IF c = h.name THEN h.change = 1 ELSE m[c] = 1
  <2>1. h.name \in Client /\ h.change \in {1, -1} /\ m[h.name] \in {0, 1}
    BY <1>1 DEF Request
  <2>2. m[h.name] + h.change = IF h.change = 1 THEN 1 ELSE 0
    BY <1>2, <2>1
  <2>3. w[h.name] = (IF h.change = 1 THEN 1 ELSE 0) /\ \A c \in Client \ {h.name} : w[c] = m[c]
    BY <2>1, <2>2
  <2>4. w \in [Client -> {0, 1}]
    BY <2>1, <2>2
  <2> QED BY <2>1, <2>3, <2>4
<1> HIDE DEF w
<1>4. ASSUME NEW c \in Client, NEW k \in 0..Len(t) PROVE After(t, w, c, k) <=> After(o, m, c, k + 1)
  <2>1. \A j \in 1..k : j + 1 \in 1..(k + 1) /\ j + 1 > 1 /\ t[j] = o[j + 1]
    <3>1. \A j \in 1..k : j + 1 \in 1..(k + 1) /\ j + 1 > 1 /\ j \in 1..Len(t)
      BY <1>1
    <3> QED BY <1>1, <3>1
  <2>2. \A j \in 1..(k + 1) : j = 1 \/ (j - 1 \in 1..k /\ o[j] = t[j - 1])
    <3>1. \A j \in 1..(k + 1) : j = 1 \/ (j - 1 \in 1..k /\ (j - 1) + 1 = j)
      OBVIOUS
    <3> QED BY <2>1, <3>1
  <2>3. 1 \in 1..(k + 1) /\ o[1] = h /\ h.name \in Client
    BY <1>1 DEF Request
  <2>4. (\A j \in 1..(k + 1) : o[j].name # c) <=> (h.name # c /\ \A j \in 1..k : t[j].name # c)
    <3>1. ASSUME \A j \in 1..(k + 1) : o[j].name # c PROVE h.name # c /\ \A j \in 1..k : t[j].name # c
      BY <2>1, <2>3, <3>1
    <3>2. ASSUME h.name # c, \A j \in 1..k : t[j].name # c, NEW j \in 1..(k + 1) PROVE o[j].name # c
      BY <2>2, <2>3, <3>2
    <3> QED BY <3>1, <3>2
  <2>5. \A j \in 1..k : (\A l \in 1..(k + 1) : o[l].name = c => l <= j + 1)
                          <=> (\A l \in 1..k : t[l].name = c => l <= j)
    <3> SUFFICES ASSUME NEW j \in 1..k
                 PROVE  (\A l \in 1..(k + 1) : o[l].name = c => l <= j + 1)
                          <=> (\A l \in 1..k : t[l].name = c => l <= j)
      OBVIOUS
    <3>1. ASSUME \A l \in 1..(k + 1) : o[l].name = c => l <= j + 1, NEW l \in 1..k, t[l].name = c PROVE l <= j
      <4>1. l + 1 <= j + 1
        BY <2>1, <3>1
      <4> QED BY <4>1
    <3>2. ASSUME \A l \in 1..k : t[l].name = c => l <= j, NEW l \in 1..(k + 1), o[l].name = c PROVE l <= j + 1
      <4>1. CASE l = 1
        BY <4>1
      <4>2. CASE l # 1
        <5>1. l - 1 <= j
          BY <2>2, <3>2, <4>2
        <5> QED BY <5>1
      <4> QED BY <4>1, <4>2
    <3> QED BY <3>1, <3>2
  <2>6. (\A l \in 1..(k + 1) : o[l].name = c => l <= 1) <=> \A j \in 1..k : t[j].name # c
    <3>1. ASSUME \A l \in 1..(k + 1) : o[l].name = c => l <= 1, NEW j \in 1..k PROVE t[j].name # c
      <4>1. ~(j + 1 <= 1)
        OBVIOUS
      <4> QED BY <2>1, <3>1, <4>1
    <3>2. ASSUME \A j \in 1..k : t[j].name # c, NEW l \in 1..(k + 1), o[l].name = c PROVE l <= 1
      BY <2>2, <3>2
    <3> QED BY <3>1, <3>2
  <2>7. (\E j \in 1..(k + 1) : /\ o[j].name = c /\ o[j].change = 1
                               /\ \A l \in 1..(k + 1) : o[l].name = c => l <= j)
          <=> \/ h.name = c /\ h.change = 1 /\ \A j \in 1..k : t[j].name # c
              \/ \E j \in 1..k : /\ t[j].name = c /\ t[j].change = 1
                                 /\ \A l \in 1..k : t[l].name = c => l <= j
    <3> DEFINE Latest(j) == /\ o[j].name = c /\ o[j].change = 1
                            /\ \A l \in 1..(k + 1) : o[l].name = c => l <= j
               TailLatest(j) == /\ t[j].name = c /\ t[j].change = 1
                                /\ \A l \in 1..k : t[l].name = c => l <= j
    <3>1. Latest(1) <=> h.name = c /\ h.change = 1 /\ \A j \in 1..k : t[j].name # c
      BY <2>3, <2>6
    <3>2. \A j \in 1..k : Latest(j + 1) <=> TailLatest(j)
      BY <2>1, <2>5
    <3> HIDE DEF Latest, TailLatest
    <3>3. \A j \in 1..(k + 1) : j = 1 \/ (j - 1 \in 1..k /\ j = (j - 1) + 1)
      BY <2>2
    <3>4. (\E j \in 1..(k + 1) : Latest(j)) <=> Latest(1) \/ \E j \in 1..k : TailLatest(j)
      BY <2>1, <2>3, <3>2, <3>3
    <3> QED BY <3>1, <3>4 DEF Latest, TailLatest
  <2> QED BY <1>3, <2>4, <2>7, AfterMeans
<1>5. Follows(t, w)
  <2> SUFFICES ASSUME NEW k \in 1..Len(t)
               PROVE  t[k].change = 1 <=> ~After(t, w, t[k].name, k - 1)
    BY DEF Follows
  <2>1. k - 1 \in 0..Len(t) /\ k + 1 \in 1..Len(o) /\ t[k] = o[k + 1] /\ t[k].name \in Client
    BY <1>1 DEF Request
  <2>2. After(t, w, t[k].name, k - 1) <=> After(o, m, t[k].name, (k - 1) + 1)
    BY <1>4, <2>1
  <2>3. (k - 1) + 1 = (k + 1) - 1
    OBVIOUS
  <2>4. o[k + 1].change = 1 <=> ~After(o, m, o[k + 1].name, (k + 1) - 1)
    BY <2>1 DEF Follows
  <2> QED BY <2>1, <2>2, <2>3, <2>4
<1>6. \A c \in Client : After(t, w, c, Len(t)) <=> After(o, m, c, Len(o))
  <2>1. Len(t) \in 0..Len(t) /\ Len(t) + 1 = Len(o)
    BY <1>1
  <2> QED BY <1>4, <2>1
<1> QED BY <1>1, <1>3, <1>5, <1>6 DEF t, w

(* Watching a name that is not watched, or ceasing to watch one that is.   *)
LEMMA WatchChanges ==
  ASSUME Rules, NEW c \in Client, NEW v \in {1, -1}, v = 1 <=> c \notin watched, matches' = matches,
         outbox' = Append(outbox, [name |-> c, change |-> v]),
         watched' = IF v = 1 THEN watched \cup {c} ELSE watched \ {c}
  PROVE  Rules'
<1> DEFINE r == [name |-> c, change |-> v]
<1>1. r \in Request /\ r.name = c /\ r.change = v
  BY DEF Request
<1>2. /\ outbox \in Seq(Request) /\ matches \in [Client -> {0, 1}] /\ Follows(outbox, matches)
      /\ \A d \in Client : After(outbox, matches, d, Len(outbox)) <=> d \in watched
  BY DEF Rules
<1> HIDE DEF r
<1>3. /\ Append(outbox, r) \in Seq(Request) /\ Follows(Append(outbox, r), matches)
      /\ \A d \in Client : After(Append(outbox, r), matches, d, Len(Append(outbox, r))) <=>
           IF d = c THEN v = 1 ELSE After(outbox, matches, d, Len(outbox))
  <2>1. r.change = 1 <=> ~After(outbox, matches, r.name, Len(outbox))
    BY <1>1, <1>2
  <2>2. /\ Append(outbox, r) \in Seq(Request) /\ Follows(Append(outbox, r), matches)
        /\ \A d \in Client : After(Append(outbox, r), matches, d, Len(Append(outbox, r))) <=>
             IF d = r.name THEN r.change = 1 ELSE After(outbox, matches, d, Len(outbox))
    BY <1>1, <1>2, <2>1, Asked
  <2> QED BY <1>1, <2>2
<1>4. outbox' = Append(outbox, r)
  BY DEF r
<1>5. \A d \in Client : After(outbox', matches', d, Len(outbox')) <=> d \in watched'
  BY <1>2, <1>3, <1>4
<1> QED BY <1>2, <1>3, <1>4, <1>5 DEF Rules

LEMMA DestroyKeepsRules ==
  ASSUME Inv, Rules, NEW i \in live, ipc_destroy_input_context(i), matches' = matches
  PROVE  Rules'
<1>1. sender[i] \in Client /\ sender[i] \in watched
  BY DEF Inv, Types, SendersExact
<1>2. CASE LastOfSender(i)
  <2> DEFINE c == sender[i]
  <2>1. watched' = watched \ {c} /\ outbox' = Append(outbox, [name |-> c, change |-> -1])
    BY <1>2 DEF ipc_destroy_input_context, RemoveMatch
  <2>2. c \in Client /\ c \in watched
    BY <1>1
  <2> HIDE DEF c
  <2>3. -1 \in {1, -1} /\ (-1 = 1 <=> c \notin watched)
    BY <2>2
  <2>4. watched' = IF -1 = 1 THEN watched \cup {c} ELSE watched \ {c}
    BY <2>1
  <2> QED BY <2>1, <2>2, <2>3, <2>4, WatchChanges
<1>3. CASE ~LastOfSender(i)
  BY <1>3 DEF ipc_destroy_input_context, Rules
<1> QED BY <1>2, <1>3

(* Nothing is watched any more when the module takes its rules back.       *)
LEMMA NothingToTakeBack == SetToSeq({RemoveMatch(c) : c \in {}}) = <<>>
<1>1. {RemoveMatch(c) : c \in {}} = {} /\ Cardinality({}) = 0
  BY FS_EmptySet
<1>2. <<>> \in [1..0 -> {}] /\ IsInjective(<<>>)
  BY DEF IsInjective
<1>3. SetToSeq({}) \in [1..0 -> {}]
  BY <1>1, <1>2 DEF SetToSeq
<1> QED BY <1>1, <1>3

LEMMA RulesStep == ASSUME Inv, Rules, [Next]_vars PROVE Rules'
<1>1. Types /\ SendersExact
  BY DEF Inv
<1>2. ASSUME UNCHANGED <<outbox, matches, watched>> PROVE Rules'
  BY <1>2 DEF Rules
<1>3. CASE OutsideSteps
  <2>1. CASE BusReads
    <3> DEFINE w == [matches EXCEPT ![Head(outbox).name] = @ + Head(outbox).change]
    <3>1. outbox # <<>> /\ outbox' = Tail(outbox) /\ matches' = w /\ watched' = watched
      BY <2>1 DEF BusReads, icVars
    <3>2. /\ Tail(outbox) \in Seq(Request) /\ w \in [Client -> {0, 1}] /\ Follows(Tail(outbox), w)
          /\ \A c \in Client : After(Tail(outbox), w, c, Len(Tail(outbox))) <=> After(outbox, matches, c, Len(outbox))
      BY <3>1, Read DEF Rules
    <3> HIDE DEF w
    <3> QED BY <3>1, <3>2 DEF Rules
  <2>2. CASE ~BusReads
    BY <1>2, <1>3, <2>2 DEF OutsideSteps, ClientCreates, ClientLeaves, ClientDestroys, ShutdownIsAsked, busVars, icVars
  <2> QED BY <2>1, <2>2
<1>4. CASE ipc_new_input_context
  <2> DEFINE c == Head(inbox).client
  <2>1. /\ inbox # <<>> /\ Head(inbox).type = "CreateIC" /\ matches' = matches /\ watched' = watched \cup {c}
        /\ outbox' = IF c \notin senders THEN Append(outbox, AddMatch(c)) ELSE outbox
    BY <1>4 DEF ipc_new_input_context, Dispatch, NewSender, busVars
  <2>2. c \in Client
    <3>1. Head(inbox) \in Message
      BY <1>1, <2>1 DEF Types
    <3> QED BY <2>1, <3>1 DEF Message
  <2>3. senders = watched
    BY <1>1 DEF SendersExact
  <2> HIDE DEF c
  <2>4. CASE c \in watched
    BY <1>2, <2>1, <2>3, <2>4
  <2>5. CASE c \notin watched
    BY <2>1, <2>2, <2>3, <2>5, WatchChanges DEF AddMatch
  <2> QED BY <2>4, <2>5
<1>5. CASE inputcontext_destroy_ic
  BY <1>5, DestroyKeepsRules DEF inputcontext_destroy_ic, busVars
<1>6. CASE inputcontext_unknown \/ dbus_filter_name \/ dbus_shutdown \/ mainloop_returns
  BY <1>2, <1>6 DEF inputcontext_unknown, dbus_filter_name, dbus_shutdown, mainloop_returns, Stage, busVars, icVars
<1>7. ASSUME NEW i \in IC, ipc_watch_name(i) PROVE Rules'
  <2>1. leaving \in Client /\ i \in ics[leaving] /\ ipc_destroy_input_context(i) /\ matches' = matches
    BY <1>1, <1>7 DEF ipc_watch_name, Types, busVars
  <2>2. i \in live
    BY <1>1, <2>1 DEF SendersExact
  <2> QED BY <2>1, <2>2, DestroyKeepsRules
<1>8. ASSUME NEW i \in IC, destroy_all_input_context(i) PROVE Rules'
  BY <1>8, DestroyKeepsRules DEF destroy_all_input_context, busVars
<1>9. CASE ipc_destroy
  BY <1>2, <1>9 DEF ipc_destroy, Stage, busVars
<1>10. CASE dbus_destroy
  <2>1. watched = {}
    BY <1>1, <1>10 DEF dbus_destroy, Stage, SendersExact
  <2>2. outbox' = outbox \o <<>> /\ matches' = matches /\ watched' = {}
    BY <1>10, <2>1, NothingToTakeBack DEF dbus_destroy, Stage, busVars
  <2>3. outbox' = outbox
    BY <2>2 DEF Rules
  <2> QED BY <1>2, <2>1, <2>2, <2>3
<1>11. CASE UNCHANGED vars
  BY <1>2, <1>11 DEF vars, busVars, icVars
<1> QED BY <1>3, <1>4, <1>5, <1>6, <1>7, <1>8, <1>9, <1>10, <1>11 DEF Next, OutsideSteps, Server, End

(* The match rules of the bus, with the requests on their way, are those   *)
(* of the watched names (ipc.c:155-201, dbusmodule.c:467-569).             *)
THEOREM MatchesAreExact == Spec => []MatchesExact
<1>1. Init => Rules
  <2> SUFFICES ASSUME Init PROVE Rules
    OBVIOUS
  <2>1. outbox \in Seq(Request) /\ Len(outbox) = 0 /\ matches = [c \in Client |-> 0]
    BY DEF Init
  <2>2. \A c \in Client : ~After(outbox, matches, c, Len(outbox))
    BY <2>1, AfterMeans
  <2> QED BY <2>1, <2>2 DEF Rules, Follows, Init
<1>2. Inv /\ Rules /\ [Next]_vars => Rules'
  BY RulesStep
<1> QED BY <1>1, <1>2, Invariant, RulesAreExact, PTL DEF Spec
=============================================================================
