------------------------------- MODULE HandlerMap -------------------------------
(***************************************************************************)
(* What FcitxHandlerTable promises (lib/fcitx-utils/handler-table.h): for  *)
(* each key a sequence of handlers, each with an id that is unique while   *)
(* the handler is there; keys and handlers are told when they go.          *)
(***************************************************************************)
EXTENDS FcitxList, Functions

CONSTANTS Key, Obj, Id

VARIABLES
  order,     \* the keys, oldest first
  handlers,  \* the ids of each key's handlers, in order
  value,     \* the handler an id stands for
  calls      \* callbacks of the last operation: key init, handler free, key free

vars == <<order, handlers, value, calls>>

Init ==
  /\ order = <<>>
  /\ handlers = [k \in {} |-> <<>>]
  /\ value = [i \in {} |-> {}]
  /\ calls = <<>>

----------------------------------------------------------------------------
Known(k) == k \in DOMAIN handlers
HandlersOf(k) == IF Known(k) THEN handlers[k] ELSE <<>>
With(f, x, y) == [z \in DOMAIN f \cup {x} |-> IF z = x THEN y ELSE f[z]]
Without(f, X) == Restrict(f, DOMAIN f \ X)
Freed(ids) == [n \in DOMAIN ids |-> <<"free", value[ids[n]]>>]

Create(k) ==
  /\ order' = IF Known(k) THEN order ELSE Append(order, k)
  /\ calls' = IF Known(k) THEN <<>> ELSE <<<<"init key", k>>>>

FindKey(k) ==
  /\ Create(k)
  /\ handlers' = With(handlers, k, HandlersOf(k))
  /\ UNCHANGED value

(* "ids" are the handlers of the key once the new one is linked.           *)
Add(k, o, i, ids) ==
  /\ i \notin DOMAIN value
  /\ Create(k)
  /\ handlers' = With(handlers, k, ids)
  /\ value' = With(value, i, o)

KeyOf(i) == CHOOSE k \in DOMAIN handlers : i \in ToSet(handlers[k])

RemoveById(i) ==
  /\ i \in DOMAIN value
  /\ handlers' = [handlers EXCEPT ![KeyOf(i)] = list_remove(@, i)]
  /\ value' = Without(value, {i})
  /\ calls' = Freed(<<i>>)
  /\ UNCHANGED order

(* The last handler of a key takes the key along.                          *)
RemoveByIdFull(i) ==
  /\ i \in DOMAIN value
  /\ IF handlers[KeyOf(i)] = <<i>>
     THEN /\ handlers' = Without(handlers, {KeyOf(i)})
          /\ order' = list_remove(order, KeyOf(i))
          /\ calls' = Freed(<<i>>) \o <<<<"free key", KeyOf(i)>>>>
     ELSE /\ handlers' = [handlers EXCEPT ![KeyOf(i)] = list_remove(@, i)]
          /\ calls' = Freed(<<i>>)
          /\ UNCHANGED order
  /\ value' = Without(value, {i})

RemoveKey(k) ==
  /\ Known(k)
  /\ handlers' = Without(handlers, {k})
  /\ order' = list_remove(order, k)
  /\ value' = Without(value, ToSet(handlers[k]))
  /\ calls' = Freed(handlers[k]) \o <<<<"free key", k>>>>

Free ==
  /\ order' = <<>>
  /\ handlers' = [k \in {} |-> <<>>]
  /\ value' = [i \in {} |-> {}]
  /\ calls' = FlattenSeq([n \in DOMAIN order |->
                Freed(handlers[order[n]]) \o <<<<"free key", order[n]>>>>])

Next ==
  \/ \E k \in Key : FindKey(k) \/ RemoveKey(k)
  \/ \E k \in Key, o \in Obj, i \in Id : \/ Add(k, o, i, list_append(HandlersOf(k), i))
                                      \/ Add(k, o, i, list_prepend(HandlersOf(k), i))
  \/ \E i \in Id : RemoveById(i) \/ RemoveByIdFull(i)
  \/ Free

Spec == Init /\ [][Next]_vars
=============================================================================
