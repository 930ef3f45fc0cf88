------------------------------ MODULE HandlerTable ------------------------------
(***************************************************************************)
(* The handler table of fcitx (lib/fcitx-utils/handler-table.c): a hash of *)
(* keys, each with a doubly linked list of handlers that live in the slots *)
(* of an object pool and name each other by slot id.                       *)
(***************************************************************************)
EXTENDS ObjPool, FcitxList, FiniteSets

CONSTANTS
  Key,       \* keys, sequences of bytes in the code
  Obj,       \* handlers, as they are copied into the table
  Prealloc,  \* slots of a new pool, 4 in the code
  MaxSize    \* bound: the largest array that is explored

ASSUME PoolAssumption == Prealloc \in Nat \ {0, 1} /\ MaxSize \in Nat /\ MaxSize >= Prealloc

VARIABLES
  pool,   \* table->objs
  objs,   \* the slots in use: links, key and handler
  keys,   \* table->keys: first and last handler of each key
  order,  \* the keys in order of insertion, the order the hash is walked in
  calls   \* callbacks of the last operation: key init, handler free, key free

vars == <<pool, objs, keys, order, calls>>

EmptyKey == [first |-> INVALID_ID, last |-> INVALID_ID]

(* fcitx_handler_table_new_with_keydata                                    *)
Init ==
  /\ pool = obj_pool_init_with_prealloc(Prealloc)
  /\ objs = [i \in {} |-> {}]
  /\ keys = [k \in {} |-> EmptyKey]
  /\ order = <<>>
  /\ calls = <<>>

----------------------------------------------------------------------------
With(f, x, y) == [z \in DOMAIN f \cup {x} |-> IF z = x THEN y ELSE f[z]]
Without(f, X) == Restrict(f, DOMAIN f \ X)

(* Following the "next" links of the handlers from a slot.                 *)
Walk(first) == Follow(first, [i \in DOMAIN objs |-> objs[i].next], pool.size)

(* Reading the table.  A key that is not there has no handlers.            *)
handler_table_n_key == Cardinality(DOMAIN keys)
handler_table_foreach_key == order
handler_key_first_id(k) == IF k \in DOMAIN keys THEN keys[k].first ELSE INVALID_ID
handler_key_last_id(k) == IF k \in DOMAIN keys THEN keys[k].last ELSE INVALID_ID

(* A slot as a set, empty for NULL.                                        *)
handler_table_get_by_id(i) == IF i = INVALID_ID THEN {} ELSE {objs[i].obj}
handler_table_get_key_by_id(i) == IF i = INVALID_ID THEN {} ELSE {objs[i].key}
handler_key_first(k) == handler_table_get_by_id(handler_key_first_id(k))
handler_key_last(k) == handler_table_get_by_id(handler_key_last_id(k))

CanAlloc == pool.next_free >= 0 \/ 2 * pool.size <= MaxSize

(* fcitx_handler_table_find_key with "create".                             *)
Found(k) == IF k \in DOMAIN keys THEN keys[k] ELSE EmptyKey

Create(k) ==
  /\ order' = IF k \in DOMAIN keys THEN order ELSE Append(order, k)
  /\ calls' = IF k \in DOMAIN keys THEN <<>> ELSE <<<<"init key", k>>>>

handler_table_find_key(k) ==
  /\ Create(k)
  /\ keys' = With(keys, k, Found(k))
  /\ UNCHANGED <<pool, objs>>

(* Linking a new slot behind the last handler of the key, or before the    *)
(* first.                                                                  *)
handler_table_append(k, o) ==
  LET new == AllocId(pool)
      id == Found(k).last
      added == With(objs, new, [key |-> k, obj |-> o, prev |-> id, next |-> INVALID_ID])
  IN  /\ CanAlloc
      /\ Create(k)
      /\ pool' = obj_pool_alloc_id(pool)
      /\ IF id = INVALID_ID
         THEN /\ keys' = With(keys, k, [first |-> new, last |-> new])
              /\ objs' = added
         ELSE /\ keys' = [keys EXCEPT ![k].last = new]
              /\ objs' = [added EXCEPT ![id].next = new]

handler_table_prepend(k, o) ==
  LET new == AllocId(pool)
      id == Found(k).first
      added == With(objs, new, [key |-> k, obj |-> o, prev |-> INVALID_ID, next |-> id])
  IN  /\ CanAlloc
      /\ Create(k)
      /\ pool' = obj_pool_alloc_id(pool)
      /\ IF id = INVALID_ID
         THEN /\ keys' = With(keys, k, [first |-> new, last |-> new])
              /\ objs' = added
         ELSE /\ keys' = [keys EXCEPT ![k].first = new]
              /\ objs' = [added EXCEPT ![id].prev = new]

----------------------------------------------------------------------------
(***************************************************************************)
(* Unlinking a slot: the neighbours, or the key at either end, are joined. *)
(***************************************************************************)
KeysAfterUnlink(i) ==
  LET o == objs[i] IN
  [keys EXCEPT ![o.key].first = IF o.prev = INVALID_ID THEN o.next ELSE @,
               ![o.key].last  = IF o.next = INVALID_ID THEN o.prev ELSE @]

ObjsAfterUnlink(i) ==
  [j \in DOMAIN objs \ {i} |->
     [objs[j] EXCEPT !.next = IF j = objs[i].prev THEN objs[i].next ELSE @,
                     !.prev = IF j = objs[i].next THEN objs[i].prev ELSE @]]

handler_table_remove_by_id(i) ==
  /\ i \in InUse(pool)
  /\ keys' = KeysAfterUnlink(i)
  /\ objs' = ObjsAfterUnlink(i)
  /\ pool' = obj_pool_free_id(pool, i)
  /\ calls' = <<<<"free", objs[i].obj>>>>
  /\ UNCHANGED order

handler_table_remove_by_id_full(i) ==
  LET k == objs[i].key IN
  /\ i \in InUse(pool)
  /\ objs' = ObjsAfterUnlink(i)
  /\ pool' = obj_pool_free_id(pool, i)
  /\ IF KeysAfterUnlink(i)[k] = EmptyKey
     THEN /\ keys' = Without(keys, {k})
          /\ order' = list_remove(order, k)
          /\ calls' = <<<<"free", objs[i].obj>>, <<"free key", k>>>>
     ELSE /\ keys' = KeysAfterUnlink(i)
          /\ calls' = <<<<"free", objs[i].obj>>>>
          /\ UNCHANGED order

\* Plausible bug: the key is told of its end while its handlers are still there.
CallsOfFreeKeyFirst(k) ==
  LET ids == Walk(keys[k].first)
  IN  <<<<"free key", k>>>> \o [n \in DOMAIN ids |-> <<"free", objs[ids[n]].obj>>]

(* Dropping a key frees its handlers, first to last, and then the key.     *)
CallsOfFree(k) ==
  LET ids == Walk(keys[k].first)
  IN  Append([n \in DOMAIN ids |-> <<"free", objs[ids[n]].obj>>], <<"free key", k>>)

(* The slots are freed in the same order.                                  *)
PoolAfterFree(ids) ==
  LET freed[n \in 0..Len(ids)] ==
        IF n = 0 THEN pool ELSE obj_pool_free_id(freed[n - 1], ids[n])
  IN  freed[Len(ids)]

handler_table_remove_key(k) ==
  /\ k \in DOMAIN keys
  /\ pool' = PoolAfterFree(Walk(keys[k].first))
  /\ objs' = Without(objs, ToSet(Walk(keys[k].first)))
  /\ keys' = Without(keys, {k})
  /\ order' = list_remove(order, k)
  /\ calls' = CallsOfFree(k)

(* The table is freed, key after key; the next operation is on a new one.  *)
handler_table_free ==
  /\ calls' = FlattenSeq([n \in DOMAIN order |-> CallsOfFree(order[n])])
  /\ pool' = obj_pool_init_with_prealloc(Prealloc)
  /\ objs' = [i \in {} |-> {}]
  /\ keys' = [k \in {} |-> EmptyKey]
  /\ order' = <<>>

----------------------------------------------------------------------------
Next ==
  \/ \E k \in Key : handler_table_find_key(k) \/ handler_table_remove_key(k)
  \/ \E k \in Key, o \in Obj : handler_table_append(k, o) \/ handler_table_prepend(k, o)
  \/ \E i \in 0..(MaxSize - 1) : handler_table_remove_by_id(i) \/ handler_table_remove_by_id_full(i)
  \/ handler_table_free

Spec == Init /\ [][Next]_vars

----------------------------------------------------------------------------
(* The types of the pool, the slots in use, and the keys.                  *)
TypeOK ==
  LET Link == -1..(pool.size - 1) IN
  /\ pool.size \in Prealloc..MaxSize
  /\ pool.next_free \in Link
  /\ pool.slot \in [SlotIds(pool) -> -2..(pool.size - 1)]
  /\ objs \in [InUse(pool) -> [key : DOMAIN keys, obj : Obj, prev : Link, next : Link]]
  /\ DOMAIN keys \subseteq Key
  /\ keys \in [DOMAIN keys -> [first : Link, last : Link]]
  /\ order \in Seq(Key)

(* The chain of free slots visits every slot that is not in use, once:     *)
(* however often ids are freed and the array doubles, alloc_id hands out   *)
(* no slot in use and loses none.                                          *)
PoolExact ==
  /\ IsInjective(FreeChain(pool))
  /\ ToSet(FreeChain(pool)) = SlotIds(pool) \ InUse(pool)

(* Walking a key from its first handler visits exactly the handlers of the *)
(* key, each once, and ends at its last one; "prev" leads back.            *)
LinksExact ==
  \A k \in Key :
    LET ids == Walk(handler_key_first_id(k)) IN
    /\ IsInjective(ids)
    /\ ToSet(ids) = {i \in InUse(pool) : handler_table_get_key_by_id(i) = {k}}
    /\ handler_key_last_id(k) = IF ids = <<>> THEN INVALID_ID ELSE Last(ids)
    /\ handler_key_first(k) = IF ids = <<>> THEN {} ELSE {objs[ids[1]].obj}
    /\ handler_key_last(k) = IF ids = <<>> THEN {} ELSE {objs[Last(ids)].obj}
    /\ \A n \in DOMAIN ids : objs[ids[n]].prev = IF n = 1 THEN INVALID_ID ELSE ids[n - 1]

(* Slots and links together: the pool hands out no slot twice, the links   *)
(* of each key are whole, and the keys that are walked are those counted.  *)
TableExact ==
  /\ PoolExact /\ LinksExact
  /\ IsInjective(handler_table_foreach_key) /\ Len(handler_table_foreach_key) = handler_table_n_key

(* The sequence of handlers a key stands for, and the handler an id does.  *)
Handlers == [k \in DOMAIN keys |-> Walk(keys[k].first)]
Values   == [i \in DOMAIN objs |-> objs[i].obj]

Map == INSTANCE HandlerMap WITH
         Id <- 0..(MaxSize - 1), handlers <- Handlers, value <- Values

(* The linked slots implement the multi hash the header describes: same    *)
(* handlers in the same order, ids unique while in use, and every key and  *)
(* handler told of its end exactly once and in order.                      *)
ImplementsHandlerMap == Map!Spec
=============================================================================
