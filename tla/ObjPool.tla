-------------------------------- MODULE ObjPool --------------------------------
(***************************************************************************)
(* The object pool of fcitx (lib/fcitx-utils/objpool.c): an array of slots *)
(* that doubles when it is full.  The int in front of a free slot is the   *)
(* id of the next free slot, the one in front of a slot in use says so.    *)
(*                                                                         *)
(* A pool is a record of the number of slots, the head of the chain of     *)
(* free slots, and the int in front of each slot.                          *)
(***************************************************************************)
EXTENDS Integers, Sequences

INVALID_ID == -1
ALLOCED_ID == -2

SlotIds(pool) == 0..(pool.size - 1)
InUse(pool)   == {i \in SlotIds(pool) : pool.slot[i] = ALLOCED_ID}

(* The int in front of a new free slot, chained upwards to the slot hi-1.  *)
FreshSlot(i, hi) == IF i = hi - 1 THEN INVALID_ID ELSE i + 1

(* For two slots or more: with one, the array doubled by alloc_id has no   *)
(* second new slot to chain.                                               *)
obj_pool_init_with_prealloc(prealloc) ==
  [size |-> prealloc, next_free |-> 0,
   slot |-> [i \in 0..(prealloc - 1) |-> FreshSlot(i, prealloc)]]

(* The id that alloc_id returns.                                           *)
AllocId(pool) == IF pool.next_free >= 0 THEN pool.next_free ELSE pool.size

obj_pool_alloc_id(pool) ==
  LET id == AllocId(pool)
  IN  IF pool.next_free >= 0
      THEN [pool EXCEPT !.next_free = pool.slot[id], !.slot[id] = ALLOCED_ID]
      ELSE [size |-> 2 * pool.size, next_free |-> id + 1,
            slot |-> [i \in 0..(2 * pool.size - 1) |->
                        IF i < id THEN pool.slot[i]
                        ELSE IF i = id THEN ALLOCED_ID ELSE FreshSlot(i, 2 * pool.size)]]

\* Plausible bug: the freed slot becomes the head of the chain and cuts off the rest.
obj_pool_free_id_cuts(pool, i) ==
  IF i \notin InUse(pool) THEN pool
  ELSE [pool EXCEPT !.slot[i] = INVALID_ID, !.next_free = i]

obj_pool_free_id(pool, i) ==
  IF i \notin InUse(pool) THEN pool
  ELSE [pool EXCEPT !.slot[i] = pool.next_free, !.next_free = i]

(* The slots that are visited from "first" on by following the links, in N *)
(* steps at most.                                                          *)
Follow(first, next, N) ==
  LET seen[n \in 0..N] ==
        IF n = 0 THEN <<>>
        ELSE LET before == seen[n - 1]
                 link == IF before = <<>> THEN first ELSE next[before[Len(before)]]
             IN  IF link = INVALID_ID THEN before ELSE Append(before, link)
  IN  seen[N]

(* The chain of free slots.                                                *)
FreeChain(pool) == Follow(pool.next_free, pool.slot, pool.size)
=============================================================================
