------------------------------ MODULE UtContainers -------------------------------
(***************************************************************************)
(* The containers of uthash.h and utarray.h, which the dictionaries, sets, *)
(* tables and lists of fcitx are made of.                                  *)
(*                                                                         *)
(* A hash table keeps its items twice: in the order they were added, and   *)
(* in chains, one per bucket.  An item is a record with a "key"; HashOf    *)
(* stands for the hash function.                                           *)
(***************************************************************************)
EXTENDS Collections
LOCAL INSTANCE Integers
LOCAL INSTANCE Sequences
LOCAL INSTANCE SequencesExt
LOCAL INSTANCE FiniteSetsExt

CONSTANTS
  HashOf(_),           \* the hash of a key
  INITIAL_BUCKETS,     \* HASH_INITIAL_NUM_BUCKETS, 32 in the code
  CHAIN_CAPACITY,      \* HASH_BKT_CAPACITY_THRESH, 10 in the code
  UT_INITIAL           \* the first capacity of an array, 8 in the code

(* head = NULL: there is no table.                                         *)
NoTable == [order |-> <<>>, buckets |-> <<>>, ineff_expands |-> 0, noexpand |-> FALSE]

EmptyBuckets(n) == [b \in 0..(n - 1) |-> [chain |-> <<>>, expand_mult |-> 0]]
num_buckets(t) == Max(DOMAIN t.buckets) + 1

MAKE_TABLE == [NoTable EXCEPT !.buckets = EmptyBuckets(INITIAL_BUCKETS)]

(* num_bkts is a power of two: the low bits of the hash.                   *)
HASH_TO_BKT(hashv, num_bkts) == hashv % num_bkts

HASH_FIND_IN_BKT(bucket, key) == {i \in DOMAIN bucket.chain : bucket.chain[i].key = key}

HASH_FIND(t, key) ==
  IF t.order = <<>> THEN {}
  ELSE LET bucket == t.buckets[HASH_TO_BKT(HashOf(key), num_buckets(t))]
           at == HASH_FIND_IN_BKT(bucket, key)
       IN  IF at = {} THEN {} ELSE {bucket.chain[Min(at)]}

----------------------------------------------------------------------------
(* Twice the buckets.  The old chains are walked in order and each item    *)
(* goes to the front of its new chain; a chain longer than the ideal one   *)
(* may grow that many times longer before the next expansion.              *)
HASH_EXPAND_BUCKETS(t) ==
  LET n == 2 * num_buckets(t)
      ideal == (Len(t.order) + n - 1) \div n
      walk == FlattenSeq([i \in 1..(n \div 2) |-> t.buckets[i - 1].chain])
      Place1(st, item) ==
        LET b == HASH_TO_BKT(HashOf(item.key), n)
            count == Len(st.buckets[b].chain) + 1
            over == count > ideal
        IN  [buckets |-> [st.buckets EXCEPT ![b].chain = <<item>> \o @,
                                            ![b].expand_mult = IF over THEN count \div ideal ELSE @],
             nonideal |-> st.nonideal + IF over THEN 1 ELSE 0]
      new == FoldLeft(Place1, [buckets |-> EmptyBuckets(n), nonideal |-> 0], walk)
      ineff == IF new.nonideal > Len(t.order) \div 2 THEN t.ineff_expands + 1 ELSE 0
  IN  [t EXCEPT !.buckets = new.buckets, !.ineff_expands = ineff, !.noexpand = @ \/ ineff > 1]

HASH_ADD_TO_BKT(t, b, item) ==
  LET added == [t EXCEPT !.buckets[b].chain = <<item>> \o @]
      bucket == added.buckets[b]
  IN  IF Len(bucket.chain) >= (bucket.expand_mult + 1) * CHAIN_CAPACITY /\ ~t.noexpand
      THEN HASH_EXPAND_BUCKETS(added) ELSE added

(* The caller has seen to it that the key is not there yet.                *)
HASH_ADD_KEYPTR(t, item) ==
  LET table == IF t.order = <<>> THEN MAKE_TABLE ELSE t
      listed == [table EXCEPT !.order = Append(@, item)]
  IN  HASH_ADD_TO_BKT(listed, HASH_TO_BKT(HashOf(item.key), num_buckets(listed)), item)

HASH_DEL_IN_BKT(bucket, item) == [bucket EXCEPT !.chain = SelectSeq(@, LAMBDA x : x # item)]

(* The last item takes the table with it.                                  *)
HASH_DELETE(t, item) ==
  IF Len(t.order) = 1 THEN NoTable
  ELSE [t EXCEPT !.order = SelectSeq(@, LAMBDA x : x # item),
                 !.buckets[HASH_TO_BKT(HashOf(item.key), num_buckets(t))] = HASH_DEL_IN_BKT(@, item)]

----------------------------------------------------------------------------
(***************************************************************************)
(* Arrays of utarray.h with a destructor: the elements and the capacity n. *)
(* 0 is an element of zero bytes.                                          *)
(***************************************************************************)
utarray_new == [d |-> <<>>, n |-> 0]

UtResult(a, freed, out) == [ut |-> a, freed |-> freed, out |-> out]

RECURSIVE utarray_reserve(_, _)
utarray_reserve(a, by) ==
  IF Len(a.d) + by <= a.n THEN a
  ELSE utarray_reserve([a EXCEPT !.n = IF @ = 0 THEN UT_INITIAL ELSE 2 * @], by)

utarray_push_back(a, v) == UtResult([utarray_reserve(a, 1) EXCEPT !.d = Append(@, v)], <<>>, <<>>)
utarray_push_front(a, v) == UtResult([utarray_reserve(a, 1) EXCEPT !.d = <<v>> \o @], <<>>, <<>>)
utarray_extend_back(a) == UtResult([utarray_reserve(a, 1) EXCEPT !.d = Append(@, 0)], <<>>, <<>>)
utarray_pop_back(a) == UtResult([a EXCEPT !.d = Front(@)], <<Last(a.d)>>, <<>>)

(* The room is made before the position is looked at.                      *)
utarray_insert(a, v, j) ==
  LET room == utarray_reserve(a, 1)
  IN  IF j > Len(a.d) THEN UtResult(room, <<>>, <<v>>)
      ELSE UtResult([room EXCEPT !.d = InsertAt(@, j + 1, v)], <<>>, <<>>)

utarray_inserta(a, w, j) ==
  IF w.d = <<>> \/ j > Len(a.d) THEN UtResult(a, <<>>, w.d)
  ELSE UtResult([utarray_reserve(a, Len(w.d)) EXCEPT !.d = SubSeq(@, 1, j) \o w.d \o SubSeq(@, j + 1, Len(@))],
                <<>>, <<>>)

utarray_move(a, f, t) ==
  IF f >= Len(a.d) \/ t >= Len(a.d) \/ f = t THEN UtResult(a, <<>>, <<>>)
  ELSE UtResult([a EXCEPT !.d = InsertAt(RemoveAt(@, f + 1), t + 1, a.d[f + 1])], <<>>, <<>>)

(* Without an init callback what is added is zero.  With one, the code     *)
(* asks for the address of an element that is not there yet and calls it   *)
(* with NULL.                                                              *)
utarray_resize(a, num) ==
  LET i == Len(a.d)
  IN  IF i >= num THEN UtResult([a EXCEPT !.d = SubSeq(@, 1, num)], SubSeq(a.d, num + 1, i), <<>>)
      ELSE UtResult([utarray_reserve(a, num - i) EXCEPT !.d = @ \o [k \in 1..(num - i) |-> 0]], <<>>, <<>>)

utarray_erase(a, pos, len) ==
  UtResult([a EXCEPT !.d = SubSeq(@, 1, pos) \o SubSeq(@, pos + len + 1, Len(@))],
           SubSeq(a.d, pos + 1, pos + len), <<>>)

(* The last element takes the place; only the full form destroys.          *)
utarray_remove_quick(a, pos) == UtResult([a EXCEPT !.d = Filled(@, pos)], <<>>, <<a.d[pos + 1]>>)
utarray_remove_quick_full(a, pos) == UtResult([a EXCEPT !.d = Filled(@, pos)], <<a.d[pos + 1]>>, <<>>)

utarray_clear(a) == UtResult([a EXCEPT !.d = <<>>], a.d, <<>>)
utarray_steal(a) == UtResult(utarray_new, <<>>, a.d)
(* The length and the address of the elements stay behind: an array that is *)
(* done is used again only after utarray_init.                             *)
utarray_done(a) == UtResult([a EXCEPT !.n = 0], IF a.n > 0 THEN a.d ELSE <<>>, <<>>)

utarray_sort_range(a, from, to) ==
  IF from >= to \/ from >= Len(a.d) \/ to > Len(a.d) THEN a
  ELSE [a EXCEPT !.d = SubSeq(@, 1, from) \o SortSeq(SubSeq(@, from + 1, to), LAMBDA x, y : x < y)
                         \o SubSeq(@, to + 1, Len(@))]

utarray_clone(a) ==
  IF a.d = <<>> THEN utarray_new ELSE [utarray_reserve(utarray_new, Len(a.d)) EXCEPT !.d = a.d]

(* Walking: positions from 0, -1 for NULL.                                 *)
utarray_next(a, e) == IF Len(a.d) > e + 1 THEN e + 1 ELSE -1
utarray_prev(a, e) == IF e = -1 THEN Len(a.d) - 1 ELSE e - 1
=============================================================================
