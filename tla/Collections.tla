------------------------------- MODULE Collections -------------------------------
(***************************************************************************)
(* The containers of lib/fcitx-utils: dict.c, array.c,                     *)
(* memory-pool.c and bitset.h.                                             *)
(*                                                                         *)
(* Containers own what is put into them.  "freed" records what a container *)
(* gave to its destroy callback, "out" what it handed back.                *)
(***************************************************************************)
LOCAL INSTANCE Integers
LOCAL INSTANCE Sequences
LOCAL INSTANCE SequencesExt
LOCAL INSTANCE FiniteSetsExt

CONSTANTS
  PAGE_SIZE,            \* FCITX_MEMORY_POOL_PAGE_SIZE, 8192 in the code
  FULL_SIZE,            \* FCITX_MEMORY_CHUNK_FULL_SIZE, 16 in the code
  ALIGN                 \* sizeof(int)

----------------------------------------------------------------------------
(* Dictionaries: entries in the order they were added, as uthash keeps     *)
(* them.                                                                   *)
Find(dict, key) == {i \in DOMAIN dict : dict[i].key = key}

dict_lookup(dict, key) == {dict[i].data : i \in Find(dict, key)}

Result(dict, freed, out, ok) == [dict |-> dict, freed |-> freed, out |-> out, ok |-> ok]

\* Plausible bug: the old value is overwritten without being destroyed.
ReplacedLeaked(dict, i) == <<>>

Replaced(dict, i) == <<dict[i].data>>

(* Without replace a key that is there leaves the value with the caller.   *)
dict_insert(dict, key, value, replace) ==
  LET i == Min(Find(dict, key))
  IN  CASE Find(dict, key) = {} -> Result(Append(dict, [key |-> key, data |-> value]), <<>>, <<>>, TRUE)
        [] Find(dict, key) # {} /\ replace ->
             Result([dict EXCEPT ![i].data = value], Replaced(dict, i), <<>>, TRUE)
        [] OTHER -> Result(dict, <<>>, <<value>>, FALSE)

dict_remove(dict, key, steal) ==
  IF Find(dict, key) = {} THEN Result(dict, <<>>, <<>>, FALSE)
  ELSE LET i == Min(Find(dict, key))
       IN  Result(RemoveAt(dict, i), IF steal THEN <<>> ELSE <<dict[i].data>>,
                  IF steal THEN <<dict[i].data>> ELSE <<>>, TRUE)

Data(dict) == [i \in DOMAIN dict |-> dict[i].data]

dict_remove_all(dict) == Result(<<>>, Data(dict), <<>>, TRUE)

dict_steal_all(dict) == Result(<<>>, <<>>, Data(dict), TRUE)

(* The callback says yes to the entries in a set.                          *)
dict_remove_if(dict, gone) ==
  Result(SelectSeq(dict, LAMBDA e : e \notin gone), Data(SelectSeq(dict, LAMBDA e : e \in gone)), <<>>, TRUE)

dict_clone(dict) ==
  FoldLeft(LAMBDA d, e : dict_insert(d, e.key, e.data, FALSE).dict, <<>>, dict)

(* The order of the callback is the set of pairs of entries x, y with x    *)
(* not after y.                                                            *)
dict_sort(dict, order) == SortSeq(dict, LAMBDA x, y : <<y, x>> \notin order)

(* The default order: by bytes, a prefix first.  Keys are sequences of     *)
(* numbers.                                                                *)
dict_item_default_compare(a, b) ==
  LET n == Min({Len(a), Len(b)})
      diff == {i \in 1..n : a[i] # b[i]}
  IN  CASE diff # {} -> a[Min(diff)] - b[Min(diff)]
        [] diff = {} /\ Len(a) < Len(b) -> -1
        [] diff = {} /\ Len(a) > Len(b) -> 1
        [] OTHER -> 0

----------------------------------------------------------------------------
(* Arrays of pointers: data, and the capacity that grows by doubling.      *)
NewArray == [data |-> <<>>, size |-> 0]

RECURSIVE Grown(_, _)
Grown(size, target) ==
  IF size >= target THEN size ELSE Grown(IF size = 0 THEN 1 ELSE 2 * size, target)

ArrayResult(data, size, freed, out) ==
  [array |-> [data |-> data, size |-> size], freed |-> freed, out |-> out]

(* A position that is out of range leaves the value with the caller.       *)
ptr_array_insert(a, v, pos) ==
  IF pos > Len(a.data) THEN ArrayResult(a.data, a.size, <<>>, <<v>>)
  ELSE ArrayResult(InsertAt(a.data, pos + 1, v), Grown(a.size, Len(a.data) + 1), <<>>, <<>>)

(* For positions below the length: the code lets the length itself pass    *)
(* and then reads past the end.                                            *)
ptr_array_remove(a, pos, steal) ==
  ArrayResult(RemoveAt(a.data, pos + 1), a.size,
              IF steal THEN <<>> ELSE <<a.data[pos + 1]>>, IF steal THEN <<a.data[pos + 1]>> ELSE <<>>)

Filled(s, pos) == Front([s EXCEPT ![pos + 1] = s[Len(s)]])

(* The element is destroyed even if the caller wants to keep it: the       *)
(* address to keep it in is compared with the element.                     *)
ptr_array_remove_fast(a, pos) ==
  ArrayResult(Filled(a.data, pos), a.size, <<a.data[pos + 1]>>, <<>>)

ptr_array_set(a, pos, v) ==
  IF pos >= Len(a.data) THEN ArrayResult(a.data, a.size, <<>>, <<v>>)
  ELSE ArrayResult([a.data EXCEPT ![pos + 1] = v], a.size, <<a.data[pos + 1]>>, <<>>)

(* Drops from the end, or appends what the callback makes.                 *)
(* New elements come from the callback: a function of their position.      *)
ptr_array_resize(a, size, new) ==
  ArrayResult([i \in 1..size |-> IF i \in DOMAIN a.data THEN a.data[i] ELSE new[i]],
              Grown(a.size, size), Reverse(SubSeq(a.data, size + 1, Len(a.data))), <<>>)

----------------------------------------------------------------------------
(***************************************************************************)
(* The memory pool.  A chunk is its number, the offset of its free part    *)
(* and its size; a chunk with hardly any room moves to fullchunks.         *)
(***************************************************************************)
NewPool == [chunks |-> <<>>, full |-> {}, made |-> 0]

Start(c, align) == IF align THEN ((c.cur + ALIGN - 1) \div ALIGN) * ALIGN ELSE c.cur

Result2(pool, chunk, from, size) == [pool |-> pool, block |-> [chunk |-> chunk, from |-> from, to |-> from + size]]

(* A chunk that is full goes, and the last one takes its place.            *)
Retire(pool, i) ==
  LET c == pool.chunks[i]
  IN  IF c.size - c.cur > FULL_SIZE THEN pool
      ELSE [pool EXCEPT !.chunks = Front([@ EXCEPT ![i] = pool.chunks[Len(pool.chunks)]]),
                        !.full = @ \cup {c}]

memory_pool_alloc_align(pool, size, align) ==
  LET fits == {i \in DOMAIN pool.chunks : Start(pool.chunks[i], align) + size <= pool.chunks[i].size}
      i == Min(fits)
      n == pool.made + 1
      fresh == [id |-> n, cur |-> size, size |-> ((size + PAGE_SIZE - 1) \div PAGE_SIZE) * PAGE_SIZE]
  IN  IF fits # {}
      THEN Result2(Retire([pool EXCEPT !.chunks[i].cur = Start(pool.chunks[i], align) + size], i),
                   pool.chunks[i].id, Start(pool.chunks[i], align), size)
      ELSE Result2(Retire([pool EXCEPT !.chunks = Append(@, fresh), !.made = n], Len(pool.chunks) + 1), n, 0, size)

----------------------------------------------------------------------------
(* Bit sets: a sequence of bytes, each the set of its bits.                *)
bitset_new(bits) == [b \in 1..((bits + 7) \div 8) |-> {}]
bitset_set(bs, off) == [bs EXCEPT ![off \div 8 + 1] = @ \cup {off % 8}]
bitset_unset(bs, off) == [bs EXCEPT ![off \div 8 + 1] = @ \ {off % 8}]
bitset_isset(bs, off) == off % 8 \in bs[off \div 8 + 1]
=============================================================================
