--------------------------------- MODULE Sorting ---------------------------------
(***************************************************************************)
(* The sorts of fcitx-utils (msort_r.c, qsort_r.c, list.c, uthash.h) and   *)
(* the search of misc.c.                                                   *)
(***************************************************************************)
EXTENDS Integers, Sequences

CONSTANT
  MINIMUM_INSERT_SORT  \* below it insertion sort is used, 10 in the code

(* What is sorted is compared by its key; the id tells equal ones apart.   *)
Sortable == [key : Int, id : Nat]

Swap(s, i, j) == [s EXCEPT ![i] = s[j], ![j] = s[i]]

(* The inner loop of insertion_sort: the j-th element changes places with  *)
(* greater ones before it until one is not greater.                        *)
Sink(s, j) ==
  LET p == CHOOSE p \in 1..j :
             (p > 1 => s[p - 1].key <= s[j].key) /\ \A i \in p..(j - 1) : s[i].key > s[j].key
  IN  [i \in DOMAIN s |-> IF i = p THEN s[j] ELSE IF i \in p..j THEN s[i - 1] ELSE s[i]]

insertion_sort(s) ==
  LET sunk[j \in 0..Len(s)] == IF j = 0 THEN s ELSE Sink(sunk[j - 1], j)
  IN  sunk[Len(s)]

----------------------------------------------------------------------------
(* Merging.                                                                *)

\* Plausible bug: equal elements are taken from the right half.
LeftFirstStrict(x, y) == x.key < y.key

LeftFirst(x, y) == x.key <= y.key

(* i elements of a and j of b have been taken: the next one is from a.     *)
FromLeft(a, b, i, j) == i < Len(a) /\ (j = Len(b) \/ LeftFirst(a[i + 1], b[j + 1]))

MergeStep(a, b, st, k) ==
  IF FromLeft(a, b, st.i, k - 1 - st.i) THEN [i |-> st.i + 1, to |-> Append(st.to, a[st.i + 1])]
  ELSE [i |-> st.i, to |-> Append(st.to, b[k - st.i])]

Merge(a, b) ==
  LET n == Len(a) + Len(b)
      st[k \in 0..n] == IF k = 0 THEN [i |-> 0, to |-> <<>>] ELSE MergeStep(a, b, st[k - 1], k)
  IN  st[n].to

msort_r[s \in Seq(Sortable)] ==
  LET half == Len(s) \div 2
  IN  IF Len(s) < MINIMUM_INSERT_SORT THEN insertion_sort(s)
      ELSE Merge(msort_r[SubSeq(s, 1, half)], msort_r[SubSeq(s, half + 1, Len(s))])

(* list.c: the slow pointer stops at the end of the first half, the longer *)
(* one.                                                                    *)
list_sort_r[s \in Seq(Sortable)] ==
  LET half == (Len(s) + 1) \div 2
  IN  IF Len(s) < 2 THEN s
      ELSE Merge(list_sort_r[SubSeq(s, 1, half)], list_sort_r[SubSeq(s, half + 1, Len(s))])

(* HASH_SRT: the list as runs that are sorted, behind its end empty ones.  *)
(* Each pass merges every second run with the one before; the last pass is *)
(* the one that leaves a single run.                                       *)
SortRuns(s) ==
  LET run[k \in 0..Len(s)] ==
        IF k = 0 THEN [n \in Nat \ {0} |-> IF n \in DOMAIN s THEN <<s[n]>> ELSE <<>>]
        ELSE [n \in Nat \ {0} |-> Merge(run[k - 1][2 * n - 1], run[k - 1][2 * n])]
      last == CHOOSE k \in 0..Len(s) : run[k][2] = <<>>
  IN  run[last][1]

HASH_SRT(t) == IF t.order = <<>> THEN t ELSE [t EXCEPT !.order = SortRuns(@)]

----------------------------------------------------------------------------
(* Quicksort.  The pivot is the median of the first, the middle and the    *)
(* last element.                                                           *)
Pivot(s) ==
  LET n == Len(s)
      mid == n \div 2 + 1
      a == s[1].key  b == s[mid].key  c == s[n].key
  IN  IF a < b THEN (IF b < c THEN mid ELSE IF a < c THEN n ELSE 1)
      ELSE (IF a < c THEN 1 ELSE IF b < c THEN n ELSE mid)

(* The loop of the partition: part is the number of elements known to go   *)
(* left of the pivot, which is at the end.                                 *)
PartStep(st, i) ==
  IF st.s[i].key <= st.s[Len(st.s)].key THEN [s |-> Swap(st.s, i, st.part + 1), part |-> st.part + 1] ELSE st

Partition(s) ==
  LET n == Len(s)
      at[i \in 0..(n - 1)] == IF i = 0 THEN [s |-> Swap(s, Pivot(s), n), part |-> 0] ELSE PartStep(at[i - 1], i)
      end == at[n - 1]
  IN  [s |-> Swap(end.s, end.part + 1, n), part |-> end.part]

qsort_r[s \in Seq(Sortable)] ==
  LET p == Partition(s)
  IN  IF Len(s) < MINIMUM_INSERT_SORT THEN insertion_sort(s)
      ELSE qsort_r[SubSeq(p.s, 1, p.part)] \o <<p.s[p.part + 1]>> \o qsort_r[SubSeq(p.s, p.part + 2, Len(s))]

----------------------------------------------------------------------------
(* The search: the position of the first element that is not less, counted *)
(* from 1; 0 if all are.  l and u close in on it, by one at least.         *)
Narrowed(s, key, r) ==
  LET idx == (r.l + r.u) \div 2
  IN  IF r.l >= r.u THEN r ELSE IF key <= s[idx + 1].key THEN [r EXCEPT !.u = idx] ELSE [r EXCEPT !.l = idx + 1]

custom_bsearch(s, key) ==
  LET at[k \in 0..Len(s)] == IF k = 0 THEN [l |-> 0, u |-> Len(s)] ELSE Narrowed(s, key, at[k - 1])
      end == at[Len(s)]
  IN  IF end.u >= Len(s) THEN 0 ELSE end.l + 1
=============================================================================
