----------------------------- MODULE FcitxUtils_proofs -----------------------------
(***************************************************************************)
(* Three parts of fcitx-utils, for every value of the constants.           *)
(*                                                                         *)
(* The handler table: the types, the links of each key and the chain of    *)
(* free slots, and that the linked slots implement the multi hash of       *)
(* HandlerMap.  For each key there is one sequence of slots that the links *)
(* spell out (IsList), for the pool one of the free slots (IsFreeList).    *)
(* Every operation is a small change of one of these sequences; that a     *)
(* walk from the first slot visits such a sequence is shown once           *)
(* (FollowsChain), by going to the least length it fails for.              *)
(*                                                                         *)
(* UTF-8: checking, counting, copying, cutting and encoding agree with the *)
(* table of well-formed sequences, for strings of any length.  That a      *)
(* character is one of the table exactly when the code accepts it is shown *)
(* on its bytes (CharIsGood).  A string is walked from place to place      *)
(* (WalkStays, GoodByPlaces), and its beginnings are walked as it is       *)
(* (PrefixNext).  An encoding holds the base-64 digits of its character    *)
(* (BitsOfEncoding).                                                       *)
(*                                                                         *)
(* The sorts: what each of them makes of a sequence of any length.  That   *)
(* the recursions that divide are defined is shown once (DividedExists);   *)
(* what they make is shown of a sequence from what they make of shorter    *)
(* ones (ByLength), with one invariant for each loop: of the insertion     *)
(* (SunkTo), the merge (MergedTo), the passes over the runs (RunsOf,       *)
(* EmptyAfter), the partition (PartAt) and the search (NarrowedTo).  Stable*)
(* sorts agree since there is one order by key and id (UniqueOrder).       *)
(***************************************************************************)
EXTENDS HandlerTable, PureFunctions, FcitxList_proofs, FiniteSetTheorems

----------------------------------------------------------------------------
(***************************************************************************)
(* Following links.  "ids" is the chain that starts at "first".            *)
(***************************************************************************)
IsChain(first, next, ids) ==
  /\ first = IF ids = <<>> THEN INVALID_ID ELSE ids[1]
  /\ \A n \in DOMAIN ids : next[ids[n]] = IF n = Len(ids) THEN INVALID_ID ELSE ids[n + 1]

(* The size of an interval.                                                *)
LEMMA IntervalSize ==
  ASSUME NEW n \in Nat
  PROVE  Cardinality(1..n) = n
<1>1. 1 \in Int /\ n \in Int
  OBVIOUS
<1>2. Cardinality(1..n) = IF 1 > n THEN 0 ELSE n - 1 + 1
  BY ONLY <1>1, FS_Interval
<1>3. (IF 1 > n THEN 0 ELSE n - 1 + 1) = n
  OBVIOUS
<1> QED BY <1>2, <1>3

(* The number of slots.                                                    *)
LEMMA SlotsSize ==
  ASSUME NEW n \in Nat
  PROVE  IsFiniteSet(0..(n - 1)) /\ Cardinality(0..(n - 1)) = n
<1>1. 0 \in Int /\ n - 1 \in Int
  OBVIOUS
<1>2. /\ Cardinality(0..(n - 1)) = IF 0 > n - 1 THEN 0 ELSE (n - 1) - 0 + 1
      /\ IsFiniteSet(0..(n - 1))
  BY ONLY <1>1, FS_Interval
<1>3. (IF 0 > n - 1 THEN 0 ELSE (n - 1) - 0 + 1) = n
  OBVIOUS
<1> QED BY <1>2, <1>3

(* A sequence that names no slot twice is no longer than there are slots.  *)
LEMMA NoLongerThanSlots ==
  ASSUME NEW N \in Nat, NEW ids \in Seq(0..(N - 1)), IsInjective(ids)
  PROVE  Len(ids) <= N
<1>1. DOMAIN ids = 1..Len(ids) /\ Len(ids) \in Nat
  OBVIOUS
<1>2. ids \in Injection(1..Len(ids), 0..(N - 1))
  <2>1. ids \in [1..Len(ids) -> 0..(N - 1)]
    BY <1>1
  <2> QED BY ONLY <2>1, IsInjective(ids), Zenon DEF Injection
<1>3. IsFiniteSet(0..(N - 1)) /\ Cardinality(0..(N - 1)) = N
  BY ONLY N \in Nat, SlotsSize
<1>4. Cardinality(1..Len(ids)) = Len(ids)
  BY <1>1, IntervalSize
<1>5. Cardinality(1..Len(ids)) <= Cardinality(0..(N - 1))
  BY <1>2, <1>3, FS_Injection
<1> QED BY <1>1, <1>3, <1>4, <1>5

(* The first elements of a sequence, one more or no more.                  *)
LEMMA OneMore ==
  ASSUME NEW S, NEW s \in Seq(S), NEW n \in 0..(Len(s) - 1)
  PROVE  /\ SubSeq(s, 1, n + 1) = Append(SubSeq(s, 1, n), s[n + 1])
         /\ SubSeq(s, 1, n) \in Seq(S)
         /\ Len(SubSeq(s, 1, n)) = n
         /\ n > 0 => SubSeq(s, 1, n)[n] = s[n]
  OBVIOUS

(* The whole of a sequence, and nothing of it.                             *)
LEMMA AllOfIt ==
  ASSUME NEW S, NEW s \in Seq(S)
  PROVE  /\ SubSeq(s, 1, Len(s)) = s
         /\ SubSeq(s, 1, 0) = <<>>
  OBVIOUS

(* Following the links with steps enough visits exactly the chain.         *)
LEMMA FollowsChain ==
  ASSUME NEW N \in Nat, NEW first, NEW next, NEW ids \in Seq(Nat), Len(ids) <= N,
         IsChain(first, next, ids)
  PROVE  Follow(first, next, N) = ids
<1> DEFINE step(before) ==
             LET link == IF before = <<>> THEN first ELSE next[before[Len(before)]]
             IN  IF link = INVALID_ID THEN before ELSE Append(before, link)
           upTo(n) == SubSeq(ids, 1, IF n <= Len(ids) THEN n ELSE Len(ids))
           Is(f) == f = [n \in 0..N |-> IF n = 0 THEN <<>> ELSE step(f[n - 1])]
<1>1. ASSUME NEW n \in 1..N PROVE upTo(n) = step(upTo(n - 1))
  <2>1. CASE n <= Len(ids)
    <3>1. n - 1 \in 0..(Len(ids) - 1) /\ (n - 1) + 1 = n /\ n \in DOMAIN ids
      BY <2>1
    <3>2. upTo(n) = SubSeq(ids, 1, n) /\ upTo(n - 1) = SubSeq(ids, 1, n - 1)
      BY <2>1
    <3> DEFINE b == SubSeq(ids, 1, n - 1)
    <3>3. SubSeq(ids, 1, n) = Append(b, ids[n]) /\ Len(b) = n - 1
          /\ (n - 1 > 0 => b[n - 1] = ids[n - 1])
      BY <3>1, OneMore
    <3>4. ids[n] # INVALID_ID
      BY <3>1 DEF INVALID_ID
    <3>5. CASE n = 1
      <4>1. b = <<>> /\ first = ids[n]
        BY <3>1, <3>5 DEF IsChain
      <4> HIDE DEF b
      <4> QED BY <3>2, <3>3, <3>4, <4>1 DEF b
    <3>6. CASE n > 1
      <4>1. n - 1 \in DOMAIN ids /\ n - 1 # Len(ids) /\ n - 1 > 0
        BY <2>1, <3>6
      <4>2. next[ids[n - 1]] = ids[n]
        BY <3>1, <4>1 DEF IsChain
      <4>3. b # <<>> /\ b[Len(b)] = ids[n - 1]
        <5> HIDE DEF b
        <5>1. b = <<>> => Len(b) = 0
          <6>1. Len(<<>>) = 0
            OBVIOUS
          <6> QED BY ONLY <6>1
        <5>2. Len(b) = n - 1 /\ n - 1 # 0 /\ b[n - 1] = ids[n - 1]
          <6>1. n - 1 # 0
            BY <4>1
          <6> QED BY <3>3, <4>1, <6>1
        <5> QED BY <5>1, <5>2
      <4> HIDE DEF b
      <4> QED BY <3>2, <3>3, <3>4, <4>2, <4>3 DEF b
    <3> HIDE DEF upTo, step
    <3> QED BY <3>5, <3>6
  <2>2. CASE n > Len(ids)
    <3>1. upTo(n) = SubSeq(ids, 1, Len(ids)) /\ upTo(n - 1) = SubSeq(ids, 1, Len(ids))
      BY <2>2
    <3>2. upTo(n) = ids /\ upTo(n - 1) = ids
      BY <3>1, AllOfIt
    <3>3. (IF ids = <<>> THEN first ELSE next[ids[Len(ids)]]) = INVALID_ID
      BY DEF IsChain
    <3> HIDE DEF upTo
    <3> QED BY <3>2, <3>3
  <2> HIDE DEF upTo, step
  <2> QED BY <2>1, <2>2
<1>2. upTo(0) = <<>> /\ upTo(N) = ids
  BY AllOfIt
<1> DEFINE F == [n \in 0..N |-> upTo(n)]
<1>3. Is(F)
  <2> HIDE DEF upTo, step
  <2>1. \A n \in 0..N : F[n] = IF n = 0 THEN <<>> ELSE step(F[n - 1])
    BY <1>1, <1>2
  <2> QED BY <2>1
<1>4. ASSUME NEW f, Is(f) PROVE f[N] = ids
  <2> DEFINE T == {n \in 0..N : f[n] = upTo(n)}
  <2> HIDE DEF upTo, step
  <2>1. \A n \in 0..N : f[n] = IF n = 0 THEN <<>> ELSE step(f[n - 1])
    BY <1>4
  <2> HIDE DEF Is
  <2>2. 0 \in T
    BY <1>2, <2>1
  <2>3. ASSUME NEW n \in 0..(N - 1), n \in T PROVE n + 1 \in T
    <3>1. n + 1 \in 1..N /\ (n + 1) - 1 = n /\ n + 1 \in 0..N
      OBVIOUS
    <3>2. f[n + 1] = step(f[n]) /\ upTo(n + 1) = step(upTo(n))
      BY <1>1, <2>1, <3>1
    <3> QED BY <2>3, <3>1, <3>2
  <2>4. N \in T
    <3> HIDE DEF T
    <3>1. \A n \in 0..N : n \in T
      BY <2>2, <2>3, CountingUp
    <3> QED BY <3>1
  <2> QED BY <1>2, <2>4
<1>5. Is(CHOOSE f : Is(f))
  <2> HIDE DEF Is, F
  <2> QED BY <1>3
<1>6. (CHOOSE f : Is(f))[N] = ids
  <2> HIDE DEF Is
  <2> QED BY <1>4, <1>5
<1>7. Follow(first, next, N) = (CHOOSE f : Is(f))[N]
  BY DEF Follow
<1> QED BY <1>6, <1>7
----------------------------------------------------------------------------
(***************************************************************************)
(* The handlers of a key.  "ids" is the list of the key k, whose entry is  *)
(* "entry", in the linked slots "slots".                                   *)
(***************************************************************************)
IsList(slots, entry, k, ids) ==
  /\ IsInjective(ids)
  /\ ToSet(ids) = {i \in DOMAIN slots : slots[i].key = k}
  /\ entry.first = IF ids = <<>> THEN INVALID_ID ELSE ids[1]
  /\ entry.last = IF ids = <<>> THEN INVALID_ID ELSE ids[Len(ids)]
  /\ \A n \in DOMAIN ids :
       /\ slots[ids[n]].next = IF n = Len(ids) THEN INVALID_ID ELSE ids[n + 1]
       /\ slots[ids[n]].prev = IF n = 1 THEN INVALID_ID ELSE ids[n - 1]

(* A change that leaves the handlers of a key alone leaves its list alone. *)
LEMMA ListUntouched ==
  ASSUME NEW slots, NEW after, NEW entry, NEW k, NEW ids \in Seq(Nat),
         IsList(slots, entry, k, ids),
         {i \in DOMAIN after : after[i].key = k} = {i \in DOMAIN slots : slots[i].key = k},
         \A i \in DOMAIN slots : slots[i].key = k =>
           after[i].next = slots[i].next /\ after[i].prev = slots[i].prev
  PROVE  IsList(after, entry, k, ids)
<1>1. ASSUME NEW n \in DOMAIN ids
      PROVE  after[ids[n]].next = slots[ids[n]].next /\ after[ids[n]].prev = slots[ids[n]].prev
  <2>1. ids[n] \in ToSet(ids)
    BY DEF ToSet
  <2> QED BY <2>1 DEF IsList
<1> QED BY <1>1 DEF IsList

(* Linking a slot behind the last one of the list.                         *)
LinkedBehind(slots, after, entry, new, k, e) ==
  /\ e \notin DOMAIN slots
  /\ DOMAIN after = DOMAIN slots \cup {e}
  /\ after[e].key = k /\ after[e].prev = entry.last /\ after[e].next = INVALID_ID
  /\ \A i \in DOMAIN slots :
       /\ after[i].key = slots[i].key /\ after[i].prev = slots[i].prev
       /\ after[i].next = IF i = entry.last THEN e ELSE slots[i].next
  /\ new.first = IF entry.last = INVALID_ID THEN e ELSE entry.first
  /\ new.last = e

(* Linking a slot behind the last one appends it to the list.              *)
LEMMA ListAppended ==
  ASSUME NEW slots, NEW after, NEW entry, NEW new, NEW k, NEW ids \in Seq(Nat), NEW e \in Nat,
         IsList(slots, entry, k, ids), LinkedBehind(slots, after, entry, new, k, e)
  PROVE  IsList(after, new, k, Append(ids, e))
<1> USE DEF LinkedBehind
<1> DEFINE t == Append(ids, e)
<1>1. /\ Len(ids) \in Nat /\ DOMAIN ids = 1..Len(ids)
      /\ DOMAIN t = 1..(Len(ids) + 1) /\ Len(t) = Len(ids) + 1
      /\ \A n \in 1..Len(ids) : t[n] = ids[n] /\ ids[n] \in Nat
      /\ t[Len(ids) + 1] = e /\ t # <<>>
      /\ ids = <<>> <=> Len(ids) = 0
  BY SMTT(30)
<1> HIDE DEF t
<1>2. e \notin ToSet(ids) /\ \A n \in DOMAIN ids : ids[n] \in DOMAIN slots
  BY DEF IsList, ToSet
<1>3. IsInjective(t) /\ ToSet(t) = ToSet(ids) \cup {e}
  BY <1>2, AppendIsLink DEF t, IsList
<1>4. ToSet(t) = {i \in DOMAIN after : after[i].key = k}
  BY <1>3 DEF IsList
<1>5. new.first = t[1] /\ new.last = t[Len(t)]
  BY <1>1 DEF IsList, INVALID_ID
<1>6. ASSUME NEW n \in DOMAIN t
      PROVE  /\ after[t[n]].next = IF n = Len(t) THEN INVALID_ID ELSE t[n + 1]
             /\ after[t[n]].prev = IF n = 1 THEN INVALID_ID ELSE t[n - 1]
  <2>1. CASE n = Len(t)
    <3>1. t[n] = e
      BY <1>1, <2>1
    <3>2. CASE Len(ids) = 0
      BY <1>1, <2>1, <3>1, <3>2 DEF IsList
    <3>3. CASE Len(ids) > 0
      <4>1. n # 1 /\ n - 1 = Len(ids) /\ t[n - 1] = ids[Len(ids)]
        BY <1>1, <2>1, <3>3
      <4> QED BY <1>1, <2>1, <3>1, <3>3, <4>1 DEF IsList
    <3> QED BY <1>1, <3>2, <3>3
  <2>2. CASE n # Len(t)
    <3>1. n \in DOMAIN ids /\ t[n] = ids[n] /\ ids[n] \in DOMAIN slots
      BY <1>1, <1>2, <2>2
    <3>2. after[t[n]].prev = IF n = 1 THEN INVALID_ID ELSE t[n - 1]
      <4>1. CASE n = 1
        BY <3>1, <4>1 DEF IsList
      <4>2. CASE n # 1
        <5>1. n - 1 \in 1..Len(ids) /\ t[n - 1] = ids[n - 1]
          BY <1>1, <3>1, <4>2
        <5> QED BY <3>1, <4>2, <5>1 DEF IsList
      <4> QED BY <4>1, <4>2
    <3>3. after[t[n]].next = t[n + 1]
      <4>1. CASE n = Len(ids)
        BY <1>1, <3>1, <4>1 DEF IsList
      <4>2. CASE n # Len(ids)
        <5>1. n + 1 \in 1..Len(ids) /\ t[n + 1] = ids[n + 1] /\ Len(ids) \in DOMAIN ids
          BY <1>1, <3>1, <4>2
        <5>2. ids[n] # ids[Len(ids)]
          BY <3>1, <4>2, <5>1 DEF IsList, IsInjective
        <5>3. ids # <<>>
          BY <1>1, <5>1
        <5> QED BY <3>1, <4>2, <5>1, <5>2, <5>3 DEF IsList
      <4> QED BY <4>1, <4>2
    <3> QED BY <2>2, <3>2, <3>3
  <2> QED BY <2>1, <2>2
<1> QED BY <1>1, <1>3, <1>4, <1>5, <1>6 DEF IsList, t

(* Linking a slot before the first one of the list.                        *)
LinkedBefore(slots, after, entry, new, k, e) ==
  /\ e \notin DOMAIN slots
  /\ DOMAIN after = DOMAIN slots \cup {e}
  /\ after[e].key = k /\ after[e].prev = INVALID_ID /\ after[e].next = entry.first
  /\ \A i \in DOMAIN slots :
       /\ after[i].key = slots[i].key /\ after[i].next = slots[i].next
       /\ after[i].prev = IF i = entry.first THEN e ELSE slots[i].prev
  /\ new.last = IF entry.first = INVALID_ID THEN e ELSE entry.last
  /\ new.first = e

(* Linking a slot before the first one puts it at the head of the list.    *)
LEMMA ListPrepended ==
  ASSUME NEW slots, NEW after, NEW entry, NEW new, NEW k, NEW ids \in Seq(Nat), NEW e \in Nat,
         IsList(slots, entry, k, ids), LinkedBefore(slots, after, entry, new, k, e)
  PROVE  IsList(after, new, k, <<e>> \o ids)
<1> USE DEF LinkedBefore
<1> DEFINE t == <<e>> \o ids
<1>1. /\ Len(ids) \in Nat /\ DOMAIN ids = 1..Len(ids)
      /\ DOMAIN t = 1..(Len(ids) + 1) /\ Len(t) = Len(ids) + 1
      /\ \A n \in 2..(Len(ids) + 1) : t[n] = ids[n - 1]
      /\ \A n \in 1..Len(ids) : ids[n] \in Nat
      /\ t[1] = e /\ t # <<>>
      /\ ids = <<>> <=> Len(ids) = 0
  BY SMTT(30)
<1> HIDE DEF t
<1>2. e \notin ToSet(ids) /\ \A n \in DOMAIN ids : ids[n] \in DOMAIN slots
  BY DEF IsList, ToSet
<1>3. IsInjective(t) /\ ToSet(t) = ToSet(ids) \cup {e}
  BY <1>2, PrependIsLink DEF t, IsList
<1>4. ToSet(t) = {i \in DOMAIN after : after[i].key = k}
  BY <1>3 DEF IsList
<1>5. new.first = t[1] /\ new.last = t[Len(t)]
  BY <1>1 DEF IsList, INVALID_ID
<1>6. ASSUME NEW n \in DOMAIN t
      PROVE  /\ after[t[n]].next = IF n = Len(t) THEN INVALID_ID ELSE t[n + 1]
             /\ after[t[n]].prev = IF n = 1 THEN INVALID_ID ELSE t[n - 1]
  <2>1. CASE n = 1
    <3>1. t[n] = e
      BY <1>1, <2>1
    <3>2. CASE Len(ids) = 0
      BY <1>1, <2>1, <3>1, <3>2 DEF IsList
    <3>3. CASE Len(ids) > 0
      <4>1. n # Len(t) /\ n + 1 \in 2..(Len(ids) + 1) /\ (n + 1) - 1 = 1 /\ t[n + 1] = ids[1]
        BY <1>1, <2>1, <3>3
      <4> QED BY <1>1, <2>1, <3>1, <3>3, <4>1 DEF IsList
    <3> QED BY <1>1, <3>2, <3>3
  <2>2. CASE n # 1
    <3> DEFINE m == n - 1
    <3>1. m \in DOMAIN ids /\ t[n] = ids[m] /\ ids[m] \in DOMAIN slots /\ n = m + 1
      BY <1>1, <1>2, <2>2
    <3> HIDE DEF m
    <3>2. after[t[n]].next = IF n = Len(t) THEN INVALID_ID ELSE t[n + 1]
      <4>1. CASE m = Len(ids)
        BY <1>1, <3>1, <4>1 DEF IsList
      <4>2. CASE m # Len(ids)
        <5>1. n + 1 \in 2..(Len(ids) + 1) /\ (n + 1) - 1 = m + 1 /\ n # Len(t)
          <6>1. Len(ids) \in Nat /\ DOMAIN ids = 1..Len(ids) /\ Len(t) = Len(ids) + 1
            BY <1>1
          <6>2. m \in 1..Len(ids) /\ n = m + 1 /\ m # Len(ids)
            BY <3>1, <4>2, <6>1
          <6> QED BY <6>1, <6>2, SMTT(30)
        <5>2. t[n + 1] = ids[m + 1]
          BY <1>1, <5>1
        <5> QED BY <3>1, <4>2, <5>1, <5>2 DEF IsList
      <4> QED BY <4>1, <4>2
    <3>3. after[t[n]].prev = t[n - 1]
      <4>1. CASE m = 1
        BY <1>1, <3>1, <4>1 DEF IsList
      <4>2. CASE m # 1
        <5>1. m \in 2..(Len(ids) + 1) /\ 1 \in DOMAIN ids /\ n - 1 = m
          BY <1>1, <3>1, <4>2
        <5>4. t[m] = ids[m - 1]
          BY <1>1, <5>1
        <5>2. ids[m] # ids[1]
          BY <3>1, <4>2, <5>1 DEF IsList, IsInjective
        <5>3. ids # <<>>
          BY <1>1, <5>1
        <5> QED BY <3>1, <4>2, <5>1, <5>2, <5>3, <5>4 DEF IsList
      <4> QED BY <4>1, <4>2
    <3> QED BY <2>2, <3>2, <3>3
  <2> QED BY <2>1, <2>2
<1> QED BY <1>1, <1>3, <1>4, <1>5, <1>6 DEF IsList, t

(* Unlinking a slot joins its neighbours, or the key at either end.        *)
Unlinked(slots, after, entry, new, e) ==
  /\ DOMAIN after = DOMAIN slots \ {e}
  /\ \A i \in DOMAIN after :
       /\ after[i].key = slots[i].key
       /\ after[i].next = IF i = slots[e].prev THEN slots[e].next ELSE slots[i].next
       /\ after[i].prev = IF i = slots[e].next THEN slots[e].prev ELSE slots[i].prev
  /\ new.first = IF slots[e].prev = INVALID_ID THEN slots[e].next ELSE entry.first
  /\ new.last = IF slots[e].next = INVALID_ID THEN slots[e].prev ELSE entry.last

(* Joining the neighbours of a slot removes it from the list.              *)
LEMMA ListUnlinked ==
  ASSUME NEW slots, NEW after, NEW entry, NEW new, NEW k, NEW ids \in Seq(Nat), NEW e \in ToSet(ids),
         IsList(slots, entry, k, ids), Unlinked(slots, after, entry, new, e)
  PROVE  IsList(after, new, k, list_remove(ids, e))
<1> USE DEF Unlinked
<1> DEFINE t == list_remove(ids, e)
           p == Position(ids, e)
           N == Len(ids)
<1>1. /\ p \in DOMAIN ids /\ ids[p] = e
      /\ t \in Seq(Nat)
      /\ DOMAIN t = 1..(N - 1)
      /\ \A n \in 1..(N - 1) : t[n] = IF n < p THEN ids[n] ELSE ids[n + 1]
  BY RemoveClosesGap
<1>2. /\ N \in Nat /\ DOMAIN ids = 1..N /\ ids # <<>>
      /\ Len(t) = N - 1
      /\ t = <<>> <=> N = 1
      /\ \A n \in 1..N : ids[n] \in Nat /\ ids[n] # INVALID_ID
  <2> HIDE DEF t, p
  <2>1. N \in Nat /\ DOMAIN ids = 1..N /\ N >= 1
    BY <1>1
  <2>2. Len(t) \in Nat /\ DOMAIN t = 1..Len(t) /\ (t = <<>> <=> Len(t) = 0)
    BY <1>1
  <2>3. Len(t) = N - 1
    <3>1. 1..Len(t) = 1..(N - 1)
      BY <1>1, <2>2
    <3> HIDE DEF N
    <3> QED BY <2>1, <2>2, <3>1
  <2> QED BY <2>1, <2>2, <2>3, SMTT(30) DEF INVALID_ID
<1>3. IsInjective(t) /\ ToSet(t) = ToSet(ids) \ {e}
  BY RemoveIsUnlink DEF IsList
<1> HIDE DEF t, p
<1>4. ToSet(t) = {i \in DOMAIN after : after[i].key = k}
  BY <1>3 DEF IsList
<1>5. /\ slots[e].next = IF p = N THEN INVALID_ID ELSE ids[p + 1]
      /\ slots[e].prev = IF p = 1 THEN INVALID_ID ELSE ids[p - 1]
  BY <1>1 DEF IsList
<1> HIDE DEF N
<1>9. p \in 1..N /\ N \in Nat /\ DOMAIN t = 1..(N - 1) /\ Len(t) = N - 1
  BY <1>1, <1>2
<1>6. new.first = (IF t = <<>> THEN INVALID_ID ELSE t[1])
  <2>1. CASE p = 1
    BY <1>1, <1>2, <1>5, <2>1
  <2>2. CASE p # 1
    <3>1. p - 1 \in 1..N /\ 1 \in 1..(N - 1) /\ 1 < p
      BY <1>1, <1>2, <2>2, SMTT(30)
    <3> QED BY <1>1, <1>2, <1>5, <2>2, <3>1 DEF IsList
  <2> QED BY <2>1, <2>2
<1>7. new.last = (IF t = <<>> THEN INVALID_ID ELSE t[Len(t)])
  <2>1. CASE p = N
    <3>1. CASE N = 1
      BY <1>1, <1>2, <1>5, <2>1, <3>1
    <3>2. CASE N # 1
      <4>1. N - 1 \in 1..(N - 1) /\ N - 1 < p
        BY <1>1, <1>2, <2>1, <3>2
      <4> QED BY <1>1, <1>2, <1>5, <2>1, <3>2, <4>1
    <3> QED BY <3>1, <3>2
  <2>2. CASE p # N
    <3>1. p + 1 \in 1..N /\ N - 1 \in 1..(N - 1) /\ ~(N - 1 < p) /\ (N - 1) + 1 = N
      BY <1>1, <1>2, <2>2, SMTT(30)
    <3> QED BY <1>1, <1>2, <1>5, <2>2, <3>1, SMTT(30) DEF IsList, N
  <2> QED BY <2>1, <2>2
<1>8. ASSUME NEW n \in DOMAIN t
      PROVE  /\ after[t[n]].next = IF n = Len(t) THEN INVALID_ID ELSE t[n + 1]
             /\ after[t[n]].prev = IF n = 1 THEN INVALID_ID ELSE t[n - 1]
  <2> DEFINE m == IF n < p THEN n ELSE n + 1
  <2>1. /\ m \in 1..N /\ m # p /\ n \in 1..(N - 1)
        /\ t[n] = ids[m]
        /\ m = IF n < p THEN n ELSE n + 1
    <3>1. n \in 1..(N - 1)
      BY <1>9
    <3>2. m \in 1..N /\ m # p
      BY <1>9, <3>1
    <3>3. t[n] = ids[m]
      BY <1>1, <3>1
    <3> QED BY <3>1, <3>2, <3>3
  <2> HIDE DEF m
  <2>2. ids[m] \in DOMAIN after
    <3>1. ids[m] \in ToSet(t)
      BY <2>1 DEF ToSet
    <3> QED BY <1>4, <3>1
  <2>3. /\ slots[ids[m]].next = IF m = N THEN INVALID_ID ELSE ids[m + 1]
        /\ slots[ids[m]].prev = IF m = 1 THEN INVALID_ID ELSE ids[m - 1]
    BY <1>2, <2>1 DEF IsList, N
  <2>4. \A j \in 1..N : ids[m] = ids[j] => m = j
    BY <1>2, <2>1 DEF IsList, IsInjective
  <2>5. after[ids[m]].next = IF n = Len(t) THEN INVALID_ID ELSE t[n + 1]
    <3>1. CASE m + 1 = p
      <4>1. n = m /\ p - 1 = m /\ p # 1 /\ slots[e].prev = ids[m]
        BY <1>5, <1>9, <2>1, <3>1, SMTT(30)
      <4>2. after[ids[m]].next = slots[e].next
        BY <2>2, <4>1
      <4>3. CASE p = N
        BY <1>2, <1>5, <3>1, <4>1, <4>2, <4>3
      <4>4. CASE p # N
        <5>1. n + 1 \in 1..(N - 1) /\ ~(n + 1 < p) /\ (n + 1) + 1 = p + 1 /\ n # Len(t)
          BY <1>9, <3>1, <4>1, <4>4
        <5>2. t[n + 1] = ids[p + 1]
          BY <1>1, <5>1
        <5> QED BY <1>5, <4>2, <4>4, <5>1, <5>2
      <4> QED BY <4>3, <4>4
    <3>2. CASE m + 1 # p
      <4>1. ids[m] # slots[e].prev
        <5>1. CASE p = 1
          BY <1>2, <1>5, <2>1, <5>1
        <5>2. CASE p # 1
          <6>1. p - 1 \in 1..N /\ m # p - 1
            BY <1>9, <2>1, <3>2, <5>2
          <6> QED BY <1>5, <2>4, <5>2, <6>1
        <5> QED BY <5>1, <5>2
      <4>2. after[ids[m]].next = slots[ids[m]].next
        BY <2>2, <4>1
      <4>3. CASE n = Len(t)
        <5>1. m = N
          BY <1>9, <2>1, <3>2, <4>3
        <5> QED BY <2>3, <4>2, <4>3, <5>1
      <4>4. CASE n # Len(t)
        <5>1. m # N /\ n + 1 \in 1..(N - 1) /\ (n + 1 < p => m + 1 = n + 1) /\ (~(n + 1 < p) => m + 1 = (n + 1) + 1)
          BY <1>9, <2>1, <3>2, <4>4, SMTT(30)
        <5>2. t[n + 1] = ids[m + 1]
          BY <1>1, <5>1
        <5> QED BY <2>3, <4>2, <4>4, <5>1, <5>2
      <4> QED BY <4>3, <4>4
    <3> QED BY <3>1, <3>2
  <2>6. after[ids[m]].prev = IF n = 1 THEN INVALID_ID ELSE t[n - 1]
    <3>1. CASE m - 1 = p
      <4>1. n = p /\ p + 1 = m /\ p # N /\ slots[e].next = ids[m]
        BY <1>5, <1>9, <2>1, <3>1
      <4>2. after[ids[m]].prev = slots[e].prev
        BY <2>2, <4>1
      <4>3. CASE p = 1
        BY <1>5, <4>1, <4>2, <4>3
      <4>4. CASE p # 1
        <5>1. n - 1 \in 1..(N - 1) /\ n - 1 < p /\ n - 1 = p - 1 /\ n # 1
          BY <1>9, <2>1, <4>1, <4>4
        <5>2. t[n - 1] = ids[p - 1]
          BY <1>1, <5>1
        <5> QED BY <1>5, <4>2, <4>4, <5>1, <5>2
      <4> QED BY <4>3, <4>4
    <3>2. CASE m - 1 # p
      <4>1. ids[m] # slots[e].next
        <5>1. CASE p = N
          BY <1>2, <1>5, <2>1, <5>1
        <5>2. CASE p # N
          <6>1. p + 1 \in 1..N /\ m # p + 1
            BY <1>9, <2>1, <3>2, <5>2
          <6> QED BY <1>5, <2>4, <5>2, <6>1
        <5> QED BY <5>1, <5>2
      <4>2. after[ids[m]].prev = slots[ids[m]].prev
        BY <2>2, <4>1
      <4>3. CASE n = 1
        <5>1. m = 1
          BY <1>9, <2>1, <3>2, <4>3
        <5> QED BY <2>3, <4>2, <4>3, <5>1
      <4>4. CASE n # 1
        <5>1. m # 1 /\ n - 1 \in 1..(N - 1) /\ (n - 1 < p => m - 1 = n - 1) /\ (~(n - 1 < p) => m - 1 = (n - 1) + 1)
          <6>1. n \in 1..(N - 1) /\ m \in 1..N /\ m # p /\ p \in 1..N /\ N \in Nat /\ m - 1 # p /\ n # 1
            BY <1>9, <2>1, <3>2, <4>4
          <6>2. CASE n < p
            <7>1. m = n
              BY <2>1, <6>2
            <7> QED BY <6>1, <6>2, <7>1
          <6>3. CASE ~(n < p)
            <7>1. m = n + 1
              BY <2>1, <6>3
            <7> QED BY <6>1, <6>3, <7>1, SMTT(30)
          <6> QED BY <6>2, <6>3
        <5>2. t[n - 1] = ids[m - 1]
          BY <1>1, <5>1
        <5> QED BY <2>3, <4>2, <4>4, <5>1, <5>2
      <4> QED BY <4>3, <4>4
    <3> QED BY <3>1, <3>2
  <2> QED BY <2>1, <2>5, <2>6
<1> QED BY <1>3, <1>4, <1>6, <1>7, <1>8 DEF IsList, t
----------------------------------------------------------------------------
(***************************************************************************)
(* The pool.  "ids" is the list of its free slots.                         *)
(***************************************************************************)
IsFreeList(pl, ids) ==
  /\ IsInjective(ids)
  /\ ToSet(ids) = SlotIds(pl) \ InUse(pl)
  /\ IsChain(pl.next_free, pl.slot, ids)

PoolLinked(pl) ==
  /\ pl \in [size : Nat, next_free : -1..(pl.size - 1), slot : [SlotIds(pl) -> -2..(pl.size - 1)]]
  /\ pl.size >= 2
  /\ \E ids \in Seq(SlotIds(pl)) : IsFreeList(pl, ids)

(* The chain that alloc_id follows is the list of the free slots.          *)
LEMMA FreeChainIsFreeList ==
  ASSUME NEW pl, PoolLinked(pl), NEW ids \in Seq(SlotIds(pl)), IsFreeList(pl, ids)
  PROVE  FreeChain(pl) = ids
<1>1. pl.size \in Nat
  BY DEF PoolLinked
<1>2. Len(ids) <= pl.size
  BY <1>1, NoLongerThanSlots DEF SlotIds, IsFreeList
<1>3. ids \in Seq(Nat)
  <2>1. SlotIds(pl) \subseteq Nat
    BY <1>1 DEF SlotIds
  <2> QED BY <2>1
<1> QED BY <1>1, <1>2, <1>3, FollowsChain DEF FreeChain, IsFreeList

(* A new pool: the slots are chained upwards.                              *)
LEMMA NewPool ==
  ASSUME NEW n \in Nat \ {0, 1}
  PROVE  LET pl == obj_pool_init_with_prealloc(n) IN
         PoolLinked(pl) /\ InUse(pl) = {} /\ pl.size = n
<1> DEFINE pl == obj_pool_init_with_prealloc(n)
           ids == [m \in 1..n |-> m - 1]
<1>1. /\ pl.size = n /\ pl.next_free = 0
      /\ pl.slot = [i \in 0..(n - 1) |-> FreshSlot(i, n)]
      /\ pl \in [size : {n}, next_free : {0}, slot : {[i \in 0..(n - 1) |-> FreshSlot(i, n)]}]
  BY DEF obj_pool_init_with_prealloc
<1>2. ASSUME NEW i \in 0..(n - 1)
      PROVE  pl.slot[i] = (IF i = n - 1 THEN -1 ELSE i + 1) /\ pl.slot[i] \in -1..(n - 1)
  BY <1>1 DEF FreshSlot, INVALID_ID
<1> HIDE DEF pl
<1>3. SlotIds(pl) = 0..(n - 1) /\ InUse(pl) = {}
  BY <1>1, <1>2 DEF SlotIds, InUse, ALLOCED_ID
<1>4. pl \in [size : Nat, next_free : -1..(pl.size - 1), slot : [SlotIds(pl) -> -2..(pl.size - 1)]]
  <2>1. pl.slot \in [0..(n - 1) -> -2..(n - 1)]
    <3>1. pl.slot = [i \in 0..(n - 1) |-> pl.slot[i]]
      BY <1>1
    <3>2. \A i \in 0..(n - 1) : pl.slot[i] \in -2..(n - 1)
      BY <1>2
    <3> QED BY <3>1, <3>2
  <2> QED BY <1>1, <1>3, <2>1
<1>5. ids \in Seq(0..(n - 1)) /\ Len(ids) = n /\ ids # <<>> /\ DOMAIN ids = 1..n
  OBVIOUS
<1>6. IsInjective(ids) /\ ToSet(ids) = 0..(n - 1)
  <2>1. IsInjective(ids)
    BY DEF IsInjective
  <2>2. ASSUME NEW i \in 0..(n - 1) PROVE i \in ToSet(ids)
    <3>1. i + 1 \in DOMAIN ids /\ ids[i + 1] = i
      OBVIOUS
    <3> QED BY <3>1 DEF ToSet
  <2>3. ToSet(ids) \subseteq 0..(n - 1)
    BY DEF ToSet
  <2> QED BY <2>1, <2>2, <2>3
<1>7. IsChain(pl.next_free, pl.slot, ids)
  <2>1. pl.next_free = ids[1]
    BY <1>1
  <2>2. ASSUME NEW m \in 1..n PROVE pl.slot[ids[m]] = IF m = n THEN -1 ELSE ids[m + 1]
    <3>1. ids[m] = m - 1 /\ m - 1 \in 0..(n - 1) /\ (m - 1 = n - 1 <=> m = n) /\ (m - 1) + 1 = m
      OBVIOUS
    <3>2. m # n => ids[m + 1] = m
      OBVIOUS
    <3> HIDE DEF ids
    <3> QED BY <1>2, <3>1, <3>2
  <2> HIDE DEF ids
  <2> QED BY <1>5, <2>1, <2>2 DEF IsChain, INVALID_ID
<1> HIDE DEF ids
<1>8. IsFreeList(pl, ids)
  BY <1>3, <1>6, <1>7 DEF IsFreeList
<1> QED BY <1>1, <1>3, <1>4, <1>5, <1>8, SMTT(30) DEF PoolLinked, pl

(* Freeing a slot in use puts it in front of the chain.                    *)
LEMMA FreedSlot ==
  ASSUME NEW pl, PoolLinked(pl), NEW i \in InUse(pl)
  PROVE  LET after == obj_pool_free_id(pl, i) IN
         PoolLinked(after) /\ InUse(after) = InUse(pl) \ {i} /\ after.size = pl.size
<1> DEFINE after == obj_pool_free_id(pl, i)
<1>1. PICK old \in Seq(SlotIds(pl)) : IsFreeList(pl, old)
  BY DEF PoolLinked
<1> DEFINE ids == <<i>> \o old
<1>2. /\ pl \in [size : Nat, next_free : -1..(pl.size - 1), slot : [SlotIds(pl) -> -2..(pl.size - 1)]]
      /\ pl.size >= 2 /\ pl.size \in Nat /\ i \in SlotIds(pl) /\ i \in 0..(pl.size - 1)
  BY DEF PoolLinked, InUse, SlotIds
<1>3. /\ after.size = pl.size /\ after.next_free = i
      /\ after.slot = [pl.slot EXCEPT ![i] = pl.next_free]
      /\ after \in [size : Nat, next_free : -1..(pl.size - 1), slot : [SlotIds(pl) -> -2..(pl.size - 1)]]
  <2>1. after = [pl EXCEPT !.slot[i] = pl.next_free, !.next_free = i]
    BY DEF obj_pool_free_id
  <2>2. /\ after.size = pl.size /\ after.next_free = i
        /\ after.slot = [pl.slot EXCEPT ![i] = pl.next_free]
        /\ after = [size |-> after.size, next_free |-> after.next_free, slot |-> after.slot]
    BY <1>2, <2>1
  <2>3. pl.next_free \in -1..(pl.size - 1) /\ pl.slot \in [SlotIds(pl) -> -2..(pl.size - 1)]
    BY <1>2
  <2>4. after.slot \in [SlotIds(pl) -> -2..(pl.size - 1)] /\ i \in -1..(pl.size - 1)
    BY <1>2, <2>2, <2>3
  <2> HIDE DEF after
  <2> QED BY <1>2, <2>2, <2>4
<1>4. \A j \in SlotIds(pl) : after.slot[j] = IF j = i THEN pl.next_free ELSE pl.slot[j]
  BY <1>2, <1>3
<1> HIDE DEF after
<1>5. SlotIds(after) = SlotIds(pl)
  BY <1>3 DEF SlotIds
<1>6. InUse(after) = InUse(pl) \ {i}
  <2>1. pl.next_free # ALLOCED_ID
    BY <1>2 DEF ALLOCED_ID
  <2> QED BY <1>2, <1>4, <1>5, <2>1 DEF InUse
<1>7. i \notin ToSet(old)
  BY <1>1 DEF IsFreeList
<1>8. ids \in Seq(SlotIds(pl)) /\ IsInjective(ids) /\ ToSet(ids) = ToSet(old) \cup {i}
  BY <1>1, <1>2, <1>7, PrependIsLink DEF IsFreeList
<1>9. ToSet(ids) = SlotIds(after) \ InUse(after)
  BY <1>1, <1>2, <1>5, <1>6, <1>8 DEF IsFreeList
<1>10. /\ Len(old) \in Nat /\ DOMAIN old = 1..Len(old)
       /\ DOMAIN ids = 1..(Len(old) + 1) /\ Len(ids) = Len(old) + 1
       /\ \A n \in 2..(Len(old) + 1) : ids[n] = old[n - 1]
       /\ ids[1] = i /\ ids # <<>>
       /\ old = <<>> <=> Len(old) = 0
  BY <1>1, <1>2
<1> HIDE DEF ids
<1>11. ASSUME NEW n \in DOMAIN ids
       PROVE  after.slot[ids[n]] = IF n = Len(ids) THEN INVALID_ID ELSE ids[n + 1]
  <2>1. CASE n = 1
    <3>1. after.slot[ids[n]] = IF old = <<>> THEN INVALID_ID ELSE old[1]
      BY <1>1, <1>2, <1>4, <1>10, <2>1 DEF IsFreeList, IsChain
    <3>2. CASE Len(old) = 0
      BY <1>10, <2>1, <3>1, <3>2
    <3>3. CASE Len(old) > 0
      <4>1. 2 \in 2..(Len(old) + 1) /\ 2 - 1 = 1 /\ n + 1 = 2 /\ n # Len(ids)
        BY <1>10, <2>1, <3>3
      <4> QED BY <1>10, <3>1, <3>3, <4>1
    <3> QED BY <1>10, <3>2, <3>3
  <2>2. CASE n # 1
    <3>1. n \in 2..(Len(old) + 1) /\ n - 1 \in DOMAIN old
      BY <1>10, <2>2
    <3>2. ids[n] = old[n - 1] /\ old[n - 1] # i /\ old[n - 1] \in SlotIds(pl)
      BY <1>1, <1>7, <1>10, <3>1 DEF ToSet
    <3>3. after.slot[ids[n]] = IF n - 1 = Len(old) THEN INVALID_ID ELSE old[(n - 1) + 1]
      BY <1>1, <1>4, <3>1, <3>2 DEF IsFreeList, IsChain
    <3>4. CASE n = Len(ids)
      <4>1. n - 1 = Len(old)
        BY <1>10, <3>4
      <4> QED BY <3>3, <3>4, <4>1
    <3>5. CASE n # Len(ids)
      <4>1. n - 1 # Len(old) /\ n + 1 \in 2..(Len(old) + 1) /\ (n + 1) - 1 = (n - 1) + 1
        BY <1>10, <3>1, <3>5
      <4>2. ids[n + 1] = old[(n - 1) + 1]
        BY <1>10, <4>1
      <4> QED BY <3>3, <3>5, <4>1, <4>2
    <3> QED BY <3>4, <3>5
  <2> QED BY <2>1, <2>2
<1>12. IsChain(after.next_free, after.slot, ids)
  BY <1>3, <1>10, <1>11 DEF IsChain
<1>13. IsFreeList(after, ids)
  BY <1>8, <1>9, <1>12 DEF IsFreeList
<1>14. PoolLinked(after)
  BY <1>2, <1>3, <1>5, <1>8, <1>13 DEF PoolLinked
<1> QED BY <1>3, <1>6, <1>14 DEF after

(* Handing out the head of the chain, or the first slot of the new half of *)
(* the array.                                                              *)
LEMMA AllocatedSlot ==
  ASSUME NEW pl, PoolLinked(pl)
  PROVE  LET id == AllocId(pl)
             after == obj_pool_alloc_id(pl)
         IN  /\ PoolLinked(after)
             /\ id \in SlotIds(after) /\ id \notin InUse(pl)
             /\ InUse(after) = InUse(pl) \cup {id}
             /\ after.size = IF pl.next_free >= 0 THEN pl.size ELSE 2 * pl.size
<1> DEFINE id == AllocId(pl)
           after == obj_pool_alloc_id(pl)
           N == pl.size
<1>1. PICK old \in Seq(SlotIds(pl)) : IsFreeList(pl, old)
  BY DEF PoolLinked
<1>2. /\ pl \in [size : Nat, next_free : -1..(N - 1), slot : [0..(N - 1) -> -2..(N - 1)]]
      /\ N >= 2 /\ N \in Nat /\ SlotIds(pl) = 0..(N - 1)
      /\ pl.next_free \in -1..(N - 1)
  BY DEF PoolLinked, SlotIds
<1>3. /\ Len(old) \in Nat /\ DOMAIN old = 1..Len(old)
      /\ old = <<>> <=> Len(old) = 0
      /\ \A n \in 1..Len(old) : old[n] \in 0..(N - 1)
  BY <1>1, <1>2
<1> HIDE DEF N
<1>4. CASE pl.next_free >= 0
  <2>1. old # <<>> /\ pl.next_free = old[1] /\ id = old[1]
    BY <1>1, <1>3, <1>4 DEF IsFreeList, IsChain, INVALID_ID, AllocId
  <2>2. 1 \in DOMAIN old /\ id \in 0..(N - 1)
    BY <1>3, <2>1
  <2>3. pl.slot[id] = IF 1 = Len(old) THEN INVALID_ID ELSE old[1 + 1]
    BY <1>1, <2>1, <2>2 DEF IsFreeList, IsChain
  <2>4. pl.slot[id] \in -1..(N - 1)
    <3>1. -1 \in -1..(N - 1) /\ 0..(N - 1) \subseteq -1..(N - 1)
      BY <1>2
    <3>2. CASE 1 = Len(old)
      BY <2>3, <3>1, <3>2 DEF INVALID_ID
    <3>3. CASE 1 # Len(old)
      <4>1. 1 + 1 \in 1..Len(old)
        BY <1>3, <2>2, <3>3
      <4>2. pl.slot[id] = old[1 + 1] /\ old[1 + 1] \in 0..(N - 1)
        BY <1>3, <2>3, <3>3, <4>1
      <4> QED BY <3>1, <4>2
    <3> QED BY <3>2, <3>3
  <2>5. /\ after.size = N /\ after.next_free = pl.slot[id]
        /\ after.slot = [pl.slot EXCEPT ![id] = ALLOCED_ID]
        /\ after \in [size : Nat, next_free : -1..(N - 1), slot : [0..(N - 1) -> -2..(N - 1)]]
    <3>1. after = [pl EXCEPT !.next_free = pl.slot[id], !.slot[id] = ALLOCED_ID]
      BY <1>4 DEF obj_pool_alloc_id
    <3> HIDE DEF id
    <3>2. /\ after.size = N /\ after.next_free = pl.slot[id]
          /\ after.slot = [pl.slot EXCEPT ![id] = ALLOCED_ID]
          /\ after = [size |-> after.size, next_free |-> after.next_free, slot |-> after.slot]
      BY <1>2, <3>1 DEF N
    <3>3. pl.slot \in [0..(N - 1) -> -2..(N - 1)] /\ ALLOCED_ID \in -2..(N - 1)
      BY <1>2 DEF ALLOCED_ID
    <3>4. after.slot \in [0..(N - 1) -> -2..(N - 1)]
      BY <2>2, <3>2, <3>3
    <3> HIDE DEF after
    <3> QED BY <1>2, <2>4, <3>2, <3>4
  <2> HIDE DEF after, id
  <2>6. \A j \in 0..(N - 1) : after.slot[j] = IF j = id THEN ALLOCED_ID ELSE pl.slot[j]
    BY <1>2, <2>2, <2>5
  <2>7. SlotIds(after) = 0..(N - 1) /\ InUse(after) = InUse(pl) \cup {id}
    <3>1. SlotIds(after) = 0..(N - 1)
      BY <2>5 DEF SlotIds
    <3>2. InUse(pl) = {j \in 0..(N - 1) : pl.slot[j] = ALLOCED_ID}
      BY <1>2 DEF InUse
    <3>3. InUse(after) = {j \in 0..(N - 1) : after.slot[j] = ALLOCED_ID}
      BY <3>1 DEF InUse
    <3> QED BY <2>2, <2>6, <3>1, <3>2, <3>3
  <2> DEFINE ids == Tail(old)
  <2>8. /\ ids \in Seq(0..(N - 1)) /\ IsInjective(ids)
        /\ ToSet(ids) = ToSet(old) \ {id} /\ id \in ToSet(old)
    <3>1. Head(old) = id
      BY <1>3, <2>1
    <3>2. old \in Seq(0..(N - 1)) /\ old # <<>> /\ IsInjective(old)
      BY <1>1, <1>2, <2>1 DEF IsFreeList
    <3>3. Tail(old) \in Seq(0..(N - 1)) /\ ToSet(Tail(old)) = ToSet(old) \ {Head(old)}
          /\ IsInjective(Tail(old)) /\ Head(old) \in ToSet(old)
      BY <3>2, PopIsUnlink
    <3> QED BY <3>1, <3>3
  <2>9. /\ DOMAIN ids = 1..(Len(old) - 1) /\ Len(ids) = Len(old) - 1
        /\ \A n \in 1..(Len(old) - 1) : ids[n] = old[n + 1]
        /\ ids = <<>> <=> Len(old) = 1
    BY <1>3, <2>1
  <2> HIDE DEF ids
  <2>10. ASSUME NEW n \in DOMAIN ids
         PROVE  after.slot[ids[n]] = IF n = Len(ids) THEN INVALID_ID ELSE ids[n + 1]
    <3>1. n \in 1..(Len(old) - 1) /\ n + 1 \in DOMAIN old /\ 1 \in DOMAIN old /\ n + 1 # 1
      BY <1>3, <2>9
    <3>2. ids[n] = old[n + 1] /\ old[n + 1] # id /\ old[n + 1] \in 0..(N - 1)
      BY <1>1, <1>3, <2>1, <2>9, <3>1 DEF IsFreeList, IsInjective
    <3>3. after.slot[ids[n]] = IF n + 1 = Len(old) THEN INVALID_ID ELSE old[(n + 1) + 1]
      BY <1>1, <2>6, <3>1, <3>2, SMTT(30) DEF IsFreeList, IsChain
    <3>4. n + 1 = Len(old) <=> n = Len(ids)
      BY <1>3, <2>9, <3>1
    <3>5. n # Len(ids) => ids[n + 1] = old[(n + 1) + 1]
      BY <1>3, <2>9, <3>1
    <3> QED BY <3>3, <3>4, <3>5
  <2>11. after.next_free = IF ids = <<>> THEN INVALID_ID ELSE ids[1]
    <3>1. Len(old) # 1 => 1 \in 1..(Len(old) - 1)
      BY <1>3, <2>2
    <3> QED BY <2>3, <2>5, <2>9, <3>1
  <2>12. IsFreeList(after, ids)
    BY <1>1, <1>2, <2>7, <2>8, <2>10, <2>11 DEF IsFreeList, IsChain
  <2>13. PoolLinked(after)
    BY <1>2, <2>5, <2>7, <2>8, <2>12 DEF PoolLinked
  <2>14. id \notin InUse(pl)
    BY <1>1, <2>8 DEF IsFreeList
  <2> QED BY <1>4, <2>2, <2>5, <2>7, <2>13, <2>14 DEF id, after, N
<1>5. CASE ~(pl.next_free >= 0)
  <2>1. old = <<>> /\ InUse(pl) = 0..(N - 1) /\ id = N
    <3>1. old = <<>>
      BY <1>1, <1>3, <1>5 DEF IsFreeList, IsChain
    <3>2. ToSet(old) = {} /\ InUse(pl) \subseteq SlotIds(pl)
      BY <3>1 DEF ToSet, InUse
    <3> QED BY <1>1, <1>2, <1>5, <3>1, <3>2 DEF IsFreeList, AllocId, N
  <2>2. /\ after.size = 2 * N /\ after.next_free = N + 1
        /\ after.slot = [i \in 0..(2 * N - 1) |->
                          IF i < N THEN pl.slot[i]
                          ELSE IF i = N THEN ALLOCED_ID ELSE FreshSlot(i, 2 * N)]
        /\ after = [size |-> after.size, next_free |-> after.next_free, slot |-> after.slot]
    <3>1. N = pl.size
      BY DEF N
    <3> QED BY <1>2, <1>5, <2>1, <3>1 DEF obj_pool_alloc_id
  <2> HIDE DEF after, id
  <2>3. \A i \in 0..(2 * N - 1) :
          /\ i < N => after.slot[i] = ALLOCED_ID
          /\ i = N => after.slot[i] = ALLOCED_ID
          /\ i > N => after.slot[i] = IF i = 2 * N - 1 THEN INVALID_ID ELSE i + 1
    <3>1. \A i \in 0..(N - 1) : pl.slot[i] = ALLOCED_ID
      BY <2>1 DEF InUse
    <3> QED BY <1>2, <2>2, <3>1, SMTT(30) DEF FreshSlot
  <2>4. SlotIds(after) = 0..(2 * N - 1) /\ InUse(after) = 0..N
    <3>1. \A i \in 0..(2 * N - 1) : after.slot[i] = ALLOCED_ID <=> i \in 0..N
      <4> TAKE i \in 0..(2 * N - 1)
      <4>1. i \in Int /\ i >= 0 /\ (i \in 0..N <=> i < N \/ i = N)
        BY <1>2
      <4>2. i > N \/ i < N \/ i = N
        BY <1>2, <4>1
      <4>3. ASSUME i > N PROVE after.slot[i] # ALLOCED_ID /\ i \notin 0..N
        <5>1. after.slot[i] = IF i = 2 * N - 1 THEN -1 ELSE i + 1
          BY <2>3, <4>3 DEF INVALID_ID
        <5>2. after.slot[i] # -2
          BY <4>1, <5>1
        <5>3. i \notin 0..N
          BY <1>2, <4>1, <4>3
        <5> QED BY <5>2, <5>3 DEF ALLOCED_ID
      <4> QED BY <2>3, <4>1, <4>2, <4>3
    <3>2. 0..N \subseteq 0..(2 * N - 1)
      BY <1>2
    <3>3. SlotIds(after) = 0..(2 * N - 1)
      BY <2>2 DEF SlotIds
    <3> QED BY <3>1, <3>2, <3>3 DEF InUse
  <2>5. after \in [size : Nat, next_free : -1..(2 * N - 1), slot : [0..(2 * N - 1) -> -2..(2 * N - 1)]]
    <3>1. ASSUME NEW i \in 0..(2 * N - 1) PROVE after.slot[i] \in -2..(2 * N - 1)
      <4>1. i \in Int /\ (i < N \/ i = N \/ i > N) /\ (i # 2 * N - 1 => i + 1 \in -2..(2 * N - 1))
        BY <1>2
      <4>2. -1 \in -2..(2 * N - 1) /\ -2 \in -2..(2 * N - 1)
        BY <1>2
      <4> QED BY <2>3, <4>1, <4>2 DEF ALLOCED_ID, INVALID_ID
    <3>2. after.slot = [i \in 0..(2 * N - 1) |-> after.slot[i]]
      BY <2>2
    <3>3. after.slot \in [0..(2 * N - 1) -> -2..(2 * N - 1)]
      BY <3>1, <3>2
    <3>4. 2 * N \in Nat /\ N + 1 \in -1..(2 * N - 1)
      BY <1>2
    <3> QED BY <2>2, <3>3, <3>4
  <2> DEFINE ids == [n \in 1..(N - 1) |-> N + n]
  <2>6. ids \in Seq(0..(2 * N - 1)) /\ Len(ids) = N - 1 /\ ids # <<>> /\ DOMAIN ids = 1..(N - 1)
    <3>1. \A n \in 1..(N - 1) : N + n \in 0..(2 * N - 1)
      BY <1>2
    <3>2. N - 1 \in Nat /\ N - 1 # 0
      BY <1>2
    <3>3. ids \in Seq(0..(2 * N - 1)) /\ Len(ids) = N - 1 /\ DOMAIN ids = 1..(N - 1)
      <4> DEFINE M == N - 1
      <4>1. M \in Nat /\ \A n \in 1..M : N + n \in 0..(2 * N - 1)
        BY <3>1, <3>2
      <4>2. ids = [n \in 1..M |-> N + n]
        OBVIOUS
      <4> HIDE DEF M, ids
      <4>3. ids \in Seq(0..(2 * N - 1)) /\ Len(ids) = M /\ DOMAIN ids = 1..M
        BY <4>1, <4>2
      <4> QED BY <4>3 DEF M
    <3> HIDE DEF ids
    <3> QED BY <3>2, <3>3
  <2>7. IsInjective(ids) /\ ToSet(ids) = (N + 1)..(2 * N - 1)
    <3>1. IsInjective(ids)
      BY <1>2 DEF IsInjective
    <3>2. ASSUME NEW i \in (N + 1)..(2 * N - 1) PROVE i \in ToSet(ids)
      <4>1. i - N \in DOMAIN ids /\ ids[i - N] = i
        BY <1>2
      <4> QED BY <4>1 DEF ToSet
    <3>3. ToSet(ids) \subseteq (N + 1)..(2 * N - 1)
      BY <1>2, SMTT(30) DEF ToSet
    <3> QED BY <3>1, <3>2, <3>3
  <2>8. ASSUME NEW n \in DOMAIN ids
        PROVE  after.slot[ids[n]] = IF n = Len(ids) THEN INVALID_ID ELSE ids[n + 1]
    <3>1. n \in 1..(N - 1) /\ ids[n] = N + n
      OBVIOUS
    <3>2. N + n \in 0..(2 * N - 1) /\ N + n > N /\ (N + n = 2 * N - 1 <=> n = Len(ids))
      BY <1>2, <2>6, <3>1
    <3>3. n # Len(ids) => ids[n + 1] = (N + n) + 1
      BY <1>2, <2>6, <3>1
    <3> HIDE DEF ids
    <3> QED BY <2>3, <3>1, <3>2, <3>3
  <2>9. after.next_free = ids[1]
    BY <1>2, <2>2
  <2> HIDE DEF ids
  <2>10. IsFreeList(after, ids)
    <3>1. ToSet(ids) = SlotIds(after) \ InUse(after)
      <4>1. (N + 1)..(2 * N - 1) = (0..(2 * N - 1)) \ (0..N)
        BY <1>2, SMTT(30)
      <4> QED BY <2>4, <2>7, <4>1
    <3>2. IsChain(after.next_free, after.slot, ids)
      BY <2>6, <2>8, <2>9 DEF IsChain
    <3> QED BY <2>7, <3>1, <3>2 DEF IsFreeList
  <2>11. PoolLinked(after)
    <3>1. 2 * N >= 2 /\ after.size = 2 * N
      BY <1>2, <2>2
    <3> QED BY <2>4, <2>5, <2>6, <2>10, <3>1 DEF PoolLinked
  <2>12. N \in SlotIds(after) /\ N \notin InUse(pl) /\ InUse(after) = InUse(pl) \cup {N}
    BY <1>2, <2>1, <2>4, SMTT(30)
  <2> QED BY <1>5, <2>1, <2>2, <2>11, <2>12 DEF id, after, N
<1> QED BY <1>4, <1>5

(* Freeing slots in use one after the other.                               *)
LEMMA FreedSlots ==
  ASSUME PoolLinked(pool), NEW ids \in Seq(InUse(pool)), IsInjective(ids)
  PROVE  LET after == PoolAfterFree(ids) IN
         PoolLinked(after) /\ InUse(after) = InUse(pool) \ ToSet(ids) /\ after.size = pool.size
<1> DEFINE N == Len(ids)
           V == [size : {pool.size}, next_free : Int, slot : [SlotIds(pool) -> Int]]
           step == [x \in V \X (1..N) |-> obj_pool_free_id(x[1], ids[x[2]])]
           Is(f) == f = [n \in 0..N |-> IF n = 0 THEN pool ELSE obj_pool_free_id(f[n - 1], ids[n])]
<1>1. N \in Nat /\ DOMAIN ids = 1..N /\ \A n \in 1..N : ids[n] \in InUse(pool)
  OBVIOUS
<1> HIDE DEF N
<1>2. pool \in V /\ pool.size \in Nat
  BY DEF PoolLinked
<1>3. ASSUME NEW pl \in V, NEW i \in InUse(pool) PROVE obj_pool_free_id(pl, i) \in V
  <2>1. i \in SlotIds(pool) /\ i \in Int /\ pl.slot \in [SlotIds(pool) -> Int] /\ pl.next_free \in Int
    BY <1>2 DEF InUse, SlotIds
  <2>2. CASE i \notin InUse(pl)
    BY <2>2 DEF obj_pool_free_id
  <2>3. CASE i \in InUse(pl)
    <3>1. obj_pool_free_id(pl, i) = [pl EXCEPT !.slot[i] = pl.next_free, !.next_free = i]
      BY <2>3 DEF obj_pool_free_id
    <3>2. [pl.slot EXCEPT ![i] = pl.next_free] \in [SlotIds(pool) -> Int]
      BY <2>1
    <3>3. obj_pool_free_id(pl, i) =
            [size |-> pl.size, next_free |-> i, slot |-> [pl.slot EXCEPT ![i] = pl.next_free]]
      BY <3>1
    <3>4. pl.size = pool.size
      OBVIOUS
    <3> QED BY <2>1, <3>2, <3>3, <3>4
  <2> QED BY <2>2, <2>3
<1> HIDE DEF V
<1>4. step \in [V \X (1..N) -> V]
  BY <1>1, <1>3
<1>5. \E f : Is(f)
  <2>1. \A x \in V, n \in 1..N : step[<<x, n>>] = obj_pool_free_id(x, ids[n])
    OBVIOUS
  <2> HIDE DEF step
  <2>2. PICK f : IsSteps(f, N, V, pool, step)
    BY <1>1, <1>2, <1>4, StepsExist
  <2>5. ASSUME NEW n \in 0..N
        PROVE  f[n] = IF n = 0 THEN pool ELSE obj_pool_free_id(f[n - 1], ids[n])
    <3>1. CASE n = 0
      BY <2>2, <3>1 DEF IsSteps
    <3>2. CASE n # 0
      <4>1. n \in 1..N /\ n - 1 \in 0..N
        BY <1>1, <3>2
      <4>2. f[n - 1] \in V
        BY <2>2, <4>1 DEF IsSteps
      <4> QED BY <2>1, <2>2, <3>2, <4>1, <4>2 DEF IsSteps
    <3> QED BY <3>1, <3>2
  <2>6. Is(f)
    BY <2>2, <2>5 DEF IsSteps
  <2> HIDE DEF Is
  <2> QED BY <2>6
<1> DEFINE F == CHOOSE f : Is(f)
<1>6. \A n \in 0..N : F[n] = IF n = 0 THEN pool ELSE obj_pool_free_id(F[n - 1], ids[n])
  <2>1. Is(F)
    <3> HIDE DEF Is
    <3> QED BY <1>5
  <2> HIDE DEF F
  <2> QED BY <2>1
<1>7. PoolAfterFree(ids) = F[N]
  BY DEF PoolAfterFree, N
<1> HIDE DEF F
<1> DEFINE T == {n \in 0..N : /\ PoolLinked(F[n]) /\ F[n].size = pool.size
                              /\ InUse(F[n]) = InUse(pool) \ {ids[m] : m \in 1..n}}
<1>8. 0 \in T
  <2>1. F[0] = pool /\ 0 \in 0..N /\ {ids[m] : m \in 1..0} = {}
    BY <1>1, <1>6
  <2> QED BY <2>1
<1>9. ASSUME NEW n \in 0..(N - 1), n \in T PROVE n + 1 \in T
  <2>1. n + 1 \in 1..N /\ (n + 1) - 1 = n /\ n + 1 \in 0..N /\ n + 1 # 0 /\ n \in Nat
    BY <1>1
  <2>2. F[n + 1] = obj_pool_free_id(F[n], ids[n + 1])
    BY <1>6, <2>1
  <2>3. ids[n + 1] \notin {ids[m] : m \in 1..n}
    BY <1>1, <2>1 DEF IsInjective
  <2>4. ids[n + 1] \in InUse(F[n])
    BY <1>1, <1>9, <2>1, <2>3
  <2>5. /\ PoolLinked(F[n + 1]) /\ F[n + 1].size = pool.size
        /\ InUse(F[n + 1]) = InUse(F[n]) \ {ids[n + 1]}
    BY <1>9, <2>2, <2>4, FreedSlot
  <2>6. {ids[m] : m \in 1..(n + 1)} = {ids[m] : m \in 1..n} \cup {ids[n + 1]}
    BY <2>1
  <2> QED BY <1>9, <2>1, <2>5, <2>6
<1>10. N \in T
  <2> HIDE DEF T
  <2>1. \A n \in 0..N : n \in T
    BY <1>1, <1>8, <1>9, CountingUp
  <2> QED BY <1>1, <2>1
<1>11. ToSet(ids) = {ids[m] : m \in 1..N}
  BY <1>1 DEF ToSet
<1> QED BY <1>7, <1>10, <1>11
----------------------------------------------------------------------------
(***************************************************************************)
(* The inductive invariant: the types, the chain of free slots, and for    *)
(* each key the list of its handlers, which the walk of the model visits.  *)
(***************************************************************************)
AreLists(slots, entries, lists) ==
  /\ lists = [k \in DOMAIN entries |-> lists[k]]
  /\ \A k \in DOMAIN entries : /\ lists[k] \in Seq(DOMAIN slots)
                               /\ IsList(slots, entries[k], k, lists[k])

HandlersOf(k) == IF k \in DOMAIN keys THEN Handlers[k] ELSE <<>>

OrderExact == order \in Seq(Key) /\ IsInjective(order) /\ ToSet(order) = DOMAIN keys

Inv ==
  /\ TypeOK
  /\ PoolLinked(pool)
  /\ AreLists(objs, keys, Handlers)
  /\ OrderExact

(* Walking each key visits its list.                                       *)
LEMMA WalkVisitsLists ==
  ASSUME NEW N \in Nat, NEW slots, NEW entries, NEW lists,
         DOMAIN slots \subseteq 0..(N - 1), AreLists(slots, entries, lists)
  PROVE  [k \in DOMAIN entries |->
            Follow(entries[k].first, [i \in DOMAIN slots |-> slots[i].next], N)] = lists
<1> DEFINE next == [i \in DOMAIN slots |-> slots[i].next]
<1>1. ASSUME NEW k \in DOMAIN entries
      PROVE  Follow(entries[k].first, next, N) = lists[k]
  <2> DEFINE ids == lists[k]
  <2>1. ids \in Seq(DOMAIN slots) /\ IsList(slots, entries[k], k, ids)
    BY DEF AreLists
  <2> HIDE DEF ids
  <2>2. ids \in Seq(0..(N - 1)) /\ ids \in Seq(Nat)
    BY <2>1
  <2>3. Len(ids) <= N
    BY <2>1, <2>2, NoLongerThanSlots DEF IsList
  <2>4. IsChain(entries[k].first, next, ids)
    <3>1. \A n \in DOMAIN ids : next[ids[n]] = slots[ids[n]].next
      BY <2>1
    <3> HIDE DEF next
    <3> QED BY <2>1, <3>1 DEF IsList, IsChain
  <2> HIDE DEF next
  <2> QED BY <2>2, <2>3, <2>4, FollowsChain DEF ids
<1> HIDE DEF next
<1>2. [k \in DOMAIN entries |-> Follow(entries[k].first, next, N)] = [k \in DOMAIN entries |-> lists[k]]
  BY <1>1
<1> QED BY <1>2 DEF next, AreLists

(* The type invariant, and what it says of the slots.                      *)
LEMMA SlotTypes ==
  ASSUME TypeOK
  PROVE  /\ pool.size \in Nat /\ pool.size \in Prealloc..MaxSize /\ MaxSize \in Nat
         /\ Prealloc \in Nat \ {0, 1}
         /\ SlotIds(pool) = 0..(pool.size - 1)
         /\ DOMAIN objs = InUse(pool) /\ InUse(pool) \subseteq 0..(pool.size - 1)
         /\ DOMAIN objs \subseteq Nat
         /\ \A i \in DOMAIN objs :
              /\ objs[i].key \in DOMAIN keys /\ objs[i].key \in Key /\ objs[i].obj \in Obj
              /\ objs[i].prev \in -1..(pool.size - 1) /\ objs[i].next \in -1..(pool.size - 1)
              /\ objs[i] = [key |-> objs[i].key, obj |-> objs[i].obj,
                            prev |-> objs[i].prev, next |-> objs[i].next]
         /\ keys = [k \in DOMAIN keys |-> keys[k]]
         /\ \A k \in DOMAIN keys :
              /\ keys[k].first \in -1..(pool.size - 1) /\ keys[k].last \in -1..(pool.size - 1)
              /\ keys[k] = [first |-> keys[k].first, last |-> keys[k].last]
              /\ k \in Key
<1>1. pool.size \in Nat /\ MaxSize \in Nat /\ Prealloc \in Nat \ {0, 1} /\ pool.size \in Prealloc..MaxSize
  BY PoolAssumption DEF TypeOK
<1>2. SlotIds(pool) = 0..(pool.size - 1) /\ InUse(pool) \subseteq 0..(pool.size - 1)
  BY DEF SlotIds, InUse
<1>3. objs \in [InUse(pool) -> [key : DOMAIN keys, obj : Obj,
                                 prev : -1..(pool.size - 1), next : -1..(pool.size - 1)]]
  BY DEF TypeOK
<1>4. DOMAIN objs = InUse(pool)
  BY <1>3
<1>5. \A i \in DOMAIN objs :
        objs[i] \in [key : DOMAIN keys, obj : Obj, prev : -1..(pool.size - 1), next : -1..(pool.size - 1)]
  BY <1>3
<1>6. /\ keys \in [DOMAIN keys -> [first : -1..(pool.size - 1), last : -1..(pool.size - 1)]]
      /\ DOMAIN keys \subseteq Key
  BY DEF TypeOK
<1>7. /\ \A k \in DOMAIN keys :
           keys[k] \in [first : -1..(pool.size - 1), last : -1..(pool.size - 1)] /\ k \in Key
      /\ keys = [k \in DOMAIN keys |-> keys[k]]
  BY <1>6
<1> QED BY <1>1, <1>2, <1>4, <1>5, <1>7, SMTT(30)

(* To keep the invariant it is enough to keep the types, the chain and the *)
(* order, and to name the lists.                                           *)
LEMMA InvFromLists ==
  ASSUME TypeOK', PoolLinked(pool)', OrderExact', NEW lists, AreLists(objs', keys', lists)
  PROVE  Inv' /\ Handlers' = lists
<1>1. pool'.size \in Nat /\ DOMAIN objs' \subseteq 0..(pool'.size - 1)
  <2>1. pool'.size \in Nat
    BY PoolAssumption DEF TypeOK
  <2>2. DOMAIN objs' = InUse(pool') /\ InUse(pool') \subseteq 0..(pool'.size - 1)
    BY DEF TypeOK, InUse, SlotIds
  <2> QED BY <2>1, <2>2
<1>2. Handlers' = lists
  BY <1>1, WalkVisitsLists DEF Handlers, Walk
<1> QED BY <1>2 DEF Inv
----------------------------------------------------------------------------
(* A key without handlers.                                                 *)
LEMMA EmptyList ==
  ASSUME NEW slots, NEW k, \A i \in DOMAIN slots : slots[i].key # k
  PROVE  <<>> \in Seq(DOMAIN slots) /\ IsList(slots, EmptyKey, k, <<>>)
<1>1. DOMAIN <<>> = {} /\ <<>> \in Seq(DOMAIN slots)
  OBVIOUS
<1>2. IsInjective(<<>>) /\ ToSet(<<>>) = {}
  BY <1>1 DEF IsInjective, ToSet
<1> QED BY <1>1, <1>2 DEF IsList, EmptyKey

(* What find_key finds or makes: the entry of the key and its list.        *)
LEMMA FoundList ==
  ASSUME Inv, NEW k \in Key
  PROVE  /\ HandlersOf(k) \in Seq(DOMAIN objs)
         /\ HandlersOf(k) \in Seq(Nat)
         /\ IsList(objs, Found(k), k, HandlersOf(k))
         /\ Found(k).first \in -1..(pool.size - 1) /\ Found(k).last \in -1..(pool.size - 1)
         /\ Found(k) = [first |-> Found(k).first, last |-> Found(k).last]
         /\ k \notin DOMAIN keys => Found(k) = EmptyKey
         /\ k \in DOMAIN keys => Found(k) = keys[k]
<1>1. TypeOK /\ AreLists(objs, keys, Handlers)
  BY DEF Inv
<1>2. CASE k \in DOMAIN keys
  <2>1. HandlersOf(k) \in Seq(DOMAIN objs) /\ IsList(objs, keys[k], k, HandlersOf(k))
    BY <1>1, <1>2 DEF AreLists, HandlersOf
  <2>2. HandlersOf(k) \in Seq(Nat)
    BY <1>1, <2>1, SlotTypes
  <2> QED BY <1>1, <1>2, <2>1, <2>2, SlotTypes DEF Found
<1>3. CASE k \notin DOMAIN keys
  <2>1. \A i \in DOMAIN objs : objs[i].key # k
    BY <1>1, <1>3, SlotTypes
  <2>2. HandlersOf(k) = <<>> /\ Found(k) = EmptyKey
    BY <1>3 DEF HandlersOf, Found
  <2>3. <<>> \in Seq(DOMAIN objs) /\ IsList(objs, EmptyKey, k, <<>>)
    BY <2>1, EmptyList
  <2>4. EmptyKey.first = -1 /\ EmptyKey.last = -1 /\ EmptyKey = [first |-> -1, last |-> -1]
    BY DEF EmptyKey, INVALID_ID
  <2>5. -1 \in -1..(pool.size - 1) /\ <<>> \in Seq(Nat)
    BY <1>1, SlotTypes
  <2> HIDE DEF EmptyKey
  <2> QED BY <1>3, <2>2, <2>3, <2>4, <2>5
<1> QED BY <1>2, <1>3

(* The keys in order, when one is added or taken away.                     *)
LEMMA OrderCreated ==
  ASSUME Inv, NEW k \in Key, Create(k), DOMAIN keys' = DOMAIN keys \cup {k}
  PROVE  OrderExact'
<1>1. order \in Seq(Key) /\ IsInjective(order) /\ ToSet(order) = DOMAIN keys
  BY DEF Inv, OrderExact
<1>2. CASE k \in DOMAIN keys
  BY <1>1, <1>2 DEF Create, OrderExact
<1>3. CASE k \notin DOMAIN keys
  <2>1. order' = Append(order, k)
    BY <1>3 DEF Create
  <2>2. Append(order, k) \in Seq(Key) /\ ToSet(Append(order, k)) = ToSet(order) \cup {k}
        /\ IsInjective(Append(order, k))
    BY <1>1, <1>3, AppendIsLink
  <2> QED BY <1>1, <2>1, <2>2 DEF OrderExact
<1> QED BY <1>2, <1>3

(* Taking a key from the hash takes its one place in the order.            *)
LEMMA OrderRemoved ==
  ASSUME Inv, NEW k \in DOMAIN keys, order' = list_remove(order, k), DOMAIN keys' = DOMAIN keys \ {k}
  PROVE  OrderExact'
<1>1. order \in Seq(Key) /\ IsInjective(order) /\ ToSet(order) = DOMAIN keys
  BY DEF Inv, OrderExact
<1>2. /\ list_remove(order, k) \in Seq(Key)
      /\ ToSet(list_remove(order, k)) = ToSet(order) \ {k}
      /\ IsInjective(list_remove(order, k))
  BY <1>1, RemoveIsUnlink
<1> QED BY <1>1, <1>2 DEF OrderExact

(* find_key with "create".                                                 *)
LEMMA FindKeyKeeps ==
  ASSUME Inv, NEW k \in Key, handler_table_find_key(k)
  PROVE  Inv' /\ Handlers' = With(Handlers, k, HandlersOf(k))
<1> DEFINE lists == With(Handlers, k, HandlersOf(k))
<1>1. TypeOK /\ PoolLinked(pool) /\ AreLists(objs, keys, Handlers)
  BY DEF Inv
<1>2. /\ pool' = pool /\ objs' = objs
      /\ DOMAIN keys' = DOMAIN keys \cup {k}
      /\ \A j \in DOMAIN keys' : keys'[j] = IF j = k THEN Found(k) ELSE keys[j]
      /\ keys' = [j \in DOMAIN keys \cup {k} |-> keys'[j]]
  BY DEF handler_table_find_key, With
<1>3. OrderExact'
  BY <1>2, OrderCreated DEF handler_table_find_key
<1>4. keys' \in [DOMAIN keys' -> [first : -1..(pool.size - 1), last : -1..(pool.size - 1)]]
  <2>1. ASSUME NEW j \in DOMAIN keys'
        PROVE  keys'[j] \in [first : -1..(pool.size - 1), last : -1..(pool.size - 1)]
    <3>1. CASE j = k
      BY <1>2, <3>1, FoundList
    <3>2. CASE j # k
      BY <1>1, <1>2, <3>2, SlotTypes
    <3> QED BY <3>1, <3>2
  <2> QED BY <1>2, <2>1
<1>5. TypeOK'
  <2>1. objs \in [InUse(pool) -> [key : DOMAIN keys, obj : Obj,
                                   prev : -1..(pool.size - 1), next : -1..(pool.size - 1)]]
    BY <1>1 DEF TypeOK
  <2>2. objs \in [InUse(pool) -> [key : DOMAIN keys', obj : Obj,
                                   prev : -1..(pool.size - 1), next : -1..(pool.size - 1)]]
    BY <1>2, <2>1
  <2>3. DOMAIN keys' \subseteq Key
    BY <1>1, <1>2 DEF TypeOK
  <2> QED BY <1>1, <1>2, <1>3, <1>4, <2>2, <2>3 DEF TypeOK, OrderExact
<1>6. AreLists(objs', keys', lists)
  <2>1. /\ lists = [j \in DOMAIN keys' |-> lists[j]]
        /\ \A j \in DOMAIN keys' : lists[j] = IF j = k THEN HandlersOf(k) ELSE Handlers[j]
    BY <1>2 DEF With, Handlers
  <2> HIDE DEF lists
  <2>2. ASSUME NEW j \in DOMAIN keys'
        PROVE  lists[j] \in Seq(DOMAIN objs) /\ IsList(objs, keys'[j], j, lists[j])
    <3>1. CASE j = k
      BY <1>2, <2>1, <3>1, FoundList
    <3>2. CASE j # k
      BY <1>1, <1>2, <2>1, <3>2 DEF AreLists
    <3> QED BY <3>1, <3>2
  <2> QED BY <1>2, <2>1, <2>2 DEF AreLists
<1> HIDE DEF lists
<1>7. PoolLinked(pool)'
  BY <1>1, <1>2
<1>8. Inv' /\ Handlers' = lists
  BY <1>3, <1>5, <1>6, <1>7, InvFromLists
<1> QED BY <1>8 DEF lists

(* A slot from the pool is none that is in use.                            *)
LEMMA SlotIsFresh ==
  ASSUME Inv, CanAlloc, pool' = obj_pool_alloc_id(pool)
  PROVE  /\ PoolLinked(pool)'
         /\ AllocId(pool) \in 0..(pool'.size - 1) /\ AllocId(pool) \in 0..(MaxSize - 1)
         /\ AllocId(pool) \in Nat /\ AllocId(pool) # INVALID_ID
         /\ AllocId(pool) \notin DOMAIN objs
         /\ InUse(pool') = DOMAIN objs \cup {AllocId(pool)}
         /\ pool'.size \in Prealloc..MaxSize /\ pool'.size >= pool.size /\ pool'.size \in Nat
<1>1. TypeOK /\ PoolLinked(pool)
  BY DEF Inv
<1>2. /\ PoolLinked(pool')
      /\ AllocId(pool) \in SlotIds(pool') /\ AllocId(pool) \notin InUse(pool)
      /\ InUse(pool') = InUse(pool) \cup {AllocId(pool)}
      /\ pool'.size = IF pool.next_free >= 0 THEN pool.size ELSE 2 * pool.size
  BY <1>1, AllocatedSlot
<1>3. /\ pool.size \in Nat /\ pool.size \in Prealloc..MaxSize /\ MaxSize \in Nat
      /\ Prealloc \in Nat \ {0, 1} /\ DOMAIN objs = InUse(pool)
  BY <1>1, SlotTypes
<1>4. pool'.size \in Prealloc..MaxSize /\ pool'.size >= pool.size /\ pool'.size \in Nat
  BY <1>2, <1>3 DEF CanAlloc
<1>5. AllocId(pool) \in 0..(pool'.size - 1)
  BY <1>2 DEF SlotIds
<1>6. AllocId(pool) \in 0..(MaxSize - 1) /\ AllocId(pool) \in Nat /\ AllocId(pool) # INVALID_ID
  BY <1>3, <1>4, <1>5 DEF INVALID_ID
<1> QED BY <1>2, <1>3, <1>4, <1>5, <1>6

(* A slot that is linked into the list of its key alone keeps the          *)
(* invariant.                                                              *)
LinksSlot(k, o, e) ==
  /\ objs' = [i \in DOMAIN objs \cup {e} |-> objs'[i]]
  /\ keys' = [j \in DOMAIN keys \cup {k} |-> keys'[j]]
  /\ \A j \in DOMAIN keys : j # k => keys'[j] = keys[j]
  /\ keys'[k] \in [first : {e, Found(k).first}, last : {e, Found(k).last}]
  /\ objs'[e] \in [key : {k}, obj : {o}, prev : {INVALID_ID, Found(k).last},
                    next : {INVALID_ID, Found(k).first}]
  /\ \A i \in DOMAIN objs :
       /\ objs'[i] \in [key : {objs[i].key}, obj : {objs[i].obj},
                         prev : {objs[i].prev, e}, next : {objs[i].next, e}]
       /\ objs[i].key # k => objs'[i] = objs[i]

(* Adding a handler keeps the invariant once its own list is right: the    *)
(* other lists do not see the new slot.                                    *)
LEMMA SlotAdded ==
  ASSUME Inv, NEW k \in Key, NEW o \in Obj, NEW list,
         CanAlloc, Create(k), pool' = obj_pool_alloc_id(pool), LinksSlot(k, o, AllocId(pool)),
         list \in Seq(DOMAIN objs'), IsList(objs', keys'[k], k, list)
  PROVE  Inv' /\ Handlers' = With(Handlers, k, list)
<1> USE DEF LinksSlot
<1> DEFINE e == AllocId(pool)
           lists == With(Handlers, k, list)
           Link == -1..(pool'.size - 1)
<1>1. TypeOK /\ AreLists(objs, keys, Handlers)
  BY DEF Inv
<1>2. /\ PoolLinked(pool)' /\ e \in 0..(pool'.size - 1)
      /\ e \notin DOMAIN objs /\ InUse(pool') = DOMAIN objs \cup {e}
      /\ pool'.size \in Prealloc..MaxSize /\ pool'.size >= pool.size /\ pool'.size \in Nat
  BY SlotIsFresh
<1> HIDE DEF e
<1>13. LinksSlot(k, o, e)
  BY DEF e
<1>3. DOMAIN keys' = DOMAIN keys \cup {k} /\ DOMAIN objs' = DOMAIN objs \cup {e}
  BY <1>13
<1>4. OrderExact'
  BY <1>3, OrderCreated
<1>5. /\ -1 \in Link /\ e \in Link
      /\ \A l \in -1..(pool.size - 1) : l \in Link
  <2>1. pool.size \in Nat
    BY <1>1, SlotTypes
  <2> QED BY <1>2, <2>1
<1> HIDE DEF Link
<1>6. Found(k).first \in Link /\ Found(k).last \in Link
  BY <1>5, FoundList
<1>7. ASSUME NEW i \in DOMAIN objs'
      PROVE  objs'[i] \in [key : DOMAIN keys', obj : Obj, prev : Link, next : Link]
  <2>1. CASE i = e
    BY <1>13, <1>3, <1>5, <1>6, <2>1 DEF INVALID_ID
  <2>2. CASE i # e
    <3>1. /\ i \in DOMAIN objs /\ objs[i].key \in DOMAIN keys' /\ objs[i].obj \in Obj
          /\ objs[i].prev \in Link /\ objs[i].next \in Link
      BY <1>1, <1>3, <1>5, <2>2, SlotTypes
    <3> QED BY <1>13, <1>5, <3>1
  <2> QED BY <2>1, <2>2
<1>8. objs' \in [InUse(pool') -> [key : DOMAIN keys', obj : Obj, prev : Link, next : Link]]
  BY <1>13, <1>2, <1>3, <1>7
<1>9. DOMAIN keys' \subseteq Key /\ keys' \in [DOMAIN keys' -> [first : Link, last : Link]]
  <2>1. DOMAIN keys' \subseteq Key
    BY <1>1, <1>3 DEF TypeOK
  <2>2. keys'[k] \in [first : Link, last : Link]
    BY <1>13, <1>5, <1>6
  <2>3. ASSUME NEW j \in DOMAIN keys', j # k PROVE keys'[j] \in [first : Link, last : Link]
    <3>1. j \in DOMAIN keys /\ keys'[j] = keys[j]
      BY <1>13, <1>3, <2>3
    <3> QED BY <1>1, <1>5, <3>1, SlotTypes
  <2>4. keys' = [j \in DOMAIN keys' |-> keys'[j]]
    BY <1>13, <1>3
  <2> QED BY <2>1, <2>2, <2>3, <2>4
<1>10. TypeOK'
  <2>1. /\ pool'.next_free \in -1..(pool'.size - 1)
        /\ pool'.slot \in [SlotIds(pool') -> -2..(pool'.size - 1)]
    BY <1>2 DEF PoolLinked
  <2> QED BY <1>2, <1>4, <1>8, <1>9, <2>1 DEF TypeOK, OrderExact, Link
<1>11. AreLists(objs', keys', lists)
  <2>1. /\ lists = [j \in DOMAIN keys' |-> lists[j]]
        /\ \A j \in DOMAIN keys' : lists[j] = IF j = k THEN list ELSE Handlers[j]
    BY <1>3 DEF With, Handlers
  <2> HIDE DEF lists
  <2>2. ASSUME NEW j \in DOMAIN keys', j # k
        PROVE  lists[j] \in Seq(DOMAIN objs') /\ IsList(objs', keys'[j], j, lists[j])
    <3>1. j \in DOMAIN keys /\ keys'[j] = keys[j] /\ lists[j] = Handlers[j]
      BY <1>13, <1>3, <2>1, <2>2
    <3>2. Handlers[j] \in Seq(DOMAIN objs) /\ IsList(objs, keys[j], j, Handlers[j])
      BY <1>1, <3>1 DEF AreLists
    <3>3. Handlers[j] \in Seq(DOMAIN objs') /\ Handlers[j] \in Seq(Nat)
      BY <1>1, <1>3, <3>2, SlotTypes
    <3>4. \A i \in DOMAIN objs : objs'[i].key = objs[i].key /\ (objs[i].key = j => objs'[i] = objs[i])
      BY <1>13, <2>2
    <3>5. {i \in DOMAIN objs' : objs'[i].key = j} = {i \in DOMAIN objs : objs[i].key = j}
      BY <1>3, <2>2, <3>4
    <3>6. IsList(objs', keys[j], j, Handlers[j])
      BY <3>2, <3>3, <3>4, <3>5, ListUntouched
    <3> QED BY <3>1, <3>3, <3>6
  <2>3. lists[k] \in Seq(DOMAIN objs') /\ IsList(objs', keys'[k], k, lists[k])
    BY <1>13, <1>3, <2>1
  <2> QED BY <2>1, <2>2, <2>3 DEF AreLists
<1> HIDE DEF lists
<1>12. Inv' /\ Handlers' = lists
  BY <1>2, <1>4, <1>10, <1>11, InvFromLists
<1> QED BY <1>12 DEF lists

(* handler_table_append links the slot behind the last one.                *)
LEMMA AppendKeeps ==
  ASSUME Inv, NEW k \in Key, NEW o \in Obj, handler_table_append(k, o)
  PROVE  /\ Inv' /\ Handlers' = With(Handlers, k, Append(HandlersOf(k), AllocId(pool)))
         /\ objs' = [i \in DOMAIN objs \cup {AllocId(pool)} |-> objs'[i]]
         /\ objs'[AllocId(pool)].obj = o
         /\ \A i \in DOMAIN objs : objs'[i].obj = objs[i].obj
<1> DEFINE e == AllocId(pool)
           id == Found(k).last
           added == With(objs, e, [key |-> k, obj |-> o, prev |-> id, next |-> INVALID_ID])
           list == Append(HandlersOf(k), e)
<1>1. TypeOK
  BY DEF Inv
<1>2. /\ CanAlloc /\ Create(k) /\ pool' = obj_pool_alloc_id(pool)
      /\ IF id = INVALID_ID
         THEN keys' = With(keys, k, [first |-> e, last |-> e]) /\ objs' = added
         ELSE keys' = [keys EXCEPT ![k].last = e] /\ objs' = [added EXCEPT ![id].next = e]
  BY DEF handler_table_append
<1>3. e \in Nat /\ e \notin DOMAIN objs /\ e # INVALID_ID
  BY <1>2, SlotIsFresh
<1> HIDE DEF e
<1>4. /\ HandlersOf(k) \in Seq(DOMAIN objs) /\ HandlersOf(k) \in Seq(Nat)
      /\ IsList(objs, Found(k), k, HandlersOf(k))
      /\ Found(k) = [first |-> Found(k).first, last |-> Found(k).last]
      /\ k \notin DOMAIN keys => Found(k) = EmptyKey
      /\ k \in DOMAIN keys => Found(k) = keys[k]
  BY FoundList
<1>5. id # INVALID_ID => id \in DOMAIN objs /\ objs[id].key = k /\ k \in DOMAIN keys
  <2> SUFFICES ASSUME id # INVALID_ID PROVE id \in DOMAIN objs /\ objs[id].key = k /\ k \in DOMAIN keys
    OBVIOUS
  <2>1. HandlersOf(k) # <<>> /\ id = HandlersOf(k)[Len(HandlersOf(k))]
    BY <1>4 DEF IsList
  <2>2. Len(HandlersOf(k)) \in DOMAIN HandlersOf(k)
    BY <1>4, <2>1
  <2>3. id \in ToSet(HandlersOf(k))
    BY <2>1, <2>2 DEF ToSet
  <2>4. k \in DOMAIN keys
    BY <1>4 DEF EmptyKey
  <2> QED BY <1>4, <2>3, <2>4 DEF IsList
<1>6. /\ keys' = [j \in DOMAIN keys \cup {k} |-> keys'[j]]
      /\ \A j \in DOMAIN keys : j # k => keys'[j] = keys[j]
      /\ keys'[k] = [first |-> IF id = INVALID_ID THEN e ELSE Found(k).first, last |-> e]
  <2>1. CASE id = INVALID_ID
    BY <1>2, <2>1 DEF With
  <2>2. CASE id # INVALID_ID
    <3>1. k \in DOMAIN keys /\ keys[k] = Found(k) /\ keys' = [keys EXCEPT ![k].last = e]
      BY <1>2, <1>4, <1>5, <2>2
    <3>2. keys[k] = [first |-> Found(k).first, last |-> Found(k).last]
      BY <1>4, <3>1
    <3>3. keys = [j \in DOMAIN keys |-> keys[j]]
      BY <1>1, SlotTypes
    <3> QED BY <2>2, <3>1, <3>2
  <2> QED BY <2>1, <2>2
<1>7. ASSUME NEW i \in DOMAIN objs
      PROVE  objs[i] = [key |-> objs[i].key, obj |-> objs[i].obj, prev |-> objs[i].prev, next |-> objs[i].next]
  BY <1>1, SlotTypes
<1>8. /\ objs' = [i \in DOMAIN objs \cup {e} |-> objs'[i]]
      /\ objs'[e] = [key |-> k, obj |-> o, prev |-> id, next |-> INVALID_ID]
      /\ \A i \in DOMAIN objs :
           objs'[i] = [key |-> objs[i].key, obj |-> objs[i].obj, prev |-> objs[i].prev,
                       next |-> IF i = id THEN e ELSE objs[i].next]
  <2>1. /\ added = [i \in DOMAIN objs \cup {e} |-> added[i]]
        /\ added[e] = [key |-> k, obj |-> o, prev |-> id, next |-> INVALID_ID]
        /\ \A i \in DOMAIN objs : added[i] = objs[i]
    BY <1>3 DEF With
  <2> HIDE DEF added
  <2>2. CASE id = INVALID_ID
    <3>1. objs' = added /\ INVALID_ID \notin DOMAIN objs
      BY <1>1, <1>2, <2>2, SlotTypes DEF INVALID_ID
    <3>2. \A i \in DOMAIN objs : i # id
      BY <2>2, <3>1
    <3> QED BY <1>7, <2>1, <3>1, <3>2
  <2>3. CASE id # INVALID_ID
    <3>1. objs' = [added EXCEPT ![id].next = e] /\ id \in DOMAIN objs /\ id # e
      BY <1>2, <1>3, <1>5, <2>3
    <3> HIDE DEF id
    <3>2. /\ objs' = [i \in DOMAIN objs \cup {e} |-> objs'[i]]
          /\ \A i \in DOMAIN objs \cup {e} :
               objs'[i] = IF i = id THEN [added[id] EXCEPT !.next = e] ELSE added[i]
      BY <2>1, <3>1
    <3>3. objs'[e] = added[e]
      BY <3>1, <3>2
    <3>4. \A i \in DOMAIN objs : objs'[i] = IF i = id THEN [objs[i] EXCEPT !.next = e] ELSE objs[i]
      BY <2>1, <3>1, <3>2
    <3> QED BY <1>7, <2>1, <3>2, <3>3, <3>4
  <2> QED BY <2>2, <2>3
<1> HIDE DEF added
<1>9. \A i \in DOMAIN objs :
        /\ objs'[i].key = objs[i].key /\ objs'[i].obj = objs[i].obj /\ objs'[i].prev = objs[i].prev
        /\ objs'[i].next = IF i = id THEN e ELSE objs[i].next
  BY <1>8
<1>10. IsList(objs', keys'[k], k, list) /\ list \in Seq(DOMAIN objs')
  <2>1. DOMAIN objs' = DOMAIN objs \cup {e}
    BY <1>8
  <2>2. list \in Seq(DOMAIN objs')
    BY <1>4, <2>1
  <2>3. objs'[e].key = k /\ objs'[e].prev = id /\ objs'[e].next = INVALID_ID
    BY <1>8
  <2>4. keys'[k].first = (IF id = INVALID_ID THEN e ELSE Found(k).first) /\ keys'[k].last = e
    BY <1>6
  <2>5. IsList(objs', keys'[k], k, list)
    <3> DEFINE entry == Found(k)
               new == keys'[k]
               after == objs'
               ids == HandlersOf(k)
    <3>1. ids \in Seq(Nat) /\ IsList(objs, entry, k, ids)
      BY <1>4
    <3>2. LinkedBehind(objs, after, entry, new, k, e)
      BY <1>3, <1>9, <2>1, <2>3, <2>4 DEF LinkedBehind
    <3> HIDE DEF entry, new, after, ids
    <3>4. IsList(after, new, k, Append(ids, e))
      BY <1>3, <3>1, <3>2, ListAppended
    <3> QED BY <3>4 DEF after, new, ids
  <2> QED BY <2>2, <2>5
<1>11. \A i \in DOMAIN objs : objs[i].key # k => objs'[i] = objs[i]
  <2>1. \A i \in DOMAIN objs : i # INVALID_ID
    BY <1>1, SlotTypes DEF INVALID_ID
  <2>2. \A i \in DOMAIN objs : objs[i].key # k => i # id
    BY <1>5, <2>1
  <2> HIDE DEF id
  <2> QED BY <1>7, <1>8, <2>2
<1>12. Inv' /\ Handlers' = With(Handlers, k, list)
  <2>1. keys'[k] \in [first : {e, Found(k).first}, last : {e, Found(k).last}]
    BY <1>6
  <2>2. objs'[e] \in [key : {k}, obj : {o}, prev : {INVALID_ID, Found(k).last},
                      next : {INVALID_ID, Found(k).first}]
    BY <1>8
  <2>3. \A i \in DOMAIN objs :
          objs'[i] \in [key : {objs[i].key}, obj : {objs[i].obj},
                        prev : {objs[i].prev, e}, next : {objs[i].next, e}]
    BY <1>8
  <2> HIDE DEF list, id
  <2>4. CanAlloc /\ Create(k) /\ pool' = obj_pool_alloc_id(pool)
    BY <1>2
  <2>5. LinksSlot(k, o, e)
    BY <1>6, <1>8, <1>11, <2>1, <2>2, <2>3 DEF LinksSlot
  <2> QED BY <1>10, <2>4, <2>5, SlotAdded DEF e
<1> QED BY <1>8, <1>9, <1>12 DEF e

(* handler_table_prepend links it before the first one.                    *)
LEMMA PrependKeeps ==
  ASSUME Inv, NEW k \in Key, NEW o \in Obj, handler_table_prepend(k, o)
  PROVE  /\ Inv' /\ Handlers' = With(Handlers, k, <<AllocId(pool)>> \o HandlersOf(k))
         /\ objs' = [i \in DOMAIN objs \cup {AllocId(pool)} |-> objs'[i]]
         /\ objs'[AllocId(pool)].obj = o
         /\ \A i \in DOMAIN objs : objs'[i].obj = objs[i].obj
<1> DEFINE e == AllocId(pool)
           id == Found(k).first
           added == With(objs, e, [key |-> k, obj |-> o, prev |-> INVALID_ID, next |-> id])
           list == <<e>> \o HandlersOf(k)
<1>1. TypeOK
  BY DEF Inv
<1>2. /\ CanAlloc /\ Create(k) /\ pool' = obj_pool_alloc_id(pool)
      /\ IF id = INVALID_ID
         THEN keys' = With(keys, k, [first |-> e, last |-> e]) /\ objs' = added
         ELSE keys' = [keys EXCEPT ![k].first = e] /\ objs' = [added EXCEPT ![id].prev = e]
  BY DEF handler_table_prepend
<1>3. e \in Nat /\ e \notin DOMAIN objs /\ e # INVALID_ID
  BY <1>2, SlotIsFresh
<1> HIDE DEF e
<1>4. /\ HandlersOf(k) \in Seq(DOMAIN objs) /\ HandlersOf(k) \in Seq(Nat)
      /\ IsList(objs, Found(k), k, HandlersOf(k))
      /\ Found(k) = [first |-> Found(k).first, last |-> Found(k).last]
      /\ k \notin DOMAIN keys => Found(k) = EmptyKey
      /\ k \in DOMAIN keys => Found(k) = keys[k]
  BY FoundList
<1>5. id # INVALID_ID => id \in DOMAIN objs /\ objs[id].key = k /\ k \in DOMAIN keys
  <2> SUFFICES ASSUME id # INVALID_ID PROVE id \in DOMAIN objs /\ objs[id].key = k /\ k \in DOMAIN keys
    OBVIOUS
  <2>1. HandlersOf(k) # <<>> /\ id = HandlersOf(k)[1]
    BY <1>4 DEF IsList
  <2>2. 1 \in DOMAIN HandlersOf(k)
    BY <1>4, <2>1
  <2>3. id \in ToSet(HandlersOf(k))
    BY <2>1, <2>2 DEF ToSet
  <2>4. k \in DOMAIN keys
    BY <1>4 DEF EmptyKey
  <2> QED BY <1>4, <2>3, <2>4 DEF IsList
<1>6. /\ keys' = [j \in DOMAIN keys \cup {k} |-> keys'[j]]
      /\ \A j \in DOMAIN keys : j # k => keys'[j] = keys[j]
      /\ keys'[k] = [first |-> e, last |-> IF id = INVALID_ID THEN e ELSE Found(k).last]
  <2>1. CASE id = INVALID_ID
    BY <1>2, <2>1 DEF With
  <2>2. CASE id # INVALID_ID
    <3>1. k \in DOMAIN keys /\ keys[k] = Found(k) /\ keys' = [keys EXCEPT ![k].first = e]
      BY <1>2, <1>4, <1>5, <2>2
    <3>2. keys[k] = [first |-> Found(k).first, last |-> Found(k).last]
      BY <1>4, <3>1
    <3>3. keys = [j \in DOMAIN keys |-> keys[j]]
      BY <1>1, SlotTypes
    <3> QED BY <2>2, <3>1, <3>2
  <2> QED BY <2>1, <2>2
<1>7. ASSUME NEW i \in DOMAIN objs
      PROVE  objs[i] = [key |-> objs[i].key, obj |-> objs[i].obj, prev |-> objs[i].prev, next |-> objs[i].next]
  BY <1>1, SlotTypes
<1>8. /\ objs' = [i \in DOMAIN objs \cup {e} |-> objs'[i]]
      /\ objs'[e] = [key |-> k, obj |-> o, prev |-> INVALID_ID, next |-> id]
      /\ \A i \in DOMAIN objs :
           objs'[i] = [key |-> objs[i].key, obj |-> objs[i].obj, next |-> objs[i].next,
                       prev |-> IF i = id THEN e ELSE objs[i].prev]
  <2>1. /\ added = [i \in DOMAIN objs \cup {e} |-> added[i]]
        /\ added[e] = [key |-> k, obj |-> o, prev |-> INVALID_ID, next |-> id]
        /\ \A i \in DOMAIN objs : added[i] = objs[i]
    BY <1>3 DEF With
  <2> HIDE DEF added
  <2>2. CASE id = INVALID_ID
    <3>1. objs' = added /\ INVALID_ID \notin DOMAIN objs
      BY <1>1, <1>2, <2>2, SlotTypes DEF INVALID_ID
    <3>2. \A i \in DOMAIN objs : i # id
      BY <2>2, <3>1
    <3> QED BY <1>7, <2>1, <3>1, <3>2
  <2>3. CASE id # INVALID_ID
    <3>1. objs' = [added EXCEPT ![id].prev = e] /\ id \in DOMAIN objs /\ id # e
      BY <1>2, <1>3, <1>5, <2>3
    <3> HIDE DEF id
    <3>2. /\ objs' = [i \in DOMAIN objs \cup {e} |-> objs'[i]]
          /\ \A i \in DOMAIN objs \cup {e} :
               objs'[i] = IF i = id THEN [added[id] EXCEPT !.prev = e] ELSE added[i]
      BY <2>1, <3>1
    <3>3. objs'[e] = added[e]
      BY <3>1, <3>2
    <3>4. \A i \in DOMAIN objs : objs'[i] = IF i = id THEN [objs[i] EXCEPT !.prev = e] ELSE objs[i]
      BY <2>1, <3>1, <3>2
    <3> QED BY <1>7, <2>1, <3>2, <3>3, <3>4
  <2> QED BY <2>2, <2>3
<1> HIDE DEF added
<1>9. \A i \in DOMAIN objs :
        /\ objs'[i].key = objs[i].key /\ objs'[i].obj = objs[i].obj /\ objs'[i].next = objs[i].next
        /\ objs'[i].prev = IF i = id THEN e ELSE objs[i].prev
  BY <1>8
<1>10. IsList(objs', keys'[k], k, list) /\ list \in Seq(DOMAIN objs')
  <2>1. DOMAIN objs' = DOMAIN objs \cup {e}
    BY <1>8
  <2>2. list \in Seq(DOMAIN objs')
    BY <1>4, <2>1
  <2>3. objs'[e].key = k /\ objs'[e].prev = INVALID_ID /\ objs'[e].next = id
    BY <1>8
  <2>4. keys'[k].last = (IF id = INVALID_ID THEN e ELSE Found(k).last) /\ keys'[k].first = e
    BY <1>6
  <2>5. IsList(objs', keys'[k], k, list)
    <3> DEFINE entry == Found(k)
               new == keys'[k]
               after == objs'
               ids == HandlersOf(k)
    <3>1. ids \in Seq(Nat) /\ IsList(objs, entry, k, ids)
      BY <1>4
    <3>2. LinkedBefore(objs, after, entry, new, k, e)
      BY <1>3, <1>9, <2>1, <2>3, <2>4 DEF LinkedBefore
    <3> HIDE DEF entry, new, after, ids
    <3>4. IsList(after, new, k, <<e>> \o ids)
      BY <1>3, <3>1, <3>2, ListPrepended
    <3> QED BY <3>4 DEF after, new, ids
  <2> QED BY <2>2, <2>5
<1>11. \A i \in DOMAIN objs : objs[i].key # k => objs'[i] = objs[i]
  <2>1. \A i \in DOMAIN objs : i # INVALID_ID
    BY <1>1, SlotTypes DEF INVALID_ID
  <2>2. \A i \in DOMAIN objs : objs[i].key # k => i # id
    BY <1>5, <2>1
  <2> HIDE DEF id
  <2> QED BY <1>7, <1>8, <2>2
<1>12. Inv' /\ Handlers' = With(Handlers, k, list)
  <2>1. keys'[k] \in [first : {e, Found(k).first}, last : {e, Found(k).last}]
    BY <1>6
  <2>2. objs'[e] \in [key : {k}, obj : {o}, prev : {INVALID_ID, Found(k).last},
                      next : {INVALID_ID, Found(k).first}]
    BY <1>8
  <2>3. \A i \in DOMAIN objs :
          objs'[i] \in [key : {objs[i].key}, obj : {objs[i].obj},
                        prev : {objs[i].prev, e}, next : {objs[i].next, e}]
    BY <1>8
  <2> HIDE DEF list, id
  <2>4. CanAlloc /\ Create(k) /\ pool' = obj_pool_alloc_id(pool)
    BY <1>2
  <2>5. LinksSlot(k, o, e)
    BY <1>6, <1>8, <1>11, <2>1, <2>2, <2>3 DEF LinksSlot
  <2> QED BY <1>10, <2>4, <2>5, SlotAdded DEF e
<1> QED BY <1>8, <1>9, <1>12 DEF e

(* A handler stands in the list of its key and in no other.                *)
LEMMA ListOfHandler ==
  ASSUME Inv, NEW i \in DOMAIN objs
  PROVE  /\ objs[i].key \in DOMAIN keys
         /\ \A k \in DOMAIN keys : i \in ToSet(Handlers[k]) <=> k = objs[i].key
<1>1. objs[i].key \in DOMAIN keys
  BY SlotTypes DEF Inv
<1>2. ASSUME NEW k \in DOMAIN keys PROVE i \in ToSet(Handlers[k]) <=> k = objs[i].key
  BY DEF Inv, AreLists, IsList
<1> QED BY <1>1, <1>2

(* What unlinking changes.                                                 *)
LEMMA UnlinkEffect ==
  ASSUME Inv, NEW i \in DOMAIN objs
  PROVE  LET after == ObjsAfterUnlink(i)
             entries == KeysAfterUnlink(i)
             k == objs[i].key
         IN  /\ after = [j \in DOMAIN objs \ {i} |-> after[j]]
             /\ \A j \in DOMAIN objs \ {i} :
                  /\ after[j].key = objs[j].key /\ after[j].obj = objs[j].obj
                  /\ after[j] \in [key : {objs[j].key}, obj : {objs[j].obj},
                                   prev : {objs[j].prev, objs[i].prev},
                                   next : {objs[j].next, objs[i].next}]
             /\ entries = [j \in DOMAIN keys |-> entries[j]]
             /\ \A j \in DOMAIN keys \ {k} : entries[j] = keys[j]
             /\ entries[k] \in [first : {keys[k].first, objs[i].next},
                                last : {keys[k].last, objs[i].prev}]
             /\ Unlinked(objs, after, keys[k], entries[k], i)
             /\ \A j \in DOMAIN objs \ {i} : objs[j].key # k =>
                  after[j].next = objs[j].next /\ after[j].prev = objs[j].prev
<1> DEFINE after == ObjsAfterUnlink(i)
           entries == KeysAfterUnlink(i)
           k == objs[i].key
<1>1. TypeOK /\ k \in DOMAIN keys
  BY ListOfHandler DEF Inv
<1>2. /\ after = [j \in DOMAIN objs \ {i} |-> after[j]]
      /\ \A j \in DOMAIN objs \ {i} :
           after[j] = [key |-> objs[j].key, obj |-> objs[j].obj,
                       prev |-> IF j = objs[i].next THEN objs[i].prev ELSE objs[j].prev,
                       next |-> IF j = objs[i].prev THEN objs[i].next ELSE objs[j].next]
  <2>1. \A j \in DOMAIN objs :
          objs[j] = [key |-> objs[j].key, obj |-> objs[j].obj, prev |-> objs[j].prev, next |-> objs[j].next]
    BY <1>1, SlotTypes
  <2>2. after = [j \in DOMAIN objs \ {i} |-> after[j]]
    BY DEF ObjsAfterUnlink
  <2>3. ASSUME NEW j \in DOMAIN objs \ {i}
        PROVE  after[j] = [objs[j] EXCEPT
                 !.next = IF j = objs[i].prev THEN objs[i].next ELSE objs[j].next,
                 !.prev = IF j = objs[i].next THEN objs[i].prev ELSE objs[j].prev]
    BY <2>1 DEF ObjsAfterUnlink
  <2> HIDE DEF after
  <2>4. ASSUME NEW j \in DOMAIN objs \ {i}
        PROVE  after[j] = [key |-> objs[j].key, obj |-> objs[j].obj,
                           prev |-> IF j = objs[i].next THEN objs[i].prev ELSE objs[j].prev,
                           next |-> IF j = objs[i].prev THEN objs[i].next ELSE objs[j].next]
    <3> DEFINE r == objs[j]
               next == IF j = objs[i].prev THEN objs[i].next ELSE objs[j].next
               prev == IF j = objs[i].next THEN objs[i].prev ELSE objs[j].prev
    <3>1. r = [key |-> r.key, obj |-> r.obj, prev |-> r.prev, next |-> r.next]
      BY <2>1
    <3>2. after[j] = [r EXCEPT !.next = next, !.prev = prev]
      BY <2>3
    <3> HIDE DEF r, next, prev
    <3>3. after[j] = [key |-> r.key, obj |-> r.obj, prev |-> prev, next |-> next]
      BY <3>1, <3>2
    <3> QED BY <3>3 DEF r, next, prev
  <2> QED BY <2>2, <2>4
<1>3. /\ entries = [j \in DOMAIN keys |-> entries[j]]
      /\ \A j \in DOMAIN keys \ {k} : entries[j] = keys[j]
      /\ entries[k] = [first |-> IF objs[i].prev = INVALID_ID THEN objs[i].next ELSE keys[k].first,
                       last |-> IF objs[i].next = INVALID_ID THEN objs[i].prev ELSE keys[k].last]
  <2>1. /\ keys = [j \in DOMAIN keys |-> keys[j]]
        /\ keys[k] = [first |-> keys[k].first, last |-> keys[k].last]
    BY <1>1, SlotTypes
  <2>2. entries = [keys EXCEPT
          ![k].first = IF objs[i].prev = INVALID_ID THEN objs[i].next ELSE keys[k].first,
          ![k].last  = IF objs[i].next = INVALID_ID THEN objs[i].prev ELSE keys[k].last]
    BY <1>1, <2>1 DEF KeysAfterUnlink
  <2> HIDE DEF entries, k
  <2> QED BY <1>1, <2>1, <2>2
<1> HIDE DEF after, entries
<1>4. Unlinked(objs, after, keys[k], entries[k], i)
  <2>1. DOMAIN after = DOMAIN objs \ {i}
    BY <1>2
  <2>2. \A j \in DOMAIN after :
          /\ after[j].key = objs[j].key
          /\ after[j].next = IF j = objs[i].prev THEN objs[i].next ELSE objs[j].next
          /\ after[j].prev = IF j = objs[i].next THEN objs[i].prev ELSE objs[j].prev
    BY <1>2, <2>1
  <2> QED BY <1>3, <2>1, <2>2 DEF Unlinked
<1>5. ASSUME NEW j \in DOMAIN objs \ {i}, objs[j].key # k
      PROVE  after[j].next = objs[j].next /\ after[j].prev = objs[j].prev
  <2> DEFINE ids == Handlers[k]
  <2>1. ids \in Seq(DOMAIN objs) /\ IsList(objs, keys[k], k, ids) /\ i \in ToSet(ids)
    BY <1>1, ListOfHandler DEF Inv, AreLists
  <2>2. PICK p \in DOMAIN ids : ids[p] = i
    BY <2>1 DEF ToSet
  <2>3. /\ objs[i].next = INVALID_ID \/ objs[i].next \in ToSet(ids)
        /\ objs[i].prev = INVALID_ID \/ objs[i].prev \in ToSet(ids)
    <3>1. DOMAIN ids = 1..Len(ids) /\ Len(ids) \in Nat
      BY <2>1
    <3>2. p # Len(ids) => p + 1 \in DOMAIN ids
      BY <2>2, <3>1
    <3>3. p # 1 => p - 1 \in DOMAIN ids
      BY <2>2, <3>1
    <3> HIDE DEF ids
    <3> QED BY <2>1, <2>2, <3>2, <3>3 DEF IsList, ToSet
  <2>4. j \notin ToSet(ids) /\ j # INVALID_ID
    <3>1. j \in Nat
      BY <1>1, SlotTypes
    <3> QED BY <1>5, <2>1, <3>1 DEF IsList, INVALID_ID
  <2> HIDE DEF ids
  <2>5. j # objs[i].next /\ j # objs[i].prev
    BY <2>3, <2>4
  <2> QED BY <1>2, <2>5
<1>6. ASSUME NEW j \in DOMAIN objs \ {i}
      PROVE  /\ after[j].key = objs[j].key /\ after[j].obj = objs[j].obj
             /\ after[j] \in [key : {objs[j].key}, obj : {objs[j].obj},
                              prev : {objs[j].prev, objs[i].prev},
                              next : {objs[j].next, objs[i].next}]
  BY <1>2
<1>7. entries[k] \in [first : {keys[k].first, objs[i].next}, last : {keys[k].last, objs[i].prev}]
  BY <1>3
<1> QED BY <1>2, <1>3, <1>4, <1>5, <1>6, <1>7 DEF after, entries

(* The list of the key without the handler; the other lists as they were.  *)
LEMMA UnlinkedLists ==
  ASSUME Inv, NEW i \in DOMAIN objs
  PROVE  AreLists(ObjsAfterUnlink(i), KeysAfterUnlink(i),
                  [Handlers EXCEPT ![objs[i].key] = list_remove(@, i)])
<1> DEFINE after == ObjsAfterUnlink(i)
           entries == KeysAfterUnlink(i)
           k == objs[i].key
           lists == [Handlers EXCEPT ![k] = list_remove(@, i)]
<1>1. TypeOK /\ AreLists(objs, keys, Handlers) /\ k \in DOMAIN keys /\ i \in ToSet(Handlers[k])
  BY ListOfHandler DEF Inv
<1>2. /\ DOMAIN after = DOMAIN objs \ {i} /\ DOMAIN entries = DOMAIN keys
      /\ \A j \in DOMAIN objs \ {i} :
           /\ after[j].key = objs[j].key
           /\ objs[j].key # k => after[j].next = objs[j].next /\ after[j].prev = objs[j].prev
      /\ \A j \in DOMAIN keys \ {k} : entries[j] = keys[j]
      /\ Unlinked(objs, after, keys[k], entries[k], i)
  BY UnlinkEffect
<1>3. /\ lists = [j \in DOMAIN keys |-> lists[j]]
      /\ \A j \in DOMAIN keys : lists[j] = IF j = k THEN list_remove(Handlers[k], i) ELSE Handlers[j]
  BY <1>1 DEF Handlers
<1> HIDE DEF after, entries, lists, k
<1>4. lists[k] \in Seq(DOMAIN after) /\ IsList(after, entries[k], k, lists[k])
  <2> DEFINE ids == Handlers[k]
  <2>1. ids \in Seq(DOMAIN objs) /\ ids \in Seq(Nat) /\ IsList(objs, keys[k], k, ids) /\ i \in ToSet(ids)
    <3>1. ids \in Seq(DOMAIN objs) /\ IsList(objs, keys[k], k, ids) /\ i \in ToSet(ids)
      BY <1>1 DEF AreLists
    <3>2. DOMAIN objs \subseteq Nat
      BY <1>1, SlotTypes
    <3> QED BY <3>1, <3>2
  <2>2. lists[k] = list_remove(ids, i)
    BY <1>1, <1>3
  <2> HIDE DEF ids
  <2>3. IsList(after, entries[k], k, list_remove(ids, i))
    BY <1>2, <2>1, ListUnlinked
  <2>4. list_remove(ids, i) \in Seq(DOMAIN objs) /\ i \notin ToSet(list_remove(ids, i))
    BY <2>1, RemoveIsUnlink DEF IsList
  <2> DEFINE t == list_remove(ids, i)
  <2> HIDE DEF t
  <2>5. t \in Seq(DOMAIN objs) => DOMAIN t = 1..Len(t) /\ \A n \in DOMAIN t : t[n] \in DOMAIN objs
    OBVIOUS
  <2>6. \A n \in DOMAIN t : t[n] \in DOMAIN after
    BY <1>2, <2>4, <2>5 DEF t, ToSet
  <2>7. t \in Seq(DOMAIN after)
    <3>1. Len(t) \in Nat /\ t = [n \in 1..Len(t) |-> t[n]]
      BY <2>4 DEF t
    <3> QED BY <2>4, <2>5, <2>6, <3>1 DEF t
  <2> QED BY <2>2, <2>3, <2>7 DEF t
<1>5. ASSUME NEW j \in DOMAIN keys, j # k
      PROVE  lists[j] \in Seq(DOMAIN after) /\ IsList(after, entries[j], j, lists[j])
  <2> DEFINE ids == Handlers[j]
  <2>1. ids \in Seq(DOMAIN objs) /\ ids \in Seq(Nat) /\ IsList(objs, keys[j], j, ids)
    <3>1. ids \in Seq(DOMAIN objs) /\ IsList(objs, keys[j], j, ids)
      BY <1>1 DEF AreLists
    <3>2. DOMAIN objs \subseteq Nat
      BY <1>1, SlotTypes
    <3> QED BY <3>1, <3>2
  <2>2. objs[i].key = k
    BY DEF k
  <2>3. {m \in DOMAIN after : after[m].key = j} = {m \in DOMAIN objs : objs[m].key = j}
    BY <1>2, <1>5, <2>2
  <2> HIDE DEF ids
  <2>4. \A m \in DOMAIN objs : objs[m].key = j =>
          after[m].next = objs[m].next /\ after[m].prev = objs[m].prev
    BY <1>2, <1>5, <2>2
  <2>5. IsList(after, keys[j], j, ids)
    BY <2>1, <2>3, <2>4, ListUntouched
  <2>6. \A n \in DOMAIN ids : ids[n] \in DOMAIN after
    <3>1. ToSet(ids) \subseteq DOMAIN after
      BY <2>5 DEF IsList
    <3> QED BY <3>1 DEF ToSet
  <2>7. ids \in Seq(DOMAIN after)
    BY <2>1, <2>6
  <2>8. lists[j] = ids /\ entries[j] = keys[j]
    BY <1>2, <1>3, <1>5 DEF ids
  <2> QED BY <2>5, <2>7, <2>8
<1>6. lists = [j \in DOMAIN entries |-> lists[j]]
  BY <1>2, <1>3
<1>7. AreLists(after, entries, lists)
  BY <1>2, <1>4, <1>5, <1>6 DEF AreLists
<1> QED BY <1>7 DEF after, entries, lists, k

(* The slots that are left when one is unlinked and freed.                 *)
LEMMA SlotsLeft ==
  ASSUME Inv, NEW i \in DOMAIN objs, pool' = obj_pool_free_id(pool, i), objs' = ObjsAfterUnlink(i),
         NEW K, \A j \in DOMAIN objs \ {i} : objs[j].key \in K
  PROVE  /\ PoolLinked(pool)' /\ pool'.size = pool.size
         /\ pool'.next_free \in -1..(pool'.size - 1)
         /\ pool'.slot \in [SlotIds(pool') -> -2..(pool'.size - 1)]
         /\ objs' \in [InUse(pool') -> [key : K, obj : Obj,
                                        prev : -1..(pool'.size - 1), next : -1..(pool'.size - 1)]]
<1>1. TypeOK /\ PoolLinked(pool) /\ i \in InUse(pool) /\ DOMAIN objs = InUse(pool)
  BY SlotTypes DEF Inv
<1>2. PoolLinked(pool') /\ InUse(pool') = DOMAIN objs \ {i} /\ pool'.size = pool.size
  BY <1>1, FreedSlot
<1>3. ASSUME NEW j \in DOMAIN objs \ {i}
      PROVE  objs'[j] \in [key : K, obj : Obj, prev : -1..(pool.size - 1), next : -1..(pool.size - 1)]
  <2>1. objs'[j] \in [key : {objs[j].key}, obj : {objs[j].obj},
                      prev : {objs[j].prev, objs[i].prev}, next : {objs[j].next, objs[i].next}]
    BY UnlinkEffect
  <2>2. /\ objs[j].key \in K /\ objs[j].obj \in Obj
        /\ objs[j].prev \in -1..(pool.size - 1) /\ objs[i].prev \in -1..(pool.size - 1)
        /\ objs[j].next \in -1..(pool.size - 1) /\ objs[i].next \in -1..(pool.size - 1)
    BY <1>1, SlotTypes
  <2> QED BY <2>1, <2>2
<1>4. objs' = [j \in DOMAIN objs \ {i} |-> objs'[j]]
  BY UnlinkEffect
<1>5. objs' \in [InUse(pool') -> [key : K, obj : Obj, prev : -1..(pool'.size - 1), next : -1..(pool'.size - 1)]]
  BY <1>2, <1>3, <1>4
<1>6. pool'.next_free \in -1..(pool'.size - 1) /\ pool'.slot \in [SlotIds(pool') -> -2..(pool'.size - 1)]
  BY <1>2 DEF PoolLinked
<1> QED BY <1>2, <1>5, <1>6

(* The entries when a handler is unlinked.                                 *)
LEMMA EntriesLeft ==
  ASSUME Inv, NEW i \in DOMAIN objs
  PROVE  /\ KeysAfterUnlink(i) \in [DOMAIN keys -> [first : -1..(pool.size - 1), last : -1..(pool.size - 1)]]
         /\ \A j \in DOMAIN keys \ {objs[i].key} : KeysAfterUnlink(i)[j] = keys[j]
<1> DEFINE k == objs[i].key
           entries == KeysAfterUnlink(i)
<1>1. TypeOK /\ k \in DOMAIN keys
  BY ListOfHandler DEF Inv
<1>2. /\ entries = [j \in DOMAIN keys |-> entries[j]]
      /\ \A j \in DOMAIN keys \ {k} : entries[j] = keys[j]
      /\ entries[k] \in [first : {keys[k].first, objs[i].next}, last : {keys[k].last, objs[i].prev}]
  BY UnlinkEffect
<1> HIDE DEF entries
<1>3. ASSUME NEW j \in DOMAIN keys
      PROVE  entries[j] \in [first : -1..(pool.size - 1), last : -1..(pool.size - 1)]
  <2>1. CASE j = k
    <3>1. /\ keys[k].first \in -1..(pool.size - 1) /\ keys[k].last \in -1..(pool.size - 1)
          /\ objs[i].prev \in -1..(pool.size - 1) /\ objs[i].next \in -1..(pool.size - 1)
      BY <1>1, SlotTypes
    <3> HIDE DEF k
    <3> QED BY <1>2, <2>1, <3>1
  <2>2. CASE j # k
    BY <1>1, <1>2, <2>2, SlotTypes
  <2> QED BY <2>1, <2>2
<1> QED BY <1>2, <1>3 DEF entries

(* Removing a handler by its id removes it from the list of its key.       *)
LEMMA RemoveByIdKeeps ==
  ASSUME Inv, NEW i, handler_table_remove_by_id(i)
  PROVE  /\ i \in DOMAIN objs
         /\ Inv' /\ Handlers' = [Handlers EXCEPT ![objs[i].key] = list_remove(@, i)]
<1> DEFINE lists == [Handlers EXCEPT ![objs[i].key] = list_remove(@, i)]
<1>1. /\ i \in InUse(pool) /\ keys' = KeysAfterUnlink(i) /\ objs' = ObjsAfterUnlink(i)
      /\ pool' = obj_pool_free_id(pool, i) /\ order' = order
  BY DEF handler_table_remove_by_id
<1>2. TypeOK /\ i \in DOMAIN objs
  BY <1>1, SlotTypes DEF Inv
<1>3. AreLists(objs', keys', lists)
  BY <1>1, <1>2, UnlinkedLists
<1> HIDE DEF lists
<1>4. /\ keys' \in [DOMAIN keys -> [first : -1..(pool.size - 1), last : -1..(pool.size - 1)]]
      /\ DOMAIN keys' = DOMAIN keys
  BY <1>1, <1>2, EntriesLeft
<1>5. \A j \in DOMAIN objs \ {i} : objs[j].key \in DOMAIN keys
  BY <1>2, SlotTypes
<1>6. /\ PoolLinked(pool)' /\ pool'.size = pool.size
      /\ pool'.next_free \in -1..(pool'.size - 1)
      /\ pool'.slot \in [SlotIds(pool') -> -2..(pool'.size - 1)]
      /\ objs' \in [InUse(pool') -> [key : DOMAIN keys, obj : Obj,
                                     prev : -1..(pool'.size - 1), next : -1..(pool'.size - 1)]]
  BY <1>1, <1>2, <1>5, SlotsLeft
<1>7. OrderExact'
  BY <1>1, <1>4 DEF Inv, OrderExact
<1>8. TypeOK'
  BY <1>2, <1>4, <1>6, <1>7 DEF TypeOK, OrderExact
<1>9. Inv' /\ Handlers' = lists
  BY <1>3, <1>6, <1>7, <1>8, InvFromLists
<1> QED BY <1>2, <1>9 DEF lists

(* A key is empty after the removal when the handler was its only one.     *)
LEMMA KeyEmptied ==
  ASSUME Inv, NEW i \in DOMAIN objs
  PROVE  /\ KeysAfterUnlink(i)[objs[i].key] = EmptyKey <=> Handlers[objs[i].key] = <<i>>
         /\ Handlers[objs[i].key] = <<i>> => \A j \in DOMAIN objs \ {i} : objs[j].key # objs[i].key
<1> DEFINE k == objs[i].key
           ids == Handlers[k]
           entry == KeysAfterUnlink(i)[k]
           t == list_remove(ids, i)
<1>1. TypeOK /\ k \in DOMAIN keys /\ i \in ToSet(ids)
  BY ListOfHandler DEF Inv
<1>2. ids \in Seq(DOMAIN objs) /\ IsList(objs, keys[k], k, ids)
  BY <1>1 DEF Inv, AreLists
<1>3. IsList(ObjsAfterUnlink(i), entry, k, t)
  <2> DEFINE lists == [Handlers EXCEPT ![k] = list_remove(@, i)]
  <2>1. AreLists(ObjsAfterUnlink(i), KeysAfterUnlink(i), lists)
    BY UnlinkedLists
  <2>2. lists[k] = t
    BY <1>1 DEF Handlers
  <2>3. k \in DOMAIN KeysAfterUnlink(i)
    BY <1>1, EntriesLeft
  <2> HIDE DEF lists, t, entry
  <2> QED BY <2>1, <2>2, <2>3 DEF AreLists, entry
<1>4. /\ entry.first \in -1..(pool.size - 1)
      /\ entry = [first |-> entry.first, last |-> entry.last]
  <2>1. KeysAfterUnlink(i)[k] \in [first : -1..(pool.size - 1), last : -1..(pool.size - 1)]
    BY <1>1, EntriesLeft
  <2> QED BY <2>1
<1>5. t \in Seq(DOMAIN objs) /\ ids \in Seq(Nat) /\ DOMAIN objs \subseteq Nat
      /\ Position(ids, i) \in DOMAIN ids /\ ids[Position(ids, i)] = i /\ DOMAIN t = 1..(Len(ids) - 1)
  <2>1. DOMAIN objs \subseteq Nat
    BY <1>1, SlotTypes
  <2> HIDE DEF ids
  <2>2. /\ Position(ids, i) \in DOMAIN ids /\ ids[Position(ids, i)] = i
        /\ t \in Seq(DOMAIN objs) /\ DOMAIN t = 1..(Len(ids) - 1)
    BY ONLY <1>1, <1>2, RemoveClosesGap, Zenon
  <2>3. ids \in Seq(Nat)
    BY <1>2, <2>1
  <2> QED BY ONLY <2>1, <2>2, <2>3, Zenon
<1> HIDE DEF ids, t, entry, k
<1>6. t = <<>> <=> Len(ids) = 1
  <2>1. Len(ids) \in Nat /\ DOMAIN ids = 1..Len(ids) /\ Len(ids) > 0
    BY <1>5
  <2>2. Len(t) \in Nat /\ DOMAIN t = 1..Len(t) /\ (t = <<>> <=> Len(t) = 0)
    BY <1>5
  <2>3. 1..Len(t) = 1..(Len(ids) - 1)
    BY <1>5, <2>2
  <2>4. \A m \in Nat, n \in Nat : 1..m = 1..n => m = n
    OBVIOUS
  <2>5. Len(ids) - 1 \in Nat /\ (Len(ids) - 1 = 0 <=> Len(ids) = 1)
    BY <2>1
  <2>6. Len(t) = Len(ids) - 1
    BY <2>2, <2>3, <2>4, <2>5
  <2> QED BY <2>2, <2>5, <2>6
<1>7. Len(ids) = 1 <=> ids = <<i>>
  <2>1. ASSUME Len(ids) = 1 PROVE ids = <<i>>
    <3>1. DOMAIN ids = 1..1 /\ Position(ids, i) = 1
      BY <1>5, <2>1
    <3> QED BY <1>5, <2>1, <3>1
  <2> QED BY <2>1
<1>8. entry = EmptyKey <=> t = <<>>
  <2>1. ASSUME t = <<>> PROVE entry = EmptyKey
    BY <1>3, <1>4, <2>1 DEF IsList, EmptyKey
  <2>2. ASSUME t # <<>> PROVE entry # EmptyKey
    <3>1. entry.first = t[1] /\ t[1] \in DOMAIN objs
      BY <1>3, <1>5, <2>2 DEF IsList
    <3> QED BY <1>5, <3>1 DEF EmptyKey, INVALID_ID
  <2> QED BY <2>1, <2>2
<1>9. ids = <<i>> => \A j \in DOMAIN objs \ {i} : objs[j].key # k
  <2>1. ids = <<i>> => ToSet(ids) = {i}
    BY DEF ToSet
  <2> QED BY <1>2, <2>1 DEF IsList
<1> QED BY <1>6, <1>7, <1>8, <1>9 DEF ids, entry, k

(* The lists of the other keys, once a key is gone.                        *)
LEMMA ListsWithout ==
  ASSUME NEW slots, NEW entries, NEW lists, AreLists(slots, entries, lists), NEW k
  PROVE  AreLists(slots, Without(entries, {k}), Without(lists, {k}))
<1>1. DOMAIN lists = DOMAIN entries
  BY DEF AreLists
<1>2. /\ DOMAIN Without(entries, {k}) = DOMAIN entries \ {k}
      /\ Without(lists, {k}) = [j \in DOMAIN entries \ {k} |-> lists[j]]
      /\ \A j \in DOMAIN entries \ {k} : Without(entries, {k})[j] = entries[j]
  BY <1>1 DEF Without, Restrict
<1> QED BY <1>2 DEF AreLists

(* The same, and the key goes with its last handler.                       *)
LEMMA RemoveByIdFullKeeps ==
  ASSUME Inv, NEW i, handler_table_remove_by_id_full(i)
  PROVE  /\ i \in DOMAIN objs
         /\ Inv' /\ Handlers' = IF Handlers[objs[i].key] = <<i>> THEN Without(Handlers, {objs[i].key})
                                ELSE [Handlers EXCEPT ![objs[i].key] = list_remove(@, i)]
<1> DEFINE k == objs[i].key
           lists == [Handlers EXCEPT ![k] = list_remove(@, i)]
<1>1. /\ i \in InUse(pool) /\ objs' = ObjsAfterUnlink(i) /\ pool' = obj_pool_free_id(pool, i)
      /\ IF KeysAfterUnlink(i)[k] = EmptyKey
         THEN keys' = Without(keys, {k}) /\ order' = list_remove(order, k)
         ELSE keys' = KeysAfterUnlink(i) /\ order' = order
  BY DEF handler_table_remove_by_id_full
<1>2. TypeOK /\ i \in DOMAIN objs /\ k \in DOMAIN keys
  BY <1>1, SlotTypes DEF Inv
<1>3. AreLists(ObjsAfterUnlink(i), KeysAfterUnlink(i), lists)
  BY <1>2, UnlinkedLists
<1>4. /\ KeysAfterUnlink(i) \in [DOMAIN keys -> [first : -1..(pool.size - 1), last : -1..(pool.size - 1)]]
      /\ \A j \in DOMAIN keys \ {k} : KeysAfterUnlink(i)[j] = keys[j]
  BY <1>2, EntriesLeft
<1>5. /\ KeysAfterUnlink(i)[k] = EmptyKey <=> Handlers[k] = <<i>>
      /\ Handlers[k] = <<i>> => \A j \in DOMAIN objs \ {i} : objs[j].key # k
  BY <1>2, KeyEmptied
<1>6. \A j \in DOMAIN objs \ {i} : objs[j].key \in DOMAIN keys
  BY <1>2, SlotTypes
<1>7. CASE Handlers[k] = <<i>>
  <2>1. keys' = Without(keys, {k}) /\ order' = list_remove(order, k)
    BY <1>1, <1>5, <1>7
  <2>2. /\ Without(keys, {k}) = Without(KeysAfterUnlink(i), {k})
        /\ Without(lists, {k}) = Without(Handlers, {k})
        /\ DOMAIN keys' = DOMAIN keys \ {k}
        /\ keys' = [j \in DOMAIN keys \ {k} |-> keys[j]]
    <3>1. DOMAIN KeysAfterUnlink(i) = DOMAIN keys /\ DOMAIN Handlers = DOMAIN keys /\ DOMAIN lists = DOMAIN keys
      BY <1>4 DEF Handlers
    <3>2. \A j \in DOMAIN keys \ {k} : lists[j] = Handlers[j]
      BY DEF Handlers
    <3> HIDE DEF lists, k
    <3> QED BY <1>4, <2>1, <3>1, <3>2 DEF Without, Restrict
  <2>3. AreLists(objs', keys', Without(Handlers, {k}))
    <3> HIDE DEF lists, k
    <3>1. AreLists(ObjsAfterUnlink(i), Without(KeysAfterUnlink(i), {k}), Without(lists, {k}))
      BY <1>3, ListsWithout
    <3>2. objs' = ObjsAfterUnlink(i) /\ keys' = Without(KeysAfterUnlink(i), {k})
      BY <1>1, <2>1, <2>2
    <3>3. Without(lists, {k}) = Without(Handlers, {k})
      BY <2>2
    <3> QED BY <3>1, <3>2, <3>3
  <2>4. OrderExact'
    BY <1>2, <2>1, <2>2, OrderRemoved
  <2>5. \A j \in DOMAIN objs \ {i} : objs[j].key \in DOMAIN keys'
    BY <1>5, <1>6, <1>7, <2>2
  <2>6. /\ PoolLinked(pool)' /\ pool'.size = pool.size
        /\ pool'.next_free \in -1..(pool'.size - 1)
        /\ pool'.slot \in [SlotIds(pool') -> -2..(pool'.size - 1)]
        /\ objs' \in [InUse(pool') -> [key : DOMAIN keys', obj : Obj,
                                       prev : -1..(pool'.size - 1), next : -1..(pool'.size - 1)]]
    BY <1>1, <1>2, <2>5, SlotsLeft
  <2>7. keys' \in [DOMAIN keys' -> [first : -1..(pool.size - 1), last : -1..(pool.size - 1)]]
    <3>1. keys \in [DOMAIN keys -> [first : -1..(pool.size - 1), last : -1..(pool.size - 1)]]
      BY <1>2 DEF TypeOK
    <3> HIDE DEF k
    <3> QED BY <2>2, <3>1
  <2>8. TypeOK'
    BY <1>2, <2>2, <2>4, <2>6, <2>7 DEF TypeOK, OrderExact
  <2>9. Inv' /\ Handlers' = Without(Handlers, {k})
    BY <2>3, <2>4, <2>6, <2>8, InvFromLists
  <2> QED BY <1>2, <1>7, <2>9
<1>8. CASE Handlers[k] # <<i>>
  <2>1. keys' = KeysAfterUnlink(i) /\ order' = order
    BY <1>1, <1>5, <1>8
  <2>2. AreLists(objs', keys', lists)
    BY <1>1, <1>3, <2>1
  <2>3. DOMAIN keys' = DOMAIN keys
    BY <1>4, <2>1
  <2>4. OrderExact'
    BY <2>1, <2>3 DEF Inv, OrderExact
  <2>6. /\ PoolLinked(pool)' /\ pool'.size = pool.size
        /\ pool'.next_free \in -1..(pool'.size - 1)
        /\ pool'.slot \in [SlotIds(pool') -> -2..(pool'.size - 1)]
        /\ objs' \in [InUse(pool') -> [key : DOMAIN keys, obj : Obj,
                                       prev : -1..(pool'.size - 1), next : -1..(pool'.size - 1)]]
    BY <1>1, <1>2, <1>6, SlotsLeft
  <2>8. TypeOK'
    <3> HIDE DEF k
    <3> QED BY <1>2, <1>4, <2>1, <2>3, <2>4, <2>6 DEF TypeOK, OrderExact
  <2> HIDE DEF lists
  <2>9. Inv' /\ Handlers' = lists
    BY <2>2, <2>4, <2>6, <2>8, InvFromLists
  <2> QED BY <1>2, <1>8, <2>9 DEF lists
<1> QED BY <1>7, <1>8

(* Dropping a key frees exactly the slots of its list.                     *)
LEMMA RemoveKeyKeeps ==
  ASSUME Inv, NEW k, handler_table_remove_key(k)
  PROVE  /\ k \in DOMAIN keys
         /\ Inv' /\ Handlers' = Without(Handlers, {k})
<1> DEFINE ids == Handlers[k]
           lists == Without(Handlers, {k})
<1>1. TypeOK /\ AreLists(objs, keys, Handlers) /\ PoolLinked(pool) /\ k \in DOMAIN keys
  BY DEF Inv, handler_table_remove_key
<1>2. Walk(keys[k].first) = ids
  BY <1>1 DEF Handlers
<1>3. /\ pool' = PoolAfterFree(ids) /\ objs' = Without(objs, ToSet(ids))
      /\ keys' = Without(keys, {k}) /\ order' = list_remove(order, k)
  BY <1>2 DEF handler_table_remove_key
<1>4. ids \in Seq(DOMAIN objs) /\ IsList(objs, keys[k], k, ids) /\ DOMAIN objs = InUse(pool)
  BY <1>1, SlotTypes DEF AreLists
<1>5. PoolLinked(pool') /\ InUse(pool') = DOMAIN objs \ ToSet(ids) /\ pool'.size = pool.size
  BY <1>1, <1>3, <1>4, FreedSlots DEF IsList
<1> HIDE DEF ids
<1>6. /\ DOMAIN objs' = DOMAIN objs \ ToSet(ids)
      /\ objs' = [j \in DOMAIN objs \ ToSet(ids) |-> objs[j]]
      /\ DOMAIN keys' = DOMAIN keys \ {k}
      /\ keys' = [j \in DOMAIN keys \ {k} |-> keys[j]]
  BY <1>3 DEF Without, Restrict
<1>7. \A j \in DOMAIN objs' : objs[j].key \in DOMAIN keys'
  <2>1. \A j \in DOMAIN objs : objs[j].key \in DOMAIN keys
    BY <1>1, SlotTypes
  <2> QED BY <1>4, <1>6, <2>1 DEF IsList
<1>8. objs' \in [InUse(pool') -> [key : DOMAIN keys', obj : Obj,
                                  prev : -1..(pool'.size - 1), next : -1..(pool'.size - 1)]]
  <2>1. ASSUME NEW j \in DOMAIN objs'
        PROVE  objs[j] \in [key : DOMAIN keys', obj : Obj,
                            prev : -1..(pool'.size - 1), next : -1..(pool'.size - 1)]
    <3>1. /\ objs[j] = [key |-> objs[j].key, obj |-> objs[j].obj, prev |-> objs[j].prev, next |-> objs[j].next]
          /\ objs[j].obj \in Obj /\ objs[j].prev \in -1..(pool'.size - 1) /\ objs[j].next \in -1..(pool'.size - 1)
      BY <1>1, <1>5, <1>6, SlotTypes
    <3> QED BY <1>7, <3>1
  <2> QED BY <1>5, <1>6, <2>1
<1>9. keys' \in [DOMAIN keys' -> [first : -1..(pool'.size - 1), last : -1..(pool'.size - 1)]]
  <2>1. keys \in [DOMAIN keys -> [first : -1..(pool.size - 1), last : -1..(pool.size - 1)]]
    BY <1>1 DEF TypeOK
  <2> QED BY <1>5, <1>6, <2>1
<1>10. OrderExact'
  BY <1>1, <1>3, <1>6, OrderRemoved
<1>11. TypeOK'
  <2>1. /\ pool'.next_free \in -1..(pool'.size - 1)
        /\ pool'.slot \in [SlotIds(pool') -> -2..(pool'.size - 1)]
    BY <1>5 DEF PoolLinked
  <2>2. DOMAIN keys' \subseteq Key /\ pool'.size \in Prealloc..MaxSize
    BY <1>1, <1>5, <1>6 DEF TypeOK
  <2> QED BY <1>8, <1>9, <1>10, <2>1, <2>2 DEF TypeOK, OrderExact
<1>12. AreLists(objs', keys', lists)
  <2>1. DOMAIN Handlers = DOMAIN keys
    BY DEF Handlers
  <2>2. lists = [j \in DOMAIN keys' |-> lists[j]] /\ \A j \in DOMAIN keys' : lists[j] = Handlers[j]
    BY <1>6, <2>1 DEF Without, Restrict
  <2> HIDE DEF lists
  <2>3. ASSUME NEW j \in DOMAIN keys'
        PROVE  lists[j] \in Seq(DOMAIN objs') /\ IsList(objs', keys'[j], j, lists[j])
    <3> DEFINE s == Handlers[j]
    <3>1. j \in DOMAIN keys /\ j # k /\ keys'[j] = keys[j] /\ lists[j] = s
      BY <1>6, <2>2
    <3>2. s \in Seq(DOMAIN objs) /\ IsList(objs, keys[j], j, s)
      BY <1>1, <3>1 DEF AreLists
    <3>3. s \in Seq(Nat)
      <4>1. DOMAIN objs \subseteq Nat
        BY <1>1, SlotTypes
      <4> QED BY <3>2, <4>1
    <3> HIDE DEF s
    <3>4. {m \in DOMAIN objs' : objs'[m].key = j} = {m \in DOMAIN objs : objs[m].key = j}
      BY <1>4, <1>6, <3>1 DEF IsList
    <3>5. \A m \in DOMAIN objs : objs[m].key = j =>
            objs'[m].next = objs[m].next /\ objs'[m].prev = objs[m].prev
      BY <1>4, <1>6, <3>1 DEF IsList
    <3>6. IsList(objs', keys[j], j, s)
      BY <3>2, <3>3, <3>4, <3>5, ListUntouched
    <3>7. \A n \in DOMAIN s : s[n] \in DOMAIN objs'
      <4>1. ToSet(s) \subseteq DOMAIN objs'
        BY <3>6 DEF IsList
      <4> QED BY <4>1 DEF ToSet
    <3>8. s \in Seq(DOMAIN objs')
      BY <3>2, <3>7
    <3> QED BY <3>1, <3>6, <3>8
  <2> QED BY <2>2, <2>3 DEF AreLists
<1> HIDE DEF lists
<1>13. PoolLinked(pool)'
  BY <1>5
<1>14. Inv' /\ Handlers' = lists
  BY <1>10, <1>11, <1>12, <1>13, InvFromLists
<1> QED BY <1>1, <1>14 DEF lists

(* A new table.                                                            *)
LEMMA NewTable ==
  ASSUME NEW pl, NEW ob, NEW ks,
         pl = obj_pool_init_with_prealloc(Prealloc), ob = [i \in {} |-> {}], ks = [k \in {} |-> EmptyKey]
  PROVE  /\ PoolLinked(pl) /\ pl.size = Prealloc /\ pl.size \in Prealloc..MaxSize
         /\ ob \in [InUse(pl) -> [key : DOMAIN ks, obj : Obj, prev : -1..(pl.size - 1), next : -1..(pl.size - 1)]]
         /\ DOMAIN ks = {} /\ DOMAIN ob = {}
         /\ ks \in [DOMAIN ks -> [first : -1..(pl.size - 1), last : -1..(pl.size - 1)]]
         /\ pl.next_free \in -1..(pl.size - 1) /\ pl.slot \in [SlotIds(pl) -> -2..(pl.size - 1)]
         /\ AreLists(ob, ks, [k \in {} |-> <<>>])
<1>1. PoolLinked(pl) /\ InUse(pl) = {} /\ pl.size = Prealloc /\ pl.size \in Prealloc..MaxSize
  BY PoolAssumption, NewPool
<1>2. DOMAIN ks = {} /\ DOMAIN ob = {}
  OBVIOUS
<1>3. pl.next_free \in -1..(pl.size - 1) /\ pl.slot \in [SlotIds(pl) -> -2..(pl.size - 1)]
  BY <1>1 DEF PoolLinked
<1>4. AreLists(ob, ks, [k \in {} |-> <<>>])
  BY <1>2 DEF AreLists
<1> QED BY <1>1, <1>2, <1>3, <1>4

(* A table without keys has an empty order.                                *)
LEMMA EmptyOrder == <<>> \in Seq(Key) /\ IsInjective(<<>>) /\ ToSet(<<>>) = {}
<1>1. DOMAIN <<>> = {} /\ <<>> \in Seq(Key)
  OBVIOUS
<1> QED BY <1>1 DEF IsInjective, ToSet

(* A new table has no handlers.                                            *)
LEMMA InitHolds ==
  ASSUME Init
  PROVE  Inv /\ Handlers = [k \in {} |-> <<>>]
<1>1. /\ pool = obj_pool_init_with_prealloc(Prealloc)
      /\ objs = [i \in {} |-> {}] /\ keys = [k \in {} |-> EmptyKey] /\ order = <<>>
  BY DEF Init
<1>2. OrderExact
  BY <1>1, EmptyOrder DEF OrderExact
<1>3. PoolLinked(pool) /\ TypeOK /\ AreLists(objs, keys, [k \in {} |-> <<>>]) /\ DOMAIN keys = {}
  BY <1>1, <1>2, NewTable DEF TypeOK, OrderExact
<1>4. Handlers = [k \in {} |-> <<>>]
  BY <1>3 DEF Handlers
<1> QED BY <1>2, <1>3, <1>4 DEF Inv

(* So has the table that follows a freed one.                              *)
LEMMA FreeKeeps ==
  ASSUME Inv, handler_table_free
  PROVE  Inv' /\ Handlers' = [k \in {} |-> <<>>]
<1>1. /\ pool' = obj_pool_init_with_prealloc(Prealloc)
      /\ objs' = [i \in {} |-> {}] /\ keys' = [k \in {} |-> EmptyKey] /\ order' = <<>>
  BY DEF handler_table_free
<1>2. OrderExact'
  BY <1>1, EmptyOrder DEF OrderExact
<1>3. PoolLinked(pool)' /\ TypeOK' /\ AreLists(objs', keys', [k \in {} |-> <<>>])
  BY <1>1, <1>2, NewTable DEF TypeOK, OrderExact
<1> QED BY <1>2, <1>3, InvFromLists

----------------------------------------------------------------------------
(* Every operation keeps the invariant.                                    *)
LEMMA StepKeepsInv ==
  ASSUME Inv, [Next]_vars
  PROVE  Inv'
<1>1. ASSUME NEW k \in Key, handler_table_find_key(k) \/ handler_table_remove_key(k) PROVE Inv'
  BY <1>1, FindKeyKeeps, RemoveKeyKeeps
<1>2. ASSUME NEW k \in Key, NEW o \in Obj, handler_table_append(k, o) \/ handler_table_prepend(k, o)
      PROVE  Inv'
  BY <1>2, AppendKeeps, PrependKeeps
<1>3. ASSUME NEW i, handler_table_remove_by_id(i) \/ handler_table_remove_by_id_full(i) PROVE Inv'
  BY <1>3, RemoveByIdKeeps, RemoveByIdFullKeeps
<1>4. CASE handler_table_free
  BY <1>4, FreeKeeps
<1>5. CASE UNCHANGED vars
  BY <1>5 DEF vars, Inv, TypeOK, OrderExact, Handlers, Walk
<1> QED BY <1>1, <1>2, <1>3, <1>4, <1>5 DEF Next

(* The invariant of the linked slots holds throughout.                     *)
THEOREM TableLinked == Spec => []Inv
<1>1. Init => Inv
  BY InitHolds
<1>2. Inv /\ [Next]_vars => Inv'
  BY StepKeepsInv
<1> QED BY <1>1, <1>2, PTL DEF Spec

(* The pool, the slots in use and the keys have their types throughout:    *)
(* every link names a slot of the array as it is after its last growth.    *)
THEOREM TypeCorrect == Spec => []TypeOK
BY TableLinked, PTL DEF Inv

(* However ids are handed out and given back and the array grows: the      *)
(* chain of free slots has every slot that is not in use once, walking a   *)
(* key visits its handlers and no others, each once, "prev" leads back,    *)
(* and the hash counts the keys it walks.                                  *)
THEOREM TableIsExact == Spec => []TableExact
<1>1. Inv => TableExact
  <2> SUFFICES ASSUME Inv PROVE TableExact
    OBVIOUS
  <2>1. TypeOK /\ PoolLinked(pool) /\ AreLists(objs, keys, Handlers) /\ OrderExact
    BY DEF Inv
  <2>2. PoolExact
    <3>1. PICK ids \in Seq(SlotIds(pool)) : IsFreeList(pool, ids)
      BY <2>1 DEF PoolLinked
    <3>2. FreeChain(pool) = ids
      BY <2>1, <3>1, FreeChainIsFreeList
    <3> QED BY <3>1, <3>2 DEF PoolExact, IsFreeList
  <2>3. LinksExact
    <3> SUFFICES ASSUME NEW k \in Key
                 PROVE  LET ids == Walk(handler_key_first_id(k)) IN
                        /\ IsInjective(ids)
                        /\ ToSet(ids) = {i \in InUse(pool) : handler_table_get_key_by_id(i) = {k}}
                        /\ handler_key_last_id(k) = IF ids = <<>> THEN INVALID_ID ELSE Last(ids)
                        /\ handler_key_first(k) = IF ids = <<>> THEN {} ELSE {objs[ids[1]].obj}
                        /\ handler_key_last(k) = IF ids = <<>> THEN {} ELSE {objs[Last(ids)].obj}
                        /\ \A n \in DOMAIN ids :
                             objs[ids[n]].prev = IF n = 1 THEN INVALID_ID ELSE ids[n - 1]
      BY DEF LinksExact
    <3> DEFINE ids == Walk(handler_key_first_id(k))
    <3>1. \A i \in InUse(pool) : i \in DOMAIN objs /\ i # INVALID_ID
      BY <2>1, SlotTypes DEF INVALID_ID
    <3>2. \A i \in InUse(pool) : handler_table_get_key_by_id(i) = {k} <=> objs[i].key = k
      BY <3>1 DEF handler_table_get_key_by_id
    <3>3. /\ ids \in Seq(DOMAIN objs) /\ IsList(objs, Found(k), k, ids)
          /\ handler_key_first_id(k) = Found(k).first /\ handler_key_last_id(k) = Found(k).last
      <4>1. handler_key_first_id(k) = Found(k).first /\ handler_key_last_id(k) = Found(k).last
        BY DEF handler_key_first_id, handler_key_last_id, Found, EmptyKey
      <4>2. HandlersOf(k) \in Seq(DOMAIN objs) /\ IsList(objs, Found(k), k, HandlersOf(k))
        BY FoundList
      <4>3. ids = HandlersOf(k)
        <5>1. CASE k \in DOMAIN keys
          BY <5>1 DEF HandlersOf, Handlers, handler_key_first_id
        <5>2. CASE k \notin DOMAIN keys
          <6>1. handler_key_first_id(k) = INVALID_ID /\ HandlersOf(k) = <<>>
            BY <5>2 DEF handler_key_first_id, HandlersOf
          <6>2. IsChain(INVALID_ID, [i \in DOMAIN objs |-> objs[i].next], <<>>)
            BY DEF IsChain
          <6>3. <<>> \in Seq(Nat) /\ Len(<<>>) <= pool.size /\ pool.size \in Nat
            BY <2>1, SlotTypes
          <6>4. Walk(INVALID_ID) = <<>>
            BY <6>2, <6>3, FollowsChain DEF Walk
          <6> QED BY <6>1, <6>4
        <5> QED BY <5>1, <5>2
      <4> QED BY <4>1, <4>2, <4>3
    <3> HIDE DEF ids
    <3>4. ToSet(ids) = {i \in InUse(pool) : handler_table_get_key_by_id(i) = {k}}
      <4>1. DOMAIN objs = InUse(pool)
        BY <2>1, SlotTypes
      <4> QED BY <3>2, <3>3, <4>1 DEF IsList
    <3>5. handler_key_last_id(k) = (IF ids = <<>> THEN INVALID_ID ELSE Last(ids))
          /\ handler_key_first_id(k) = (IF ids = <<>> THEN INVALID_ID ELSE ids[1])
      BY <3>3 DEF IsList, Last
    <3>6. ids # <<>> => ids[1] # INVALID_ID /\ Last(ids) # INVALID_ID
      <4>1. ids # <<>> => ids[1] \in DOMAIN objs /\ Last(ids) \in DOMAIN objs
        BY <3>3 DEF Last
      <4>2. INVALID_ID \notin DOMAIN objs
        BY <2>1, SlotTypes DEF INVALID_ID
      <4> QED BY <4>1, <4>2
    <3>7. /\ handler_key_first(k) = IF ids = <<>> THEN {} ELSE {objs[ids[1]].obj}
          /\ handler_key_last(k) = IF ids = <<>> THEN {} ELSE {objs[Last(ids)].obj}
      BY <3>5, <3>6 DEF handler_key_first, handler_key_last, handler_table_get_by_id
    <3> QED BY <3>3, <3>4, <3>5, <3>7 DEF IsList, ids
  <2>4. IsInjective(handler_table_foreach_key) /\ Len(handler_table_foreach_key) = handler_table_n_key
    <3>1. order \in [1..Len(order) -> DOMAIN keys] /\ Len(order) \in Nat /\ IsInjective(order)
      <4>1. order \in Seq(Key) /\ ToSet(order) = DOMAIN keys /\ IsInjective(order)
        BY <2>1 DEF OrderExact
      <4> QED BY <4>1 DEF ToSet
    <3>2. \A j \in DOMAIN keys : \E n \in 1..Len(order) : order[n] = j
      BY <2>1, <3>1 DEF OrderExact, ToSet
    <3>3. order \in Bijection(1..Len(order), DOMAIN keys)
      BY <3>1, <3>2 DEF Bijection, Injection, Surjection, IsInjective
    <3>4. Cardinality(DOMAIN keys) = Len(order)
      BY <3>1, <3>3, FS_CountingElements DEF ExistsBijection
    <3> QED BY <3>1, <3>4 DEF handler_table_foreach_key, handler_table_n_key
  <2> QED BY <2>2, <2>3, <2>4 DEF TableExact
<1> QED BY <1>1, TableLinked, PTL

----------------------------------------------------------------------------
(***************************************************************************)
(* The refinement: each operation is the one of HandlerMap on the lists    *)
(* that the links stand for.                                               *)
(***************************************************************************)
LEMMA DomainOfHandlers == DOMAIN Handlers = DOMAIN keys /\ DOMAIN Values = DOMAIN objs
BY DEF Handlers, Values

(* The order and the call of a key that is made are those of the multi     *)
(* hash.                                                                   *)
LEMMA CreateMaps ==
  ASSUME NEW k, Create(k)
  PROVE  Map!Create(k)
BY DomainOfHandlers DEF Create, Map!Create, Map!Known

(* find_key with "create" adds a key without handlers, or nothing.         *)
LEMMA FindKeyMaps ==
  ASSUME Inv, NEW k \in Key, handler_table_find_key(k)
  PROVE  Map!FindKey(k)
<1>1. Map!Create(k) /\ objs' = objs
  BY CreateMaps DEF handler_table_find_key
<1>2. Handlers' = With(Handlers, k, HandlersOf(k))
  BY FindKeyKeeps
<1>3. Map!HandlersOf(k) = HandlersOf(k)
  BY DomainOfHandlers DEF Map!HandlersOf, Map!Known, HandlersOf
<1>4. Values' = Values
  BY <1>1 DEF Values
<1> QED BY <1>1, <1>2, <1>3, <1>4 DEF Map!FindKey, Map!With, With

(* A new handler.                                                          *)
LEMMA AddMaps ==
  ASSUME Inv, NEW k, NEW o, NEW ids, Create(k), AllocId(pool) \notin DOMAIN objs,
         Handlers' = With(Handlers, k, ids),
         objs' = [i \in DOMAIN objs \cup {AllocId(pool)} |-> objs'[i]],
         objs'[AllocId(pool)].obj = o, \A i \in DOMAIN objs : objs'[i].obj = objs[i].obj
  PROVE  Map!Add(k, o, AllocId(pool), ids)
<1>1. Map!Create(k) /\ AllocId(pool) \notin DOMAIN Values
  BY CreateMaps, DomainOfHandlers
<1>2. Values' = Map!With(Values, AllocId(pool), o)
  BY DEF Values, Map!With
<1> QED BY <1>1, <1>2 DEF Map!Add, Map!With, With

(* A handler that is appended is the last of its key.                      *)
LEMMA AppendMaps ==
  ASSUME Inv, NEW k \in Key, NEW o \in Obj, handler_table_append(k, o)
  PROVE  /\ AllocId(pool) \in 0..(MaxSize - 1)
         /\ Map!Add(k, o, AllocId(pool), Map!list_append(Map!HandlersOf(k), AllocId(pool)))
<1>1. Create(k) /\ CanAlloc /\ pool' = obj_pool_alloc_id(pool)
  BY DEF handler_table_append
<1>2. AllocId(pool) \in 0..(MaxSize - 1) /\ AllocId(pool) \notin DOMAIN objs
  BY <1>1, SlotIsFresh
<1>3. Map!list_append(Map!HandlersOf(k), AllocId(pool)) = Append(HandlersOf(k), AllocId(pool))
  BY DomainOfHandlers DEF Map!list_append, Map!HandlersOf, Map!Known, HandlersOf
<1> QED BY <1>1, <1>2, <1>3, AppendKeeps, AddMaps

(* A handler that is prepended is the first of its key.                    *)
LEMMA PrependMaps ==
  ASSUME Inv, NEW k \in Key, NEW o \in Obj, handler_table_prepend(k, o)
  PROVE  /\ AllocId(pool) \in 0..(MaxSize - 1)
         /\ Map!Add(k, o, AllocId(pool), Map!list_prepend(Map!HandlersOf(k), AllocId(pool)))
<1>1. Create(k) /\ CanAlloc /\ pool' = obj_pool_alloc_id(pool)
  BY DEF handler_table_prepend
<1>2. AllocId(pool) \in 0..(MaxSize - 1) /\ AllocId(pool) \notin DOMAIN objs
  BY <1>1, SlotIsFresh
<1>3. Map!list_prepend(Map!HandlersOf(k), AllocId(pool)) = <<AllocId(pool)>> \o HandlersOf(k)
  BY DomainOfHandlers DEF Map!list_prepend, Map!HandlersOf, Map!Known, HandlersOf
<1> QED BY <1>1, <1>2, <1>3, PrependKeeps, AddMaps

(* The key whose list has a slot is the key the slot names.                *)
LEMMA KeyOfMaps ==
  ASSUME Inv, NEW i \in DOMAIN objs
  PROVE  Map!KeyOf(i) = objs[i].key
<1>1. /\ objs[i].key \in DOMAIN Handlers
      /\ \A k \in DOMAIN Handlers : i \in ToSet(Handlers[k]) <=> k = objs[i].key
  BY ListOfHandler, DomainOfHandlers
<1>2. \A k \in DOMAIN Handlers : i \in Map!ToSet(Handlers[k]) <=> k = objs[i].key
  BY <1>1 DEF ToSet, Map!ToSet
<1>3. Map!KeyOf(i) = CHOOSE k \in DOMAIN Handlers : i \in Map!ToSet(Handlers[k])
  BY DEF Map!KeyOf
<1> QED BY <1>1, <1>2, <1>3

(* Dropping slots, and removing from a list.                               *)
LEMMA RemovalMaps ==
  /\ \A s, e : Map!list_remove(s, e) = list_remove(s, e)
  /\ \A f, X : Map!Without(f, X) = Without(f, X)
<1>1. \A s, e : Map!list_remove(s, e) = list_remove(s, e)
  BY DEF Map!list_remove, list_remove, Map!Position, Position, Map!RemoveAt, RemoveAt
<1>2. \A f, X : Map!Without(f, X) = Without(f, X)
  BY DEF Map!Without, Without, Map!Restrict, Restrict
<1> QED BY <1>1, <1>2

(* The slots that stay stand for the handlers they stood for.              *)
LEMMA ValuesLeft ==
  ASSUME NEW X, DOMAIN objs' = DOMAIN objs \ X, \A j \in DOMAIN objs' : objs'[j].obj = objs[j].obj
  PROVE  Values' = Without(Values, X)
BY DEF Values, Without, Restrict

(* The call for one handler that is freed.                                 *)
LEMMA FreedOne ==
  ASSUME NEW i \in DOMAIN objs
  PROVE  Map!Freed(<<i>>) = <<<<"free", objs[i].obj>>>>
<1>1. DOMAIN <<i>> = {1} /\ <<i>>[1] = i /\ Values[i] = objs[i].obj
  BY DEF Values
<1> QED BY <1>1 DEF Map!Freed

(* Unlinking a slot drops its handler and no other.                        *)
LEMMA UnlinkedValues ==
  ASSUME Inv, NEW i \in DOMAIN objs, objs' = ObjsAfterUnlink(i)
  PROVE  Values' = Without(Values, {i})
<1>1. /\ DOMAIN objs' = DOMAIN objs \ {i}
      /\ \A j \in DOMAIN objs' : objs'[j].obj = objs[j].obj
  <2> DEFINE after == ObjsAfterUnlink(i)
  <2>1. /\ after = [j \in DOMAIN objs \ {i} |-> after[j]]
        /\ \A j \in DOMAIN objs \ {i} : after[j].obj = objs[j].obj
    BY UnlinkEffect
  <2> HIDE DEF after
  <2>2. objs' = after
    BY DEF after
  <2> QED BY <2>1, <2>2
<1> QED BY <1>1, ValuesLeft

(* Removing a handler by its id.                                           *)
LEMMA RemoveByIdMaps ==
  ASSUME Inv, NEW i, handler_table_remove_by_id(i)
  PROVE  Map!RemoveById(i)
<1>1. /\ i \in DOMAIN objs
      /\ Handlers' = [Handlers EXCEPT ![objs[i].key] = list_remove(@, i)]
  BY RemoveByIdKeeps
<1>2. objs' = ObjsAfterUnlink(i) /\ calls' = <<<<"free", objs[i].obj>>>> /\ order' = order
  BY DEF handler_table_remove_by_id
<1>3. i \in DOMAIN Values /\ Map!KeyOf(i) = objs[i].key
  BY <1>1, KeyOfMaps, DomainOfHandlers
<1>4. Handlers' = [Handlers EXCEPT ![Map!KeyOf(i)] = Map!list_remove(@, i)]
  BY <1>1, <1>3, RemovalMaps
<1>5. Values' = Map!Without(Values, {i})
  BY <1>1, <1>2, UnlinkedValues, RemovalMaps
<1>6. calls' = Map!Freed(<<i>>)
  BY <1>1, <1>2, FreedOne
<1> QED BY <1>2, <1>3, <1>4, <1>5, <1>6 DEF Map!RemoveById

(* Removing a handler by its id, with its key if it was the last.          *)
LEMMA RemoveByIdFullMaps ==
  ASSUME Inv, NEW i, handler_table_remove_by_id_full(i)
  PROVE  Map!RemoveByIdFull(i)
<1> DEFINE k == objs[i].key
           last == Handlers[k] = <<i>>
<1>1. /\ i \in DOMAIN objs
      /\ Handlers' = IF last THEN Without(Handlers, {k}) ELSE [Handlers EXCEPT ![k] = list_remove(@, i)]
  BY RemoveByIdFullKeeps
<1>2. /\ objs' = ObjsAfterUnlink(i)
      /\ KeysAfterUnlink(i)[k] = EmptyKey =>
           order' = list_remove(order, k) /\ calls' = <<<<"free", objs[i].obj>>, <<"free key", k>>>>
      /\ KeysAfterUnlink(i)[k] # EmptyKey => order' = order /\ calls' = <<<<"free", objs[i].obj>>>>
  BY DEF handler_table_remove_by_id_full
<1>3. KeysAfterUnlink(i)[k] = EmptyKey <=> last
  BY <1>1, KeyEmptied
<1>4. i \in DOMAIN Values /\ Map!KeyOf(i) = k
  BY <1>1, KeyOfMaps, DomainOfHandlers
<1>5. Values' = Map!Without(Values, {i}) /\ Map!Freed(<<i>>) = <<<<"free", objs[i].obj>>>>
  BY <1>1, <1>2, UnlinkedValues, RemovalMaps, FreedOne
<1>6. <<<<"free", objs[i].obj>>>> \o <<<<"free key", k>>>> = <<<<"free", objs[i].obj>>, <<"free key", k>>>>
  BY TwoElements
<1>7. CASE last
  <2>1. order' = Map!list_remove(order, k) /\ Handlers' = Map!Without(Handlers, {k})
    BY <1>1, <1>2, <1>3, <1>7, RemovalMaps
  <2>2. calls' = Map!Freed(<<i>>) \o <<<<"free key", k>>>>
    BY <1>2, <1>3, <1>5, <1>6, <1>7
  <2> QED BY <1>4, <1>5, <1>7, <2>1, <2>2 DEF Map!RemoveByIdFull
<1>8. CASE ~last
  <2>1. order' = order /\ Handlers' = [Handlers EXCEPT ![k] = Map!list_remove(@, i)]
    BY <1>1, <1>2, <1>3, <1>8, RemovalMaps
  <2>2. calls' = Map!Freed(<<i>>)
    BY <1>2, <1>3, <1>5, <1>8
  <2> QED BY <1>4, <1>5, <1>8, <2>1, <2>2 DEF Map!RemoveByIdFull
<1> QED BY <1>7, <1>8

(* What dropping a key calls, first to last.                               *)
LEMMA CallsMap ==
  ASSUME Inv, NEW k \in DOMAIN keys
  PROVE  CallsOfFree(k) = Map!Freed(Handlers[k]) \o <<<<"free key", k>>>>
<1> DEFINE ids == Handlers[k]
           freed == [n \in DOMAIN ids |-> <<"free", objs[ids[n]].obj>>]
<1>1. Walk(keys[k].first) = ids
  BY DEF Handlers
<1>2. ids \in Seq(DOMAIN objs)
  BY DEF Inv, AreLists
<1>3. Map!Freed(ids) = freed
  <2>1. \A n \in DOMAIN ids : Values[ids[n]] = objs[ids[n]].obj
    BY <1>2 DEF Values
  <2> HIDE DEF ids
  <2> QED BY <2>1 DEF Map!Freed
<1>4. CallsOfFree(k) = Append(freed, <<"free key", k>>)
  BY <1>1 DEF CallsOfFree
<1>5. freed \in Seq({"free"} \X {objs[j].obj : j \in DOMAIN objs})
  <2> HIDE DEF ids
  <2> QED BY <1>2
<1> HIDE DEF freed
<1>6. Append(freed, <<"free key", k>>) = freed \o <<<<"free key", k>>>>
  BY <1>5, AppendIsBehind
<1> QED BY <1>3, <1>4, <1>6

(* Dropping a key: its handlers are told, first to last, and then the key. *)
LEMMA RemoveKeyMaps ==
  ASSUME Inv, NEW k, handler_table_remove_key(k)
  PROVE  Map!RemoveKey(k)
<1>1. k \in DOMAIN keys /\ Handlers' = Without(Handlers, {k})
  BY RemoveKeyKeeps
<1>2. /\ objs' = Without(objs, ToSet(Handlers[k])) /\ order' = list_remove(order, k)
      /\ calls' = CallsOfFree(k)
  BY <1>1 DEF handler_table_remove_key, Handlers
<1>3. Map!Known(k)
  BY <1>1, DomainOfHandlers DEF Map!Known
<1>4. Values' = Map!Without(Values, Map!ToSet(Handlers[k]))
  <2>1. /\ DOMAIN objs' = DOMAIN objs \ ToSet(Handlers[k])
        /\ \A j \in DOMAIN objs' : objs'[j].obj = objs[j].obj
    BY <1>2 DEF Without, Restrict
  <2>2. Map!ToSet(Handlers[k]) = ToSet(Handlers[k])
    BY DEF Map!ToSet, ToSet
  <2> QED BY <2>1, <2>2, ValuesLeft, RemovalMaps
<1>5. calls' = Map!Freed(Handlers[k]) \o <<<<"free key", k>>>>
  BY <1>1, <1>2, CallsMap
<1>6. order' = Map!list_remove(order, k) /\ Handlers' = Map!Without(Handlers, {k})
  BY <1>1, <1>2, RemovalMaps
<1> QED BY <1>3, <1>4, <1>5, <1>6 DEF Map!RemoveKey

(* Freeing the table: the same for every key, the oldest first.            *)
LEMMA FreeMaps ==
  ASSUME Inv, handler_table_free
  PROVE  Map!Free
<1> DEFINE told == [n \in DOMAIN order |-> CallsOfFree(order[n])]
           meant == [n \in DOMAIN order |->
                      Map!Freed(Handlers[order[n]]) \o <<<<"free key", order[n]>>>>]
<1>1. Handlers' = [k \in {} |-> <<>>] /\ Values' = [i \in {} |-> {}] /\ order' = <<>>
  <2>1. objs' = [i \in {} |-> {}] /\ order' = <<>>
    BY DEF handler_table_free
  <2>2. DOMAIN objs' = {}
    BY <2>1
  <2> QED BY <2>1, <2>2, FreeKeeps DEF Values
<1>2. \A n \in DOMAIN order : order[n] \in DOMAIN keys
  BY DEF Inv, OrderExact, ToSet
<1>3. told = meant
  BY <1>2, CallsMap
<1>4. calls' = FlattenSeq(told)
  BY DEF handler_table_free
<1>5. FlattenSeq(told) = Map!FlattenSeq(told)
  BY DEF FlattenSeq, Map!FlattenSeq
<1>6. calls' = Map!FlattenSeq(meant)
  BY <1>3, <1>4, <1>5
<1> QED BY <1>1, <1>6 DEF Map!Free

(* Every operation of the linked slots is one of the multi hash.           *)
LEMMA StepMaps ==
  ASSUME Inv, [Next]_vars
  PROVE  [Map!Next]_(Map!vars)
<1>1. ASSUME NEW k \in Key, handler_table_find_key(k) \/ handler_table_remove_key(k) PROVE Map!Next
  BY <1>1, FindKeyMaps, RemoveKeyMaps DEF Map!Next
<1>2. ASSUME NEW k \in Key, NEW o \in Obj, handler_table_append(k, o) \/ handler_table_prepend(k, o)
      PROVE  Map!Next
  BY <1>2, AppendMaps, PrependMaps DEF Map!Next
<1>3. ASSUME NEW i \in 0..(MaxSize - 1),
             handler_table_remove_by_id(i) \/ handler_table_remove_by_id_full(i)
      PROVE  Map!Next
  BY <1>3, RemoveByIdMaps, RemoveByIdFullMaps DEF Map!Next
<1>4. CASE handler_table_free
  BY <1>4, FreeMaps DEF Map!Next
<1>5. CASE UNCHANGED vars
  BY <1>5 DEF vars, Map!vars, Handlers, Values, Walk
<1> QED BY <1>1, <1>2, <1>3, <1>4, <1>5 DEF Next

(* The linked slots implement the multi hash that handler-table.h          *)
(* describes: whatever is added, removed by id or by key, or freed, every  *)
(* key has the handlers it was given in the order it was given them, an id *)
(* is given to no second handler while it is in use, and each handler and  *)
(* key is told of its end once, the handlers of a key before the key.      *)
THEOREM TableImplementsMap == Spec => ImplementsHandlerMap
<1>1. Init => Map!Init
  <2> SUFFICES ASSUME Init PROVE Map!Init
    OBVIOUS
  <2>1. Handlers = [k \in {} |-> <<>>] /\ Values = [i \in {} |-> {}]
    <3>1. objs = [i \in {} |-> {}]
      BY DEF Init
    <3>2. DOMAIN objs = {}
      BY <3>1
    <3> QED BY <3>1, <3>2, InitHolds DEF Values
  <2> QED BY <2>1 DEF Init, Map!Init
<1>2. Inv /\ [Next]_vars => [Map!Next]_(Map!vars)
  BY StepMaps
<1> QED BY <1>1, <1>2, TableLinked, PTL DEF Spec, Map!Spec, ImplementsHandlerMap

----------------------------------------------------------------------------
(* The bytes of a string.                                                  *)
LEMMA BytesAre ==
  \A b \in Bytes : b \in 1..255 /\ b \in 0..255 /\ b \in Int /\ b # 0 /\ b > 0 /\ b < 256
BY DEF Bytes

(* A pointer into a string.                                                *)
LEMMA AfterReads ==
  ASSUME NEW s \in Seq(Bytes), NEW i \in 0..Len(s)
  PROVE  /\ After(s, i) \in Seq(Bytes) /\ Len(After(s, i)) = Len(s) - i
         /\ \A k \in 1..(Len(s) - i) : After(s, i)[k] = s[i + k]
         /\ \A k \in Nat \ {0} : Byte(After(s, i), k) = Byte(s, i + k)
<1> DEFINE t == After(s, i)
<1>1. t \in Seq(Bytes) /\ Len(t) = Len(s) - i /\ \A k \in 1..(Len(s) - i) : t[k] = s[i + k]
  BY DEF After
<1>2. DOMAIN t = 1..(Len(s) - i) /\ DOMAIN s = 1..Len(s)
  BY <1>1
<1> HIDE DEF t
<1>3. ASSUME NEW k \in Nat \ {0} PROVE Byte(t, k) = Byte(s, i + k)
  BY <1>1, <1>2, <1>3 DEF Byte
<1> QED BY <1>1, <1>3 DEF t

(* The beginning of a string.                                              *)
LEMMA PrefixReads ==
  ASSUME NEW s \in Seq(Bytes), NEW k \in 0..Len(s)
  PROVE  /\ SubSeq(s, 1, k) \in Seq(Bytes) /\ Len(SubSeq(s, 1, k)) = k
         /\ \A j \in 1..k : SubSeq(s, 1, k)[j] = s[j]
OBVIOUS

(* A byte is zero exactly beyond the end of the string.                    *)
LEMMA ByteRange ==
  ASSUME NEW s \in Seq(Bytes), NEW i \in Nat \ {0}
  PROVE  /\ Byte(s, i) \in 0..255
         /\ i <= Len(s) <=> Byte(s, i) # 0
         /\ i <= Len(s) => Byte(s, i) = s[i]
<1>1. DOMAIN s = 1..Len(s) /\ Len(s) \in Nat /\ \A k \in 1..Len(s) : s[k] \in Bytes
  OBVIOUS
<1>2. CASE i <= Len(s)
  <2>1. i \in 1..Len(s)
    BY <1>1, <1>2
  <2>2. Byte(s, i) = s[i] /\ s[i] \in Bytes
    BY <1>1, <2>1 DEF Byte
  <2>3. Byte(s, i) \in 0..255 /\ Byte(s, i) # 0
    BY <2>2, BytesAre
  <2> QED BY <1>2, <2>2, <2>3
<1>3. CASE ~(i <= Len(s))
  <2>1. i \notin DOMAIN s
    BY <1>1, <1>3
  <2>2. Byte(s, i) = 0
    BY <2>1 DEF Byte
  <2> QED BY <1>3, <2>2
<1> QED BY <1>2, <1>3

(* The lengths that first bytes announce.                                  *)
LEMMA TypeCases ==
  ASSUME NEW b \in 0..255
  PROVE  /\ b < 128 => type(b) = 1
         /\ b \in 128..191 => type(b) = 0
         /\ b \in 192..223 => type(b) = 2
         /\ b \in 224..239 => type(b) = 3
         /\ b \in 240..247 => type(b) = 4
         /\ b \in 248..251 => type(b) = 5
         /\ b \in 252..253 => type(b) = 6
         /\ b \in 254..255 => type(b) = -1
BY DEF type

(* A character is at least one byte and ends in the string.                *)
LEMMA CharLenRange ==
  ASSUME NEW s \in Seq(Bytes), s # <<>>
  PROVE  char_len(s) \in 1..6 /\ char_len(s) <= Len(s)
<1> DEFINE n == type(Byte(s, 1))
<1>1. CASE n \in 2..6 /\ \A i \in 2..n : IsContinuation(Byte(s, i))
  <2>1. char_len(s) = n
    BY <1>1 DEF char_len
  <2>2. Byte(s, n) # 0 /\ n \in Nat \ {0}
    <3> HIDE DEF n
    <3>1. n \in 2..n /\ n \in Nat \ {0}
      BY <1>1
    <3>2. IsContinuation(Byte(s, n))
      BY <1>1, <3>1
    <3>3. Byte(s, n) \in 128..191
      BY <3>2 DEF IsContinuation
    <3>4. \A b \in 128..191 : b # 0
      OBVIOUS
    <3> QED BY <3>1, <3>3, <3>4
  <2> HIDE DEF n
  <2> QED BY <1>1, <2>1, <2>2, ByteRange
<1>2. CASE ~(n \in 2..6 /\ \A i \in 2..n : IsContinuation(Byte(s, i)))
  <2>1. char_len(s) = 1
    BY <1>2 DEF char_len
  <2> QED BY <2>1
<1> QED BY <1>1, <1>2

----------------------------------------------------------------------------
(* The low six bits of a byte are a number, all eight the byte.            *)
LEMMA RestOfByte ==
  ASSUME NEW b \in 0..255
  PROVE  b % 64 \in Nat /\ b % 256 = b
OBVIOUS

(* Remainders are natural numbers.                                         *)
LEMMA RestIsNat ==
  ASSUME NEW b \in 0..255, NEW m \in Nat \ {0}
  PROVE  b % m \in Nat
OBVIOUS

(* What a byte keeps under its mark.                                       *)
LEMMA DigitsOf ==
  ASSUME NEW s \in Seq(Bytes)
  PROVE  /\ \A i \in Nat \ {0} : Byte(s, i) % 64 \in Nat
         /\ \A n \in 1..6 : Byte(s, 1) % Keeps[n] \in Nat
<1>1. ASSUME NEW i \in Nat \ {0} PROVE Byte(s, i) % 64 \in Nat
  <2>1. Byte(s, i) \in 0..255
    BY ByteRange
  <2>2. 64 \in Nat \ {0}
    OBVIOUS
  <2> QED BY <2>1, <2>2, RestIsNat
<1>2. ASSUME NEW n \in 1..6 PROVE Byte(s, 1) % Keeps[n] \in Nat
  <2>1. Keeps[n] \in Nat \ {0}
    BY DEF Keeps
  <2>2. 1 \in Nat \ {0}
    OBVIOUS
  <2>3. Byte(s, 1) \in 0..255
    BY <2>2, ByteRange
  <2> QED BY <2>1, <2>3, RestIsNat
<1> QED BY <1>1, <1>2

(* Horner's scheme for the bits of a character of n bytes.                 *)
IsBits(f, s, n) ==
  /\ f \in [0..n -> Nat] /\ f[0] = 0
  /\ \A i \in 1..n : f[i] = f[i - 1] * 64 + (IF i = 1 THEN Byte(s, 1) % Keeps[n] ELSE Byte(s, i) % 64)

(* The bits of a character, written out.                                   *)
LEMMA BitsInSteps ==
  ASSUME NEW s \in Seq(Bytes), NEW n \in 1..6
  PROVE  \E f : IsBits(f, s, n) /\ Bits(s, n) = f[n]
<1> DEFINE V == [i \in 1..n |-> IF i = 1 THEN Byte(s, 1) % Keeps[n] ELSE Byte(s, i) % 64]
           step == [x \in Nat \X (1..n) |-> x[1] * 64 + V[x[2]]]
           Is(f) == f = [i \in 0..n |-> IF i = 0 THEN 0
                                       ELSE f[i - 1] * 64 + (IF i = 1 THEN Byte(s, 1) % Keeps[n] ELSE Byte(s, i) % 64)]
<1>1. n \in Nat /\ V \in [1..n -> Nat]
  <2> SUFFICES ASSUME NEW i \in 1..n PROVE V[i] \in Nat
    OBVIOUS
  <2>1. i \in Nat \ {0}
    OBVIOUS
  <2>2. Byte(s, i) % 64 \in Nat /\ Byte(s, 1) % Keeps[n] \in Nat
    BY <2>1, DigitsOf
  <2> QED BY <2>2
<1>2. \A i \in 1..n : V[i] = IF i = 1 THEN Byte(s, 1) % Keeps[n] ELSE Byte(s, i) % 64
  OBVIOUS
<1> HIDE DEF V
<1>3. step \in [Nat \X (1..n) -> Nat] /\ \A x \in Nat, i \in 1..n : step[<<x, i>>] = x * 64 + V[i]
  <2>1. ASSUME NEW x \in Nat, NEW i \in 1..n PROVE x * 64 + V[i] \in Nat
    BY <1>1
  <2> QED BY <2>1
<1> HIDE DEF step
<1>4. PICK f : IsSteps(f, n, Nat, 0, step)
  BY <1>1, <1>3, StepsExist
<1>5. f \in [0..n -> Nat] /\ f[0] = 0 /\ \A i \in 1..n : f[i] = f[i - 1] * 64 + V[i]
  <2> SUFFICES ASSUME NEW i \in 1..n PROVE f[i] = f[i - 1] * 64 + V[i]
    BY <1>4 DEF IsSteps
  <2>1. i - 1 \in 0..n /\ f[i - 1] \in Nat
    BY <1>4 DEF IsSteps
  <2> QED BY <1>3, <1>4, <2>1 DEF IsSteps
<1>6. Is(f)
  <2>1. \A i \in 0..n : f[i] = IF i = 0 THEN 0
                               ELSE f[i - 1] * 64 + (IF i = 1 THEN Byte(s, 1) % Keeps[n] ELSE Byte(s, i) % 64)
    <3> SUFFICES ASSUME NEW i \in 0..n
                 PROVE  f[i] = IF i = 0 THEN 0
                               ELSE f[i - 1] * 64 + (IF i = 1 THEN Byte(s, 1) % Keeps[n] ELSE Byte(s, i) % 64)
      OBVIOUS
    <3>1. CASE i = 0
      BY <1>5, <3>1
    <3>2. CASE i # 0
      <4>1. i \in 1..n
        BY <3>2
      <4>2. f[i] = f[i - 1] * 64 + V[i]
        BY <1>5, <4>1
      <4> QED BY <1>2, <3>2, <4>1, <4>2
    <3> QED BY <3>1, <3>2
  <2> QED BY <1>5, <2>1
<1> DEFINE F == CHOOSE g : Is(g)
<1>7. Bits(s, n) = F[n]
  BY DEF Bits
<1>8. Is(F)
  <2> HIDE DEF Is
  <2> QED BY <1>6
<1> HIDE DEF F
<1>9. F[0] = 0 /\ \A i \in 1..n : F[i] = F[i - 1] * 64 + V[i]
  <2>1. \A i \in 0..n : F[i] = IF i = 0 THEN 0
                                 ELSE F[i - 1] * 64 + (IF i = 1 THEN Byte(s, 1) % Keeps[n] ELSE Byte(s, i) % 64)
    BY <1>8
  <2>2. 0 \in 0..n /\ \A i \in 1..n : i \in 0..n /\ i # 0
    BY <1>1
  <2>3. F[0] = 0
    BY <2>1, <2>2
  <2>4. ASSUME NEW i \in 1..n PROVE F[i] = F[i - 1] * 64 + V[i]
    <3>1. F[i] = F[i - 1] * 64 + (IF i = 1 THEN Byte(s, 1) % Keeps[n] ELSE Byte(s, i) % 64)
      BY <2>1, <2>2
    <3> QED BY <1>2, <3>1
  <2> QED BY <2>3, <2>4
<1> HIDE DEF Is
<1> DEFINE T == {i \in 0..n : F[i] = f[i]}
<1>10. 0 \in T
  BY <1>1, <1>5, <1>9
<1>11. ASSUME NEW i \in 0..(n - 1), i \in T PROVE i + 1 \in T
  <2>1. i + 1 \in 1..n /\ i + 1 \in 0..n /\ (i + 1) - 1 = i
    BY <1>1
  <2>2. F[i + 1] = F[i] * 64 + V[i + 1] /\ f[i + 1] = f[i] * 64 + V[i + 1]
    BY <1>5, <1>9, <2>1, SMTT(30)
  <2> QED BY <1>11, <2>1, <2>2
<1>12. n \in T
  <2> HIDE DEF T
  <2>1. \A i \in 0..n : i \in T
    BY <1>1, <1>10, <1>11, CountingUp
  <2> QED BY <1>1, <2>1
<1>13. Bits(s, n) = f[n]
  BY <1>7, <1>12
<1>14. \A i \in 1..n : f[i] = f[i - 1] * 64 + (IF i = 1 THEN Byte(s, 1) % Keeps[n] ELSE Byte(s, i) % 64)
  BY <1>2, <1>5
<1> QED BY <1>5, <1>13, <1>14 DEF IsBits


(* In this form the bits are sums.                                         *)
LEMMA BitsAre ==
  ASSUME NEW s \in Seq(Bytes)
  PROVE  /\ Bits(s, 1) = Byte(s, 1)
         /\ Bits(s, 2) = (Byte(s, 1) % 32) * 64 + (Byte(s, 2) % 64)
         /\ Bits(s, 3) = ((Byte(s, 1) % 16) * 64 + (Byte(s, 2) % 64)) * 64 + (Byte(s, 3) % 64)
         /\ Bits(s, 4) = (((Byte(s, 1) % 8) * 64 + (Byte(s, 2) % 64)) * 64 + (Byte(s, 3) % 64)) * 64 + (Byte(s, 4) % 64)
         /\ Bits(s, 5) = ((((Byte(s, 1) % 4) * 64 + (Byte(s, 2) % 64)) * 64 + (Byte(s, 3) % 64)) * 64 + (Byte(s, 4) % 64)) * 64 + (Byte(s, 5) % 64)
         /\ Bits(s, 6) = (((((Byte(s, 1) % 2) * 64 + (Byte(s, 2) % 64)) * 64 + (Byte(s, 3) % 64)) * 64 + (Byte(s, 4) % 64)) * 64 + (Byte(s, 5) % 64)) * 64 + (Byte(s, 6) % 64)
<1> DEFINE d(i) == Byte(s, i) % 64
<1>1. ASSUME NEW i \in 1..6 PROVE d(i) \in Nat
  <2>1. i \in Nat \ {0}
    OBVIOUS
  <2> QED BY <2>1, DigitsOf
<1> HIDE DEF d
<1> DEFINE Is(f, n) == /\ f \in [0..n -> Nat] /\ Bits(s, n) = f[n] /\ f[1] = Byte(s, 1) % Keeps[n]
                       /\ \A i \in 2..n : f[i] = f[i - 1] * 64 + d(i)
<1>2. ASSUME NEW n \in 1..6 PROVE \E f : Is(f, n)
  <2>1. PICK f : IsBits(f, s, n) /\ Bits(s, n) = f[n]
    BY BitsInSteps
  <2>2. 1 \in 1..n /\ 1 - 1 = 0 /\ 1 \in 0..n
    OBVIOUS
  <2>3. f[1] = 0 * 64 + (Byte(s, 1) % Keeps[n]) /\ f[1] \in Nat
    BY <2>1, <2>2 DEF IsBits
  <2>4. Byte(s, 1) % Keeps[n] \in Nat
    BY DigitsOf
  <2>5. f[1] = Byte(s, 1) % Keeps[n]
    BY <2>3, <2>4
  <2>6. ASSUME NEW i \in 2..n PROVE f[i] = f[i - 1] * 64 + d(i)
    <3>1. i \in 1..n /\ i # 1
      OBVIOUS
    <3>2. f[i] = f[i - 1] * 64 + (IF i = 1 THEN Byte(s, 1) % Keeps[n] ELSE Byte(s, i) % 64)
      BY <2>1, <3>1 DEF IsBits
    <3> QED BY <3>1, <3>2 DEF d
  <2>7. Is(f, n)
    BY <2>1, <2>5, <2>6 DEF IsBits
  <2> HIDE DEF Is
  <2> QED BY <2>7
<1>3. Keeps[1] = 256 /\ Keeps[2] = 32 /\ Keeps[3] = 16 /\ Keeps[4] = 8 /\ Keeps[5] = 4 /\ Keeps[6] = 2
  BY DEF Keeps
<1>4. Bits(s, 1) = Byte(s, 1)
  <2>1. PICK f : Is(f, 1)
    <3> HIDE DEF Is
    <3> QED BY <1>2, SMT
  <2>2. 1 \in Nat \ {0}
    OBVIOUS
  <2>3. Byte(s, 1) \in 0..255
    BY <2>2, ByteRange
  <2>4. Byte(s, 1) % 256 = Byte(s, 1)
    BY <2>3, RestOfByte
  <2> QED BY <1>3, <2>1, <2>4
<1>5. Bits(s, 2) = (Byte(s, 1) % 32) * 64 + d(2)
  <2>1. PICK f : Is(f, 2)
    <3> HIDE DEF Is
    <3> QED BY <1>2, SMT
  <2>2. f[2] = f[1] * 64 + d(2)
    BY <2>1, SMT
  <2> QED BY <1>3, <2>1, <2>2, SMT
<1>6. Bits(s, 3) = ((Byte(s, 1) % 16) * 64 + d(2)) * 64 + d(3)
  <2>1. PICK f : Is(f, 3)
    <3> HIDE DEF Is
    <3> QED BY <1>2, SMT
  <2>2. f[2] = f[1] * 64 + d(2)
    BY <2>1, SMT
  <2>3. f[3] = f[2] * 64 + d(3)
    BY <2>1, SMT
  <2> QED BY <1>3, <2>1, <2>2, <2>3, SMT
<1>7. Bits(s, 4) = (((Byte(s, 1) % 8) * 64 + d(2)) * 64 + d(3)) * 64 + d(4)
  <2>1. PICK f : Is(f, 4)
    <3> HIDE DEF Is
    <3> QED BY <1>2, SMT
  <2>2. f[2] = f[1] * 64 + d(2)
    BY <2>1, SMT
  <2>3. f[3] = f[2] * 64 + d(3)
    BY <2>1, SMT
  <2>4. f[4] = f[3] * 64 + d(4)
    BY <2>1, SMT
  <2> QED BY <1>3, <2>1, <2>2, <2>3, <2>4, SMT
<1>8. Bits(s, 5) = ((((Byte(s, 1) % 4) * 64 + d(2)) * 64 + d(3)) * 64 + d(4)) * 64 + d(5)
  <2>1. PICK f : Is(f, 5)
    <3> HIDE DEF Is
    <3> QED BY <1>2, SMT
  <2>2. f[2] = f[1] * 64 + d(2)
    BY <2>1, SMT
  <2>3. f[3] = f[2] * 64 + d(3)
    BY <2>1, SMT
  <2>4. f[4] = f[3] * 64 + d(4)
    BY <2>1, SMT
  <2>5. f[5] = f[4] * 64 + d(5)
    BY <2>1, SMT
  <2> QED BY <1>3, <2>1, <2>2, <2>3, <2>4, <2>5, SMT
<1>9. Bits(s, 6) = (((((Byte(s, 1) % 2) * 64 + d(2)) * 64 + d(3)) * 64 + d(4)) * 64 + d(5)) * 64 + d(6)
  <2>1. PICK f : Is(f, 6)
    <3> HIDE DEF Is
    <3> QED BY <1>2, SMT
  <2>2. f[2] = f[1] * 64 + d(2)
    BY <2>1, SMT
  <2>3. f[3] = f[2] * 64 + d(3)
    BY <2>1, SMT
  <2>4. f[4] = f[3] * 64 + d(4)
    BY <2>1, SMT
  <2>5. f[5] = f[4] * 64 + d(5)
    BY <2>1, SMT
  <2>6. f[6] = f[5] * 64 + d(6)
    BY <2>1, SMT
  <2> QED BY <1>3, <2>1, <2>2, <2>3, <2>4, <2>5, <2>6, SMT
<1> QED BY <1>4, <1>5, <1>6, <1>7, <1>8, <1>9 DEF d

----------------------------------------------------------------------------
(* A string checked by its first bytes.                                    *)
Good(t) == get_char_validated(t, 6) \notin {INVALID, PARTIAL}

(* What a row of two, three or four sets says.                             *)
LEMMA FitsOne ==
  ASSUME NEW u \in Seq(Bytes), NEW A
  PROVE  Fits(u, <<A>>) <=> Len(u) = 1 /\ u[1] \in A
BY DEF Fits

(* A row of two sets.                                                      *)
LEMMA FitsTwo ==
  ASSUME NEW u \in Seq(Bytes), NEW A, NEW B
  PROVE  Fits(u, <<A, B>>) <=> Len(u) = 2 /\ u[1] \in A /\ u[2] \in B
<1>1. DOMAIN u = 1..Len(u)
  OBVIOUS
<1>2. Len(u) = 2 => DOMAIN u = {1, 2}
  BY <1>1
<1> QED BY <1>2 DEF Fits

(* A row of three sets.                                                    *)
LEMMA FitsThree ==
  ASSUME NEW u \in Seq(Bytes), NEW A, NEW B, NEW C
  PROVE  Fits(u, <<A, B, C>>) <=> Len(u) = 3 /\ u[1] \in A /\ u[2] \in B /\ u[3] \in C
<1>1. DOMAIN u = 1..Len(u)
  OBVIOUS
<1>2. Len(u) = 3 => DOMAIN u = {1, 2, 3}
  BY <1>1
<1> QED BY <1>2 DEF Fits

(* A row of four sets.                                                     *)
LEMMA FitsFour ==
  ASSUME NEW u \in Seq(Bytes), NEW A, NEW B, NEW C, NEW D
  PROVE  Fits(u, <<A, B, C, D>>) <=> Len(u) = 4 /\ u[1] \in A /\ u[2] \in B /\ u[3] \in C /\ u[4] \in D
<1>1. DOMAIN u = 1..Len(u)
  OBVIOUS
<1>2. Len(u) = 4 => DOMAIN u = {1, 2, 3, 4}
  BY <1>1
<1> QED BY <1>2 DEF Fits

(* The table row by row.                                                   *)
IsRow(u) ==
  \/ Len(u) = 1 /\ u[1] \in 1..127
  \/ Len(u) = 2 /\ u[1] \in 194..223 /\ u[2] \in Cont
  \/ Len(u) = 3 /\ u[1] \in {224} /\ u[2] \in 160..191 /\ u[3] \in Cont
  \/ Len(u) = 3 /\ u[1] \in 225..236 /\ u[2] \in Cont /\ u[3] \in Cont
  \/ Len(u) = 3 /\ u[1] \in {237} /\ u[2] \in 128..159 /\ u[3] \in Cont
  \/ Len(u) = 3 /\ u[1] \in 238..239 /\ u[2] \in Cont /\ u[3] \in Cont
  \/ Len(u) = 4 /\ u[1] \in {240} /\ u[2] \in 144..191 /\ u[3] \in Cont /\ u[4] \in Cont
  \/ Len(u) = 4 /\ u[1] \in 241..243 /\ u[2] \in Cont /\ u[3] \in Cont /\ u[4] \in Cont
  \/ Len(u) = 4 /\ u[1] \in {244} /\ u[2] \in 128..143 /\ u[3] \in Cont /\ u[4] \in Cont

IsNonchar(u) ==
  \/ Len(u) = 3 /\ u[1] \in {239} /\ u[2] \in {183} /\ u[3] \in 144..175
  \/ Len(u) = 3 /\ u[1] \in {239} /\ u[2] \in {191} /\ u[3] \in 190..191
  \/ Len(u) = 4 /\ u[1] \in 240..244 /\ u[2] \in {143, 159, 175, 191} /\ u[3] \in {191} /\ u[4] \in 190..191

(* The rows of the table, each on its own.                                 *)
LEMMA CharsAre ==
  ASSUME NEW u \in Seq(Bytes)
  PROVE  IsChar(u) <=> IsRow(u) /\ ~IsNonchar(u)
<1>1. (\E row \in WellFormedRows : Fits(u, row)) <=>
           \/ Fits(u, <<1..127>>) \/ Fits(u, <<194..223, Cont>>)
           \/ Fits(u, <<{224}, 160..191, Cont>>) \/ Fits(u, <<225..236, Cont, Cont>>)
           \/ Fits(u, <<{237}, 128..159, Cont>>) \/ Fits(u, <<238..239, Cont, Cont>>)
           \/ Fits(u, <<{240}, 144..191, Cont, Cont>>) \/ Fits(u, <<241..243, Cont, Cont, Cont>>)
           \/ Fits(u, <<{244}, 128..143, Cont, Cont>>)
  BY DEF WellFormedRows
<1>2. (\E row \in NoncharacterRows : Fits(u, row)) <=>
           \/ Fits(u, <<{239}, {183}, 144..175>>) \/ Fits(u, <<{239}, {191}, 190..191>>)
           \/ Fits(u, <<240..244, {143, 159, 175, 191}, {191}, 190..191>>)
  BY DEF NoncharacterRows
<1>3. Fits(u, <<1..127>>) <=> Len(u) = 1 /\ u[1] \in 1..127
  BY FitsOne, ZenonT(60)
<1>4. Fits(u, <<194..223, Cont>>) <=> Len(u) = 2 /\ u[1] \in 194..223 /\ u[2] \in Cont
  BY FitsTwo, SMTT(30)
<1>5. Fits(u, <<{224}, 160..191, Cont>>) <=> Len(u) = 3 /\ u[1] \in {224} /\ u[2] \in 160..191 /\ u[3] \in Cont
  BY FitsThree, SMTT(30)
<1>6. Fits(u, <<225..236, Cont, Cont>>) <=> Len(u) = 3 /\ u[1] \in 225..236 /\ u[2] \in Cont /\ u[3] \in Cont
  BY FitsThree, SMTT(30)
<1>7. Fits(u, <<{237}, 128..159, Cont>>) <=> Len(u) = 3 /\ u[1] \in {237} /\ u[2] \in 128..159 /\ u[3] \in Cont
  BY FitsThree, ZenonT(60)
<1>8. Fits(u, <<238..239, Cont, Cont>>) <=> Len(u) = 3 /\ u[1] \in 238..239 /\ u[2] \in Cont /\ u[3] \in Cont
  BY FitsThree, SMTT(30)
<1>9. Fits(u, <<{240}, 144..191, Cont, Cont>>) <=> Len(u) = 4 /\ u[1] \in {240} /\ u[2] \in 144..191 /\ u[3] \in Cont /\ u[4] \in Cont
  BY FitsFour, SMTT(30)
<1>10. Fits(u, <<241..243, Cont, Cont, Cont>>) <=> Len(u) = 4 /\ u[1] \in 241..243 /\ u[2] \in Cont /\ u[3] \in Cont /\ u[4] \in Cont
  BY FitsFour, SMTT(30)
<1>11. Fits(u, <<{244}, 128..143, Cont, Cont>>) <=> Len(u) = 4 /\ u[1] \in {244} /\ u[2] \in 128..143 /\ u[3] \in Cont /\ u[4] \in Cont
  BY FitsFour, SMTT(30)
<1>12. Fits(u, <<{239}, {183}, 144..175>>) <=> Len(u) = 3 /\ u[1] \in {239} /\ u[2] \in {183} /\ u[3] \in 144..175
  BY FitsThree, SMTT(30)
<1>13. Fits(u, <<{239}, {191}, 190..191>>) <=> Len(u) = 3 /\ u[1] \in {239} /\ u[2] \in {191} /\ u[3] \in 190..191
  BY FitsThree, SMTT(30)
<1>14. Fits(u, <<240..244, {143, 159, 175, 191}, {191}, 190..191>>) <=> Len(u) = 4 /\ u[1] \in 240..244 /\ u[2] \in {143, 159, 175, 191} /\ u[3] \in {191} /\ u[4] \in 190..191
  BY FitsFour, SMTT(30)
<1>15. (\E row \in WellFormedRows : Fits(u, row)) <=> IsRow(u)
  BY <1>1, <1>3, <1>4, <1>5, <1>6, <1>7, <1>8, <1>9, <1>10, <1>11 DEF IsRow
<1>16. (\E row \in NoncharacterRows : Fits(u, row)) <=> IsNonchar(u)
  BY <1>2, <1>12, <1>13, <1>14 DEF IsNonchar
<1> QED BY <1>15, <1>16 DEF IsChar

----------------------------------------------------------------------------
(* The bits of two, three and four bytes, and what is asked of them.       *)
IsByte(b) == b \in 1..255
Bits2(a, b) == (a % 32) * 64 + (b % 64)
Bits3(a, b, d) == ((a % 16) * 64 + (b % 64)) * 64 + (d % 64)
Bits4(a, b, d, e) == (((a % 8) * 64 + (b % 64)) * 64 + (d % 64)) * 64 + (e % 64)
Accepted(c, n) == UTF8_LENGTH(c) = n /\ UNICODE_VALID(c)

InRow3(a, b, d) ==
  /\ \/ a = 224 /\ b \in 160..191
     \/ a \in 225..236
     \/ a = 237 /\ b \in 128..159
     \/ a \in 238..239
  /\ ~(a = 239 /\ b = 183 /\ d \in 144..175)
  /\ ~(a = 239 /\ b = 191 /\ d \in 190..191)

InRow4(a, b, d, e) ==
  /\ \/ a = 240 /\ b \in 144..191
     \/ a \in 241..243
     \/ a = 244 /\ b \in 128..143
  /\ ~(b \in {143, 159, 175, 191} /\ d = 191 /\ e \in 190..191)

(* The characters of one to four bytes that are accepted, in terms of the  *)
(* bytes.                                                                  *)
LEMMA TwoBytes ==
  ASSUME NEW a \in 192..223, NEW b \in 128..191
  PROVE  Accepted(Bits2(a, b), 2) <=> a \in 194..223
<1>1. a % 32 = a - 192 /\ b % 64 = b - 128
  OBVIOUS
<1>2. ASSUME NEW c \in Nat, c = (a - 192) * 64 + (b - 128)
      PROVE  UTF8_LENGTH(c) = 2 /\ UNICODE_VALID(c) <=> a \in 194..223
  BY <1>2, SMT DEF UTF8_LENGTH, UNICODE_VALID
<1>3. (a - 192) * 64 + (b - 128) \in Nat
  OBVIOUS
<1> QED BY <1>1, <1>2, <1>3, SMT DEF Accepted, Bits2

(* Three bytes are accepted for a shortest form that is a valid code point. *)
LEMMA ThreeBytes ==
  ASSUME NEW a \in 224..239, NEW b \in 128..191, NEW d \in 128..191
  PROVE  Accepted(Bits3(a, b, d), 3) <=> InRow3(a, b, d)
<1>1. a % 16 = a - 224 /\ b % 64 = b - 128 /\ d % 64 = d - 128
  OBVIOUS
<1>2. ASSUME NEW c \in Nat, c = ((a - 224) * 64 + (b - 128)) * 64 + (d - 128)
      PROVE  UTF8_LENGTH(c) = 3 /\ UNICODE_VALID(c) <=>
               /\ \/ a = 224 /\ b \in 160..191
                  \/ a \in 225..236
                  \/ a = 237 /\ b \in 128..159
                  \/ a \in 238..239
               /\ ~(a = 239 /\ b = 183 /\ d \in 144..175)
               /\ ~(a = 239 /\ b = 191 /\ d \in 190..191)
  <2>1. c < 65536 /\ c % 65536 = c
    BY <1>2, SMT
  <2>2. UTF8_LENGTH(c) = 3 <=> c >= 2048
    BY <2>1, SMT DEF UTF8_LENGTH
  <2>3. UNICODE_VALID(c) <=> c \notin 55296..57343 /\ c \notin 64976..65007 /\ c < 65534
    BY <2>1, SMT DEF UNICODE_VALID
  <2>4. c >= 2048 <=> ~(a = 224 /\ b < 160)
    BY <1>2, SMT
  <2>5. c \in 55296..57343 <=> a = 237 /\ b >= 160
    <3>1. ASSUME NEW m \in Int, m = (a - 224) * 64 + (b - 128)
          PROVE  c >= 55296 <=> m >= 864
      BY <1>2, <3>1, SMT
    <3>2. ASSUME NEW m \in Int, m = (a - 224) * 64 + (b - 128)
          PROVE  c <= 57343 <=> m <= 895
      BY <1>2, <3>2, SMT
    <3>3. ASSUME NEW m \in Int, m = (a - 224) * 64 + (b - 128)
          PROVE  m >= 864 /\ m <= 895 <=> a = 237 /\ b >= 160
      BY <3>3, SMT
    <3>4. (a - 224) * 64 + (b - 128) \in Int
      OBVIOUS
    <3> QED BY <3>1, <3>2, <3>3, <3>4, SMT
  <2>6. c \in 64976..65007 <=> a = 239 /\ b = 183 /\ d \in 144..175
    BY <1>2, SMT
  <2>7. c < 65534 <=> ~(a = 239 /\ b = 191 /\ d \in 190..191)
    BY <1>2, SMT
  <2> QED BY <2>2, <2>3, <2>4, <2>5, <2>6, <2>7, SMT
<1>3. ((a - 224) * 64 + (b - 128)) * 64 + (d - 128) \in Nat
  OBVIOUS
<1> QED BY <1>1, <1>2, <1>3, SMT DEF Accepted, Bits3, InRow3

(* Four bytes are accepted for a shortest form that is a valid code point. *)
LEMMA FourBytes ==
  ASSUME NEW a \in 240..247, NEW b \in 128..191, NEW d \in 128..191, NEW e \in 128..191
  PROVE  Accepted(Bits4(a, b, d, e), 4) <=> InRow4(a, b, d, e)
<1>1. a % 8 = a - 240 /\ b % 64 = b - 128 /\ d % 64 = d - 128 /\ e % 64 = e - 128
  OBVIOUS
<1>2. ASSUME NEW c \in Nat, c = (((a - 240) * 64 + (b - 128)) * 64 + (d - 128)) * 64 + (e - 128)
      PROVE  UTF8_LENGTH(c) = 4 /\ UNICODE_VALID(c) <=>
               /\ \/ a = 240 /\ b \in 144..191
                  \/ a \in 241..243
                  \/ a = 244 /\ b \in 128..143
               /\ ~(b \in {143, 159, 175, 191} /\ d = 191 /\ e \in 190..191)
  <2>1. c < 2097152
    BY <1>2, SMT
  <2>2. UTF8_LENGTH(c) = 4 <=> c >= 65536
    BY <2>1, SMT DEF UTF8_LENGTH
  <2>3. c >= 65536 => (UNICODE_VALID(c) <=> c < 1114112 /\ c % 65536 < 65534)
    BY SMTT(30) DEF UNICODE_VALID
  <2>4. c >= 65536 <=> ~(a = 240 /\ b < 144)
    BY <1>2, SMT
  <2>5. c < 1114112 <=> a < 244 \/ (a = 244 /\ b < 144)
    BY <1>2, SMT
  <2>6. c % 65536 < 65534 <=> ~(b \in {143, 159, 175, 191} /\ d = 191 /\ e \in 190..191)
    <3>1. PICK q \in 128..191, r \in 0..15 : b = 128 + 16 * (q - 128) + r /\ q \in 128..131
      <4>1. (b - 128) \div 16 \in 0..3 /\ (b - 128) % 16 \in 0..15 /\ b - 128 = 16 * ((b - 128) \div 16) + ((b - 128) % 16)
        BY SMT
      <4>2. 128 + ((b - 128) \div 16) \in 128..191
        BY <4>1, SMT
      <4> QED BY <4>1, <4>2, SMT
    <3>2. c = (((a - 240) * 4 + (q - 128)) * 65536) + ((r * 64 + (d - 128)) * 64 + (e - 128))
      BY <1>2, <3>1, SMT
    <3>3. (r * 64 + (d - 128)) * 64 + (e - 128) \in Nat /\ (r * 64 + (d - 128)) * 64 + (e - 128) < 65536
      BY <3>1, SMT
    <3>4. ASSUME NEW x \in Nat, NEW y \in Nat, y < 65536, c = x * 65536 + y PROVE c % 65536 = y
      BY <3>4, SMT
    <3>5. (a - 240) * 4 + (q - 128) \in Nat
      BY <3>1, SMT
    <3>6. c % 65536 = (r * 64 + (d - 128)) * 64 + (e - 128)
      BY <3>2, <3>3, <3>4, <3>5, SMT
    <3>7. c % 65536 < 65534 <=> ~(r = 15 /\ d = 191 /\ e \in 190..191)
      BY <3>1, <3>6, SMT
    <3>8. r = 15 <=> b \in {143, 159, 175, 191}
      BY <3>1, SMT
    <3> QED BY <3>7, <3>8, SMT
  <2> QED BY <2>2, <2>3, <2>4, <2>5, <2>6, SMT
<1>3. (((a - 240) * 64 + (b - 128)) * 64 + (d - 128)) * 64 + (e - 128) \in Nat
  OBVIOUS
<1> QED BY <1>1, <1>2, <1>3, SMT DEF Accepted, Bits4, InRow4

(* Characters of five and six bytes lie beyond Unicode, or are too long.   *)
LEMMA FiveBytes ==
  ASSUME NEW c \in Nat, UTF8_LENGTH(c) \in 5..6
  PROVE  ~UNICODE_VALID(c)
BY SMT DEF UTF8_LENGTH, UNICODE_VALID

(* What char_len found out.                                                *)
LEMMA CharLenIs ==
  ASSUME NEW t \in Seq(Bytes), t # <<>>
  PROVE  /\ Byte(t, 1) = t[1] /\ t[1] \in 1..255
         /\ t[1] < 128 => char_len(t) = 1
         /\ char_len(t) \in 2..6 => char_len(t) = type(t[1]) /\ \A i \in 2..char_len(t) : Byte(t, i) \in 128..191
         /\ char_len(t) = 1 => ~(type(t[1]) \in 2..6 /\ \A i \in 2..type(t[1]) : Byte(t, i) \in 128..191)
<1>1. 1 \in Nat \ {0} /\ 1 <= Len(t)
  OBVIOUS
<1>2. Byte(t, 1) = t[1] /\ t[1] \in Bytes
  BY <1>1, ByteRange
<1>3. t[1] \in 1..255 /\ t[1] \in 0..255
  BY <1>2, BytesAre
<1> DEFINE n == type(t[1])
           All == \A i \in 2..n : Byte(t, i) \in 128..191
<1>4. char_len(t) = IF n \in 2..6 /\ All THEN n ELSE 1
  BY <1>2 DEF char_len, IsContinuation
<1>5. t[1] < 128 => n = 1
  BY <1>3, TypeCases
<1> HIDE DEF n
<1>6. n \in 2..6 => n # 1
  OBVIOUS
<1>7. t[1] < 128 => char_len(t) = 1
  BY <1>4, <1>5, <1>6
<1>8. char_len(t) \in 2..6 => char_len(t) = n /\ All
  <2>1. 1 \notin 2..6
    OBVIOUS
  <2> HIDE DEF All
  <2> QED BY <1>4, <2>1
<1>9. char_len(t) = 1 => ~(n \in 2..6 /\ All)
  <2> HIDE DEF All
  <2> QED BY <1>4, <1>6
<1> QED BY <1>2, <1>3, <1>7, <1>8, <1>9 DEF n

(* The announced length tells the range of the first byte.                 *)
LEMMA TypeTells ==
  ASSUME NEW b \in 1..255
  PROVE  type(b) \in {-1, 0, 1, 2, 3, 4, 5, 6} /\ (type(b) = 1 <=> b < 128)
<1> DEFINE n == type(b)
<1>1. /\ b < 128 => n = 1
      /\ b \in 128..191 => n = 0
      /\ b \in 192..223 => n = 2
      /\ b \in 224..239 => n = 3
      /\ b \in 240..247 => n = 4
      /\ b \in 248..251 => n = 5
      /\ b \in 252..253 => n = 6
      /\ b \in 254..255 => n = -1
  <2>1. b \in 0..255
    OBVIOUS
  <2> QED BY <2>1, TypeCases
<1> HIDE DEF n
<1>2. n \in {-1, 0, 1, 2, 3, 4, 5, 6} /\ (n = 1 <=> b < 128)
  BY <1>1
<1> QED BY <1>2 DEF n

(* A good character, by the length its first byte announces.               *)
LEMMA GoodMeans ==
  ASSUME NEW t \in Seq(Bytes), t # <<>>
  PROVE  Good(t) <=> \/ t[1] < 128
                     \/ /\ char_len(t) \in 2..6
                        /\ UTF8_LENGTH(Bits(t, char_len(t))) = char_len(t) /\ UNICODE_VALID(Bits(t, char_len(t)))
<1> DEFINE a == t[1]
           n == type(a)
           x == get_char_extended(t, 6)
<1>1. Byte(t, 1) = a /\ a \in 1..255 /\ a \in 0..255
  BY CharLenIs
<1>2. n \in {-1, 0, 1, 2, 3, 4, 5, 6} /\ (n = 1 <=> a < 128)
  BY <1>1, TypeTells
<1>10. a \in Nat /\ a # -1 /\ a # -2
  <2> HIDE DEF a
  <2> QED BY <1>1
<1>11. char_len(t) \in 2..6 => char_len(t) = n
  BY CharLenIs
<1>3. Good(t) <=> x \notin {-1, -2} /\ (x >= 0 => UNICODE_VALID(x))
  <2>1. get_char_validated(t, 6) = IF x >= 0 /\ ~UNICODE_VALID(x) THEN -1 ELSE x
    BY DEF get_char_validated, INVALID
  <2> HIDE DEF x
  <2> QED BY <2>1, SMT DEF Good, INVALID, PARTIAL
<1> HIDE DEF n
<1>4. x = IF n <= 0 THEN INVALID
          ELSE IF n = 1 THEN a
          ELSE IF 6 >= 0 /\ n > 6 THEN (IF \E i \in BadBytes(t, n) : i <= 6 THEN INVALID ELSE PARTIAL)
          ELSE IF BadBytes(t, n) # {} THEN (IF IsCut(t, BadBytes(t, n)) THEN PARTIAL ELSE INVALID)
          ELSE IF Shortest(Bits(t, n), n) THEN Bits(t, n) ELSE INVALID
  BY <1>1 DEF get_char_extended, n
<1> HIDE DEF x
<1>5. CASE a < 128
  <2>1. n = 1
    BY <1>2, <1>5
  <2>2. x = a
    BY <1>4, <2>1, SMT
  <2>3. UNICODE_VALID(a)
    <3>1. a \in Nat /\ a < 128
      BY <1>5, <1>10
    <3> HIDE DEF a
    <3> QED BY <3>1, SMTT(30) DEF UNICODE_VALID
  <2>4. a \notin {-1, -2}
    BY <1>10
  <2> QED BY <1>3, <1>5, <2>2, <2>3, <2>4
<1>6. CASE n <= 0
  <2>1. x = -1
    BY <1>4, <1>6 DEF INVALID
  <2>2. ~(a < 128)
    <3> HIDE DEF a
    <3> QED BY <1>2, <1>6
  <2>3. ~(char_len(t) \in 2..6)
    <3> HIDE DEF a
    <3> QED BY <1>2, <1>6, <1>11
  <2> QED BY <1>3, <2>1, <2>2, <2>3
<1>7. CASE n \in 2..6 /\ BadBytes(t, n) # {}
  <2>1. x \in {-1, -2}
    BY <1>4, <1>7, SMT DEF INVALID, PARTIAL
  <2>2. ~(a < 128)
    <3> HIDE DEF a
    <3> QED BY <1>2, <1>7
  <2>3. ~(char_len(t) \in 2..6)
    BY <1>7, CharLenIs DEF BadBytes, IsContinuation, n
  <2> QED BY <1>3, <2>1, <2>2, <2>3
<1>8. CASE n \in 2..6 /\ BadBytes(t, n) = {}
  <2>1. x = IF Shortest(Bits(t, n), n) THEN Bits(t, n) ELSE -1
    BY <1>4, <1>8, SMT DEF INVALID
  <2>2. ~(a < 128)
    <3> HIDE DEF a
    <3> QED BY <1>2, <1>8
  <2>3. char_len(t) = n
    BY <1>1, <1>8 DEF BadBytes, char_len, n
  <2>4. Bits(t, n) \in Nat
    <3>1. n \in 1..6 /\ n \in Nat
      BY <1>8, SMT
    <3>2. PICK f : IsBits(f, t, n) /\ Bits(t, n) = f[n]
      BY <3>1, BitsInSteps
    <3> QED BY <3>1, <3>2 DEF IsBits
  <2>5. Good(t) <=> UTF8_LENGTH(Bits(t, n)) = n /\ UNICODE_VALID(Bits(t, n))
    <3> DEFINE c == Bits(t, n)
    <3>1. c \notin {-1, -2} /\ c >= 0
      <4>1. c \in Nat
        BY <2>4
      <4> HIDE DEF c
      <4> QED BY <4>1, SMT
    <3>2. x = IF UTF8_LENGTH(c) = n THEN c ELSE -1
      BY <2>1 DEF Shortest
    <3> HIDE DEF c
    <3>3. Good(t) <=> UTF8_LENGTH(c) = n /\ UNICODE_VALID(c)
      BY <1>3, <3>1, <3>2
    <3> QED BY <3>3 DEF c
  <2> HIDE DEF a
  <2> QED BY <1>8, <2>2, <2>3, <2>5 DEF a
<1>9. n <= 0 \/ n = 1 \/ n \in 2..6
  <2> HIDE DEF a
  <2> QED BY <1>2
<1> HIDE DEF a
<1> QED BY <1>2, <1>5, <1>6, <1>7, <1>8, <1>9

(* The range of the first byte for each length.                            *)
LEMMA TypeIs ==
  ASSUME NEW b \in 1..255
  PROVE  /\ type(b) = 2 <=> b \in 192..223
         /\ type(b) = 3 <=> b \in 224..239
         /\ type(b) = 4 <=> b \in 240..247
<1> DEFINE n == type(b)
<1>1. /\ b < 128 => n = 1
      /\ b \in 128..191 => n = 0
      /\ b \in 192..223 => n = 2
      /\ b \in 224..239 => n = 3
      /\ b \in 240..247 => n = 4
      /\ b \in 248..251 => n = 5
      /\ b \in 252..253 => n = 6
      /\ b \in 254..255 => n = -1
  <2>1. b \in 0..255
    OBVIOUS
  <2> QED BY <2>1, TypeCases
<1> HIDE DEF n
<1>2. n = 2 <=> b \in 192..223
  BY <1>1
<1>3. n = 3 <=> b \in 224..239
  BY <1>1
<1>4. n = 4 <=> b \in 240..247
  BY <1>1
<1> QED BY <1>2, <1>3, <1>4 DEF n

(* When a character has more than one byte.                                *)
LEMMA CharLenIff ==
  ASSUME NEW t \in Seq(Bytes), t # <<>>, NEW k \in 2..6
  PROVE  char_len(t) = k <=> type(t[1]) = k /\ \A i \in 2..k : Byte(t, i) \in 128..191
<1> DEFINE n == type(t[1])
           All(j) == \A i \in 2..j : Byte(t, i) \in 128..191
<1>1. char_len(t) = IF n \in 2..6 /\ All(n) THEN n ELSE 1
  <2>1. Byte(t, 1) = t[1]
    BY CharLenIs
  <2> QED BY <2>1 DEF char_len, IsContinuation
<1> HIDE DEF n, All
<1>2. k # 1
  OBVIOUS
<1>3. char_len(t) = k <=> n = k /\ All(k)
  BY <1>1, <1>2
<1> QED BY <1>3 DEF n, All

----------------------------------------------------------------------------
(* The rows of the table by the length of the character, on its bytes.     *)

Row1(a) == a \in 1..127
Row2(a, b) == a \in 194..223 /\ b \in Cont
Row3(a, b, d) ==
  /\ \/ a = 224 /\ b \in 160..191 /\ d \in Cont
     \/ a \in 225..236 /\ b \in Cont /\ d \in Cont
     \/ a = 237 /\ b \in 128..159 /\ d \in Cont
     \/ a \in 238..239 /\ b \in Cont /\ d \in Cont
  /\ ~(a = 239 /\ b = 183 /\ d \in 144..175)
  /\ ~(a = 239 /\ b = 191 /\ d \in 190..191)
Row4(a, b, d, e) ==
  /\ \/ a = 240 /\ b \in 144..191 /\ d \in Cont /\ e \in Cont
     \/ a \in 241..243 /\ b \in Cont /\ d \in Cont /\ e \in Cont
     \/ a = 244 /\ b \in 128..143 /\ d \in Cont /\ e \in Cont
  /\ ~(a \in 240..244 /\ b \in {143, 159, 175, 191} /\ d = 191 /\ e \in 190..191)

(* The rows of one to four bytes.                                          *)
LEMMA RowsByLength ==
  ASSUME NEW u
  PROVE  /\ Len(u) = 1 => (IsRow(u) /\ ~IsNonchar(u) <=> Row1(u[1]))
         /\ Len(u) = 2 => (IsRow(u) /\ ~IsNonchar(u) <=> Row2(u[1], u[2]))
         /\ Len(u) = 3 => (IsRow(u) /\ ~IsNonchar(u) <=> Row3(u[1], u[2], u[3]))
         /\ Len(u) = 4 => (IsRow(u) /\ ~IsNonchar(u) <=> Row4(u[1], u[2], u[3], u[4]))
         /\ IsRow(u) => Len(u) \in 1..4
<1>1. ASSUME Len(u) = 1 PROVE IsRow(u) /\ ~IsNonchar(u) <=> Row1(u[1])
  BY <1>1 DEF IsRow, IsNonchar, Row1
<1>2. ASSUME Len(u) = 2 PROVE IsRow(u) /\ ~IsNonchar(u) <=> Row2(u[1], u[2])
  BY <1>2 DEF IsRow, IsNonchar, Row2
<1>3. ASSUME Len(u) = 3 PROVE IsRow(u) /\ ~IsNonchar(u) <=> Row3(u[1], u[2], u[3])
  <2>1. 3 # 1 /\ 3 # 2 /\ 3 # 4
    OBVIOUS
  <2> QED BY <1>3, <2>1 DEF IsRow, IsNonchar, Row3
<1>4. ASSUME Len(u) = 4 PROVE IsRow(u) /\ ~IsNonchar(u) <=> Row4(u[1], u[2], u[3], u[4])
  <2>1. 4 # 1 /\ 4 # 2 /\ 4 # 3
    OBVIOUS
  <2> QED BY <1>4, <2>1 DEF IsRow, IsNonchar, Row4
<1>5. IsRow(u) => Len(u) \in 1..4
  <2>1. IsRow(u) => Len(u) = 1 \/ Len(u) = 2 \/ Len(u) = 3 \/ Len(u) = 4
    BY DEF IsRow
  <2>2. 1 \in 1..4 /\ 2 \in 1..4 /\ 3 \in 1..4 /\ 4 \in 1..4
    OBVIOUS
  <2> QED BY <2>1, <2>2
<1> QED BY <1>1, <1>2, <1>3, <1>4, <1>5

(* Good characters of one byte.                                            *)
LEMMA OneMeans ==
  ASSUME NEW a, IsByte(a)
  PROVE  Row1(a) <=> a < 128
BY DEF IsByte, Row1

(* Good characters of two bytes.                                           *)
LEMMA TwoMeans ==
  ASSUME NEW a, NEW b, IsByte(a), IsByte(b)
  PROVE  Row2(a, b) <=> type(a) = 2 /\ IsContinuation(b) /\ Accepted(Bits2(a, b), 2)
<1>1. a \in 1..255 /\ b \in 1..255
  BY DEF IsByte
<1>2. type(a) = 2 <=> a \in 192..223
  BY <1>1, TypeIs
<1>3. ASSUME a \in 192..223, b \in 128..191
      PROVE  Accepted(Bits2(a, b), 2) <=> a \in 194..223
  BY <1>3, TwoBytes, ZenonT(60)
<1> HIDE DEF Accepted, Bits2, type
<1>4. Row2(a, b) <=> a \in 194..223 /\ b \in 128..191
  BY DEF Row2, Cont
<1>5. IsContinuation(b) <=> b \in 128..191
  BY DEF IsContinuation
<1>6. a \in 194..223 => a \in 192..223
  BY <1>1
<1> QED BY <1>2, <1>3, <1>4, <1>5, <1>6

(* Good characters of three bytes.                                         *)
LEMMA ThreeMeans ==
  ASSUME NEW a, NEW b, NEW d, IsByte(a), IsByte(b), IsByte(d)
  PROVE  Row3(a, b, d) <=> type(a) = 3 /\ IsContinuation(b) /\ IsContinuation(d) /\ Accepted(Bits3(a, b, d), 3)
<1>1. a \in 1..255 /\ b \in 1..255 /\ d \in 1..255
  BY DEF IsByte
<1>2. type(a) = 3 <=> a \in 224..239
  BY <1>1, TypeIs
<1>3. ASSUME a \in 224..239, b \in 128..191, d \in 128..191
      PROVE  Accepted(Bits3(a, b, d), 3) <=> InRow3(a, b, d)
  BY <1>3, ThreeBytes, ZenonT(60)
<1>4. Row3(a, b, d) <=> a \in 224..239 /\ b \in 128..191 /\ d \in 128..191 /\ InRow3(a, b, d)
  BY <1>1, SMT DEF Row3, InRow3, Cont
<1> QED BY <1>2, <1>3, <1>4 DEF IsContinuation

(* Good characters of four bytes.                                          *)
LEMMA FourMeans ==
  ASSUME NEW a, NEW b, NEW d, NEW e, IsByte(a), IsByte(b), IsByte(d), IsByte(e)
  PROVE  Row4(a, b, d, e) <=>
           /\ type(a) = 4 /\ IsContinuation(b) /\ IsContinuation(d) /\ IsContinuation(e)
           /\ Accepted(Bits4(a, b, d, e), 4)
<1>1. a \in 1..255 /\ b \in 1..255 /\ d \in 1..255 /\ e \in 1..255
  BY DEF IsByte
<1>2. type(a) = 4 <=> a \in 240..247
  BY <1>1, TypeIs
<1>3. ASSUME a \in 240..247, b \in 128..191, d \in 128..191, e \in 128..191
      PROVE  Accepted(Bits4(a, b, d, e), 4) <=> InRow4(a, b, d, e)
  BY <1>3, FourBytes, ZenonT(60)
<1>4. Row4(a, b, d, e) <=> a \in 240..247 /\ b \in 128..191 /\ d \in 128..191 /\ e \in 128..191 /\ InRow4(a, b, d, e)
  BY <1>1, SMT DEF Row4, InRow4, Cont
<1> QED BY <1>2, <1>3, <1>4 DEF IsContinuation

(* Characters of five and six bytes are never accepted.                    *)
LEMMA LongMeans ==
  ASSUME NEW s \in Seq(Bytes), NEW n \in 5..6
  PROVE  ~Accepted(Bits(s, n), n)
<1>1. n \in 1..6
  OBVIOUS
<1>2. PICK f : IsBits(f, s, n) /\ Bits(s, n) = f[n]
  BY <1>1, BitsInSteps
<1>3. n \in 0..n
  OBVIOUS
<1>4. Bits(s, n) \in Nat
  BY <1>2, <1>3 DEF IsBits
<1> QED BY <1>4, FiveBytes DEF Accepted

(* The first m bytes are a character exactly when a good one of m bytes    *)
(* begins here.                                                            *)
LEMMA CharIsGood ==
  ASSUME NEW t \in Seq(Bytes), NEW m \in 1..Len(t)
  PROVE  IsChar(SubSeq(t, 1, m)) <=> Good(t) /\ char_len(t) = m
<1> DEFINE u == SubSeq(t, 1, m)
           Starts == t[1] < 128
<1>1. t # <<>> /\ Len(t) \in Nat /\ m \in Nat /\ m >= 1 /\ m <= Len(t) /\ 1 \in 1..m
  OBVIOUS
<1>2. u \in Seq(Bytes) /\ Len(u) = m /\ \A j \in 1..m : u[j] = t[j]
  <2>1. m \in 0..Len(t)
    BY <1>1
  <2> QED BY <2>1, PrefixReads
<1>3. \A i \in 1..m : Byte(t, i) = t[i] /\ IsByte(t[i])
  <2> SUFFICES ASSUME NEW i \in 1..m PROVE Byte(t, i) = t[i] /\ IsByte(t[i])
    OBVIOUS
  <2>1. i \in Nat \ {0} /\ i <= Len(t) /\ i \in 1..Len(t)
    BY <1>1
  <2>2. Byte(t, i) = t[i] /\ t[i] \in Bytes
    BY <2>1, ByteRange
  <2> QED BY <2>2, BytesAre DEF IsByte
<1> HIDE DEF u
<1>4. IsChar(u) <=> IsRow(u) /\ ~IsNonchar(u)
  BY <1>2, CharsAre
<1>5. Starts => Good(t) /\ char_len(t) = 1
  BY <1>1, GoodMeans, CharLenIs
<1>6. Good(t) => Starts \/ char_len(t) \in 2..6
  BY <1>1, GoodMeans
<1>7. m \in 2..6 /\ char_len(t) = m => (Good(t) <=> Starts \/ Accepted(Bits(t, m), m))
  BY <1>1, GoodMeans DEF Accepted
<1>8. m \in 2..6 => (char_len(t) = m <=> type(t[1]) = m /\ \A i \in 2..m : IsContinuation(Byte(t, i)))
  BY <1>1, CharLenIff DEF IsContinuation
<1>9. m \in 2..6 => m # 1
  OBVIOUS
<1>10. Row1(t[1]) <=> Starts
  BY <1>1, <1>3, OneMeans
<1> HIDE DEF Starts
<1>11. m \in 2..6 => (Good(t) /\ char_len(t) = m <=> char_len(t) = m /\ Accepted(Bits(t, m), m))
  BY <1>5, <1>7, <1>9
<1>12. CASE m = 1
  <2>1. IsChar(u) <=> Row1(t[1])
    BY <1>1, <1>2, <1>4, <1>12, RowsByLength
  <2>2. 1 \notin 2..6
    OBVIOUS
  <2> QED BY <1>5, <1>6, <1>10, <1>12, <2>1, <2>2 DEF u
<1>13. CASE m = 2
  <2>1. 2 \in 1..m /\ m \in 2..6 /\ \A i : i \in 2..m <=> i = 2
    BY <1>13
  <2>2. IsChar(u) <=> Row2(t[1], t[2])
    BY <1>1, <1>2, <1>4, <1>13, <2>1, RowsByLength
  <2>3. char_len(t) = m <=> type(t[1]) = 2 /\ IsContinuation(t[2])
    BY <1>3, <1>8, <1>13, <2>1
  <2>4. Bits(t, m) = Bits2(t[1], t[2])
    BY <1>1, <1>3, <1>13, <2>1, BitsAre DEF Bits2
  <2>5. Row2(t[1], t[2]) <=> type(t[1]) = 2 /\ IsContinuation(t[2]) /\ Accepted(Bits2(t[1], t[2]), 2)
    BY <1>1, <1>3, <2>1, TwoMeans
  <2> QED BY <1>11, <1>13, <2>1, <2>2, <2>3, <2>4, <2>5 DEF u
<1>14. CASE m = 3
  <2>1. 2 \in 1..m /\ 3 \in 1..m /\ m \in 2..6 /\ \A i : i \in 2..m <=> i = 2 \/ i = 3
    BY <1>14
  <2>2. IsChar(u) <=> Row3(t[1], t[2], t[3])
    BY <1>1, <1>2, <1>4, <1>14, <2>1, RowsByLength
  <2>3. char_len(t) = m <=> type(t[1]) = 3 /\ IsContinuation(t[2]) /\ IsContinuation(t[3])
    BY <1>3, <1>8, <1>14, <2>1
  <2>4. Bits(t, m) = Bits3(t[1], t[2], t[3])
    BY <1>1, <1>3, <1>14, <2>1, BitsAre DEF Bits3
  <2>5. Row3(t[1], t[2], t[3]) <=>
          type(t[1]) = 3 /\ IsContinuation(t[2]) /\ IsContinuation(t[3]) /\ Accepted(Bits3(t[1], t[2], t[3]), 3)
    BY <1>1, <1>3, <2>1, ThreeMeans
  <2> QED BY <1>11, <1>14, <2>1, <2>2, <2>3, <2>4, <2>5 DEF u
<1>15. CASE m = 4
  <2>1. 2 \in 1..m /\ 3 \in 1..m /\ 4 \in 1..m /\ m \in 2..6 /\ \A i : i \in 2..m <=> i = 2 \/ i = 3 \/ i = 4
    BY <1>15
  <2>2. IsChar(u) <=> Row4(t[1], t[2], t[3], t[4])
    BY <1>1, <1>2, <1>4, <1>15, <2>1, RowsByLength
  <2>3. char_len(t) = m <=> type(t[1]) = 4 /\ IsContinuation(t[2]) /\ IsContinuation(t[3]) /\ IsContinuation(t[4])
    BY <1>3, <1>8, <1>15, <2>1
  <2>4. Bits(t, m) = Bits4(t[1], t[2], t[3], t[4])
    BY <1>1, <1>3, <1>15, <2>1, BitsAre DEF Bits4
  <2>5. Row4(t[1], t[2], t[3], t[4]) <=>
          /\ type(t[1]) = 4 /\ IsContinuation(t[2]) /\ IsContinuation(t[3]) /\ IsContinuation(t[4])
          /\ Accepted(Bits4(t[1], t[2], t[3], t[4]), 4)
    BY <1>1, <1>3, <2>1, FourMeans
  <2> QED BY <1>11, <1>15, <2>1, <2>2, <2>3, <2>4, <2>5 DEF u
<1>16. m > 4 => ~IsChar(u)
  <2>1. m > 4 => m \notin 1..4
    OBVIOUS
  <2> QED BY <1>2, <1>4, <2>1, RowsByLength
<1>17. CASE m \in 5..6
  <2>1. m \in 2..6 /\ m > 4
    BY <1>17
  <2>2. ~Accepted(Bits(t, m), m)
    BY <1>17, LongMeans
  <2> QED BY <1>11, <1>16, <2>1, <2>2 DEF u
<1>18. CASE m > 6
  <2>1. m > 4
    BY <1>1, <1>18
  <2>2. char_len(t) # m
    BY <1>1, <1>18, CharLenRange
  <2> QED BY <1>16, <2>1, <2>2 DEF u
<1> QED BY <1>1, <1>12, <1>13, <1>14, <1>15, <1>17, <1>18

----------------------------------------------------------------------------
(* Walking through a string.                                               *)
(* A set of naturals with a bound has a greatest element.                  *)
LEMMA GreatestElement ==
  ASSUME NEW N \in Nat, NEW T, T \subseteq 0..N, T # {}
  PROVE  \E x \in T : \A y \in T : y <= x
<1> DEFINE U == {n \in Nat : \E y \in T : n = N - y}
<1>1. U \subseteq Nat /\ U # {}
  <2>1. PICK y \in T : TRUE
    OBVIOUS
  <2>2. N - y \in U
    BY <2>1
  <2> QED BY <2>2
<1>2. PICK n \in U : \A m \in U : n <= m
  <2> HIDE DEF U
  <2> QED BY <1>1, LeastElement
<1>3. PICK x \in T : n = N - x
  BY <1>2
<1>4. ASSUME NEW y \in T PROVE y <= x
  <2>1. N - y \in U
    OBVIOUS
  <2>2. N - x <= N - y
    BY <1>2, <1>3, <2>1
  <2> QED BY <2>2
<1> QED BY <1>4

(* A step stays in the string and gets on until its end.                   *)
LEMMA NextIs ==
  ASSUME NEW s \in Seq(Bytes), NEW i \in 0..Len(s)
  PROVE  /\ NextChar(s, i) \in 0..Len(s)
         /\ i < Len(s) => NextChar(s, i) = i + char_len(After(s, i)) /\ i < NextChar(s, i)
         /\ i = Len(s) => NextChar(s, i) = i
<1>1. CASE i < Len(s)
  <2> DEFINE t == After(s, i)
  <2>1. t \in Seq(Bytes) /\ Len(t) = Len(s) - i
    BY AfterReads
  <2> HIDE DEF t
  <2>2. t # <<>>
    BY <1>1, <2>1
  <2>3. char_len(t) \in 1..6 /\ char_len(t) <= Len(s) - i
    BY <2>1, <2>2, CharLenRange
  <2>4. NextChar(s, i) = i + char_len(t)
    BY <1>1 DEF NextChar, t
  <2>5. ASSUME NEW n, n = char_len(t) PROVE i + n \in 0..Len(s) /\ i < i + n
    BY <2>3, <2>5, SMTT(30)
  <2> QED BY <1>1, <2>4, <2>5 DEF t
<1>2. CASE i = Len(s)
  BY <1>2 DEF NextChar
<1> QED BY <1>1, <1>2

(* The places a walk of N steps comes to.                                  *)
LEMMA WalkExists ==
  ASSUME NEW s \in Seq(Bytes), NEW N \in Nat
  PROVE  \E f \in [0..N -> 0..Len(s)] :
           /\ f[0] = 0 /\ \A k \in 1..N : f[k] = NextChar(s, f[k - 1])
           /\ \A n \in 0..N : Offset(s, n) = f[n]
<1> DEFINE V == 0..Len(s)
           step == [x \in V \X (1..N) |-> NextChar(s, x[1])]
           Is(g, n) == g = [k \in 0..n |-> IF k = 0 THEN 0 ELSE NextChar(s, g[k - 1])]
<1>1. \A x \in V : NextChar(s, x) \in V
  BY NextIs
<1>2. step \in [V \X (1..N) -> V] /\ \A x \in V, n \in 1..N : step[<<x, n>>] = NextChar(s, x)
  BY <1>1
<1>3. 0 \in V
  OBVIOUS
<1> HIDE DEF step, V
<1>4. PICK f : IsSteps(f, N, V, 0, step)
  BY <1>2, <1>3, StepsExist
<1>5. f \in [0..N -> V] /\ f[0] = 0 /\ \A k \in 1..N : f[k] = NextChar(s, f[k - 1])
  <2> SUFFICES ASSUME NEW k \in 1..N PROVE f[k] = NextChar(s, f[k - 1])
    BY <1>4 DEF IsSteps
  <2>1. k - 1 \in 0..N
    OBVIOUS
  <2> QED BY <1>2, <1>4, <2>1 DEF IsSteps
<1>6. ASSUME NEW n \in 0..N PROVE Offset(s, n) = f[n]
  <2> DEFINE h == [k \in 0..n |-> f[k]]
             F == CHOOSE g : Is(g, n)
             T == {k \in 0..n : F[k] = f[k]}
  <2>1. Is(h, n)
    <3>1. ASSUME NEW k \in 0..n PROVE h[k] = IF k = 0 THEN 0 ELSE NextChar(s, h[k - 1])
      <4>1. k \in 0..N /\ (k # 0 => k \in 1..N /\ k - 1 \in 0..n)
        OBVIOUS
      <4> QED BY <1>5, <4>1
    <3> QED BY <3>1
  <2>2. Offset(s, n) = F[n]
    BY DEF Offset
  <2>3. Is(F, n)
    <3> HIDE DEF Is, h
    <3> QED BY <2>1
  <2> HIDE DEF F
  <2>4. 0 \in T
    BY <1>5, <2>3
  <2>5. ASSUME NEW k \in 0..(n - 1), k \in T PROVE k + 1 \in T
    <3>1. k + 1 \in 0..n /\ k + 1 \in 1..N /\ k + 1 # 0 /\ (k + 1) - 1 = k
      OBVIOUS
    <3>2. F[k + 1] = NextChar(s, F[k])
      BY <2>3, <3>1
    <3> QED BY <1>5, <2>5, <3>1, <3>2
  <2>6. n \in T
    <3>1. n \in Nat /\ n \in 0..n
      OBVIOUS
    <3> HIDE DEF T
    <3> QED BY <2>4, <2>5, <3>1, CountingUp
  <2> QED BY <2>2, <2>6
<1> QED BY <1>5, <1>6 DEF V

(* Offset is the walk, step by step.                                       *)
LEMMA OffsetIs ==
  ASSUME NEW s \in Seq(Bytes)
  PROVE  /\ Offset(s, 0) = 0
         /\ \A n \in Nat : /\ Offset(s, n) \in 0..Len(s)
                           /\ Offset(s, n + 1) = NextChar(s, Offset(s, n))
<1>1. ASSUME NEW n \in Nat
      PROVE  Offset(s, 0) = 0 /\ Offset(s, n) \in 0..Len(s) /\ Offset(s, n + 1) = NextChar(s, Offset(s, n))
  <2>1. n + 1 \in Nat /\ 0 \in 0..(n + 1) /\ n \in 0..(n + 1) /\ n + 1 \in 0..(n + 1) /\ n + 1 \in 1..(n + 1) /\ (n + 1) - 1 = n
    OBVIOUS
  <2>2. PICK f \in [0..(n + 1) -> 0..Len(s)] :
           /\ f[0] = 0 /\ \A k \in 1..(n + 1) : f[k] = NextChar(s, f[k - 1])
           /\ \A m \in 0..(n + 1) : Offset(s, m) = f[m]
    BY <2>1, WalkExists
  <2>3. f[n] \in 0..Len(s) /\ f[n + 1] = NextChar(s, f[n])
    BY <2>1, <2>2
  <2> QED BY <2>1, <2>2, <2>3
<1>2. 0 \in Nat
  OBVIOUS
<1> QED BY <1>1, <1>2

(* What holds at the start and from each character to the next holds at    *)
(* every step.                                                             *)
LEMMA WalkStays ==
  ASSUME NEW s \in Seq(Bytes), NEW P, 0 \in P,
         \A i \in 0..Len(s) : i \in P /\ i < Len(s) => NextChar(s, i) \in P
  PROVE  \A n \in Nat : Offset(s, n) \in P
<1> SUFFICES ASSUME NEW n \in Nat PROVE Offset(s, n) \in P
  OBVIOUS
<1> DEFINE T == {k \in 0..n : Offset(s, k) \in P}
<1>1. 0 \in T
  BY OffsetIs
<1>2. ASSUME NEW k \in 0..(n - 1), k \in T PROVE k + 1 \in T
  <2>1. k \in Nat /\ k + 1 \in 0..n /\ Offset(s, k) \in P
    BY <1>2
  <2>2. Offset(s, k) \in 0..Len(s) /\ Offset(s, k + 1) = NextChar(s, Offset(s, k))
    BY <2>1, OffsetIs
  <2>3. CASE Offset(s, k) < Len(s)
    BY <2>1, <2>2, <2>3
  <2>4. CASE Offset(s, k) = Len(s)
    <3>1. NextChar(s, Offset(s, k)) = Offset(s, k)
      BY <2>2, <2>4, NextIs
    <3> QED BY <2>1, <2>2, <3>1
  <2> QED BY <2>2, <2>3, <2>4
<1>3. \A k \in 0..n : k \in T
  <2> HIDE DEF T
  <2> QED BY <1>1, <1>2, CountingUp
<1> QED BY <1>3

(* n steps lead at least n bytes on, or to the end.                        *)
LEMMA WalkGrows ==
  ASSUME NEW s \in Seq(Bytes), NEW n \in Nat
  PROVE  Offset(s, n) = Len(s) \/ Offset(s, n) >= n
<1> DEFINE T == {k \in 0..n : Offset(s, k) = Len(s) \/ Offset(s, k) >= k}
<1>1. 0 \in T
  BY OffsetIs
<1>2. ASSUME NEW k \in 0..(n - 1), k \in T PROVE k + 1 \in T
  <2>1. k \in Nat /\ k + 1 \in 0..n
    OBVIOUS
  <2>2. Offset(s, k) \in 0..Len(s) /\ Offset(s, k + 1) = NextChar(s, Offset(s, k))
    BY <2>1, OffsetIs
  <2>3. CASE Offset(s, k) = Len(s)
    BY <2>1, <2>2, <2>3, NextIs
  <2>4. CASE Offset(s, k) < Len(s)
    <3>1. Offset(s, k) >= k
      BY <1>2, <2>2, <2>4
    <3>2. Offset(s, k + 1) \in 0..Len(s) /\ Offset(s, k) < Offset(s, k + 1)
      BY <2>2, <2>4, NextIs
    <3> QED BY <2>1, <2>2, <3>1, <3>2
  <2> QED BY <2>2, <2>3, <2>4
<1>3. \A k \in 0..n : k \in T
  <2> HIDE DEF T
  <2> QED BY <1>1, <1>2, CountingUp
<1> QED BY <1>3

(* The walk reaches the terminator after strlen steps and stays there.     *)
LEMMA StrlenIs ==
  ASSUME NEW s \in Seq(Bytes)
  PROVE  /\ strlen(s) \in 0..Len(s) /\ Offset(s, strlen(s)) = Len(s)
         /\ \A m \in 0..(strlen(s) - 1) : Offset(s, m) < Len(s)
<1> DEFINE T == {n \in Nat : Offset(s, n) = Len(s)}
           Is(n) == Offset(s, n) = Len(s) /\ \A m \in 0..(n - 1) : Offset(s, m) < Len(s)
<1>1. Len(s) \in Nat
  OBVIOUS
<1>2. Len(s) \in T
  <2>1. Offset(s, Len(s)) \in 0..Len(s)
    BY <1>1, OffsetIs
  <2> QED BY <1>1, <2>1, WalkGrows
<1>3. PICK n \in T : \A m \in T : n <= m
  <2>1. T \subseteq Nat /\ T # {}
    BY <1>2
  <2> HIDE DEF T
  <2> QED BY <2>1, LeastElement
<1>4. n \in 0..Len(s)
  BY <1>1, <1>2, <1>3
<1>5. Is(n)
  <2> SUFFICES ASSUME NEW m \in 0..(n - 1) PROVE Offset(s, m) < Len(s)
    BY <1>3
  <2>1. m \in Nat /\ m < n
    BY <1>4
  <2>2. m \notin T
    <3> HIDE DEF T
    <3>1. m \in T => n <= m
      BY <1>3
    <3> QED BY <1>4, <2>1, <3>1
  <2>3. Offset(s, m) \in 0..Len(s)
    BY <2>1, OffsetIs
  <2> QED BY <2>1, <2>2, <2>3
<1>6. strlen(s) = CHOOSE k \in 0..Len(s) : Is(k)
  BY DEF strlen
<1>7. strlen(s) \in 0..Len(s) /\ Is(strlen(s))
  <2> HIDE DEF Is
  <2> QED BY <1>4, <1>5, <1>6
<1> QED BY <1>7

(* More steps never lead back.                                             *)
LEMMA WalkOrder ==
  ASSUME NEW s \in Seq(Bytes), NEW m \in 0..strlen(s), NEW n \in 0..strlen(s), m < n
  PROVE  Offset(s, m) < Offset(s, n)
<1> DEFINE N == strlen(s)
           T == {k \in 0..N : \A j \in 0..(k - 1) : Offset(s, j) < Offset(s, k)}
<1>1. N \in Nat
  BY StrlenIs
<1>2. 0 \in T
  BY <1>1
<1>3. ASSUME NEW k \in 0..(N - 1), k \in T PROVE k + 1 \in T
  <2>1. k \in Nat /\ k + 1 \in 0..N
    BY <1>1
  <2>2. Offset(s, k) \in 0..Len(s) /\ Offset(s, k + 1) = NextChar(s, Offset(s, k)) /\ Offset(s, k) < Len(s)
    BY <1>3, <2>1, OffsetIs, StrlenIs
  <2>3. Offset(s, k) < Offset(s, k + 1) /\ Offset(s, k + 1) \in 0..Len(s)
    BY <2>2, NextIs
  <2>4. ASSUME NEW j \in 0..((k + 1) - 1) PROVE Offset(s, j) < Offset(s, k + 1)
    <3>1. j \in Nat /\ (j = k \/ j \in 0..(k - 1))
      BY <2>1
    <3>2. Offset(s, j) \in 0..Len(s)
      BY <3>1, OffsetIs
    <3>3. j \in 0..(k - 1) => Offset(s, j) < Offset(s, k)
      BY <1>3
    <3> QED BY <2>2, <2>3, <3>1, <3>2, <3>3
  <2> QED BY <2>1, <2>4
<1>4. n \in T
  <2> HIDE DEF T
  <2> QED BY <1>1, <1>2, <1>3, CountingUp
<1>5. m \in 0..(n - 1)
  BY <1>1
<1> QED BY <1>4, <1>5

(* The places between characters.                                          *)
Ends(s) == {Offset(s, n) : n \in 0..strlen(s)}

(* Places are where characters begin or the string ends.                   *)
LEMMA EndsAre ==
  ASSUME NEW s \in Seq(Bytes)
  PROVE  /\ 0 \in Ends(s) /\ Len(s) \in Ends(s) /\ Ends(s) \subseteq 0..Len(s)
         /\ \A n \in Nat : Offset(s, n) \in Ends(s)
         /\ \A i \in Ends(s) : i < Len(s) => NextChar(s, i) \in Ends(s)
<1>1. strlen(s) \in Nat /\ Offset(s, strlen(s)) = Len(s)
  BY StrlenIs
<1>2. Offset(s, 0) \in Ends(s) /\ Offset(s, strlen(s)) \in Ends(s)
  <2>1. 0 \in 0..strlen(s) /\ strlen(s) \in 0..strlen(s)
    BY <1>1
  <2> QED BY <2>1 DEF Ends
<1>3. ASSUME NEW i \in Ends(s) PROVE i \in 0..Len(s)
  <2>1. PICK n \in 0..strlen(s) : i = Offset(s, n)
    BY DEF Ends
  <2>2. n \in Nat
    BY <1>1
  <2> QED BY <2>1, <2>2, OffsetIs
<1>4. ASSUME NEW i \in Ends(s), i < Len(s) PROVE NextChar(s, i) \in Ends(s)
  <2>1. PICK n \in 0..strlen(s) : i = Offset(s, n)
    BY DEF Ends
  <2>2. n \in Nat /\ n # strlen(s)
    <3>1. n = strlen(s) => i = Len(s)
      BY <1>1, <2>1
    <3>2. i \in 0..Len(s)
      BY <1>3
    <3> QED BY <1>1, <1>4, <3>1, <3>2
  <2>3. n + 1 \in 0..strlen(s)
    BY <1>1, <2>2
  <2>4. Offset(s, n + 1) = NextChar(s, i)
    BY <2>1, <2>2, OffsetIs
  <2> QED BY <2>3, <2>4 DEF Ends
<1>5. Offset(s, 0) = 0
  BY OffsetIs
<1>6. \A n \in Nat : Offset(s, n) \in Ends(s)
  <2>1. 0 \in Ends(s)
    BY <1>2, <1>5
  <2>2. \A i \in 0..Len(s) : i \in Ends(s) /\ i < Len(s) => NextChar(s, i) \in Ends(s)
    BY <1>4
  <2> QED BY <2>1, <2>2, WalkStays
<1> QED BY <1>1, <1>2, <1>3, <1>4, <1>5, <1>6

(* What holds at the start and is kept by each step holds at every place.  *)
LEMMA EndsLeast ==
  ASSUME NEW s \in Seq(Bytes), NEW P, 0 \in P,
         \A i \in 0..Len(s) : i \in P /\ i < Len(s) => NextChar(s, i) \in P
  PROVE  Ends(s) \subseteq P
<1>1. ASSUME NEW i \in Ends(s) PROVE i \in P
  <2>1. PICK n \in 0..strlen(s) : i = Offset(s, n)
    BY DEF Ends
  <2>2. n \in Nat
    BY StrlenIs
  <2> QED BY <2>1, <2>2, WalkStays
<1> QED BY <1>1

(* No place lies inside a character.                                       *)
LEMMA NoneBetween ==
  ASSUME NEW s \in Seq(Bytes), NEW i \in Ends(s), NEW j \in Ends(s), i < j
  PROVE  i < Len(s) /\ NextChar(s, i) <= j
<1>1. PICK m \in 0..strlen(s) : i = Offset(s, m)
  BY DEF Ends
<1>2. PICK n \in 0..strlen(s) : j = Offset(s, n)
  BY DEF Ends
<1>3. strlen(s) \in Nat /\ m \in Nat /\ n \in Nat /\ i \in 0..Len(s) /\ j \in 0..Len(s) /\ Len(s) \in Nat
  BY StrlenIs, EndsAre
<1>4. m < n
  <2>1. n < m => j < i
    BY <1>1, <1>2, WalkOrder
  <2>2. n = m => j = i
    BY <1>1, <1>2
  <2>3. ~(j < i) /\ j # i
    BY <1>3
  <2> QED BY <1>3, <2>1, <2>2, <2>3
<1>5. Offset(s, m + 1) = NextChar(s, i)
  BY <1>1, <1>3, OffsetIs
<1>6. m + 1 = n \/ m + 1 < n
  BY <1>3, <1>4
<1>7. m + 1 \in 0..strlen(s) /\ m + 1 \in Nat
  BY <1>3, <1>4
<1>8. Offset(s, m + 1) \in 0..Len(s)
  BY <1>7, OffsetIs
<1>9. m + 1 < n => NextChar(s, i) < j
  BY <1>2, <1>5, <1>7, WalkOrder
<1>10. NextChar(s, i) \in 0..Len(s)
  BY <1>5, <1>8
<1>11. i < Len(s)
  BY <1>3
<1> QED BY <1>2, <1>3, <1>5, <1>6, <1>9, <1>10, <1>11

(* The check asks each place for a good character.                         *)
LEMMA CheckIs ==
  ASSUME NEW s \in Seq(Bytes)
  PROVE  check_string(s) <=> \A i \in Ends(s) : i < Len(s) => Good(After(s, i))
<1>1. check_string(s) <=> \A n \in 0..(strlen(s) - 1) : Good(After(s, Offset(s, n)))
  BY DEF check_string, Good, get_nth_char
<1>2. strlen(s) \in Nat /\ Offset(s, strlen(s)) = Len(s) /\ \A n \in 0..(strlen(s) - 1) : Offset(s, n) < Len(s)
  BY StrlenIs
<1>3. \A n : n \in 0..(strlen(s) - 1) => n \in 0..strlen(s)
  BY <1>2
<1>4. \A n \in 0..strlen(s) : n = strlen(s) \/ n \in 0..(strlen(s) - 1)
  BY <1>2
<1>5. ~(Len(s) < Len(s))
  OBVIOUS
<1> HIDE DEF Good
<1> QED BY <1>1, <1>2, <1>3, <1>4, <1>5 DEF Ends

(* A string is good if good characters lead through it.                    *)
LEMMA GoodByPlaces ==
  ASSUME NEW s \in Seq(Bytes), NEW P, 0 \in P,
         \A i \in 0..Len(s) : i \in P /\ i < Len(s) => Good(After(s, i)) /\ NextChar(s, i) \in P
  PROVE  check_string(s)
<1>1. Ends(s) \subseteq P
  BY EndsLeast
<1>2. Ends(s) \subseteq 0..Len(s)
  BY EndsAre
<1> QED BY <1>1, <1>2, CheckIs

----------------------------------------------------------------------------
(* Parts of parts of a string.                                             *)
LEMMA PartOfAfter ==
  ASSUME NEW s \in Seq(Bytes), NEW i \in 0..Len(s), NEW j \in (i + 1)..Len(s)
  PROVE  /\ j - i \in 1..Len(After(s, i))
         /\ SubSeq(s, i + 1, j) = SubSeq(After(s, i), 1, j - i)
<1> DEFINE t == After(s, i)
           u == SubSeq(s, i + 1, j)
           v == SubSeq(t, 1, j - i)
<1>1. t \in Seq(Bytes) /\ Len(t) = Len(s) - i /\ \A k \in 1..(Len(s) - i) : t[k] = s[i + k]
  BY AfterReads
<1>2. u \in Seq(Bytes) /\ Len(u) = j - i /\ \A k \in 1..(j - i) : u[k] = s[i + k]
  BY SMTT(30)
<1> HIDE DEF t, u
<1>3. j - i \in 1..Len(t) /\ j - i \in 0..Len(t)
  BY <1>1
<1>4. v \in Seq(Bytes) /\ Len(v) = j - i /\ \A k \in 1..(j - i) : v[k] = t[k]
  BY <1>1, <1>3, PrefixReads
<1> HIDE DEF v
<1>5. \A k \in 1..(j - i) : u[k] = v[k]
  <2> SUFFICES ASSUME NEW k \in 1..(j - i) PROVE u[k] = v[k]
    OBVIOUS
  <2>1. k \in 1..(Len(s) - i)
    OBVIOUS
  <2> QED BY <1>1, <1>2, <1>4, <2>1
<1>6. u = v
  BY <1>2, <1>4, <1>5, SeqEqual
<1> QED BY <1>3, <1>6 DEF t, u, v

(* A part of a prefix is a part of the string.                             *)
LEMMA PartOfPrefix ==
  ASSUME NEW s \in Seq(Bytes), NEW k \in 0..Len(s), NEW i \in 0..k, NEW j \in (i + 1)..k
  PROVE  SubSeq(SubSeq(s, 1, k), i + 1, j) = SubSeq(s, i + 1, j)
<1> DEFINE p == SubSeq(s, 1, k)
           u == SubSeq(p, i + 1, j)
           v == SubSeq(s, i + 1, j)
<1>1. p \in Seq(Bytes) /\ Len(p) = k /\ \A m \in 1..k : p[m] = s[m]
  BY PrefixReads
<1>2. v \in Seq(Bytes) /\ Len(v) = j - i /\ \A m \in 1..(j - i) : v[m] = s[i + m]
  OBVIOUS
<1> HIDE DEF p, v
<1>3. u \in Seq(Bytes) /\ Len(u) = j - i /\ \A m \in 1..(j - i) : u[m] = p[i + m]
  BY <1>1
<1> HIDE DEF u
<1>4. \A m \in 1..(j - i) : u[m] = v[m]
  <2> SUFFICES ASSUME NEW m \in 1..(j - i) PROVE u[m] = v[m]
    OBVIOUS
  <2>1. i + m \in 1..k
    OBVIOUS
  <2> QED BY <1>1, <1>2, <1>3, <2>1
<1>5. u = v
  BY <1>2, <1>3, <1>4, SeqEqual
<1> QED BY <1>5 DEF p, u, v

(* A character lies between two places exactly when a good one is read at  *)
(* the first and leads to the second.                                      *)
LEMMA GoodPlace ==
  ASSUME NEW s \in Seq(Bytes), NEW i \in 0..Len(s), NEW j \in (i + 1)..Len(s)
  PROVE  IsChar(SubSeq(s, i + 1, j)) <=> Good(After(s, i)) /\ NextChar(s, i) = j
<1> DEFINE t == After(s, i)
<1>1. t \in Seq(Bytes) /\ j - i \in 1..Len(t) /\ SubSeq(s, i + 1, j) = SubSeq(t, 1, j - i)
  BY AfterReads, PartOfAfter
<1>2. IsChar(SubSeq(t, 1, j - i)) <=> Good(t) /\ char_len(t) = j - i
  BY <1>1, CharIsGood
<1>3. i < Len(s)
  OBVIOUS
<1>4. NextChar(s, i) = i + char_len(t)
  BY <1>3, NextIs
<1> HIDE DEF t
<1>5. char_len(t) = j - i <=> NextChar(s, i) = j
  <2>1. t # <<>>
    BY <1>1
  <2>2. char_len(t) \in Nat
    BY <1>1, <2>1, CharLenRange, SMTT(30)
  <2> QED BY <1>4, <2>2
<1> QED BY <1>1, <1>2, <1>5 DEF t

(* fcitx_utf8_check_string accepts exactly the well-formed strings.        *)
LEMMA CheckAcceptsWellFormed ==
  ASSUME NEW s \in Seq(Bytes)
  PROVE  check_string(s) <=> WellFormed(s)
<1>1. ASSUME check_string(s) PROVE WellFormed(s)
  <2>1. Ends(s) \in SUBSET (0..Len(s)) /\ {0, Len(s)} \subseteq Ends(s)
    BY EndsAre
  <2>2. ASSUME NEW i \in Ends(s), NEW j \in Ends(s), i < j, ~(\E k \in Ends(s) : i < k /\ k < j)
        PROVE  IsChar(SubSeq(s, i + 1, j))
    <3>1. i \in 0..Len(s) /\ j \in 0..Len(s) /\ i < Len(s) /\ NextChar(s, i) <= j
      BY <2>2, EndsAre, NoneBetween
    <3>2. NextChar(s, i) \in Ends(s)
      BY <3>1, EndsAre
    <3>3. i < NextChar(s, i) /\ NextChar(s, i) \in 0..Len(s)
      BY <3>1, NextIs
    <3>4. NextChar(s, i) = j
      BY <2>2, <3>1, <3>2, <3>3
    <3>5. Good(After(s, i))
      BY <1>1, <3>1, CheckIs
    <3>6. j \in (i + 1)..Len(s)
      BY <2>2, <3>1
    <3> QED BY <3>1, <3>4, <3>5, <3>6, GoodPlace
  <2>3. IsDivided(s, Ends(s))
    BY <2>1, <2>2 DEF IsDivided
  <2> QED BY <2>1, <2>3 DEF WellFormed
<1>2. ASSUME WellFormed(s) PROVE check_string(s)
  <2>1. PICK P \in SUBSET (0..Len(s)) : IsDivided(s, P)
    BY <1>2 DEF WellFormed
  <2>2. 0 \in P /\ Len(s) \in P
    BY <2>1 DEF IsDivided
  <2>3. ASSUME NEW i \in 0..Len(s), i \in P, i < Len(s) PROVE Good(After(s, i)) /\ NextChar(s, i) \in P
    <3> DEFINE U == {k \in P : i < k}
    <3>1. U \subseteq Nat /\ U # {}
      <4>1. Len(s) \in U
        BY <2>2, <2>3
      <4>2. \A k \in P : k \in Nat
        OBVIOUS
      <4> QED BY <4>1, <4>2
    <3>2. PICK j \in U : \A k \in U : j <= k
      <4> HIDE DEF U
      <4> QED BY <3>1, LeastElement
    <3>3. j \in P /\ i < j /\ j \in 0..Len(s)
      OBVIOUS
    <3>4. ~(\E k \in P : i < k /\ k < j)
      <4> SUFFICES ASSUME NEW k \in P, i < k, k < j PROVE FALSE
        OBVIOUS
      <4>1. k \in U
        OBVIOUS
      <4>2. j <= k
        BY <3>2, <4>1
      <4> QED BY <3>3, <4>2
    <3>5. IsChar(SubSeq(s, i + 1, j))
      BY <2>1, <2>3, <3>3, <3>4 DEF IsDivided
    <3>6. j \in (i + 1)..Len(s)
      BY <3>3
    <3>7. Good(After(s, i)) /\ NextChar(s, i) = j
      BY <3>5, <3>6, GoodPlace
    <3> QED BY <3>3, <3>7
  <2> QED BY <2>2, <2>3, GoodByPlaces
<1> QED BY <1>1, <1>2

----------------------------------------------------------------------------
(* The beginning of a string is walked as the string is.                   *)
LEMMA PrefixBytes ==
  ASSUME NEW s \in Seq(Bytes), NEW k \in 0..Len(s), NEW x \in Nat \ {0}
  PROVE  Byte(SubSeq(s, 1, k), x) = IF x <= k THEN Byte(s, x) ELSE 0
<1> DEFINE p == SubSeq(s, 1, k)
<1>1. p \in Seq(Bytes) /\ Len(p) = k /\ \A m \in 1..k : p[m] = s[m]
  BY PrefixReads
<1> HIDE DEF p
<1>2. DOMAIN p = 1..k /\ DOMAIN s = 1..Len(s)
  BY <1>1
<1>3. CASE x <= k
  <2>1. x \in 1..k /\ x \in 1..Len(s)
    BY <1>3
  <2> QED BY <1>1, <1>2, <1>3, <2>1 DEF Byte, p
<1>4. CASE ~(x <= k)
  <2>1. x \notin 1..k
    BY <1>4
  <2> QED BY <1>2, <1>4, <2>1 DEF Byte, p
<1> QED BY <1>3, <1>4

(* A character that ends inside a prefix has the same length in it.        *)
LEMMA PrefixNext ==
  ASSUME NEW s \in Seq(Bytes), NEW k \in 0..Len(s), NEW i \in 0..(k - 1), NextChar(s, i) <= k
  PROVE  NextChar(SubSeq(s, 1, k), i) = NextChar(s, i)
<1> DEFINE p == SubSeq(s, 1, k)
           t == After(s, i)
           u == After(p, i)
           n == type(Byte(t, 1))
           C(x) == IsContinuation(Byte(t, x))
           D(x) == IsContinuation(Byte(u, x))
<1>1. p \in Seq(Bytes) /\ Len(p) = k /\ i \in 0..Len(p) /\ i \in 0..Len(s) /\ i < Len(p) /\ i < Len(s)
  BY PrefixReads
<1>2. \A x \in Nat \ {0} : Byte(t, x) = Byte(s, i + x) /\ Byte(u, x) = Byte(p, i + x)
  BY <1>1, AfterReads
<1>3. \A x \in Nat \ {0} : Byte(u, x) = IF i + x <= k THEN Byte(t, x) ELSE 0
  <2> SUFFICES ASSUME NEW x \in Nat \ {0} PROVE Byte(u, x) = IF i + x <= k THEN Byte(t, x) ELSE 0
    OBVIOUS
  <2>1. i + x \in Nat \ {0}
    OBVIOUS
  <2>2. Byte(p, i + x) = IF i + x <= k THEN Byte(s, i + x) ELSE 0
    BY <2>1, PrefixBytes
  <2> QED BY <1>2, <2>2
<1>4. NextChar(p, i) = i + char_len(u) /\ NextChar(s, i) = i + char_len(t)
  BY <1>1, NextIs
<1>5. char_len(t) = IF n \in 2..6 /\ \A x \in 2..n : C(x) THEN n ELSE 1
  BY DEF char_len
<1>6. char_len(u) = IF n \in 2..6 /\ \A x \in 2..n : D(x) THEN n ELSE 1
  <2>1. Byte(u, 1) = Byte(t, 1)
    <3>1. i + 1 <= k /\ 1 \in Nat \ {0}
      OBVIOUS
    <3> QED BY <1>3, <3>1
  <2> QED BY <2>1 DEF char_len
<1>7. ~IsContinuation(0)
  BY DEF IsContinuation
<1>8. \A x \in Nat \ {0} : /\ D(x) => C(x)
                           /\ i + x <= k => (D(x) <=> C(x))
  BY <1>3, <1>7
<1>9. char_len(t) \in Nat /\ i + char_len(t) <= k
  <2>1. t \in Seq(Bytes) /\ Len(t) = Len(s) - i
    BY <1>1, AfterReads
  <2> HIDE DEF t
  <2>2. t # <<>>
    BY <1>1, <2>1
  <2>3. char_len(t) \in Nat
    BY <2>1, <2>2, CharLenRange
  <2> QED BY <1>4, <2>3
<1> HIDE DEF C, D, n, t, u, p
<1>10. CASE n \in 2..6 /\ \A x \in 2..n : C(x)
  <2>1. char_len(t) = n /\ i + n <= k
    BY <1>5, <1>9, <1>10
  <2>2. ASSUME NEW x \in 2..n PROVE D(x)
    <3>1. x \in Nat \ {0} /\ i + x <= k
      BY <1>10, <2>1
    <3> QED BY <1>8, <1>10, <3>1
  <2>3. char_len(u) = n
    BY <1>6, <1>10, <2>2
  <2> QED BY <1>4, <2>1, <2>3 DEF p
<1>11. CASE ~(n \in 2..6 /\ \A x \in 2..n : C(x))
  <2>1. char_len(t) = 1
    BY <1>5, <1>11
  <2>2. ~(n \in 2..6 /\ \A x \in 2..n : D(x))
    <3> SUFFICES ASSUME n \in 2..6, \A x \in 2..n : D(x) PROVE FALSE
      OBVIOUS
    <3>1. ASSUME NEW x \in 2..n PROVE C(x)
      <4>1. x \in Nat \ {0}
        OBVIOUS
      <4> QED BY <1>8, <4>1
    <3> QED BY <1>11, <3>1
  <2>3. char_len(u) = 1
    BY <1>6, <2>2
  <2> QED BY <1>4, <2>1, <2>3 DEF p
<1> QED BY <1>10, <1>11

(* A prefix has the good characters of the string that end inside it.      *)
LEMMA PrefixGood ==
  ASSUME NEW s \in Seq(Bytes), NEW k \in 0..Len(s), NEW i \in 0..(k - 1)
  PROVE  /\ Good(After(SubSeq(s, 1, k), i)) =>
              Good(After(s, i)) /\ NextChar(s, i) = NextChar(SubSeq(s, 1, k), i)
         /\ Good(After(s, i)) /\ NextChar(s, i) <= k =>
              Good(After(SubSeq(s, 1, k), i)) /\ NextChar(SubSeq(s, 1, k), i) = NextChar(s, i)
<1> DEFINE p == SubSeq(s, 1, k)
<1>1. p \in Seq(Bytes) /\ Len(p) = k /\ i \in 0..Len(p) /\ i \in 0..Len(s) /\ i < Len(p) /\ i < Len(s) /\ i \in 0..k
  BY PrefixReads
<1>2. ASSUME NEW j \in (i + 1)..k
      PROVE  Good(After(p, i)) /\ NextChar(p, i) = j <=> Good(After(s, i)) /\ NextChar(s, i) = j
  <2>1. j \in (i + 1)..Len(p) /\ j \in (i + 1)..Len(s)
    BY <1>1
  <2>2. SubSeq(p, i + 1, j) = SubSeq(s, i + 1, j)
    BY <1>1, PartOfPrefix
  <2>3. IsChar(SubSeq(p, i + 1, j)) <=> Good(After(p, i)) /\ NextChar(p, i) = j
    BY <1>1, <2>1, GoodPlace
  <2>4. IsChar(SubSeq(s, i + 1, j)) <=> Good(After(s, i)) /\ NextChar(s, i) = j
    BY <1>1, <2>1, GoodPlace
  <2> QED BY <2>2, <2>3, <2>4
<1>3. NextChar(p, i) \in (i + 1)..k
  <2>1. NextChar(p, i) \in 0..Len(p) /\ i < NextChar(p, i)
    BY <1>1, NextIs
  <2> QED BY <1>1, <2>1
<1>4. NextChar(s, i) <= k => NextChar(s, i) \in (i + 1)..k
  <2>1. NextChar(s, i) \in 0..Len(s) /\ i < NextChar(s, i)
    BY <1>1, NextIs
  <2> QED BY <1>1, <2>1
<1> HIDE DEF p, Good
<1>5. Good(After(p, i)) => Good(After(s, i)) /\ NextChar(s, i) = NextChar(p, i)
  BY <1>2, <1>3
<1>6. Good(After(s, i)) /\ NextChar(s, i) <= k => Good(After(p, i)) /\ NextChar(p, i) = NextChar(s, i)
  BY <1>2, <1>4
<1> QED BY <1>5, <1>6 DEF p


(* A bounded copy is cut at the last place in reach.                       *)
LEMMA CutIs ==
  ASSUME NEW s \in Seq(Bytes), NEW n \in Nat
  PROVE  /\ Cut(s, n) \in Ends(s) /\ Cut(s, n) <= n
         /\ \A j \in Ends(s) : j <= n => j <= Cut(s, n)
<1> DEFINE fit == {i \in Ends(s) : i <= n}
           Is(i) == \A j \in fit : j <= i
<1>1. Len(s) \in Nat /\ fit \subseteq 0..Len(s) /\ 0 \in fit
  BY EndsAre
<1>2. Cut(s, n) = CHOOSE i \in fit : Is(i)
  BY DEF Cut, Ends
<1>3. \E i \in fit : Is(i)
  <2> HIDE DEF fit
  <2> QED BY <1>1, GreatestElement
<1>4. Cut(s, n) \in fit /\ Is(Cut(s, n))
  <2> HIDE DEF fit, Is
  <2> QED BY <1>2, <1>3
<1> QED BY <1>4

(* What is left of a string up to a place has the characters the string    *)
(* has up to there, and fcitx_utf8_strnlen counts them.                    *)
LEMMA PrefixLength ==
  ASSUME NEW s \in Seq(Bytes), NEW n \in Nat
  PROVE  strnlen(s, n) = strlen(SubSeq(s, 1, Cut(s, n)))
<1> DEFINE k == Cut(s, n)
           p == SubSeq(s, 1, k)
<1>1. k \in Ends(s) /\ k \in 0..Len(s)
  BY CutIs, EndsAre
<1> HIDE DEF k
<1>2. p \in Seq(Bytes) /\ Len(p) = k
  BY <1>1, PrefixReads
<1>3. PICK K \in 0..strlen(s) : k = Offset(s, K)
  BY <1>1 DEF Ends
<1>4. strlen(s) \in Nat /\ K \in Nat /\ K \in 0..K
  BY StrlenIs
<1> HIDE DEF p
<1> DEFINE T == {m \in 0..K : Offset(p, m) = Offset(s, m)}
<1>5. 0 \in T
  BY <1>2, <1>4, OffsetIs
<1>6. ASSUME NEW m \in 0..(K - 1), m \in T PROVE m + 1 \in T
  <2>1. m \in Nat /\ m + 1 \in Nat /\ m + 1 \in 0..K /\ m \in 0..strlen(s) /\ m + 1 \in 0..strlen(s) /\ m < K
    BY <1>4
  <2>2. Offset(s, m + 1) = NextChar(s, Offset(s, m)) /\ Offset(p, m + 1) = NextChar(p, Offset(s, m))
    BY <1>2, <1>6, <2>1, OffsetIs
  <2>3. Offset(s, m) < k
    BY <1>3, <2>1, WalkOrder
  <2>4. Offset(s, m + 1) <= k
    <3>1. m + 1 = K \/ m + 1 < K
      BY <1>4, <2>1
    <3>2. m + 1 < K => Offset(s, m + 1) < k
      BY <1>3, <2>1, WalkOrder
    <3>3. Offset(s, m + 1) \in 0..Len(s)
      BY <2>1, OffsetIs
    <3> QED BY <1>1, <1>3, <3>1, <3>2, <3>3
  <2>5. Offset(s, m) \in 0..(k - 1)
    <3>1. Offset(s, m) \in 0..Len(s)
      BY <2>1, OffsetIs
    <3> QED BY <1>1, <2>3, <3>1
  <2>6. NextChar(p, Offset(s, m)) = NextChar(s, Offset(s, m))
    BY <1>1, <2>2, <2>4, <2>5, PrefixNext DEF p
  <2> QED BY <2>1, <2>2, <2>6
<1>7. \A m \in 0..K : Offset(p, m) = Offset(s, m)
  <2> HIDE DEF T
  <2>1. \A m \in 0..K : m \in T
    BY <1>4, <1>5, <1>6, CountingUp
  <2> QED BY <2>1 DEF T
<1>8. strlen(p) = K
  <2>1. strlen(p) \in 0..k /\ Offset(p, strlen(p)) = k /\ \A m \in 0..(strlen(p) - 1) : Offset(p, m) < k
    BY <1>2, StrlenIs
  <2>2. strlen(p) \in Nat
    BY <1>1, <2>1
  <2>3. ~(K < strlen(p))
    <3> SUFFICES ASSUME K < strlen(p) PROVE FALSE
      OBVIOUS
    <3>1. K \in 0..(strlen(p) - 1)
      BY <1>4, <2>2
    <3>2. Offset(p, K) = k
      BY <1>3, <1>4, <1>7
    <3>3. k < k
      BY <2>1, <3>1, <3>2
    <3> QED BY <1>1, <3>3
  <2>4. ~(strlen(p) < K)
    <3> SUFFICES ASSUME strlen(p) < K PROVE FALSE
      OBVIOUS
    <3>1. strlen(p) \in 0..K /\ strlen(p) \in 0..strlen(s)
      BY <1>4, <2>2
    <3>2. Offset(s, strlen(p)) = k
      BY <1>7, <2>1, <3>1
    <3>3. Offset(s, strlen(p)) < k
      BY <1>3, <3>1, WalkOrder
    <3>4. k < k
      BY <3>2, <3>3
    <3> QED BY <1>1, <3>4
  <2> QED BY <1>4, <2>2, <2>3, <2>4
<1>9. strnlen(s, n) = K
  <2> DEFINE Is(m) == Offset(s, m) = k
  <2>1. strnlen(s, n) = CHOOSE m \in 0..strlen(s) : Is(m)
    BY DEF strnlen, k
  <2>2. Is(K)
    BY <1>3
  <2>3. ASSUME NEW m \in 0..strlen(s), Is(m) PROVE m = K
    <3>1. m \in Nat
      BY <1>4
    <3>2. m < K => Offset(s, m) < k
      BY <1>3, WalkOrder
    <3>3. K < m => k < Offset(s, m)
      BY <1>3, WalkOrder
    <3>4. ~(k < k)
      BY <1>1
    <3> QED BY <1>4, <2>3, <3>1, <3>2, <3>3, <3>4
  <2> HIDE DEF Is
  <2>4. strnlen(s, n) \in 0..strlen(s) /\ Is(strnlen(s, n))
    BY <1>3, <2>1, <2>2
  <2> QED BY <2>3, <2>4
<1> QED BY <1>8, <1>9 DEF p, k

(* Of a good string the copy is the longest good beginning that fits.      *)
LEMMA PrefixIsLongestGood ==
  ASSUME NEW s \in Seq(Bytes), NEW n \in Nat, check_string(s)
  PROVE  IsLongestGood(s, Cut(s, n), n)
<1> DEFINE k == Cut(s, n)
<1>1. k \in Ends(s) /\ k \in 0..Len(s) /\ \A j \in Ends(s) : j <= n => j <= k
  BY CutIs, EndsAre
<1> HIDE DEF k
<1>2. check_string(SubSeq(s, 1, k))
  <2> DEFINE p == SubSeq(s, 1, k)
             P == {i \in Ends(s) : i <= k}
  <2>1. p \in Seq(Bytes) /\ Len(p) = k
    BY <1>1, PrefixReads
  <2>2. 0 \in P
    BY <1>1, EndsAre
  <2>3. ASSUME NEW i \in 0..Len(p), i \in P, i < Len(p) PROVE Good(After(p, i)) /\ NextChar(p, i) \in P
    <3>1. i \in Ends(s) /\ i \in 0..(k - 1) /\ i < k
      BY <1>1, <2>1, <2>3
    <3>2. i < Len(s) /\ NextChar(s, i) <= k
      BY <1>1, <3>1, NoneBetween
    <3>3. Good(After(s, i)) /\ NextChar(s, i) \in Ends(s)
      BY <3>1, <3>2, CheckIs, EndsAre
    <3>4. Good(After(p, i)) /\ NextChar(p, i) = NextChar(s, i)
      BY <1>1, <3>1, <3>2, <3>3, PrefixGood
    <3> QED BY <3>2, <3>3, <3>4
  <2> HIDE DEF p, P
  <2>4. check_string(p)
    BY <2>1, <2>2, <2>3, GoodByPlaces
  <2> QED BY <2>4 DEF p
<1>3. ASSUME NEW m \in (k + 1)..Len(s), m <= n PROVE ~check_string(SubSeq(s, 1, m))
  <2> DEFINE q == SubSeq(s, 1, m)
  <2> SUFFICES ASSUME check_string(q) PROVE FALSE
    OBVIOUS
  <2>1. m \in 0..Len(s) /\ k < m
    BY <1>1
  <2>2. q \in Seq(Bytes) /\ Len(q) = m
    BY <2>1, PrefixReads
  <2> DEFINE P == Ends(q) \cap Ends(s)
  <2>3. 0 \in P
    BY <2>2, EndsAre
  <2>4. ASSUME NEW i \in 0..Len(q), i \in P, i < Len(q) PROVE NextChar(q, i) \in P
    <3>1. i \in Ends(q) /\ i \in Ends(s) /\ i \in 0..(m - 1) /\ i < Len(s)
      BY <2>1, <2>2, <2>4
    <3>2. Good(After(q, i)) /\ NextChar(q, i) \in Ends(q)
      BY <2>2, <2>4, <3>1, CheckIs, EndsAre
    <3>3. NextChar(s, i) = NextChar(q, i)
      BY <2>1, <3>1, <3>2, PrefixGood
    <3>4. NextChar(s, i) \in Ends(s)
      BY <3>1, EndsAre
    <3> QED BY <3>2, <3>3, <3>4
  <2>5. Len(q) \in P
    <3> HIDE DEF P, q
    <3>1. Ends(q) \subseteq P
      BY <2>2, <2>3, <2>4, EndsLeast
    <3> QED BY <2>2, <3>1, EndsAre
  <2>6. m <= k
    BY <1>1, <1>3, <2>2, <2>5
  <2> QED BY <1>1, <2>1, <2>6
<1> QED BY <1>2, <1>3 DEF IsLongestGood, k

----------------------------------------------------------------------------
(* The ASCII ends of a string.                                             *)
LEMMA AfterAfter ==
  ASSUME NEW s \in Seq(Bytes), NEW i \in 0..Len(s), NEW x \in 0..(Len(s) - i)
  PROVE  After(After(s, i), x) = After(s, i + x)
<1> DEFINE t == After(s, i)
           u == After(t, x)
           v == After(s, i + x)
<1>1. t \in Seq(Bytes) /\ Len(t) = Len(s) - i /\ \A k \in 1..(Len(s) - i) : t[k] = s[i + k]
  BY AfterReads
<1>2. i + x \in 0..Len(s)
  OBVIOUS
<1>3. v \in Seq(Bytes) /\ Len(v) = Len(s) - (i + x) /\ \A k \in 1..(Len(s) - (i + x)) : v[k] = s[(i + x) + k]
  BY <1>2, AfterReads
<1> HIDE DEF t, v
<1>4. u \in Seq(Bytes) /\ Len(u) = Len(t) - x /\ \A k \in 1..(Len(t) - x) : u[k] = t[x + k]
  BY <1>1, AfterReads
<1> HIDE DEF u
<1>5. Len(u) = Len(v)
  BY <1>1, <1>3, <1>4
<1>6. \A k \in 1..Len(u) : u[k] = v[k]
  <2> SUFFICES ASSUME NEW k \in 1..Len(u) PROVE u[k] = v[k]
    OBVIOUS
  <2>1. k \in 1..(Len(t) - x) /\ x + k \in 1..(Len(s) - i) /\ k \in 1..(Len(s) - (i + x)) /\ i + (x + k) = (i + x) + k
    BY <1>1, <1>4
  <2> QED BY <1>1, <1>3, <1>4, <2>1
<1>7. u = v
  BY <1>3, <1>4, <1>5, <1>6, SeqEqual
<1> QED BY <1>7 DEF t, u, v

(* An ASCII byte is a good character of its own.                           *)
LEMMA AsciiIsGood ==
  ASSUME NEW s \in Seq(Bytes), NEW i \in 0..(Len(s) - 1), s[i + 1] < 128
  PROVE  Good(After(s, i)) /\ NextChar(s, i) = i + 1
<1> DEFINE t == After(s, i)
<1>1. i \in 0..Len(s) /\ i < Len(s) /\ 1 \in 1..(Len(s) - i)
  OBVIOUS
<1>2. t \in Seq(Bytes) /\ Len(t) = Len(s) - i /\ t[1] = s[i + 1]
  BY <1>1, AfterReads
<1>3. NextChar(s, i) = i + char_len(t)
  BY <1>1, NextIs
<1> HIDE DEF t
<1>4. t # <<>>
  BY <1>1, <1>2
<1>5. t[1] < 128
  BY <1>2
<1>6. Good(t) /\ char_len(t) = 1
  BY <1>2, <1>4, <1>5, GoodMeans, CharLenIs
<1> QED BY <1>3, <1>6 DEF t

(* The part behind the last byte above 127 of a good string is good.       *)
LEMMA AsciiTail ==
  ASSUME NEW s \in Seq(Bytes)
  PROVE  LET tail == get_ascii_partn(s, Len(s))
         IN  /\ check_string(tail) /\ \A i \in DOMAIN tail : tail[i] < 128
             /\ \E i \in 0..Len(s) : tail = After(s, i) /\ (i > 0 => s[i] > 127)
<1> DEFINE tail == get_ascii_partn(s, Len(s))
           Is(i) == (i > 0 => Byte(s, i) > 127) /\ \A j \in (i + 1)..Len(s) : Byte(s, j) < 128
           T == {i \in 0..Len(s) : i > 0 => Byte(s, i) > 127}
<1>1. Len(s) \in Nat /\ T \subseteq 0..Len(s) /\ 0 \in T
  OBVIOUS
<1>2. \E i \in 0..Len(s) : Is(i)
  <2>1. PICK i \in T : \A j \in T : j <= i
    <3> HIDE DEF T
    <3> QED BY <1>1, GreatestElement
  <2>2. ASSUME NEW j \in (i + 1)..Len(s) PROVE Byte(s, j) < 128
    <3>1. j \in 0..Len(s) /\ j > 0 /\ ~(j <= i) /\ j \in Nat \ {0}
      BY <1>1
    <3>2. ~(Byte(s, j) > 127)
      BY <2>1, <3>1
    <3>3. Byte(s, j) \in 0..255
      BY <3>1, ByteRange
    <3>4. \A b \in 0..255 : b > 127 \/ b < 128
      OBVIOUS
    <3> QED BY <3>2, <3>3, <3>4
  <2> QED BY <1>1, <2>2
<1>3. PICK i \in 0..Len(s) : Is(i) /\ tail = After(s, i)
  <2>1. tail = After(s, CHOOSE i \in 0..Len(s) : Is(i))
    BY DEF get_ascii_partn
  <2> HIDE DEF Is
  <2>2. (CHOOSE i \in 0..Len(s) : Is(i)) \in 0..Len(s) /\ Is(CHOOSE i \in 0..Len(s) : Is(i))
    BY <1>2
  <2> QED BY <2>1, <2>2
<1> HIDE DEF tail
<1>4. tail \in Seq(Bytes) /\ Len(tail) = Len(s) - i /\ \A k \in 1..(Len(s) - i) : tail[k] = s[i + k]
  BY <1>3, AfterReads
<1>5. ASSUME NEW j \in 1..Len(tail) PROVE tail[j] < 128
  <2>1. i + j \in (i + 1)..Len(s) /\ i + j \in Nat \ {0} /\ i + j <= Len(s)
    BY <1>4
  <2>2. Byte(s, i + j) = s[i + j] /\ Byte(s, i + j) < 128
    BY <1>3, <2>1, ByteRange
  <2>3. tail[j] = s[i + j]
    BY <1>4
  <2> QED BY <2>2, <2>3
<1>6. check_string(tail)
  <2> DEFINE P == 0..Len(tail)
  <2>1. 0 \in P
    BY <1>4
  <2>2. ASSUME NEW x \in 0..Len(tail), x \in P, x < Len(tail) PROVE Good(After(tail, x)) /\ NextChar(tail, x) \in P
    <3>1. x \in 0..(Len(tail) - 1) /\ x + 1 \in 1..Len(tail) /\ x + 1 \in P
      BY <1>4, <2>2
    <3>2. tail[x + 1] < 128
      BY <1>5, <3>1
    <3> QED BY <1>4, <3>1, <3>2, AsciiIsGood
  <2> HIDE DEF P
  <2> QED BY <1>4, <2>1, <2>2, GoodByPlaces
<1>7. i > 0 => s[i] > 127
  <2>1. i > 0 => i \in Nat \ {0} /\ i <= Len(s)
    OBVIOUS
  <2> QED BY <1>3, <2>1, ByteRange
<1>8. DOMAIN tail = 1..Len(tail)
  BY <1>4
<1> QED BY <1>3, <1>5, <1>6, <1>7, <1>8 DEF tail

(* Bytes are ASCII or above.                                               *)
LEMMA AboveAscii ==
  ASSUME NEW b \in 0..255, b # 0, b \notin 1..127
  PROVE  b > 127
OBVIOUS

(* The part from the first byte above 127 of a good string is good.        *)
LEMMA AsciiRest ==
  ASSUME NEW s \in Seq(Bytes), check_string(s)
  PROVE  LET rest == get_ascii_endn(s, Len(s))
         IN  /\ check_string(rest) /\ (rest # <<>> => rest[1] > 127)
             /\ \E i \in 0..Len(s) : rest = After(s, i) /\ \A j \in 1..i : s[j] < 128
<1> DEFINE rest == get_ascii_endn(s, Len(s))
           Ascii(j) == Byte(s, j) \in 1..127
           Is(i) == (i < Len(s) => ~Ascii(i + 1)) /\ \A j \in 1..i : Ascii(j)
           T == {i \in 0..Len(s) : \A j \in 1..i : Ascii(j)}
<1>1. Len(s) \in Nat /\ T \subseteq 0..Len(s) /\ 0 \in T
  OBVIOUS
<1>2. \E i \in 0..Len(s) : Is(i)
  <2>1. PICK i \in T : \A j \in T : j <= i
    <3> HIDE DEF T
    <3> QED BY <1>1, GreatestElement
  <2> HIDE DEF Ascii
  <2>2. ASSUME i < Len(s), Ascii(i + 1) PROVE FALSE
    <3>1. i + 1 \in 0..Len(s) /\ ~(i + 1 <= i)
      BY <1>1, <2>2
    <3>2. \A j \in 1..(i + 1) : j = i + 1 \/ j \in 1..i
      BY <1>1
    <3>3. i + 1 \in T
      BY <2>2, <3>1, <3>2
    <3> HIDE DEF T
    <3> QED BY <2>1, <3>1, <3>3
  <2>3. Is(i)
    BY <2>2
  <2> QED BY <1>1, <2>3
<1>3. PICK i \in 0..Len(s) : Is(i) /\ rest = After(s, i)
  <2>1. rest = After(s, CHOOSE i \in 0..Len(s) : Is(i))
    BY DEF get_ascii_endn
  <2> HIDE DEF Is
  <2>2. (CHOOSE i \in 0..Len(s) : Is(i)) \in 0..Len(s) /\ Is(CHOOSE i \in 0..Len(s) : Is(i))
    BY <1>2
  <2> QED BY <2>1, <2>2
<1> HIDE DEF rest
<1>4. rest \in Seq(Bytes) /\ Len(rest) = Len(s) - i /\ \A k \in 1..(Len(s) - i) : rest[k] = s[i + k]
  BY <1>3, AfterReads
<1>5. ASSUME NEW j \in 1..i PROVE s[j] < 128
  <2>1. j \in Nat \ {0} /\ j <= Len(s)
    OBVIOUS
  <2>2. Byte(s, j) = s[j] /\ Byte(s, j) \in 1..127
    BY <1>3, <2>1, ByteRange
  <2>3. \A b \in 1..127 : b < 128
    OBVIOUS
  <2> QED BY <2>2, <2>3
<1>6. rest # <<>> => rest[1] > 127
  <2> SUFFICES ASSUME rest # <<>> PROVE rest[1] > 127
    OBVIOUS
  <2>1. i < Len(s) /\ 1 \in 1..(Len(s) - i) /\ i + 1 \in Nat \ {0} /\ i + 1 <= Len(s)
    BY <1>4
  <2>2. Byte(s, i + 1) = s[i + 1] /\ Byte(s, i + 1) \in 0..255 /\ Byte(s, i + 1) # 0
    BY <2>1, ByteRange
  <2>5. Byte(s, i + 1) \notin 1..127
    BY <1>3, <2>1
  <2>4. rest[1] = s[i + 1]
    BY <1>4, <2>1
  <2>6. Byte(s, i + 1) > 127
    <3>1. PICK b \in 0..255 : b = Byte(s, i + 1)
      BY <2>2
    <3>2. b # 0 /\ b \notin 1..127
      BY <2>2, <2>5, <3>1
    <3>3. b > 127
      BY <3>2, AboveAscii
    <3> QED BY <3>1, <3>3
  <2> QED BY <2>2, <2>4, <2>6
<1>7. i \in Ends(s)
  <2> DEFINE U == {j \in 0..i : j \in Ends(s)}
  <2>1. 0 \in U
    BY EndsAre
  <2>2. ASSUME NEW j \in 0..(i - 1), j \in U PROVE j + 1 \in U
    <3>1. j \in Ends(s) /\ j \in 0..(Len(s) - 1) /\ j < Len(s) /\ j + 1 \in 1..i /\ j + 1 \in 0..i
      BY <2>2
    <3>2. NextChar(s, j) = j + 1
      BY <1>5, <3>1, AsciiIsGood
    <3>3. j + 1 \in Ends(s)
      BY <3>1, <3>2, EndsAre
    <3> QED BY <3>1, <3>3
  <2>3. \A j \in 0..i : j \in U
    <3>1. i \in Nat
      OBVIOUS
    <3> HIDE DEF U
    <3> QED BY <2>1, <2>2, <3>1, CountingUp
  <2> QED BY <2>3
<1>8. check_string(rest)
  <2> DEFINE P == {x \in 0..Len(rest) : i + x \in Ends(s)}
  <2>1. 0 \in P
    BY <1>4, <1>7
  <2>2. ASSUME NEW x \in 0..Len(rest), x \in P, x < Len(rest) PROVE Good(After(rest, x)) /\ NextChar(rest, x) \in P
    <3>1. i + x \in Ends(s) /\ i + x < Len(s) /\ x \in 0..(Len(s) - i) /\ i + x \in 0..Len(s)
      BY <1>4, <2>2
    <3>2. After(rest, x) = After(s, i + x)
      BY <1>3, <3>1, AfterAfter
    <3>3. Good(After(s, i + x)) /\ NextChar(s, i + x) \in Ends(s)
      BY <3>1, CheckIs, EndsAre
    <3>4. NextChar(rest, x) = x + char_len(After(s, i + x)) /\ NextChar(rest, x) \in 0..Len(rest)
      BY <1>4, <2>2, <3>2, NextIs
    <3>5. NextChar(s, i + x) = (i + x) + char_len(After(s, i + x))
      BY <3>1, NextIs
    <3>6. NextChar(s, i + x) = i + NextChar(rest, x)
      <4>1. char_len(After(s, i + x)) \in Nat
        <5>1. After(s, i + x) \in Seq(Bytes) /\ Len(After(s, i + x)) = Len(s) - (i + x)
          BY <3>1, AfterReads
        <5>2. After(s, i + x) # <<>>
          BY <3>1, <5>1
        <5> QED BY <5>1, <5>2, CharLenRange, SMTT(30)
      <4> QED BY <3>4, <3>5, <4>1
    <3> QED BY <3>2, <3>3, <3>4, <3>6
  <2> HIDE DEF P
  <2> QED BY <1>4, <2>1, <2>2, GoodByPlaces
<1> QED BY <1>3, <1>5, <1>6, <1>8 DEF rest


----------------------------------------------------------------------------
(* Encoding.  Bytes of a character and what they keep of it.               *)
LEMMA TailByte ==
  ASSUME NEW x \in Nat
  PROVE  128 + (x % 64) \in 128..191 /\ (128 + (x % 64)) % 64 = x % 64 /\ 128 + (x % 64) \in 1..255
<1>1. ASSUME NEW y \in 0..63 PROVE 128 + y \in 128..191 /\ (128 + y) % 64 = y /\ 128 + y \in 1..255
  BY SMT
<1>2. x % 64 \in 0..63
  OBVIOUS
<1> QED BY <1>1, <1>2

(* First bytes of two-byte characters.                                     *)
LEMMA FirstByteOf2 ==
  ASSUME NEW x \in 0..31
  PROVE  type(192 + (x % 32)) = 2 /\ (192 + (x % 32)) % 32 = x /\ 192 + (x % 32) \in 1..255
<1>1. x % 32 = x /\ 192 + x \in 192..223 /\ 192 + x \in 0..255 /\ (192 + x) % 32 = x /\ 192 + x \in 1..255
  BY SMT
<1>2. type(192 + x) = 2
  BY <1>1, TypeCases
<1> QED BY <1>1, <1>2

(* First bytes of three-byte characters.                                   *)
LEMMA FirstByteOf3 ==
  ASSUME NEW x \in 0..15
  PROVE  type(224 + (x % 16)) = 3 /\ (224 + (x % 16)) % 16 = x /\ 224 + (x % 16) \in 1..255
<1>1. x % 16 = x /\ 224 + x \in 224..239 /\ 224 + x \in 0..255 /\ (224 + x) % 16 = x /\ 224 + x \in 1..255
  BY SMT
<1>2. type(224 + x) = 3
  BY <1>1, TypeCases
<1> QED BY <1>1, <1>2

(* First bytes of four-byte characters.                                    *)
LEMMA FirstByteOf4 ==
  ASSUME NEW x \in 0..7
  PROVE  type(240 + (x % 8)) = 4 /\ (240 + (x % 8)) % 8 = x /\ 240 + (x % 8) \in 1..255
<1>1. x % 8 = x /\ 240 + x \in 240..247 /\ 240 + x \in 0..255 /\ (240 + x) % 8 = x /\ 240 + x \in 1..255
  BY SMT
<1>2. type(240 + x) = 4
  BY <1>1, TypeCases
<1> QED BY <1>1, <1>2

(* First bytes of five-byte characters.                                    *)
LEMMA FirstByteOf5 ==
  ASSUME NEW x \in 0..3
  PROVE  type(248 + (x % 4)) = 5 /\ (248 + (x % 4)) % 4 = x /\ 248 + (x % 4) \in 1..255
<1>1. x % 4 = x /\ 248 + x \in 248..251 /\ 248 + x \in 0..255 /\ (248 + x) % 4 = x /\ 248 + x \in 1..255
  BY SMT
<1>2. type(248 + x) = 5
  BY <1>1, TypeCases
<1> QED BY <1>1, <1>2

(* First bytes of six-byte characters.                                     *)
LEMMA FirstByteOf6 ==
  ASSUME NEW x \in 0..1
  PROVE  type(252 + (x % 2)) = 6 /\ (252 + (x % 2)) % 2 = x /\ 252 + (x % 2) \in 1..255
<1>1. x % 2 = x /\ 252 + x \in 252..253 /\ 252 + x \in 0..255 /\ (252 + x) % 2 = x /\ 252 + x \in 1..255
  BY SMT
<1>2. type(252 + x) = 6
  BY <1>1, TypeCases
<1> QED BY <1>1, <1>2

(* The base-64 digits of a number.                                         *)
LEMMA DigitsMake ==
  ASSUME NEW c \in Nat
  PROVE  /\ (c \div 64) * 64 + (c % 64) = c
         /\ (c \div 4096) * 64 + ((c \div 64) % 64) = c \div 64
         /\ (c \div 262144) * 64 + ((c \div 4096) % 64) = c \div 4096
         /\ (c \div 16777216) * 64 + ((c \div 262144) % 64) = c \div 262144
         /\ (c \div 1073741824) * 64 + ((c \div 16777216) % 64) = c \div 16777216
         /\ c \div 64 \in Nat /\ c \div 4096 \in Nat /\ c \div 262144 \in Nat
         /\ c \div 16777216 \in Nat /\ c \div 1073741824 \in Nat /\ c \div 1 = c
<1>1. (c \div 64) * 64 + (c % 64) = c
  BY SMT
<1>2. (c \div 4096) * 64 + ((c \div 64) % 64) = c \div 64
  BY SMT
<1>3. (c \div 262144) * 64 + ((c \div 4096) % 64) = c \div 4096
  BY SMT
<1>4. (c \div 16777216) * 64 + ((c \div 262144) % 64) = c \div 262144
  BY SMT
<1>5. (c \div 1073741824) * 64 + ((c \div 16777216) % 64) = c \div 16777216
  BY SMT
<1>6. c \div 64 \in Nat /\ c \div 4096 \in Nat /\ c \div 262144 \in Nat
  BY SMT
<1>7. c \div 16777216 \in Nat /\ c \div 1073741824 \in Nat /\ c \div 1 = c
  BY SMT
<1> QED BY <1>1, <1>2, <1>3, <1>4, <1>5, <1>6, <1>7, SMT

(* How long the encoding is, and that its first byte has room.             *)
IsPoint(c) == c \in Nat /\ c > 0 /\ c < 2147483648 /\ ~(c >= 67108864 /\ c < 134217728)

(* The highest digit fits into what the first byte leaves.                 *)
LEMMA RoomFor ==
  ASSUME NEW c, IsPoint(c), NEW n, n = ucs4_char_len(c)
  PROVE  /\ n \in 1..6 /\ UTF8_LENGTH(c) = n /\ (n = 1 => c < 128)
         /\ c \div Weight[n] \in 0..(Keeps[n] - 1)
<1>1. c \in Nat /\ c > 0 /\ c < 2147483648 /\ ~(c >= 67108864 /\ c < 134217728)
  BY SMT DEF IsPoint
<1>2. n \in 1..6
  BY SMT DEF ucs4_char_len
<1>3. UTF8_LENGTH(c) = n
  BY <1>1, SMT DEF ucs4_char_len, UTF8_LENGTH
<1>4. n = 1 => c < 128
  BY <1>1, SMT DEF ucs4_char_len
<1> DEFINE Room == c \div Weight[n] \in 0..(Keeps[n] - 1)
<1>5. n = 1 => Room
  <2>1. Weight[1] = 1 /\ Keeps[1] - 1 = 255
    BY SMT DEF Weight, Keeps
  <2>2. n = 1 => c \div 1 \in 0..255
    BY <1>1, SMT DEF ucs4_char_len
  <2> QED BY <2>1, <2>2, SMT
<1>6. n = 2 => Room
  <2>1. Weight[2] = 64 /\ Keeps[2] - 1 = 31
    BY SMT DEF Weight, Keeps
  <2>2. n = 2 => c \div 64 \in 0..31
    BY <1>1, SMT DEF ucs4_char_len
  <2> QED BY <2>1, <2>2, SMT
<1>7. n = 3 => Room
  <2>1. Weight[3] = 4096 /\ Keeps[3] - 1 = 15
    BY SMT DEF Weight, Keeps
  <2>2. n = 3 => c \div 4096 \in 0..15
    BY <1>1, SMT DEF ucs4_char_len
  <2> QED BY <2>1, <2>2, SMT
<1>8. n = 4 => Room
  <2>1. Weight[4] = 262144 /\ Keeps[4] - 1 = 7
    BY SMT DEF Weight, Keeps
  <2>2. n = 4 => c \div 262144 \in 0..7
    BY <1>1, SMT DEF ucs4_char_len
  <2> QED BY <2>1, <2>2, SMT
<1>9. n = 5 => Room
  <2>1. Weight[5] = 16777216 /\ Keeps[5] - 1 = 3
    BY SMT DEF Weight, Keeps
  <2>2. n = 5 => c \div 16777216 \in 0..3
    BY <1>1, SMT DEF ucs4_char_len
  <2> QED BY <2>1, <2>2, SMT
<1>10. n = 6 => Room
  <2>1. Weight[6] = 1073741824 /\ Keeps[6] - 1 = 1
    BY SMT DEF Weight, Keeps
  <2>2. n = 6 => c \div 1073741824 \in 0..1
    BY <1>1, SMT DEF ucs4_char_len
  <2> QED BY <2>1, <2>2, SMT
<1> HIDE DEF Room
<1>11. Room
  BY <1>2, <1>5, <1>6, <1>7, <1>8, <1>9, <1>10, SMT
<1> QED BY <1>2, <1>3, <1>4, <1>11 DEF Room

(* The encoding is a string whose first byte announces its length and      *)
(* keeps the highest digit, and whose other bytes keep the digits below.   *)
IsEncoding(c, s, n) ==
  /\ s \in Seq(Bytes) /\ Len(s) = n
  /\ type(Byte(s, 1)) = n /\ Byte(s, 1) % Keeps[n] = c \div Weight[n]
  /\ \A i \in 2..n : /\ Byte(s, i) \in 128..191
                     /\ Byte(s, i) % 64 = (c \div Weight[n - i + 1]) % 64

(* The first byte of an encoding.                                          *)
LEMMA FirstByte ==
  ASSUME NEW c, IsPoint(c), NEW n, n = ucs4_char_len(c)
  PROVE  LET x == c \div Weight[n]
             b == Mark[n] + (x % Keeps[n])
         IN  b \in 1..255 /\ type(b) = n /\ b % Keeps[n] = x
<1> DEFINE x == c \div Weight[n]
           b == Mark[n] + (x % Keeps[n])
<1>1. n \in 1..6 /\ x \in 0..(Keeps[n] - 1) /\ (n = 1 => x = c /\ c \in 1..127)
  <2>1. c \in Nat /\ c > 0
    BY SMT DEF IsPoint
  <2>2. n \in 1..6 /\ x \in 0..(Keeps[n] - 1) /\ (n = 1 => c < 128)
    BY RoomFor
  <2>3. Weight[1] = 1 /\ c \div 1 = c
    BY <2>1, SMT DEF Weight
  <2> QED BY <2>1, <2>2, <2>3, SMT
<1> HIDE DEF x
<1>2. CASE n = 1
  <2>1. x \in 1..127
    BY <1>1, <1>2
  <2>2. Mark[1] = 0 /\ Keeps[1] = 256
    BY DEF Mark, Keeps
  <2>3. x % 256 = x /\ 0 + x = x /\ x \in 0..255 /\ x < 128 /\ x \in 1..255
    BY <2>1, SMT
  <2>4. b = x
    BY <1>2, <2>2, <2>3
  <2>5. type(x) = 1
    BY <2>3, TypeCases, SMTT(30)
  <2> HIDE DEF b
  <2> QED BY <1>2, <2>2, <2>3, <2>4, <2>5 DEF b, x
<1>3. CASE n = 2
  <2>1. Mark[2] = 192 /\ Keeps[2] = 32
    BY DEF Mark, Keeps
  <2>2. x \in 0..31 /\ b = 192 + (x % 32)
    BY <1>1, <1>3, <2>1
  <2> HIDE DEF b
  <2>3. type(b) = 2 /\ b % 32 = x /\ b \in 1..255
    BY <2>2, FirstByteOf2
  <2> QED BY <1>3, <2>1, <2>3 DEF b, x
<1>4. CASE n = 3
  <2>1. Mark[3] = 224 /\ Keeps[3] = 16
    BY DEF Mark, Keeps
  <2>2. x \in 0..15 /\ b = 224 + (x % 16)
    BY <1>1, <1>4, <2>1
  <2> HIDE DEF b
  <2>3. type(b) = 3 /\ b % 16 = x /\ b \in 1..255
    BY <2>2, FirstByteOf3
  <2> QED BY <1>4, <2>1, <2>3 DEF b, x
<1>5. CASE n = 4
  <2>1. Mark[4] = 240 /\ Keeps[4] = 8
    BY DEF Mark, Keeps
  <2>2. x \in 0..7 /\ b = 240 + (x % 8)
    BY <1>1, <1>5, <2>1
  <2> HIDE DEF b
  <2>3. type(b) = 4 /\ b % 8 = x /\ b \in 1..255
    BY <2>2, FirstByteOf4
  <2> QED BY <1>5, <2>1, <2>3 DEF b, x
<1>6. CASE n = 5
  <2>1. Mark[5] = 248 /\ Keeps[5] = 4
    BY DEF Mark, Keeps
  <2>2. x \in 0..3 /\ b = 248 + (x % 4)
    BY <1>1, <1>6, <2>1
  <2> HIDE DEF b
  <2>3. type(b) = 5 /\ b % 4 = x /\ b \in 1..255
    BY <2>2, FirstByteOf5
  <2> QED BY <1>6, <2>1, <2>3 DEF b, x
<1>7. CASE n = 6
  <2>1. Mark[6] = 252 /\ Keeps[6] = 2
    BY DEF Mark, Keeps
  <2>2. x \in 0..1 /\ b = 252 + (x % 2)
    BY <1>1, <1>7, <2>1
  <2> HIDE DEF b
  <2>3. type(b) = 6 /\ b % 2 = x /\ b \in 1..255
    BY <2>2, FirstByteOf6
  <2> QED BY <1>7, <2>1, <2>3 DEF b, x
<1>8. n = 1 \/ n = 2 \/ n = 3 \/ n = 4 \/ n = 5 \/ n = 6
  BY <1>1
<1> QED BY <1>2, <1>3, <1>4, <1>5, <1>6, <1>7, <1>8, Zenon

(* What is left above a weight is a number.                                *)
LEMMA WeightIs ==
  ASSUME NEW c \in Nat, NEW i \in 1..6
  PROVE  c \div Weight[i] \in Nat
<1>1. Weight[i] \in Nat /\ Weight[i] > 0
  BY SMT DEF Weight
<1>2. ASSUME NEW w \in Nat, w > 0 PROVE c \div w \in Nat
  BY <1>2
<1> QED BY <1>1, <1>2

(* An encoding, byte by byte.                                              *)
LEMMA EncodingIs ==
  ASSUME NEW c, IsPoint(c)
  PROVE  IsEncoding(c, ucs4_to_utf8(c), ucs4_char_len(c)) /\ ucs4_char_len(c) \in 1..6
<1> DEFINE n == ucs4_char_len(c)
           s == ucs4_to_utf8(c)
           first == Mark[n] + ((c \div Weight[n]) % Keeps[n])
           other(i) == 128 + ((c \div Weight[n - i + 1]) % 64)
<1>1. n \in 1..6 /\ c \in Nat
  <2>1. c \in Nat
    BY SMT DEF IsPoint
  <2> QED BY <2>1, RoomFor
<1>2. s = [i \in 1..n |-> IF i = 1 THEN Mark[n] + ((c \div Weight[n - i + 1]) % Keeps[n]) ELSE other(i)]
  BY SMTT(30) DEF ucs4_to_utf8
<1>3. first \in 1..255 /\ type(first) = n /\ first % Keeps[n] = c \div Weight[n]
  BY FirstByte
<1> HIDE DEF n
<1>4. n - 1 + 1 = n /\ 1 \in 1..n
  BY <1>1, SMTT(30)
<1>5. ASSUME NEW i \in 2..n
      PROVE  other(i) \in 128..191 /\ other(i) % 64 = (c \div Weight[n - i + 1]) % 64 /\ other(i) \in 1..255
  <2>1. n - i + 1 \in 1..6
    BY <1>1
  <2>2. PICK x \in Nat : x = c \div Weight[n - i + 1]
    BY <1>1, <2>1, WeightIs
  <2> QED BY <2>2, TailByte
<1> HIDE DEF s, other
<1>6. s[1] = first
  BY <1>2, <1>4
<1> HIDE DEF first
<1>7. ASSUME NEW i \in 1..n, i # 1 PROVE s[i] = other(i) /\ i \in 2..n
  BY <1>1, <1>2, <1>7
<1>8. \A i \in 1..n : s[i] \in Bytes
  <2> SUFFICES ASSUME NEW i \in 1..n PROVE s[i] \in Bytes
    OBVIOUS
  <2>1. CASE i = 1
    <3>1. s[i] \in 1..255
      BY <1>3, <1>6, <2>1
    <3> QED BY <3>1 DEF Bytes
  <2>2. CASE i # 1
    <3>1. s[i] \in 1..255
      BY <1>5, <1>7, <2>2
    <3> QED BY <3>1 DEF Bytes
  <2> QED BY <2>1, <2>2
<1>9. s \in Seq(Bytes) /\ Len(s) = n
  <2>1. n \in Nat
    BY <1>1
  <2>2. s \in [1..n -> Bytes]
    BY <1>2, <1>8
  <2> QED BY <2>1, <2>2
<1>10. \A i \in 1..n : Byte(s, i) = s[i]
  <2> SUFFICES ASSUME NEW i \in 1..n PROVE Byte(s, i) = s[i]
    OBVIOUS
  <2>1. DOMAIN s = 1..n
    BY <1>9
  <2> QED BY <2>1 DEF Byte
<1>11. Byte(s, 1) = first
  BY <1>4, <1>6, <1>10
<1>12. \A i \in 2..n : Byte(s, i) = other(i)
  <2> SUFFICES ASSUME NEW i \in 2..n PROVE Byte(s, i) = other(i)
    OBVIOUS
  <2>1. i \in 1..n /\ i # 1
    BY <1>1
  <2> QED BY <1>7, <1>10, <2>1
<1>13. IsEncoding(c, s, n)
  BY <1>3, <1>5, <1>9, <1>11, <1>12 DEF IsEncoding
<1> QED BY <1>1, <1>13 DEF s, n


(* The digits of an encoding make the character again.                     *)
LEMMA BitsOfEncoding ==
  ASSUME NEW c, IsPoint(c), NEW s, NEW n \in 1..6, IsEncoding(c, s, n)
  PROVE  Bits(s, n) = c
<1> DEFINE q(k) == c \div Weight[k]
           r(k) == q(k) % 64
           b(i) == Byte(s, i)
           d(i) == b(i) % 64
<1>1. c \in Nat
  BY SMT DEF IsPoint
<1>2. q(1) = c /\ \A k \in 1..5 : q(k) = q(k + 1) * 64 + r(k)
  <2>1. /\ Weight[1] = 1 /\ Weight[2] = 64 /\ Weight[3] = 4096 /\ Weight[4] = 262144
        /\ Weight[5] = 16777216 /\ Weight[6] = 1073741824
    BY SMT DEF Weight
  <2>2. q(1) = c
    BY <1>1, <2>1, SMT
  <2>3. q(1) = q(2) * 64 + r(1)
    BY <1>1, <2>1, DigitsMake, SMT
  <2>4. q(2) = q(3) * 64 + r(2)
    BY <1>1, <2>1, DigitsMake, SMT
  <2>5. q(3) = q(4) * 64 + r(3)
    BY <1>1, <2>1, DigitsMake, SMT
  <2>6. q(4) = q(5) * 64 + r(4)
    BY <1>1, <2>1, DigitsMake, SMT
  <2>7. q(5) = q(6) * 64 + r(5)
    BY <1>1, <2>1, DigitsMake, SMT
  <2> HIDE DEF q, r
  <2> QED BY <2>2, <2>3, <2>4, <2>5, <2>6, <2>7, SMT
<1>3. b(1) % Keeps[n] = q(n) /\ \A i \in 2..n : d(i) = r(n - i + 1)
  BY DEF IsEncoding
<1>4. Keeps[1] = 256 /\ Keeps[2] = 32 /\ Keeps[3] = 16 /\ Keeps[4] = 8 /\ Keeps[5] = 4 /\ Keeps[6] = 2
  BY DEF Keeps
<1>5. b(1) \in 0..255 /\ b(1) % 256 = b(1)
  <2>1. s \in Seq(Bytes) /\ 1 \in Nat \ {0}
    BY DEF IsEncoding
  <2>2. b(1) \in 0..255
    BY <2>1, ByteRange
  <2> QED BY <2>2, RestOfByte
<1>6. /\ Bits(s, 1) = b(1)
      /\ Bits(s, 2) = (b(1) % 32) * 64 + d(2)
      /\ Bits(s, 3) = ((b(1) % 16) * 64 + d(2)) * 64 + d(3)
      /\ Bits(s, 4) = (((b(1) % 8) * 64 + d(2)) * 64 + d(3)) * 64 + d(4)
      /\ Bits(s, 5) = ((((b(1) % 4) * 64 + d(2)) * 64 + d(3)) * 64 + d(4)) * 64 + d(5)
      /\ Bits(s, 6) = (((((b(1) % 2) * 64 + d(2)) * 64 + d(3)) * 64 + d(4)) * 64 + d(5)) * 64 + d(6)
  <2>1. s \in Seq(Bytes)
    BY DEF IsEncoding
  <2> QED BY <2>1, BitsAre
<1> HIDE DEF q, r, b, d
<1>7. CASE n = 1
  BY <1>2, <1>3, <1>4, <1>5, <1>6, <1>7
<1>8. CASE n = 2
  <2>1. b(1) % 32 = q(2) /\ d(2) = r(1)
    BY <1>3, <1>4, <1>8, SMT
  <2> QED BY <1>2, <1>6, <1>8, <2>1, SMT
<1>9. CASE n = 3
  <2>1. b(1) % 16 = q(3) /\ d(2) = r(2) /\ d(3) = r(1)
    BY <1>3, <1>4, <1>9, SMT
  <2>2. q(2) = q(3) * 64 + r(2) /\ q(1) = q(2) * 64 + r(1)
    BY <1>2, SMT
  <2> QED BY <1>2, <1>6, <1>9, <2>1, <2>2, SMT
<1>10. CASE n = 4
  <2>1. b(1) % 8 = q(4) /\ d(2) = r(3) /\ d(3) = r(2) /\ d(4) = r(1)
    BY <1>3, <1>4, <1>10, SMT
  <2>2. q(3) = q(4) * 64 + r(3) /\ q(2) = q(3) * 64 + r(2) /\ q(1) = q(2) * 64 + r(1)
    BY <1>2, SMT
  <2> QED BY <1>2, <1>6, <1>10, <2>1, <2>2, SMT
<1>11. CASE n = 5
  <2>1. b(1) % 4 = q(5) /\ d(2) = r(4) /\ d(3) = r(3) /\ d(4) = r(2) /\ d(5) = r(1)
    BY <1>3, <1>4, <1>11, SMT
  <2>2. q(4) = q(5) * 64 + r(4) /\ q(3) = q(4) * 64 + r(3) /\ q(2) = q(3) * 64 + r(2) /\ q(1) = q(2) * 64 + r(1)
    BY <1>2, SMT
  <2> QED BY <1>2, <1>6, <1>11, <2>1, <2>2, SMT
<1>12. CASE n = 6
  <2>1. b(1) % 2 = q(6) /\ d(2) = r(5) /\ d(3) = r(4) /\ d(4) = r(3) /\ d(5) = r(2) /\ d(6) = r(1)
    BY <1>3, <1>4, <1>12, SMT
  <2>2. /\ q(5) = q(6) * 64 + r(5) /\ q(4) = q(5) * 64 + r(4) /\ q(3) = q(4) * 64 + r(3)
        /\ q(2) = q(3) * 64 + r(2) /\ q(1) = q(2) * 64 + r(1)
    BY <1>2, SMT
  <2> QED BY <1>2, <1>6, <1>12, <2>1, <2>2, SMT
<1> QED BY <1>7, <1>8, <1>9, <1>10, <1>11, <1>12, SMT

(* A character comes back from its encoding.                               *)
LEMMA EncodingComesBack ==
  ASSUME NEW c, IsPoint(c)
  PROVE  LET s == ucs4_to_utf8(c)
         IN  /\ get_char(s) = c /\ char_len(s) = Len(s)
             /\ get_char_validated(s, 6) = IF UNICODE_VALID(c) THEN c ELSE INVALID
<1> DEFINE s == ucs4_to_utf8(c)
           n == ucs4_char_len(c)
<1>1. IsEncoding(c, s, n) /\ n \in 1..6
  BY EncodingIs
<1>2. UTF8_LENGTH(c) = n
  BY RoomFor
<1> HIDE DEF s, n
<1>3. s \in Seq(Bytes) /\ Len(s) = n /\ type(Byte(s, 1)) = n /\ \A i \in 2..n : Byte(s, i) \in 128..191
  BY <1>1 DEF IsEncoding
<1>4. Bits(s, n) = c
  BY <1>1, BitsOfEncoding
<1>5. \A i \in 2..n : IsContinuation(Byte(s, i))
  BY <1>3 DEF IsContinuation
<1>6. char_len(s) = n
  <2>1. n = 1 \/ n \in 2..6
    BY <1>1
  <2>2. char_len(s) = IF n \in 2..6 /\ \A i \in 2..n : IsContinuation(Byte(s, i)) THEN n ELSE 1
    BY <1>3 DEF char_len
  <2> QED BY <1>5, <2>1, <2>2
<1>7. get_char(s) = c
  BY <1>4, <1>6 DEF get_char
<1>8. get_char_extended(s, 6) = c
  <2>1. BadBytes(s, n) = {}
    BY <1>5 DEF BadBytes
  <2>2. CASE n = 1
    <3>1. get_char_extended(s, 6) = Byte(s, 1)
      <4>1. ~(n <= 0)
        BY <2>2
      <4> QED BY <1>3, <2>2, <4>1 DEF get_char_extended
    <3>2. Byte(s, 1) = Bits(s, 1)
      BY <1>3, BitsAre
    <3> QED BY <1>4, <2>2, <3>1, <3>2
  <2>3. CASE n # 1
    <3>1. ~(n <= 0) /\ ~(n > 6)
      BY <1>1
    <3>2. Shortest(Bits(s, n), n)
      BY <1>2, <1>4 DEF Shortest
    <3> QED BY <1>3, <1>4, <2>1, <2>3, <3>1, <3>2, Zenon DEF get_char_extended
  <2> QED BY <2>2, <2>3
<1>9. c >= 0
  <2>1. c \in Nat
    BY SMT DEF IsPoint
  <2> QED BY <2>1
<1>10. get_char_validated(s, 6) = IF UNICODE_VALID(c) THEN c ELSE INVALID
  <2>1. 6 # 0
    OBVIOUS
  <2> HIDE DEF UNICODE_VALID
  <2> QED BY <1>8, <1>9, <2>1, Zenon DEF get_char_validated
<1> QED BY <1>3, <1>6, <1>7, <1>10, Zenon DEF s


----------------------------------------------------------------------------
(* A bounded copy is the beginning up to the cut and zeros behind it,      *)
(* which fcitx_utf8_strnlen counts right, and of a good string the longest *)
(* good beginning that fits.                                               *)
LEMMA CopyIs ==
  ASSUME NEW s \in Seq(Bytes), NEW n \in Nat
  PROVE  \E k \in 0..Len(s) :
           /\ k <= n /\ strncpy(s, n) = [i \in 1..n |-> IF i <= k THEN s[i] ELSE 0]
           /\ strnlen(s, n) = strlen(SubSeq(s, 1, k))
           /\ check_string(s) => IsLongestGood(s, k, n)
<1> DEFINE k == Cut(s, n)
<1>1. k \in 0..Len(s) /\ k <= n
  BY CutIs, EndsAre
<1>2. strncpy(s, n) = [i \in 1..n |-> IF i <= k THEN s[i] ELSE 0]
  BY DEF strncpy
<1>3. strnlen(s, n) = strlen(SubSeq(s, 1, k))
  BY PrefixLength
<1>4. check_string(s) => IsLongestGood(s, k, n)
  BY PrefixIsLongestGood
<1> HIDE DEF k
<1> QED BY <1>1, <1>2, <1>3, <1>4

(* What a run of calls can have in call.                                   *)
PureTypeOK ==
  \/ call = Idle
  \/ call.of = "utf8" /\ call.s \in Seq(Bytes)
  \/ call.of = "ucs4" /\ IsPoint(call.c)
  \/ call.of = "sort" /\ call.keys \in Seq(Int)

(* The characters that are encoded.                                        *)
LEMMA CodePointIsPoint ==
  ASSUME NEW c \in CodePoints
  PROVE  IsPoint(c)
<1>1. c \in Encodable
  BY Utf8Assumption DEF Utf8Assumption
<1> QED BY <1>1, SMT DEF Encodable, IsPoint

(* The strings that are checked.                                           *)
LEMMA StringsAreBytes ==
  ASSUME NEW lead \in LeadBytes, NEW rest \in UpTo(TailBytes, MaxLen - 1)
  PROVE  <<lead>> \o rest \in Seq(Bytes)
<1>1. LeadBytes \subseteq Bytes /\ TailBytes \subseteq Bytes /\ MaxLen \in Nat
  BY Utf8Assumption DEF Utf8Assumption
<1>2. PICK k \in 0..(MaxLen - 1) : rest \in [1..k -> TailBytes]
  BY DEF UpTo
<1>3. k \in Nat
  BY <1>1
<1>4. rest \in Seq(Bytes)
  <2>1. rest \in [1..k -> Bytes]
    BY <1>1, <1>2
  <2> QED BY <1>3, <2>1
<1>5. <<lead>> \in Seq(Bytes)
  BY <1>1
<1> QED BY <1>4, <1>5, ConcatProperties

(* The keys that are sorted.                                               *)
LEMMA KeysAreIntegers ==
  ASSUME NEW ks \in UpTo(SortKeys, MaxLen + 1)
  PROVE  ks \in Seq(Int)
<1>1. SortKeys \subseteq Int /\ MaxLen \in Nat
  BY SortAssumption, Utf8Assumption DEF SortAssumption, Utf8Assumption
<1>2. PICK k \in 0..(MaxLen + 1) : ks \in [1..k -> SortKeys]
  BY DEF UpTo
<1>3. k \in Nat
  BY <1>1
<1>4. ks \in [1..k -> Int]
  BY <1>1, <1>2
<1> QED BY <1>3, <1>4

(***************************************************************************)
(* The functions of utf8.c are called with strings of bytes that hold no   *)
(* terminator, and with characters that the encoder of ucs4_to_utf8 keeps, *)
(* the sorts with keys that can be compared.                               *)
(***************************************************************************)
THEOREM PureTypes == PureSpec => []PureTypeOK
<1>1. call = Idle => PureTypeOK
  BY DEF PureTypeOK
<1>2. PureTypeOK /\ [PureCalls \/ Return]_call => PureTypeOK'
  <2> SUFFICES ASSUME PureTypeOK, [PureCalls \/ Return]_call PROVE PureTypeOK'
    OBVIOUS
  <2>1. CASE CheckString
    <3>1. PICK lead \in LeadBytes, rest \in UpTo(TailBytes, MaxLen - 1) : call' = [of |-> "utf8", s |-> <<lead>> \o rest]
      BY <2>1 DEF CheckString, Call
    <3> DEFINE t == <<lead>> \o rest
    <3>2. t \in Seq(Bytes)
      BY StringsAreBytes
    <3> HIDE DEF t
    <3>3. call'.of = "utf8" /\ call'.s = t
      BY <3>1 DEF t
    <3> QED BY <3>2, <3>3 DEF PureTypeOK
  <2>2. CASE Encode
    <3>1. PICK c \in CodePoints : call' = [of |-> "ucs4", c |-> c]
      BY <2>2 DEF Encode, Call
    <3>2. call'.of = "ucs4" /\ call'.c = c
      BY <3>1
    <3> QED BY <3>2, CodePointIsPoint DEF PureTypeOK
  <2>3. CASE Sort
    <3>1. PICK ks \in UpTo(SortKeys, MaxLen + 1) : call' = [of |-> "sort", keys |-> ks]
      BY <2>3 DEF Sort, Call
    <3>2. ks \in Seq(Int)
      BY KeysAreIntegers
    <3>3. call'.of = "sort" /\ call'.keys = ks
      BY <3>1
    <3> QED BY <3>2, <3>3 DEF PureTypeOK
  <2>4. CASE Return
    BY <2>4 DEF Return, PureTypeOK, Idle
  <2>5. CASE UNCHANGED call
    BY <2>5 DEF PureTypeOK, Idle
  <2> QED BY <2>1, <2>2, <2>3, <2>4, <2>5 DEF PureCalls
<1> QED BY <1>1, <1>2, PTL DEF PureSpec

(***************************************************************************)
(* The UTF-8 functions keep their promises for every string and every      *)
(* character: checking, counting, copying, cutting and encoding agree.     *)
(***************************************************************************)
THEOREM Utf8IsWellFormed == PureSpec => []Utf8WellFormed
<1>1. ASSUME PureTypeOK PROVE Utf8WellFormed
  <2>1. ASSUME call.of = "utf8"
        PROVE  LET s == call.s
                   good == check_string(s)
                   tail == get_ascii_partn(s, Len(s))
                   rest == get_ascii_endn(s, Len(s))
               IN  /\ good <=> WellFormed(s)
                   /\ strlen(s) \in 0..Len(s) /\ get_nth_char(s, strlen(s)) = <<>>
                   /\ \A n \in 0..(Len(s) + 1) : \E k \in 0..Len(s) :
                        /\ k <= n /\ strncpy(s, n) = [i \in 1..n |-> IF i <= k THEN s[i] ELSE 0]
                        /\ strnlen(s, n) = strlen(SubSeq(s, 1, k))
                        /\ good => IsLongestGood(s, k, n)
                   /\ good =>
                        /\ check_string(tail) /\ (\A i \in DOMAIN tail : tail[i] < 128)
                        /\ \E i \in 0..Len(s) : tail = After(s, i) /\ (i > 0 => s[i] > 127)
                        /\ check_string(rest) /\ (rest # <<>> => rest[1] > 127)
                        /\ \E i \in 0..Len(s) : rest = After(s, i) /\ \A j \in 1..i : s[j] < 128
    <3> DEFINE s == call.s
    <3>1. s \in Seq(Bytes)
      <4>1. Idle.of = "idle"
        BY DEF Idle
      <4> QED BY <1>1, <2>1, <4>1 DEF PureTypeOK
    <3> HIDE DEF s
    <3>2. check_string(s) <=> WellFormed(s)
      BY <3>1, CheckAcceptsWellFormed
    <3>3. strlen(s) \in 0..Len(s) /\ get_nth_char(s, strlen(s)) = <<>>
      <4>1. strlen(s) \in 0..Len(s) /\ Offset(s, strlen(s)) = Len(s)
        BY <3>1, StrlenIs
      <4>2. After(s, Len(s)) = <<>>
        <5>1. Len(s) \in 0..Len(s)
          BY <3>1
        <5>2. After(s, Len(s)) \in Seq(Bytes) /\ Len(After(s, Len(s))) = 0
          BY <3>1, <5>1, AfterReads
        <5> QED BY <5>2, EmptySeq
      <4> QED BY <4>1, <4>2 DEF get_nth_char
    <3>4. ASSUME NEW n \in 0..(Len(s) + 1)
          PROVE  \E k \in 0..Len(s) :
                   /\ k <= n /\ strncpy(s, n) = [i \in 1..n |-> IF i <= k THEN s[i] ELSE 0]
                   /\ strnlen(s, n) = strlen(SubSeq(s, 1, k))
                   /\ check_string(s) => IsLongestGood(s, k, n)
      <4>1. n \in Nat
        BY <3>1
      <4> QED BY <3>1, <4>1, CopyIs
    <3> DEFINE tail == get_ascii_partn(s, Len(s))
               rest == get_ascii_endn(s, Len(s))
    <3>5. /\ check_string(tail) /\ \A i \in DOMAIN tail : tail[i] < 128
          /\ \E i \in 0..Len(s) : tail = After(s, i) /\ (i > 0 => s[i] > 127)
      BY <3>1, AsciiTail
    <3>6. ASSUME check_string(s)
          PROVE  /\ check_string(rest) /\ (rest # <<>> => rest[1] > 127)
                 /\ \E i \in 0..Len(s) : rest = After(s, i) /\ \A j \in 1..i : s[j] < 128
      BY <3>1, <3>6, AsciiRest
    <3> HIDE DEF tail, rest
    <3> QED BY <3>2, <3>3, <3>4, <3>5, <3>6 DEF s, tail, rest
  <2>2. ASSUME call.of = "ucs4"
        PROVE  LET s == ucs4_to_utf8(call.c)
               IN  /\ get_char(s) = call.c /\ char_len(s) = Len(s)
                   /\ get_char_validated(s, 6) = IF UNICODE_VALID(call.c) THEN call.c ELSE INVALID
    <3>1. IsPoint(call.c)
      <4>1. Idle.of = "idle"
        BY DEF Idle
      <4> QED BY <1>1, <2>2, <4>1 DEF PureTypeOK
    <3> QED BY <3>1, EncodingComesBack
  <2> QED BY <2>1, <2>2, Zenon DEF Utf8WellFormed
<1> QED BY <1>1, PureTypes, PTL

----------------------------------------------------------------------------
(***************************************************************************)
(* Sorting.                                                                *)
(***************************************************************************)
(* Equal ones in the order of their ids.                                   *)
ById(s) == \A i, j \in DOMAIN s : i < j => s[i].id < s[j].id

(* What is sorted has keys and ids that can be compared.                   *)
LEMMA SortableIs ==
  ASSUME NEW s \in Seq(Sortable)
  PROVE  /\ DOMAIN s = 1..Len(s) /\ Len(s) \in Nat
         /\ \A i \in 1..Len(s) : s[i] \in Sortable /\ s[i].key \in Int /\ s[i].id \in Nat
<1>1. \A i \in 1..Len(s) : s[i] \in Sortable
  OBVIOUS
<1> QED BY <1>1 DEF Sortable

(* Where an element sinks to.                                              *)
SinksTo(t, s, j, p) ==
  /\ p \in 1..j
  /\ p > 1 => s[p - 1].key <= s[j].key
  /\ \A i \in p..(j - 1) : s[i].key > s[j].key
  /\ t = [i \in DOMAIN s |-> IF i = p THEN s[j] ELSE IF i \in p..j THEN s[i - 1] ELSE s[i]]

LEMMA SinkIs ==
  ASSUME NEW s \in Seq(Sortable), NEW j \in 1..Len(s)
  PROVE  \E p \in 1..j : SinksTo(Sink(s, j), s, j, p)
<1> DEFINE Stops(q) == (q > 1 => s[q - 1].key <= s[j].key) /\ \A i \in q..(j - 1) : s[i].key > s[j].key
           Q == {q \in 1..j : \A i \in q..(j - 1) : s[i].key > s[j].key}
           p == CHOOSE q \in 1..j : Stops(q)
<1>1. \A i \in 1..Len(s) : s[i].key \in Int
  BY SortableIs
<1>2. Q \subseteq Nat /\ j \in Q
  OBVIOUS
<1>3. PICK q \in Q : \A r \in Q : q <= r
  <2> HIDE DEF Q
  <2> QED BY <1>2, LeastElement
<1>4. Stops(q)
  <2>1. ASSUME q > 1 PROVE s[q - 1].key <= s[j].key
    <3>1. q - 1 \in 1..j /\ q - 1 \notin Q /\ q \in 1..j
      BY <1>3, <2>1
    <3>2. PICK i \in (q - 1)..(j - 1) : ~(s[i].key > s[j].key)
      BY <3>1
    <3>3. i = q - 1
      BY <3>1, <3>2
    <3>4. i \in 1..Len(s) /\ j \in 1..Len(s)
      BY <3>1, <3>3
    <3> QED BY <1>1, <3>2, <3>3, <3>4
  <2> QED BY <2>1
<1>5. p \in 1..j /\ Stops(p)
  <2> HIDE DEF Stops
  <2> QED BY <1>4
<1>6. Sink(s, j) = [i \in DOMAIN s |-> IF i = p THEN s[j] ELSE IF i \in p..j THEN s[i - 1] ELSE s[i]]
  BY DEF Sink
<1> HIDE DEF p
<1> QED BY <1>5, <1>6 DEF SinksTo

(* The result, place by place.                                             *)
LEMMA SunkIs ==
  ASSUME NEW s \in Seq(Sortable), NEW j \in 1..Len(s), NEW p, NEW t, SinksTo(t, s, j, p)
  PROVE  /\ t \in Seq(Sortable) /\ Len(t) = Len(s)
         /\ t[p] = s[j]
         /\ \A i \in 1..Len(s) : /\ i < p => t[i] = s[i]
                                 /\ i > j => t[i] = s[i]
                                 /\ p < i /\ i <= j => t[i] = s[i - 1]
<1>1. DOMAIN s = 1..Len(s) /\ Len(s) \in Nat /\ \A i \in 1..Len(s) : s[i] \in Sortable
  BY SortableIs
<1>2. p \in 1..j /\ t = [i \in 1..Len(s) |-> IF i = p THEN s[j] ELSE IF i \in p..j THEN s[i - 1] ELSE s[i]]
  BY <1>1 DEF SinksTo
<1>3. ASSUME NEW i \in 1..Len(s) PROVE t[i] \in Sortable
  <2>1. i \in p..j /\ i # p => i - 1 \in 1..Len(s)
    BY <1>2
  <2> QED BY <1>1, <1>2, <2>1
<1>4. t \in [1..Len(s) -> Sortable]
  BY <1>2, <1>3
<1>5. t \in Seq(Sortable) /\ Len(t) = Len(s)
  BY <1>1, <1>4
<1> QED BY <1>1, <1>2, <1>5

(* The first j elements are in order, those of s, and the others are where *)
(* they were.                                                              *)
SunkTo(t, s, j) ==
  /\ t \in Seq(Sortable) /\ Len(t) = Len(s)
  /\ \A i, m \in 1..j : i < m => t[i].key <= t[m].key
  /\ \A i \in (j + 1)..Len(s) : t[i] = s[i]
  /\ \A i \in 1..j : \E m \in 1..j : t[i] = s[m]
  /\ \A m \in 1..j : \E i \in 1..j : t[i] = s[m]
  /\ ById(s) => \A i, m \in 1..j : i < m /\ t[i].key = t[m].key => t[i].id < t[m].id

(* One more sinks.                                                         *)
LEMMA SinkKeeps ==
  ASSUME NEW s \in Seq(Sortable), NEW t, NEW j \in 1..Len(s), SunkTo(t, s, j - 1)
  PROVE  SunkTo(Sink(t, j), s, j)
<1> DEFINE u == Sink(t, j)
           n == Len(s)
<1>1. t \in Seq(Sortable) /\ Len(t) = n /\ n \in Nat /\ j \in 1..n /\ t[j] = s[j]
  <2>1. (j - 1) + 1 = j /\ j \in j..n
    OBVIOUS
  <2> QED BY <2>1 DEF SunkTo
<1>o. \A i, m \in 1..(j - 1) : i < m => t[i].key <= t[m].key
  BY DEF SunkTo
<1>f. /\ \A i \in 1..(j - 1) : \E m \in 1..(j - 1) : t[i] = s[m]
      /\ \A m \in 1..(j - 1) : \E i \in 1..(j - 1) : t[i] = s[m]
  BY DEF SunkTo
<1>a. \A i \in (j + 1)..n : t[i] = s[i]
  <2>1. \A i \in (j + 1)..n : i \in ((j - 1) + 1)..n
    BY <1>1
  <2> QED BY <2>1 DEF SunkTo
<1>2. PICK p \in 1..j : SinksTo(u, t, j, p)
  BY <1>1, SinkIs
<1>3. /\ u \in Seq(Sortable) /\ Len(u) = n /\ u[p] = t[j]
      /\ \A i \in 1..n : /\ i < p => u[i] = t[i]
                         /\ i > j => u[i] = t[i]
                         /\ p < i /\ i <= j => u[i] = t[i - 1]
  BY <1>1, <1>2, SunkIs
<1>4. /\ \A i \in 1..n : t[i].key \in Int /\ t[i].id \in Nat
      /\ \A i \in 1..n : u[i].key \in Int /\ u[i].id \in Nat
  BY <1>1, <1>3, SortableIs
<1>5. /\ \A i \in 1..(p - 1) : t[i].key <= t[j].key
      /\ \A i \in p..(j - 1) : t[i].key > t[j].key
  <2>1. p > 1 => t[p - 1].key <= t[j].key
    BY <1>2 DEF SinksTo
  <2>2. \A i \in p..(j - 1) : t[i].key > t[j].key
    BY <1>2 DEF SinksTo
  <2>3. ASSUME NEW i \in 1..(p - 1) PROVE t[i].key <= t[j].key
    <3>1. p > 1 /\ p - 1 \in 1..n /\ i \in 1..n /\ j \in 1..n /\ i \in 1..(j - 1) /\ p - 1 \in 1..(j - 1)
      BY <1>1
    <3>2. i < p - 1 => t[i].key <= t[p - 1].key
      BY <1>o, <3>1
    <3>3. i = p - 1 \/ i < p - 1
      BY <3>1
    <3> QED BY <1>4, <2>1, <3>1, <3>2, <3>3, SMTT(30)
  <2> QED BY <2>2, <2>3
<1> HIDE DEF u, n
<1>6. ASSUME NEW i \in 1..j, NEW m \in 1..j, i < m PROVE u[i].key <= u[m].key
  <2>1. i \in 1..n /\ m \in 1..n /\ j \in 1..n
    BY <1>1
  <2>2. CASE m < p
    BY <1>o, <1>3, <1>6, <2>1, <2>2
  <2>3. CASE m = p
    BY <1>3, <1>5, <1>6, <2>1, <2>3
  <2>4. CASE m > p /\ i < p
    <3>1. m - 1 \in 1..(j - 1) /\ i \in 1..(j - 1) /\ i < m - 1
      BY <2>4
    <3> QED BY <1>o, <1>3, <2>1, <2>4, <3>1
  <2>5. CASE m > p /\ i = p
    <3>1. m - 1 \in p..(j - 1) /\ m - 1 \in 1..n
      BY <1>1, <2>1, <2>5
    <3>2. u[m] = t[m - 1] /\ u[i] = t[j]
      BY <1>3, <2>1, <2>5
    <3>3. t[m - 1].key > t[j].key
      BY <1>5, <3>1
    <3> QED BY <1>4, <2>1, <3>1, <3>2, <3>3
  <2>6. CASE m > p /\ i > p
    <3>1. m - 1 \in 1..(j - 1) /\ i - 1 \in 1..(j - 1) /\ i - 1 < m - 1
      BY <1>6, <2>6
    <3> QED BY <1>o, <1>3, <2>1, <2>6, <3>1
  <2> QED BY <2>2, <2>3, <2>4, <2>5, <2>6
<1>7. ASSUME NEW i \in (j + 1)..n PROVE u[i] = s[i]
  <2>1. i \in 1..n /\ i > j
    BY <1>1
  <2> QED BY <1>a, <1>3, <2>1
<1>8. ASSUME NEW i \in 1..j PROVE \E m \in 1..j : u[i] = s[m]
  <2>1. i \in 1..n /\ j \in 1..j
    BY <1>1
  <2>2. CASE i = p
    BY <1>1, <1>3, <2>1, <2>2
  <2>3. CASE i < p
    <3>1. i \in 1..(j - 1)
      BY <2>3
    <3>2. PICK m \in 1..(j - 1) : t[i] = s[m]
      BY <1>f, <3>1
    <3> QED BY <1>3, <2>1, <2>3, <3>2
  <2>4. CASE i > p
    <3>1. i - 1 \in 1..(j - 1)
      BY <2>4
    <3>2. PICK m \in 1..(j - 1) : t[i - 1] = s[m]
      BY <1>f, <3>1
    <3> QED BY <1>3, <2>1, <2>4, <3>2
  <2> QED BY <2>2, <2>3, <2>4
<1>9. ASSUME NEW m \in 1..j PROVE \E i \in 1..j : u[i] = s[m]
  <2>1. CASE m = j
    BY <1>1, <1>3, <2>1
  <2>2. CASE m # j
    <3>1. m \in 1..(j - 1)
      BY <2>2
    <3>2. PICK i \in 1..(j - 1) : t[i] = s[m]
      BY <1>f, <3>1
    <3>3. i \in 1..n /\ i + 1 \in 1..n /\ i + 1 \in 1..j /\ i \in 1..j /\ (i + 1) - 1 = i
      BY <1>1
    <3>4. CASE i < p
      BY <1>3, <3>2, <3>3, <3>4
    <3>5. CASE ~(i < p)
      <4>1. p < i + 1 /\ i + 1 <= j
        BY <3>3, <3>5
      <4>2. u[i + 1] = t[i]
        BY <1>3, <3>3, <4>1
      <4> QED BY <3>2, <3>3, <4>2
    <3> QED BY <3>4, <3>5
  <2> QED BY <2>1, <2>2
<1>10. ASSUME ById(s), NEW i \in 1..j, NEW m \in 1..j, i < m, u[i].key = u[m].key PROVE u[i].id < u[m].id
  <2>1. i \in 1..n /\ m \in 1..n /\ j \in 1..n
    BY <1>1
  <2>2. \A k, l \in 1..(j - 1) : k < l /\ t[k].key = t[l].key => t[k].id < t[l].id
    BY <1>10 DEF SunkTo
  <2>3. CASE m < p
    BY <1>3, <1>10, <2>1, <2>2, <2>3, SMTT(30)
  <2>4. CASE m = p
    <3>1. i \in 1..(j - 1) /\ u[m] = t[j] /\ u[i] = t[i]
      BY <1>3, <1>10, <2>1, <2>4
    <3>2. PICK k \in 1..(j - 1) : t[i] = s[k]
      BY <1>f, <3>1
    <3>3. k \in DOMAIN s /\ j \in DOMAIN s /\ k < j
      BY <1>1, <2>1 DEF n
    <3>4. s[k].id < s[j].id
      BY <1>10, <3>3 DEF ById
    <3> QED BY <1>1, <3>1, <3>2, <3>4
  <2>5. CASE m > p /\ i < p
    <3>1. m - 1 \in 1..(j - 1) /\ i \in 1..(j - 1) /\ i < m - 1
      BY <2>5
    <3> QED BY <1>3, <1>10, <2>1, <2>2, <2>5, <3>1, SMTT(30)
  <2>6. CASE m > p /\ i = p
    <3>1. m - 1 \in p..(j - 1) /\ m - 1 \in 1..n
      BY <1>1, <2>1, <2>6
    <3>2. u[m] = t[m - 1] /\ u[i] = t[j]
      BY <1>3, <2>1, <2>6
    <3>3. t[m - 1].key > t[j].key
      BY <1>5, <3>1
    <3> QED BY <1>4, <1>10, <2>1, <3>1, <3>2, <3>3
  <2>7. CASE m > p /\ i > p
    <3>1. m - 1 \in 1..(j - 1) /\ i - 1 \in 1..(j - 1) /\ i - 1 < m - 1
      BY <1>10, <2>7
    <3> QED BY <1>3, <1>10, <2>1, <2>2, <2>7, <3>1, SMTT(30)
  <2> QED BY <2>3, <2>4, <2>5, <2>6, <2>7
<1> QED BY <1>3, <1>6, <1>7, <1>8, <1>9, <1>10 DEF SunkTo, u, n

(* Insertion sort, step by step.                                           *)
LEMMA InsertionSteps ==
  ASSUME NEW s \in Seq(Sortable)
  PROVE  \E F : /\ F[0] = s /\ \A j \in 1..Len(s) : F[j] = Sink(F[j - 1], j)
                /\ insertion_sort(s) = F[Len(s)]
<1> DEFINE N == Len(s)
           V == {t \in Seq(Sortable) : Len(t) = N}
           step == [x \in V \X (1..N) |-> Sink(x[1], x[2])]
           Is(g) == g = [j \in 0..N |-> IF j = 0 THEN s ELSE Sink(g[j - 1], j)]
           F == CHOOSE g : Is(g)
<1>1. N \in Nat /\ s \in V
  OBVIOUS
<1>2. ASSUME NEW t \in V, NEW j \in 1..N PROVE Sink(t, j) \in V
  <2>1. t \in Seq(Sortable) /\ Len(t) = N /\ j \in 1..Len(t)
    OBVIOUS
  <2>2. PICK p \in 1..j : SinksTo(Sink(t, j), t, j, p)
    BY <2>1, SinkIs
  <2> QED BY <2>1, <2>2, SunkIs
<1>3. step \in [V \X (1..N) -> V] /\ \A t \in V, j \in 1..N : step[<<t, j>>] = Sink(t, j)
  <2> HIDE DEF V
  <2> QED BY <1>2
<1> HIDE DEF step, V
<1>4. PICK f : IsSteps(f, N, V, s, step)
  BY <1>1, <1>3, StepsExist
<1>5. Is(f)
  <2>1. f = [j \in 0..N |-> f[j]]
    BY <1>4 DEF IsSteps
  <2>2. ASSUME NEW j \in 0..N PROVE f[j] = IF j = 0 THEN s ELSE Sink(f[j - 1], j)
    <3>1. j # 0 => j \in 1..N /\ j - 1 \in 0..N
      BY <1>1
    <3> QED BY <1>3, <1>4, <3>1 DEF IsSteps
  <2> QED BY <2>1, <2>2
<1>6. Is(F)
  <2> HIDE DEF Is
  <2> QED BY <1>5
<1>7. insertion_sort(s) = F[N]
  BY DEF insertion_sort
<1> HIDE DEF F
<1>8. F[0] = s
  BY <1>1, <1>6
<1>9. ASSUME NEW j \in 1..N PROVE F[j] = Sink(F[j - 1], j)
  <2>1. j \in 0..N /\ j # 0
    BY <1>1
  <2> QED BY <1>6, <2>1
<1> QED BY <1>7, <1>8, <1>9

(* Insertion sort puts its elements in order, equal ones in the order of   *)
(* their ids if that is how they were.                                     *)
LEMMA InsertionSorts ==
  ASSUME NEW s \in Seq(Sortable)
  PROVE  /\ insertion_sort(s) \in Seq(Sortable)
         /\ Arranges(insertion_sort(s), s)
         /\ ById(s) => Stable(insertion_sort(s))
<1> DEFINE N == Len(s)
           t == insertion_sort(s)
<1>1. PICK F : /\ F[0] = s /\ \A j \in 1..N : F[j] = Sink(F[j - 1], j)
               /\ t = F[N]
  BY InsertionSteps
<1> DEFINE T == {j \in 0..N : SunkTo(F[j], s, j)}
<1>2. N \in Nat /\ DOMAIN s = 1..N
  BY SortableIs
<1>3. 0 \in T
  <2>1. SunkTo(s, s, 0)
    BY <1>2 DEF SunkTo
  <2> QED BY <1>1, <1>2, <2>1
<1>4. ASSUME NEW j \in 0..(N - 1), j \in T PROVE j + 1 \in T
  <2>1. j + 1 \in 1..N /\ j + 1 \in 0..N /\ (j + 1) - 1 = j
    BY <1>2
  <2>2. F[j + 1] = Sink(F[j], j + 1)
    BY <1>1, <2>1
  <2>3. SunkTo(Sink(F[j], j + 1), s, j + 1)
    BY <1>4, <2>1, SinkKeeps
  <2> QED BY <2>1, <2>2, <2>3
<1>5. SunkTo(t, s, N)
  <2>1. N \in T
    <3> HIDE DEF T
    <3>1. N \in 0..N
      BY <1>2
    <3> QED BY <1>2, <1>3, <1>4, <3>1, CountingUp
  <2> QED BY <1>1, <2>1
<1> HIDE DEF t
<1>6. t \in Seq(Sortable) /\ Len(t) = N /\ DOMAIN t = 1..N
  BY <1>5, <1>2 DEF SunkTo
<1>7. Sorted(t)
  BY <1>5, <1>6 DEF SunkTo, Sorted
<1>8. Elements(t) = Elements(s)
  <2>1. \A i \in 1..N : \E m \in 1..N : t[i] = s[m]
    BY <1>5 DEF SunkTo
  <2>2. \A m \in 1..N : \E i \in 1..N : t[i] = s[m]
    BY <1>5 DEF SunkTo
  <2>3. Elements(t) \subseteq Elements(s)
    BY <1>2, <1>6, <2>1 DEF Elements
  <2>4. Elements(s) \subseteq Elements(t)
    <3>1. ASSUME NEW m \in 1..N PROVE s[m] \in Elements(t)
      BY <1>6, <2>2 DEF Elements
    <3> QED BY <1>2, <3>1 DEF Elements
  <2> QED BY <2>3, <2>4
<1>9. ById(s) => Stable(t)
  <2>1. ById(s) => \A i, m \in 1..N : i < m /\ t[i].key = t[m].key => t[i].id < t[m].id
    BY <1>5 DEF SunkTo
  <2> QED BY <1>6, <2>1 DEF Stable
<1> QED BY <1>6, <1>7, <1>8, <1>9 DEF Arranges, t

----------------------------------------------------------------------------
(* Merging.  The order that stable sorts make has no equal elements.       *)
Before(x, y) == x.key < y.key \/ (x.key = y.key /\ x.id < y.id)
Ordered(t) == \A i, j \in DOMAIN t : i < j => Before(t[i], t[j])

LEMMA BeforeIs ==
  ASSUME NEW x \in Sortable, NEW y \in Sortable
  PROVE  /\ ~(Before(x, y) /\ Before(y, x)) /\ ~Before(x, x)
         /\ \A z \in Sortable : Before(x, y) /\ Before(y, z) => Before(x, z)
BY DEF Before, Sortable

(* A place in a sequence with one more element.                            *)
LEMMA AppendIs ==
  ASSUME NEW S, NEW t \in Seq(S), NEW x \in S
  PROVE  /\ Append(t, x) \in Seq(S) /\ Len(Append(t, x)) = Len(t) + 1 /\ DOMAIN t = 1..Len(t) /\ Len(t) \in Nat
         /\ DOMAIN Append(t, x) = 1..(Len(t) + 1)
         /\ Append(t, x)[Len(t) + 1] = x /\ \A m \in 1..Len(t) : Append(t, x)[m] = t[m]
OBVIOUS

LEMMA AppendOrdered ==
  ASSUME NEW t \in Seq(Sortable), NEW x \in Sortable, Ordered(t), \A m \in 1..Len(t) : Before(t[m], x)
  PROVE  Ordered(Append(t, x))
<1> DEFINE u == Append(t, x)
           n == Len(t)
<1>1. /\ DOMAIN t = 1..n /\ n \in Nat /\ DOMAIN u = 1..(n + 1)
      /\ u[n + 1] = x /\ \A m \in 1..n : u[m] = t[m]
  BY AppendIs
<1> HIDE DEF u, n
<1>2. ASSUME NEW i \in 1..(n + 1), NEW j \in 1..(n + 1), i < j PROVE Before(u[i], u[j])
  <2>1. i \in 1..n /\ (j = n + 1 \/ j \in 1..n)
    BY <1>1, <1>2
  <2>2. CASE j = n + 1
    BY <1>1, <2>1, <2>2 DEF n
  <2>3. CASE j \in 1..n
    <3>1. Before(t[i], t[j])
      BY <1>1, <1>2, <2>1, <2>3 DEF Ordered
    <3> QED BY <1>1, <2>1, <2>3, <3>1
  <2> QED BY <2>1, <2>2, <2>3
<1> QED BY <1>1, <1>2 DEF Ordered, u

(* Merging, step by step.                                                  *)
LEMMA MergeSteps ==
  ASSUME NEW a \in Seq(Sortable), NEW b \in Seq(Sortable)
  PROVE  \E F : /\ F[0] = [i |-> 0, to |-> <<>>]
                /\ \A k \in 1..(Len(a) + Len(b)) : F[k] = MergeStep(a, b, F[k - 1], k)
                /\ Merge(a, b) = F[Len(a) + Len(b)].to
<1> DEFINE N == Len(a) + Len(b)
           base == [i |-> 0, to |-> <<>>]
           U == {a[m] : m \in Int} \cup {b[m] : m \in Int}
           V == [i : 0..Len(a), to : Seq(U)]
           step == [x \in V \X (1..N) |-> MergeStep(a, b, x[1], x[2])]
           Is(g) == g = [k \in 0..N |-> IF k = 0 THEN base ELSE MergeStep(a, b, g[k - 1], k)]
           F == CHOOSE g : Is(g)
<1>1. N \in Nat /\ base \in V
  OBVIOUS
<1>2. ASSUME NEW st \in V, NEW k \in 1..N PROVE MergeStep(a, b, st, k) \in V
  <2>1. st.i \in 0..Len(a) /\ st.to \in Seq(U) /\ k \in Int /\ Len(a) \in Nat
    BY <1>1
  <2>2. st.i + 1 \in Int /\ k - st.i \in Int /\ (st.i < Len(a) => st.i + 1 \in 0..Len(a))
    BY <2>1
  <2>3. a[st.i + 1] \in U /\ b[k - st.i] \in U
    BY <2>2
  <2> HIDE DEF U
  <2>4. Append(st.to, a[st.i + 1]) \in Seq(U) /\ Append(st.to, b[k - st.i]) \in Seq(U)
    BY <2>1, <2>3
  <2> QED BY <2>1, <2>2, <2>4 DEF MergeStep, FromLeft
<1>3. step \in [V \X (1..N) -> V] /\ \A st \in V, k \in 1..N : step[<<st, k>>] = MergeStep(a, b, st, k)
  <2> HIDE DEF V
  <2> QED BY <1>2
<1> HIDE DEF step, V, base
<1>4. PICK f : IsSteps(f, N, V, base, step)
  BY <1>1, <1>3, StepsExist
<1>5. Is(f)
  <2>1. f = [k \in 0..N |-> f[k]]
    BY <1>4 DEF IsSteps
  <2>2. ASSUME NEW k \in 0..N PROVE f[k] = IF k = 0 THEN base ELSE MergeStep(a, b, f[k - 1], k)
    <3>1. k # 0 => k \in 1..N /\ k - 1 \in 0..N
      BY <1>1
    <3> QED BY <1>3, <1>4, <3>1 DEF IsSteps
  <2> QED BY <2>1, <2>2
<1>6. Is(F)
  <2> HIDE DEF Is
  <2> QED BY <1>5
<1>7. Merge(a, b) = F[N].to
  BY DEF Merge, base
<1> HIDE DEF F
<1>8. F[0] = base
  BY <1>1, <1>6
<1>9. ASSUME NEW k \in 1..N PROVE F[k] = MergeStep(a, b, F[k - 1], k)
  <2>1. k \in 0..N /\ k # 0
    BY <1>1
  <2> QED BY <1>6, <2>1
<1> QED BY <1>7, <1>8, <1>9 DEF base

(* Two ordered sequences, the second of later ids.                         *)
Precedes(a, b) == \A l \in DOMAIN a, m \in DOMAIN b : a[l].id < b[m].id
Mergeable(a, b) == Ordered(a) /\ Ordered(b) /\ Precedes(a, b)

(* k elements are merged: those that have been taken, in order and before  *)
(* those that are left.                                                    *)
MergedTo(st, a, b, k) ==
  /\ st.i \in 0..Len(a) /\ k - st.i \in 0..Len(b)
  /\ st.to \in Seq(Sortable) /\ Len(st.to) = k
  /\ \A m \in 1..k : (\E l \in 1..st.i : st.to[m] = a[l]) \/ (\E l \in 1..(k - st.i) : st.to[m] = b[l])
  /\ \A l \in 1..st.i : \E m \in 1..k : st.to[m] = a[l]
  /\ \A l \in 1..(k - st.i) : \E m \in 1..k : st.to[m] = b[l]
  /\ Mergeable(a, b) =>
       /\ Ordered(st.to)
       /\ \A m \in 1..k, l \in (st.i + 1)..Len(a) : Before(st.to[m], a[l])
       /\ \A m \in 1..k, l \in (k - st.i + 1)..Len(b) : Before(st.to[m], b[l])

(* One more element is taken.                                              *)
LEMMA MergeKeeps ==
  ASSUME NEW a \in Seq(Sortable), NEW b \in Seq(Sortable), NEW st, NEW k \in 1..(Len(a) + Len(b)),
         MergedTo(st, a, b, k - 1)
  PROVE  MergedTo(MergeStep(a, b, st, k), a, b, k)
<1> DEFINE A == Len(a)
           B == Len(b)
           i == st.i
           j == k - 1 - st.i
           left == FromLeft(a, b, i, j)
           x == IF left THEN a[i + 1] ELSE b[j + 1]
           i2 == IF left THEN i + 1 ELSE i
           j2 == IF left THEN j ELSE j + 1
           u == Append(st.to, x)
<1>1. /\ A \in Nat /\ DOMAIN a = 1..A /\ B \in Nat /\ DOMAIN b = 1..B
      /\ \A l \in 1..A : a[l] \in Sortable
      /\ \A l \in 1..B : b[l] \in Sortable
  BY SortableIs
<1>k. k \in Int /\ k \in 1..(A + B)
  BY <1>1
<1>2. i \in 0..A /\ j \in 0..B /\ st.to \in Seq(Sortable) /\ Len(st.to) = k - 1 /\ i \in Int /\ j \in Int
  BY <1>1 DEF MergedTo
<1>3. i + j = k - 1 /\ i2 + j2 = k /\ k - i = j + 1 /\ k - (i + 1) = j
  BY <1>2, <1>k, SMTT(30)
<1>4. left => i + 1 \in 1..A /\ (j + 1 \in 1..B => LeftFirst(a[i + 1], b[j + 1]))
  BY <1>1, <1>2, SMTT(30) DEF FromLeft
<1>5. ~left => j + 1 \in 1..B /\ (i + 1 \in 1..A => ~LeftFirst(a[i + 1], b[j + 1]))
  <2>1. ~left => ~(i < A) \/ (j # B /\ ~LeftFirst(a[i + 1], b[j + 1]))
    BY DEF FromLeft
  <2>2. ~left => j # B
    <3>1. ~(i < A) => i = A
      BY <1>1, <1>2
    <3>2. i = A => j # B
      BY <1>1, <1>2, <1>3, <1>k
    <3> QED BY <2>1, <3>1, <3>2
  <2>3. j # B => j + 1 \in 1..B
    BY <1>1, <1>2
  <2>4. i + 1 \in 1..A => i < A
    BY <1>1, <1>2
  <2> HIDE DEF left, i, j, A, B
  <2> QED BY <2>1, <2>2, <2>3, <2>4
<1>6. x \in Sortable
  BY <1>1, <1>4, <1>5
<1>7. MergeStep(a, b, st, k) = [i |-> i2, to |-> u]
  BY <1>3 DEF MergeStep
<1>8. i2 \in 0..A /\ k - i2 = j2 /\ j2 \in 0..B /\ i2 \in Int /\ j2 \in Int
  <2>1. left => i + 1 \in 1..A
    BY <1>4
  <2>2. ~left => j + 1 \in 1..B
    BY <1>5
  <2>3. A \in Nat /\ B \in Nat
    BY <1>1
  <2> HIDE DEF left, i, j, A, B
  <2>4. CASE left
    <3>1. i2 = i + 1 /\ j2 = j
      BY <2>4
    <3> HIDE DEF i2, j2
    <3> QED BY <1>2, <1>3, <2>1, <2>3, <2>4, <3>1
  <2>5. CASE ~left
    <3>1. i2 = i /\ j2 = j + 1
      BY <2>5
    <3> HIDE DEF i2, j2
    <3> QED BY <1>2, <1>3, <2>2, <2>3, <2>5, <3>1
  <2> QED BY <2>4, <2>5
<1>9. /\ u \in Seq(Sortable) /\ Len(u) = k
      /\ u[k] = x /\ \A m \in 1..(k - 1) : u[m] = st.to[m]
  <2>1. (k - 1) + 1 = k
    BY <1>k
  <2> HIDE DEF x
  <2> QED BY <1>2, <1>6, <2>1, AppendIs, SMTT(30)
<1>a. /\ \A m \in 1..(k - 1) : (\E l \in 1..i : st.to[m] = a[l]) \/ (\E l \in 1..j : st.to[m] = b[l])
      /\ \A l \in 1..i : \E m \in 1..(k - 1) : st.to[m] = a[l]
      /\ \A l \in 1..j : \E m \in 1..(k - 1) : st.to[m] = b[l]
  BY DEF MergedTo
<1>b. Mergeable(a, b) =>
        /\ Ordered(st.to)
        /\ \A m \in 1..(k - 1), l \in (i + 1)..A : Before(st.to[m], a[l])
        /\ \A m \in 1..(k - 1), l \in (j + 1)..B : Before(st.to[m], b[l])
  <2>1. k - 1 - i + 1 = j + 1
    OBVIOUS
  <2> QED BY <2>1 DEF MergedTo
<1>c. /\ 1..i \subseteq 1..i2 /\ 1..j \subseteq 1..j2 /\ 1..(k - 1) \subseteq 1..k /\ k \in 1..k
      /\ (i2 + 1)..A \subseteq (i + 1)..A /\ (j2 + 1)..B \subseteq (j + 1)..B
      /\ \A m \in 1..k : m = k \/ m \in 1..(k - 1)
  BY <1>1, <1>2, <1>k, SMTT(30)
<1>x. (left => x = a[i + 1] /\ i2 = i + 1 /\ j2 = j) /\ (~left => x = b[j + 1] /\ i2 = i /\ j2 = j + 1)
  OBVIOUS
<1>y. (left => i + 1 \in 1..i2) /\ (~left => j + 1 \in 1..j2)
  BY <1>2, SMTT(30)
<1>z. /\ \A l \in 1..i2 : l \in 1..i \/ (left /\ l = i + 1)
      /\ \A l \in 1..j2 : l \in 1..j \/ (~left /\ l = j + 1)
  <2>1. i \in Int /\ j \in Int
    BY <1>2
  <2> HIDE DEF left, i, j, i2, j2
  <2>2. ASSUME NEW l \in 1..i2 PROVE l \in 1..i \/ (left /\ l = i + 1)
    BY <1>x, <2>1, <2>2
  <2>3. ASSUME NEW l \in 1..j2 PROVE l \in 1..j \/ (~left /\ l = j + 1)
    BY <1>x, <2>1, <2>3
  <2> QED BY <2>2, <2>3
<1> HIDE DEF A, B, i, j, left, x, i2, j2, u
<1>10. \A m \in 1..k : (\E l \in 1..i2 : u[m] = a[l]) \/ (\E l \in 1..j2 : u[m] = b[l])
  <2>1. (\E l \in 1..i2 : x = a[l]) \/ (\E l \in 1..j2 : x = b[l])
    BY <1>x, <1>y
  <2>2. ASSUME NEW m \in 1..(k - 1) PROVE (\E l \in 1..i2 : u[m] = a[l]) \/ (\E l \in 1..j2 : u[m] = b[l])
    <3>0. u[m] = st.to[m]
      BY <1>9
    <3>1. (\E l \in 1..i : u[m] = a[l]) \/ (\E l \in 1..j : u[m] = b[l])
      <4>1. (\E l \in 1..i : st.to[m] = a[l]) \/ (\E l \in 1..j : st.to[m] = b[l])
        BY ONLY <1>a, <2>2
      <4> HIDE DEF u
      <4> DEFINE v == st.to[m]
      <4> HIDE DEF v
      <4>2. u[m] = v
        BY <3>0 DEF v
      <4>3. (\E l \in 1..i : v = a[l]) \/ (\E l \in 1..j : v = b[l])
        BY <4>1 DEF v
      <4> QED BY ONLY <4>2, <4>3, Zenon
    <3>2. CASE \E l \in 1..i : u[m] = a[l]
      BY ONLY <3>2, <1>c, Zenon
    <3>3. CASE \E l \in 1..j : u[m] = b[l]
      BY ONLY <3>3, <1>c, Zenon
    <3> QED BY ONLY <3>1, <3>2, <3>3, Zenon
  <2> QED BY ONLY <1>9, <1>c, <2>1, <2>2, Zenon
<1>11. \A l \in 1..i2 : \E m \in 1..k : u[m] = a[l]
  <2>1. ASSUME NEW l \in 1..i PROVE \E m \in 1..k : u[m] = a[l]
    <3>1. PICK m \in 1..(k - 1) : st.to[m] = a[l]
      BY <1>a
    <3>2. m \in 1..k /\ u[m] = a[l]
      BY <1>9, <1>c, <3>1
    <3> QED BY <3>2
  <2>2. left => \E m \in 1..k : u[m] = a[i + 1]
    BY <1>9, <1>c, <1>x
  <2> QED BY <1>z, <2>1, <2>2
<1>12. \A l \in 1..j2 : \E m \in 1..k : u[m] = b[l]
  <2>1. ASSUME NEW l \in 1..j PROVE \E m \in 1..k : u[m] = b[l]
    <3>1. PICK m \in 1..(k - 1) : st.to[m] = b[l]
      BY <1>a
    <3>2. m \in 1..k /\ u[m] = b[l]
      BY <1>9, <1>c, <3>1
    <3> QED BY <3>2
  <2>2. ~left => \E m \in 1..k : u[m] = b[j + 1]
    BY <1>9, <1>c, <1>x
  <2> QED BY <1>z, <2>1, <2>2
<1>13. ASSUME Mergeable(a, b)
       PROVE  /\ Ordered(u)
              /\ \A m \in 1..k, l \in (i2 + 1)..A : Before(u[m], a[l])
              /\ \A m \in 1..k, l \in (j2 + 1)..B : Before(u[m], b[l])
  <2>1. \A m \in 1..(k - 1) : Before(st.to[m], x)
    <3>1. left => i + 1 \in (i + 1)..A
      BY <1>2, <1>4
    <3>2. ~left => j + 1 \in (j + 1)..B
      BY <1>2, <1>5
    <3> QED BY <1>13, <1>b, <1>x, <3>1, <3>2
  <2>2. Ordered(u)
    BY <1>2, <1>6, <1>13, <1>b, <2>1, AppendOrdered DEF u
  <2>o. /\ \A l, m \in 1..A : l < m => Before(a[l], a[m])
        /\ \A l, m \in 1..B : l < m => Before(b[l], b[m])
        /\ \A l \in 1..A, m \in 1..B : a[l].id < b[m].id
    BY <1>1, <1>13 DEF Mergeable, Ordered, Precedes
  <2>3. ASSUME left, NEW l \in (i2 + 1)..A PROVE Before(x, a[l])
    <3>1. i + 1 \in 1..A /\ l \in 1..A /\ i + 1 < l
      BY <1>1, <1>2, <1>4, <1>x, <2>3
    <3> QED BY <1>x, <2>3, <2>o, <3>1
  <2>4. ASSUME ~left, NEW l \in (j2 + 1)..B PROVE Before(x, b[l])
    <3>1. j + 1 \in 1..B /\ l \in 1..B /\ j + 1 < l
      BY <1>1, <1>2, <1>5, <1>x, <2>4
    <3> QED BY <1>x, <2>4, <2>o, <3>1
  <2>5. ASSUME left, NEW l \in (j2 + 1)..B PROVE Before(x, b[l])
    <3>1. i + 1 \in 1..A /\ j + 1 \in 1..B /\ l \in 1..B /\ (l = j + 1 \/ j + 1 < l)
      BY <1>1, <1>2, <1>4, <1>x, <2>5
    <3>2. a[i + 1] \in Sortable /\ b[j + 1] \in Sortable /\ b[l] \in Sortable
      BY <1>1, <3>1
    <3>3. Before(a[i + 1], b[j + 1])
      <4>1. LeftFirst(a[i + 1], b[j + 1]) /\ a[i + 1].id < b[j + 1].id
        BY <1>4, <2>5, <2>o, <3>1
      <4> QED BY <3>2, <4>1, SMTT(30) DEF LeftFirst, Before, Sortable
    <3>4. l = j + 1 \/ Before(b[j + 1], b[l])
      BY <2>o, <3>1
    <3> QED BY <1>x, <2>5, <3>2, <3>3, <3>4, BeforeIs
  <2>6. ASSUME ~left, NEW l \in (i2 + 1)..A PROVE Before(x, a[l])
    <3>1. j + 1 \in 1..B /\ i + 1 \in 1..A /\ l \in 1..A /\ (l = i + 1 \/ i + 1 < l)
      BY <1>1, <1>2, <1>5, <1>x, <2>6
    <3>2. a[i + 1] \in Sortable /\ b[j + 1] \in Sortable /\ a[l] \in Sortable
      BY <1>1, <3>1
    <3>3. Before(b[j + 1], a[i + 1])
      <4>1. ~(a[i + 1].key <= b[j + 1].key)
        BY <1>5, <2>6, <3>1 DEF LeftFirst
      <4>2. a[i + 1].key \in Int /\ b[j + 1].key \in Int
        BY <3>2 DEF Sortable
      <4>3. b[j + 1].key < a[i + 1].key
        BY ONLY <4>1, <4>2, SMT
      <4> QED BY <4>3 DEF Before
    <3>4. l = i + 1 \/ Before(a[i + 1], a[l])
      BY <2>o, <3>1
    <3> QED BY <1>x, <2>6, <3>2, <3>3, <3>4, BeforeIs
  <2>7. ASSUME NEW m \in 1..k, NEW l \in (i2 + 1)..A PROVE Before(u[m], a[l])
    <3>1. l \in (i + 1)..A
      BY <1>c
    <3>2. CASE m = k
      BY <1>9, <2>3, <2>6, <3>2
    <3>3. CASE m \in 1..(k - 1)
      BY <1>9, <1>13, <1>b, <3>1, <3>3
    <3> QED BY <1>c, <3>2, <3>3
  <2>8. ASSUME NEW m \in 1..k, NEW l \in (j2 + 1)..B PROVE Before(u[m], b[l])
    <3>1. l \in (j + 1)..B
      BY <1>c
    <3>2. CASE m = k
      BY <1>9, <2>4, <2>5, <3>2
    <3>3. CASE m \in 1..(k - 1)
      BY <1>9, <1>13, <1>b, <3>1, <3>3
    <3> QED BY <1>c, <3>2, <3>3
  <2> QED BY <2>2, <2>7, <2>8
<1> DEFINE r == MergeStep(a, b, st, k)
<1>14. r.i = i2 /\ r.to = u
  BY <1>7
<1> HIDE DEF r
<1>15. MergedTo(r, a, b, k)
  BY <1>8, <1>9, <1>10, <1>11, <1>12, <1>13, <1>14 DEF MergedTo, A, B
<1> QED BY <1>15 DEF r

(* What merging makes.                                                     *)
LEMMA MergeIs ==
  ASSUME NEW a \in Seq(Sortable), NEW b \in Seq(Sortable)
  PROVE  /\ Merge(a, b) \in Seq(Sortable) /\ Len(Merge(a, b)) = Len(a) + Len(b)
         /\ Elements(Merge(a, b)) = Elements(a) \cup Elements(b)
         /\ Mergeable(a, b) => Ordered(Merge(a, b))
<1> DEFINE A == Len(a)
           B == Len(b)
           N == A + B
           t == Merge(a, b)
<1>1. PICK F : /\ F[0] = [i |-> 0, to |-> <<>>]
               /\ \A k \in 1..N : F[k] = MergeStep(a, b, F[k - 1], k)
               /\ t = F[N].to
  BY MergeSteps
<1> DEFINE T == {k \in 0..N : MergedTo(F[k], a, b, k)}
<1>2. A \in Nat /\ B \in Nat /\ N \in Nat /\ DOMAIN a = 1..A /\ DOMAIN b = 1..B
  BY SortableIs
<1>3. 0 \in T
  <2> DEFINE z == [i |-> 0, to |-> <<>>]
  <2>1. z.i = 0 /\ z.to = <<>> /\ <<>> \in Seq(Sortable) /\ Len(<<>>) = 0 /\ DOMAIN <<>> = {}
    OBVIOUS
  <2> HIDE DEF z
  <2>2. Ordered(z.to)
    BY <2>1 DEF Ordered
  <2>3. MergedTo(z, a, b, 0)
    BY <1>2, <2>1, <2>2 DEF MergedTo
  <2> QED BY <1>1, <1>2, <2>3 DEF z
<1>4. ASSUME NEW k \in 0..(N - 1), k \in T PROVE k + 1 \in T
  <2>1. k + 1 \in 1..N /\ k + 1 \in 0..N /\ (k + 1) - 1 = k
    BY <1>2
  <2>2. F[k + 1] = MergeStep(a, b, F[k], k + 1)
    BY <1>1, <2>1
  <2>3. MergedTo(MergeStep(a, b, F[k], k + 1), a, b, k + 1)
    BY <1>4, <2>1, MergeKeeps
  <2> QED BY <2>1, <2>2, <2>3
<1>5. MergedTo(F[N], a, b, N)
  <2>1. N \in T
    <3> HIDE DEF T, N
    <3>1. N \in 0..N
      BY <1>2
    <3> QED BY <1>2, <1>3, <1>4, <3>1, CountingUp
  <2> QED BY <2>1
<1> DEFINE i == F[N].i
           j == N - F[N].i
<1>6. t \in Seq(Sortable) /\ Len(t) = N /\ DOMAIN t = 1..N
  BY <1>1, <1>2, <1>5 DEF MergedTo
<1>7. i = A /\ j = B
  BY <1>2, <1>5, SMTT(30) DEF MergedTo
<1>8. /\ \A m \in 1..N : (\E l \in 1..i : t[m] = a[l]) \/ (\E l \in 1..j : t[m] = b[l])
      /\ \A l \in 1..i : \E m \in 1..N : t[m] = a[l]
      /\ \A l \in 1..j : \E m \in 1..N : t[m] = b[l]
  BY <1>1, <1>5 DEF MergedTo
<1>9. Mergeable(a, b) => Ordered(t)
  BY <1>1, <1>5 DEF MergedTo
<1> HIDE DEF A, B, N, t, i, j
<1>10. Elements(t) = Elements(a) \cup Elements(b)
  <2>1. Elements(t) = {t[m] : m \in 1..N}
    BY <1>6 DEF Elements
  <2>2. Elements(a) = {a[l] : l \in 1..A} /\ Elements(b) = {b[l] : l \in 1..B}
    BY <1>2 DEF Elements
  <2>3. ASSUME NEW m \in 1..N PROVE t[m] \in Elements(a) \cup Elements(b)
    BY <1>7, <1>8, <2>2
  <2>4. ASSUME NEW l \in 1..A PROVE a[l] \in Elements(t)
    BY <1>7, <1>8, <2>1
  <2>5. ASSUME NEW l \in 1..B PROVE b[l] \in Elements(t)
    BY <1>7, <1>8, <2>1
  <2> QED BY <2>1, <2>2, <2>3, <2>4, <2>5, SMTT(30)
<1> QED BY <1>6, <1>9, <1>10 DEF t, N, A, B

(* No other order of the same elements.                                    *)
LEMMA UniqueOrder ==
  ASSUME NEW s \in Seq(Sortable), NEW t \in Seq(Sortable), Ordered(s), Ordered(t), Elements(s) = Elements(t)
  PROVE  s = t
<1> DEFINE S == Len(s)
           T == Len(t)
<1>1. /\ S \in Nat /\ DOMAIN s = 1..S /\ T \in Nat /\ DOMAIN t = 1..T
      /\ \A i \in 1..S : s[i] \in Sortable
      /\ \A i \in 1..T : t[i] \in Sortable
  BY SortableIs
<1>2. /\ \A i \in 1..S : \E j \in 1..T : s[i] = t[j]
      /\ \A j \in 1..T : \E i \in 1..S : t[j] = s[i]
  BY <1>1 DEF Elements
<1>3. /\ \A i, j \in 1..S : i < j => Before(s[i], s[j])
      /\ \A i, j \in 1..T : i < j => Before(t[i], t[j])
  BY <1>1 DEF Ordered
<1> DEFINE D == {k \in 1..(S + T) : (k \in 1..S \/ k \in 1..T) /\ ~(k \in 1..S /\ k \in 1..T /\ s[k] = t[k])}
<1> HIDE DEF S, T
<1>4. ASSUME NEW k \in D, \A l \in D : k <= l PROVE k \notin 1..S /\ k \notin 1..T
  <2>1. k \in 1..(S + T) /\ k \in Int /\ (k \in 1..S \/ k \in 1..T)
    BY <1>1
  <2>2. ASSUME NEW l \in 1..(k - 1) PROVE l \in 1..S /\ l \in 1..T /\ s[l] = t[l]
    <3>1. l \in 1..(S + T) /\ ~(k <= l) /\ (l \in 1..S \/ l \in 1..T)
      BY <1>1, <2>1
    <3> QED BY <1>4, <3>1
  <2>3. k \in 1..S => k \in 1..T
    <3> SUFFICES ASSUME k \in 1..S PROVE k \in 1..T
      OBVIOUS
    <3>1. PICK j \in 1..T : s[k] = t[j]
      BY <1>2
    <3>2. ~(j < k)
      <4> SUFFICES ASSUME j < k PROVE FALSE
        OBVIOUS
      <4>1. j \in 1..(k - 1)
        BY <2>1
      <4>2. j \in 1..S /\ s[j] = t[j]
        BY <2>2, <4>1
      <4>3. Before(s[j], s[k])
        BY <1>3, <4>2
      <4> QED BY <1>1, <3>1, <4>2, <4>3, BeforeIs
    <3> QED BY <1>1, <2>1, <3>2
  <2>4. k \in 1..T => k \in 1..S
    <3> SUFFICES ASSUME k \in 1..T PROVE k \in 1..S
      OBVIOUS
    <3>1. PICK j \in 1..S : t[k] = s[j]
      BY <1>2
    <3>2. ~(j < k)
      <4> SUFFICES ASSUME j < k PROVE FALSE
        OBVIOUS
      <4>1. j \in 1..(k - 1)
        BY <2>1
      <4>2. j \in 1..T /\ s[j] = t[j]
        BY <2>2, <4>1
      <4>3. Before(t[j], t[k])
        BY <1>3, <4>2
      <4> QED BY <1>1, <3>1, <4>2, <4>3, BeforeIs
    <3> QED BY <1>1, <2>1, <3>2
  <2>5. ASSUME k \in 1..S, k \in 1..T PROVE FALSE
    <3>1. s[k] # t[k]
      BY <2>5
    <3>2. PICK j \in 1..T : s[k] = t[j]
      BY <1>2, <2>5
    <3>3. PICK i \in 1..S : t[k] = s[i]
      BY <1>2, <2>5
    <3>4. j > k
      <4>1. ~(j < k)
        <5> SUFFICES ASSUME j < k PROVE FALSE
          OBVIOUS
        <5>1. j \in 1..(k - 1)
          BY <2>1
        <5>2. j \in 1..S /\ s[j] = t[j]
          BY <2>2, <5>1
        <5>3. Before(s[j], s[k])
          BY <1>3, <2>5, <5>2
        <5> QED BY <1>1, <2>5, <3>2, <5>2, <5>3, BeforeIs
      <4> QED BY <1>1, <2>1, <3>1, <3>2, <4>1
    <3>5. i > k
      <4>1. ~(i < k)
        <5> SUFFICES ASSUME i < k PROVE FALSE
          OBVIOUS
        <5>1. i \in 1..(k - 1)
          BY <2>1
        <5>2. i \in 1..T /\ s[i] = t[i]
          BY <2>2, <5>1
        <5>3. Before(t[i], t[k])
          BY <1>3, <2>5, <5>2
        <5> QED BY <1>1, <2>5, <3>3, <5>2, <5>3, BeforeIs
      <4> QED BY <1>1, <2>1, <3>1, <3>3, <4>1
    <3>6. Before(t[k], s[k]) /\ Before(s[k], t[k])
      BY <1>1, <1>3, <2>1, <2>5, <3>2, <3>3, <3>4, <3>5
    <3> QED BY <1>1, <2>5, <3>6, BeforeIs
  <2> QED BY <2>3, <2>4, <2>5
<1>5. D = {}
  <2> SUFFICES ASSUME D # {} PROVE FALSE
    OBVIOUS
  <2>1. D \subseteq Nat
    BY <1>1
  <2>2. PICK k \in D : \A l \in D : k <= l
    <3> HIDE DEF D
    <3>1. PICK m \in D : TRUE
      OBVIOUS
    <3> QED BY <2>1, LeastElement
  <2>3. k \notin 1..S /\ k \notin 1..T /\ k \in 1..(S + T)
    BY <1>4, <2>2
  <2> QED BY <2>2, <2>3
<1>6. S = T
  <2>1. ASSUME S < T PROVE FALSE
    <3>1. S + 1 \in D
      BY <1>1, <2>1
    <3> QED BY <1>5, <3>1
  <2>2. ASSUME T < S PROVE FALSE
    <3>1. T + 1 \in D
      BY <1>1, <2>2
    <3> QED BY <1>5, <3>1
  <2> QED BY <1>1, <2>1, <2>2
<1>7. ASSUME NEW k \in 1..S PROVE s[k] = t[k]
  <2>1. k \in 1..(S + T) /\ k \notin D
    BY <1>1, <1>5
  <2> QED BY <1>6, <2>1
<1> QED BY <1>1, <1>6, <1>7 DEF S, T

----------------------------------------------------------------------------
(* Recursion that divides its argument in two smaller ones.                *)
Divides(D, R, size, leaf, base, first, second, join) ==
  /\ size \in [D -> Nat] /\ leaf \subseteq D /\ base \in [D -> R]
  /\ first \in [D -> D] /\ second \in [D -> D] /\ join \in [D \X R \X R -> R]
  /\ \A x \in D \ leaf : size[first[x]] < size[x] /\ size[second[x]] < size[x]

(* What the recursion makes of x if f is what it makes of smaller ones.    *)
Divided(f, x, leaf, base, first, second, join) ==
  IF x \in leaf THEN base[x] ELSE join[<<x, f[first[x]], f[second[x]]>>]

LEMMA DividedExists ==
  ASSUME NEW D, NEW R, NEW size, NEW leaf, NEW base, NEW first, NEW second, NEW join,
         Divides(D, R, size, leaf, base, first, second, join)
  PROVE  \E f \in [D -> R] : \A x \in D : f[x] = Divided(f, x, leaf, base, first, second, join)
<1> DEFINE Rule(f, x) == Divided(f, x, leaf, base, first, second, join)
           Follows(f, n) == f \in [D -> R] /\ \A x \in D : size[x] < n => f[x] = Rule(f, x)
           h(n) == CHOOSE f : Follows(f, n)
           F == [x \in D |-> h(size[x] + 1)[x]]
<1>1. /\ \A x \in D : size[x] \in Nat /\ first[x] \in D /\ second[x] \in D
      /\ \A x \in D \ leaf : size[first[x]] < size[x] /\ size[second[x]] < size[x]
      /\ base \in [D -> R]
  BY DEF Divides
<1>2. ASSUME NEW f \in [D -> R], NEW x \in D PROVE Rule(f, x) \in R
  <2>1. base[x] \in R /\ <<x, f[first[x]], f[second[x]]>> \in D \X R \X R
    BY <1>1
  <2> QED BY <2>1 DEF Divides, Divided
<1>3. ASSUME NEW f, NEW g, NEW x \in D, x \notin leaf => f[first[x]] = g[first[x]] /\ f[second[x]] = g[second[x]]
      PROVE  Rule(f, x) = Rule(g, x)
  BY <1>3 DEF Divided
<1> HIDE DEF Rule
<1>4. ASSUME NEW n \in Nat, NEW f, NEW g, Follows(f, n), Follows(g, n)
      PROVE  \A x \in D : size[x] < n => f[x] = g[x]
  <2> DEFINE T == {m \in 0..n : \A x \in D : size[x] < m => f[x] = g[x]}
  <2>1. 0 \in T
    BY <1>1
  <2>2. ASSUME NEW m \in 0..(n - 1), m \in T PROVE m + 1 \in T
    <3>1. m + 1 \in 0..n /\ m \in Nat /\ m < n
      OBVIOUS
    <3>2. ASSUME NEW x \in D, size[x] < m + 1 PROVE f[x] = g[x]
      <4>1. size[x] \in Nat /\ size[x] < n
        BY <1>1, <3>1, <3>2
      <4>2. x \notin leaf => size[first[x]] < m /\ size[second[x]] < m
        BY <1>1, <3>1, <3>2
      <4>3. x \notin leaf => f[first[x]] = g[first[x]] /\ f[second[x]] = g[second[x]]
        BY <1>1, <2>2, <4>2
      <4>4. Rule(f, x) = Rule(g, x)
        BY <1>3, <4>3
      <4> QED BY <1>4, <4>1, <4>4
    <3> QED BY <3>1, <3>2
  <2>3. n \in T
    <3> HIDE DEF T
    <3>1. n \in 0..n
      OBVIOUS
    <3> QED BY <2>1, <2>2, <3>1, CountingUp
  <2> QED BY <2>3
<1>5. ASSUME NEW n \in Nat PROVE \E f : Follows(f, n)
  <2> DEFINE T == {m \in 0..n : \E f : Follows(f, m)}
  <2>1. 0 \in T
    <3>1. Follows(base, 0)
      BY <1>1
    <3> HIDE DEF Follows
    <3> QED BY <3>1
  <2>2. ASSUME NEW m \in 0..(n - 1), m \in T PROVE m + 1 \in T
    <3>1. m + 1 \in 0..n /\ m \in Nat
      OBVIOUS
    <3>2. PICK f : Follows(f, m)
      <4> HIDE DEF Follows
      <4> QED BY <2>2
    <3> DEFINE g == [x \in D |-> Rule(f, x)]
    <3>3. g \in [D -> R]
      BY <1>2, <3>2
    <3>4. ASSUME NEW x \in D, size[x] < m PROVE g[x] = f[x]
      BY <3>2, <3>4
    <3>5. ASSUME NEW x \in D, size[x] < m + 1 PROVE g[x] = Rule(g, x)
      <4>1. x \notin leaf => size[first[x]] < m /\ size[second[x]] < m
        BY <1>1, <3>1, <3>5
      <4>2. x \notin leaf => f[first[x]] = g[first[x]] /\ f[second[x]] = g[second[x]]
        <5> HIDE DEF g
        <5> QED BY <1>1, <3>4, <4>1
      <4>3. g[x] = Rule(f, x)
        OBVIOUS
      <4> HIDE DEF g
      <4> QED BY <1>3, <4>2, <4>3
    <3>6. Follows(g, m + 1)
      <4> HIDE DEF g
      <4> QED BY <3>3, <3>5
    <3> HIDE DEF Follows, g
    <3> QED BY <3>1, <3>6
  <2>3. n \in T
    <3> HIDE DEF T
    <3>1. n \in 0..n
      OBVIOUS
    <3> QED BY <2>1, <2>2, <3>1, CountingUp
  <2> HIDE DEF Follows
  <2> QED BY <2>3
<1>6. ASSUME NEW n \in Nat PROVE Follows(h(n), n)
  <2> HIDE DEF Follows
  <2> QED BY <1>5
<1> HIDE DEF h
<1>7. ASSUME NEW x \in D, NEW n \in Nat, size[x] < n PROVE h(n)[x] = F[x]
  <2>1. size[x] + 1 \in Nat /\ size[x] < size[x] + 1 /\ size[x] + 1 <= n
    BY <1>1, <1>7
  <2>2. Follows(h(n), size[x] + 1)
    <3>1. Follows(h(n), n)
      BY <1>6
    <3>2. \A y \in D : size[y] < size[x] + 1 => size[y] < n
      BY <1>1, <2>1
    <3> QED BY <3>1, <3>2
  <2>3. Follows(h(size[x] + 1), size[x] + 1)
    BY <1>6, <2>1
  <2>4. h(n)[x] = h(size[x] + 1)[x]
    <3> HIDE DEF Follows
    <3> QED BY <1>4, <2>1, <2>2, <2>3
  <2> QED BY <2>4
<1>8. F \in [D -> R]
  <2>1. ASSUME NEW x \in D PROVE h(size[x] + 1)[x] \in R
    <3>1. size[x] + 1 \in Nat
      BY <1>1
    <3>2. h(size[x] + 1) \in [D -> R]
      BY <1>6, <3>1
    <3> QED BY <3>2
  <2> QED BY <2>1
<1>9. ASSUME NEW x \in D PROVE F[x] = Rule(F, x)
  <2> DEFINE n == size[x] + 1
  <2>1. n \in Nat /\ size[x] < n /\ (x \notin leaf => size[first[x]] < n /\ size[second[x]] < n)
    BY <1>1
  <2> HIDE DEF n
  <2>2. h(n)[x] = Rule(h(n), x)
    BY <1>6, <2>1
  <2>3. h(n)[x] = F[x] /\ (x \notin leaf => h(n)[first[x]] = F[first[x]] /\ h(n)[second[x]] = F[second[x]])
    <3> HIDE DEF F
    <3> QED BY <1>1, <1>7, <2>1
  <2> HIDE DEF F
  <2> QED BY <1>3, <2>2, <2>3
<1> HIDE DEF F
<1> QED BY <1>8, <1>9 DEF Rule

----------------------------------------------------------------------------
(* The sorts that divide by a half.                                        *)
(* What is shown of sequences from what is shown of shorter ones.          *)
LEMMA ByLength ==
  ASSUME NEW T, \A s \in Seq(Sortable) : (\A r \in Seq(Sortable) : Len(r) < Len(s) => r \in T) => s \in T
  PROVE  Seq(Sortable) \subseteq T
<1> DEFINE Q == {Len(s) : s \in Seq(Sortable) \ T}
<1>1. Q \subseteq Nat
  OBVIOUS
<1>2. Q = {}
  <2> SUFFICES ASSUME Q # {} PROVE FALSE
    OBVIOUS
  <2>1. PICK n \in Q : \A m \in Q : n <= m
    <3>1. PICK m \in Q : TRUE
      OBVIOUS
    <3> HIDE DEF Q
    <3> QED BY <1>1, <3>1, LeastElement
  <2>2. PICK s \in Seq(Sortable) \ T : n = Len(s)
    OBVIOUS
  <2>3. ASSUME NEW r \in Seq(Sortable), Len(r) < Len(s) PROVE r \in T
    <3> SUFFICES ASSUME r \notin T PROVE FALSE
      OBVIOUS
    <3>1. Len(r) \in Nat
      OBVIOUS
    <3>2. r \in Seq(Sortable) \ T
      OBVIOUS
    <3>3. Len(r) \in Q
      BY ONLY <3>2, Zenon
    <3> HIDE DEF Q
    <3> QED BY <1>1, <2>1, <2>2, <2>3, <3>1, <3>3
  <2> QED BY <2>2, <2>3
<1>3. ASSUME NEW s \in Seq(Sortable), s \notin T PROVE FALSE
  <2>1. s \in Seq(Sortable) \ T
    BY <1>3
  <2>2. Len(s) \in Q
    BY ONLY <2>1, Zenon
  <2> QED BY <1>2, <2>2
<1> QED BY <1>3

(* A part of a sequence.                                                   *)
LEMMA PartIs ==
  ASSUME NEW s \in Seq(Sortable), NEW i \in 1..(Len(s) + 1), NEW j \in (i - 1)..Len(s)
  PROVE  /\ SubSeq(s, i, j) \in Seq(Sortable) /\ Len(SubSeq(s, i, j)) = j - i + 1
         /\ DOMAIN SubSeq(s, i, j) = 1..(j - i + 1) /\ j - i + 1 \in Nat
         /\ \A m \in 1..(j - i + 1) : i + m - 1 \in 1..Len(s) /\ SubSeq(s, i, j)[m] = s[i + m - 1]
<1>1. Len(s) \in Nat /\ i \in Int /\ j \in Int /\ j - i + 1 \in Nat
  OBVIOUS
<1>2. SubSeq(s, i, j) = [m \in 1..(1 + j - i) |-> s[i + m - 1]] /\ 1 + j - i = j - i + 1
  BY <1>1
<1>3. \A m \in 1..(j - i + 1) : i + m - 1 \in 1..Len(s)
  BY <1>1
<1>4. \A m \in 1..(j - i + 1) : s[i + m - 1] \in Sortable
  BY <1>3
<1> DEFINE t == SubSeq(s, i, j)
<1>5. t \in [1..(j - i + 1) -> Sortable] /\ \A m \in 1..(j - i + 1) : t[m] = s[i + m - 1]
  BY <1>2, <1>4
<1> DEFINE n == j - i + 1
<1> HIDE DEF t
<1>6. t \in Seq(Sortable) /\ Len(t) = j - i + 1
  <2>1. n \in Nat /\ t \in [1..n -> Sortable]
    BY <1>1, <1>5
  <2> HIDE DEF n
  <2>2. t \in Seq(Sortable) /\ Len(t) = n
    BY <2>1
  <2> QED BY <2>2 DEF n
<1> QED BY <1>1, <1>3, <1>5, <1>6 DEF t

(* A sequence in two parts.                                                *)
Parts(s, a, b) ==
  /\ a \in Seq(Sortable) /\ b \in Seq(Sortable)
  /\ Elements(s) = Elements(a) \cup Elements(b)
  /\ ById(s) => ById(a) /\ ById(b) /\ \A x \in Elements(a), y \in Elements(b) : x.id < y.id

LEMMA PartsAre ==
  ASSUME NEW s \in Seq(Sortable), NEW h \in 0..Len(s)
  PROVE  /\ Parts(s, SubSeq(s, 1, h), SubSeq(s, h + 1, Len(s)))
         /\ Len(SubSeq(s, 1, h)) = h /\ Len(SubSeq(s, h + 1, Len(s))) = Len(s) - h
<1> DEFINE n == Len(s)
           a == SubSeq(s, 1, h)
           b == SubSeq(s, h + 1, n)
<1>1. n \in Nat /\ DOMAIN s = 1..n /\ h \in 0..n /\ h \in Int /\ h - 1 + 1 = h /\ n - (h + 1) + 1 = n - h
  BY SortableIs
<1>2. /\ a \in Seq(Sortable) /\ Len(a) = h /\ DOMAIN a = 1..h
      /\ \A m \in 1..h : m \in 1..n /\ a[m] = s[m]
  <2>1. 1 \in 1..(n + 1) /\ h \in (1 - 1)..n /\ \A m \in 1..h : 1 + m - 1 = m
    BY <1>1
  <2> QED BY <1>1, <2>1, PartIs
<1>3. /\ b \in Seq(Sortable) /\ Len(b) = n - h /\ DOMAIN b = 1..(n - h)
      /\ \A m \in 1..(n - h) : h + m \in 1..n /\ b[m] = s[h + m]
  <2>1. h + 1 \in 1..(n + 1) /\ n \in ((h + 1) - 1)..n /\ \A m \in 1..(n - h) : (h + 1) + m - 1 = h + m
    BY <1>1
  <2>2. /\ b \in Seq(Sortable) /\ Len(b) = n - (h + 1) + 1 /\ DOMAIN b = 1..(n - (h + 1) + 1)
        /\ \A m \in 1..(n - (h + 1) + 1) : (h + 1) + m - 1 \in 1..n /\ b[m] = s[(h + 1) + m - 1]
    <3> HIDE DEF a
    <3> QED BY <2>1, PartIs
  <2> HIDE DEF b, n
  <2> QED BY <1>1, <2>1, <2>2
<1>4. \A m \in 1..n : m \in 1..h \/ (m - h \in 1..(n - h) /\ h + (m - h) = m)
  BY <1>1
<1> HIDE DEF a, b, n
<1>5. Elements(s) = Elements(a) \cup Elements(b)
  <2>1. Elements(s) = {s[m] : m \in 1..n} /\ Elements(a) = {a[m] : m \in 1..h} /\ Elements(b) = {b[m] : m \in 1..(n - h)}
    BY <1>1, <1>2, <1>3 DEF Elements
  <2>2. ASSUME NEW m \in 1..n PROVE s[m] \in Elements(a) \cup Elements(b)
    <3>1. CASE m \in 1..h
      BY <1>2, <2>1, <3>1
    <3>2. CASE m - h \in 1..(n - h) /\ h + (m - h) = m
      BY <1>3, <2>1, <3>2
    <3> QED BY <1>4, <3>1, <3>2
  <2>3. \A m \in 1..h : a[m] \in Elements(s)
    BY <1>2, <2>1
  <2>4. \A m \in 1..(n - h) : b[m] \in Elements(s)
    BY <1>3, <2>1
  <2> QED BY <2>1, <2>2, <2>3, <2>4
<1>6. ASSUME ById(s) PROVE ById(a) /\ ById(b) /\ \A x \in Elements(a), y \in Elements(b) : x.id < y.id
  <2>1. \A i, j \in 1..n : i < j => s[i].id < s[j].id
    BY <1>1, <1>6 DEF ById
  <2>2. ById(a)
    BY <1>2, <2>1 DEF ById
  <2>3. ASSUME NEW i \in 1..(n - h), NEW j \in 1..(n - h), i < j PROVE b[i].id < b[j].id
    <3>1. h + i < h + j
      BY <1>1, <2>3
    <3> QED BY <1>3, <2>1, <3>1
  <2>4. ASSUME NEW l \in 1..h, NEW m \in 1..(n - h) PROVE a[l].id < b[m].id
    <3>1. l < h + m
      BY <1>1
    <3> QED BY <1>2, <1>3, <2>1, <3>1
  <2>5. \A x \in Elements(a), y \in Elements(b) : x.id < y.id
    BY <1>2, <1>3, <2>4 DEF Elements
  <2> QED BY <1>3, <2>2, <2>3, <2>5 DEF ById
<1> QED BY <1>2, <1>3, <1>5, <1>6 DEF Parts, a, b, n

(* What a stable sort makes.                                               *)
SortsTo(t, s) ==
  t \in Seq(Sortable) /\ Len(t) = Len(s) /\ Elements(t) = Elements(s) /\ (ById(s) => Ordered(t))

LEMMA SortedIs ==
  ASSUME NEW t \in Seq(Sortable)
  PROVE  Ordered(t) <=> Sorted(t) /\ Stable(t)
<1>1. DOMAIN t = 1..Len(t) /\ \A i \in 1..Len(t) : t[i].key \in Int /\ t[i].id \in Nat
  BY SortableIs
<1>2. Ordered(t) => Sorted(t)
  BY <1>1 DEF Ordered, Sorted, Before
<1>3. Ordered(t) => Stable(t)
  BY <1>1 DEF Ordered, Stable, Before
<1>4. Sorted(t) /\ Stable(t) => Ordered(t)
  BY <1>1 DEF Ordered, Sorted, Stable, Before
<1> QED BY <1>2, <1>3, <1>4

(* Both parts sorted, merging sorts the whole.                             *)
LEMMA MergeSorts ==
  ASSUME NEW s \in Seq(Sortable), NEW h \in 0..Len(s), NEW p, NEW q,
         SortsTo(p, SubSeq(s, 1, h)), SortsTo(q, SubSeq(s, h + 1, Len(s)))
  PROVE  SortsTo(Merge(p, q), s)
<1> DEFINE a == SubSeq(s, 1, h)
           b == SubSeq(s, h + 1, Len(s))
<1>1. Parts(s, a, b) /\ Len(a) = h /\ Len(b) = Len(s) - h
  BY PartsAre
<1>2. /\ p \in Seq(Sortable) /\ Len(p) = Len(a) /\ Elements(p) = Elements(a) /\ (ById(a) => Ordered(p))
      /\ q \in Seq(Sortable) /\ Len(q) = Len(b) /\ Elements(q) = Elements(b) /\ (ById(b) => Ordered(q))
  BY DEF SortsTo
<1> HIDE DEF a, b
<1>3. /\ Merge(p, q) \in Seq(Sortable) /\ Len(Merge(p, q)) = Len(p) + Len(q)
      /\ Elements(Merge(p, q)) = Elements(p) \cup Elements(q)
      /\ Mergeable(p, q) => Ordered(Merge(p, q))
  BY <1>2, MergeIs
<1>4. ASSUME ById(s) PROVE Mergeable(p, q)
  <2>1. Ordered(p) /\ Ordered(q) /\ \A x \in Elements(p), y \in Elements(q) : x.id < y.id
    BY <1>1, <1>2, <1>4 DEF Parts
  <2>2. Precedes(p, q)
    BY <2>1 DEF Elements, Precedes
  <2> QED BY <2>1, <2>2 DEF Mergeable
<1>5. Len(Merge(p, q)) = Len(s)
  <2>1. Len(s) \in Nat /\ h \in Int
    OBVIOUS
  <2> QED BY <1>1, <1>2, <1>3, <2>1
<1>6. Elements(Merge(p, q)) = Elements(s)
  BY <1>1, <1>2, <1>3 DEF Parts
<1> QED BY <1>3, <1>4, <1>5, <1>6 DEF SortsTo

(* f sorts what is in leaf, and of the rest the two parts, merging them.   *)
Halves(leaf, half) ==
  /\ leaf \subseteq Seq(Sortable) /\ half \in [Seq(Sortable) -> Nat]
  /\ \A s \in Seq(Sortable) \ leaf : half[s] \in 1..(Len(s) - 1)

Halved(f, s, half) == Merge(f[SubSeq(s, 1, half[s])], f[SubSeq(s, half[s] + 1, Len(s))])
HalvedOrBase(f, s, leaf, base, half) == IF s \in leaf THEN base[s] ELSE Halved(f, s, half)

LEMMA HalvesExist ==
  ASSUME NEW leaf, NEW half, NEW base \in [Seq(Sortable) -> Seq(Sortable)], Halves(leaf, half)
  PROVE  \E f \in [Seq(Sortable) -> Seq(Sortable)] :
           \A s \in Seq(Sortable) : f[s] = HalvedOrBase(f, s, leaf, base, half)
<1> DEFINE D == Seq(Sortable)
           size == [s \in D |-> Len(s)]
           first == [s \in D |-> IF s \in leaf THEN s ELSE SubSeq(s, 1, half[s])]
           second == [s \in D |-> IF s \in leaf THEN s ELSE SubSeq(s, half[s] + 1, Len(s))]
           join == [x \in D \X D \X D |-> Merge(x[2], x[3])]
<1>1. ASSUME NEW s \in D \ leaf
      PROVE  /\ SubSeq(s, 1, half[s]) \in D /\ Len(SubSeq(s, 1, half[s])) < Len(s)
             /\ SubSeq(s, half[s] + 1, Len(s)) \in D /\ Len(SubSeq(s, half[s] + 1, Len(s))) < Len(s)
  <2>1. half[s] \in 1..(Len(s) - 1) /\ Len(s) \in Nat
    BY DEF Halves
  <2> DEFINE h == half[s]
  <2> HIDE DEF h
  <2>2. h \in 0..Len(s) /\ h < Len(s) /\ Len(s) - h < Len(s)
    BY <2>1 DEF h
  <2>3. /\ Parts(s, SubSeq(s, 1, h), SubSeq(s, h + 1, Len(s)))
        /\ Len(SubSeq(s, 1, h)) = h /\ Len(SubSeq(s, h + 1, Len(s))) = Len(s) - h
    BY <2>2, PartsAre
  <2> QED BY <2>2, <2>3 DEF Parts, h
<1>2. size \in [D -> Nat] /\ leaf \subseteq D
  BY DEF Halves
<1>3. first \in [D -> D] /\ second \in [D -> D]
  <2> HIDE DEF D
  <2> QED BY <1>1
<1>4. join \in [D \X D \X D -> D]
  <2>1. \A a, b \in D : Merge(a, b) \in D
    BY MergeIs
  <2> HIDE DEF D
  <2> QED BY <2>1
<1>5. \A s \in D \ leaf : size[first[s]] < size[s] /\ size[second[s]] < size[s]
  <2> HIDE DEF D
  <2> QED BY <1>1
<1>6. Divides(D, D, size, leaf, base, first, second, join)
  <2> HIDE DEF D, size, first, second, join
  <2>1. base \in [D -> D]
    BY DEF D
  <2> QED BY <1>2, <1>3, <1>4, <1>5, <2>1 DEF Divides
<1>7. PICK f \in [D -> D] : \A s \in D : f[s] = Divided(f, s, leaf, base, first, second, join)
  <2> HIDE DEF D, size, first, second, join
  <2> QED BY <1>6, DividedExists
<1>8. ASSUME NEW s \in D PROVE f[s] = HalvedOrBase(f, s, leaf, base, half)
  <2>1. CASE s \in leaf
    BY <1>7, <2>1 DEF Divided, HalvedOrBase
  <2>2. CASE s \notin leaf
    <3>1. first[s] = SubSeq(s, 1, half[s]) /\ second[s] = SubSeq(s, half[s] + 1, Len(s))
      BY <2>2
    <3>2. first[s] \in D /\ second[s] \in D
      BY <1>3
    <3> DEFINE a == f[first[s]]
               b == f[second[s]]
    <3>3. a \in D /\ b \in D
      <4> HIDE DEF D, first, second
      <4> QED BY <1>7, <3>2
    <3>4. f[s] = join[<<s, a, b>>]
      BY <1>7, <2>2 DEF Divided
    <3>5. join[<<s, a, b>>] = Merge(a, b)
      <4> HIDE DEF D, a, b
      <4> QED BY <3>3
    <3> QED BY <2>2, <3>1, <3>4, <3>5 DEF Halved, HalvedOrBase
  <2> QED BY <2>1, <2>2
<1> QED BY <1>7, <1>8

LEMMA HalvesSort ==
  ASSUME NEW leaf, NEW half, Halves(leaf, half), NEW f,
         \A s \in leaf : SortsTo(f[s], s), \A s \in Seq(Sortable) \ leaf : f[s] = Halved(f, s, half)
  PROVE  \A s \in Seq(Sortable) : SortsTo(f[s], s)
<1> DEFINE T == {s \in Seq(Sortable) : SortsTo(f[s], s)}
<1>1. ASSUME NEW s \in Seq(Sortable), \A r \in Seq(Sortable) : Len(r) < Len(s) => r \in T PROVE s \in T
  <2>1. CASE s \in leaf
    BY <2>1
  <2>2. CASE s \notin leaf
    <3> DEFINE h == half[s]
               a == SubSeq(s, 1, h)
               b == SubSeq(s, h + 1, Len(s))
    <3>1. h \in 1..(Len(s) - 1) /\ Len(s) \in Nat
      BY <2>2 DEF Halves
    <3>2. f[s] = Merge(f[a], f[b])
      BY <2>2 DEF Halved
    <3> HIDE DEF h
    <3>3. h \in 0..Len(s) /\ h < Len(s) /\ Len(s) - h < Len(s)
      BY <3>1
    <3>4. Parts(s, a, b) /\ Len(a) = h /\ Len(b) = Len(s) - h
      BY <3>3, PartsAre
    <3>5. a \in Seq(Sortable) /\ b \in Seq(Sortable)
      BY <3>4 DEF Parts
    <3>6. SortsTo(f[a], a) /\ SortsTo(f[b], b)
      <4> HIDE DEF a, b
      <4> QED BY <1>1, <3>3, <3>4, <3>5
    <3>7. SortsTo(Merge(f[a], f[b]), s)
      BY <3>3, <3>6, MergeSorts
    <3> QED BY <3>2, <3>7
  <2> QED BY <2>1, <2>2
<1>2. Seq(Sortable) \subseteq T
  <2> HIDE DEF T
  <2> QED BY <1>1, ByLength
<1> QED BY <1>2

LEMMA InsertionIsStable ==
  ASSUME NEW s \in Seq(Sortable)
  PROVE  SortsTo(insertion_sort(s), s)
<1> DEFINE t == insertion_sort(s)
<1>1. t \in Seq(Sortable) /\ Arranges(t, s) /\ (ById(s) => Stable(t))
  BY InsertionSorts
<1> HIDE DEF t
<1>2. Len(t) = Len(s) /\ Elements(t) = Elements(s) /\ Sorted(t)
  BY <1>1 DEF Arranges
<1>3. ById(s) => Ordered(t)
  BY <1>1, <1>2, SortedIs
<1> QED BY <1>1, <1>2, <1>3 DEF SortsTo, t

LEMMA MsortSorts ==
  ASSUME NEW s \in Seq(Sortable)
  PROVE  SortsTo(msort_r[s], s)
<1> DEFINE D == Seq(Sortable)
           leaf == {r \in D : Len(r) < MINIMUM_INSERT_SORT}
           half == [r \in D |-> Len(r) \div 2]
           base == [r \in D |-> insertion_sort(r)]
           Is(g) == g = [r \in D |->
                      LET m == Len(r) \div 2
                      IN  IF Len(r) < MINIMUM_INSERT_SORT THEN insertion_sort(r)
                          ELSE Merge(g[SubSeq(r, 1, m)], g[SubSeq(r, m + 1, Len(r))])]
           F == CHOOSE g : Is(g)
<1>1. Halves(leaf, half)
  <2>1. ASSUME NEW r \in D \ leaf PROVE half[r] \in 1..(Len(r) - 1)
    <3>1. Len(r) \in Nat /\ ~(Len(r) < MINIMUM_INSERT_SORT) /\ half[r] = Len(r) \div 2
      OBVIOUS
    <3>2. MINIMUM_INSERT_SORT \in Nat /\ MINIMUM_INSERT_SORT >= 2
      BY SortAssumption DEF SortAssumption
    <3> DEFINE n == Len(r)
    <3> HIDE DEF n
    <3>3. n \in Nat /\ n >= 2
      BY <3>1, <3>2 DEF n
    <3>4. n \div 2 \in 1..(n - 1)
      BY <3>3
    <3> QED BY <3>1, <3>4 DEF n
  <2>2. half \in [D -> Nat]
    <3>1. \A r \in D : Len(r) \in Nat
      OBVIOUS
    <3>2. \A n \in Nat : n \div 2 \in Nat
      OBVIOUS
    <3> HIDE DEF D
    <3> QED BY <3>1, <3>2
  <2> QED BY <2>1, <2>2 DEF Halves
<1>2. base \in [D -> D]
  BY InsertionSorts
<1>3. PICK f \in [D -> D] : \A r \in D : f[r] = HalvedOrBase(f, r, leaf, base, half)
  <2> HIDE DEF leaf, half, base
  <2> QED BY <1>1, <1>2, HalvesExist
<1>4. ASSUME NEW r \in D, NEW g
      PROVE  HalvedOrBase(g, r, leaf, base, half)
             = LET m == Len(r) \div 2
               IN  IF Len(r) < MINIMUM_INSERT_SORT THEN insertion_sort(r)
                   ELSE Merge(g[SubSeq(r, 1, m)], g[SubSeq(r, m + 1, Len(r))])
  BY DEF Halved, HalvedOrBase
<1>5. Is(f)
  <2> HIDE DEF leaf, half, base, D
  <2>1. f = [r \in D |-> f[r]]
    BY <1>3
  <2> QED BY <1>3, <1>4, <2>1
<1>6. Is(F)
  <2> HIDE DEF Is
  <2> QED BY <1>5
<1>7. msort_r = F
  BY DEF msort_r
<1> HIDE DEF F
<1>8. \A r \in leaf : SortsTo(F[r], r)
  <2>1. ASSUME NEW r \in leaf PROVE F[r] = insertion_sort(r)
    BY <1>6
  <2>2. \A r \in leaf : SortsTo(insertion_sort(r), r)
    BY InsertionIsStable
  <2> QED BY <2>1, <2>2
<1>9. \A r \in D \ leaf : F[r] = Halved(F, r, half)
  <2>1. ASSUME NEW r \in D \ leaf
        PROVE F[r] = Merge(F[SubSeq(r, 1, Len(r) \div 2)], F[SubSeq(r, (Len(r) \div 2) + 1, Len(r))])
    BY <1>6
  <2> QED BY <2>1 DEF Halved
<1>10. \A r \in D : SortsTo(F[r], r)
  <2> HIDE DEF leaf, half
  <2> QED BY <1>1, <1>8, <1>9, HalvesSort
<1> QED BY <1>7, <1>10

LEMMA ListSortSorts ==
  ASSUME NEW s \in Seq(Sortable)
  PROVE  SortsTo(list_sort_r[s], s)
<1> DEFINE D == Seq(Sortable)
           leaf == {r \in D : Len(r) < 2}
           half == [r \in D |-> (Len(r) + 1) \div 2]
           base == [r \in D |-> r]
           Is(g) == g = [r \in D |->
                      LET m == (Len(r) + 1) \div 2
                      IN  IF Len(r) < 2 THEN r
                          ELSE Merge(g[SubSeq(r, 1, m)], g[SubSeq(r, m + 1, Len(r))])]
           F == CHOOSE g : Is(g)
<1>1. Halves(leaf, half)
  <2>1. ASSUME NEW r \in D \ leaf PROVE half[r] \in 1..(Len(r) - 1)
    <3>1. Len(r) \in Nat /\ ~(Len(r) < 2) /\ half[r] = (Len(r) + 1) \div 2
      OBVIOUS
    <3> DEFINE n == Len(r)
    <3> HIDE DEF n
    <3>2. n \in Nat /\ n >= 2
      BY <3>1 DEF n
    <3>3. (n + 1) \div 2 \in 1..(n - 1)
      BY <3>2
    <3> QED BY <3>1, <3>3 DEF n
  <2>2. half \in [D -> Nat]
    <3>1. \A r \in D : Len(r) \in Nat
      OBVIOUS
    <3>2. \A n \in Nat : (n + 1) \div 2 \in Nat
      OBVIOUS
    <3> HIDE DEF D
    <3> QED BY <3>1, <3>2
  <2> QED BY <2>1, <2>2 DEF Halves
<1>2. base \in [D -> D]
  OBVIOUS
<1>3. PICK f \in [D -> D] : \A r \in D : f[r] = HalvedOrBase(f, r, leaf, base, half)
  <2> HIDE DEF leaf, half, base
  <2> QED BY <1>1, <1>2, HalvesExist
<1>4. ASSUME NEW r \in D, NEW g
      PROVE  HalvedOrBase(g, r, leaf, base, half)
             = LET m == (Len(r) + 1) \div 2
               IN  IF Len(r) < 2 THEN r
                   ELSE Merge(g[SubSeq(r, 1, m)], g[SubSeq(r, m + 1, Len(r))])
  BY DEF Halved, HalvedOrBase
<1>5. Is(f)
  <2> HIDE DEF leaf, half, base, D
  <2>1. f = [r \in D |-> f[r]]
    BY <1>3
  <2> QED BY <1>3, <1>4, <2>1
<1>6. Is(F)
  <2> HIDE DEF Is
  <2> QED BY <1>5
<1>7. list_sort_r = F
  BY DEF list_sort_r
<1> HIDE DEF F
<1>8. \A r \in leaf : SortsTo(F[r], r)
  <2>1. ASSUME NEW r \in leaf PROVE F[r] = r /\ r \in D /\ Len(r) < 2
    BY <1>6
  <2>2. ASSUME NEW r \in D, Len(r) < 2 PROVE SortsTo(r, r)
    <3>1. DOMAIN r = 1..Len(r) /\ Len(r) \in Nat
      BY SortableIs
    <3>2. Ordered(r)
      BY <2>2, <3>1 DEF Ordered
    <3> QED BY <3>2 DEF SortsTo
  <2> QED BY <2>1, <2>2
<1>9. \A r \in D \ leaf : F[r] = Halved(F, r, half)
  <2>1. ASSUME NEW r \in D \ leaf
        PROVE F[r] = Merge(F[SubSeq(r, 1, (Len(r) + 1) \div 2)], F[SubSeq(r, ((Len(r) + 1) \div 2) + 1, Len(r))])
    BY <1>6
  <2> QED BY <2>1 DEF Halved
<1>10. \A r \in D : SortsTo(F[r], r)
  <2> HIDE DEF leaf, half
  <2> QED BY <1>1, <1>8, <1>9, HalvesSort
<1> QED BY <1>7, <1>10

----------------------------------------------------------------------------
(* The runs of HASH_SRT, pass by pass.                                     *)
Passes == [Nat \ {0} -> Seq(Sortable)]

NextPass(r) == [n \in Nat \ {0} |-> Merge(r[2 * n - 1], r[2 * n])]

FirstPass(s) == [n \in Nat \ {0} |-> IF n \in DOMAIN s THEN <<s[n]>> ELSE <<>>]

LEMMA TwiceIs ==
  ASSUME NEW n \in Nat \ {0}
  PROVE  2 * n - 1 \in Nat \ {0} /\ 2 * n \in Nat \ {0} /\ 2 * n - 1 < 2 * n
OBVIOUS

LEMMA PassIs ==
  ASSUME NEW r \in Passes
  PROVE  /\ NextPass(r) \in Passes
         /\ \A n \in Nat \ {0} : NextPass(r)[n] = Merge(r[2 * n - 1], r[2 * n])
<1>1. ASSUME NEW n \in Nat \ {0} PROVE Merge(r[2 * n - 1], r[2 * n]) \in Seq(Sortable)
  <2>1. r[2 * n - 1] \in Seq(Sortable) /\ r[2 * n] \in Seq(Sortable)
    BY TwiceIs DEF Passes
  <2> QED BY <2>1, MergeIs
<1> QED BY <1>1 DEF NextPass, Passes

LEMMA RunSteps ==
  ASSUME NEW s \in Seq(Sortable)
  PROVE  \E F : /\ F[0] = FirstPass(s) /\ \A k \in 1..Len(s) : F[k] = NextPass(F[k - 1])
                /\ SortRuns(s) = F[CHOOSE k \in 0..Len(s) : F[k][2] = <<>>][1]
<1> DEFINE N == Len(s)
           V == Passes
           base == FirstPass(s)
           step == [x \in V \X (1..N) |-> NextPass(x[1])]
           Is(g) == g = [k \in 0..N |-> IF k = 0 THEN base ELSE NextPass(g[k - 1])]
           F == CHOOSE g : Is(g)
<1>1. N \in Nat
  OBVIOUS
<1>2. base \in V
  <2>1. DOMAIN s = 1..Len(s) /\ \A i \in DOMAIN s : s[i] \in Sortable
    BY SortableIs
  <2>2. ASSUME NEW n \in Nat \ {0} PROVE (IF n \in DOMAIN s THEN <<s[n]>> ELSE <<>>) \in Seq(Sortable)
    <3>1. CASE n \in DOMAIN s
      <4>1. s[n] \in Sortable
        BY <2>1, <3>1
      <4> QED BY <3>1, <4>1
    <3>2. CASE n \notin DOMAIN s
      BY <3>2
    <3> QED BY <3>1, <3>2
  <2> QED BY <2>2 DEF FirstPass, Passes
<1>3. step \in [V \X (1..N) -> V] /\ \A r \in V, k \in 1..N : step[<<r, k>>] = NextPass(r)
  <2>1. \A r \in V : NextPass(r) \in V
    BY PassIs
  <2> HIDE DEF V
  <2> QED BY <2>1
<1> HIDE DEF step, V, base
<1>4. PICK f : IsSteps(f, N, V, base, step)
  BY <1>1, <1>2, <1>3, StepsExist
<1>5. Is(f)
  <2>1. f = [k \in 0..N |-> f[k]]
    BY <1>4 DEF IsSteps
  <2>2. ASSUME NEW k \in 0..N PROVE f[k] = IF k = 0 THEN base ELSE NextPass(f[k - 1])
    <3>1. k # 0 => k \in 1..N /\ k - 1 \in 0..N
      BY <1>1
    <3> QED BY <1>3, <1>4, <3>1 DEF IsSteps
  <2> QED BY <2>1, <2>2
<1>6. Is(F)
  <2> HIDE DEF Is
  <2> QED BY <1>5
<1>7. SortRuns(s) = F[CHOOSE k \in 0..N : F[k][2] = <<>>][1]
  BY DEF SortRuns, base, FirstPass, NextPass
<1> HIDE DEF F
<1>8. F[0] = base
  BY <1>1, <1>6
<1>9. ASSUME NEW k \in 1..N PROVE F[k] = NextPass(F[k - 1])
  <2>1. k \in 0..N /\ k # 0
    BY <1>1
  <2> QED BY <1>6, <2>1
<1> QED BY <1>7, <1>8, <1>9 DEF base

(* After k passes: the runs are ordered, one precedes the next, and        *)
(* together they hold what is sorted; those behind the last one are empty. *)
Run == Nat \ {0}

RunsOf(r, s) ==
  /\ \A n \in Run : Ordered(r[n]) /\ Elements(r[n]) \subseteq Elements(s)
  /\ \A x \in Elements(s) : \E n \in Run : x \in Elements(r[n])
  /\ \A n, m \in Run : n < m => \A x \in Elements(r[n]), y \in Elements(r[m]) : x.id < y.id

EmptyAfter(r, s, k) ==
  /\ \A n, m \in Run : n < m /\ r[n] = <<>> => r[m] = <<>>
  /\ \A n \in Run : n >= 2 /\ n + k > Len(s) => r[n] = <<>>

LEMMA EmptyIs ==
  ASSUME NEW t \in Seq(Sortable)
  PROVE  t = <<>> <=> Len(t) = 0
<1>1. Len(t) = 0 => t = <<>>
  OBVIOUS
<1> QED BY <1>1

LEMMA FirstRuns ==
  ASSUME NEW s \in Seq(Sortable), ById(s)
  PROVE  RunsOf(FirstPass(s), s) /\ EmptyAfter(FirstPass(s), s, 0)
<1> DEFINE r == FirstPass(s)
           N == Len(s)
<1>1. DOMAIN s = 1..N /\ N \in Nat
  BY SortableIs
<1>2. \A n \in Run : r[n] = IF n \in 1..N THEN <<s[n]>> ELSE <<>>
  BY <1>1 DEF FirstPass, Run
<1>n. \A n \in 1..N : n \in Run
  BY <1>1 DEF Run
<1> HIDE DEF r, N
<1>3. ASSUME NEW n \in Run PROVE Ordered(r[n]) /\ Elements(r[n]) = IF n \in 1..N THEN {s[n]} ELSE {}
  <2>1. CASE n \in 1..N
    <3> DEFINE t == <<s[n]>>
    <3>1. DOMAIN t = {1} /\ t[1] = s[n]
      OBVIOUS
    <3>2. r[n] = t
      BY <1>2, <2>1
    <3> HIDE DEF t
    <3>3. Elements(t) = {s[n]}
      BY <3>1 DEF Elements
    <3>4. Ordered(t)
      BY <3>1 DEF Ordered
    <3> QED BY <2>1, <3>2, <3>3, <3>4
  <2>2. CASE n \notin 1..N
    <3> DEFINE t == <<>>
    <3>1. DOMAIN t = {}
      OBVIOUS
    <3>2. r[n] = t
      BY <1>2, <2>2
    <3> HIDE DEF t
    <3>3. Elements(t) = {}
      BY <3>1 DEF Elements
    <3>4. Ordered(t)
      BY <3>1 DEF Ordered
    <3> QED BY <2>2, <3>2, <3>3, <3>4
  <2> QED BY <2>1, <2>2
<1>4. Elements(s) = {s[n] : n \in 1..N}
  BY <1>1 DEF Elements
<1>5. \A n \in Run : Ordered(r[n]) /\ Elements(r[n]) \subseteq Elements(s)
  BY <1>3, <1>4
<1>6. \A x \in Elements(s) : \E n \in Run : x \in Elements(r[n])
  <2>1. ASSUME NEW n \in 1..N PROVE \E l \in Run : s[n] \in Elements(r[l])
    BY <1>3, <1>n
  <2> QED BY <1>4, <2>1
<1>7. ASSUME NEW n \in Run, NEW m \in Run, n < m, NEW x \in Elements(r[n]), NEW y \in Elements(r[m]) PROVE x.id < y.id
  <2>1. n \in 1..N /\ m \in 1..N /\ x = s[n] /\ y = s[m]
    BY <1>3, <1>7
  <2> QED BY <1>1, <1>7, <2>1 DEF ById
<1>8. ASSUME NEW n \in Run, NEW m \in Run, n < m, r[n] = <<>> PROVE r[m] = <<>>
  <2>1. n \notin 1..N
    <3> SUFFICES ASSUME n \in 1..N PROVE FALSE
      OBVIOUS
    <3>1. r[n] = <<s[n]>> /\ <<s[n]>> # <<>>
      BY <1>2
    <3> QED BY <1>8, <3>1
  <2>2. m \notin 1..N
    BY <1>1, <1>8, <2>1 DEF Run
  <2> QED BY <1>2, <2>2
<1>9. ASSUME NEW n \in Run, n + 0 > N PROVE r[n] = <<>>
  <2>1. n \notin 1..N
    BY <1>1, <1>9 DEF Run
  <2> QED BY <1>2, <2>1
<1>10. RunsOf(r, s)
  BY <1>5, <1>6, <1>7 DEF RunsOf
<1>11. EmptyAfter(r, s, 0)
  BY <1>8, <1>9 DEF EmptyAfter, N
<1> QED BY <1>10, <1>11 DEF r

(* One more pass.                                                          *)
LEMMA NextRuns ==
  ASSUME NEW s \in Seq(Sortable), NEW r \in Passes, RunsOf(r, s)
  PROVE  RunsOf(NextPass(r), s)
<1> DEFINE q == NextPass(r)
           A(n) == r[2 * n - 1]
           B(n) == r[2 * n]
<1>1. \A n \in Run : 2 * n - 1 \in Run /\ 2 * n \in Run /\ 2 * n - 1 < 2 * n
  BY TwiceIs DEF Run
<1>2. \A n \in Run : A(n) \in Seq(Sortable) /\ B(n) \in Seq(Sortable)
  BY <1>1 DEF Passes, Run
<1>3. \A n \in Run : q[n] = Merge(A(n), B(n))
  BY PassIs DEF Run
<1>r. /\ \A n \in Run : Ordered(r[n]) /\ Elements(r[n]) \subseteq Elements(s)
      /\ \A n, m \in Run : n < m => \A x \in Elements(r[n]), y \in Elements(r[m]) : x.id < y.id
  BY DEF RunsOf
<1>e. \A x \in Elements(s) : \E n \in Run : x \in Elements(r[n])
  BY DEF RunsOf
<1> HIDE DEF q
<1>4. ASSUME NEW n \in Run PROVE Ordered(q[n]) /\ Elements(q[n]) = Elements(A(n)) \cup Elements(B(n))
  <2>1. \A x \in Elements(A(n)), y \in Elements(B(n)) : x.id < y.id
    BY <1>1, <1>r
  <2>2. Precedes(A(n), B(n))
    BY <2>1 DEF Precedes, Elements
  <2>3. Ordered(A(n)) /\ Ordered(B(n))
    BY <1>1, <1>r
  <2>4. Mergeable(A(n), B(n))
    BY <2>2, <2>3 DEF Mergeable
  <2> DEFINE a == A(n)
             b == B(n)
  <2>5. a \in Seq(Sortable) /\ b \in Seq(Sortable) /\ Mergeable(a, b) /\ q[n] = Merge(a, b)
    BY <1>2, <1>3, <2>4
  <2> HIDE DEF a, b
  <2>6. Ordered(q[n]) /\ Elements(q[n]) = Elements(a) \cup Elements(b)
    BY <2>5, MergeIs
  <2> QED BY <2>6 DEF a, b
<1>5. \A n \in Run : Ordered(q[n]) /\ Elements(q[n]) \subseteq Elements(s)
  BY <1>1, <1>4, <1>r
<1>6. ASSUME NEW x \in Elements(s) PROVE \E n \in Run : x \in Elements(q[n])
  <2>1. PICK n \in Run : x \in Elements(r[n])
    BY <1>e
  <2>2. \E m \in Run : n = 2 * m - 1 \/ n = 2 * m
    <3>1. n \in Nat /\ n >= 1
      BY DEF Run
    <3> DEFINE m == (n + 1) \div 2
    <3>2. m \in Nat /\ m >= 1 /\ (n = 2 * m - 1 \/ n = 2 * m)
      BY <3>1
    <3> HIDE DEF m
    <3>3. m \in Run
      BY <3>2 DEF Run
    <3> QED BY <3>2, <3>3
  <2>3. PICK m \in Run : n = 2 * m - 1 \/ n = 2 * m
    BY <2>2
  <2>4. x \in Elements(A(m)) \/ x \in Elements(B(m))
    BY <2>1, <2>3
  <2>5. x \in Elements(q[m])
    BY <1>4, <2>4
  <2> QED BY <2>5
<1>7. ASSUME NEW n \in Run, NEW m \in Run, n < m, NEW x \in Elements(q[n]), NEW y \in Elements(q[m]) PROVE x.id < y.id
  <2>1. PICK i \in Run : i <= 2 * n /\ x \in Elements(r[i])
    <3>1. x \in Elements(A(n)) \/ x \in Elements(B(n))
      BY <1>4
    <3>2. 2 * n - 1 <= 2 * n /\ 2 * n <= 2 * n
      BY DEF Run
    <3> QED BY <1>1, <3>1, <3>2
  <2>2. PICK j \in Run : 2 * m - 1 <= j /\ y \in Elements(r[j])
    <3>1. y \in Elements(A(m)) \/ y \in Elements(B(m))
      BY <1>4
    <3>2. 2 * m - 1 <= 2 * m - 1 /\ 2 * m - 1 <= 2 * m
      BY DEF Run
    <3> QED BY <1>1, <3>1, <3>2
  <2>3. i < j
    BY <1>7, <2>1, <2>2 DEF Run
  <2> QED BY <1>r, <2>1, <2>2, <2>3
<1> QED BY <1>5, <1>6, <1>7 DEF RunsOf, q

LEMMA NextEmpty ==
  ASSUME NEW s \in Seq(Sortable), NEW r \in Passes, NEW k \in Nat, EmptyAfter(r, s, k)
  PROVE  EmptyAfter(NextPass(r), s, k + 1)
<1> DEFINE q == NextPass(r)
           N == Len(s)
<1>1. \A n \in Run : 2 * n - 1 \in Run /\ 2 * n \in Run /\ 2 * n - 1 < 2 * n
  BY TwiceIs DEF Run
<1>2. \A n \in Run : r[n] \in Seq(Sortable)
  BY DEF Passes, Run
<1>3. \A n \in Run : q[n] = Merge(r[2 * n - 1], r[2 * n])
  BY PassIs DEF Run
<1>e. /\ \A n, m \in Run : n < m /\ r[n] = <<>> => r[m] = <<>>
      /\ \A n \in Run : n >= 2 /\ n + k > N => r[n] = <<>>
  BY DEF EmptyAfter
<1> HIDE DEF q
<1>4. ASSUME NEW n \in Run PROVE q[n] = <<>> <=> r[2 * n - 1] = <<>> /\ r[2 * n] = <<>>
  <2> DEFINE a == r[2 * n - 1]
             b == r[2 * n]
  <2>1. a \in Seq(Sortable) /\ b \in Seq(Sortable) /\ q[n] = Merge(a, b)
    BY <1>1, <1>2, <1>3
  <2> HIDE DEF a, b
  <2>2. Merge(a, b) \in Seq(Sortable) /\ Len(Merge(a, b)) = Len(a) + Len(b)
    BY <2>1, MergeIs
  <2>l. Len(a) \in Nat /\ Len(b) \in Nat
    BY <2>1
  <2>m. Merge(a, b) = <<>> <=> Len(Merge(a, b)) = 0
    BY <2>2, EmptyIs
  <2>s. Len(a) + Len(b) = 0 <=> Len(a) = 0 /\ Len(b) = 0
    BY <2>l
  <2>3. q[n] = <<>> <=> Len(a) = 0 /\ Len(b) = 0
    BY <2>1, <2>2, <2>m, <2>s
  <2>4. (a = <<>> <=> Len(a) = 0) /\ (b = <<>> <=> Len(b) = 0)
    BY <2>1, EmptyIs
  <2> QED BY <2>3, <2>4 DEF a, b
<1>5. ASSUME NEW n \in Run, NEW m \in Run, n < m, q[n] = <<>> PROVE q[m] = <<>>
  <2>1. r[2 * n] = <<>>
    BY <1>4, <1>5
  <2>2. 2 * n < 2 * m - 1 /\ 2 * n < 2 * m
    BY <1>5 DEF Run
  <2> QED BY <1>1, <1>4, <1>e, <2>1, <2>2
<1>6. ASSUME NEW n \in Run, n >= 2, n + (k + 1) > N PROVE q[n] = <<>>
  <2>1. N \in Nat
    OBVIOUS
  <2>2. 2 * n - 1 >= 2 /\ 2 * n >= 2 /\ 2 * n - 1 + k > N /\ 2 * n + k > N
    BY <1>6, <2>1 DEF Run
  <2> QED BY <1>1, <1>4, <1>e, <2>2
<1> QED BY <1>5, <1>6 DEF EmptyAfter, q

(* The pass that leaves a single run leaves it as the stable order.        *)
LEMMA HashSorts ==
  ASSUME NEW s \in Seq(Sortable), ById(s), Len(s) > 0
  PROVE  /\ SortRuns(s) \in Seq(Sortable) /\ Ordered(SortRuns(s))
         /\ Elements(SortRuns(s)) = Elements(s)
<1> DEFINE N == Len(s)
<1>1. PICK F : /\ F[0] = FirstPass(s) /\ \A k \in 1..N : F[k] = NextPass(F[k - 1])
               /\ SortRuns(s) = F[CHOOSE k \in 0..N : F[k][2] = <<>>][1]
  BY RunSteps
<1> DEFINE Holds(k) == F[k] \in Passes /\ RunsOf(F[k], s) /\ EmptyAfter(F[k], s, k)
           T == {k \in 0..N : Holds(k)}
           last == CHOOSE k \in 0..N : F[k][2] = <<>>
<1>2. N \in Nat /\ N > 0
  OBVIOUS
<1>3. 0 \in T
  <2>1. FirstPass(s) \in Passes
    <3>1. DOMAIN s = 1..Len(s) /\ \A i \in DOMAIN s : s[i] \in Sortable
      BY SortableIs
    <3>2. ASSUME NEW n \in Nat \ {0} PROVE (IF n \in DOMAIN s THEN <<s[n]>> ELSE <<>>) \in Seq(Sortable)
      <4>1. n \in DOMAIN s => s[n] \in Sortable
        BY <3>1
      <4>2. CASE n \in DOMAIN s
        BY <4>1, <4>2
      <4>3. CASE n \notin DOMAIN s
        BY <4>3
      <4> QED BY <4>2, <4>3
    <3> QED BY <3>2 DEF FirstPass, Passes
  <2>2. RunsOf(FirstPass(s), s) /\ EmptyAfter(FirstPass(s), s, 0)
    BY FirstRuns
  <2> QED BY <1>1, <1>2, <2>1, <2>2
<1>4. ASSUME NEW k \in 0..(N - 1), k \in T PROVE k + 1 \in T
  <2>1. k + 1 \in 1..N /\ k + 1 \in 0..N /\ (k + 1) - 1 = k /\ k \in Nat
    BY <1>2
  <2>2. F[k + 1] = NextPass(F[k])
    BY <1>1, <2>1
  <2>3. Holds(k)
    BY <1>4
  <2>4. NextPass(F[k]) \in Passes
    BY <2>3, PassIs
  <2>5. RunsOf(NextPass(F[k]), s)
    BY <2>3, NextRuns
  <2>6. EmptyAfter(NextPass(F[k]), s, k + 1)
    BY <2>1, <2>3, NextEmpty
  <2> QED BY <2>1, <2>2, <2>4, <2>5, <2>6
<1>5. \A k \in 0..N : Holds(k)
  <2>1. \A k \in 0..N : k \in T
    <3> HIDE DEF T
    <3> QED BY <1>2, <1>3, <1>4, CountingUp
  <2> QED BY <2>1
<1>6. last \in 0..N /\ F[last][2] = <<>>
  <2>1. N - 1 \in 0..N /\ 2 \in Run /\ 2 >= 2 /\ 2 + (N - 1) > N
    BY <1>2 DEF Run
  <2>2. EmptyAfter(F[N - 1], s, N - 1)
    BY <1>5, <2>1
  <2>3. F[N - 1][2] = <<>>
    BY <2>1, <2>2 DEF EmptyAfter
  <2> QED BY <2>1, <2>3
<1>7. SortRuns(s) = F[last][1]
  BY <1>1
<1> HIDE DEF last
<1>8. F[last] \in Passes /\ RunsOf(F[last], s) /\ EmptyAfter(F[last], s, last)
  BY <1>5, <1>6
<1> DEFINE r == F[last]
<1> HIDE DEF r
<1>9. r \in Passes /\ RunsOf(r, s) /\ EmptyAfter(r, s, last) /\ r[2] = <<>> /\ SortRuns(s) = r[1]
  BY <1>6, <1>7, <1>8 DEF r
<1>10. 1 \in Run /\ 2 \in Run /\ r[1] \in Seq(Sortable)
  BY <1>9 DEF Run, Passes
<1>11. Ordered(r[1]) /\ Elements(r[1]) \subseteq Elements(s)
  BY <1>9, <1>10 DEF RunsOf
<1>12. ASSUME NEW x \in Elements(s) PROVE x \in Elements(r[1])
  <2>1. PICK n \in Run : x \in Elements(r[n])
    BY <1>9 DEF RunsOf
  <2>2. n # 1 => r[n] = <<>>
    <3>1. n # 1 => n = 2 \/ 2 < n
      BY DEF Run
    <3> QED BY <1>9, <1>10, <3>1 DEF EmptyAfter
  <2>3. Elements(<<>>) = {}
    BY DEF Elements
  <2> QED BY <2>1, <2>2, <2>3
<1> QED BY <1>9, <1>10, <1>11, <1>12

----------------------------------------------------------------------------
(* Quicksort.  Two elements change places.                                 *)
LEMMA SwapIs ==
  ASSUME NEW s \in Seq(Sortable), NEW i \in 1..Len(s), NEW j \in 1..Len(s)
  PROVE  /\ Swap(s, i, j) \in Seq(Sortable) /\ Len(Swap(s, i, j)) = Len(s)
         /\ Swap(s, i, j)[i] = s[j] /\ Swap(s, i, j)[j] = s[i]
         /\ \A m \in 1..Len(s) : m # i /\ m # j => Swap(s, i, j)[m] = s[m]
         /\ Elements(Swap(s, i, j)) = Elements(s)
<1> DEFINE n == Len(s)
           t == Swap(s, i, j)
<1>1. DOMAIN s = 1..n /\ n \in Nat /\ \A m \in 1..n : s[m] \in Sortable
  BY SortableIs
<1>2. t = [m \in 1..n |-> IF m = j THEN s[i] ELSE IF m = i THEN s[j] ELSE s[m]]
  BY <1>1 DEF Swap
<1>3. t \in [1..n -> Sortable]
  <2> HIDE DEF t, n
  <2>1. i \in 1..n /\ j \in 1..n
    BY DEF n
  <2> QED BY <1>1, <1>2, <2>1
<1>4. t \in Seq(Sortable) /\ Len(t) = n /\ DOMAIN t = 1..n
  <2> HIDE DEF t, n
  <2> QED BY <1>1, <1>3
<1>5. /\ t[i] = s[j] /\ t[j] = s[i]
      /\ \A m \in 1..n : m # i /\ m # j => t[m] = s[m]
  BY <1>2
<1> HIDE DEF t
<1>6. Elements(t) = Elements(s)
  <2>1. Elements(t) = {t[m] : m \in 1..n} /\ Elements(s) = {s[m] : m \in 1..n}
    BY <1>1, <1>4 DEF Elements
  <2>2. ASSUME NEW m \in 1..n PROVE t[m] \in Elements(s) /\ s[m] \in Elements(t)
    <3>1. CASE m = i
      BY <1>5, <2>1, <3>1
    <3>2. CASE m = j
      BY <1>5, <2>1, <3>2
    <3>3. CASE m # i /\ m # j
      <4>1. t[m] = s[m]
        BY <1>5, <3>3
      <4> QED BY <2>1, <4>1
    <3> QED BY <3>1, <3>2, <3>3
  <2> QED BY <2>1, <2>2
<1> QED BY <1>4, <1>5, <1>6 DEF t

(* The first i elements are divided by the pivot, which is at the end.     *)
PartAt(st, s, i) ==
  /\ st.s \in Seq(Sortable) /\ Len(st.s) = Len(s) /\ Elements(st.s) = Elements(s)
  /\ st.part \in 0..i
  /\ \A m \in 1..st.part : st.s[m].key <= st.s[Len(s)].key
  /\ \A m \in (st.part + 1)..i : st.s[m].key > st.s[Len(s)].key

LEMMA PartStepKeeps ==
  ASSUME NEW s \in Seq(Sortable), NEW st, NEW i \in 1..(Len(s) - 1), PartAt(st, s, i - 1)
  PROVE  PartAt(PartStep(st, i), s, i)
<1> DEFINE n == Len(s)
           t == st.s
           p == st.part
           u == Swap(t, i, p + 1)
<1>1. t \in Seq(Sortable) /\ Len(t) = n /\ Elements(t) = Elements(s) /\ n \in Nat /\ i \in 1..(n - 1)
  BY DEF PartAt
<1>2. p \in 0..(i - 1) /\ p \in Nat
  BY DEF PartAt
<1>3. /\ \A m \in 1..p : t[m].key <= t[n].key
      /\ \A m \in (p + 1)..(i - 1) : t[m].key > t[n].key
  BY DEF PartAt
<1>4. i \in 1..n /\ p + 1 \in 1..n /\ p + 1 <= i /\ n \in 1..n /\ n # i /\ n # p + 1
  BY <1>1, <1>2
<1>5. \A m \in 1..n : t[m].key \in Int
  BY <1>1, SortableIs
<1>6. /\ u \in Seq(Sortable) /\ Len(u) = n
      /\ u[i] = t[p + 1] /\ u[p + 1] = t[i]
      /\ \A m \in 1..n : m # i /\ m # p + 1 => u[m] = t[m]
      /\ Elements(u) = Elements(s)
  <2> HIDE DEF n, t, p
  <2> QED BY <1>1, <1>4, SwapIs
<1>7. PartStep(st, i) = IF t[i].key <= t[n].key THEN [s |-> u, part |-> p + 1] ELSE st
  BY <1>1 DEF PartStep
<1> HIDE DEF n, t, p, u
<1>8. CASE t[i].key <= t[n].key
  <2> DEFINE r == [s |-> u, part |-> p + 1]
  <2>1. r.s = u /\ r.part = p + 1 /\ PartStep(st, i) = r
    BY <1>7, <1>8
  <2> HIDE DEF r
  <2>2. u[n] = t[n]
    BY <1>4, <1>6
  <2>3. p + 1 \in 0..i
    BY <1>2, <1>4
  <2>4. ASSUME NEW m \in 1..(p + 1) PROVE u[m].key <= u[n].key
    <3>1. m = p + 1 \/ (m \in 1..p /\ m # i /\ m # p + 1 /\ m \in 1..n)
      BY <1>2, <1>4
    <3> QED BY <1>3, <1>6, <1>8, <2>2, <3>1
  <2>5. ASSUME NEW m \in (p + 2)..i PROVE u[m].key > u[n].key
    <3>1. CASE m = i
      <4>1. p + 1 \in (p + 1)..(i - 1)
        BY <1>2, <1>4, <2>5, <3>1
      <4> QED BY <1>3, <1>6, <2>2, <3>1, <4>1
    <3>2. CASE m # i
      <4>1. m \in (p + 1)..(i - 1) /\ m # p + 1 /\ m \in 1..n
        BY <1>1, <1>2, <1>4, <2>5, <3>2
      <4> QED BY <1>3, <1>6, <2>2, <3>2, <4>1
    <3> QED BY <3>1, <3>2
  <2>6. (p + 1) + 1 = p + 2
    BY <1>2
  <2>7. PartAt(r, s, i)
    BY <1>6, <2>1, <2>3, <2>4, <2>5, <2>6 DEF PartAt, n
  <2> QED BY <2>1, <2>7
<1>9. CASE ~(t[i].key <= t[n].key)
  <2>1. PartStep(st, i) = st
    BY <1>7, <1>9
  <2>2. p \in 0..i
    BY <1>2, <1>4
  <2>3. ASSUME NEW m \in (p + 1)..i PROVE t[m].key > t[n].key
    <3>1. t[i].key > t[n].key
      BY <1>4, <1>5, <1>9
    <3>2. m = i \/ m \in (p + 1)..(i - 1)
      BY <1>2, <1>4
    <3> QED BY <1>3, <3>1, <3>2
  <2>4. PartAt(st, s, i)
    BY <1>1, <1>3, <2>2, <2>3 DEF PartAt, n, t, p
  <2> QED BY <2>1, <2>4
<1> QED BY <1>8, <1>9

LEMMA PivotIs ==
  ASSUME NEW s \in Seq(Sortable), Len(s) > 0
  PROVE  Pivot(s) \in 1..Len(s)
<1> DEFINE n == Len(s)
<1>1. n \in Nat /\ n > 0
  OBVIOUS
<1>2. Pivot(s) \in {1, n, n \div 2 + 1}
  BY DEF Pivot
<1> HIDE DEF n
<1>3. 1 \in 1..n /\ n \in 1..n /\ n \div 2 + 1 \in 1..n
  BY <1>1
<1> QED BY <1>2, <1>3 DEF n

(* The loop of the partition, step by step.                                *)
LEMMA PartitionSteps ==
  ASSUME NEW s \in Seq(Sortable), Len(s) > 0
  PROVE  \E F : /\ F[0] = [s |-> Swap(s, Pivot(s), Len(s)), part |-> 0]
                /\ \A i \in 1..(Len(s) - 1) : F[i] = PartStep(F[i - 1], i)
                /\ Partition(s) = [s |-> Swap(F[Len(s) - 1].s, F[Len(s) - 1].part + 1, Len(s)),
                                   part |-> F[Len(s) - 1].part]
<1> DEFINE n == Len(s)
           N == n - 1
           base == [s |-> Swap(s, Pivot(s), n), part |-> 0]
           L == {t \in Seq(Sortable) : Len(t) = n}
           V == [s : L, part : 0..N]
           Next1(st, i) == IF st.part < i THEN PartStep(st, i) ELSE st
           step == [x \in V \X (1..N) |-> Next1(x[1], x[2])]
           Is(g) == g = [i \in 0..N |-> IF i = 0 THEN base ELSE PartStep(g[i - 1], i)]
           F == CHOOSE g : Is(g)
<1>1. n \in Nat /\ N \in Nat /\ n \in 1..n
  OBVIOUS
<1>2. base \in V
  <2>1. Pivot(s) \in 1..n
    BY PivotIs
  <2>2. Swap(s, Pivot(s), n) \in L
    BY <1>1, <2>1, SwapIs
  <2> HIDE DEF L
  <2> QED BY <1>1, <2>2
<1>3. ASSUME NEW st \in V, NEW i \in 1..N PROVE Next1(st, i) \in V
  <2> DEFINE t == st.s
             p == st.part
  <2>1. t \in L /\ p \in 0..N
    BY <1>1
  <2>2. CASE p < i
    <3>1. i \in 1..n /\ p + 1 \in 1..n /\ p + 1 \in 0..N
      BY <1>1, <2>1, <2>2
    <3>2. Swap(t, i, p + 1) \in L
      <4>1. t \in Seq(Sortable) /\ Len(t) = n
        BY <2>1
      <4> HIDE DEF t, p
      <4>2. i \in 1..Len(t) /\ p + 1 \in 1..Len(t)
        BY <3>1, <4>1
      <4> QED BY <4>1, <4>2, SwapIs
    <3> DEFINE u == Swap(t, i, p + 1)
    <3>3. PartStep(st, i) = IF t[i].key <= t[Len(t)].key THEN [s |-> u, part |-> p + 1] ELSE st
      BY DEF PartStep
    <3>4. [s |-> u, part |-> p + 1] \in V
      <4> HIDE DEF u, L, p
      <4> QED BY <3>1, <3>2 DEF u
    <3>5. PartStep(st, i) \in V
      <4> HIDE DEF V, u
      <4> QED BY <3>3, <3>4
    <3> QED BY <2>2, <3>5
  <2>3. CASE ~(p < i)
    BY <2>3
  <2> QED BY <2>2, <2>3
<1>4. step \in [V \X (1..N) -> V] /\ \A st \in V, i \in 1..N : step[<<st, i>>] = Next1(st, i)
  <2> HIDE DEF V, Next1
  <2> QED BY <1>3
<1> HIDE DEF step, base, N, n
<1>5. PICK f : IsSteps(f, N, V, base, step)
  <2> HIDE DEF V
  <2> QED BY <1>1, <1>2, <1>4, StepsExist
<1>6. f[0] = base /\ (\A i \in 0..N : f[i] \in V) /\ \A i \in 1..N : f[i] = Next1(f[i - 1], i)
  <2> HIDE DEF V, Next1
  <2>1. \A i \in 1..N : i - 1 \in 0..N
    BY <1>1
  <2> QED BY <1>4, <1>5, <2>1 DEF IsSteps
<1>7. \A i \in 0..N : f[i].part <= i
  <2> DEFINE T == {i \in 0..N : f[i].part <= i}
  <2>1. 0 \in T
    BY <1>1, <1>6 DEF base
  <2>2. ASSUME NEW i \in 0..(N - 1), i \in T PROVE i + 1 \in T
    <3>1. i + 1 \in 1..N /\ (i + 1) - 1 = i /\ i \in 0..N /\ i + 1 \in 0..N /\ i \in Int
      BY <1>1
    <3>2. f[i + 1] = Next1(f[i], i + 1) /\ f[i].part <= i /\ f[i].part \in Int
      BY <1>1, <1>6, <2>2, <3>1
    <3> DEFINE st == f[i]
    <3> HIDE DEF st
    <3>3. Next1(st, i + 1).part \in {st.part, st.part + 1}
      BY DEF PartStep
    <3> HIDE DEF Next1
    <3>4. f[i + 1].part \in {st.part, st.part + 1} /\ st.part <= i /\ st.part \in Int
      BY <3>2, <3>3 DEF st
    <3>5. f[i + 1].part <= i + 1
      BY <3>1, <3>4
    <3> QED BY <3>1, <3>5
  <2>3. \A i \in 0..N : i \in T
    <3> HIDE DEF T
    <3> QED BY <1>1, <2>1, <2>2, CountingUp
  <2> QED BY <2>3
<1>8. Is(f)
  <2>1. f = [i \in 0..N |-> f[i]]
    <3> HIDE DEF V
    <3> QED BY <1>5 DEF IsSteps
  <2>2. ASSUME NEW i \in 0..N PROVE f[i] = IF i = 0 THEN base ELSE PartStep(f[i - 1], i)
    <3>1. CASE i = 0
      BY <1>6, <3>1
    <3>2. CASE i # 0
      <4>1. i \in 1..N /\ i - 1 \in 0..N /\ i - 1 < i
        BY <1>1, <3>2
      <4>2. f[i - 1].part < i
        <5>1. f[i - 1].part \in Int /\ f[i - 1].part <= i - 1
          BY <1>1, <1>6, <1>7, <4>1
        <5> QED BY <4>1, <5>1
      <4> QED BY <1>6, <3>2, <4>1, <4>2
    <3> QED BY <3>1, <3>2
  <2> QED BY <2>1, <2>2
<1>9. Is(F)
  <2> HIDE DEF Is
  <2> QED BY <1>8
<1>10. Partition(s) = [s |-> Swap(F[N].s, F[N].part + 1, n), part |-> F[N].part]
  BY DEF Partition, base, N, n
<1> HIDE DEF F
<1>11. F[0] = base
  BY <1>1, <1>9
<1>12. ASSUME NEW i \in 1..N PROVE F[i] = PartStep(F[i - 1], i)
  <2>1. i \in 0..N /\ i # 0
    BY <1>1
  <2> QED BY <1>9, <2>1
<1> QED BY <1>10, <1>11, <1>12 DEF base, N, n

(* What the partition makes: the pivot in its place.                       *)
PartitionOf(t, k, s) ==
  /\ t \in Seq(Sortable) /\ Len(t) = Len(s) /\ Elements(t) = Elements(s)
  /\ k \in 1..Len(s)
  /\ \A m \in 1..(k - 1) : t[m].key <= t[k].key
  /\ \A m \in (k + 1)..Len(s) : t[m].key >= t[k].key

LEMMA PartitionIs ==
  ASSUME NEW s \in Seq(Sortable), Len(s) > 0
  PROVE  /\ Partition(s).part \in 0..(Len(s) - 1)
         /\ PartitionOf(Partition(s).s, Partition(s).part + 1, s)
<1> DEFINE n == Len(s)
           N == n - 1
           base == [s |-> Swap(s, Pivot(s), n), part |-> 0]
<1>1. PICK F : /\ F[0] = base
               /\ \A i \in 1..N : F[i] = PartStep(F[i - 1], i)
               /\ Partition(s) = [s |-> Swap(F[N].s, F[N].part + 1, n), part |-> F[N].part]
  BY PartitionSteps
<1>2. n \in Nat /\ N \in Nat /\ n \in 1..n /\ N + 1 = n
  OBVIOUS
<1> DEFINE T == {i \in 0..N : PartAt(F[i], s, i)}
<1>3. 0 \in T
  <2>1. base.s = Swap(s, Pivot(s), n) /\ base.part = 0
    OBVIOUS
  <2> HIDE DEF base
  <2>2. Pivot(s) \in 1..n
    BY PivotIs
  <2>3. base.s \in Seq(Sortable) /\ Len(base.s) = Len(s) /\ Elements(base.s) = Elements(s)
    BY <1>2, <2>1, <2>2, SwapIs, SMTT(30)
  <2>4. PartAt(base, s, 0)
    BY <2>1, <2>3 DEF PartAt
  <2> QED BY <1>1, <1>2, <2>4
<1>4. ASSUME NEW i \in 0..(N - 1), i \in T PROVE i + 1 \in T
  <2>1. i + 1 \in 1..N /\ i + 1 \in 0..N /\ (i + 1) - 1 = i
    BY <1>2
  <2>2. F[i + 1] = PartStep(F[i], i + 1)
    BY <1>1, <2>1
  <2>3. PartAt(PartStep(F[i], i + 1), s, i + 1)
    <3>1. PartAt(F[i], s, (i + 1) - 1)
      BY <1>4, <2>1
    <3> QED BY <2>1, <3>1, PartStepKeeps
  <2> QED BY <2>1, <2>2, <2>3
<1>5. PartAt(F[N], s, N)
  <2>1. N \in T
    <3> HIDE DEF T, N, n
    <3>1. N \in 0..N
      BY <1>2
    <3> QED BY <1>2, <1>3, <1>4, <3>1, CountingUp
  <2> QED BY <2>1
<1> DEFINE t == F[N].s
           p == F[N].part
           u == Swap(t, p + 1, n)
<1>6. /\ t \in Seq(Sortable) /\ Len(t) = n /\ Elements(t) = Elements(s) /\ p \in 0..N
      /\ \A m \in 1..p : t[m].key <= t[n].key
      /\ \A m \in (p + 1)..N : t[m].key > t[n].key
  BY <1>5 DEF PartAt
<1>7. Partition(s).s = u /\ Partition(s).part = p
  BY <1>1
<1>8. p + 1 \in 1..n /\ p \in 0..(n - 1)
  BY <1>2, <1>6
<1> HIDE DEF t, p
<1>9. /\ u \in Seq(Sortable) /\ Len(u) = n /\ u[p + 1] = t[n] /\ u[n] = t[p + 1]
      /\ \A m \in 1..n : m # p + 1 /\ m # n => u[m] = t[m]
      /\ Elements(u) = Elements(s)
  <2>1. p + 1 \in 1..Len(t) /\ n \in 1..Len(t)
    BY <1>2, <1>6, <1>8
  <2> HIDE DEF n
  <2> QED BY <1>6, <2>1, SwapIs
<1>10. \A m \in 1..n : t[m].key \in Int
  BY <1>6, SortableIs
<1> HIDE DEF u, n, N
<1>11. ASSUME NEW m \in 1..((p + 1) - 1) PROVE u[m].key <= u[p + 1].key
  <2>1. m \in 1..p /\ m \in 1..n /\ m # p + 1 /\ m # n
    BY <1>2, <1>8
  <2> QED BY <1>6, <1>9, <2>1
<1>12. ASSUME NEW m \in ((p + 1) + 1)..n PROVE u[m].key >= u[p + 1].key
  <2>1. m \in 1..n /\ m # p + 1 /\ p + 1 \in 1..n
    BY <1>2, <1>8
  <2>2. CASE m = n
    <3>1. p + 1 \in (p + 1)..N
      BY <1>2, <1>8, <2>2
    <3> QED BY <1>2, <1>6, <1>9, <1>10, <2>1, <2>2, <3>1
  <2>3. CASE m # n
    <3>1. m \in (p + 1)..N
      BY <1>2, <1>8, <2>3
    <3> QED BY <1>2, <1>6, <1>9, <1>10, <2>1, <2>3, <3>1
  <2> QED BY <2>2, <2>3
<1>13. PartitionOf(u, p + 1, s)
  BY <1>8, <1>9, <1>11, <1>12 DEF PartitionOf, n
<1> QED BY <1>7, <1>8, <1>13 DEF n

(* Two sequences one behind the other.                                     *)
LEMMA ConcatIs ==
  ASSUME NEW a \in Seq(Sortable), NEW b \in Seq(Sortable)
  PROVE  /\ a \o b \in Seq(Sortable) /\ Len(a \o b) = Len(a) + Len(b)
         /\ Elements(a \o b) = Elements(a) \cup Elements(b)
         /\ Sorted(a) /\ Sorted(b) /\ (\A x \in Elements(a), y \in Elements(b) : x.key <= y.key) => Sorted(a \o b)
<1> DEFINE A == Len(a)
           B == Len(b)
           c == a \o b
<1>1. /\ DOMAIN a = 1..A /\ DOMAIN b = 1..B /\ A \in Nat /\ B \in Nat
      /\ c \in Seq(Sortable) /\ Len(c) = A + B /\ DOMAIN c = 1..(A + B)
  OBVIOUS
<1>2. /\ \A m \in 1..A : c[m] = a[m]
      /\ \A m \in 1..B : c[A + m] = b[m]
  OBVIOUS
<1> HIDE DEF c, A, B
<1>3. /\ \A m \in 1..(A + B) : m \in 1..A \/ (m - A \in 1..B /\ A + (m - A) = m)
      /\ \A m \in 1..A : m \in 1..(A + B)
      /\ \A m \in 1..B : A + m \in 1..(A + B)
  BY <1>1
<1>4. Elements(c) = Elements(a) \cup Elements(b)
  <2>1. Elements(c) = {c[m] : m \in 1..(A + B)} /\ Elements(a) = {a[m] : m \in 1..A} /\ Elements(b) = {b[m] : m \in 1..B}
    BY <1>1 DEF Elements
  <2>2. \A m \in 1..A : a[m] \in Elements(c)
    BY <1>2, <1>3, <2>1
  <2>3. ASSUME NEW m \in 1..B PROVE b[m] \in Elements(c)
    <3>1. c[A + m] \in Elements(c)
      BY <1>3, <2>1
    <3> QED BY <1>2, <3>1
  <2>4. ASSUME NEW m \in 1..(A + B) PROVE c[m] \in Elements(a) \cup Elements(b)
    <3>1. CASE m \in 1..A
      BY <1>2, <2>1, <3>1
    <3>2. CASE m - A \in 1..B /\ A + (m - A) = m
      <4>1. c[m] = b[m - A]
        BY <1>2, <3>2
      <4> QED BY <2>1, <3>2, <4>1
    <3> QED BY <1>3, <3>1, <3>2
  <2>5. Elements(a) \cup Elements(b) \subseteq Elements(c)
    BY <2>1, <2>2, <2>3
  <2>6. Elements(c) \subseteq Elements(a) \cup Elements(b)
    BY <2>1, <2>4
  <2> QED BY <2>5, <2>6
<1>5. ASSUME Sorted(a), Sorted(b), \A x \in Elements(a), y \in Elements(b) : x.key <= y.key PROVE Sorted(c)
  <2>1. \A i \in 1..A, j \in 1..B : a[i].key <= b[j].key
    BY <1>1, <1>5 DEF Elements
  <2>2. /\ \A i, j \in 1..A : i < j => a[i].key <= a[j].key
        /\ \A i, j \in 1..B : i < j => b[i].key <= b[j].key
    BY <1>1, <1>5 DEF Sorted
  <2>3. ASSUME NEW i \in 1..(A + B), NEW j \in 1..(A + B), i < j PROVE c[i].key <= c[j].key
    <3>1. CASE j \in 1..A
      <4>1. i \in 1..A
        BY <1>1, <2>3, <3>1
      <4> QED BY <1>2, <2>2, <2>3, <3>1, <4>1
    <3>2. CASE j - A \in 1..B /\ A + (j - A) = j /\ i \in 1..A
      <4>1. c[j] = b[j - A] /\ c[i] = a[i]
        BY <1>2, <3>2
      <4> QED BY <2>1, <3>2, <4>1
    <3>3. CASE j - A \in 1..B /\ A + (j - A) = j /\ i - A \in 1..B /\ A + (i - A) = i
      <4>1. c[j] = b[j - A] /\ c[i] = b[i - A]
        BY <1>2, <3>3
      <4>2. i - A < j - A
        BY <1>1, <2>3
      <4> QED BY <2>2, <3>3, <4>1, <4>2
    <3> QED BY <1>3, <3>1, <3>2, <3>3
  <2> QED BY <1>1, <2>3 DEF Sorted
<1> QED BY <1>1, <1>4, <1>5 DEF c, A, B

LEMMA OneElement ==
  ASSUME NEW x \in Sortable
  PROVE  <<x>> \in Seq(Sortable) /\ Len(<<x>>) = 1 /\ Elements(<<x>>) = {x} /\ Sorted(<<x>>)
<1> DEFINE t == <<x>>
<1>1. t \in Seq(Sortable) /\ Len(t) = 1 /\ DOMAIN t = {1} /\ t[1] = x
  OBVIOUS
<1> HIDE DEF t
<1>2. Elements(t) = {x}
  BY <1>1 DEF Elements
<1>3. Sorted(t)
  BY <1>1 DEF Sorted
<1> QED BY <1>1, <1>2, <1>3 DEF t

(* What is left and right of the pivot.                                    *)
LEMMA SidesAre ==
  ASSUME NEW s \in Seq(Sortable), NEW t, NEW k, PartitionOf(t, k, s)
  PROVE  LET a == SubSeq(t, 1, k - 1)
             b == SubSeq(t, k + 1, Len(s))
         IN  /\ a \in Seq(Sortable) /\ Len(a) = k - 1
             /\ b \in Seq(Sortable) /\ Len(b) = Len(s) - k
             /\ t[k] \in Sortable
             /\ Elements(s) = Elements(a) \cup {t[k]} \cup Elements(b)
             /\ \A x \in Elements(a) : x.key <= t[k].key
             /\ \A x \in Elements(b) : t[k].key <= x.key
<1> DEFINE n == Len(s)
           a == SubSeq(t, 1, k - 1)
           b == SubSeq(t, k + 1, n)
<1>1. t \in Seq(Sortable) /\ Len(t) = n /\ Elements(t) = Elements(s) /\ k \in 1..n /\ n \in Nat
  BY DEF PartitionOf
<1>2. /\ \A m \in 1..(k - 1) : t[m].key <= t[k].key
      /\ \A m \in (k + 1)..n : t[m].key >= t[k].key
  BY DEF PartitionOf
<1>3. DOMAIN t = 1..n /\ \A m \in 1..n : t[m] \in Sortable /\ t[m].key \in Int
  BY <1>1, SortableIs
<1>4. /\ a \in Seq(Sortable) /\ Len(a) = k - 1 /\ DOMAIN a = 1..(k - 1)
      /\ \A m \in 1..(k - 1) : m \in 1..n /\ a[m] = t[m]
  <2>1. 1 \in 1..(n + 1) /\ k - 1 \in (1 - 1)..n /\ (k - 1) - 1 + 1 = k - 1 /\ \A m \in 1..(k - 1) : 1 + m - 1 = m
    BY <1>1
  <2>2. /\ a \in Seq(Sortable) /\ Len(a) = (k - 1) - 1 + 1 /\ DOMAIN a = 1..((k - 1) - 1 + 1)
        /\ \A m \in 1..((k - 1) - 1 + 1) : 1 + m - 1 \in 1..n /\ a[m] = t[1 + m - 1]
    <3> HIDE DEF n
    <3> QED BY <1>1, <2>1, PartIs
  <2> HIDE DEF a, n
  <2> QED BY <2>1, <2>2
<1>5. /\ b \in Seq(Sortable) /\ Len(b) = n - k /\ DOMAIN b = 1..(n - k)
      /\ \A m \in 1..(n - k) : k + m \in (k + 1)..n /\ b[m] = t[k + m]
  <2>1. /\ k + 1 \in 1..(n + 1) /\ n \in ((k + 1) - 1)..n /\ n - (k + 1) + 1 = n - k
        /\ \A m \in 1..(n - k) : (k + 1) + m - 1 = k + m /\ k + m \in (k + 1)..n
    BY <1>1
  <2>2. /\ b \in Seq(Sortable) /\ Len(b) = n - (k + 1) + 1 /\ DOMAIN b = 1..(n - (k + 1) + 1)
        /\ \A m \in 1..(n - (k + 1) + 1) : (k + 1) + m - 1 \in 1..n /\ b[m] = t[(k + 1) + m - 1]
    <3> HIDE DEF n, a
    <3> QED BY <1>1, <2>1, PartIs
  <2> HIDE DEF b, n
  <2> QED BY <2>1, <2>2
<1>6. \A m \in 1..n : m = k \/ m \in 1..(k - 1) \/ (m - k \in 1..(n - k) /\ k + (m - k) = m)
  BY <1>1
<1>7. (k + 1)..n \subseteq 1..n
  BY <1>1
<1> HIDE DEF a, b, n
<1>8. Elements(s) = Elements(a) \cup {t[k]} \cup Elements(b)
  <2>1. Elements(s) = {t[m] : m \in 1..n} /\ Elements(a) = {a[m] : m \in 1..(k - 1)} /\ Elements(b) = {b[m] : m \in 1..(n - k)}
    BY <1>1, <1>3, <1>4, <1>5 DEF Elements
  <2>2. ASSUME NEW m \in 1..n PROVE t[m] \in Elements(a) \cup {t[k]} \cup Elements(b)
    <3>1. CASE m = k
      BY <3>1
    <3>2. CASE m \in 1..(k - 1)
      <4>1. t[m] = a[m]
        BY <1>4, <3>2
      <4> QED BY <2>1, <3>2, <4>1
    <3>3. CASE m - k \in 1..(n - k) /\ k + (m - k) = m
      <4>1. t[m] = b[m - k]
        BY <1>5, <3>3
      <4> QED BY <2>1, <3>3, <4>1
    <3> QED BY <1>6, <3>1, <3>2, <3>3
  <2>3. \A m \in 1..(k - 1) : a[m] \in Elements(s)
    BY <1>4, <2>1
  <2>4. \A m \in 1..(n - k) : b[m] \in Elements(s)
    BY <1>5, <1>7, <2>1
  <2>5. t[k] \in Elements(s)
    BY <1>1, <2>1
  <2>6. Elements(s) \subseteq Elements(a) \cup {t[k]} \cup Elements(b)
    BY <2>1, <2>2
  <2>7. Elements(a) \cup {t[k]} \cup Elements(b) \subseteq Elements(s)
    BY <2>1, <2>3, <2>4, <2>5
  <2> QED BY <2>6, <2>7
<1>9. \A x \in Elements(a) : x.key <= t[k].key
  BY <1>2, <1>4 DEF Elements
<1>10. \A x \in Elements(b) : t[k].key <= x.key
  <2>1. ASSUME NEW m \in 1..(n - k) PROVE t[k].key <= b[m].key
    <3>1. k + m \in (k + 1)..n /\ b[m] = t[k + m] /\ k + m \in 1..n
      BY <1>5, <1>7
    <3> QED BY <1>1, <1>2, <1>3, <3>1
  <2> QED BY <1>5, <2>1 DEF Elements
<1>11. t[k] \in Sortable
  BY <1>1, <1>3
<1> QED BY <1>4, <1>5, <1>8, <1>9, <1>10, <1>11 DEF a, b, n

(* Both sides sorted, the whole is.                                        *)
QsortTo(t, s) == t \in Seq(Sortable) /\ Arranges(t, s)

LEMMA SidesSort ==
  ASSUME NEW s \in Seq(Sortable), NEW t, NEW k, PartitionOf(t, k, s), NEW p, NEW q,
         QsortTo(p, SubSeq(t, 1, k - 1)), QsortTo(q, SubSeq(t, k + 1, Len(s)))
  PROVE  QsortTo(p \o <<t[k]>> \o q, s)
<1> DEFINE a == SubSeq(t, 1, k - 1)
           b == SubSeq(t, k + 1, Len(s))
           x == t[k]
           u == p \o <<x>>
           v == u \o q
<1>1. /\ a \in Seq(Sortable) /\ Len(a) = k - 1
      /\ b \in Seq(Sortable) /\ Len(b) = Len(s) - k
      /\ x \in Sortable
      /\ Elements(s) = Elements(a) \cup {x} \cup Elements(b)
      /\ \A y \in Elements(a) : y.key <= x.key
      /\ \A y \in Elements(b) : x.key <= y.key
  BY SidesAre
<1>2. /\ p \in Seq(Sortable) /\ Len(p) = Len(a) /\ Elements(p) = Elements(a) /\ Sorted(p)
      /\ q \in Seq(Sortable) /\ Len(q) = Len(b) /\ Elements(q) = Elements(b) /\ Sorted(q)
  BY DEF QsortTo, Arranges
<1>3. k \in Int /\ Len(s) \in Nat
  BY DEF PartitionOf
<1>o. <<x>> \in Seq(Sortable) /\ Len(<<x>>) = 1 /\ Elements(<<x>>) = {x} /\ Sorted(<<x>>)
  BY <1>1, OneElement
<1>k. /\ \A y \in Elements(p) \cup {x} \cup Elements(q) : y.key \in Int
  <2>1. \A y \in Elements(p) \cup {x} \cup Elements(q) : y \in Sortable
    <3>1. Elements(p) \subseteq Sortable /\ Elements(q) \subseteq Sortable
      BY <1>2, SortableIs DEF Elements
    <3> QED BY <1>1, <3>1
  <2> QED BY <2>1 DEF Sortable
<1> HIDE DEF a, b, x
<1>4. /\ u \in Seq(Sortable) /\ Len(u) = Len(p) + 1
      /\ Elements(u) = Elements(p) \cup {x} /\ Sorted(u)
  <2>1. \A y \in Elements(p), z \in Elements(<<x>>) : y.key <= z.key
    BY <1>1, <1>2, <1>o
  <2>2. /\ u \in Seq(Sortable) /\ Len(u) = Len(p) + Len(<<x>>)
        /\ Elements(u) = Elements(p) \cup Elements(<<x>>) /\ Sorted(u)
    <3> DEFINE w == <<x>>
    <3>1. w \in Seq(Sortable) /\ Sorted(w) /\ \A y \in Elements(p), z \in Elements(w) : y.key <= z.key
      BY <1>o, <2>1
    <3> HIDE DEF w
    <3>2. /\ p \o w \in Seq(Sortable) /\ Len(p \o w) = Len(p) + Len(w)
          /\ Elements(p \o w) = Elements(p) \cup Elements(w) /\ Sorted(p \o w)
      BY <1>2, <3>1, ConcatIs
    <3> QED BY <3>2 DEF w
  <2> QED BY <1>o, <2>2
<1> HIDE DEF u
<1>5. \A y \in Elements(u), z \in Elements(q) : y.key <= z.key
  <2>1. \A y \in Elements(u) : y.key <= x.key /\ y.key \in Int
    BY <1>1, <1>2, <1>4, <1>k
  <2>2. \A z \in Elements(q) : x.key <= z.key /\ z.key \in Int
    BY <1>1, <1>2, <1>k
  <2> QED BY <1>k, <2>1, <2>2
<1>6. /\ v \in Seq(Sortable) /\ Len(v) = Len(u) + Len(q)
      /\ Elements(v) = Elements(u) \cup Elements(q) /\ Sorted(v)
  BY <1>2, <1>4, <1>5, ConcatIs
<1> HIDE DEF v
<1>7. Len(v) = Len(s)
  BY <1>1, <1>2, <1>3, <1>4, <1>6
<1>8. Elements(v) = Elements(s)
  BY <1>1, <1>2, <1>4, <1>6
<1> QED BY <1>6, <1>7, <1>8 DEF QsortTo, Arranges, u, v, x

(* The definition unfolds.                                                 *)
Pivoted(f, s) ==
  LET p == Partition(s)
  IN  f[SubSeq(p.s, 1, p.part)] \o <<p.s[p.part + 1]>> \o f[SubSeq(p.s, p.part + 2, Len(s))]

LEMMA QsortIs ==
  \A s \in Seq(Sortable) : qsort_r[s] = IF Len(s) < MINIMUM_INSERT_SORT THEN insertion_sort(s) ELSE Pivoted(qsort_r, s)
<1> DEFINE D == Seq(Sortable)
           leaf == {r \in D : Len(r) < MINIMUM_INSERT_SORT}
           size == [r \in D |-> Len(r)]
           base == [r \in D |-> insertion_sort(r)]
           First(r) == SubSeq(Partition(r).s, 1, Partition(r).part)
           Second(r) == SubSeq(Partition(r).s, Partition(r).part + 2, Len(r))
           mid(r) == Partition(r).s[Partition(r).part + 1]
           Joined(r, a, b) == a \o <<mid(r)>> \o b
           first == [r \in D |-> IF r \in leaf THEN r ELSE First(r)]
           second == [r \in D |-> IF r \in leaf THEN r ELSE Second(r)]
           join == [x \in D \X D \X D |-> IF x[1] \in leaf THEN x[1] ELSE Joined(x[1], x[2], x[3])]
           Is(g) == g = [r \in D |->
                      LET p == Partition(r)
                      IN  IF Len(r) < MINIMUM_INSERT_SORT THEN insertion_sort(r)
                          ELSE g[SubSeq(p.s, 1, p.part)] \o <<p.s[p.part + 1]>> \o g[SubSeq(p.s, p.part + 2, Len(r))]]
           F == CHOOSE g : Is(g)
<1>1. ASSUME NEW r \in D \ leaf
      PROVE  First(r) \in D /\ Len(First(r)) < Len(r) /\ Second(r) \in D /\ Len(Second(r)) < Len(r) /\ mid(r) \in Sortable
  <2>1. Len(r) \in Nat /\ Len(r) > 0
    <3>1. Len(r) \in Nat /\ ~(Len(r) < MINIMUM_INSERT_SORT)
      OBVIOUS
    <3> DEFINE n == Len(r)
    <3> HIDE DEF n
    <3>2. MINIMUM_INSERT_SORT \in Nat /\ MINIMUM_INSERT_SORT >= 2
      BY SortAssumption DEF SortAssumption
    <3>3. n \in Nat /\ n > 0
      BY <3>1, <3>2 DEF n
    <3> QED BY <3>3 DEF n
  <2> DEFINE t == Partition(r).s
             k == Partition(r).part + 1
  <2>2. Partition(r).part \in 0..(Len(r) - 1) /\ PartitionOf(t, k, r)
    BY <2>1, PartitionIs
  <2>3. k - 1 = Partition(r).part /\ k + 1 = Partition(r).part + 2 /\ k \in 1..Len(r)
    BY <2>1, <2>2
  <2>4. /\ SubSeq(t, 1, k - 1) \in D /\ Len(SubSeq(t, 1, k - 1)) = k - 1
        /\ SubSeq(t, k + 1, Len(r)) \in D /\ Len(SubSeq(t, k + 1, Len(r))) = Len(r) - k
        /\ t[k] \in Sortable
    <3> HIDE DEF t, k
    <3> QED BY <2>2, SidesAre
  <2> DEFINE n == Len(r)
  <2>5. n \in Nat /\ k \in 1..n
    BY <2>1, <2>3
  <2>6. k - 1 < n /\ n - k < n
    <3> HIDE DEF n, k
    <3> QED BY <2>5
  <2> QED BY <2>3, <2>4, <2>6
<1>2. size \in [D -> Nat] /\ leaf \subseteq D
  OBVIOUS
<1>3. base \in [D -> D]
  BY InsertionSorts
<1>4. first \in [D -> D] /\ second \in [D -> D]
  <2> HIDE DEF D, First, Second
  <2> QED BY <1>1
<1>5. join \in [D \X D \X D -> D]
  <2>1. ASSUME NEW r \in D \ leaf, NEW a \in D, NEW b \in D PROVE Joined(r, a, b) \in D
    <3>1. <<mid(r)>> \in D
      BY <1>1
    <3> HIDE DEF mid
    <3> QED BY <3>1
  <2> HIDE DEF D, Joined
  <2> QED BY <2>1
<1>6. \A s \in D \ leaf : size[first[s]] < size[s] /\ size[second[s]] < size[s]
  <2> HIDE DEF D, First, Second
  <2> QED BY <1>1
<1>7. Divides(D, D, size, leaf, base, first, second, join)
  <2> HIDE DEF D, size, first, second, join, leaf, base
  <2> QED BY <1>2, <1>3, <1>4, <1>5, <1>6 DEF Divides
<1>8. PICK f \in [D -> D] : \A s \in D : f[s] = Divided(f, s, leaf, base, first, second, join)
  <2> HIDE DEF D, size, first, second, join, leaf, base
  <2> QED BY <1>7, DividedExists, SMTT(30)
<1>9. ASSUME NEW s \in D PROVE f[s] = IF s \in leaf THEN insertion_sort(s) ELSE Joined(s, f[First(s)], f[Second(s)])
  <2>1. CASE s \in leaf
    BY <1>8, <2>1 DEF Divided
  <2>2. CASE s \notin leaf
    <3> HIDE DEF Joined
    <3> DEFINE a == f[first[s]]
               b == f[second[s]]
    <3>1. first[s] = First(s) /\ second[s] = Second(s)
      BY <2>2
    <3>2. a \in D /\ b \in D
      <4>1. first[s] \in D /\ second[s] \in D
        <5> HIDE DEF D, first, second
        <5> QED BY <1>4
      <4> HIDE DEF D, first, second
      <4> QED BY <1>8, <4>1
    <3>3. f[s] = join[<<s, a, b>>]
      BY <1>8, <2>2 DEF Divided
    <3>4. join[<<s, a, b>>] = Joined(s, a, b)
      <4> HIDE DEF D, a, b, leaf
      <4> QED BY <2>2, <3>2
    <3> QED BY <2>2, <3>1, <3>3, <3>4
  <2> QED BY <2>1, <2>2
<1>10. Is(f)
  <2>1. ASSUME NEW r \in D
        PROVE  f[r] = LET p == Partition(r)
                      IN  IF Len(r) < MINIMUM_INSERT_SORT THEN insertion_sort(r)
                          ELSE f[SubSeq(p.s, 1, p.part)] \o <<p.s[p.part + 1]>> \o f[SubSeq(p.s, p.part + 2, Len(r))]
    BY <1>9
  <2> HIDE DEF D
  <2>2. f = [r \in D |-> f[r]]
    BY <1>8
  <2> QED BY <2>1, <2>2
<1>11. Is(F)
  <2> HIDE DEF Is
  <2> QED BY <1>10
<1>12. qsort_r = F
  BY SMTT(30) DEF qsort_r
<1> HIDE DEF F
<1>13. ASSUME NEW s \in D PROVE F[s] = IF Len(s) < MINIMUM_INSERT_SORT THEN insertion_sort(s) ELSE Pivoted(F, s)
  BY <1>11 DEF Pivoted
<1> QED BY <1>12, <1>13

(* Quicksort puts its elements in order.                                   *)
LEMMA QsortSorts ==
  \A s \in Seq(Sortable) : QsortTo(qsort_r[s], s)
<1> DEFINE T == {s \in Seq(Sortable) : QsortTo(qsort_r[s], s)}
<1>1. ASSUME NEW s \in Seq(Sortable), \A r \in Seq(Sortable) : Len(r) < Len(s) => r \in T PROVE s \in T
  <2>1. CASE Len(s) < MINIMUM_INSERT_SORT
    <3>1. qsort_r[s] = insertion_sort(s)
      BY <2>1, QsortIs
    <3> QED BY <3>1, InsertionSorts DEF QsortTo
  <2>2. CASE ~(Len(s) < MINIMUM_INSERT_SORT)
    <3>1. Len(s) \in Nat /\ Len(s) > 0
      <4>1. MINIMUM_INSERT_SORT \in Nat /\ MINIMUM_INSERT_SORT >= 2 /\ Len(s) \in Nat
        BY SortAssumption DEF SortAssumption
      <4> QED BY <2>2, <4>1
    <3> DEFINE t == Partition(s).s
               p == Partition(s).part
               k == p + 1
               a == SubSeq(t, 1, p)
               b == SubSeq(t, p + 2, Len(s))
    <3>2. p \in 0..(Len(s) - 1) /\ PartitionOf(t, k, s)
      BY <3>1, PartitionIs
    <3>3. k - 1 = p /\ k + 1 = p + 2 /\ k \in 1..Len(s)
      BY <3>1, <3>2
    <3>4. qsort_r[s] = qsort_r[a] \o <<t[k]>> \o qsort_r[b]
      BY <2>2, QsortIs DEF Pivoted
    <3> HIDE DEF t, p
    <3>5. a \in Seq(Sortable) /\ Len(a) = k - 1 /\ b \in Seq(Sortable) /\ Len(b) = Len(s) - k
      <4>1. a = SubSeq(t, 1, k - 1) /\ b = SubSeq(t, k + 1, Len(s))
        BY <3>3
      <4> HIDE DEF a, b, k
      <4> QED BY <3>2, <4>1, SidesAre
    <3>6. Len(a) < Len(s) /\ Len(b) < Len(s)
      <4> DEFINE n == Len(s)
      <4>1. n \in Nat /\ k \in 1..n /\ Len(a) = k - 1 /\ Len(b) = n - k
        BY <3>1, <3>3, <3>5
      <4> HIDE DEF n, k, a, b
      <4>2. Len(a) < n /\ Len(b) < n
        BY <4>1
      <4> QED BY <4>2 DEF n
    <3>7. QsortTo(qsort_r[a], a) /\ QsortTo(qsort_r[b], b)
      <4> HIDE DEF a, b
      <4> QED BY <1>1, <3>5, <3>6
    <3>8. QsortTo(qsort_r[a], SubSeq(t, 1, k - 1)) /\ QsortTo(qsort_r[b], SubSeq(t, k + 1, Len(s)))
      BY <3>3, <3>7
    <3> DEFINE x == qsort_r[a]
               y == qsort_r[b]
    <3> HIDE DEF k, x, y
    <3>9. QsortTo(x \o <<t[k]>> \o y, s)
      BY <3>2, <3>8, SidesSort DEF x, y
    <3> QED BY <3>4, <3>9 DEF x, y
  <2> QED BY <2>1, <2>2
<1>2. Seq(Sortable) \subseteq T
  <2> HIDE DEF T
  <2> QED BY <1>1, ByLength
<1> QED BY <1>2

----------------------------------------------------------------------------
(* The search: what is before l is less, what is behind u is not, and      *)
(* every step takes away one at least.                                     *)
NarrowedTo(r, s, key, k) ==
  /\ r.l \in 0..Len(s) /\ r.u \in 0..Len(s) /\ r.l <= r.u
  /\ r.l = r.u \/ r.u - r.l + k <= Len(s)
  /\ \A i \in 1..r.l : s[i].key < key
  /\ \A i \in (r.u + 1)..Len(s) : s[i].key >= key

LEMMA NarrowedIs ==
  ASSUME NEW s \in Seq(Sortable), Sorted(s), NEW key \in Int, NEW k \in Nat,
         NEW r \in [l : 0..Len(s), u : 0..Len(s)], NarrowedTo(r, s, key, k)
  PROVE  /\ Narrowed(s, key, r) \in [l : 0..Len(s), u : 0..Len(s)]
         /\ NarrowedTo(Narrowed(s, key, r), s, key, k + 1)
<1> DEFINE n == Len(s)
           l == r.l
           u == r.u
           idx == (l + u) \div 2
           q == Narrowed(s, key, r)
<1>1. n \in Nat /\ l \in 0..n /\ u \in 0..n /\ l <= u /\ (l = u \/ u - l + k <= n)
  BY DEF NarrowedTo
<1>2. /\ \A i \in 1..l : s[i].key < key
      /\ \A i \in (u + 1)..n : s[i].key >= key
  BY DEF NarrowedTo
<1>3. \A i \in 1..n : s[i].key \in Int
  BY SortableIs
<1>4. \A i, j \in 1..n : i <= j => s[i].key <= s[j].key
  <2>1. \A i, j \in 1..n : i < j => s[i].key <= s[j].key
    BY DEF Sorted
  <2>2. \A i, j \in 1..n : i <= j => i < j \/ i = j
    BY <1>1
  <2> HIDE DEF n
  <2> QED BY <1>3, <2>1, <2>2
<1>5. r = [l |-> l, u |-> u]
  OBVIOUS
<1>6. q = IF l >= u THEN r ELSE IF key <= s[idx + 1].key THEN [l |-> l, u |-> idx] ELSE [l |-> idx + 1, u |-> u]
  BY <1>5 DEF Narrowed
<1>7. l < u => idx \in 0..(n - 1) /\ idx + 1 \in 1..n /\ l <= idx /\ idx < u
  <2> HIDE DEF n, l, u
  <2> QED BY <1>1
<1> HIDE DEF n, l, u, idx, q
<1>8. CASE l >= u
  <2>1. q = r /\ l = u
    BY <1>1, <1>6, <1>8
  <2> QED BY <1>1, <1>2, <2>1 DEF NarrowedTo, n, l, u, q
<1>9. CASE ~(l >= u) /\ key <= s[idx + 1].key
  <2>0. l < u /\ idx \in 0..n /\ idx + 1 \in 1..n /\ l <= idx /\ idx < u /\ idx \in Int
    BY <1>1, <1>7, <1>9, SMTT(30)
  <2> DEFINE x == [l |-> l, u |-> idx]
  <2>1. x.l = l /\ x.u = idx /\ q = x
    BY <1>6, <1>9
  <2>2. idx - l + (k + 1) <= n
    BY <1>1, <2>0
  <2>3. ASSUME NEW i \in (idx + 1)..n PROVE s[i].key >= key
    <3>1. i \in 1..n /\ idx + 1 <= i
      BY <2>0
    <3>2. s[idx + 1].key <= s[i].key
      BY <1>4, <2>0, <3>1
    <3> QED BY <1>3, <1>9, <2>0, <3>1, <3>2, SMTT(30)
  <2>4. x \in [l : 0..n, u : 0..n]
    BY <1>1, <2>0
  <2> HIDE DEF x
  <2>5. NarrowedTo(x, s, key, k + 1)
    BY <1>1, <1>2, <2>0, <2>1, <2>2, <2>3 DEF NarrowedTo, n
  <2> QED BY <2>1, <2>4, <2>5 DEF n, q
<1>10. CASE ~(l >= u) /\ ~(key <= s[idx + 1].key)
  <2>0. l < u /\ idx \in 0..n /\ idx + 1 \in 1..n /\ l <= idx /\ idx < u /\ idx \in Int
    BY <1>1, <1>7, <1>10
  <2> DEFINE x == [l |-> idx + 1, u |-> u]
  <2>1. x.l = idx + 1 /\ x.u = u /\ q = x
    BY <1>6, <1>10
  <2>2. idx + 1 <= u /\ u - (idx + 1) + (k + 1) <= n
    BY <1>1, <2>0
  <2>3. ASSUME NEW i \in 1..(idx + 1) PROVE s[i].key < key
    <3>1. i \in 1..n /\ i <= idx + 1
      BY <1>1, <2>0
    <3>2. s[i].key <= s[idx + 1].key
      BY <1>4, <2>0, <3>1
    <3> QED BY <1>3, <1>10, <2>0, <3>1, <3>2, SMTT(30)
  <2>4. x \in [l : 0..n, u : 0..n]
    BY <1>1, <2>0
  <2> HIDE DEF x
  <2>5. NarrowedTo(x, s, key, k + 1)
    <3>1. x.l \in 0..n /\ x.u \in 0..n /\ x.l <= x.u /\ x.u - x.l + (k + 1) <= n
      BY <1>1, <2>0, <2>1, <2>2
    <3> QED BY <1>2, <2>1, <2>3, <3>1 DEF NarrowedTo, n
  <2> QED BY <2>1, <2>4, <2>5 DEF n, q
<1> QED BY <1>8, <1>9, <1>10

LEMMA SearchSteps ==
  ASSUME NEW s \in Seq(Sortable), Sorted(s), NEW key \in Int
  PROVE  \E F : /\ F[0] = [l |-> 0, u |-> Len(s)]
                /\ \A k \in 1..Len(s) : F[k] = Narrowed(s, key, F[k - 1])
                /\ custom_bsearch(s, key) = IF F[Len(s)].u >= Len(s) THEN 0 ELSE F[Len(s)].l + 1
<1> DEFINE N == Len(s)
           base == [l |-> 0, u |-> N]
           V == {r \in [l : 0..N, u : 0..N] : NarrowedTo(r, s, key, 0)}
           step == [x \in V \X (1..N) |-> Narrowed(s, key, x[1])]
           Is(g) == g = [k \in 0..N |-> IF k = 0 THEN base ELSE Narrowed(s, key, g[k - 1])]
           F == CHOOSE g : Is(g)
<1>1. N \in Nat
  OBVIOUS
<1>2. base \in V
  <2>1. base.l = 0 /\ base.u = N /\ base \in [l : 0..N, u : 0..N]
    BY <1>1
  <2> HIDE DEF base
  <2>2. NarrowedTo(base, s, key, 0)
    BY <1>1, <2>1 DEF NarrowedTo
  <2> QED BY <2>1, <2>2
<1>3. ASSUME NEW r \in V PROVE Narrowed(s, key, r) \in V
  <2>1. r \in [l : 0..N, u : 0..N] /\ NarrowedTo(r, s, key, 0) /\ 0 + 1 = 1
    OBVIOUS
  <2>2. Narrowed(s, key, r) \in [l : 0..N, u : 0..N] /\ NarrowedTo(Narrowed(s, key, r), s, key, 1)
    BY <2>1, NarrowedIs
  <2> DEFINE q == Narrowed(s, key, r)
  <2> HIDE DEF q
  <2>3. q.l \in 0..N /\ q.u \in 0..N /\ (q.l = q.u \/ q.u - q.l + 1 <= N)
    BY <2>2 DEF NarrowedTo, q
  <2>4. q.l = q.u \/ q.u - q.l + 0 <= N
    <3> HIDE DEF N
    <3> QED BY <1>1, <2>3
  <2>5. NarrowedTo(q, s, key, 0)
    BY <2>2, <2>4 DEF NarrowedTo, q
  <2> QED BY <2>2, <2>5 DEF q
<1>4. step \in [V \X (1..N) -> V] /\ \A r \in V, k \in 1..N : step[<<r, k>>] = Narrowed(s, key, r)
  <2> HIDE DEF V
  <2> QED BY <1>3
<1> HIDE DEF step, V, base
<1>5. PICK f : IsSteps(f, N, V, base, step)
  BY <1>1, <1>2, <1>4, StepsExist
<1>6. Is(f)
  <2>1. f = [k \in 0..N |-> f[k]]
    BY <1>5 DEF IsSteps
  <2>2. ASSUME NEW k \in 0..N PROVE f[k] = IF k = 0 THEN base ELSE Narrowed(s, key, f[k - 1])
    <3>1. k # 0 => k \in 1..N /\ k - 1 \in 0..N
      BY <1>1
    <3> QED BY <1>4, <1>5, <3>1 DEF IsSteps
  <2> QED BY <2>1, <2>2
<1>7. Is(F)
  <2> HIDE DEF Is
  <2> QED BY <1>6
<1>8. custom_bsearch(s, key) = IF F[N].u >= N THEN 0 ELSE F[N].l + 1
  BY DEF custom_bsearch, base
<1> HIDE DEF F
<1>9. F[0] = base
  BY <1>1, <1>7
<1>10. ASSUME NEW k \in 1..N PROVE F[k] = Narrowed(s, key, F[k - 1])
  <2>1. k \in 0..N /\ k # 0
    BY <1>1
  <2> QED BY <1>7, <2>1
<1> QED BY <1>8, <1>9, <1>10 DEF base

(* It finds the first element that is not less.                            *)
LEMMA SearchFinds ==
  ASSUME NEW s \in Seq(Sortable), Sorted(s), NEW key \in Int
  PROVE  LET found == custom_bsearch(s, key)
             at == {i \in DOMAIN s : s[i].key >= key}
         IN  IF at = {} THEN found = 0 ELSE found \in at /\ \A i \in at : found <= i
<1> DEFINE N == Len(s)
           at == {i \in DOMAIN s : s[i].key >= key}
           base == [l |-> 0, u |-> N]
           V == [l : 0..N, u : 0..N]
<1>1. PICK F : /\ F[0] = base
               /\ \A k \in 1..N : F[k] = Narrowed(s, key, F[k - 1])
               /\ custom_bsearch(s, key) = IF F[N].u >= N THEN 0 ELSE F[N].l + 1
  BY SearchSteps
<1>2. N \in Nat /\ DOMAIN s = 1..N
  BY SortableIs
<1> DEFINE T == {k \in 0..N : F[k] \in V /\ NarrowedTo(F[k], s, key, k)}
<1>3. 0 \in T
  <2>1. base.l = 0 /\ base.u = N /\ base \in V
    BY <1>2
  <2> HIDE DEF base
  <2>2. NarrowedTo(base, s, key, 0)
    BY <1>2, <2>1 DEF NarrowedTo
  <2> QED BY <1>1, <1>2, <2>1, <2>2
<1>4. ASSUME NEW k \in 0..(N - 1), k \in T PROVE k + 1 \in T
  <2>1. k + 1 \in 1..N /\ k + 1 \in 0..N /\ (k + 1) - 1 = k /\ k \in Nat
    BY <1>2
  <2>2. F[k + 1] = Narrowed(s, key, F[k])
    BY <1>1, <2>1
  <2>3. Narrowed(s, key, F[k]) \in V /\ NarrowedTo(Narrowed(s, key, F[k]), s, key, k + 1)
    <3>1. F[k] \in V /\ NarrowedTo(F[k], s, key, k)
      BY <1>4
    <3> QED BY <2>1, <3>1, NarrowedIs
  <2> QED BY <2>1, <2>2, <2>3
<1>5. NarrowedTo(F[N], s, key, N)
  <2>1. N \in T
    <3> HIDE DEF T
    <3>1. N \in 0..N
      BY <1>2
    <3> QED BY <1>2, <1>3, <1>4, <3>1, CountingUp
  <2> QED BY <2>1
<1> DEFINE l == F[N].l
           u == F[N].u
           found == custom_bsearch(s, key)
<1>6. /\ l \in 0..N /\ u \in 0..N /\ (l = u \/ u - l + N <= N) /\ l <= u
      /\ \A i \in 1..l : s[i].key < key
      /\ \A i \in (u + 1)..N : s[i].key >= key
  BY <1>5 DEF NarrowedTo
<1>7. found = IF u >= N THEN 0 ELSE l + 1
  BY <1>1
<1>8. \A i \in 1..N : s[i].key \in Int
  BY SortableIs
<1>9. l = u
  <2> HIDE DEF l, u, N
  <2> QED BY <1>2, <1>6
<1> HIDE DEF l, u, N, found
<1>10. \A i \in 1..N : i \in at <=> u < i
  <2>1. ASSUME NEW i \in 1..N PROVE i \in at <=> u < i
    <3>1. i \in 1..l \/ (u < i /\ i \in (u + 1)..N)
      BY <1>2, <1>6, <1>9
    <3>2. i \in at <=> s[i].key >= key
      BY <1>2
    <3>3. CASE i \in 1..l
      <4>1. s[i].key < key /\ s[i].key \in Int
        BY <1>6, <1>8, <3>3
      <4>2. ~(u < i)
        BY <1>6, <1>9, <3>3
      <4> QED BY <3>2, <4>1, <4>2
    <3>4. CASE u < i /\ i \in (u + 1)..N
      BY <1>6, <3>2, <3>4
    <3> QED BY <3>1, <3>3, <3>4
  <2> QED BY <2>1
<1>11. at \subseteq 1..N
  BY <1>2
<1> HIDE DEF at
<1>12. CASE u >= N
  <2>1. at = {}
    BY <1>2, <1>6, <1>10, <1>11, <1>12
  <2> QED BY <1>7, <1>12, <2>1 DEF at, found
<1>13. CASE ~(u >= N)
  <2>1. u + 1 \in 1..N /\ found = u + 1
    BY <1>2, <1>6, <1>7, <1>9, <1>13
  <2>2. found \in at
    BY <1>2, <1>6, <1>10, <2>1
  <2>3. \A i \in at : found <= i
    BY <1>2, <1>6, <1>10, <1>11, <2>1
  <2>4. IF at = {} THEN found = 0 ELSE found \in at /\ \A i \in at : found <= i
    BY <2>2, <2>3
  <2> QED BY <2>4 DEF at, found
<1> QED BY <1>12, <1>13

----------------------------------------------------------------------------
(* The sorts agree.                                                        *)
LEMMA StableSorts ==
  ASSUME NEW s \in Seq(Sortable), ById(s)
  PROVE  /\ msort_r[s] \in Seq(Sortable)
         /\ Arranges(msort_r[s], s) /\ Stable(msort_r[s])
         /\ list_sort_r[s] = msort_r[s] /\ HASH_SRT([order |-> s]).order = msort_r[s]
<1> DEFINE m == msort_r[s]
           l == list_sort_r[s]
           h == HASH_SRT([order |-> s]).order
<1>1. m \in Seq(Sortable) /\ Len(m) = Len(s) /\ Elements(m) = Elements(s) /\ Ordered(m)
  BY MsortSorts DEF SortsTo
<1>2. l \in Seq(Sortable) /\ Len(l) = Len(s) /\ Elements(l) = Elements(s) /\ Ordered(l)
  BY ListSortSorts DEF SortsTo
<1>3. h \in Seq(Sortable) /\ Elements(h) = Elements(s) /\ Ordered(h)
  <2> DEFINE t == [order |-> s]
  <2>1. t.order = s
    OBVIOUS
  <2>2. CASE s = <<>>
    <3>1. h = s
      BY <2>2 DEF HASH_SRT
    <3>2. Ordered(s)
      BY <2>2 DEF Ordered
    <3> QED BY <3>1, <3>2
  <2>3. CASE s # <<>>
    <3>1. h = SortRuns(s)
      BY <2>3 DEF HASH_SRT
    <3>2. Len(s) > 0
      BY <2>3
    <3> QED BY <3>1, <3>2, HashSorts
  <2> QED BY <2>2, <2>3
<1> HIDE DEF m, l, h
<1>4. l = m /\ h = m
  BY <1>1, <1>2, <1>3, UniqueOrder
<1>5. Sorted(m) /\ Stable(m)
  BY <1>1, SortedIs
<1> QED BY <1>1, <1>4, <1>5 DEF Arranges, m, l, h

(* What is sorted: keys with their places as ids.                          *)
LEMMA KeysAreSortable ==
  ASSUME NEW ks \in Seq(Int)
  PROVE  LET s == [i \in DOMAIN ks |-> [key |-> ks[i], id |-> i]]
         IN  s \in Seq(Sortable) /\ ById(s)
<1> DEFINE n == Len(ks)
           s == [i \in DOMAIN ks |-> [key |-> ks[i], id |-> i]]
<1>1. n \in Nat /\ DOMAIN ks = 1..n /\ \A i \in 1..n : ks[i] \in Int
  OBVIOUS
<1>2. s = [i \in 1..n |-> [key |-> ks[i], id |-> i]]
  BY <1>1
<1> HIDE DEF n, s
<1>3. s \in [1..n -> Sortable]
  <2>1. \A i \in 1..n : [key |-> ks[i], id |-> i] \in Sortable
    BY <1>1 DEF Sortable
  <2> QED BY <1>2, <2>1
<1>4. s \in Seq(Sortable) /\ DOMAIN s = 1..n
  BY <1>1, <1>3
<1>5. \A i \in 1..n : s[i].id = i
  BY <1>2
<1>6. ById(s)
  BY <1>4, <1>5, SMTT(30) DEF ById
<1> QED BY <1>4, <1>6 DEF s

(***************************************************************************)
(* The sorts put any sequence in order, the stable ones (msort_r.c, list.c,*)
(* HASH_SRT) in the same one, and custom_bsearch finds the first element   *)
(* that is not less.                                                       *)
(***************************************************************************)
THEOREM SortsDoAgree == PureSpec => []SortsAgree
<1>1. ASSUME PureTypeOK PROVE SortsAgree
  <2> SUFFICES ASSUME call.of = "sort" PROVE SortsAgree
    BY DEF SortsAgree
  <2>1. call.keys \in Seq(Int)
    <3>1. Idle.of = "idle"
      BY DEF Idle
    <3> QED BY <1>1, <3>1 DEF PureTypeOK
  <2> DEFINE s == [i \in DOMAIN call.keys |-> [key |-> call.keys[i], id |-> i]]
             m == msort_r[s]
  <2>2. s \in Seq(Sortable) /\ ById(s)
    BY <2>1, KeysAreSortable
  <2> HIDE DEF s
  <2>3. /\ m \in Seq(Sortable) /\ Arranges(m, s) /\ Stable(m)
        /\ list_sort_r[s] = m /\ HASH_SRT([order |-> s]).order = m
    BY <2>2, StableSorts
  <2>4. Arranges(qsort_r[s], s)
    BY <2>2, QsortSorts DEF QsortTo
  <2> HIDE DEF m
  <2>5. ASSUME NEW key \in SortKeys
        PROVE  LET found == custom_bsearch(m, key)
                   at == {i \in DOMAIN m : m[i].key >= key}
               IN  IF at = {} THEN found = 0 ELSE found \in at /\ \A i \in at : found <= i
    <3>1. key \in Int
      BY SortAssumption DEF SortAssumption
    <3>2. Sorted(m)
      BY <2>3 DEF Arranges
    <3> QED BY <2>3, <3>1, <3>2, SearchFinds
  <2> QED BY <2>3, <2>4, <2>5, SMTT(30) DEF SortsAgree, s, m
<1> QED BY <1>1, PureTypes, PTL
=============================================================================
