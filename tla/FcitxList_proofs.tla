---------------------------- MODULE FcitxList_proofs ----------------------------
(***************************************************************************)
(* What linking and unlinking do to the set of the objects on a list, and  *)
(* that they keep an object from being on it twice; before that, induction *)
(* over the numbers up to a bound, for the proofs about recursive          *)
(* functions.                                                              *)
(***************************************************************************)
EXTENDS FcitxList, SequenceTheorems, WellFoundedInduction, TLAPS

(* Induction in its first-order form: <, on the numbers, is well founded,  *)
(* so a set of numbers that is not empty has a least one.                  *)
LEMMA LessThan ==
  ASSUME NEW x, NEW y
  PROVE  <<x, y>> \in OpToRel(<, Nat) <=> x \in Nat /\ y \in Nat /\ x < y
BY DEF OpToRel

(* A set of numbers that is not empty has a least one.                     *)
LEMMA LeastElement ==
  ASSUME NEW T, T \subseteq Nat, T # {}
  PROVE  \E x \in T : \A y \in T : x <= y
<1>1. \E x \in T : \A y \in T : ~(<<y, x>> \in OpToRel(<, Nat))
  BY NatLessThanWellFounded, WFMin
<1>2. \E x \in T : \A y \in T : ~(y < x)
  BY <1>1, LessThan
<1> QED BY <1>2

(* A set that has 0 and, with a number below N, the next one, has all the  *)
(* numbers up to N.                                                        *)
LEMMA CountingUp ==
  ASSUME NEW N \in Nat, NEW T, 0 \in T, \A n \in 0..(N - 1) : n \in T => n + 1 \in T
  PROVE  \A n \in 0..N : n \in T
<1> DEFINE U == {n \in 0..N : n \notin T}
<1> SUFFICES ASSUME U # {} PROVE FALSE
  OBVIOUS
<1>1. U \subseteq Nat
  OBVIOUS
<1>2. PICK n \in U : \A m \in U : n <= m
  <2> HIDE DEF U
  <2> QED BY <1>1, LeastElement
<1>3. n \in 0..N /\ n \notin T /\ n # 0
  OBVIOUS
<1>4. n - 1 \in 0..(N - 1) /\ n - 1 \in 0..N /\ (n - 1) + 1 = n /\ ~(n <= n - 1)
  BY <1>3
<1>5. n - 1 \notin U
  <2> HIDE DEF U
  <2> QED BY <1>2, <1>4
<1>6. n - 1 \in T
  BY <1>4, <1>5
<1> QED BY <1>3, <1>4, <1>6

(* f starts from base, and its n-th value is the step from the one before. *)
IsSteps(f, N, V, base, step) ==
  /\ f \in [0..N -> V] /\ f[0] = base
  /\ \A n \in 1..N : f[n] = step[<<f[n - 1], n>>]

(* A function defined by steps over 1 to N exists.                         *)
LEMMA StepsExist ==
  ASSUME NEW N \in Nat, NEW V, NEW base \in V, NEW step \in [V \X (1..N) -> V]
  PROVE  \E f : IsSteps(f, N, V, base, step)
<1> DEFINE Is(f, n) == IsSteps(f, n, V, base, step)
           T == {n \in 0..N : \E f : Is(f, n)}
<1>1. 0 \in T
  <2>1. Is([n \in 0..0 |-> base], 0)
    BY DEF IsSteps
  <2> HIDE DEF Is
  <2> QED BY <2>1
<1>2. ASSUME NEW n \in 0..(N - 1), n \in T PROVE n + 1 \in T
  <2>1. PICK f : Is(f, n)
    BY <1>2
  <2>2. n + 1 \in 1..N /\ n + 1 \in 0..N /\ n \in Nat
    OBVIOUS
  <2> DEFINE v == step[<<f[n], n + 1>>]
             g == [m \in 0..(n + 1) |-> IF m = n + 1 THEN v ELSE f[m]]
  <2>3. v \in V
    BY <2>1, <2>2 DEF IsSteps
  <2> HIDE DEF v
  <2>4. g \in [0..(n + 1) -> V] /\ g[0] = base
    BY <2>1, <2>2, <2>3 DEF IsSteps
  <2>5. ASSUME NEW m \in 1..(n + 1) PROVE g[m] = step[<<g[m - 1], m>>]
    <3>1. CASE m = n + 1
      <4>1. g[m] = v /\ m - 1 = n /\ g[n] = f[n]
        BY <2>2, <3>1
      <4> HIDE DEF g
      <4> QED BY <3>1, <4>1 DEF v
    <3>2. CASE m # n + 1
      <4>1. m \in 1..n /\ g[m] = f[m] /\ g[m - 1] = f[m - 1]
        BY <2>2, <3>2
      <4> HIDE DEF g
      <4> QED BY <2>1, <4>1 DEF IsSteps
    <3> QED BY <3>1, <3>2
  <2> HIDE DEF g
  <2>6. Is(g, n + 1)
    BY <2>4, <2>5 DEF IsSteps
  <2> HIDE DEF Is
  <2> QED BY <2>2, <2>6
<1>3. N \in T
  <2> HIDE DEF T
  <2>1. \A n \in 0..N : n \in T
    BY <1>1, <1>2, CountingUp
  <2> QED BY <2>1
<1> QED BY <1>3

(* Appending is writing the element behind.                                *)
LEMMA AppendIsBehind ==
  ASSUME NEW S, NEW s \in Seq(S), NEW e
  PROVE  Append(s, e) = s \o <<e>>
<1>1. s \in Seq(S \cup {e}) /\ <<e>> \in Seq(S \cup {e})
  OBVIOUS
<1> QED BY <1>1

(* A sequence of two.                                                      *)
LEMMA TwoElements ==
  ASSUME NEW a, NEW b
  PROVE  <<a>> \o <<b>> = <<a, b>>
<1>1. <<a>> \in Seq({a})
  OBVIOUS
<1>2. Append(<<a>>, b) = <<a>> \o <<b>>
  BY <1>1, AppendIsBehind
<1>3. Append(<<a>>, b) = <<a, b>>
  <2> DEFINE x == Append(<<a>>, b)
             y == <<a, b>>
  <2>1. x \in Seq({a, b}) /\ Len(x) = 2 /\ x[1] = a /\ x[2] = b
    <3>1. <<a>> \in Seq({a, b}) /\ Len(<<a>>) = 1 /\ <<a>>[1] = a
      OBVIOUS
    <3> QED BY <3>1
  <2>2. y \in Seq({a, b}) /\ Len(y) = 2 /\ y[1] = a /\ y[2] = b
    OBVIOUS
  <2> HIDE DEF x, y
  <2>3. \A n \in 1..2 : x[n] = y[n]
    BY <2>1, <2>2
  <2>4. x = y
    BY <2>1, <2>2, <2>3
  <2> QED BY <2>4 DEF x, y
<1> QED BY <1>2, <1>3

(* Flattening a sequence of sequences goes on from each prefix to the next.*)
IsFlattening(f, seqs, S) ==
  /\ f \in [0..Len(seqs) -> Seq(S)] /\ f[0] = <<>>
  /\ \A n \in 1..Len(seqs) : f[n] = f[n - 1] \o seqs[n]

(* The result of flattening is the last of the prefixes' flattenings.      *)
LEMMA FlattenedInSteps ==
  ASSUME NEW S, NEW seqs \in Seq(Seq(S))
  PROVE  \E f : IsFlattening(f, seqs, S) /\ FlattenSeq(seqs) = f[Len(seqs)]
<1> DEFINE N == Len(seqs)
           step == [x \in Seq(S) \X (1..N) |-> x[1] \o seqs[x[2]]]
           Is(f) == f = [i \in 1..N |-> IF i = 1 THEN seqs[i] ELSE f[i - 1] \o seqs[i]]
<1>1. N \in Nat /\ DOMAIN seqs = 1..N /\ \A n \in 1..N : seqs[n] \in Seq(S)
  OBVIOUS
<1>2. (seqs = <<>> <=> N = 0) /\ <<>> \in Seq(S)
  OBVIOUS
<1> HIDE DEF N
<1>3. PICK f : IsFlattening(f, seqs, S)
  <2>1. step \in [Seq(S) \X (1..N) -> Seq(S)]
    BY <1>1
  <2>2. \A x \in Seq(S), n \in 1..N : step[<<x, n>>] = x \o seqs[n]
    OBVIOUS
  <2> HIDE DEF step
  <2>3. PICK f : IsSteps(f, N, Seq(S), <<>>, step)
    BY <1>1, <1>2, <2>1, StepsExist
  <2>4. ASSUME NEW n \in 1..N PROVE f[n] = f[n - 1] \o seqs[n]
    <3>1. n - 1 \in 0..N
      BY <1>1
    <3>2. f[n - 1] \in Seq(S)
      BY <2>3, <3>1 DEF IsSteps
    <3> QED BY <2>2, <2>3, <3>2 DEF IsSteps
  <2>5. IsFlattening(f, seqs, S)
    BY <2>3, <2>4 DEF IsSteps, IsFlattening, N
  <2> QED BY <2>5
<1>4. /\ f \in [0..N -> Seq(S)] /\ f[0] = <<>>
      /\ \A n \in 1..N : f[n] = f[n - 1] \o seqs[n]
  BY <1>3 DEF IsFlattening, N
<1>5. ASSUME 1 \in 1..N PROVE f[1] = seqs[1]
  <2>1. f[1] = f[1 - 1] \o seqs[1] /\ seqs[1] \in Seq(S)
    BY <1>1, <1>4, <1>5
  <2>2. 1 - 1 = 0
    OBVIOUS
  <2>3. f[1] = <<>> \o seqs[1]
    BY <1>4, <2>1, <2>2
  <2> QED BY <2>1, <2>3
<1>6. CASE N = 0
  <2>1. FlattenSeq(seqs) = <<>>
    BY <1>2, <1>6 DEF FlattenSeq, N
  <2> QED BY <1>3, <1>4, <1>6, <2>1 DEF N
<1>7. CASE N # 0
  <2>1. FlattenSeq(seqs) = (CHOOSE g : Is(g))[N]
    BY <1>7 DEF FlattenSeq, N
  <2>2. \E g : Is(g)
    <3> DEFINE g == [n \in 1..N |-> f[n]]
    <3>1. ASSUME NEW n \in 1..N PROVE g[n] = IF n = 1 THEN seqs[n] ELSE g[n - 1] \o seqs[n]
      <4>1. CASE n = 1
        <5>1. g[n] = f[1]
          BY <4>1
        <5> HIDE DEF g
        <5> QED BY <1>5, <4>1, <5>1
      <4>2. CASE n # 1
        <5>1. n - 1 \in 1..N
          BY <1>1, <4>2
        <5> QED BY <1>4, <4>2, <5>1
      <4> QED BY <4>1, <4>2
    <3>2. Is(g)
      BY <3>1
    <3> HIDE DEF Is
    <3> QED BY <3>2
  <2> DEFINE F == CHOOSE g : Is(g)
  <2>3. \A n \in 1..N : F[n] = IF n = 1 THEN seqs[n] ELSE F[n - 1] \o seqs[n]
    <3>1. Is(F)
      <4> HIDE DEF Is
      <4> QED BY <2>2
    <3> HIDE DEF F
    <3> QED BY <3>1
  <2> HIDE DEF F, Is
  <2> DEFINE T == {n \in 0..N : n = 0 \/ F[n] = f[n]}
  <2>4. 0 \in T
    BY <1>1
  <2>5. ASSUME NEW n \in 0..(N - 1), n \in T PROVE n + 1 \in T
    <3>1. n + 1 \in 1..N /\ n + 1 \in 0..N /\ (n + 1) - 1 = n
      BY <1>1
    <3>2. CASE n = 0
      <4>1. 1 \in 1..N
        BY <3>1, <3>2
      <4>2. F[1] = seqs[1]
        BY <2>3, <4>1
      <4>3. F[1] = f[1]
        BY <1>5, <4>1, <4>2
      <4> QED BY <3>1, <3>2, <4>3
    <3>3. CASE n # 0
      <4>1. F[n + 1] = IF n + 1 = 1 THEN seqs[n + 1] ELSE F[(n + 1) - 1] \o seqs[n + 1]
        BY <2>3, <3>1
      <4>2. n + 1 # 1
        BY <3>3
      <4>3. F[n + 1] = F[n] \o seqs[n + 1]
        BY <3>1, <4>1, <4>2
      <4>4. f[n + 1] = f[n] \o seqs[n + 1]
        BY <1>4, <3>1
      <4>5. F[n] = f[n]
        BY <2>5, <3>3
      <4> QED BY <3>1, <4>3, <4>4, <4>5
    <3> QED BY <3>2, <3>3
  <2>6. N \in T
    <3> HIDE DEF T
    <3>1. \A n \in 0..N : n \in T
      BY <1>1, <2>4, <2>5, CountingUp
    <3> QED BY <1>1, <3>1
  <2>7. FlattenSeq(seqs) = f[N]
    BY <1>7, <2>1, <2>6 DEF F
  <2> QED BY <1>3, <2>7 DEF N
<1> QED BY <1>6, <1>7

----------------------------------------------------------------------------
(* Appending an object adds it to the list, and once if it was not there.  *)
LEMMA AppendIsLink ==
  ASSUME NEW S, NEW s \in Seq(S), NEW e \in S
  PROVE  /\ Append(s, e) \in Seq(S)
         /\ ToSet(Append(s, e)) = ToSet(s) \cup {e}
         /\ IsInjective(s) /\ e \notin ToSet(s) => IsInjective(Append(s, e))
<1>1. /\ Append(s, e) \in Seq(S)
      /\ Len(Append(s, e)) = Len(s) + 1
      /\ \A k \in 1..Len(s) : Append(s, e)[k] = s[k]
      /\ Append(s, e)[Len(s) + 1] = e
      /\ DOMAIN s = 1..Len(s)
      /\ DOMAIN Append(s, e) = 1..(Len(s) + 1)
      /\ Len(s) \in Nat
  OBVIOUS
<1>2. ToSet(Append(s, e)) = ToSet(s) \cup {e}
  BY <1>1 DEF ToSet
<1>3. IsInjective(s) /\ e \notin ToSet(s) => IsInjective(Append(s, e))
  BY <1>1 DEF ToSet, IsInjective
<1> QED BY <1>1, <1>2, <1>3

(* Prepending an object adds it to the list, and once if it was not there. *)
LEMMA PrependIsLink ==
  ASSUME NEW S, NEW s \in Seq(S), NEW e \in S
  PROVE  /\ <<e>> \o s \in Seq(S)
         /\ ToSet(<<e>> \o s) = ToSet(s) \cup {e}
         /\ IsInjective(s) /\ e \notin ToSet(s) => IsInjective(<<e>> \o s)
<1> DEFINE t == <<e>> \o s
<1>1. /\ t \in Seq(S)
      /\ t[1] = e
      /\ \A k \in 2..(Len(s) + 1) : t[k] = s[k - 1]
      /\ DOMAIN s = 1..Len(s)
      /\ DOMAIN t = 1..(Len(s) + 1)
      /\ Len(s) \in Nat
  OBVIOUS
<1> HIDE DEF t
<1>2. ToSet(t) = ToSet(s) \cup {e}
  <2>1. \A x \in ToSet(t) : x \in ToSet(s) \cup {e}
    BY <1>1 DEF ToSet
  <2>2. ASSUME NEW k \in 1..Len(s) PROVE s[k] \in ToSet(t)
    <3>1. k + 1 \in DOMAIN t /\ t[k + 1] = s[k]
      BY <1>1
    <3> QED BY <3>1 DEF ToSet
  <2>3. e \in ToSet(t)
    BY <1>1 DEF ToSet
  <2> QED BY <1>1, <2>1, <2>2, <2>3 DEF ToSet
<1>3. ASSUME IsInjective(s), e \notin ToSet(s) PROVE IsInjective(t)
  <2> SUFFICES ASSUME NEW a \in DOMAIN t, NEW b \in DOMAIN t, t[a] = t[b] PROVE a = b
    BY DEF IsInjective
  <2>1. \A k \in 2..(Len(s) + 1) : t[k] # e
    BY <1>1, <1>3 DEF ToSet
  <2>2. CASE a = 1 \/ b = 1
    BY <1>1, <2>1, <2>2
  <2>3. CASE a # 1 /\ b # 1
    <3>1. a - 1 \in DOMAIN s /\ b - 1 \in DOMAIN s /\ s[a - 1] = s[b - 1]
      BY <1>1, <2>3
    <3> QED BY <1>1, <1>3, <3>1 DEF IsInjective
  <2> QED BY <2>2, <2>3
<1> QED BY <1>1, <1>2, <1>3 DEF t

(* Popping the head removes exactly that object.                           *)
LEMMA PopIsUnlink ==
  ASSUME NEW S, NEW s \in Seq(S), s # <<>>
  PROVE  /\ Tail(s) \in Seq(S)
         /\ Head(s) \in ToSet(s)
         /\ Head(s) \in S
         /\ IsInjective(s) => /\ ToSet(Tail(s)) = ToSet(s) \ {Head(s)}
                              /\ IsInjective(Tail(s))
<1>1. /\ Tail(s) \in Seq(S)
      /\ Head(s) = s[1]
      /\ Len(s) \in Nat /\ Len(s) > 0
      /\ DOMAIN s = 1..Len(s)
      /\ DOMAIN Tail(s) = 1..(Len(s) - 1)
      /\ \A k \in 1..(Len(s) - 1) : Tail(s)[k] = s[k + 1]
  OBVIOUS
<1>2. Head(s) \in ToSet(s) /\ Head(s) \in S
  BY <1>1 DEF ToSet
<1>3. ASSUME IsInjective(s)
      PROVE  ToSet(Tail(s)) = ToSet(s) \ {Head(s)} /\ IsInjective(Tail(s))
  <2>1. ASSUME NEW k \in 1..Len(s), s[k] # Head(s) PROVE s[k] \in ToSet(Tail(s))
    <3>1. k - 1 \in DOMAIN Tail(s) /\ Tail(s)[k - 1] = s[k]
      BY <1>1, <2>1
    <3> QED BY <3>1 DEF ToSet
  <2>2. \A x \in ToSet(Tail(s)) : x \in ToSet(s) /\ x # Head(s)
    BY <1>1, <1>3 DEF ToSet, IsInjective
  <2>3. ToSet(Tail(s)) = ToSet(s) \ {Head(s)}
    BY <1>1, <2>1, <2>2 DEF ToSet
  <2>4. IsInjective(Tail(s))
    BY <1>1, <1>3 DEF IsInjective
  <2> QED BY <2>3, <2>4
<1> QED BY <1>1, <1>2, <1>3

(* Unlinking an object closes the gap where it stood.                      *)
LEMMA RemoveClosesGap ==
  ASSUME NEW S, NEW s \in Seq(S), NEW e \in ToSet(s)
  PROVE  LET p == Position(s, e)
             t == list_remove(s, e)
         IN  /\ p \in DOMAIN s /\ s[p] = e
             /\ t \in Seq(S)
             /\ DOMAIN t = 1..(Len(s) - 1)
             /\ \A k \in 1..(Len(s) - 1) : t[k] = IF k < p THEN s[k] ELSE s[k + 1]
<1> DEFINE p == Position(s, e)
           t == list_remove(s, e)
<1>1. p \in DOMAIN s /\ s[p] = e
  BY DEF ToSet, Position
<1>2. DOMAIN s = 1..Len(s) /\ Len(s) \in Nat
  OBVIOUS
<1>3. /\ t \in Seq(S)
      /\ DOMAIN t = 1..(Len(s) - 1)
      /\ \A k \in 1..(Len(s) - 1) : t[k] = IF k < p THEN s[k] ELSE s[k + 1]
  <2>1. t = SubSeq(s, 1, p - 1) \o SubSeq(s, p + 1, Len(s))
    BY DEF list_remove, RemoveAt
  <2> HIDE DEF p
  <2>2. /\ SubSeq(s, 1, p - 1) \in Seq(S)
        /\ Len(SubSeq(s, 1, p - 1)) = p - 1
        /\ \A k \in 1..(p - 1) : SubSeq(s, 1, p - 1)[k] = s[k]
    BY <1>1, <1>2
  <2>3. /\ SubSeq(s, p + 1, Len(s)) \in Seq(S)
        /\ Len(SubSeq(s, p + 1, Len(s))) = Len(s) - p
        /\ \A k \in 1..(Len(s) - p) : SubSeq(s, p + 1, Len(s))[k] = s[k + p]
    BY <1>1, <1>2
  <2> DEFINE u == SubSeq(s, 1, p - 1)
             v == SubSeq(s, p + 1, Len(s))
  <2>4. /\ u \o v \in Seq(S)
        /\ Len(u \o v) = Len(s) - 1
        /\ \A k \in 1..(Len(s) - 1) : (u \o v)[k] = IF k < p THEN u[k] ELSE v[k - (p - 1)]
    <3>1. u \in Seq(S) /\ v \in Seq(S) /\ Len(u) = p - 1 /\ Len(v) = Len(s) - p
      BY <2>2, <2>3
    <3> HIDE DEF u, v
    <3>2. /\ u \o v \in Seq(S)
          /\ Len(u \o v) = Len(u) + Len(v)
          /\ \A k \in 1..(Len(u) + Len(v)) :
               (u \o v)[k] = IF k <= Len(u) THEN u[k] ELSE v[k - Len(u)]
      BY <3>1, ConcatProperties
    <3>3. p - 1 \in Int /\ (p - 1) + (Len(s) - p) = Len(s) - 1 /\ p \in Int
      BY <1>1, <1>2
    <3>4. \A k \in 1..(Len(s) - 1) : k <= p - 1 <=> k < p
      BY <3>3
    <3> QED BY <3>1, <3>2, <3>3, <3>4
  <2>5. ASSUME NEW k \in 1..(Len(s) - 1)
        PROVE  (u \o v)[k] = IF k < p THEN s[k] ELSE s[k + 1]
    <3>1. CASE k < p
      BY <1>1, <1>2, <2>2, <2>4, <3>1
    <3>2. CASE ~(k < p)
      <4>1. k - (p - 1) \in 1..(Len(s) - p)
        BY <1>1, <1>2, <3>2
      <4>2. v[k - (p - 1)] = s[(k - (p - 1)) + p]
        BY <2>3, <4>1
      <4>3. (k - (p - 1)) + p = k + 1
        BY <1>1, <1>2
      <4>4. (u \o v)[k] = v[k - (p - 1)]
        BY <2>4, <3>2
      <4> HIDE DEF u, v
      <4> QED BY <3>2, <4>2, <4>3, <4>4
    <3> QED BY <3>1, <3>2
  <2>6. t = u \o v
    BY <2>1
  <2>7. t \in Seq(S) /\ Len(t) = Len(s) - 1
    BY <2>4, <2>6
  <2>8. \A k \in 1..(Len(s) - 1) : t[k] = IF k < p THEN s[k] ELSE s[k + 1]
    BY <2>5, <2>6
  <2> HIDE DEF t
  <2> QED BY <2>7, <2>8
<1> QED BY <1>1, <1>3

(* Unlinking an object removes it and keeps the others, each where it was. *)
LEMMA RemoveIsUnlink ==
  ASSUME NEW S, NEW s \in Seq(S), NEW e \in ToSet(s)
  PROVE  /\ list_remove(s, e) \in Seq(S)
         /\ \A x \in ToSet(s) \ {e} : x \in ToSet(list_remove(s, e))
         /\ IsInjective(s) => /\ ToSet(list_remove(s, e)) = ToSet(s) \ {e}
                              /\ IsInjective(list_remove(s, e))
<1> DEFINE p == Position(s, e)
           t == list_remove(s, e)
<1>1. p \in DOMAIN s /\ s[p] = e
  BY RemoveClosesGap
<1>2. DOMAIN s = 1..Len(s) /\ Len(s) \in Nat
  OBVIOUS
<1>3. /\ t \in Seq(S)
      /\ DOMAIN t = 1..(Len(s) - 1)
      /\ \A k \in 1..(Len(s) - 1) : t[k] = IF k < p THEN s[k] ELSE s[k + 1]
  BY RemoveClosesGap
<1> HIDE DEF p, t
<1>4. ASSUME NEW k \in DOMAIN s, s[k] # e PROVE s[k] \in ToSet(t)
  <2>1. CASE k < p
    <3>1. k \in DOMAIN t /\ t[k] = s[k]
      BY <1>1, <1>2, <1>3, <2>1
    <3> QED BY <3>1 DEF ToSet
  <2>2. CASE k > p
    <3>1. k - 1 \in DOMAIN t /\ t[k - 1] = s[k]
      BY <1>1, <1>2, <1>3, <2>2
    <3> QED BY <3>1 DEF ToSet
  <2> QED BY <1>1, <1>2, <1>4, <2>1, <2>2
<1>5. ASSUME IsInjective(s) PROVE ToSet(t) = ToSet(s) \ {e} /\ IsInjective(t)
  <2>1. \A k \in DOMAIN t : t[k] \in ToSet(s) /\ t[k] # e
    BY <1>1, <1>2, <1>3, <1>5 DEF ToSet, IsInjective
  <2>3. ToSet(t) = ToSet(s) \ {e}
    BY <1>4, <2>1 DEF ToSet
  <2>4. IsInjective(t)
    <3> SUFFICES ASSUME NEW a \in DOMAIN t, NEW b \in DOMAIN t, t[a] = t[b] PROVE a = b
      BY DEF IsInjective
    <3> DEFINE at(k) == IF k < p THEN k ELSE k + 1
    <3>1. at(a) \in DOMAIN s /\ at(b) \in DOMAIN s
      BY <1>1, <1>2, <1>3
    <3>2. s[at(a)] = t[a] /\ s[at(b)] = t[b]
      BY <1>3
    <3>3. at(a) = at(b)
      BY <1>5, <3>1, <3>2 DEF IsInjective
    <3> QED BY <1>1, <1>2, <1>3, <3>3
  <2> QED BY <2>3, <2>4
<1>6. \A x \in ToSet(s) \ {e} : x \in ToSet(t)
  BY <1>4 DEF ToSet
<1> QED BY <1>3, <1>5, <1>6 DEF t

(* Moving a whole list, last object first, in front of another one.        *)
LEMMA SpliceReversed ==
  ASSUME NEW S, NEW s \in Seq(S), NEW r \in Seq(S)
  PROVE  /\ Reverse(s) \o r \in Seq(S)
         /\ ToSet(Reverse(s) \o r) = ToSet(s) \cup ToSet(r)
         /\ IsInjective(s) /\ IsInjective(r) /\ ToSet(s) \cap ToSet(r) = {}
              => IsInjective(Reverse(s) \o r)
<1> DEFINE t == Reverse(s) \o r
           m == Len(s)
           n == Len(r)
<1>1. m \in Nat /\ n \in Nat /\ DOMAIN s = 1..m /\ DOMAIN r = 1..n
  OBVIOUS
<1>2. /\ Reverse(s) \in Seq(S)
      /\ Len(Reverse(s)) = m
      /\ \A k \in 1..m : Reverse(s)[k] = s[(m - k) + 1]
  <2>1. \A k \in 1..m : (m - k) + 1 \in 1..m
    BY <1>1
  <2>2. Reverse(s) = [k \in 1..m |-> s[(m - k) + 1]]
    BY DEF Reverse
  <2> HIDE DEF m
  <2>3. \A k \in 1..m : s[(m - k) + 1] \in S
    BY <1>1, <2>1
  <2> QED BY <1>1, <2>2, <2>3
<1>3. /\ t \in Seq(S)
      /\ DOMAIN t = 1..(m + n)
      /\ \A k \in 1..m : t[k] = s[(m - k) + 1]
      /\ \A k \in (m + 1)..(m + n) : t[k] = r[k - m]
  <2> DEFINE w == Reverse(s)
  <2>1. w \in Seq(S) /\ Len(w) = m
    BY <1>2
  <2> HIDE DEF w
  <2>2. /\ w \o r \in Seq(S)
        /\ Len(w \o r) = m + n
        /\ \A k \in 1..m : (w \o r)[k] = w[k]
        /\ \A k \in (m + 1)..(m + n) : (w \o r)[k] = r[k - m]
    BY <2>1
  <2> QED BY <1>1, <1>2, <2>2 DEF w
<1> HIDE DEF t, m, n
<1>4. ToSet(t) = ToSet(s) \cup ToSet(r)
  <2>1. ASSUME NEW k \in 1..m PROVE s[k] \in ToSet(t)
    <3>1. (m - k) + 1 \in 1..m /\ (m - ((m - k) + 1)) + 1 = k
      BY <1>1
    <3>2. (m - k) + 1 \in DOMAIN t /\ t[(m - k) + 1] = s[k]
      BY <1>1, <1>3, <3>1
    <3> QED BY <3>2 DEF ToSet
  <2>2. ASSUME NEW k \in 1..n PROVE r[k] \in ToSet(t)
    <3>1. m + k \in (m + 1)..(m + n) /\ (m + k) - m = k
      BY <1>1
    <3>2. m + k \in DOMAIN t /\ t[m + k] = r[k]
      BY <1>1, <1>3, <3>1
    <3> QED BY <3>2 DEF ToSet
  <2>3. ASSUME NEW k \in DOMAIN t PROVE t[k] \in ToSet(s) \cup ToSet(r)
    <3>1. CASE k \in 1..m
      <4>1. (m - k) + 1 \in DOMAIN s
        BY <1>1, <3>1
      <4> QED BY <1>3, <3>1, <4>1 DEF ToSet
    <3>2. CASE k \in (m + 1)..(m + n)
      <4>1. k - m \in DOMAIN r
        BY <1>1, <3>2
      <4> QED BY <1>3, <3>2, <4>1 DEF ToSet
    <3> QED BY <1>1, <1>3, <3>1, <3>2
  <2> QED BY <1>1, <2>1, <2>2, <2>3 DEF ToSet
<1>5. ASSUME IsInjective(s), IsInjective(r), ToSet(s) \cap ToSet(r) = {}
      PROVE  IsInjective(t)
  <2> SUFFICES ASSUME NEW a \in DOMAIN t, NEW b \in DOMAIN t, t[a] = t[b] PROVE a = b
    BY DEF IsInjective
  <2>1. ASSUME NEW k \in 1..m PROVE (m - k) + 1 \in DOMAIN s /\ t[k] = s[(m - k) + 1]
    BY <1>1, <1>3
  <2>2. ASSUME NEW k \in (m + 1)..(m + n) PROVE k - m \in DOMAIN r /\ t[k] = r[k - m]
    BY <1>1, <1>3
  <2>3. CASE a \in 1..m /\ b \in 1..m
    <3>1. (m - a) + 1 = (m - b) + 1
      BY <1>5, <2>1, <2>3 DEF IsInjective
    <3> QED BY <1>1, <2>3, <3>1
  <2>4. CASE a \in (m + 1)..(m + n) /\ b \in (m + 1)..(m + n)
    <3>1. a - m = b - m
      BY <1>5, <2>2, <2>4 DEF IsInjective
    <3> QED BY <1>1, <2>4, <3>1
  <2>5. ~(a \in 1..m /\ b \in (m + 1)..(m + n))
    <3> SUFFICES ASSUME a \in 1..m, b \in (m + 1)..(m + n) PROVE FALSE
      OBVIOUS
    <3>1. t[a] \in ToSet(s)
      BY <2>1 DEF ToSet
    <3>2. t[b] \in ToSet(r)
      BY <2>2 DEF ToSet
    <3> QED BY <1>5, <3>1, <3>2
  <2>6. ~(b \in 1..m /\ a \in (m + 1)..(m + n))
    <3> SUFFICES ASSUME b \in 1..m, a \in (m + 1)..(m + n) PROVE FALSE
      OBVIOUS
    <3>1. t[b] \in ToSet(s)
      BY <2>1 DEF ToSet
    <3>2. t[a] \in ToSet(r)
      BY <2>2 DEF ToSet
    <3> QED BY <1>5, <3>1, <3>2
  <2> QED BY <1>1, <1>3, <2>3, <2>4, <2>5, <2>6
<1> QED BY <1>3, <1>4, <1>5 DEF t
=============================================================================
