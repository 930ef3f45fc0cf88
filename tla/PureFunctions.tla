------------------------------ MODULE PureFunctions ------------------------------
(***************************************************************************)
(* The pure functions of fcitx-utils whose loops are followed exactly: the *)
(* UTF-8 of utf8.c, the sorts and the search.  A call chooses a function   *)
(* and its arguments; the properties compare what the function makes of    *)
(* them with a reference definition.                                       *)
(***************************************************************************)
EXTENDS Utf8, Sorting

CONSTANTS
  LeadBytes,     \* bytes a UTF-8 string may start with
  TailBytes,     \* bytes that may follow
  CodePoints,    \* characters to encode
  SortKeys,      \* keys of the elements to sort
  MaxLen         \* bound on strings and sequences

(* A string holds no terminator.  Characters are those of 31 bits, without *)
(* the ones of 27 bits, which the encoder gives five bytes that hold 26.   *)
Bytes == 1..255
Encodable == {c \in Nat : c > 0 /\ c <= 2147483647 /\ ~(c >= 67108864 /\ c < 134217728)}

Utf8Assumption ==
  /\ MaxLen \in Nat
  /\ LeadBytes \subseteq Bytes /\ TailBytes \subseteq Bytes
  /\ CodePoints \subseteq Encodable

ASSUME Utf8Assumption

(* Sorts that divide need two elements to divide.                          *)
SortAssumption == SortKeys \subseteq Int /\ MINIMUM_INSERT_SORT \in Nat \ {0, 1}

ASSUME SortAssumption

VARIABLE
  call     \* the pure function that was called last, with its arguments

(* Sequences over a set of up to n elements.                               *)
UpTo(set, n) == UNION {[1..k -> set] : k \in 0..n}

Idle == [of |-> "idle"]

Call(args) == call' = args

Return == call # Idle /\ call' = Idle

CheckString ==
  \E lead \in LeadBytes, rest \in UpTo(TailBytes, MaxLen - 1) : Call([of |-> "utf8", s |-> <<lead>> \o rest])

Encode == \E c \in CodePoints : Call([of |-> "ucs4", c |-> c])

Sort == \E keys \in UpTo(SortKeys, MaxLen + 1) : Call([of |-> "sort", keys |-> keys])

PureCalls == call = Idle /\ (CheckString \/ Encode \/ Sort)

PureSpec == call = Idle /\ [][PureCalls \/ Return]_call

----------------------------------------------------------------------------
(* Reference definitions.                                                  *)
(* Well-formed UTF-8 sequences by their bytes (Unicode, table 3-7), and    *)
(* among them the noncharacters, which fcitx refuses.                      *)
Cont == 128..191
WellFormedRows ==
  { <<1..127>>, <<194..223, Cont>>, <<{224}, 160..191, Cont>>, <<225..236, Cont, Cont>>, <<{237}, 128..159, Cont>>,
    <<238..239, Cont, Cont>>, <<{240}, 144..191, Cont, Cont>>, <<241..243, Cont, Cont, Cont>>,
    <<{244}, 128..143, Cont, Cont>> }

NoncharacterRows ==
  { <<{239}, {183}, 144..175>>, <<{239}, {191}, 190..191>>,
    <<240..244, {143, 159, 175, 191}, {191}, 190..191>> }

Fits(s, row) == Len(s) = Len(row) /\ \A i \in DOMAIN s : s[i] \in row[i]

IsChar(s) == (\E row \in WellFormedRows : Fits(s, row)) /\ ~(\E row \in NoncharacterRows : Fits(s, row))

(* Some set of places, both ends among them, has a character between each  *)
(* place and the next.                                                     *)
IsDivided(s, places) ==
  /\ {0, Len(s)} \subseteq places
  /\ \A i, j \in places : i < j /\ ~(\E k \in places : i < k /\ k < j) => IsChar(SubSeq(s, i + 1, j))

WellFormed(s) == \E places \in SUBSET (0..Len(s)) : IsDivided(s, places)

----------------------------------------------------------------------------
(* The longest good string that begins s and fits into so many bytes.      *)
IsLongestGood(s, k, bytes) ==
  /\ check_string(SubSeq(s, 1, k))
  /\ \A m \in (k + 1)..Len(s) : m <= bytes => ~check_string(SubSeq(s, 1, m))

(***************************************************************************)
(* fcitx_utf8_check_string accepts exactly the well-formed strings: no     *)
(* overlong form, surrogate or truncated character passes.  Stepping       *)
(* through any string ends at its terminator.  A bounded copy is a prefix  *)
(* that fcitx_utf8_strnlen counts right, and of a good string the longest  *)
(* good one; its ASCII ends, and what is left without them, are good.  A   *)
(* character comes back from its encoding.                                 *)
(***************************************************************************)
Utf8WellFormed ==
  /\ call.of = "utf8" =>
       LET s == call.s
           good == check_string(s)
           tail == get_ascii_partn(s, Len(s))
           rest == get_ascii_endn(s, Len(s))
       IN  /\ good <=> WellFormed(s)
           /\ strlen(s) \in 0..Len(s) /\ get_nth_char(s, strlen(s)) = <<>>
           /\ \A n \in 0..(Len(s) + 1) : \E k \in 0..Len(s) :
                /\ k <= n /\ strncpy(s, n) = [i \in 1..n |-> IF i <= k THEN s[i] ELSE 0]
                /\ strnlen(s, n) = strlen(SubSeq(s, 1, k))
                /\ good => IsLongestGood(s, k, n)
           /\ good =>
                /\ check_string(tail) /\ (\A i \in DOMAIN tail : tail[i] < 128)
                /\ \E i \in 0..Len(s) : tail = After(s, i) /\ (i > 0 => s[i] > 127)
                /\ check_string(rest) /\ (rest # <<>> => rest[1] > 127)
                /\ \E i \in 0..Len(s) : rest = After(s, i) /\ \A j \in 1..i : s[j] < 128
  /\ call.of = "ucs4" =>
       LET s == ucs4_to_utf8(call.c)
       IN  /\ get_char(s) = call.c /\ char_len(s) = Len(s)
           /\ get_char_validated(s, 6) = IF UNICODE_VALID(call.c) THEN call.c ELSE INVALID

----------------------------------------------------------------------------
(* What a stable sort of s makes: the same elements in order, equal ones   *)
(* in the order they had.                                                  *)
Elements(s) == {s[i] : i \in DOMAIN s}
Sorted(s) == \A i, j \in DOMAIN s : i < j => s[i].key <= s[j].key
Stable(s) == \A i, j \in DOMAIN s : i < j /\ s[i].key = s[j].key => s[i].id < s[j].id
Arranges(t, s) == Len(t) = Len(s) /\ Elements(t) = Elements(s) /\ Sorted(t)

(***************************************************************************)
(* The sorts put the same elements in order, and those that promise to be  *)
(* stable agree on the order of equal ones: merging halves of an array, of *)
(* a list, and the runs of a hash table.  In what is sorted the inexact    *)
(* search finds the first element that is not less.                        *)
(***************************************************************************)
SortsAgree ==
  call.of = "sort" =>
    LET s == [i \in DOMAIN call.keys |-> [key |-> call.keys[i], id |-> i]]
        m == msort_r[s]
    IN  /\ Arranges(m, s) /\ Stable(m)
        /\ list_sort_r[s] = m /\ HASH_SRT([order |-> s]).order = m
        /\ Arranges(qsort_r[s], s)
        /\ \A key \in SortKeys :
             LET found == custom_bsearch(m, key)
                 at == {i \in DOMAIN m : m[i].key >= key}
             IN  IF at = {} THEN found = 0 ELSE found \in at /\ \A i \in at : found <= i
=============================================================================
