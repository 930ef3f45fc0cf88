---------------------------------- MODULE Utf8 ----------------------------------
(***************************************************************************)
(* UTF-8 as lib/fcitx-utils/utf8.c reads and writes it.  A string is the   *)
(* sequence of its bytes up to the terminator, which Byte reads as 0; a    *)
(* pointer into a string is the string After it.                           *)
(***************************************************************************)
EXTENDS Integers, Sequences

Byte(s, i) == IF i \in DOMAIN s THEN s[i] ELSE 0

After(s, n) == SubSeq(s, n + 1, Len(s))

IsContinuation(b) == b \in 128..191

(* The length a first byte announces: 0 for a continuation, -1 for a byte  *)
(* that never occurs.                                                      *)
type(b) ==
  CASE b \in 0..127   -> 1 [] b \in 128..191 -> 0 [] b \in 192..223 -> 2
    [] b \in 224..239 -> 3 [] b \in 240..247 -> 4 [] b \in 248..251 -> 5
    [] b \in 252..253 -> 6 [] OTHER -> -1

(* A byte that starts no complete character is one of its own.             *)
char_len(s) ==
  LET n == type(Byte(s, 1))
  IN  IF n \in 2..6 /\ \A i \in 2..n : IsContinuation(Byte(s, i)) THEN n ELSE 1

(* What marks the first byte of n, and how many values are left in it.     *)
Mark == <<0, 192, 224, 240, 248, 252>>
Keeps == <<256, 32, 16, 8, 4, 2>>

(* The bits of a character of n bytes.                                     *)
Bits(s, n) ==
  LET bits[i \in 0..n] ==
        IF i = 0 THEN 0
        ELSE bits[i - 1] * 64 + (IF i = 1 THEN Byte(s, 1) % Keeps[n] ELSE Byte(s, i) % 64)
  IN  bits[n]

get_char(s) == Bits(s, char_len(s))

----------------------------------------------------------------------------
(* Walking.  get_char steps from a character to the next; the terminator   *)
(* ends the walk.                                                          *)
NextChar(s, i) == IF i < Len(s) THEN i + char_len(After(s, i)) ELSE i

(* How far n steps lead.                                                   *)
Offset(s, n) ==
  LET at[k \in 0..n] == IF k = 0 THEN 0 ELSE NextChar(s, at[k - 1])
  IN  at[n]

strlen(s) ==
  CHOOSE n \in 0..Len(s) : Offset(s, n) = Len(s) /\ \A m \in 0..(n - 1) : Offset(s, m) < Len(s)

get_nth_char(s, n) == After(s, Offset(s, n))

----------------------------------------------------------------------------
(* Encoding.                                                               *)
ucs4_char_len(c) ==
  IF c < 128 THEN 1 ELSE IF c < 2048 THEN 2 ELSE IF c < 65536 THEN 3
  ELSE IF c < 2097152 THEN 4 ELSE IF c < 134217728 THEN 5 ELSE 6

Weight == <<1, 64, 4096, 262144, 16777216, 1073741824>>

(* The first byte keeps the bits there is room for: a character of five    *)
(* bytes loses the one above 26.                                           *)
ucs4_to_utf8(c) ==
  LET n == ucs4_char_len(c)
  IN  [i \in 1..n |-> LET rest == c \div Weight[n - i + 1]
                      IN  IF i = 1 THEN Mark[n] + (rest % Keeps[n]) ELSE 128 + (rest % 64)]

----------------------------------------------------------------------------
(* Checking.  INVALID and PARTIAL are -1 and -2 of the code.               *)
INVALID == -1
PARTIAL == -2

UTF8_LENGTH(c) ==
  IF c < 128 THEN 1 ELSE IF c < 2048 THEN 2 ELSE IF c < 65536 THEN 3
  ELSE IF c < 2097152 THEN 4 ELSE IF c < 67108864 THEN 5 ELSE 6

UNICODE_VALID(c) ==
  /\ c < 1114112
  /\ c \notin 55296..57343
  /\ c \notin 64976..65007
  /\ c % 65536 < 65534

\* Plausible bug: a longer encoding than needed is accepted.
ShortestNot(c, n) == TRUE

Shortest(c, n) == UTF8_LENGTH(c) = n

(* The first byte that should continue the character and does not decides. *)
BadBytes(s, n) == {i \in 2..n : ~IsContinuation(Byte(s, i))}
IsCut(s, bad) == \E i \in bad : Byte(s, i) = 0 /\ \A j \in bad : i <= j

get_char_extended(s, max) ==
  LET n == type(Byte(s, 1))
      bad == BadBytes(s, n)
  IN  IF n <= 0 THEN INVALID
      ELSE IF n = 1 THEN Byte(s, 1)
      ELSE IF max >= 0 /\ n > max THEN (IF \E i \in bad : i <= max THEN INVALID ELSE PARTIAL)
      ELSE IF bad # {} THEN (IF IsCut(s, bad) THEN PARTIAL ELSE INVALID)
      ELSE IF Shortest(Bits(s, n), n) THEN Bits(s, n) ELSE INVALID

get_char_validated(s, max) ==
  IF max = 0 THEN PARTIAL
  ELSE LET c == get_char_extended(s, max)
       IN  IF c >= 0 /\ ~UNICODE_VALID(c) THEN INVALID ELSE c

check_string(s) ==
  \A n \in 0..(strlen(s) - 1) : get_char_validated(get_nth_char(s, n), 6) \notin {INVALID, PARTIAL}

----------------------------------------------------------------------------
(* Bounded copies: whole characters only, and zeros behind them.           *)
Cut(s, bytes) ==
  LET ends == {Offset(s, n) : n \in 0..strlen(s)}
      fit == {i \in ends : i <= bytes}
  IN  CHOOSE i \in fit : \A j \in fit : j <= i

strncpy(s, bytes) ==
  LET cut == Cut(s, bytes)
  IN  [i \in 1..bytes |-> IF i <= cut THEN s[i] ELSE 0]

strnlen(s, bytes) ==
  LET cut == Cut(s, bytes)
  IN  CHOOSE n \in 0..strlen(s) : Offset(s, n) = cut

(* Compares n characters; where the first string has an ASCII character,   *)
(* byte by byte.                                                           *)
strncmp(s1, s2, n) ==
  LET Step(st) ==
        LET a == After(s1, st.at1)
            b == After(s2, st.at2)
            ascii == Byte(a, 1) < 128
            same == IF ascii THEN Byte(a, 1) = Byte(b, 1) ELSE get_char(a) = get_char(b)
        IN  IF ~same THEN [st EXCEPT !.done = TRUE, !.result = 1]
            ELSE IF Byte(a, 1) = 0 THEN [st EXCEPT !.done = TRUE]
            ELSE [st EXCEPT !.at1 = @ + char_len(a), !.at2 = @ + (IF ascii THEN 1 ELSE char_len(b))]
      run[i \in 0..n] ==
        IF i = 0 THEN [at1 |-> 0, at2 |-> 0, done |-> FALSE, result |-> 0]
        ELSE IF run[i - 1].done THEN run[i - 1] ELSE Step(run[i - 1])
  IN  run[n].result

----------------------------------------------------------------------------
(* ASCII parts: behind the last byte that is none, and from the first.     *)
get_ascii_partn(s, len) ==
  After(s, CHOOSE i \in 0..len : (i > 0 => Byte(s, i) > 127) /\ \A j \in (i + 1)..len : Byte(s, j) < 128)

get_ascii_endn(s, len) ==
  After(s, CHOOSE i \in 0..len : (i < len => Byte(s, i + 1) \notin 1..127) /\ \A j \in 1..i : Byte(s, j) \in 1..127)
=============================================================================
