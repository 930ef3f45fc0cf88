--------------------------------- MODULE Strings ---------------------------------
(***************************************************************************)
(* Strings as lib/fcitx-utils/stringutils.c and stringlist.c handle them.  *)
(* A string is the sequence of its characters up to the terminator; a      *)
(* character is named by a string: "a", or "nl" for a newline.             *)
(***************************************************************************)
LOCAL INSTANCE Integers
LOCAL INSTANCE Sequences
LOCAL INSTANCE SequencesExt
LOCAL INSTANCE FiniteSetsExt

CONSTANTS
  MAX_REPLACE,  \* MAX_REPLACE_INDICES_NUM, 128 in the code
  HASHBITS,     \* the width of the rolling hash, 32 in the code
  CodeOf        \* characters to the numbers the hash is made of

From(s, i) == SubSeq(s, i, Len(s))

(* strcspn, strspn: how many characters before the first one in, or not    *)
(* in, the set.                                                            *)
cspn(s, set) ==
  LET hit == {i \in DOMAIN s : s[i] \in set} IN IF hit = {} THEN Len(s) ELSE Min(hit) - 1

spn(s, set) ==
  LET hit == {i \in DOMAIN s : s[i] \notin set} IN IF hit = {} THEN Len(s) ELSE Min(hit) - 1

----------------------------------------------------------------------------
(* Escapes.                                                                *)
LetterOf == [bel |-> "a", bsp |-> "b", ff |-> "f", nl |-> "n",
             cr |-> "r", tab |-> "t", esc |-> "e", vt |-> "v"]

BACKSLASH == "bslash"
NEED_ESCAPE == DOMAIN LetterOf \cup {"squote", "dquote", BACKSLASH}

escape_char(c) == IF c \in DOMAIN LetterOf THEN LetterOf[c] ELSE c

unescape_char(c) ==
  IF \E d \in DOMAIN LetterOf : LetterOf[d] = c
  THEN CHOOSE d \in DOMAIN LetterOf : LetterOf[d] = c
  ELSE c

set_escape_str_with_set(s, set) ==
  FlattenSeq([i \in DOMAIN s |->
    IF s[i] \in set THEN <<BACKSLASH, escape_char(s[i])>> ELSE <<s[i]>>])

(* What is left once a backslash and the character after it are read.      *)
UnescapeRest(s) == Tail(Tail(s))

(* A backslash at the end makes the code read past the terminator: the     *)
(* operator is for strings without one.                                    *)
RECURSIVE set_unescape_str(_)
set_unescape_str(s) ==
  CASE s = <<>> -> <<>>
    [] s # <<>> /\ Head(s) # BACKSLASH -> <<Head(s)>> \o set_unescape_str(Tail(s))
    [] OTHER -> <<unescape_char(Head(Tail(s)))>> \o set_unescape_str(UnescapeRest(s))

----------------------------------------------------------------------------
(* Joins.                                                                  *)
str_lens(strs) == FoldLeft(LAMBDA n, s : n + Len(s), 0, strs) + 1

cat_str(strs) == FlattenSeq(strs)

Room(out, s, len) == Min({Len(s), len - 1 - Len(out)})

cat_str_with_len(strs, len) ==
  FoldLeft(LAMBDA out, s : out \o SubSeq(s, 1, Room(out, s, len)), <<>>, strs)

----------------------------------------------------------------------------
(* Trimming.  trim copies from the start of the string, not from the first *)
(* character that is no space: only inplace_trim drops leading spaces.     *)
SPACE == {"ff", "nl", "cr", "tab", "vt", " "}

trim_helper(s) ==
  LET start == spn(s, SPACE) + 1
      kept == {i \in start..Len(s) : s[i] \notin SPACE}
  IN  [start |-> start, end |-> IF kept = {} THEN start - 1 ELSE Max(kept)]

trim(s) == SubSeq(s, 1, trim_helper(s).end)

inplace_trim(s) == SubSeq(s, trim_helper(s).start, trim_helper(s).end)

----------------------------------------------------------------------------
(***************************************************************************)
(* Searching.  NULL is -1, an address its offset from the start.           *)
(* backward_search compares a rolling hash of the window before it         *)
(* compares the characters; REHASH takes the character that leaves on the  *)
(* right out of the hash, unless the shift has thrown it out already.      *)
(***************************************************************************)
NULL == -1

Mod(h) == h % 2^HASHBITS

\* Plausible bug: the character that leaves the window stays in the hash.
RehashKeeps(h, leaving, ol) == Mod(2 * h)

REHASH(h, leaving, ol) ==
  Mod(2 * (IF ol - 1 < HASHBITS THEN h - CodeOf[leaving] * 2^(ol - 1) ELSE h))

Hash(s) == FoldRight(LAMBDA c, h : Mod(2 * h + CodeOf[c]), s, 0)

RECURSIVE SearchFrom(_, _, _, _)
(* The loop of backward_search: hash is that of the window at i without    *)
(* its first character.                                                    *)
SearchFrom(s, needle, i, hash) ==
  LET ol == Len(needle)
      h == Mod(hash + CodeOf[s[i + 1]])
  IN  CASE h = Hash(needle) /\ SubSeq(s, i + 1, i + ol) = needle -> i
        [] i = 0 -> NULL
        [] OTHER -> SearchFrom(s, needle, i - 1, REHASH(h, s[i + ol], ol))

(* For needles that are not empty.                                         *)
backward_search(s, needle, from) ==
  LET l == Len(s)  ol == Len(needle)
      i == Min({from, l - ol})
      window == SubSeq(s, i + 1, i + ol)
  IN  IF ol > l \/ from > l THEN NULL
      ELSE SearchFrom(s, needle, i, Mod(Hash(window) - CodeOf[window[1]]))

(* Longer needles are searched from 0, so only found at the start.         *)
strrstr(s, needle) ==
  CASE needle = <<>> -> NULL
    [] Len(needle) = 1 ->
         LET at == {i \in DOMAIN s : s[i] = needle[1]} IN IF at = {} THEN NULL ELSE Max(at) - 1
    [] OTHER -> backward_search(s, needle, 0)

string_starts_with(s, needle) == IsPrefix(needle, s)
string_ends_with(s, needle) == IsSuffix(needle, s)

----------------------------------------------------------------------------
(* Replacing.                                                              *)
RECURSIVE Matches(_, _, _)
(* The offsets strstr finds, each search going on behind the last match.   *)
Matches(s, before, from) ==
  LET at == {i \in from..(Len(s) - Len(before)) : SubSeq(s, i + 1, i + Len(before)) = before}
  IN  IF at = {} THEN <<>> ELSE <<Min(at)>> \o Matches(s, before, Min(at) + Len(before))

(* What is copied for the text before the i-th match: where a batch of     *)
(* matches begins that text itself, inside a batch the same number of      *)
(* characters from behind the match.  Past the end of the string they are  *)
(* whatever is in memory there, of which "end" is the first.               *)
GapBefore(s, before, m, i) ==
  LET start == IF i = 1 THEN 0 ELSE m[i - 1] + Len(before)
      source == IF (i - 1) % MAX_REPLACE = 0 THEN start ELSE m[i] + Len(before)
  IN  [k \in 1..(m[i] - start) |-> IF source + k \in DOMAIN s THEN s[source + k] ELSE "end"]

(* The result; NULL is left to the caller where nothing matches.           *)
string_replace(s, before, after) ==
  IF before = <<>> THEN s
  ELSE LET m == Matches(s, before, 0)
           rest == IF m = <<>> THEN 0 ELSE m[Len(m)] + Len(before)
           all == FlattenSeq([i \in DOMAIN m |-> GapBefore(s, before, m, i) \o after])
                    \o From(s, rest + 1)
       IN  SubSeq(all, 1, cspn(all, {"end"}))

----------------------------------------------------------------------------
(* Lists of strings.                                                       *)
RECURSIVE split_full(_, _, _)
(* The last field is dropped when it is empty, be keepEmpty or not.        *)
split_full(s, delims, keepEmpty) ==
  LET len == cspn(s, delims)
      field == SubSeq(s, 1, len)
  IN  IF len = Len(s) THEN (IF len = 0 THEN <<>> ELSE <<field>>)
      ELSE (IF keepEmpty \/ len > 0 THEN <<field>> ELSE <<>>)
             \o split_full(From(s, len + 2), delims, keepEmpty)

join(list, delim) ==
  Front(FlattenSeq([i \in DOMAIN list |-> Append(list[i], delim)]) \o (IF list = <<>> THEN <<delim>> ELSE <<>>))

contains(list, s) == \E i \in DOMAIN list : list[i] = s

----------------------------------------------------------------------------
(* Maps to booleans (stringmap.c), in the order the keys were added.       *)
COLON == ":"
TEXT(value) == IF value THEN <<"t", "r", "u", "e">> ELSE <<"f", "a", "l", "s", "e">>

string_map_get(map, key, default) ==
  LET at == {i \in DOMAIN map : map[i].key = key} IN IF at = {} THEN default ELSE map[Min(at)].value

string_map_set(map, key, value) ==
  IF \E i \in DOMAIN map : map[i].key = key
  THEN [i \in DOMAIN map |-> IF map[i].key = key THEN [map[i] EXCEPT !.value = value] ELSE map[i]]
  ELSE Append(map, [key |-> key, value |-> value])

string_map_remove(map, key) == SelectSeq(map, LAMBDA e : e.key # key)

string_map_to_string(map, delim) ==
  join([i \in DOMAIN map |-> map[i].key \o <<COLON>> \o TEXT(map[i].value)], delim)

IsPair(parts) == Len(parts) = 2

(* What the map had before goes.                                           *)
string_map_from_string(str, delim) ==
  FoldLeft(LAMBDA map, s :
             LET parts == split_full(s, {COLON}, TRUE)
             IN  IF IsPair(parts) THEN string_map_set(map, parts[1], parts[2] = TEXT(TRUE)) ELSE map,
           <<>>, split_full(str, {delim}, TRUE))

(* Sets (stringhashset.c): a string is not added twice.                    *)
string_hashset_insert(set, s) == IF contains(set, s) THEN set ELSE Append(set, s)

string_hashset_parse(str, delim) ==
  FoldLeft(string_hashset_insert, <<>>, split_full(str, {delim}, TRUE))

string_hashset_join(set, delim) == join(set, delim)

----------------------------------------------------------------------------
(* Numbers in files (misc.c), always little-endian.  A number is its bytes *)
(* from the least significant one; a host has them in memory in its order. *)
Memory(order, num) == IF order = "little" THEN num ELSE Reverse(num)
htole(order, num) == IF order = "little" THEN num ELSE Reverse(num)

write_uint(order, num) == Memory(order, htole(order, num))

(* Of a file that ends before the first byte nothing is read, and the      *)
(* number is 0.  One that ends within the number is not considered.        *)
read_uint(order, file, width) ==
  IF Len(file) < width THEN [size |-> 0, value |-> [i \in 1..width |-> 0], rest |-> file]
  ELSE [size |-> 1, value |-> htole(order, Memory(order, SubSeq(file, 1, width))),
        rest |-> SubSeq(file, width + 1, Len(file))]

----------------------------------------------------------------------------
(* Formatted text (lib/fcitx/ui.c): pieces with a format each.             *)
text_append(text, flag, s) == Append(text, [format |-> flag, string |-> s])
text_to_string(text) == FlattenSeq([i \in DOMAIN text |-> text[i].string])
=============================================================================
