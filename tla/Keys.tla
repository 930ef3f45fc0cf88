---------------------------------- MODULE Keys ----------------------------------
(***************************************************************************)
(* Keys, their names and hotkeys (lib/fcitx-utils/key.c).  A key is a key  *)
(* symbol with a set of states.  The tables (keysymgen.h, keynametable.h,  *)
(* keynametable-compat.h, keydata.h) have thousands of rows; the ones here *)
(* are those at the ends of the tables and of the ranges the code tests.   *)
(*                                                                         *)
(* The text of a key is a sequence of words: modifiers such as "Control+"  *)
(* and a name.                                                             *)
(***************************************************************************)
LOCAL INSTANCE Integers
LOCAL INSTANCE Sequences
LOCAL INSTANCE SequencesExt
LOCAL INSTANCE FiniteSetsExt
LOCAL INSTANCE TLC
U == INSTANCE Utf8

FcitxKey ==
  [None |-> 0, space |-> 32, exclam |-> 33, A |-> 65, Z |-> 90, a |-> 97, z |-> 122, asciitilde |-> 126,
   Aogonek |-> 417, Hangul_AraeAE |-> 3831, EuroSign |-> 8364, ISO_Left_Tab |-> 65056, BackSpace |-> 65288,
   Tab |-> 65289, Return |-> 65293, Left |-> 65361, Page_Up |-> 65365, KP_0 |-> 65456, KP_9 |-> 65465,
   F4 |-> 65473, Shift_L |-> 65505, Shift_R |-> 65506, Control_L |-> 65507, Control_R |-> 65508,
   Alt_L |-> 65513, Super_L |-> 65515, Hyper_L |-> 65517, Delete |-> 65535]

State == {"Shift", "CapsLock", "Ctrl", "Alt", "NumLock", "Super", "Hyper"}

KEY(sym, state) == [sym |-> sym, state |-> state]

----------------------------------------------------------------------------
(* Tables, each sorted by what it is searched by.                          *)
keyNameList == DOMAIN FcitxKey
keyValueByNameOffset(name) == FcitxKey[name]
keyNameOffsetByValue(sym) == {n \in keyNameList : FcitxKey[n] = sym}
keyNameListCompat == [ENTER |-> FcitxKey.Return, LCTRL |-> FcitxKey.Control_L, DELETE |-> FcitxKey.Delete]

keysym_to_unicode_tab ==
  << <<417, 260>>, <<3831, 12686>>, <<8364, 8364>>, <<65288, 8>>, <<65289, 9>>,
     <<65293, 13>>, <<65456, 48>>, <<65465, 57>>, <<65535, 127>> >>

unicode_to_keysym_tab ==
  << <<2749, 46>>, <<417, 260>>, <<8364, 8364>>, <<3830, 12685>>, <<3831, 12686>> >>

----------------------------------------------------------------------------
(* Symbols and Unicode.                                                    *)
RowsLeft(min, max) == max >= min

RECURSIVE BinarySearch(_, _, _, _, _)
(* The row of a table whose col-th field is v, 0 if there is none.         *)
BinarySearch(tab, col, v, min, max) ==
  LET mid == (min + max) \div 2
  IN  CASE ~RowsLeft(min, max) -> 0
        [] RowsLeft(min, max) /\ tab[mid][col] < v -> BinarySearch(tab, col, v, mid + 1, max)
        [] RowsLeft(min, max) /\ tab[mid][col] > v -> BinarySearch(tab, col, v, min, mid - 1)
        [] OTHER -> mid

Latin1 == (32..126) \cup (160..255)
DIRECT == 16777216

keysym_to_unicode(sym) ==
  LET row == BinarySearch(keysym_to_unicode_tab, 1, sym, 1, Len(keysym_to_unicode_tab))
  IN  CASE sym \in Latin1 -> sym
        [] sym \div DIRECT = 1 -> sym % DIRECT
        [] OTHER -> IF row = 0 THEN 0 ELSE keysym_to_unicode_tab[row][2]

keysym_from_unicode(wc) ==
  LET row == BinarySearch(unicode_to_keysym_tab, 2, wc, 1, Len(unicode_to_keysym_tab))
  IN  CASE wc \in Latin1 -> wc
        [] wc \notin Latin1 /\ row # 0 -> unicode_to_keysym_tab[row][1]
        [] OTHER -> DIRECT + (wc % DIRECT)

----------------------------------------------------------------------------
(* Symbols and names.  A name no table has may be one UTF-8 character: a   *)
(* sequence of bytes here.                                                 *)
keysym_to_string(sym) == keyNameOffsetByValue(sym)

keysym_from_string(name) ==
  CASE name \in keyNameList -> keyValueByNameOffset(name)
    [] name \in DOMAIN keyNameListCompat -> keyNameListCompat[name]
    [] OTHER -> FcitxKey.None

keysym_from_char(bytes) ==
  LET chr == U!get_char_validated(bytes, 6)
  IN  CASE U!strlen(bytes) # 1 \/ chr <= 0 -> FcitxKey.None
        [] U!strlen(bytes) = 1 /\ chr > 0 /\ U!char_len(bytes) = 1 -> bytes[1]
        [] OTHER -> keysym_from_unicode(chr)

----------------------------------------------------------------------------
(* Kinds of keys.                                                          *)
is_digit(key) == key.state = {} /\ key.sym \in 48..57
is_uaz(key) == key.state = {} /\ key.sym \in FcitxKey.A..FcitxKey.Z
is_laz(key) == key.state = {} /\ key.sym \in FcitxKey.a..FcitxKey.z
is_simple(key) == key.state = {} /\ key.sym \in FcitxKey.space..FcitxKey.asciitilde
is_cursor_move(key) ==
  /\ key.sym \in (65360..65367)
  /\ key.state \subseteq {"Ctrl", "Shift"}

keysym_to_state(sym) ==
  CASE sym \in {FcitxKey.Control_L, FcitxKey.Control_R} -> {"Ctrl"}
    [] sym = FcitxKey.Alt_L -> {"Alt"}
    [] sym \in {FcitxKey.Shift_L, FcitxKey.Shift_R} -> {"Shift"}
    [] sym = FcitxKey.Super_L -> {"Super"}
    [] sym = FcitxKey.Hyper_L -> {"Hyper"}
    [] OTHER -> {}

is_modifier(key) == keysym_to_state(key.sym) # {}

----------------------------------------------------------------------------
(* Normalisation: letters with modifiers become capitals, and Shift goes   *)
(* where it made the character.  A lock counts as a modifier.              *)
Capital(key) ==
  IF key.state # {"Shift"} /\ is_laz(KEY(key.sym, {}))
  THEN [key EXCEPT !.sym = @ + FcitxKey.A - FcitxKey.a] ELSE key

ShiftIsSpent(key) ==
  LET bare == KEY(key.sym, {})
  IN  IF is_laz(bare) \/ is_uaz(bare) THEN key.state = {"Shift"}
      ELSE \/ /\ is_simple(bare) \/ keysym_to_unicode(key.sym) # 0
              /\ key.sym \notin {FcitxKey.space, FcitxKey.Return}
           \/ key.sym \in FcitxKey.KP_0..FcitxKey.KP_9

Unshift(key) == IF ShiftIsSpent(key) THEN [key EXCEPT !.state = @ \ {"Shift"}] ELSE key

TabByOneName(key) ==
  IF key.sym = FcitxKey.ISO_Left_Tab THEN [key EXCEPT !.sym = FcitxKey.Tab] ELSE key

key_normalize(key) ==
  TabByOneName(IF key.state = {} THEN key ELSE Unshift(Capital(key)))

----------------------------------------------------------------------------
(* Text of keys.                                                           *)
Modifier == << <<"Control+", "Ctrl">>, <<"Alt+", "Alt">>, <<"Shift+", "Shift">>, <<"Super+", "Super">> >>
OldModifier == << <<"CTRL_", "Ctrl">>, <<"ALT_", "Alt">>, <<"SHIFT_", "Shift">>, <<"SUPER_", "Super">> >>

(* NULL is the empty sequence.                                             *)
key_to_string(key) ==
  LET names == keysym_to_string(IF key.sym = FcitxKey.ISO_Left_Tab THEN FcitxKey.Tab ELSE key.sym)
      mods == SelectSeq(Modifier, LAMBDA m : m[2] \in key.state)
  IN  IF key.sym = FcitxKey.None \/ names = {} THEN <<>>
      ELSE [i \in 1..Len(mods) |-> mods[i][1]] \o <<CHOOSE n \in names : TRUE>>

\* Plausible bug: the name is looked for behind the first modifier.
NameStartFirst(found) == IF found = {} THEN 1 ELSE Min(found) + 1

NameStart(found) == IF found = {} THEN 1 ELSE Max(found) + 1

(* Each modifier is searched once, from the start; the name is what        *)
(* follows the last one found.                                             *)
key_parse(text) ==
  LET table == Modifier \o OldModifier
      At(m) == {i \in DOMAIN text : text[i] = m[1]}
      here == {m \in Range(table) : At(m) # {}}
      name == SubSeq(text, NameStart({Min(At(m)) : m \in here}), Len(text))
  IN  KEY(IF Len(name) = 1 THEN keysym_from_string(name[1]) ELSE FcitxKey.None, {m[2] : m \in here})

----------------------------------------------------------------------------
(* Matching a key that was pressed against one that is configured.  The    *)
(* second try for modifiers adds the state that belongs to the number of   *)
(* the state, not of the symbol: always none.                              *)
key_check(toCheck, key) ==
  IF is_modifier(key)
  THEN toCheck.sym = key.sym /\ toCheck.state \in {key.state \ keysym_to_state(key.sym), key.state}
  ELSE /\ toCheck.sym = key.sym
       /\ toCheck.state \cap {"Ctrl", "Alt", "Shift", "Super"} = key.state

(* Hotkey lists; entries without a known name are skipped.                 *)
key_list_parse(texts) ==
  SelectSeq([i \in DOMAIN texts |-> key_parse(texts[i])], LAMBDA k : k.sym # FcitxKey.None)

key_list_to_string(list) ==
  SelectSeq([i \in DOMAIN list |-> key_to_string(list[i])], LAMBDA t : t # <<>>)

key_list_check(list, key) == \E i \in DOMAIN list : key_check(key, list[i])
=============================================================================
