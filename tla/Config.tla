---------------------------------- MODULE Config ----------------------------------
(***************************************************************************)
(* Configurations (lib/fcitx-config): the tree of values, its INI text,    *)
(* typed options and descriptions.                                         *)
(*                                                                         *)
(* A configuration is the sequence of its items in the order they were     *)
(* made, the root first.  An item is its path, a sequence of names, with   *)
(* its value: NOVALUE or a string.  A name is a string as in Strings.      *)
(***************************************************************************)
EXTENDS Strings, Keys
LOCAL INSTANCE Integers
LOCAL INSTANCE Sequences
LOCAL INSTANCE SequencesExt
LOCAL INSTANCE FiniteSetsExt
LOCAL INSTANCE FiniteSets

NOVALUE == <<"no value">>

Item(path, value, comment) == [path |-> path, value |-> value, comment |-> comment]

configuration_new == <<Item(<<>>, NOVALUE, NOVALUE)>>

At(config, path) == {i \in DOMAIN config : config[i].path = path}

(* _fcitx_configuration_get with createPath: every missing item on the way *)
(* is made.                                                                *)
CreatePath(config, path) ==
  FoldLeft(LAMBDA c, n :
             IF At(c, SubSeq(path, 1, n)) # {} THEN c ELSE Append(c, Item(SubSeq(path, 1, n), NOVALUE, NOVALUE)),
           config, [n \in DOMAIN path |-> n])

set_value_by_path(config, path, value) ==
  LET c == CreatePath(config, path) IN [c EXCEPT ![Min(At(c, path))].value = value]

get_value_by_path(config, path) ==
  IF At(config, path) = {} THEN NOVALUE ELSE config[Min(At(config, path))].value

set_comment(config, path, comment) == [config EXCEPT ![Min(At(config, path))].comment = comment]

(* An item goes with all below it.                                         *)
configuration_remove(config, path) == SelectSeq(config, LAMBDA x : ~IsPrefix(path, x.path))

(* The items directly below a path, in their order.                        *)
SubItems(config, path) ==
  SelectSeq(config, LAMBDA x : Len(x.path) = Len(path) + 1 /\ IsPrefix(path, x.path))

(* Sorting moves the items below one path among their places.              *)
configuration_sort(config, path, order) ==
  LET sub == SubItems(config, path)
      sorted == SortSeq(sub, LAMBDA x, y : <<y, x>> \notin order)
      Rank(i) == Cardinality({j \in 1..i : config[j] \in Range(sub)})
  IN  [i \in DOMAIN config |-> IF config[i] \in Range(sub) THEN sorted[Rank(i)] ELSE config[i]]

----------------------------------------------------------------------------
(***************************************************************************)
(* INI text: a sequence of lines.  A line names a group by its path, or    *)
(* gives an option its raw value, or is a comment.                         *)
(***************************************************************************)
QUOTE == "dquote"
GroupLine(path) == [kind |-> "group", path |-> path, raw |-> <<>>]
OptionLine(name, raw) == [kind |-> "option", path |-> <<name>>, raw |-> raw]
CommentLine(text) == [kind |-> "comment", path |-> <<>>, raw |-> text]

\* Plausible bug: only blanks inside the value make it quoted.
NeedQuoteInside(raw) == \E i \in 2..(Len(raw) - 1) : raw[i] \in SPACE \ {"nl"}

needQuote(raw) == \E i \in DOMAIN raw : raw[i] \in SPACE \ {"nl"}

ReplaceIn(raw, before, after) == string_replace(raw, <<before>>, after)

PrintedValue(value) ==
  LET escaped == ReplaceIn(ReplaceIn(value, BACKSLASH, <<BACKSLASH, BACKSLASH>>), "nl", <<BACKSLASH, "n">>)
  IN  IF needQuote(escaped)
      THEN <<QUOTE>> \o ReplaceIn(escaped, QUOTE, <<BACKSLASH, QUOTE>>) \o <<QUOTE>>
      ELSE escaped

PrintedOption(item) ==
  (IF item.comment # NOVALUE /\ "nl" \notin Range(item.comment) THEN <<CommentLine(item.comment)>> ELSE <<>>)
    \o <<OptionLine(Last(item.path), PrintedValue(item.value))>>

RECURSIVE PrintFrom(_, _)
(* A group with values below it, then each of its items as a group.        *)
PrintFrom(config, path) ==
  LET sub == SubItems(config, path)
      options == SelectSeq(sub, LAMBDA x : x.value # NOVALUE)
      header == IF path = <<>> THEN <<>> ELSE <<GroupLine(path)>>
  IN  (IF options = <<>> THEN <<>>
       ELSE header \o FlattenSeq([i \in DOMAIN options |-> PrintedOption(options[i])]))
        \o FlattenSeq([i \in DOMAIN sub |-> PrintFrom(config, sub[i].path)])

ini_print(config) == PrintFrom(config, <<>>)

----------------------------------------------------------------------------
(* Reading.  Unescaping fails on any other escape: FAILED.                 *)
FAILED == <<"failed">>

RECURSIVE unescape_string(_, _)
unescape_string(s, unescapeQuote) ==
  LET known == {BACKSLASH, "n"} \cup (IF unescapeQuote THEN {QUOTE} ELSE {})
      rest == unescape_string(SubSeq(s, 3, Len(s)), unescapeQuote)
      tail == unescape_string(Tail(s), unescapeQuote)
  IN  CASE s = <<>> -> <<>>
        [] s # <<>> /\ s[1] # BACKSLASH -> IF tail = FAILED THEN FAILED ELSE <<s[1]>> \o tail
        [] s # <<>> /\ s[1] = BACKSLASH /\ (Len(s) = 1 \/ s[2] \notin known) -> FAILED
        [] OTHER -> IF rest = FAILED THEN FAILED ELSE <<IF s[2] = "n" THEN "nl" ELSE s[2]>> \o rest

(* The line is trimmed; a value in quotes loses them.                      *)
ParsedValue(raw) ==
  LET text == SubSeq(raw, 1, trim_helper(<<"=">> \o raw).end - 1)
      quoted == Len(text) >= 2 /\ Head(text) = QUOTE /\ Last(text) = QUOTE
  IN  unescape_string(IF quoted THEN SubSeq(text, 2, Len(text) - 1) ELSE text, quoted)

ParseLine(st, line) ==
  CASE line.kind = "group" -> [st EXCEPT !.group = line.path]
    [] line.kind = "option" /\ ParsedValue(line.raw) # FAILED ->
         [st EXCEPT !.config = set_value_by_path(@, st.group \o line.path, ParsedValue(line.raw))]
    [] OTHER -> st

ini_parse(lines, config) == FoldLeft(ParseLine, [config |-> config, group |-> <<>>], lines).config

----------------------------------------------------------------------------
(***************************************************************************)
(* Options.  An option knows the text of its default and its constraint.   *)
(* A type has functions that read the text and write it.                   *)
(***************************************************************************)
WithDefault(config, path, default) ==
  IF get_value_by_path(config, path) = NOVALUE THEN default ELSE get_value_by_path(config, path)

TooLong(text, maxLength) == maxLength # 0 /\ Len(text) > maxLength

get_string(config, path, default, maxLength) ==
  LET text == WithDefault(config, path, default) IN IF TooLong(text, maxLength) THEN default ELSE text

DIGITS == <<"0", "1", "2", "3", "4", "5", "6", "7", "8", "9", "a", "b", "c", "d", "e", "f">>
UPPER == <<"A", "B", "C", "D", "E", "F">>
IsDigit(c) == \E d \in 1..10 : DIGITS[d] = c
DigitOf(c) ==
  (IF \E d \in DOMAIN DIGITS : DIGITS[d] = c THEN CHOOSE d \in DOMAIN DIGITS : DIGITS[d] = c
   ELSE 10 + CHOOSE d \in DOMAIN UPPER : UPPER[d] = c) - 1

(* sprintf and atoi.                                                       *)
RECURSIVE Decimal(_)
Decimal(n) ==
  CASE n < 0 -> <<"-">> \o Decimal(-n)
    [] n \in 0..9 -> <<DIGITS[n + 1]>>
    [] OTHER -> Decimal(n \div 10) \o <<DIGITS[(n % 10) + 1]>>

atoi(text) ==
  LET s == From(text, spn(text, SPACE) + 1)
      signed == s # <<>> /\ s[1] \in {"-", "+"}
      digits == IF signed THEN Tail(s) ELSE s
      n == spn(digits, {DIGITS[d] : d \in 1..10})
      value == FoldLeft(LAMBDA v, c : 10 * v + DigitOf(c), 0, SubSeq(digits, 1, n))
  IN  IF signed /\ s[1] = "-" THEN -value ELSE value

get_integer(config, path, default, min, max) ==
  LET value == atoi(WithDefault(config, path, default)) IN IF value \in min..max THEN value ELSE atoi(default)

set_integer(config, path, value) == set_value_by_path(config, path, Decimal(value))

TRUE_TEXT == <<"T", "r", "u", "e">>
FALSE_TEXT == <<"F", "a", "l", "s", "e">>
get_boolean(config, path, default) == WithDefault(config, path, default) = TRUE_TEXT
set_boolean(config, path, b) == set_value_by_path(config, path, IF b THEN TRUE_TEXT ELSE FALSE_TEXT)

(* The terminator is "end".                                                *)
get_char_option(config, path, default) == Head(WithDefault(config, path, default) \o <<"end">>)
set_char_option(config, path, c) == set_value_by_path(config, path, IF c = "end" THEN <<>> ELSE <<c>>)

(* Numbers from 0.                                                         *)
get_enum(config, path, default, enumStrings) ==
  LET text == get_value_by_path(config, path)
      at == {i \in DOMAIN enumStrings : enumStrings[i] = text}
  IN  IF text = NOVALUE \/ at = {} THEN default ELSE Min(at) - 1

set_enum(config, path, value, enumStrings) ==
  IF value >= Len(enumStrings) THEN config ELSE set_value_by_path(config, path, enumStrings[value + 1])

(* The value of a key option is the sequence of the texts of its keys.     *)
get_key(config, path, default) == key_list_parse(WithDefault(config, path, default))
set_key(config, path, list) == set_value_by_path(config, path, key_list_to_string(list))

(* Lists: items named 0, 1, ... up to the first that is missing.  What is  *)
(* there already beyond the length of the list stays.  The elements are    *)
(* the texts that the callbacks load and store.                            *)
get_list(config, path) ==
  LET Path(i) == Append(path, Decimal(i))
      missing == {i \in 0..Len(config) : At(config, Path(i)) = {}}
  IN  [i \in 1..Min(missing) |-> get_value_by_path(config, Path(i - 1))]

set_list(config, path, list) ==
  FoldLeft(LAMBDA c, i : set_value_by_path(c, Append(path, Decimal(i - 1)), list[i]),
           CreatePath(config, path), [i \in DOMAIN list |-> i])

----------------------------------------------------------------------------
(* Colours: red, green, blue and alpha in units of 1/255.                  *)
HexByte(v) == <<DIGITS[(v \div 16) + 1], DIGITS[(v % 16) + 1]>>
RoundColor(v) == Max({0, Min({v, 255})})

color_to_string(color) == <<"#">> \o FlattenSeq([i \in 1..4 |-> HexByte(RoundColor(color[i]))])

NOCOLOR == <<>>

(* The form without "#" is read by sscanf; only numbers that blanks part   *)
(* are considered.                                                         *)
color_parse(text) ==
  LET s == From(text, spn(text, SPACE) + 1)
      digits == Tail(s)
      len == spn(digits, Range(DIGITS) \cup Range(UPPER))
      fields == split_full(s, SPACE, FALSE)
      rgb == [i \in 1..3 |-> atoi(fields[i])]
  IN  IF s # <<>> /\ s[1] = "#"
      THEN IF len # 8 THEN NOCOLOR
           ELSE [i \in 1..4 |-> 16 * DigitOf(digits[2 * i - 1]) + DigitOf(digits[2 * i])]
      ELSE IF Len(fields) < 3 \/ \E i \in 1..3 : ~IsDigit(fields[i][1]) \/ rgb[i] > 255 THEN NOCOLOR
           ELSE Append(rgb, 255)

BLACK == <<0, 0, 0, 255>>

get_color(config, path, default) ==
  LET parsed == color_parse(WithDefault(config, path, default))
  IN  CASE parsed # NOCOLOR -> parsed
        [] parsed = NOCOLOR /\ color_parse(default) # NOCOLOR -> color_parse(default)
        [] OTHER -> BLACK

set_color(config, path, color) == set_value_by_path(config, path, color_to_string(color))

----------------------------------------------------------------------------
(***************************************************************************)
(* Translated strings: a function from locales to texts, the empty locale  *)
(* for the text itself.  The translations of Name are the top-level items  *)
(* Name[locale]; below a group they are written but not found again.       *)
(***************************************************************************)
Translated(name, locale) == name \o <<"[">> \o locale \o <<"]">>

get_i18n_string(config, path, default) ==
  LET name == IF Len(path) = 1 THEN path[1] ELSE <<>>
      Locale(x) == SubSeq(x.path[1], Len(name) + 2, Len(x.path[1]) - 1)
      found == {x \in Range(SubItems(config, <<>>)) :
                  /\ x.value # NOVALUE
                  /\ Len(path) = 1
                  /\ IsPrefix(Append(name, "["), x.path[1])
                  /\ Last(x.path[1]) = "]"}
  IN  [l \in {<<>>} \cup {Locale(x) : x \in found} |->
         IF \E x \in found : Locale(x) = l THEN (CHOOSE x \in found : Locale(x) = l).value
         ELSE WithDefault(config, path, default)]

set_i18n_string(config, path, str) ==
  FoldLeft(LAMBDA c, l :
             set_value_by_path(c, IF l = <<>> THEN path ELSE Append(Front(path), Translated(Last(path), l)), str[l]),
           config, SetToSeq(DOMAIN str))

----------------------------------------------------------------------------
(* Descriptions: the structures of a file and which of them no list is     *)
(* made of.  The types are names.                                          *)
is_builtin_type(text) ==
  text \in {<<"Integer">>, <<"String">>, <<"File">>, <<"Font">>, <<"Boolean">>, <<"Char">>, <<"Enum">>,
            <<"I18NString">>, <<"Hotkey">>, <<"Color">>, <<"List">>}

find_structs(config) ==
  {x.path[1] : x \in Range(SubItems(config, <<>>))} \ {<<"DescriptionFile">>}

(* An error stops the checks that would follow.                            *)
struct_attribute(config, structs, st, item) ==
  LET type_ == get_value_by_path(config, Append(item.path, <<"Type">>))
      sub == get_value_by_path(config, Append(item.path, <<"SubType">>))
  IN  CASE st.error -> st
        [] ~st.error /\ ~is_builtin_type(type_) -> [st EXCEPT !.error = TRUE]
        [] ~st.error /\ is_builtin_type(type_) /\ type_ # <<"List">> -> st
        [] OTHER -> IF sub \in {NOVALUE, <<"List">>} \/ (~is_builtin_type(sub) /\ sub \notin structs)
                    THEN [st EXCEPT !.error = TRUE] ELSE [st EXCEPT !.top = @ \ {sub}]

description_parse(config) ==
  LET structs == find_structs(config)
      top == SelectSeq(SubItems(config, <<>>), LAMBDA x : x.path[1] \in structs)
      attributes == FlattenSeq([i \in DOMAIN top |-> SubItems(config, top[i].path)])
  IN  FoldLeft(LAMBDA st, x : struct_attribute(config, structs, st, x),
               [top |-> structs, error |-> FALSE], attributes)
=============================================================================
