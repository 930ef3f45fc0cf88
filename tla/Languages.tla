-------------------------------- MODULE Languages --------------------------------
(***************************************************************************)
(* Keyboard layouts and languages: the reader of the XKB rules             *)
(* (lib/fcitx/rules.c), ISO codes (lib/fcitx/isocodes.c), the choice of a  *)
(* translation (lib/fcitx-utils/i18nstring.c) and the groups of input      *)
(* methods (lib/fcitx/ime.c).  NONE is a NULL pointer.                     *)
(***************************************************************************)
EXTENDS Strings
LOCAL INSTANCE Integers
LOCAL INSTANCE Sequences
LOCAL INSTANCE SequencesExt
LOCAL INSTANCE FiniteSetsExt

CONSTANT LOCALE_MAX  \* the longest locale that is considered, 64 in the code

NONE == "none"

----------------------------------------------------------------------------
(***************************************************************************)
(* Translations.  A locale is language[_TERRITORY][.codeset][@modifier];   *)
(* it is cut into the parts a translation may be stored under.             *)
(***************************************************************************)
CAPITALS == {"C", "N", "T", "W"}
CODESET == CAPITALS \cup {"u", "t", "f", "8", "_", "-"}

Begins(s, c) == s # <<>> /\ s[1] = c

LocaleParts(locale) ==
  LET s == SubSeq(locale, 1, Min({Len(locale), LOCALE_MAX}))
      n1 == cspn(s, SPACE \cup {"_", ".", "@"})
      r1 == From(s, n1 + 1)
      n2 == IF Begins(r1, "_") THEN 1 + spn(Tail(r1), CAPITALS) ELSE 0
      r2 == From(r1, n2 + 1)
      n3 == IF Begins(r2, ".") THEN 1 + spn(Tail(r2), CODESET) ELSE 0
      r3 == From(r2, n3 + 1)
      modifier == IF Begins(r3, "@") THEN r3 ELSE <<>>
      Full(n) == n = LOCALE_MAX
  IN  [language |-> SubSeq(s, 1, n1),
       territory |-> IF n2 = 0 THEN <<>> ELSE SubSeq(s, 1, n1 + n2),
       modifier |-> IF modifier = <<>> THEN <<>> ELSE SubSeq(s, 1, n1 + n2) \o modifier,
       failed |-> \/ n1 = 0
                  \/ Full(n1)
                  \/ n2 > 0 /\ Full(n1 + n2)
                  \/ modifier # <<>> /\ Full(n1 + n2 + n3 + Len(modifier))]

Candidates(p) == <<p.modifier, p.territory, p.language>>

(* The keys are looked up in this order; an empty one is the last resort.  *)
i18n_string_match(str, locale) ==
  LET p == LocaleParts(locale)
      keys == IF p.failed THEN <<>> ELSE Candidates(p)
      hits == {i \in DOMAIN keys : keys[i] # <<>> /\ keys[i] \in DOMAIN str}
  IN  IF hits # {} THEN str[keys[Min(hits)]]
      ELSE IF <<>> \in DOMAIN str THEN str[<<>>] ELSE NONE

----------------------------------------------------------------------------
(* ISO codes: an entry has a 2B, a 2T and perhaps a two-letter code, each  *)
(* a sequence of letters.  The last entry added under a code comes first.  *)
IsComplete(entry) == entry.code2B # <<>> /\ entry.code2T # <<>> /\ entry.name # <<>>

Add639(codes, entry) == IF IsComplete(entry) THEN Append(codes, entry) ELSE codes

isocodes_new(entries) == FoldLeft(Add639, <<>>, entries)

Latest(at) == IF at = {} THEN 0 ELSE Max(at)

(* The number of the entry, 0 if there is none.                            *)
GetEntry(codes, lang) ==
  LET b == {i \in DOMAIN codes : codes[i].code2B = lang}
      t == {i \in DOMAIN codes : codes[i].code2T = lang}
  IN  IF b # {} THEN Latest(b) ELSE Latest(t)

CodeOfEntry(entry) == IF entry.code1 # <<>> THEN entry.code1 ELSE entry.code2T

(* How many letters of the hint agree, from the length of the code down to *)
(* two.                                                                    *)
Score(hint, code) ==
  LET agree == {n \in 2..Len(code) : Len(hint) >= n /\ SubSeq(hint, 1, n) = SubSeq(code, 1, n)}
  IN  IF agree = {} THEN 1 ELSE Max(agree)

BetterStep(codes, hint, best, lang) ==
  LET e == GetEntry(codes, lang)
      code == CodeOfEntry(codes[e])
  IN  IF e = 0 THEN best
      ELSE IF Len(code) \in {2, 3} /\ Score(hint, code) > best.score
           THEN [code |-> code, score |-> Score(hint, code)] ELSE best

isocodes_find_best(codes, hint, languages) ==
  FoldLeft(LAMBDA best, lang : BetterStep(codes, hint, best, lang), [code |-> <<>>, score |-> 0], languages).code

----------------------------------------------------------------------------
(***************************************************************************)
(* The XKB rules.  The handlers of the parser get the start and the end of *)
(* elements and the text inside them, and keep the path of open elements.  *)
(* A text is taken to arrive in one piece: of several, the last would stay.*)
(***************************************************************************)
NewLayout == [name |-> NONE, description |-> NONE, languages |-> <<>>, variants |-> <<>>]
NewVariant == [name |-> NONE, description |-> NONE, languages |-> <<>>]
NewModel == [name |-> NONE, description |-> NONE, vendor |-> NONE]
NewOptionGroup == [name |-> NONE, description |-> NONE, exclusive |-> FALSE, options |-> <<>>]
NewOption == [name |-> NONE, description |-> NONE]
NewRules == [layouts |-> <<>>, models |-> <<>>, groups |-> <<>>]

LAYOUT == <<"layoutList", "layout">>
VARIANT == LAYOUT \o <<"variantList", "variant">>
MODEL == <<"modelList", "model">>
GROUP == <<"optionList", "group">>
OPTION == GROUP \o <<"option">>

StartElement(st, name, multiple) ==
  LET path == Append(st.path, name)
      Is(p) == IsSuffix(p, path)
      r == st.rules
      rules ==
        CASE Is(Append(LAYOUT, "configItem")) -> [r EXCEPT !.layouts = Append(@, NewLayout)]
          [] Is(VARIANT) -> [r EXCEPT !.layouts[Len(r.layouts)].variants = Append(@, NewVariant)]
          [] Is(MODEL) -> [r EXCEPT !.models = Append(@, NewModel)]
          [] Is(GROUP) -> [r EXCEPT !.groups = Append(@, [NewOptionGroup EXCEPT !.exclusive = ~multiple])]
          [] Is(OPTION) -> [r EXCEPT !.groups[Len(r.groups)].options = Append(@, NewOption)]
          [] OTHER -> r
  IN  [path |-> path, rules |-> rules]

EndElement(st) == [st EXCEPT !.path = Front(@)]

Characters(st, text) ==
  LET r == st.rules
      Is(p, field) == IsSuffix(p \o <<"configItem">> \o field, st.path)
      l == Len(r.layouts)
      g == Len(r.groups)
      m == Len(r.models)
      v == Len(r.layouts[l].variants)
      o == Len(r.groups[g].options)
      lang == <<"languageList", "iso639Id">>
      rules ==
        CASE Is(LAYOUT, <<"name">>) -> [r EXCEPT !.layouts[l].name = text]
          [] Is(LAYOUT, <<"description">>) -> [r EXCEPT !.layouts[l].description = text]
          [] Is(LAYOUT, lang) -> [r EXCEPT !.layouts[l].languages = Append(@, text)]
          [] Is(VARIANT, <<"name">>) -> [r EXCEPT !.layouts[l].variants[v].name = text]
          [] Is(VARIANT, <<"description">>) -> [r EXCEPT !.layouts[l].variants[v].description = text]
          [] Is(VARIANT, lang) -> [r EXCEPT !.layouts[l].variants[v].languages = Append(@, text)]
          [] Is(MODEL, <<"name">>) -> [r EXCEPT !.models[m].name = text]
          [] Is(MODEL, <<"description">>) -> [r EXCEPT !.models[m].description = text]
          [] Is(MODEL, <<"vendor">>) -> [r EXCEPT !.models[m].vendor = text]
          [] Is(GROUP, <<"name">>) -> [r EXCEPT !.groups[g].name = text]
          [] Is(GROUP, <<"description">>) -> [r EXCEPT !.groups[g].description = text]
          [] Is(OPTION, <<"name">>) -> [r EXCEPT !.groups[g].options[o].name = text]
          [] Is(OPTION, <<"description">>) -> [r EXCEPT !.groups[g].options[o].description = text]
          [] OTHER -> r
  IN  [st EXCEPT !.rules = rules]

(* An event is <<"start", name, multiple>>, <<"text", text>> or <<"end">>. *)
ParseRules(events) ==
  FoldLeft(LAMBDA st, e : CASE e[1] = "start" -> StartElement(st, e[2], e[3])
                            [] e[1] = "text" -> Characters(st, e[2])
                            [] e[1] = "end" -> EndElement(st),
           [path |-> <<>>, rules |-> NewRules], events).rules

FindByName(rules, name) == {i \in DOMAIN rules.layouts : rules.layouts[i].name = name}

MergeLayout(rules, extra) ==
  LET i == Min(FindByName(rules, extra.name))
  IN  [rules EXCEPT !.layouts[i].languages = @ \o extra.languages, !.layouts[i].variants = @ \o extra.variants]

(* The layouts that are new are added once all others are merged.          *)
MergeRules(rules, extra) ==
  LET known == SelectSeq(extra.layouts, LAMBDA x : FindByName(rules, x.name) # {})
      toAdd == SelectSeq(extra.layouts, LAMBDA x : FindByName(rules, x.name) = {})
      merged == FoldLeft(MergeLayout, rules, known)
  IN  [layouts |-> merged.layouts \o toAdd, models |-> rules.models \o extra.models,
       groups |-> rules.groups \o extra.groups]

xkb_rules_new(events, extraEvents) == MergeRules(ParseRules(events), ParseRules(extraEvents))

----------------------------------------------------------------------------
(***************************************************************************)
(* Groups of input methods.  An entry is a sequence of fields such as      *)
(* <<"name", "pinyin">>.  The fields stay for the entries that follow, but *)
(* point into text that was freed with their own: FREED.                   *)
(***************************************************************************)
FREED == "freed"
FIELDS == {"name", "layout", "variant"}

create_group(groups, layout, variant) ==
  IF layout = NONE THEN groups ELSE Append(groups, [layout |-> layout, variant |-> variant, items |-> <<>>])

FieldsOf(item, entry) ==
  [f \in FIELDS |->
     LET given == {i \in DOMAIN entry : entry[i][1] = f}
     IN  CASE given # {} -> entry[Max(given)][2]
           [] given = {} /\ item[f] # NONE -> FREED
           [] OTHER -> NONE]

\* Plausible bug: the index is taken after the item was appended.
IndexAfter(items) == Len(items) + 1

IndexOf(items) == Len(items)

AddItem(st, entry) ==
  LET item == FieldsOf(st.item, entry)
      new == [name |-> item.name, layout |-> item.layout, variant |-> item.variant, index |-> IndexOf(st.items)]
  IN  [item |-> item, items |-> IF item.name = NONE THEN st.items ELSE Append(st.items, new)]

(* The items are added to those the group has.  For groups that exist: the *)
(* number of groups itself passes the check and reads past the array.      *)
set_input_method_list(groups, groupId, ims) ==
  IF groupId \notin 0..(Len(groups) - 1) THEN groups
  ELSE [groups EXCEPT ![groupId + 1].items =
          FoldLeft(AddItem, [item |-> [f \in FIELDS |-> NONE], items |-> @], ims).items]

reset_group(groups) == <<>>
get_group_size(groups, groupId) == IF groupId \in 0..(Len(groups) - 1) THEN Len(groups[groupId + 1].items) ELSE 0
get_group_item(groups, groupId, index) == groups[groupId + 1].items[index + 1]
=============================================================================
