-------------------------------- MODULE Utilities --------------------------------
(***************************************************************************)
(* The libraries of pure code on small inputs: fcitx-utils (UTF-8, strings,*)
(* keys, containers, sorting, files), fcitx-config, and the rules,         *)
(* languages and groups of lib/fcitx.                                      *)
(*                                                                         *)
(* A call chooses a library function and its arguments; the properties     *)
(* compare what the function makes of them with a reference definition.    *)
(* The containers keep state from call to call: a dictionary, an array and *)
(* a memory pool get a number of calls in any order, and a ledger records  *)
(* what became of the values that were put into them.                      *)
(***************************************************************************)
EXTENDS PureFunctions, Arguments, UtContainers, Paths, Languages
LOCAL INSTANCE Integers
LOCAL INSTANCE Sequences
LOCAL INSTANCE SequencesExt
LOCAL INSTANCE FiniteSetsExt
LOCAL INSTANCE FiniteSets

CONSTANTS
  Letters,       \* for plain strings
  Special,       \* characters that are escaped
  ValueChars,    \* characters of configuration values
  Symbols,       \* key symbols
  HashKeys,      \* keys of the hash table
  MaxCalls,      \* bound on the calls one container gets
  HashCalls      \* the same for the hash table

VARIABLES
  dict,    \* a dictionary
  array,   \* an array of pointers
  pool,    \* a memory pool
  hash,    \* a hash table
  ut,      \* an array of elements
  ledger   \* calls made, values made, freed and handed out, blocks given

containers == <<dict, array, pool, hash, ut>>
vars == <<call, dict, array, pool, hash, ut, ledger>>

NoCalls == [calls |-> 0, made |-> 0, freed |-> <<>>, out |-> <<>>, blocks |-> <<>>]

Init ==
  /\ call = Idle
  /\ dict = <<>>
  /\ array = NewArray
  /\ pool = NewPool
  /\ hash = NoTable
  /\ ut = utarray_new
  /\ ledger = NoCalls

(* Another pure function is called, or one has returned.                   *)
Calls(args) == Call(args) /\ UNCHANGED <<containers, ledger>>

Returns == Return /\ UNCHANGED <<containers, ledger>>

----------------------------------------------------------------------------
(* Pure calls.                                                             *)
Escape == \E s \in UpTo(Special, MaxLen) : Calls([of |-> "escape", s |-> s])

Search ==
  \E s \in UpTo(Letters, MaxLen + 1), needle \in UpTo(Letters, 3) \ {<<>>}, from \in 0..(MaxLen + 1) :
    Calls([of |-> "search", s |-> s, needle |-> needle, from |-> from])

Replace ==
  \E s \in UpTo(Letters, MaxLen), before \in UpTo(Letters, 2) \ {<<>>}, after \in UpTo(Letters, 1) :
    Calls([of |-> "replace", s |-> s, before |-> before, after |-> after])

Lists == \E list \in UpTo(UpTo(Letters, 1), 3) : Calls([of |-> "list", list |-> list])

Hotkey ==
  \E sym \in Symbols, state \in SUBSET {"Ctrl", "Alt", "Shift", "Super"} :
    Calls([of |-> "key", key |-> KEY(sym, state)])

(* Numbers of two, four and eight bytes, written one after the other.      *)
Numbers ==
  \E nums \in UpTo({<<1, 2>>, <<1, 2, 3, 4>>, <<0, 255, 1, 2, 3, 4, 5, 6>>}, 2), from, to \in {"little", "big"} :
    Calls([of |-> "number", nums |-> nums, from |-> from, to |-> to])

Save == \E v \in UpTo(ValueChars, 3), w \in {<<>>, <<"a">>} : Calls([of |-> "ini", values |-> <<v, w>>])

Options == \E n \in -11..300 : Calls([of |-> "option", n |-> n])

ListOption == \E list \in UpTo({<<"a">>, <<"b">>}, 3) : Calls([of |-> "option list", list |-> list])

(* Two structures, the first with an attribute of some type.               *)
Descriptions ==
  \E attribute \in {<<"Integer">>, <<"List">>, <<"A">>}, subType \in {NOVALUE, <<"List">>, <<"Integer">>, <<"B">>, <<"C">>} :
    Calls([of |-> "description", attribute |-> attribute, subType |-> subType])

CommandLine ==
  \E names \in UpTo({"ui", "u", "r", "enable", "d", "D", "s", "v", "?"}, 3) :
    Calls([of |-> "command line", names |-> names])

(* A signature of a known or an unknown function, and arguments that fit   *)
(* into eight bits or do not.                                              *)
Invocations ==
  \E signature \in UpTo({"v", "y", "z", "i", "?"}, FUNCTION_MAX_ARG + 2), functionName \in {"f", "g"},
     pointer \in BOOLEAN, value \in {-1, 3, 200, 300} :
    Calls([of |-> "invoke", signature |-> signature, functionName |-> functionName, pointer |-> pointer,
           value |-> value])

Translations ==
  \E have \in SUBSET {<<>>, <<"a">>, <<"a", "_", "C">>, <<"a", "_", "C", "@", "x">>}, codeset \in BOOLEAN, n \in 0..2 :
    Calls([of |-> "i18n", have |-> have, codeset |-> codeset, n |-> n])

(* Files under the home directory and the two data directories.            *)
Homes == {<<"home", "share">>, <<"d1">>, <<"d2">>}
Env == [v \in {"XDG_CONFIG_HOME", "XDG_DATA_HOME", "XDG_CACHE_HOME", "XDG_CONFIG_DIRS", "XDG_DATA_DIRS",
              "FCITX_ADDON_DIRS", "HOME"} |->
          CASE v = "HOME" -> <<Path(TRUE, <<"home">>)>>
            [] v = "XDG_DATA_HOME" -> <<Path(TRUE, <<"home", "share">>)>>
            [] v = "XDG_DATA_DIRS" -> <<Path(TRUE, <<"d1">>), Path(TRUE, <<"d2">>)>>
            [] OTHER -> <<>>]

Locate ==
  \E here \in SUBSET Homes, files \in SUBSET (Homes \X {"f", "g"}), flag \in SUBSET {"Writable", "LocateAll"},
     denied \in BOOLEAN :
    /\ \A x \in files : x[1] \in here
    /\ Calls([of |-> "locate", flag |-> flag,
              fs |-> [dirs |-> here \cup (IF <<"home", "share">> \in here THEN {<<"home">>} ELSE {}),
                      files |-> {Append(x[1], x[2]) : x \in files},
                      denied |-> IF denied THEN {<<>>, <<"home">>} ELSE {}]])

CleanPath == \E names \in UpTo({".", "..", "a", "b"}, MaxLen) : Calls([of |-> "clean", names |-> names])

(* Layouts of the rules and of the additional rules: name, languages, and  *)
(* the names of the variants.                                              *)
SomeLayouts == {[name |-> n, languages |-> l, variants |-> v] :
                  n \in {"us", "de"}, l \in {<<>>, <<"eng">>}, v \in {<<>>, <<"x">>, <<"x", "y">>}}

Rules ==
  \E base \in UpTo(SomeLayouts, 1), extra \in UpTo(SomeLayouts, 2) :
    /\ \A i, j \in DOMAIN extra : extra[i].name = extra[j].name => i = j
    /\ Calls([of |-> "rules", base |-> base, extra |-> extra])

(* English, Middle English and an entry without a name.                    *)
Entry(code2, code1, name) == [code2B |-> code2, code2T |-> code2, code1 |-> code1, name |-> name]
Entries == << Entry(<<"e", "n", "g">>, <<"e", "n">>, <<"E">>), Entry(<<"e", "n", "m">>, <<>>, <<"M">>),
              Entry(<<"g", "e", "m">>, <<>>, <<>>) >>

FindBest ==
  \E languages \in UpTo({e.code2B : e \in Range(Entries)}, 3), hint \in UpTo({"e", "n", "m"}, 3) :
    Calls([of |-> "iso", languages |-> languages, hint |-> hint])

Groups ==
  \E first, second \in UpTo({"k", "l"}, 2), groupId \in -1..0 :
    Calls([of |-> "group", first |-> first, second |-> second, groupId |-> groupId])

PureCall ==
  /\ call = Idle /\ ledger = NoCalls
  /\ \/ PureCalls /\ UNCHANGED <<containers, ledger>>
     \/ Escape \/ Search \/ Replace \/ Lists \/ Numbers
     \/ Hotkey
     \/ Save \/ Options \/ ListOption \/ Descriptions \/ CommandLine \/ Invocations \/ Translations
     \/ Locate \/ CleanPath
     \/ Rules \/ FindBest \/ Groups

----------------------------------------------------------------------------
(***************************************************************************)
(* Calls on containers.  Each value that is put in is new: the number it   *)
(* was made with.                                                          *)
(***************************************************************************)
Fresh == ledger.made + 1

Book(result, made) ==
  /\ call = Idle /\ ledger.calls < MaxCalls
  /\ ledger' = [ledger EXCEPT !.calls = @ + 1, !.made = @ + made,
                              !.freed = @ \o result.freed, !.out = @ \o result.out]

(* One container is used at a time.                                        *)
OnDict(result, made) ==
  /\ array = NewArray /\ pool = NewPool /\ hash = NoTable /\ ut = utarray_new
  /\ Book(result, made) /\ dict' = result.dict /\ UNCHANGED <<call, array, pool, hash, ut>>

OnArray(result, made) ==
  /\ dict = <<>> /\ pool = NewPool /\ hash = NoTable /\ ut = utarray_new
  /\ Book(result, made) /\ array' = result.array /\ UNCHANGED <<call, dict, pool, hash, ut>>

OnUt(result, made) ==
  /\ dict = <<>> /\ array = NewArray /\ pool = NewPool /\ hash = NoTable
  /\ Book(result, made) /\ ut' = result.ut /\ UNCHANGED <<call, dict, array, pool, hash>>

OnHash(table) ==
  /\ dict = <<>> /\ array = NewArray /\ pool = NewPool /\ ut = utarray_new
  /\ call = Idle /\ ledger.made = 0 /\ ledger.calls < HashCalls
  /\ hash' = table /\ ledger' = [ledger EXCEPT !.calls = @ + 1]
  /\ UNCHANGED <<call, dict, array, pool, ut>>

DictInsert == \E key \in {<<1>>, <<1, 2>>}, replace \in BOOLEAN : OnDict(dict_insert(dict, key, Fresh, replace), 1)
DictRemove == \E key \in {<<1>>, <<1, 2>>}, steal \in BOOLEAN : OnDict(dict_remove(dict, key, steal), 0)
DictRemoveIf == \E key \in {<<1>>, <<1, 2>>} : OnDict(dict_remove_if(dict, {e \in Range(dict) : e.key = key}), 0)
DictEmpty == OnDict(dict_remove_all(dict), 0) \/ OnDict(dict_steal_all(dict), 0)
DictSort ==
  LET order == {p \in Range(dict) \X Range(dict) : dict_item_default_compare(p[1].key, p[2].key) <= 0}
  IN  OnDict(Result(dict_sort(dict, order), <<>>, <<>>, TRUE), 0)

ArrayInsert == \E pos \in 0..3 : OnArray(ptr_array_insert(array, Fresh, pos), 1)
ArraySet == \E pos \in 0..2 : OnArray(ptr_array_set(array, pos, Fresh), 1)
ArrayRemove ==
  \E pos \in 0..(Len(array.data) - 1) :
    \/ \E steal \in BOOLEAN : OnArray(ptr_array_remove(array, pos, steal), 0)
    \/ OnArray(ptr_array_remove_fast(array, pos), 0)
ArrayResize ==
  \E size \in 0..3 :
    OnArray(ptr_array_resize(array, size, [i \in 1..size |-> ledger.made + i - Len(array.data)]),
            Max({0, size - Len(array.data)}))

UtPush ==
  \/ OnUt(utarray_push_back(ut, Fresh), 1) \/ OnUt(utarray_push_front(ut, Fresh), 1) \/ OnUt(utarray_extend_back(ut), 0)
UtInsert ==
  \E j \in 0..3 :
    \/ OnUt(utarray_insert(ut, Fresh, j), 1)
    \/ OnUt(utarray_inserta(ut, [d |-> <<Fresh, Fresh + 1>>, n |-> UT_INITIAL], j), 2)
UtMove == \E f, t \in 0..2 : OnUt(utarray_move(ut, f, t), 0)
UtResize == \E num \in 0..3 : OnUt(utarray_resize(ut, num), 0)
UtRemove ==
  \E pos \in 0..(Len(ut.d) - 1) :
    \/ OnUt(utarray_remove_quick(ut, pos), 0) \/ OnUt(utarray_remove_quick_full(ut, pos), 0)
    \/ \E len \in 1..(Len(ut.d) - pos) : OnUt(utarray_erase(ut, pos, len), 0)
UtPop == ut.d # <<>> /\ OnUt(utarray_pop_back(ut), 0)
UtEmpty ==
  \/ OnUt(utarray_clear(ut), 0) \/ OnUt(utarray_steal(ut), 0)
  \/ OnUt([utarray_done(ut) EXCEPT !.ut = utarray_new], 0)  \* and utarray_init
UtSort == \E from, to \in 0..3 : OnUt(UtResult(utarray_sort_range(ut, from, to), <<>>, <<>>), 0)

HashAdd == \E key \in HashKeys : HASH_FIND(hash, key) = {} /\ OnHash(HASH_ADD_KEYPTR(hash, [key |-> key]))
HashDelete == \E key \in HashKeys : \E item \in HASH_FIND(hash, key) : OnHash(HASH_DELETE(hash, item))
(* Many items whose hashes collide: the table gives up expanding.          *)
HashFill ==
  \E n \in 13..15 :
    hash = NoTable /\ OnHash(FoldLeft(HASH_ADD_KEYPTR, NoTable, [i \in 1..n |-> [key |-> 64 * i]]))
HashSort == hash # NoTable /\ OnHash(HASH_SRT(hash))

PoolAlloc ==
  \E size \in {1, 3, 5, PAGE_SIZE + 1}, align \in BOOLEAN :
    LET got == memory_pool_alloc_align(pool, size, align)
    IN  /\ dict = <<>> /\ array = NewArray /\ hash = NoTable /\ ut = utarray_new
        /\ call = Idle /\ ledger.calls < MaxCalls
        /\ pool' = got.pool
        /\ ledger' = [ledger EXCEPT !.calls = @ + 1,
                                    !.blocks = Append(@, [at |-> got.block, size |-> size, align |-> align])]
        /\ UNCHANGED <<call, dict, array, hash, ut>>

(* The containers are freed and made anew.                                 *)
Free ==
  /\ call = Idle /\ ledger # NoCalls
  /\ dict' = <<>> /\ array' = NewArray /\ pool' = NewPool /\ hash' = NoTable /\ ut' = utarray_new /\ ledger' = NoCalls
  /\ UNCHANGED call

Next ==
  \/ PureCall \/ Returns
  \/ DictInsert \/ DictRemove \/ DictRemoveIf \/ DictEmpty \/ DictSort
  \/ ArrayInsert \/ ArraySet \/ ArrayRemove \/ ArrayResize
  \/ UtPush \/ UtInsert \/ UtMove \/ UtResize \/ UtRemove \/ UtPop \/ UtEmpty \/ UtSort
  \/ HashAdd \/ HashFill \/ HashDelete \/ HashSort
  \/ PoolAlloc
  \/ Free

Spec == Init /\ [][Next]_vars

----------------------------------------------------------------------------
(* Reference definitions.                                                  *)
(* Offsets a needle is found at.                                           *)
Occurrences(s, needle) ==
  {i \in 0..(Len(s) - Len(needle)) : SubSeq(s, i + 1, i + Len(needle)) = needle}

RECURSIVE ReplacedAll(_, _, _)
ReplacedAll(s, before, after) ==
  CASE s = <<>> -> <<>>
    [] s # <<>> /\ IsPrefix(before, s) -> after \o ReplacedAll(SubSeq(s, Len(before) + 1, Len(s)), before, after)
    [] OTHER -> <<Head(s)>> \o ReplacedAll(Tail(s), before, after)

(* Replacing is only right where no text separates two matches that are    *)
(* handled in one batch.                                                   *)
GapsEmpty(s, before) ==
  LET m == Matches(s, before, 0)
  IN  \A i \in DOMAIN m : (i - 1) % MAX_REPLACE # 0 => m[i] = m[i - 1] + Len(before)

(* Values that survive printing.                                           *)
Savable(value) ==
  LET b == ReplacedAll(value, <<BACKSLASH>>, <<BACKSLASH, BACKSLASH>>)
      n == ReplacedAll(b, <<"nl">>, <<BACKSLASH, "n">>)
  IN  /\ GapsEmpty(value, <<BACKSLASH>>) /\ GapsEmpty(b, <<"nl">>)
      /\ IF \E i \in DOMAIN n : n[i] \in SPACE THEN GapsEmpty(n, <<QUOTE>>)
         ELSE ~(Len(n) >= 2 /\ n[1] = QUOTE /\ Last(n) = QUOTE)

(* The rules a file with these layouts, a model and an option describes,   *)
(* and the parser's events for it.                                         *)
TreeOf(layouts) ==
  [layouts |-> [i \in DOMAIN layouts |->
     [NewLayout EXCEPT !.name = layouts[i].name, !.languages = layouts[i].languages,
        !.variants = [j \in DOMAIN layouts[i].variants |-> [NewVariant EXCEPT !.name = layouts[i].variants[j]]]]],
   models |-> <<[NewModel EXCEPT !.name = "pc", !.vendor = "v"]>>,
   groups |-> <<[NewOptionGroup EXCEPT !.name = "grp", !.exclusive = TRUE, !.options = <<[NewOption EXCEPT !.name = "o"]>>]>>]

Element(name, body) == << <<"start", name, FALSE>> >> \o body \o << <<"end">> >>
Text(name, text) == Element(name, << <<"text", text>> >>)
All(bodies) == FlattenSeq(bodies)

EventsOf(layouts) ==
  LET VariantEvents(v) == Element("variant", Element("configItem", Text("name", v)))
      LayoutEvents(x) ==
        Element("layout",
          Element("configItem", Text("name", x.name)
            \o Element("languageList", All([i \in DOMAIN x.languages |-> Text("iso639Id", x.languages[i])])))
          \o Element("variantList", All([i \in DOMAIN x.variants |-> VariantEvents(x.variants[i])])))
      modelEvents == Element("model", Element("configItem", Text("name", "pc") \o Text("vendor", "v")))
      optionEvents == Element("group", Element("configItem", Text("name", "grp"))
                                         \o Element("option", Element("configItem", Text("name", "o"))))
  IN  Element("xkbConfigRegistry",
        Element("modelList", modelEvents)
          \o Element("layoutList", All([i \in DOMAIN layouts |-> LayoutEvents(layouts[i])]))
          \o Element("optionList", optionEvents))

----------------------------------------------------------------------------
(* Properties.                                                             *)

(***************************************************************************)
(* Strings survive what is done to them: unescaping undoes escaping, the   *)
(* rolling hash of backward_search never hides the last occurrence, a      *)
(* replacement is the expected one, lists, sets and maps come back from    *)
(* their text, and numbers from a file another host has written.           *)
(***************************************************************************)
TextIsKept ==
  /\ call.of = "escape" =>
       /\ set_unescape_str(set_escape_str_with_set(call.s, NEED_ESCAPE)) = call.s
       /\ inplace_trim(<<" ">> \o call.s \o <<"tab">>) = inplace_trim(call.s)
  /\ call.of = "search" =>
       LET all == Occurrences(call.s, call.needle)
           before == {i \in all : i <= call.from}
       IN  /\ backward_search(call.s, call.needle, call.from) =
                IF before = {} \/ call.from > Len(call.s) THEN NULL ELSE Max(before)
           /\ Len(call.needle) = 1 \/ all \subseteq {0} =>
                strrstr(call.s, call.needle) = IF all = {} THEN NULL ELSE Max(all)
           /\ string_starts_with(call.s, call.needle) <=> 0 \in all
           /\ string_ends_with(call.s, call.needle) <=> Len(call.s) - Len(call.needle) \in all
  /\ call.of = "replace" /\ GapsEmpty(call.s, call.before) =>
       string_replace(call.s, call.before, call.after) = ReplacedAll(call.s, call.before, call.after)
  /\ call.of = "number" =>
       LET file == FlattenSeq([i \in DOMAIN call.nums |-> write_uint(call.from, call.nums[i])])
           Read(st, num) == LET got == read_uint(call.to, st.rest, Len(num))
                            IN  [rest |-> got.rest, values |-> Append(st.values, got.value)]
           end == FoldLeft(Read, [rest |-> file, values |-> <<>>], call.nums)
       IN  end.values = call.nums /\ read_uint(call.to, end.rest, 2).size = 0
  /\ call.of = "list" =>
       LET map == FoldLeft(LAMBDA m, i : string_map_set(m, call.list[i], i % 2 = 0), <<>>, [i \in DOMAIN call.list |-> i])
           set == FoldLeft(string_hashset_insert, <<>>, call.list)
           Whole(l) == l # <<>> => Last(l) # <<>>
       IN  /\ Whole(call.list) => split_full(join(call.list, ","), {","}, TRUE) = call.list
           /\ split_full(join(call.list, ","), {","}, FALSE) = SelectSeq(call.list, LAMBDA s : s # <<>>)
           /\ Whole(set) => string_hashset_parse(string_hashset_join(set, ","), ",") = set
           /\ string_map_from_string(string_map_to_string(map, ","), ",") = map
           /\ \A s \in Range(call.list) :
                LET last == Max({i \in DOMAIN call.list : call.list[i] = s})
                IN  /\ string_map_get(map, s, last % 2 # 0) = (last % 2 = 0)
                    /\ string_map_get(string_map_remove(map, s), s, last % 2 # 0) = (last % 2 # 0)
           /\ text_to_string(FoldLeft(LAMBDA t, s : text_append(t, {}, s), <<>>, call.list)) = cat_str(call.list)
           /\ \A n \in 1..4 :
                LET cut == cat_str_with_len(call.list, n)
                IN  IsPrefix(cut, cat_str(call.list)) /\ Len(cut) = Min({n - 1, str_lens(call.list) - 1})

(***************************************************************************)
(* A hotkey written to the configuration is hit by the key it stands for:  *)
(* the text of a normalised key parses back to a key that a press of the   *)
(* same key matches, also among others.  Characters come back from their   *)
(* key symbols.                                                            *)
(***************************************************************************)
HotkeyIsHit ==
  call.of = "key" =>
    LET key == key_normalize(call.key)
        path == << <<"Hotkey">> >>
        config == set_key(configuration_new, path, <<KEY(FcitxKey.F4, {"Alt"}), key>>)
        wc == keysym_to_unicode(key.sym)
    IN  /\ key.sym # FcitxKey.None /\ keysym_to_string(key.sym) # {} => key_list_check(get_key(config, path, <<>>), key)
        /\ is_digit(key) \/ is_uaz(key) \/ is_laz(key) => is_simple(key)
        /\ is_cursor_move(key) => ~is_simple(key)
        /\ wc # 0 => keysym_to_unicode(keysym_from_unicode(wc)) = wc
        /\ wc \in 1..126 => keysym_from_char(<<wc>>) = wc
        /\ wc > 127 => keysym_from_char(ucs4_to_utf8(wc)) = keysym_from_unicode(wc)

(***************************************************************************)
(* Containers neither lose a value nor destroy it twice: each value is     *)
(* held once, or was destroyed once, or is the caller's.  Blocks of a      *)
(* memory pool do not overlap.  A hash table finds what was added and      *)
(* nothing else, however often it was expanded: its chains hold the items  *)
(* of its list, and none is too long while expanding helps.                *)
(***************************************************************************)
ValuesConserved ==
  LET IsValue(v) == v # 0
      all == SelectSeq(Data(dict) \o array.data \o ut.d \o ledger.freed \o ledger.out, IsValue)
      b == ledger.blocks
  IN  /\ Len(all) = ledger.made /\ Range(all) = 1..ledger.made
      /\ dict_clone(dict) = dict
      /\ \A e \in Range(dict) : dict_lookup(dict, e.key) = {e.data}
      /\ call.of = "sort" =>
           LET offsets == [i \in DOMAIN call.keys |-> 4 * (call.keys[i] - 1)]
               bits == FoldLeft(bitset_set, bitset_new(9), offsets)
           IN  \A off \in 0..8 :
                 /\ bitset_isset(bits, off) <=> off \in Range(offsets)
                 /\ off \in Range(offsets) => {o \in 0..8 : bitset_isset(bitset_unset(bits, off), o)} = Range(offsets) \ {off}
      /\ Len(array.data) <= array.size
      /\ Len(ut.d) <= ut.n /\ utarray_clone(ut).d = ut.d
      /\ \A e \in -1..(Len(ut.d) - 2) : utarray_prev(ut, utarray_next(ut, e)) = e
      /\ \A key \in HashKeys \cup {x.key : x \in Range(hash.order)} :
           HASH_FIND(hash, key) = {x \in Range(hash.order) : x.key = key}
      /\ hash.order # <<>> =>
           LET chains == [n \in 1..num_buckets(hash) |-> hash.buckets[n - 1].chain]
           IN  /\ Len(FlattenSeq(chains)) = Len(hash.order)
               /\ ~hash.noexpand => \A n \in DOMAIN hash.buckets :
                    Len(hash.buckets[n].chain) < (hash.buckets[n].expand_mult + 1) * CHAIN_CAPACITY
      /\ \A i, j \in DOMAIN b :
           i # j /\ b[i].at.chunk = b[j].at.chunk => b[i].at.to <= b[j].at.from \/ b[j].at.to <= b[i].at.from
      /\ \A i \in DOMAIN b :
           /\ b[i].align => b[i].at.from % ALIGN = 0
           /\ \E c \in Range(pool.chunks) \cup pool.full : c.id = b[i].at.chunk /\ b[i].at.to <= c.size

(***************************************************************************)
(* A configuration that is saved and loaded is the one that was saved, and *)
(* an option read from it is the one that was set, or its default where it *)
(* breaks the constraint.  Values that fcitx_utils_string_replace damages  *)
(* and values in quotes without blanks are known not to survive.  Of the   *)
(* command line the last option of a kind counts, and a function of an     *)
(* addon gets the arguments its signature names if they fit.               *)
(***************************************************************************)
ConfigIsKept ==
  LET Saved(config) == ini_parse(ini_print(config), configuration_new)
      path == << <<"g">>, <<"o">> >>
  IN  /\ call.of = "ini" /\ Savable(call.values[1]) =>
           LET top == set_value_by_path(configuration_new, << <<"p">> >>, call.values[2])
               full == set_value_by_path(top, path, call.values[1])
               items == SubItems(full, <<>>)
               sorted == configuration_sort(full, <<>>, {<<items[j], items[i]>> : i, j \in DOMAIN items} \ {<<items[1], items[2]>>})
               char == Head(call.values[1] \o <<"end">>)
           IN  /\ Saved(full) = full
               /\ Saved(set_comment(full, path, <<"c">>)) = full
               /\ configuration_remove(full, << <<"g">> >>) = top
               /\ SubItems(sorted, <<>>) = Reverse(items) /\ ToSet(sorted) = ToSet(full)
               /\ get_char_option(set_char_option(full, path, char), path, <<"c">>) = char
      /\ call.of = "option" =>
           LET n == call.n
               default == <<"7">>
               names == << <<"x">>, <<"y">> >>
               int == Saved(set_integer(configuration_new, path, n))
               color == <<n, 0, 255, n>>
           IN  /\ get_integer(int, path, default, -5, 100) = IF n \in -5..100 THEN n ELSE 7
               /\ get_string(int, path, default, 2) = IF n \in -9..99 THEN Decimal(n) ELSE default
               /\ get_boolean(Saved(set_boolean(int, path, n > 0)), path, FALSE_TEXT) = (n > 0)
               /\ n >= 0 => get_enum(Saved(set_enum(configuration_new, path, n, names)), path, 1, names)
                              = IF n < 2 THEN n ELSE 1
               /\ get_color(Saved(set_color(int, path, color)), path, default) = [i \in 1..4 |-> RoundColor(color[i])]
      /\ call.of = "option list" =>
           LET long == set_list(configuration_new, path, <<<<"c">>, <<"c">>>>)
           IN  /\ get_list(Saved(set_list(configuration_new, path, call.list)), path) = call.list
               /\ IsPrefix(call.list, get_list(set_list(long, path, call.list), path))
      /\ call.of = "command line" =>
           LET arg == arugment_parse([i \in DOMAIN call.names |-> [name |-> call.names[i], arg |-> <<DIGITS[i + 1]>>]])
               LastOf(names) == Max({0} \cup {i \in DOMAIN call.names : call.names[i] \in names})
               Given(names) == IF LastOf(names) = 0 THEN <<>> ELSE <<DIGITS[LastOf(names) + 1]>>
           IN  /\ arg.uiname = Given({"ui", "u"}) /\ arg.enableList = Given({"enable"})
               /\ arg.overrideDelay = IF LastOf({"s"}) = 0 THEN -1 ELSE LastOf({"s"})
               /\ arg.runasdaemon <=> LastOf({"d"}) > LastOf({"D"})
               /\ arg.quietQuit <=> LastOf({"v", "?"}) > 0
      /\ call.of = "invoke" =>
           LET s == call.signature
               addons == [a \in {"a"} |-> [data |-> "self", functions |->
                           [f \in {"f"} |-> [signature |-> s, pointer |-> call.pointer]]]]
               args == [i \in 1..Len(s) |-> call.value]
               got == addon_manager_invoke(addons, "a", call.functionName, args)
               RangeOf(c) == CASE c = "y" -> -128..127 [] c = "z" -> 0..255 [] OTHER -> {call.value}
           IN  /\ got # NoCall <=> call.functionName = "f" /\ call.pointer /\ s # <<>> /\ Len(s) <= FUNCTION_MAX_ARG + 1
                                    /\ "?" \notin Range(s) /\ "v" \notin Range(Tail(s))
               /\ got # NoCall => Len(got) = Len(s) /\ Head(got) = "self"
               /\ \A i \in 2..Len(got) :
                    got[i] \in RangeOf(s[i]) /\ (call.value \in RangeOf(s[i]) => got[i] = call.value)
               /\ addon_manager_invoke(addons, "b", call.functionName, args) = NoCall
      /\ call.of = "description" =>
           LET a == << <<"A">>, <<"x">> >>
               base == set_value_by_path(set_value_by_path(configuration_new, Append(a, <<"Type">>), call.attribute),
                                         << <<"B">>, <<"y">>, <<"Type">> >>, <<"Integer">>)
               result == description_parse(set_value_by_path(base, Append(a, <<"SubType">>), call.subType))
               isList == call.attribute = <<"List">>
           IN  /\ ~result.error <=> call.attribute # <<"A">> /\ (isList => call.subType \in {<<"Integer">>, <<"B">>})
               /\ ~result.error => result.top = {<<"A">>, <<"B">>} \ (IF isList THEN {call.subType} ELSE {})

(***************************************************************************)
(* Files are found in the order of the directories, the user's first; the  *)
(* results never fill the array up to its end, which a zero entry marks; a *)
(* file that was opened for writing is the one that is found next; and a   *)
(* cleaned path leads where the path leads.                                *)
(***************************************************************************)
FilesInOrder ==
  /\ call.of = "locate" =>
       LET sp == standard_path_new(Env)
           fs == call.fs
           order == << <<"home", "share", "f">>, <<"datadir", "f">>, <<"d1", "f">>, <<"d2", "f">> >>
           there == SelectSeq(order, LAMBDA p : p \in fs.files)
           first == SubSeq(there, 1, Min({1, Len(there)}))
           got == standard_path_locate(fs, sp, "Data", <<"f">>, call.flag)
           again == standard_path_locate(got.fs, sp, "Data", <<"f">>, {})
           byName == standard_path_match(fs, sp, "Data", <<>>, {"LocateAll"}, {"f"})
           temp == create_tempfile(fs, sp, "Data", <<"t">>)
       IN  /\ "Writable" \notin call.flag => got.files = (IF "LocateAll" \in call.flag THEN there ELSE first)
           /\ "Writable" \in call.flag /\ got.files # <<>> => got.files = <<order[1]>> /\ again.files = got.files
           /\ "Writable" \in call.flag /\ fs.denied = {} => got.files # <<>>
           /\ got.files # <<>> => Len(got.files) < got.size
           /\ byName = [n \in (IF there = <<>> THEN {} ELSE {"f"}) |-> there]
           /\ \A p \in fs.files : LocateAbsolute(fs, p, {}).files = <<p>>
           /\ temp.found # <<>> => standard_path_locate(temp.fs, sp, "Data", <<"t">>, {}).files = temp.found
  /\ call.of = "clean" =>
       LET path == Path(TRUE, call.names)
       IN  /\ Place(clean_path(path)) = Place(path)
           /\ clean_path(clean_path(path)) = clean_path(path)
           /\ make_path([dirs |-> {}, files |-> {}, denied |-> {}], path).fs.dirs
                = {SubSeq(Place(path), 1, n) : n \in 1..Len(Place(path))}

(***************************************************************************)
(* The layouts of the XKB rules are those of the file, and additional      *)
(* rules extend layouts that are known and add the others; the language    *)
(* chosen is the first of those that fit the hint best; a translation is   *)
(* the one closest to the locale; input methods are numbered in order.     *)
(***************************************************************************)
LanguagesMatch ==
  /\ call.of = "rules" =>
       LET base == TreeOf(call.base)
           extra == TreeOf(call.extra)
           merged == xkb_rules_new(EventsOf(call.base), EventsOf(call.extra))
           Named(n) == SelectSeq(extra.layouts, LAMBDA x : x.name = n)
       IN  /\ ParseRules(EventsOf(call.base)) = base
           /\ Range([i \in DOMAIN merged.layouts |-> merged.layouts[i].name])
                = {x.name : x \in Range(base.layouts) \cup Range(extra.layouts)}
           /\ \A i, j \in DOMAIN merged.layouts : merged.layouts[i].name = merged.layouts[j].name => i = j
           /\ \A i \in DOMAIN base.layouts :
                LET more == Named(base.layouts[i].name)
                IN  merged.layouts[i].variants = base.layouts[i].variants
                                                   \o (IF more = <<>> THEN <<>> ELSE more[1].variants)
           /\ merged.models = base.models \o extra.models
           /\ merged.groups = base.groups \o extra.groups
  /\ call.of = "iso" =>
       LET codes == isocodes_new(Entries)
           known == SelectSeq(call.languages, LAMBDA l : GetEntry(codes, l) # 0)
           fit == [i \in DOMAIN known |-> CodeOfEntry(codes[GetEntry(codes, known[i])])]
           best == {i \in DOMAIN fit : \A j \in DOMAIN fit : Score(call.hint, fit[j]) <= Score(call.hint, fit[i])}
       IN  isocodes_find_best(codes, call.hint, call.languages) = IF best = {} THEN <<>> ELSE fit[Min(best)]
  /\ call.of = "i18n" =>
       LET language == <<"a">>
           territory == <<"a", "_", "C">>
           modified == territory \o <<"@", "x">>
           str == [l \in call.have |-> <<"t">> \o l]
           path == << <<"N">> >>
           got == get_i18n_string(set_i18n_string(configuration_new, path, str), path, <<"t">>)
           asked == <<language, territory, modified>>[call.n + 1]
           cut == cspn(asked, {"@"})
           locale == IF call.codeset
                     THEN SubSeq(asked, 1, cut) \o <<".", "u", "t", "f", "8">> \o SubSeq(asked, cut + 1, Len(asked))
                     ELSE asked
           usable == SelectSeq(SubSeq(<<language, territory, modified>>, 1, call.n + 1), LAMBDA l : l \in call.have)
       IN  /\ got = [l \in call.have \cup {<<>>} |-> <<"t">> \o l]
           /\ i18n_string_match(got, locale) = <<"t">> \o (IF usable = <<>> THEN <<>> ELSE Last(usable))
  /\ call.of = "group" =>
       LET Ims(names) == [i \in DOMAIN names |-> << <<"name", names[i]>>, <<"layout", "us">> >>]
           one == create_group(<<>>, "us", NONE)
           two == set_input_method_list(set_input_method_list(one, 0, Ims(call.first)), call.groupId, Ims(call.second))
           names == call.first \o (IF call.groupId = 0 THEN call.second ELSE <<>>)
       IN  /\ get_group_size(two, 0) = Len(names)
           /\ \A i \in DOMAIN names :
                get_group_item(two, 0, i - 1) = [name |-> names[i], layout |-> "us", variant |-> NONE, index |-> i - 1]
           /\ create_group(two, NONE, NONE) = two /\ get_group_size(reset_group(two), 0) = 0
=============================================================================
