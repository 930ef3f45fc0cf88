# TLA+ models of fcitx

fcitx is an input method framework: one process, one thread, a main loop, and
addons that connect applications (frontends), hardware and buses (modules) and
input methods. This directory holds TLA+ models of its core, the TLC runs that
check them on small instances, and proofs, checked with TLAPS, of the
properties that matter most. `PROJECT.json` lists the components, the runs, the
mutants that show that each property can fail, the source lines of every
definition, the hazards and the theorems.

Run a configuration with `tlc -config MCx.cfg <module>`; check the proofs with
`tlapm <module>_proofs.tla`.

## The system and its parts

| part | state | operations | interacts with |
|---|---|---|---|
| main loop (`fcitx-utils/mainloop.c`) | timeout list, table of IO events, reference counts, `quit` | register, remove, run, quit, dispatch | every addon's callbacks; handler table |
| handler table, object pool (`handler-table.c`, `objpool.c`) | slots in a growing array, free chain, doubly linked ids per key | append, prepend, remove by id or key, free | main loop, D-Bus, XCB and Wayland modules |
| input context manager (`fcitx/inputcontext.c`) | ids and free list, focus groups, per-context data | new, destroy, focus in/out, group moves, data setters | frontends (callers), instance (event listener) |
| shared state (`inputcontext.c`) | property slots, policy lists and dictionaries | register, set, copy, free | instance, frontends |
| addon manager (`fcitx/addon.c`) | addons, dependencies, load order, frontends | load, init, unload | every addon |
| instance (`fcitx/instance.c`, `core/`) | `running`, `shutdown`, signal pipe | new, run, shutdown, destroy; signals | addon manager, main loop, bus |
| D-Bus module (`module/dbus`) | connection, watched names, match rules | start with retries, filter, watch, end | libdbus, main loop, IPC frontend |
| D-Bus frontend (`frontend/ipc`) | contexts per sender | CreateIC, DestroyIC, name watching | D-Bus module, context manager |
| XCB module, XIM frontend (`module/xcb`, `frontend/xim`) | X connection, keymap and keyboard state, filters, one server per connection | open, events, keys of clients, close, destroy | X server, X clients, context manager, main loop |
| event dispatch (`instance.c`, `event.h`) | groups, input method state and last key of a context | events in, signals and messages out | context manager, frontends |
| input method manager (`fcitx/ime.c`) | groups with their items | create, fill, ask, reset | instance |
| rules, languages (`rules.c`, `isocodes.c`, `i18nstring.c`) | tables built by an XML parser | parse, merge, look up | keyboard input method |
| configuration (`fcitx-config`) | a tree of values | parse, print, typed options, descriptions | addon manager, instance |
| containers, text, keys, sorting, files (`fcitx-utils`) | dictionaries, arrays, pools, hash tables | calls | everything above |
| Wayland module, keyboard input method | | unfinished in the code | not modelled |

There is one thread, so what is hard is not locking but re-entrancy and
order: a callback changes the structure that is being walked; an operation
tells listeners while it is half done; a message is read after its sender has
gone; a round trip reads events that nobody waits for; a signal or a shutdown
comes before there is anything to stop; an addon fails when others already
depend on it; an id or a slot is used again. The hazards in `PROJECT.json` name
the lines where this bites.

## Modules

| module | models | notes |
|---|---|---|
| `FcitxList` | `list.h` | linking and unlinking as operations on sequences |
| `InputContext` | ids, groups, focus, data of `inputcontext.c` | one action per operation; the calls it makes to listeners are recorded in order in `log` |
| `SharedState` | properties and policies of `inputcontext.c` | a list is the set of contexts linked on it |
| `ObjPool`, `HandlerTable` | `objpool.c`, `handler-table.c` | slots, free chain and links as in the code |
| `HandlerMap` | what `handler-table.h` promises | the abstract specification: a sequence of handlers per key; `HandlerTable` refines it |
| `MainLoop` | `mainloop.c` | a callback is a phase in which user code may register, remove and quit |
| `DBusLoop` | watches, wake-up and dispatch of `dbusmodule.c` | composed with `MainLoop`: the functions given to libdbus call the operations of the loop, and the loop's callbacks call the module |
| `AddonManager` | `addon.c` | init and destroy are phases, so that a property can speak of what they may use |
| `Ipc` | `ipc.c`, the name watching of `dbusmodule.c` | both directions of the bus connection are queues |
| `Instance` | `instance.c`, `main.c`, `errorhandler.c`, the start of `dbusmodule.c` | several processes and the bus name they compete for |
| `X11` | `xcbmodule.c` composed with `xim.c` | events on the wire and events read by the library are two queues; the two round trips of `fcitx_xcb_update_keymap` are two steps |
| `Dispatch` | `fcitx_instance_event_dispatch`, `ipc_handle_event`, `xim_handle_event` | the class masks with their values |
| `Utf8`, `Strings`, `Keys` | `utf8.c`, `stringutils.c`, `stringlist.c`, `stringmap.c`, `key.c` | operators |
| `Collections`, `UtContainers` | `dict.c`, `array.c`, `memory-pool.c`, `bitset.h`, `uthash.h`, `utarray.h` | operators that return the container with what it freed and handed out |
| `Sorting` | `sort_common.h`, `msort_r.c`, `qsort_r.c`, the sorts of `list.c` and `uthash.h`, the search of `misc.c` | operators; recursion by functions only |
| `Config`, `Arguments` | `fcitx-config`, command line and calls between addons | operators |
| `Paths`, `Languages` | `standardpath.c`, `fs.c`; `rules.c`, `isocodes.c`, `i18nstring.c`, `ime.c` | operators |
| `PureFunctions` | calls of `utf8.c`, of the sorts and of the search | a state machine that calls the operators of `Utf8` and `Sorting`, with the table of well-formed sequences and what sorted means; recursion by functions only, so that it can be proved about |
| `Utilities` | the libraries above | extends `PureFunctions` by calls of the others, with their reference definitions |
| `MC*` | instances for TLC | symmetry sets, views, constants |
| `*_proofs` | proofs | one per component; `FcitxUtils_proofs` is about the handler table and `PureFunctions`, `MainLoop_proofs` also about `DBusLoop`, `Instance_proofs` about `SharedState` |

How state and actions correspond to the code: variables carry the names of the
struct members, and the comment at each declaration says which; actions carry
the names of the functions without the `fcitx_` prefix. A function that calls
out in the middle (the dispatch of the main loop, init and destroy of an addon,
the two round trips for the keymap) is split there, because other things happen
in between; every other function is one action, with everything it calls. `map`
in `PROJECT.json` gives the lines.

Abstractions worth knowing:

* `InputContext`: the counter of ids goes to `MaxId` instead of 2^32 - 1, and
  wraps there. Texts, rectangles and flag sets are opaque values. The lookup by
  uuid is left out. Listeners do not call back into the manager, as the
  instance's dispatcher does not.
* `SharedState`: a slot has a policy or a copy callback, never both, which is
  how `fcitx_instance_run` registers them (`SlotAssumption`). The value of a
  policy slot is its own key. The set and copy callbacks are those of
  `inputMethodState`; what a local list holds is one value, chosen by the write.
  The reset of the groups, which empties all lists, is in `Dispatch`.
* `MainLoop`: times are relations to the clock (future, now, past); `Tick`
  moves a timer along. The equality that `prepare` and `dispatch` treat
  differently is a state of its own. Events are identified by themselves, not by
  their address in the pool.
* `DBusLoop`: libdbus is external. It adds a watch for reading and one for
  writing, switches them as it likes, at most once in the callback of the same
  watch, and asks for a wake-up with every message it receives. When the other
  side closes the connection, which any call of libdbus may notice, inside or
  outside of a callback, it takes the watches back one by one, frees them and
  queues a last message. Messages only differ in whether they end the program.
* `AddonManager`: the order of the dictionary is the order of `Files`; one file
  may name an addon that another file has named before. Libraries, metadata and
  init may fail, by choice. Addons are loaded once.
* `Ipc`: a match rule is in force once the bus has read the request; the bus
  tells only of names that a rule in force asks for. Messages are not
  lost or reordered on one connection, as D-Bus guarantees. Ids of destroyed
  contexts are given out again first, as by the manager, and a DestroyIC may name
  any id that was ever given out, whoever has it by now. The ids of other
  frontends, which the manager shares out too, are left out.
* `Instance`: a process is a program counter through `main`; connecting,
  setting up and asking for the name may each fail. A signal handler may run at
  any point. `fcitx -v` and `-h`, which return no instance, are left out.
* `X11`: a layout is a number that grows with every change, modifiers are one
  bit. There is one connection, as in the program. The server of
  libxcb-imdkit and the X server are external. How the rules of the X server are
  taken apart is left out: the loop of `xcbmodule.c:509-514` runs until it has
  both seen the end and filled `names[5]`, so it writes past the array for more
  than five names and reads past the text for fewer.
* `Utilities`: a hash table has 2 buckets to start with and takes 2 items per
  chain, a page has 8 bytes, insertion sort ends at 3 elements, and a batch of
  replacements has 2 matches, so that growth, fallback and batch boundaries are
  reached with short inputs; each is a constant. Hash functions are given, and
  `HashFill` adds many items that collide. Characters are names, so that an
  escaped newline and a quote are different values without text.

## Runs

| run | bounds | distinct states | checks |
|---|---|---|---|
| `input_context` | 3 ids, 2 local groups | 13 238 | ids, focus and what listeners hear |
| `input_context_data` | 2 ids, 1 group, 2 values each | 34 719 | a reused context is fresh |
| `shared_state` | 3 contexts, 2 values, 2 policies, 1 shared slot | 175 912 | lists, dictionaries, who shares |
| `handler_table` | 2 keys, 2 handlers, pool 2 to 4 | 2 746 | links, free chain, refinement of `HandlerMap` |
| `main_loop` | 2 timers, 2 IO events, 1 descriptor, 3 registrations | 270 452 | counts, what is called, liveness |
| `dbus_loop` | 2 timers, 2 IO events, 2 descriptors, 6 registrations, 2 messages and the loss of the connection | 251 390 | watches and wake-ups, dispatch |
| `addon_manager` | 3 addons, any dependencies, 2 overrides | 159 517 | dependencies, ids, termination |
| `ipc` | 2 clients, 3 calls that create, 3 messages | 918 388 | bookkeeping with ids given out again, orphans, end |
| `x11` | 2 contexts, 2 layouts, 3 events | 565 853 | keyboard state, lifetimes, events |
| `instance` | 2 processes, 2 signals, 1 retry | 190 360 | shutdown, one process stays, signals |
| `utilities` | strings to 4, sequences to 5, 4 calls per container, 6 per hash table | 72 730 | libraries against references |
| `dispatch` | 2 contexts, 1 group | | a disagreement, below |

Why the bounds are enough to be interesting: three ids let the counter wrap
with an id in use, one free and one drawn; two local groups and the global one
are all the kinds of group a focus can move between; three contexts make a list
that survives the departure of a member; a pool of two grows with slots in use
and with slots free; two timers and two IO events let a callback remove the
event itself, the next one and the previous one, and the third registration
reuses what was removed; six registrations let both watches be switched off and
on again around wake-ups; three addons give chains, forks and cycles of
dependencies; two clients and three creations give one client with one context
and one with two, and a client that gets the id of another's destroyed context
while a second call to destroy it is on its way; three events put a layout change, a modifier and a key on the wire in
any order around the round trips; two processes replace each other, and a third
party may own the name. Strings of four characters hold two escapes, two
overlapping matches or a quoted value with a blank; UTF-8 input has the bytes at
the ends of every range that the code or the Unicode table tells apart.
Every bound is a named constant.

Symmetry is used where the values are only compared (groups, contexts, values,
slots, keys, handlers), and only in runs without liveness. The views leave out
variables that no action reads and only action properties look at.
Deadlock is checked for `shared_state`, `handler_table` and `utilities`; the
other systems may really stop (freed, exited, out of bounded input).

### What the runs show

* Ids are neither lost nor handed out twice across wrap-around and reuse. The
  focus pointer of a group and the flag of a context always agree; the global
  and a local group are never in focus together; a listener that follows the
  events knows the focus and hears of the old one's loss first.
* The lists of a policy are exact, their dictionary entries live as long as
  somebody is on the list, and shared state reaches the list and nobody else.
  What sharing keeps equal is whether the contexts of a list have an input
  method state and a local list in it, and what a local list holds when it comes
  into being. The copy callback (`instance.c:338`) leaves an existing local list
  alone, so from the second write on the contents may differ.
* The handler table implements a map from keys to sequences whatever the order
  of removals and growth.
* The main loop never stands at a freed event, releases each event once, calls
  no removed event and nothing after quit. A due timer fires. A ready
  descriptor is served provided that the loop polls again and again; it does
  not poll while a timer is due (`mainloop.c:198`), so a repeating timeout of 0
  starves descriptors, and the property says so.
* A watch of libdbus has one event exactly while it is enabled, also when it is
  switched off, or taken back with the connection, in the callback of that event.
  In that case, and in no other, the event outlives the watch, until the callback
  returns. Its notify (`dbusmodule.c:164`) then writes to the watch, which libdbus
  has freed if the connection broke in the callback: a write after free that the
  program has and the property names as its exception. A wake-up on top of a
  pending one loses nothing, and what was received is dispatched.
* What an addon depends on is loaded while the addon is in use. After the last
  pass, an addon that is enabled and not loaded waits for something that is not
  loaded or that is listed after it: a successful load asks for no other pass
  (`addon.c:449`), so the order of the files matters.
* The places that record a client's contexts stay in step, also when a late or
  repeated DestroyIC meets the id again in the hands of another client: nothing
  in the code keeps that client's context from being destroyed (`ipc.c:222`,
  `inputcontext.c:292`), but the books then say so everywhere. A context
  outlives its client only if the client left before the bus had read the
  request to watch it (`ipc.c:192`).
* The keyboard state converges to the keyboard's however its changes fall
  between the round trips, no key is looked up in a layout older than the one
  it was typed in. Events that a round trip of a callback reads early are
  handled in that callback. Those read early while the connection is set up,
  before there is a callback (also by `xcb_im_open_im`), wait for the next byte
  from the server; `EventsAreHandled` does not speak of them.
* No context ever refers to a focus group that is gone and no watcher to a
  frontend that is gone. A connection that breaks leaves more behind:
  `fcitx_xcb_connection_close` removes no filter, so that the table keeps the
  entries of the freed connection under its address, and the XIM server stays
  with its freed connection, its group and its input method. It should have been
  destroyed, without its window ("connection is going to close, what's the point
  of destroy window?", `xim.c:246`), but the closed callback returns if it *finds*
  the server (`xim.c:231`). `DanglesAfterBreakOnly` says that the server always
  stays, that it and the filters are all that dangles, that the loop never comes to
  them again, and that the first use is the end of the frontend, where
  `fcitx_xim_server_destroy` works on the freed connection: the model lets the
  program go on or die there. (A connection that closes without a server ends the
  program, by the same test. The model has that end.)
* A shutdown during the load of addons is kept; of several processes at most
  one stays; a terminating signal that fits into the pipe ends the process.
* `utilities`: `fcitx_utf8_check_string` accepts exactly the well-formed strings
  without noncharacters; escaping, splitting and hotkeys survive their text
  form; values in containers end in one place; sorts agree; configurations come
  back from their files; files are found in the order of the directories.

### A disagreement between the code and what is written about it

* `dispatch`: `event.h` says that events of an input method are "captured by
  frontend, or module". `fcitx_instance_event_dispatch` compares their type
  under a mask that has none of the class bits (`event.h:32`), so that every
  branch is dead and what an input method sends reaches nobody. `xim.c:290`
  tests in the same way.

### Known behaviour that the models have as it is, or stay clear of

Freed focus groups make their contexts independent, where the comment at
`struct _FcitxInputContextFocusGroup` says global. New surrounding text is
announced as a FocusIn event (`inputcontext.c:561`). The dispatch of IO events
uses a pointer into a pool that may have moved (`mainloop.c:278`; `objpool.h`
says to fetch it each time). `fcitx_utils_string_replace` copies the text between
two matches of a batch from behind the match (`stringutils.c:379`), which damages
values with several escapes when they are saved; a value in quotes without a
blank loses the quotes (`iniparser.c:104` and `164`). `fcitx_utils_strrstr` finds
a needle of several characters only at the start (`stringutils.c:292`).
`fcitx_config_option_set_list` leaves the tail of a longer list
(`helper.c:309`). The properties exclude these cases by conditions of their own
(`Savable`, `GapsEmpty`), or state what the code does instead.

### Fairness

* `MainLoop`, `DBusLoop`: weak fairness of the thread's own steps and of
  callbacks and calls of libdbus returning; the code has no blocking call but `ppoll`. Strong
  fairness of a poll that returns: a poll can be interrupted by signals, but not
  every time. Weak fairness of the clock in `MainLoop`.
* `AddonManager`: the thread goes on; init and destroy return.
* `Ipc`: the server dispatches what arrives, and ends once it is shut down.
  Nothing is assumed of clients or of the bus.
* `X11`: the loop calls the callback of a ready descriptor (`ReadyIsServed`),
  and a callback goes on until it returns. Nothing is assumed of the X
  server, of clients or of the shutdown.
* `Instance`: the thread goes on, also through the retries, which are bounded;
  its loop serves the pipe and the bus, which is what `ReadyIsServed` of
  `MainLoop` establishes. Nothing is assumed of signals or of other programs.

## Proofs

Proved for every value of the constants, from the named assumptions in the
modules that declare them (finite or infinite sets of groups, contexts, addons,
events and processes; distinct special values; bounds that are numbers).

* `FcitxList_proofs`: what appending, prepending and removing do to the set of
  objects on a list, and that they keep it free of duplicates; and the induction
  that the proofs about recursive functions use (`CountingUp`, `StepsExist`,
  `FlattenedInSteps`), in a first-order form: < is well founded on the numbers,
  so a set of counterexamples has a least member, below which there is none.
* `InputContext_proofs`: types, `IdsConserved`, `FocusExact`,
  `NewContextIsFresh`, and that an allocation fails only when every id is in
  use. The agreement of pointer and flag and the exclusion of global and local
  focus need each other: a move takes the focus from the other side of the
  divide, and only because pointer and flag agree does clearing the pointers
  clear the flags. A reused context is fresh because creation resets its data
  and `FocusConsistent` says that a destroyed one has no group and no focus.
  For the listener's properties a log leads from one view to another (`Leads`),
  logs are joined (`LeadsOn`), and every operation's log is shown to lead from the
  view of the state before to that of the state after. Clearing the scopes of
  a global focus and ending all contexts need induction along the list:
  nobody leaves twice, because each scope has its own holder and no group and no
  context is listed twice. The one exception is the announcement of a new
  surrounding text as a FocusIn: `OnlyTextsMislead` holds for any texts and
  excludes that step, `ListenersFollow` and `OldHoldersLeaveFirst` assume that no
  client claims to have texts (`NoTexts`), as the run does. A FocusIn is the last event of its
  operation, so its view is that of the new state, where `FocusExact` excludes
  rivals.
* `FcitxUtils_proofs`, the handler table: types, `TableExact`, and that the linked slots implement
  `HandlerMap`, step by step. The walk along the links is a recursive function.
  The invariant `Inv` avoids it: some sequence has every free slot once, in the
  order of the free chain (`PoolLinked`), and for every key a sequence has its
  slots once and in the order of the links, with `first`, `last` and `prev` as
  the sequence has them (`IsList`). That a walk along the links gives this
  sequence is shown once, by induction over the places. Each operation is then shown
  to do to these sequences what it does to those of the map: unlinking closes a
  gap, the two additions put an end on, freeing a key takes its sequence away and
  puts it, slot by slot, in front of the free chain. The free slots and the
  slots in use are the slots of the array, and a full pool doubles, so an id
  handed out is never in use.
* `FcitxUtils_proofs`, UTF-8: `Utf8WellFormed` for strings of any length and every
  character. The run tries the bytes at the ends of the ranges; the proof has
  no such selection. Three arguments carry it. First, one character: the code
  reads bits and compares the value with the shortest length and the valid
  code points, the Unicode table has ranges of bytes. With the bits written out
  as a sum, each row of the table is a comparison of the same digits
  (`TwoMeans`, `ThreeMeans`, `FourMeans`, together `CharIsGood`), and five or six
  bytes are never accepted. Second, the walk: the places a step leads to are
  closed under the step, and no place lies inside a character (`EndsAre`,
  `NoneBetween`), so that a string is good exactly when some division into
  characters of the table exists (`GoodByPlaces`, `CheckAcceptsWellFormed`). A
  beginning that cuts no character is walked as the whole is (`PrefixNext`,
  `PrefixGood`), which gives the bounded copy and its count. Third, an encoding
  holds the base-64 digits of its character, the highest one in what the first
  byte keeps (`RoomFor`), and reading puts them together again
  (`BitsOfEncoding`). `RoomFor` is false for the values of 27 bits, which
  `fcitx_ucs4_to_utf8` gives five bytes with room for 26 (`utf8.c:130`);
  `Encodable` leaves them out. They lie far beyond Unicode.
* `FcitxUtils_proofs`, sorting: `SortsAgree` for sequences of any length and any
  integers as keys. Each loop has an invariant that says what was moved so far:
  the element that sinks into the sorted part (`SunkTo`), the two halves and what
  was merged of them (`MergedTo`), the runs of a pass of the list and hash table
  sorts (`RunsOf`, `EmptyAfter`), the partition around the pivot (`PartAt`), the
  window of the binary search (`NarrowedTo`). The sorts that divide are functions
  on the lengths up to that of the sequence: such a function is shown to exist and
  to be determined by its equation (`DividedExists`), and what it makes of a
  sequence follows from what it makes of shorter ones (`ByLength`). The stable
  sorts agree because elements that also compare by their place have only one
  order (`UniqueOrder`).
* `MainLoop_proofs`: types, `RefsExact`, `OnlyWantedIsCalled`, and `EventsPaired`
  of `DBusLoop`. The counts are inductive with where the dispatch stands
  (`Standing`): it holds an event only in a callback or between the entries of
  a list, and the entry it stands at is linked. What it is about to call is
  therefore referenced, and a removal that leaves the reference takes the event
  from its owner at once, which is what the call tests. `EventsPaired` needs, on
  top of that invariant of the loop, that while a removed event is still in
  its callback its watch is not switched on (`Releasing`), so that the release
  after the callback clears the data of the right watch. That only this event
  outlives its watch follows from the counts: nobody else holds it.
* `AddonManager_proofs`: types, `DependenciesUsable`, `FrontendIdsExact`,
  `OnlyOrderKeepsOut`, and that init runs at most once. The invariant relates `loadedAddons` to `loaded`:
  the dependencies of an addon come before it in the order of loading, so that
  unloading from the end destroys no addon another one still needs; an
  addon that was tried is loaded or disabled, so that no pass tries it again;
  and the frontends loaded so far are found under their ids, while the id of
  one that is initialising is the next to be given. For the order it is enough
  to say of the addons a pass has visited that each waits for one not loaded:
  when that one is loaded later in the pass, it stands later in the dictionary.
* `Ipc_proofs`: `SendersExact`, `MatchesExact` and `OrphansAreExpected`. That
  an id from the free list or the counter is no live context's (`NewIdIsFree`,
  `DestroyedIsFree`) keeps the contexts of the senders apart, whoever asked for
  the destruction. The rules follow from the first: a name is watched exactly while it has an entry,
  so that each request reverses the one before it for its name, and reading the
  oldest only moves it from the requests to the rules. The third needs that
  the call of a client stands in the inbox before the news of its leaving
  (`CallsAreAhead`): otherwise a context would be made for a client after the
  only signal that could remove it.
* `X11_proofs`: types, `DanglesAfterBreakOnly`, `KeySeesLayout`, `KeyStateCurrent`. The
  invariant says which of the connection, the server and their table entries
  live together at each point of the thread (`Alive`), that an event waits for
  every change of the keyboard that the kept state does not show, and that these
  events stand in the order of the changes; so the last event taken leaves the
  state current, and a key behind a change finds it applied.
* `Instance_proofs`: types, `ShutdownIsKept` and `OneStays`. The invariant adds
  when `running` is set, that only a refused name asks for a shutdown before
  the loop, and who is connected at which point. It is also about the property
  slots of `SharedState` that the instance registers: types and `ListsExact`,
  which is inductive with the types, since that a linked context's value is the
  key of its list is what makes the removal of the dictionary entry, under a key
  computed from the value, remove the right one; and from it the two action
  properties, `SharingConverges` and `SharingStaysOnTheList`.

Assumptions that are more than types: `RequestAssumption`, that the events an
operation merely forwards are not those of the life and the focus, which are types
of their own in `event.h`; `SlotAssumption`, above; `Utf8Assumption`, that a string
holds no zero byte, and the range of characters named above; `SortAssumption`, that
keys are integers and that insertion sort takes over before a part has fewer than two
elements (10 in the code); and `NoTexts` in the two
theorems that say so.

Only model-checked: all liveness properties (`DueTimerFires`, `ReadyIsServed`,
`MessagesAreDispatched`, `EventsAreHandled`, `LoadTerminates`,
`AnnouncedLeaveIsFinal`, `TermIsHonoured`, `ReplacedEnds`), which are beyond the
prover, and the properties of the other libraries (`Utilities`
without `Utf8WellFormed` and `SortsAgree`), whose operators are declared `RECURSIVE`: the prover has no SMT backend in a module
that reaches one. Induction over numbers is within reach where the recursion is a
recursive function, as above; the library's induction rules, which take an
operator as a parameter, are not.

## Not modelled

The Wayland module is not part of the build. The keyboard input method and most of
the user interface are declared and empty; `fcitx_input_method_manager_load_metadata`
drops what it reads. The timeouts of libdbus come and go within its blocking
calls. `fcitx_dict_remove_data` takes an item out of its table twice, which reads
freed memory; only a second load of addons, which the program does not do,
calls it. The handlers of ISO 3166 fill a table nobody reads. The dynamic linker
and the tools of the build have no protocol to check; of the generated key tables
the rows at the ends of the ranges are modelled. Running out of memory is left
out, and with it the failure to register an object path (`ipc.c:184`).

## What is left

The operators of the other libraries (`Strings`, `Keys`, `Collections`, `Config`,
`Paths`, `Languages`), written as recursive functions as those of `Utf8` and
`Sorting` are, would come within reach of the prover. A model of the pool's addresses in the main loop would turn the stale
pointer of `mainloop.c:278` into a run.
