---------------------------------- MODULE Paths ----------------------------------
(***************************************************************************)
(* Files as lib/fcitx-utils/standardpath.c and fs.c find them.             *)
(*                                                                         *)
(* A path is a sequence of names and whether it starts at the root.  A     *)
(* file system is its directories, files and the directories nothing can   *)
(* be made in, all as sequences of names from the root.                    *)
(***************************************************************************)
LOCAL INSTANCE Integers
LOCAL INSTANCE Sequences
LOCAL INSTANCE SequencesExt
LOCAL INSTANCE FiniteSetsExt
LOCAL INSTANCE Functions

NOPATH == [abs |-> FALSE, names |-> <<"none">>]
Path(abs, names) == [abs |-> abs, names |-> names]

----------------------------------------------------------------------------
(* Cleaning.  A ".." takes back the name before it, which has to have a    *)
(* slash before it; levels counts the names that were ever added.          *)
CleanStep(st, name) ==
  CASE name = "." -> st
    [] name = ".." /\ st.levels > 0 /\ Len(st.names) >= st.least -> [st EXCEPT !.names = Front(@)]
    [] name = ".." /\ ~(st.levels > 0 /\ Len(st.names) >= st.least) -> [st EXCEPT !.names = Append(@, name)]
    [] OTHER -> [st EXCEPT !.names = Append(@, name), !.levels = @ + 1]

clean_path(path) ==
  Path(path.abs, FoldLeft(CleanStep, [names |-> <<>>, levels |-> 0, least |-> IF path.abs THEN 1 ELSE 2],
                          path.names).names)

----------------------------------------------------------------------------
(* Directories.                                                            *)
RECURSIVE Resolve(_, _)
(* Where a path leads from the root: the kernel's view.                    *)
Resolve(at, names) ==
  CASE names = <<>> -> at
    [] names # <<>> /\ Head(names) = "." -> Resolve(at, Tail(names))
    [] names # <<>> /\ Head(names) = ".." -> Resolve(IF at = <<>> THEN at ELSE Front(at), Tail(names))
    [] OTHER -> Resolve(Append(at, Head(names)), Tail(names))

Place(path) == Resolve(<<>>, path.names)

isdir(fs, place) == place = <<>> \/ place \in fs.dirs

mkdir(fs, place) ==
  IF isdir(fs, place) \/ place \in fs.files \/ ~isdir(fs, Front(place)) \/ Front(place) \in fs.denied THEN fs
  ELSE [fs EXCEPT !.dirs = @ \cup {place}]

RECURSIVE MakeEach(_, _, _)
(* Only a file in the way stops the loop; a directory that could not be    *)
(* made does not.                                                          *)
MakeEach(fs, names, n) ==
  LET place == Resolve(<<>>, SubSeq(names, 1, n))
  IN  CASE n > Len(names) -> [fs |-> fs, ok |-> TRUE]
        [] n <= Len(names) /\ place \in fs.files -> [fs |-> fs, ok |-> FALSE]
        [] OTHER -> MakeEach(mkdir(fs, place), names, n + 1)

make_path(fs, path) ==
  IF isdir(fs, Place(path)) THEN [fs |-> fs, ok |-> TRUE] ELSE MakeEach(fs, clean_path(path).names, 1)

----------------------------------------------------------------------------
(* The directories a program looks in.  env gives variables the paths of   *)
(* their value; an empty sequence stands for one that is unset or empty.   *)
HomeDir(env, var, default) == IF env[var] # <<>> THEN env[var][1] ELSE Path(TRUE, env["HOME"][1].names \o default)

(* The directory is XDG_RUNTIME_DIR, or one made under TMPDIR; its mode is *)
(* then compared with 0700 including its file type, which never fits, so   *)
(* that the result is always NULL.                                         *)
RuntimeDir == NOPATH

(* A variable that is set and empty gives no directories in the code; the  *)
(* environments considered do not have one.                                *)
DirList(env, var, default, first) == first \o (IF env[var] # <<>> THEN env[var] ELSE default)

standard_path_new(env) ==
  [configHome |-> HomeDir(env, "XDG_CONFIG_HOME", <<".config">>),
   dataHome |-> HomeDir(env, "XDG_DATA_HOME", <<".local", "share">>),
   cacheHome |-> HomeDir(env, "XDG_CACHE_HOME", <<".cache">>),
   runtimeDir |-> RuntimeDir,
   configDirs |-> DirList(env, "XDG_CONFIG_DIRS", <<Path(TRUE, <<"etc", "xdg">>)>>, <<>>),
   dataDirs |-> DirList(env, "XDG_DATA_DIRS", <<Path(TRUE, <<"usr", "local", "share">>), Path(TRUE, <<"usr", "share">>)>>, <<Path(TRUE, <<"datadir">>)>>),
   addonDirs |-> DirList(env, "FCITX_ADDON_DIRS", <<Path(TRUE, <<"addons">>)>>, <<>>)]

(* The first directory and the others; the ones for configuration files    *)
(* are those for data.                                                     *)
standard_path_get(sp, type) ==
  CASE type = "Config" -> [first |-> sp.configHome, list |-> sp.dataDirs]
    [] type = "Data" -> [first |-> sp.dataHome, list |-> sp.dataDirs]
    [] type = "Cache" -> [first |-> sp.cacheHome, list |-> <<>>]
    [] type = "Runtime" -> [first |-> sp.runtimeDir, list |-> <<>>]
    [] type = "Addon" -> [first |-> NOPATH, list |-> sp.addonDirs]

construct_path(base, names) == clean_path(Path(base.abs, base.names \o names))

----------------------------------------------------------------------------
(* Opening.  flag is a subset of Writable, Append, LocateAll.              *)
Writes(flag) == flag \cap {"Writable", "Append"} # {}

(* A directory can be opened for reading too.                              *)
fopen(fs, place, flag) ==
  IF Writes(flag)
  THEN LET ok == isdir(fs, Front(place)) /\ place \notin fs.dirs /\ (place \in fs.files \/ Front(place) \notin fs.denied)
       IN  [fs |-> IF ok THEN [fs EXCEPT !.files = @ \cup {place}] ELSE fs, ok |-> ok]
  ELSE [fs |-> fs, ok |-> place \in fs.files \cup fs.dirs]

(* If a file to write has no directory, the directory is made first.       *)
OpenedAt(place, opened, fs) == [fs |-> IF opened.ok THEN opened.fs ELSE fs, found |-> IF opened.ok THEN <<place>> ELSE <<>>]

OpenInMade(place, made, flag) ==
  IF made.ok THEN OpenedAt(place, fopen(made.fs, place, flag), made.fs) ELSE [fs |-> made.fs, found |-> <<>>]

OpenPath(fs, full, place, flag) ==
  IF ~fopen(fs, place, flag).ok /\ Writes(flag) /\ ~isdir(fs, Front(place))
  THEN OpenInMade(place, make_path(fs, Path(full.abs, Front(full.names))), flag)
  ELSE OpenedAt(place, fopen(fs, place, flag), fs)

OpenClean(fs, full, flag) == OpenPath(fs, full, Place(full), flag)

try_open(fs, base, names, flag) == OpenClean(fs, construct_path(base, names), flag)

(* The array of results, which a zero entry ends.                          *)
resultSize(flag, first, list) == IF "LocateAll" \in flag THEN 1 + Len(first) + Len(list) ELSE 2

\* Plausible bug: the directories of the system are asked first.
SearchOrderSwapped(first, others) == others \o first

SearchOrder(first, others) == first \o others

ChecksList(dirs, flag) == ~Writes(flag) /\ dirs.list # <<>>

Kept(found, dirs, flag) ==
  IF "LocateAll" \in flag /\ ChecksList(dirs, flag) THEN found ELSE SubSeq(found, 1, Min({1, Len(found)}))

(* NULL has no files and size 0.                                           *)
Located(first, kept, dirs, flag) ==
  [fs |-> first.fs, files |-> kept,
   size |-> CASE kept = <<>> -> 0
              [] kept # <<>> /\ ChecksList(dirs, flag) -> resultSize(flag, first.found, dirs.list)
              [] OTHER -> 2]

LocateIn(first, others, dirs, flag) ==
  Located(first, Kept(SearchOrder(first.found, others), dirs, flag), dirs, flag)

standard_path_locate(fs, sp, type, names, flag) ==
  LET dirs == standard_path_get(sp, type)
      InList(i) == try_open(fs, dirs.list[i], names, flag).found
  IN  LocateIn(IF dirs.first = NOPATH THEN [fs |-> fs, found |-> <<>>] ELSE try_open(fs, dirs.first, names, flag),
               IF ChecksList(dirs, flag) THEN FlattenSeq([i \in DOMAIN dirs.list |-> InList(i)]) ELSE <<>>,
               dirs, flag)

(* An absolute path is opened where it is.                                 *)
LocateAbsolute(fs, place, flag) ==
  LET opened == fopen(fs, place, flag)
  IN  [fs |-> opened.fs, files |-> IF opened.ok THEN <<place>> ELSE <<>>, size |-> IF opened.ok THEN 2 ELSE 0]

(* A file is made in the first directory only, under a name that is new.   *)
create_tempfile(fs, sp, type, names) ==
  LET dirs == standard_path_get(sp, type)
      place == Place(construct_path(dirs.first, names))
  IN  IF dirs.first = NOPATH \/ ~isdir(fs, Front(place)) \/ Front(place) \in fs.denied
      THEN [fs |-> fs, found |-> <<>>]
      ELSE [fs |-> [fs EXCEPT !.files = @ \cup {place}], found |-> <<place>>]

(* All names in a directory of the search path that pass a filter, each    *)
(* located; those that cannot be opened are dropped.                       *)
standard_path_match(fs, sp, type, names, flag, filter) ==
  LET dirs == standard_path_get(sp, type)
      all == (IF dirs.first = NOPATH THEN <<>> ELSE <<dirs.first>>) \o dirs.list
      Listed(base) == {p \in fs.files \cup fs.dirs : p # <<>> /\ Front(p) = Place(construct_path(base, names))}
      entries == {Last(p) : p \in UNION {Listed(all[i]) : i \in DOMAIN all}} \cap filter
      located == [n \in entries |-> standard_path_locate(fs, sp, type, Append(names, n), flag).files]
  IN  Restrict(located, {n \in entries : located[n] # <<>>})
=============================================================================
