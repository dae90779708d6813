---------------------------- MODULE CommandLines ----------------------------
(***************************************************************************)
(* Command lines as the manual has them, and what CliArgs promises to make *)
(* of them.                                                                *)
(*                                                                         *)
(* A line is a sequence of items and a source file, if any.  An item is    *)
(* its arguments, what the compiler is to get of them, the options they    *)
(* are for include-tidy, the language they give, and whether it is right.  *)
(***************************************************************************)
EXTENDS CliArgs

Item(args, kept, gives) ==
  [args |-> args, kept |-> kept, gives |-> gives, lang |-> "", right |-> TRUE]
Tidy(args, gives) == Item(<<<<"-", "Xtidy">>>> \o args, <<>>, gives)
Wrong(args) == [Item(args, args, <<>>) EXCEPT !.right = FALSE]
Language(args, lang) == [Item(args, args, <<>>) EXCEPT !.lang = lang]

SourceArg(source) == IF source = <<>> THEN <<>> ELSE <<source>>
Line(items, source, search, dir) ==
  [items |-> items, source |-> source, search |-> search, cwd |-> dir,
   argv |-> FlattenSeq([i \in DOMAIN items |-> items[i].args]) \o SourceArg(source)]

-----------------------------------------------------------------------------

Kept == FlattenSeq([i \in DOMAIN line.items |-> line.items[i].kept])
Gives == FlattenSeq([i \in DOMAIN line.items |-> line.items[i].gives])
Gave(val) == SelectSeq(Gives, LAMBDA o : o.val = val)

\* The first compiler and language count, right or not; the extension unless one is
\* given.
Lang ==
  LET given == SelectSeq(line.items, LAMBDA item : item.lang # "")
  IN  IF given # <<>> /\ given[1].lang # "none" THEN given[1].lang ELSE LangOf(line.source)
IsCompilerCalled ==
  Lang # "none" /\ (Gave("C") # <<>> => Gave("C")[1].value # <<"none">>)
Added == IF IsCompilerCalled THEN line.search ELSE <<>>

IsRight == \A i \in DOMAIN line.items : line.items[i].right
IsOnly(val) ==
  /\ line.source = <<>> /\ Kept = <<>>
  /\ \A i \in DOMAIN Gives : Gives[i].val = val

\* How the reading of a right line ends.
Status ==
  IF Lang \notin {"c", "c++", "none"} THEN "EX_USAGE"
  ELSE IF IsCompilerCalled /\ line.search = <<"fails">> THEN "EX_UNAVAILABLE"
  ELSE IF Gave("h") # <<>> THEN IF IsOnly("h") THEN "EX_OK" ELSE "EX_USAGE"
  ELSE IF Gave("v") # <<>> THEN IF IsOnly("v") THEN "EX_OK" ELSE "EX_USAGE"
  ELSE IF Lang = "none" \/ line.source = <<>> THEN "EX_USAGE"
  ELSE IF \/ Gave("d") = <<>>
          \/ ResolvedIn(line.cwd, PathOf(Last(Gave("d")).value)) \in Dirs
  THEN "read" ELSE "EX_IOERR"

Statuses == {"EX_OK", "EX_USAGE", "EX_UNAVAILABLE", "EX_IOERR"}
IsRead == pc \in {"paths", "config", "include", "named", "abort"}

\* libclang gets the arguments that are not include-tidy's, in order and after its
\* own, with the compiler's directories last, and not the source; include-tidy gets
\* its own with their values, and every directory.  A line is refused if anything in it
\* is wrong, if the compiler fails, or if a source, its language or --directory does.
LineIsRead ==
  /\ IsRead =>
       /\ IsRight /\ Status = "read"
       /\ source_path = line.source /\ source_lang = Lang
       /\ opts = Gives \o [i \in DOMAIN Added |-> Opt("I", <<Added[i]>>)]
       /\ argv = LIBCLANG_ARGS \o Kept \o Isystem(Added)
                   \o IF pc = "paths" THEN <<line.source>> ELSE <<>>
  /\ pc \in Statuses =>
       IF IsRight THEN pc = Status
       ELSE \/ pc = "EX_USAGE"
            \/ pc = "EX_UNAVAILABLE" /\ line.search = <<"fails">>

-----------------------------------------------------------------------------
(* Names of headers *)

\* The directories given, but what is none, each once and in the order in which they
\* are first given, by whatever path.
IsInOrder ==
  LET paths == include_paths
      at(dir) == {i \in DOMAIN paths : realpath(paths[i]) = dir}
  IN  /\ Range(ipaths) = {dir \in Dirs : at(dir) # {}} /\ IsInjective(ipaths)
      /\ \A i, j \in DOMAIN ipaths : i < j => Min(at(ipaths[i])) < Min(at(ipaths[j]))

Holding(name) ==
  {i \in DOMAIN ipaths : realpath(Path(TRUE, ipaths[i] \o name)) # NotThere}
Above(real) == {i \in DOMAIN ipaths : IsBelow(real, ipaths[i])}

\* What the names of headers rely on: a link to a directory is beside it, as ".." is
\* taken from the name, and no directory has the name of a file.
DirLinks == {l \in DOMAIN Links : Links[l] \in Dirs}
LinksLieBeside == \A l \in DirLinks : Links[l] # <<>> /\ Front(Links[l]) = Front(l)
FilesHaveOwnNames ==
  \A file \in Files : \A dir \in (Dirs \ {<<>>}) \cup DirLinks : Last(dir) # Last(file)

\* A header gets a name it is found by, if only one directory has a file of that
\* name, and the shortest; the program gives up only on headers in no directory it
\* knows, and on a source whose directory ends where it begins.
NamesAreFound ==
  LET real == realpath(header)
      name == include_name.comps
  IN  /\ pc \in {"config", "include"} => IsInOrder
      /\ pc = "named" =>
           /\ ipath_find(name) \in Files
           /\ Cardinality(Holding(name)) = 1 => ipath_find(name) = real
           /\ \A i \in Above(real) : Len(name) <= Len(real) - Len(ipaths[i])
      /\ pc = "abort" =>
           IF header = NoPath THEN realpath(source_dir) \in {cwd, NotThere}
                              ELSE Above(real) = {}
=============================================================================
