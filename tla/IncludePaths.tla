---------------------------- MODULE IncludePaths ----------------------------
(***************************************************************************)
(* Paths, path_util.c, and the directories headers are looked for in,      *)
(* ipath.c, as cli_options.c, include.c and config_file.c use them.        *)
(*                                                                         *)
(* A path is its components, "." and ".." among them, and whether it is    *)
(* absolute; a real path is the components alone.                          *)
(***************************************************************************)
EXTENDS Integers, SequencesExt

CONSTANTS
  Component,    \* what paths are made of
  Dirs, Files,  \* the file system: real paths,
  Links         \* and links, a function from them to real paths

NotThere == <<"NULL">>

\* Links that lead to nothing are like none.
ASSUME FileSystemAssumption ==
  /\ {".", "..", "NULL"} \subseteq Component
  /\ <<>> \in Dirs
  /\ \A p \in (Dirs \ {<<>>}) \cup Files \cup DOMAIN Links :
       /\ p \in Seq(Component) \ {<<>>, NotThere}
       /\ Front(p) \in Dirs /\ Last(p) \notin {".", ".."}
  /\ Dirs \cap Files = {} /\ DOMAIN Links \cap (Dirs \cup Files) = {}
  /\ Links \in [DOMAIN Links -> Dirs \cup Files]

VARIABLES
  cwd,     \* the current directory, a real path
  ipaths   \* the real paths of the directories, in order

pathVars == <<cwd, ipaths>>

Path(abs, comps) == [abs |-> abs, comps |-> comps]
NoPath == Path(FALSE, <<>>)

\* Where a component leads from a real path.
EnterEntry(real, comp) ==
  LET next == Append(real, comp)
  IN  CASE real \notin Dirs -> NotThere
        [] real \in Dirs /\ comp = "." -> real
        [] real \in Dirs /\ comp = ".." -> IF real = <<>> THEN real ELSE Front(real)
        [] OTHER -> IF next \in DOMAIN Links THEN Links[next]
                    ELSE IF next \in Dirs \cup Files THEN next ELSE NotThere
ResolvedIn(dir, path) ==
  FoldLeft(EnterEntry, IF path.abs THEN <<>> ELSE dir, path.comps)
realpath(path) == ResolvedIn(cwd, path)

path_dirname(path) ==
  IF Len(path.comps) > 1 THEN Path(path.abs, Front(path.comps))
  ELSE IF path.abs THEN Path(TRUE, <<>>) ELSE Path(FALSE, <<".">>)

\* A relative path that ".." leaves becomes absolute.
Normalized(path, comp) ==
  CASE comp = "." -> path
    [] comp = ".." -> IF path.comps # <<>> THEN Path(path.abs, Front(path.comps))
                      ELSE IF path.abs \/ cwd = <<>> THEN Path(TRUE, <<>>)
                      ELSE Path(TRUE, Front(cwd))
    [] OTHER -> Path(path.abs, Append(path.comps, comp))

\* NoPath for a relative path that ends where it begins, unless it is just ".":
\* nothing is put into the buffer then.
path_normalize(path) ==
  IF path = Path(FALSE, <<".">>) THEN Path(TRUE, cwd)
  ELSE FoldLeft(Normalized, Path(path.abs, <<>>), path.comps)

-----------------------------------------------------------------------------

ipath_add(added, path) ==
  LET real == realpath(path)
  IN  IF real \in Dirs \ Range(added) THEN Append(added, real) ELSE added

\* The real path of what a relative name is the name of.
ipath_find(name) ==
  LET found == {i \in DOMAIN ipaths :
                  realpath(Path(TRUE, ipaths[i] \o name)) # NotThere}
  IN  IF found = {} THEN NotThere
      ELSE realpath(Path(TRUE, ipaths[Min(found)] \o name))

\* Mutant: the first of the directories a file is below is left out of its name.
LongestOf_first(is) == Min(is)
LongestOf(is) ==
  CHOOSE i \in is : \A j \in is : Len(ipaths[j]) <= Len(ipaths[i])

\* The root directory is none that a file is below: a "/" would have to follow it.
IsBelow(real, dir) == dir # <<>> /\ IsPrefix(dir, real)

ipath_relativize(path) ==
  LET real == realpath(path)
      there == IF real = NotThere THEN path ELSE Path(TRUE, real)
      above == {i \in DOMAIN ipaths : there.abs /\ IsBelow(there.comps, ipaths[i])}
  IN  IF above = {} THEN there
      ELSE Path(FALSE, SubSeq(there.comps, Len(ipaths[LongestOf(above)]) + 1,
                              Len(there.comps)))

tidy_File_getRelativePath(path) == ipath_relativize(path_normalize(path))
=============================================================================
