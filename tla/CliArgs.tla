------------------------------ MODULE CliArgs -------------------------------
(***************************************************************************)
(* The arguments of the program: cli_options_init() of cli_options.c tells *)
(* those of the compiler, which libclang gets, from those of include-tidy  *)
(* itself, and adds the directories the compiler looks for headers in.     *)
(* ConfigFiles has what the options are set to.                            *)
(*                                                                         *)
(* An argument is a sequence of tokens, as few as the code tells apart: a  *)
(* dash, a letter or part of an option's name, "=", a word.                *)
(***************************************************************************)
EXTENDS IncludePaths, FiniteSets

CONSTANTS
  Token,           \* what arguments are made of
  CommandLine,     \* see CliInit
  PathOf(_),       \* the path an argument is
  LangOf(_),       \* the language of its extension, or "none"
  Name             \* what #include directives name headers

ASSUME CliAssumption ==
  /\ {"-", "I", "isystem", "include-tidy", "D", "Qunused-arguments",
      "Wno-unknown-warning-option"} \subseteq Token
  /\ \A line_given \in CommandLine :
       /\ line_given.argv \in Seq(Seq(Token)) /\ line_given.search \in Seq(Token)
       /\ line_given.cwd \in Dirs
  /\ \A name \in Name : name \in Seq(Component) \ {<<>>}

VARIABLES
  line,            \* the command line and what is around it
  pc,
  argv,            \* without the program's name, like tidy_argv
  tidy_argv,
  argi,            \* of the loop over argv or tidy_argv
  new_argc,        \* in move_tidy_args(), of the next argument that is kept
  source_path, source_lang,
  opts,            \* what getopt_long() returned, with arguments
  operands,        \* and how many arguments it left
  header,          \* the path libclang gives of a header, once one is included
  include_name     \* the name it gets

cliVars == <<pathVars, line, pc, argv, tidy_argv, argi, new_argc, source_path,
             source_lang, opts, operands, header, include_name>>

Option(name, val, has_arg) == [name |-> name, val |-> val, has_arg |-> has_arg]
OPTIONS == <<
  Option(<<"a", "lign-column">>, "a", TRUE),
  Option(<<"a", "ll-includes">>, "A", FALSE),
  Option(<<"co", "lor">>, "k", TRUE),
  Option(<<"co", "m", "ment-", "style">>, "s", TRUE),
  Option(<<"co", "m", "ment-", "symbols">>, "S", TRUE),
  Option(<<"co", "m", "piler">>, "C", TRUE),
  Option(<<"co", "nfig">>, "c", TRUE),
  Option(<<"d", "ebug">>, "D", FALSE),
  Option(<<"d", "irectory">>, "d", TRUE),
  Option(<<"error">>, "e", TRUE),
  Option(<<"help">>, "h", FALSE),
  Option(<<"line-length">>, "l", TRUE),
  Option(<<"no-config-layers">>, "L", FALSE),
  Option(<<"ver", "bose">>, "V", TRUE),
  Option(<<"ver", "sion">>, "v", FALSE)>>
COMPILER == <<"co", "m", "piler">>
Letters == {OPTIONS[i].val : i \in DOMAIN OPTIONS}
ArgLetters == {OPTIONS[i].val : i \in {i \in DOMAIN OPTIONS : OPTIONS[i].has_arg}}

From(arg, i) == SubSeq(arg, i, Len(arg))
IsDashed(arg) == arg # <<>> /\ arg[1] = "-"
\* What can be the argument of an option.
IsWord(args, i) == i \in DOMAIN args /\ args[i] # <<>> /\ args[i][1] # "-"

\* Of the text of a long option: "=" if it has one, and the name before it.
EqualIn(text) == SelectInSeq(text, LAMBDA t : t = "=")
LongName(text) == SubSeq(text, 1, (IF EqualIn(text) = 0 THEN Len(text) + 1 ELSE EqualIn(text)) - 1)

\* In a cluster of short options, where the one that takes the rest is.
TakesRest(arg) ==
  Min({k \in 2..Len(arg) : arg[k] \in ArgLetters} \cup {Len(arg) + 1})

CliInit ==
  /\ line \in CommandLine
  /\ argv = line.argv /\ cwd = line.cwd
  /\ pc = "scan" /\ argi = 1 /\ new_argc = 1
  /\ tidy_argv = <<>> /\ ipaths = <<>> /\ opts = <<>> /\ operands = 0
  /\ source_path = <<>> /\ source_lang = "none"
  /\ header = NoPath /\ include_name = NoPath

-----------------------------------------------------------------------------
(* Looking for the source, the compiler and the language *)

IsXtidy(i) == argv[i] = <<"-", "Xtidy">>
\* Another option follows it.
IsXtidyRight(i) ==
  /\ i + 1 \in DOMAIN argv /\ IsDashed(argv[i + 1])
  /\ \E n \in {2, 3} : /\ Len(argv[i + 1]) >= n /\ argv[i + 1][n] \notin {"-", "="}
                       /\ n = 3 => argv[i + 1][2] = "-"

\* The value of an option at i and where it is, or at = 0 if there is none.
Value(value, at) == [value |-> value, at |-> at]
FollowingValue(i) ==
  IF IsWord(argv, i + 1) THEN Value(argv[i + 1], i + 1) ELSE Value(<<>>, 0)
get_short_opt_value(i) ==
  IF Len(argv[i]) > 2 THEN Value(From(argv[i], 3), i) ELSE FollowingValue(i)
IsShort(letter, i) == IsPrefix(<<"-", letter>>, argv[i])
IsLong(name, i) == IsPrefix(<<"-", "-">> \o name, argv[i])
get_long_opt_value(name, i) ==
  LET equal == Len(name) + 3
  IN  IF Len(argv[i]) >= equal /\ argv[i][equal] = "="
      THEN Value(From(argv[i], equal + 1), IF Len(argv[i]) = equal THEN 0 ELSE i)
      ELSE FollowingValue(i)

\* The first value of an option from i on, or USAGE; each says where it looks.
USAGE == <<"EX_USAGE">>
Taken(v) == IF v.at = 0 THEN USAGE ELSE v.value
get_compiler_path ==
  LET from[i \in 1..Len(argv) + 2] ==
        CASE i > Len(argv) -> <<"clang">>
          [] i <= Len(argv) /\ ~IsXtidy(i) -> from[i + 1]
          [] OTHER ->
               IF ~IsXtidyRight(i) THEN USAGE
               ELSE IF IsShort("C", i + 1) THEN Taken(get_short_opt_value(i + 1))
               ELSE IF IsLong(COMPILER, i + 1) THEN Taken(get_long_opt_value(COMPILER, i + 1))
               ELSE from[i + 2]
  IN  from[1]
get_source_language ==
  LET from[i \in 1..Len(argv) + 1] ==
        CASE i > Len(argv) -> <<"none">>
          [] i <= Len(argv) /\ IsShort("x", i) -> Taken(get_short_opt_value(i))
          [] i <= Len(argv) /\ IsLong(<<"language">>, i) ->
               Taken(get_long_opt_value(<<"language">>, i))
          [] OTHER -> from[i + 1]
  IN  from[1]
get_source_path ==
  LET words == {i \in DOMAIN argv : IsWord(argv, i)}
  IN  IF words = {} THEN <<>> ELSE argv[Max(words)]

exit(status) ==
  /\ pc' = status
  /\ UNCHANGED <<pathVars, argv, tidy_argv, argi, new_argc, source_path,
                 source_lang, line, opts, operands, header, include_name>>

Isystem(dirs) == [i \in DOMAIN dirs |-> <<"-", "isystem", dirs[i]>>]

\* Before the last argument that is no option, or at the end.
argv_add_include_paths ==
  LET others == {i \in DOMAIN argv : ~IsDashed(argv[i])}
      at == IF others = {} THEN Len(argv) + 1 ELSE Max(others)
  IN  SubSeq(argv, 1, at - 1) \o Isystem(line.search) \o From(argv, at)

Scan ==
  LET lang == get_source_language
      kind == IF lang # <<"none">> THEN lang[1] ELSE LangOf(get_source_path)
      calls == get_compiler_path # <<"none">> /\ kind # "none"
  IN  /\ pc = "scan"
      /\ IF USAGE \in {get_compiler_path, lang}
              \/ lang \notin {<<"c">>, <<"c++">>, <<"none">>}
         THEN exit("EX_USAGE")
         ELSE IF calls /\ line.search = <<"fails">> THEN exit("EX_UNAVAILABLE")
         ELSE /\ pc' = "move"
              /\ argv' = IF calls THEN argv_add_include_paths ELSE argv
              /\ source_path' = get_source_path /\ source_lang' = kind
              /\ UNCHANGED <<pathVars, tidy_argv, argi, new_argc, line, opts,
                             operands, header, include_name>>

-----------------------------------------------------------------------------
(* move_tidy_args(), one argument at a time.  What becomes of it: what is    *)
(* kept for libclang, what is for include-tidy, and how many arguments were  *)
(* read, or 0 if one is missing or wrong.                                    *)

Sorted(kept, tidied, read) == [kept |-> kept, tidied |-> tidied, read |-> read]
Refused == Sorted(<<>>, <<>>, 0)
Here == argv[argi]
Following == argv[argi + 1]

\* The option at i, and its argument, if that is an argument of its own.
TidyOption(i, takes_next) ==
  CASE ~takes_next -> Sorted(<<>>, <<argv[i]>>, 2)
    [] takes_next /\ i + 1 \in DOMAIN argv /\ ~IsDashed(argv[i + 1]) ->
         Sorted(<<>>, <<argv[i], argv[i + 1]>>, 3)
    [] OTHER -> Refused

TidyShort(arg) ==
  LET takes == TakesRest(arg)
  IN  IF \E k \in 2..Len(arg) : k < takes /\ arg[k] \notin Letters THEN Refused
      ELSE TidyOption(argi + 1, takes = Len(arg))

\* The first option that begins with the name is taken for it.
get_option_long(name) ==
  SelectInSeq(OPTIONS, LAMBDA option : IsPrefix(name, option.name))
TidyLong(text) ==
  LET n == get_option_long(LongName(text))
  IN  CASE n = 0 -> Refused
        [] n # 0 /\ ~OPTIONS[n].has_arg -> TidyOption(argi + 1, FALSE)
        [] OTHER -> IF EqualIn(text) = Len(text) THEN Refused
                    ELSE TidyOption(argi + 1, EqualIn(text) = 0)

MoveTidy ==
  IF ~IsXtidyRight(argi) THEN Refused
  ELSE IF Following[2] # "-" THEN TidyShort(Following) ELSE TidyLong(From(Following, 3))

MoveInclude ==
  CASE Len(Here) > 2 -> Sorted(<<Here>>, <<Here>>, 1)
    [] Len(Here) = 2 /\ argi < Len(argv) /\ ~IsDashed(Following) ->
         Sorted(<<Here, Following>>, <<Here, Following>>, 2)
    [] OTHER -> Refused

LONG_INCLUDE_PATH_OPTIONS == {
  <<"-", "-", "include-directory">>, <<"-", "-", "include-directory", "-", "after">>,
  <<"-", "cxx-isystem">>, <<"-", "idirafter">>, <<"-", "iquote">>, <<"-", "isystem">>,
  <<"-", "isystem", "-", "after">>}
\* Mutant: an option that another begins with is taken for it.
IsIncludeOption_prefix(name) == IsPrefix(name, Here)
IsIncludeOption(name) ==
  IsPrefix(name, Here) /\ (Len(Here) > Len(name) => Here[Len(name) + 1] # "-")

\* include-tidy gets -I<dir> for it.
MoveIncludeOption ==
  LET name == CHOOSE name \in LONG_INCLUDE_PATH_OPTIONS : IsIncludeOption(name)
      rest == From(Here, Len(name) + 1)
      of(dir, kept) == IF dir = <<>> \/ dir[1] = "-" THEN Refused
                       ELSE Sorted(kept, <<<<"-", "I">> \o dir>>, Len(kept))
  IN  CASE rest = <<>> -> IF argi = Len(argv) THEN Refused
                          ELSE of(Following, <<Here, Following>>)
        [] rest # <<>> /\ rest[1] = "=" -> of(Tail(rest), <<Here>>)
        [] OTHER -> of(rest, <<Here>>)

OTHER_OPTIONS == {<<"-", "-", "help">>, <<"-", "h">>, <<"-", "-", "ver", "sion">>, <<"-", "v">>}

SortArgument ==
  CASE IsXtidy(argi) -> MoveTidy
    [] IsPrefix(<<"-", "I">>, Here) -> MoveInclude
    [] \E name \in LONG_INCLUDE_PATH_OPTIONS : IsIncludeOption(name) -> MoveIncludeOption
    [] \E name \in OTHER_OPTIONS : IsPrefix(name, Here) -> Sorted(<<>>, <<Here>>, 1)
    [] OTHER -> Sorted(<<Here>>, <<>>, 1)

\* Those kept are moved to the front in place.
Compacted(kept) ==
  [i \in DOMAIN argv |-> IF i \in new_argc..new_argc + Len(kept) - 1
                         THEN kept[i - new_argc + 1] ELSE argv[i]]

MoveArgument ==
  /\ pc = "move" /\ argi <= Len(argv)
  /\ LET sorted == SortArgument
     IN  IF sorted = Refused THEN exit("EX_USAGE")
         ELSE /\ argv' = Compacted(sorted.kept)
              /\ new_argc' = new_argc + Len(sorted.kept)
              /\ tidy_argv' = tidy_argv \o sorted.tidied
              /\ argi' = argi + sorted.read
              /\ UNCHANGED <<pathVars, pc, source_path, source_lang, line, opts,
                             operands, header, include_name>>

MoveDone ==
  /\ pc = "move" /\ argi > Len(argv)
  /\ argv' = SubSeq(argv, 1, new_argc - 1)
  /\ argi' = 1
  /\ pc' = "getopt"
  /\ UNCHANGED <<pathVars, tidy_argv, new_argc, source_path, source_lang, line,
                 opts, operands, header, include_name>>

-----------------------------------------------------------------------------
(* getopt_long() on what was moved, an argument and its value at a time *)

Opt(val, value) == [val |-> val, value |-> value]
Parsed(returned, read) == [returned |-> returned, read |-> read]
Invalid == Parsed(<<>>, 0)
Next1 == IF argi < Len(tidy_argv) THEN tidy_argv[argi + 1] ELSE <<>>

\* What an option that has an argument returns, attached or else the next.
WithValue(before, val, attached) ==
  IF attached # <<>> THEN Parsed(Append(before, Opt(val, attached)), 1)
  ELSE IF argi = Len(tidy_argv) THEN Invalid
  ELSE Parsed(Append(before, Opt(val, Next1)), 2)

ShortOptions(arg) ==
  LET takes == Min({TakesRest(arg)} \cup {k \in 2..Len(arg) : arg[k] = "I"})
      flags == [k \in 1..takes - 2 |-> Opt(arg[k + 1], <<>>)]
  IN  IF \E k \in DOMAIN flags : flags[k].val \notin Letters THEN Invalid
      ELSE IF takes > Len(arg) THEN Parsed(flags, 1)
      ELSE WithValue(flags, arg[takes], From(arg, takes + 1))

\* An abbreviation must be one of a single option.
LongOption(text) ==
  LET meant == {i \in DOMAIN OPTIONS : IsPrefix(LongName(text), OPTIONS[i].name)}
      option == OPTIONS[CHOOSE i \in meant : TRUE]
      equal == EqualIn(text)
  IN  IF Cardinality(meant) # 1 \/ (~option.has_arg /\ equal # 0) THEN Invalid
      ELSE IF ~option.has_arg THEN Parsed(<<Opt(option.val, <<>>)>>, 1)
      ELSE WithValue(<<>>, option.val, IF equal = 0 THEN <<>> ELSE From(text, equal + 1))

getopt_long ==
  LET arg == tidy_argv[argi]
  IN  IF arg[2] = "-" THEN LongOption(From(arg, 3)) ELSE ShortOptions(arg)

ParseOption ==
  /\ pc = "getopt" /\ argi <= Len(tidy_argv) /\ IsDashed(tidy_argv[argi])
  /\ IF getopt_long = Invalid THEN exit("EX_USAGE")
     ELSE /\ opts' = opts \o getopt_long.returned
          /\ argi' = argi + getopt_long.read
          /\ UNCHANGED <<pathVars, pc, argv, tidy_argv, new_argc, source_path,
                         source_lang, line, operands, header, include_name>>

\* It goes on behind what is no option.
SkipOperand ==
  /\ pc = "getopt" /\ argi <= Len(tidy_argv) /\ ~IsDashed(tidy_argv[argi])
  /\ operands' = operands + 1
  /\ argi' = argi + 1
  /\ UNCHANGED <<pathVars, line, pc, argv, tidy_argv, new_argc, source_path,
                 source_lang, opts, header, include_name>>

-----------------------------------------------------------------------------
(* What is left of cli_options_init() *)

IsGiven(val) == \E i \in DOMAIN opts : opts[i].val = val
check_opt_exclusive(val) == IsGiven(val) => \A i \in DOMAIN opts : opts[i].val = val
ValuesOf(val) ==
  FoldLeft(LAMBDA values, o : IF o.val = val THEN Append(values, o.value) ELSE values,
           <<>>, opts)

LIBCLANG_ARGS == <<<<"-", "D", "include-tidy">>, <<"-", "Qunused-arguments">>,
                   <<"-", "Wno-unknown-warning-option">>>>

\* The current directory after --directory; the last one counts.
Directory ==
  IF IsGiven("d") THEN realpath(PathOf(Last(ValuesOf("d")))) ELSE cwd
source_dir == path_dirname(PathOf(source_path))
include_paths ==
  LET dirs == ValuesOf("I")
  IN  <<source_dir>> \o [i \in DOMAIN dirs |-> PathOf(dirs[i])]

CheckOptions ==
  /\ pc = "getopt" /\ argi > Len(tidy_argv)
  /\ IF ~check_opt_exclusive("h") \/ ~check_opt_exclusive("v") THEN exit("EX_USAGE")
     ELSE IF IsGiven("h") \/ IsGiven("v")
     THEN exit(IF argv # <<>> THEN "EX_USAGE" ELSE "EX_OK")
     ELSE IF operands > 0 \/ source_path = <<>> \/ source_lang = "none" THEN exit("EX_USAGE")
     ELSE IF Directory \notin Dirs THEN exit("EX_IOERR")
     ELSE /\ pc' = "paths"
          /\ cwd' = Directory
          /\ argv' = LIBCLANG_ARGS \o argv
          /\ UNCHANGED <<ipaths, tidy_argv, argi, new_argc, source_path, source_lang,
                         line, opts, operands, header, include_name>>

AddPaths ==
  /\ pc = "paths"
  /\ ipaths' = FoldLeft(ipath_add, ipaths, include_paths)
  /\ argv' = Front(argv)
  /\ pc' = "config"
  /\ UNCHANGED <<cwd, tidy_argv, argi, new_argc, source_path, source_lang, line,
                 opts, operands, header, include_name>>

-----------------------------------------------------------------------------
(* The directories and names that follow from it.  An assertion that fails   *)
(* ends the program.                                                         *)

\* config_file_find() compares the source's directory with the current one, if
\* it gets there: not if it needs just one file and has found it before.
FindConfig ==
  /\ pc = "config"
  /\ \/ IsGiven("L") /\ pc' = "include"
     \/ pc' = IF path_normalize(source_dir) = NoPath THEN "abort" ELSE "include"
  /\ UNCHANGED <<pathVars, argv, tidy_argv, argi, new_argc, source_path,
                 source_lang, line, opts, operands, header, include_name>>

\* libclang names a header by the directory it finds it in, as that was given.
Included ==
  {path \in {Path(dir.abs, dir.comps \o name) : dir \in Range(include_paths), name \in Name} :
     realpath(path) \in Files}

NameHeader ==
  /\ pc = "include"
  /\ \E path \in Included :
       /\ header' = path
       /\ include_name' = tidy_File_getRelativePath(path)
       /\ pc' = IF include_name'.abs THEN "abort" ELSE "named"
  /\ UNCHANGED <<pathVars, argv, tidy_argv, argi, new_argc, source_path,
                 source_lang, line, opts, operands>>

CliNext ==
  \/ Scan
  \/ MoveArgument
  \/ MoveDone
  \/ ParseOption
  \/ SkipOperand
  \/ CheckOptions
  \/ AddPaths
  \/ FindConfig
  \/ NameHeader

CliSpec == CliInit /\ [][CliNext]_cliVars

=============================================================================
