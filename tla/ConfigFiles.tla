---------------------------- MODULE ConfigFiles -----------------------------
(***************************************************************************)
(* The options of the program: cli_options_init() of cli_options.c takes   *)
(* them from the command line, config_init() of config_file.c then from    *)
(* the include-tidy tables of the configuration files, which it looks for  *)
(* in six places.  TomlInit and TomlNext are the reader of these files,    *)
(* toml_file_init() and toml_table_next(), as in TomlLite.                 *)
(*                                                                         *)
(* The names of keys are one letter long here.  Of the options with a      *)
(* number, and of those with a word, there is one each besides those that  *)
(* differ; the C++ lists are like the C ones.  What the keys of header,    *)
(* source and symbol tables do is in HeaderConfig; here they make errors.  *)
(***************************************************************************)
EXTENDS Integers, SequencesExt, FiniteSets

CONSTANTS
  TomlInit(_),     \* the state of the reader for a text
  TomlNext(_),     \* and after its next table, which is its field out if it is ok
  NoName,          \* of a table without a header
  Scenario,        \* what the program is started with, see Init
  Text(_),         \* the characters of a file
  Access(_),       \* "OK", "ENOENT" or "EACCES": what fopen() does with it
  MaxColumn        \* OPT_ALIGN_COLUMN_MAX

IsList(s) == Len(s) \in Nat /\ s = [i \in 1..Len(s) |-> s[i]]

ASSUME ConfigAssumption == MaxColumn \in Nat /\ \A s \in Scenario : IsList(s.argv)

\* In the order of config_file_find().
Places == <<"option", "source", "cwd", "home", "xdg1", "xdg2">>
Place == {Places[i] : i \in DOMAIN Places}
CaseOf == [option |-> 1, source |-> 2, cwd |-> 3, home |-> 4, xdg1 |-> 5, xdg2 |-> 5]

WordOption == {"error", "color", "comment_style"}
Option == WordOption \cup {"align_column", "all_includes"}
Words == [error |-> {<<"a">>, <<"n">>}, color |-> {<<"a">>, <<"n">>},
          comment_style |-> {<<"n">>}]
DefaultOptions == [align_column |-> 0, all_includes |-> FALSE, error |-> <<>>,
                   color |-> <<>>, comment_style |-> <<>>]

\* The kinds of tables a key is allowed in, by its name.
INCLUDE_TIDY_NAME == <<"t">>
ConfigKey(name, key, kinds) == [name |-> name, key |-> key, kinds |-> kinds]
CONFIG_KEYS == {
  ConfigKey(<<"a">>, "align_column", {"include-tidy"}),
  ConfigKey(<<"i">>, "all_includes", {"include-tidy"}),
  ConfigKey(<<"e">>, "error", {"include-tidy"}),
  ConfigKey(<<"c">>, "color", {"include-tidy"}),
  ConfigKey(<<"o">>, "comment_style", {"include-tidy"}),
  ConfigKey(<<"s">>, "std_c_includes", {"include-tidy"}),
  ConfigKey(<<"d">>, "add_c_includes", {"include-tidy"}),
  ConfigKey(<<"k">>, "keep", {"header"}),
  ConfigKey(<<"l">>, "elide_includes", {"header", "source"}),
  ConfigKey(<<"r">>, "associated_header", {"source"}),
  ConfigKey(<<"n">>, "ignore", {"symbol"})}
config_key_find(name) == {k \in CONFIG_KEYS : k.name = name}

VARIABLES
  argv,             \* the options of the command line
  has_source,       \* is a source file given?
  files,            \* what is at each place
  same_dir,         \* is the source file in the current directory?
  pc,
  optind,           \* the option of the command line that comes next
  opts,             \* options, those set, and std_c_includes
  layers,           \* opt_config_layers
  config_path,      \* of the file being read, as a place
  case_num,
  found_at_least_1,
  toml,             \* the reader
  ok_table_kinds,   \* what the table being parsed can be; {}: anything
  next_key,         \* of that table
  error_count,
  warning_count,
  exit_status,
  places_read,      \* history: the files read, in order
  tables,           \* history: the tables read from the last file
  keys_read         \* history: the keys of all files that were parsed, in order

environment == <<argv, has_source, files, same_dir>>
searchVars == <<config_path, case_num, found_at_least_1, places_read>>
parseVars == <<toml, ok_table_kinds, next_key, tables, keys_read>>
configVars == <<environment, pc, optind, opts, layers, searchVars, parseVars,
                error_count, warning_count, exit_status>>

ConfigInit ==
  /\ \E s \in Scenario : /\ argv = s.argv /\ has_source = s.has_source
                         /\ files = s.files /\ same_dir = s.same_dir
  /\ pc = "cli" /\ optind = 1
  /\ opts = [value |-> DefaultOptions, set |-> {}, std_c_includes |-> <<>>]
  /\ layers = TRUE
  /\ config_path = "none" /\ case_num = 1 /\ found_at_least_1 = FALSE
  /\ error_count = 0 /\ warning_count = 0 /\ exit_status = "none"
  /\ toml = TomlInit(<<>>) /\ ok_table_kinds = {} /\ next_key = 1
  /\ places_read = <<>> /\ tables = <<>> /\ keys_read = <<>>

exit(status) == pc' = "exit" /\ exit_status' = status

-----------------------------------------------------------------------------
(* The command line *)

IsSet(o, option) == option \in o.set
MarkSet(o, option) == [o EXCEPT !.set = @ \cup {option}]
SetOption(o, option, v) == [o EXCEPT !.value[option] = v]

ArgValue(arg) ==
  CASE arg.option = "align_column" -> arg.number
    [] arg.option = "all_includes" -> TRUE
    [] OTHER -> arg.word

\* The style of comments turns another option on, and does not mark it as set.
ParseOption(o, arg) ==
  LET set == SetOption(o, arg.option, ArgValue(arg))
  IN  CASE arg.option \notin Option -> o
        [] arg.option = "comment_style" -> SetOption(set, "all_includes", TRUE)
        [] OTHER -> set

IsArgRight(arg) ==
  CASE arg.option \in WordOption -> arg.word \in Words[arg.option]
    [] arg.option = "align_column" -> arg.number <= MaxColumn
    [] OTHER -> TRUE

Given(option) == \E i \in DOMAIN argv : argv[i].option = option

check_opt_exclusive(option) ==
  Given(option) => \A i \in DOMAIN argv : argv[i].option = option

\* One turn of the loop of cli_options_init().
CliOption ==
  /\ pc = "cli" /\ optind <= Len(argv)
  /\ LET arg == argv[optind]
     IN  IF IsArgRight(arg)
         THEN /\ opts' = MarkSet(ParseOption(opts, arg), arg.option)
              /\ layers' = (layers /\ arg.option # "no_config_layers")
              /\ UNCHANGED <<pc, exit_status>>
         ELSE exit("EX_USAGE") /\ UNCHANGED <<opts, layers>>
  /\ optind' = optind + 1
  /\ UNCHANGED <<environment, searchVars, parseVars, error_count, warning_count>>

\* The rest of it.
CliDone ==
  /\ pc = "cli" /\ optind > Len(argv)
  /\ IF ~check_opt_exclusive("help") \/ ~check_opt_exclusive("version")
     THEN exit("EX_USAGE")
     ELSE IF Given("help") \/ Given("version")
     THEN exit(IF has_source THEN "EX_USAGE" ELSE "EX_OK")
     ELSE IF ~has_source THEN exit("EX_USAGE")
     ELSE pc' = "find" /\ UNCHANGED exit_status
  /\ UNCHANGED <<environment, optind, opts, layers, searchVars, parseVars,
                 error_count, warning_count>>

-----------------------------------------------------------------------------
(* Finding the files *)

\* Mutant: the current directory is tried again.
IsTried_again(i) ==
  CaseOf[Places[i]] >= case_num /\ (Places[i] = "option" => Given("config"))

\* The places tried from case_num on: the current directory only once.
IsTried(i) ==
  /\ CaseOf[Places[i]] >= case_num
  /\ Places[i] = "option" => Given("config")
  /\ Places[i] = "cwd" => ~same_dir

Opens(i) == IsTried(i) /\ Access(files[Places[i]]) = "OK"

\* config_open() of what --config names must succeed.
IsFatal == case_num = 1 /\ Given("config") /\ Access(files["option"]) # "OK"

\* Without one that opens all of them are tried.
FirstOpened == Min({i \in DOMAIN Places : Opens(i)} \cup {Len(Places) + 1})

Warnings(last) ==
  Cardinality({i \in 1..last : IsTried(i) /\ Access(files[Places[i]]) = "EACCES"})

config_file_find ==
  LET first == FirstOpened
      place == Places[first]
  IN  /\ ~IsFatal
      /\ first \in DOMAIN Places
      /\ case_num' = CaseOf[place] + 1
      /\ warning_count' = warning_count + Warnings(first)
      /\ config_path' = place
      /\ toml' = TomlInit(Text(files[place]))

ConfigFatal ==
  /\ pc = "find" /\ IsFatal
  /\ exit("EX_NOINPUT")
  /\ UNCHANGED <<environment, optind, opts, layers, searchVars, parseVars,
                 error_count, warning_count>>

LooksFor == layers \/ ~found_at_least_1

ConfigFind ==
  /\ pc = "find" /\ LooksFor
  /\ config_file_find
  /\ pc' = "parse"
  /\ places_read' = Append(places_read, config_path') /\ tables' = <<>>
  /\ UNCHANGED <<environment, optind, opts, layers, found_at_least_1, ok_table_kinds,
                 next_key, keys_read, error_count, exit_status>>

ConfigFound ==
  /\ pc = "find"
  /\ ~LooksFor \/ (~IsFatal /\ FirstOpened \notin DOMAIN Places)
  /\ IF found_at_least_1 THEN pc' = "done" /\ UNCHANGED exit_status
                         ELSE exit("EX_CONFIG")
  /\ UNCHANGED <<environment, optind, opts, layers, searchVars, parseVars,
                 error_count, warning_count>>

-----------------------------------------------------------------------------
(* The keys of the include-tidy table.  acc is what the keys before have    *)
(* left: the options and the number of errors.                              *)

Error(acc, n) == [acc EXCEPT !.errors = @ + n]

\* Mutant: the last one sets it.
SetIfUnset_last(acc, option, v) ==
  [acc EXCEPT !.opts = MarkSet(SetOption(@, option, v), option)]
SetIfUnset(acc, option, v) ==
  IF IsSet(acc.opts, option) THEN acc
  ELSE [acc EXCEPT !.opts = MarkSet(SetOption(@, option, v), option)]

align_column_parse(acc, v) ==
  IF v.type = "int" /\ v.v \in 0..MaxColumn
  THEN SetIfUnset(acc, "align_column", v.v) ELSE Error(acc, 1)

all_includes_parse(acc, v) ==
  IF v.type = "bool" THEN SetIfUnset(acc, "all_includes", v.v) ELSE Error(acc, 1)

\* A word is not looked at if the option is set; a wrong one for the error
\* option sets that too.
word_parse(acc, option, v) ==
  CASE v.type # "string" -> Error(acc, 1)
    [] v.type = "string" /\ (IsSet(acc.opts, option) \/ v.v \in Words[option]) ->
         SetIfUnset(acc, option, v.v)
    [] OTHER -> IF option = "error"
                THEN Error([acc EXCEPT !.opts = MarkSet(@, option)], 1)
                ELSE Error(acc, 1)

\* An error for every element that is no string.
StringErrors(v) ==
  IF v.type # "array" THEN 1
  ELSE Cardinality({i \in DOMAIN v.v : v.v[i].type # "string"})
Strings(v) == [i \in DOMAIN v.v |-> v.v[i].v]

PushBack(acc, v) ==
  IF StringErrors(v) > 0 THEN Error(acc, StringErrors(v))
  ELSE [acc EXCEPT !.opts.std_c_includes = @ \o Strings(v)]

add_c_includes_parse(acc, v) == PushBack(acc, v)

\* Mutant: it replaces what is there.
std_c_includes_parse_over(acc, v) ==
  PushBack([acc EXCEPT !.opts.std_c_includes = <<>>], v)
std_c_includes_parse(acc, v) ==
  IF acc.opts.std_c_includes = <<>> THEN PushBack(acc, v) ELSE acc

ParseKey(acc, key, v) ==
  CASE key = "align_column" -> align_column_parse(acc, v)
    [] key = "all_includes" -> all_includes_parse(acc, v)
    [] key \in WordOption -> word_parse(acc, key, v)
    [] key = "std_c_includes" -> std_c_includes_parse(acc, v)
    [] key = "add_c_includes" -> add_c_includes_parse(acc, v)
    [] OTHER -> acc

\* The kinds a table may be are narrowed by the kinds its keys are allowed in.
\* {}: none known yet
\* Mutant: only the last key counts.
narrowed_last(kinds, key) == key.kinds
narrowed(kinds, key) ==
  IF kinds = {} \/ key.kinds \subseteq kinds THEN key.kinds ELSE kinds

InitialKinds(t) == IF t.name = INCLUDE_TIDY_NAME THEN {"include-tidy"} ELSE {}

\* toml_table_next() returns a table; one without a name is wrong.
TableBegins ==
  /\ pc = "parse"
  /\ toml' = TomlNext(toml) /\ toml'.ok
  /\ LET t == toml'.out
         wrong == t.name = NoName
         empty == t.kvs = <<>>
     IN  /\ error_count' = error_count + IF wrong THEN 1 ELSE 0
         /\ warning_count' = warning_count + IF empty /\ ~wrong THEN 1 ELSE 0
         /\ pc' = IF wrong \/ empty THEN "parse" ELSE "keys"
         /\ ok_table_kinds' = InitialKinds(t)
         /\ tables' = Append(tables, t)
  /\ next_key' = 1
  /\ UNCHANGED <<environment, optind, opts, layers, searchVars, keys_read, exit_status>>

\* One key of it.  The kinds so far must have one in common with those of the key.
ConfigKeyValue ==
  /\ pc = "keys"
  /\ LET kv == toml.out.kvs[next_key]
         found == config_key_find(kv.name)
         key == CHOOSE k \in found : TRUE
         wrong == \/ found = {}
                  \/ ok_table_kinds # {} /\ ok_table_kinds \cap key.kinds = {}
         acc == [opts |-> opts, errors |-> error_count]
         parsed == IF wrong THEN Error(acc, 1) ELSE ParseKey(acc, key.key, kv.value)
     IN  /\ opts' = parsed.opts
         /\ error_count' = parsed.errors
         /\ ok_table_kinds' = IF wrong THEN ok_table_kinds
                              ELSE narrowed(ok_table_kinds, key)
         /\ keys_read' = Append(keys_read, kv)
  /\ pc' = IF next_key < Len(toml.out.kvs) THEN "keys" ELSE "parse"
  /\ next_key' = next_key + 1
  /\ UNCHANGED <<environment, optind, layers, searchVars, toml, tables, warning_count,
                 exit_status>>

\* The end of the file, or an error in it.
ParseEnds ==
  /\ pc = "parse"
  /\ toml' = TomlNext(toml) /\ ~toml'.ok
  /\ error_count' = error_count + IF toml'.error = "NONE" THEN 0 ELSE 1
  /\ IF error_count' > 0
     THEN exit("EX_CONFIG") /\ UNCHANGED <<found_at_least_1, warning_count>>
     ELSE /\ pc' = "find" /\ found_at_least_1' = TRUE /\ warning_count' = 0
          /\ UNCHANGED exit_status
  /\ UNCHANGED <<environment, optind, opts, layers, config_path, case_num, places_read,
                 ok_table_kinds, next_key, tables, keys_read>>

ConfigNext ==
  \/ CliOption
  \/ CliDone
  \/ ConfigFatal
  \/ ConfigFind
  \/ ConfigFound
  \/ TableBegins
  \/ ConfigKeyValue
  \/ ParseEnds

ConfigSpec == ConfigInit /\ [][ConfigNext]_configVars

-----------------------------------------------------------------------------
(* What the options are *)

\* What the reader returns are lists of keys, and arrays are lists of values.
TablesAreLists ==
  \A i \in DOMAIN tables :
    LET kvs == tables[i].kvs
    IN  /\ IsList(kvs)
        /\ \A k \in DOMAIN kvs : kvs[k].value.type = "array" => IsList(kvs[k].value.v)

\* The keys for an option that were parsed.
IsKeyOf(name, key) == \E k \in config_key_find(name) : k.key = key
Setters(key) == {i \in DOMAIN keys_read : IsKeyOf(keys_read[i].name, key)}

\* The command line prevails over the files, the last one given there, and a file
\* over the later ones, a key over the later ones; what the option for the style
\* of comments implies does not prevail over any.
EarlierPrevails(option) ==
  /\ \A i \in DOMAIN argv :
       argv[i].option = option /\ (\A j \in DOMAIN argv : j > i => argv[j].option # option)
         => opts.value[option] = ArgValue(argv[i])
  /\ ~Given(option) =>
       \/ /\ Setters(option) # {}
          /\ opts.value[option] = keys_read[Min(Setters(option))].value.v
       \/ /\ Setters(option) = {}
          /\ opts.value[option] =
               IF option = "all_includes" /\ Given("comment_style") THEN TRUE
               ELSE DefaultOptions[option]

\* What add-c-includes gives is cumulative, whatever its file, and nothing is
\* standard that no key says.
StringsOf(v) ==
  IF v.type # "array" THEN {}
  ELSE {v.v[i].v : i \in {i \in DOMAIN v.v : v.v[i].type = "string"}}
Said(key) == UNION {StringsOf(keys_read[i].value) : i \in Setters(key)}
AddsAccumulate ==
  /\ Said("add_c_includes") \subseteq Range(opts.std_c_includes)
  /\ Range(opts.std_c_includes) \subseteq Said("add_c_includes") \cup Said("std_c_includes")

\* Whoever sets an option first, or all who add to it, decide its value.
OptionsAsSet ==
  pc \notin {"cli", "exit"} /\ error_count = 0 =>
    (\A option \in Option : EarlierPrevails(option)) /\ AddsAccumulate

-----------------------------------------------------------------------------
(* Which files are read, and which are refused *)

Before(p, q) == \E i, j \in DOMAIN Places : i < j /\ Places[i] = p /\ Places[j] = q

\* Only one of the directories of XDG_CONFIG_DIRS is read, the current directory
\* not twice.
Readable(p) ==
  /\ Access(files[p]) = "OK"
  /\ p = "option" => Given("config")
  /\ p = "cwd" => ~same_dir
  /\ p = "xdg2" => Access(files["xdg1"]) # "OK"

\* The readable files are read in the order of their places, each once and none
\* before another that it should come after; without layers only the first.
FilesInOrder ==
  /\ \A i \in DOMAIN places_read :
       /\ Readable(places_read[i])
       /\ \A j \in 1..i - 1 : Before(places_read[j], places_read[i])
       /\ \A p \in Place : Readable(p) /\ Before(p, places_read[i]) =>
            \E j \in 1..i - 1 : places_read[j] = p
  /\ Given("no_config_layers") => Len(places_read) <= 1
  /\ pc = "done" => /\ places_read # <<>>
                    /\ \/ Given("no_config_layers")
                       \/ \A p \in Place : Readable(p) => p \in Range(places_read)

\* A table is one of the kinds all its keys are allowed in.
IsTable(t) ==
  /\ t.name # NoName
  /\ \E kind \in {"include-tidy", "header", "source", "symbol"} :
       /\ t.name = INCLUDE_TIDY_NAME => kind = "include-tidy"
       /\ \A i \in DOMAIN t.kvs : \E k \in config_key_find(t.kvs[i].name) : kind \in k.kinds

IsValue(option, v) ==
  CASE option = "align_column" -> v.type = "int" /\ v.v \in 0..MaxColumn
    [] option = "all_includes" -> v.type = "bool"
    [] option \in WordOption -> v.type = "string" /\ v.v \in Words[option]
    [] option \in {"std_c_includes", "add_c_includes"} ->
         v.type = "array" /\ \A i \in DOMAIN v.v : v.v[i].type = "string"
    [] OTHER -> TRUE

\* What has been set already can hide a value from being looked at.
Hidden == {option \in WordOption : IsSet(opts, option)}
            \cup {key \in {"std_c_includes"} : opts.std_c_includes # <<>>}

IsRight(t, hidden) ==
  /\ IsTable(t)
  /\ \A i \in DOMAIN t.kvs : \A k \in config_key_find(t.kvs[i].name) :
       IsValue(k.key, t.kvs[i].value) \/ k.key \in hidden

\* The program ends with EX_CONFIG after the first file that has anything wrong,
\* and reads no other; it also does so if there is no file at all.
ExitAgrees ==
  /\ pc \in {"parse", "find", "done"} =>
       IF error_count = 0
       THEN \A i \in DOMAIN tables : IsRight(tables[i], Hidden)
       ELSE pc = "parse" /\ \E i \in DOMAIN tables : ~IsRight(tables[i], {})
  /\ exit_status = "EX_CONFIG" =>
       \/ places_read = <<>> /\ \A p \in Place : ~Readable(p)
       \/ toml.error # "NONE"
       \/ \E i \in DOMAIN tables : ~IsRight(tables[i], {})

=============================================================================
