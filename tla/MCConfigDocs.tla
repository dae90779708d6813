---------------------------- MODULE MCConfigDocs ----------------------------
(* ConfigDocs for TLC. *)
EXTENDS ConfigDocs

CONSTANT InvalidAfterKey   \* may an invalid character follow a bare key's?

Compact == [space |-> <<>>, end |-> <<"\n">>, inside |-> <<>>, last_comma |-> FALSE]
OneLine == [space |-> <<"\t">>, end |-> <<" ">>, inside |-> <<" ">>, last_comma |-> TRUE]
Commented ==
  [space |-> <<" ">>, end |-> <<" ", "#", "x", "\n", "\n">>,
   inside |-> <<"\n", "#", "\n">>, last_comma |-> FALSE]

Number(chars, v) == Scalar("int", chars, v)
String(chars, v) == Scalar("string", chars, v)
True == Scalar("bool", <<"t", "r", "u", "e">>, TRUE)
False == Scalar("bool", <<"f", "a", "l", "s", "e">>, FALSE)
Quoted(chars) == String(<<"\"">> \o chars \o <<"\"">>, chars)
Word == Quoted(<<"a">>)
Wrong == Quoted(<<"x">>)
Zero == Number(<<"0">>, 0)
Eleven == Number(<<"0", "x", "b">>, 11)

Values == {
  True, False, Zero, Eleven, Word,
  Number(<<"1", "_", "2">>, 12), Number(<<"-", "3", "4">>, -34),
  String(<<"'", "\\", "'">>, <<"\\">>),
  String(<<"\"", "#", "\\", "n", "\\", "\"", "\"">>,
         <<"#", <<"escape", "n">>, "\"">>),
  String(<<"\"", "\\", "u", "0", "0", "e", "9", "\"">>, << <<0, 233>> >>),
  ArrayOf(<<>>), ArrayOf(<<Word, Zero>>), ArrayOf(<<ArrayOf(<<True>>), Eleven, Word>>)}

Kv(name, value) == [name |-> name, value |-> value]
Table(name, kvs) == [name |-> name, kvs |-> kvs]
NoCut == [kind |-> "none", at |-> 0]
Document(ts, layout, cut) ==
  [access |-> "OK", chars |-> <<>>, tables |-> ts, layout |-> layout, cut |-> cut]
Raw(access, chars) ==
  [access |-> access, chars |-> chars, tables |-> <<>>, layout |-> Compact, cut |-> NoCut]
Missing == Raw("ENOENT", <<>>)
Unreadable == Raw("EACCES", <<>>)

\* Files of one table, of two keys, and of several tables.
OneTable == {
  <<Table(name, <<Kv(key, v)>>)>> :
    name \in {NoName, <<"t">>, <<"#">>}, key \in {<<"a">>, <<"n", ".", "-">>},
    v \in Values}
TwoKeys == {
  <<Table(<<"x">>, <<Kv(<<"k">>, v), Kv(key, w)>>)>> :
    key \in {<<"k">>, <<"l">>}, v \in Values, w \in {True, Zero, Word}}
MoreTables == {
  <<Table(name, <<Kv(<<"a">>, v), Kv(<<"k">>, True)>>), Table(<<"t">>, <<>>),
    Table(other, <<Kv(<<"a">>, w)>>)>> :
    name \in {NoName, <<"x">>}, other \in {<<"t">>, <<"x">>, <<"t", "x">>},
    v \in {Zero, Eleven, Word}, w \in {True, Zero}}
Whole == {
  Document(ts, layout, NoCut) :
    ts \in OneTable \cup TwoKeys \cup MoreTables,
    layout \in {Compact, OneLine, Commented}}

\* No invalid character is put for a newline: it would make a comment longer.
Newlines(f) == {i \in DOMAIN WholeText(f) : WholeText(f)[i] = "\n"}

\* The places of an invalid character right after one of a bare key.
AfterKey(f) ==
  LET keys == Starts(f, "key")
      names == Keys(f.tables)
  IN  UNION {(keys[i] + 1)..(keys[i] + Len(names[i].name)) : i \in DOMAIN keys}
Cuts(f) ==
  LET n == Len(WholeText(f))
  IN  IF InvalidAfterKey THEN {[kind |-> "bad", at |-> i] : i \in AfterKey(f)}
      ELSE {[kind |-> "end", at |-> i] : i \in 1..n - 1}
             \cup {[kind |-> "bad", at |-> i] :
                     i \in (1..n) \ (AfterKey(f) \cup Newlines(f))}
Cut ==
  UNION {{[f EXCEPT !.cut = c] : c \in Cuts(f)} :
           f \in {Document(ts, layout, NoCut) :
                    ts \in OneTable \cup MoreTables, layout \in {Compact, Commented}}}

Arg(option, word) == [option |-> option, word |-> word, number |-> 0]
Column(n) == [option |-> "align_column", word |-> <<>>, number |-> n]
\* A file by itself, given by --config.
Alone(file) ==
  [argv |-> <<Arg("config", <<>>)>>, has_source |-> TRUE,
   same_dir |-> TRUE,
   files |-> [p \in Place |-> IF p = "option" THEN file ELSE Missing]]

\* Files that set options, rightly or not.
File1(kvs) == Document(<<Table(<<"t">>, kvs)>>, Compact, NoCut)
Plain1 == File1(<<Kv(<<"a">>, Zero)>>)
OptionFiles == {
  Plain1,
  File1(<<Kv(<<"i">>, False), Kv(<<"e">>, Word)>>),
  File1(<<Kv(<<"s">>, ArrayOf(<<Word>>))>>),
  File1(<<Kv(<<"d">>, ArrayOf(<<Quoted(<<"b">>)>>))>>),
  File1(<<Kv(<<"d">>, ArrayOf(<<Wrong>>)), Kv(<<"s">>, ArrayOf(<<Quoted(<<"n">>), Word>>))>>),
  File1(<<Kv(<<"s">>, ArrayOf(<<>>)), Kv(<<"e">>, Wrong)>>),
  File1(<<Kv(<<"s">>, ArrayOf(<<Word, Zero>>)), Kv(<<"o">>, Quoted(<<"n">>))>>),
  File1(<<>>),
  File1(<<Kv(<<"c">>, Wrong), Kv(<<"a">>, Eleven)>>),
  File1(<<Kv(<<"a">>, Number(<<"9", "9">>, 99))>>),
  File1(<<Kv(<<"i">>, Zero), Kv(<<"d">>, Word)>>),
  File1(<<Kv(<<"x">>, Zero)>>),
  File1(<<Kv(<<"a">>, Eleven), Kv(<<"k">>, True)>>),
  Document(<<Table(NoName, <<Kv(<<"a">>, Zero)>>)>>, Compact, NoCut),
  Document(<<Table(<<"x">>, <<Kv(<<"l">>, Word), Kv(<<"k">>, True), Kv(<<"l", "l">>, Word)>>)>>,
           Compact, NoCut),
  Document(<<Table(<<"x">>, <<Kv(<<"l">>, Word), Kv(<<"k">>, True)>>)>>, Compact, NoCut),
  Document(<<Table(<<"x">>, <<Kv(<<"k">>, True), Kv(<<"l">>, Word), Kv(<<"r">>, Word)>>)>>,
           Compact, NoCut),
  Document(<<Table(<<"x">>, <<Kv(<<"a">>, Eleven), Kv(<<"e">>, Quoted(<<"n">>))>>),
             Table(<<"t">>, <<Kv(<<"a">>, Zero), Kv(<<"e">>, Word)>>),
             Table(<<"r">>, <<Kv(<<"n">>, True)>>)>>, Compact, NoCut)}
Meant(t) ==
  [name |-> t.name,
   kvs |-> [i \in DOMAIN t.kvs |-> Kv(t.kvs[i].name, Meaning(t.kvs[i].value))]]
RightFiles == {f \in OptionFiles : \A t \in Range(f.tables) : IsRight(Meant(t), {})}

Argvs == {
  <<>>, <<Column(7)>>, <<Arg("error", <<"n">>), Arg("error", <<"a">>)>>,
  <<Arg("comment_style", <<"n">>)>>, <<Arg("all_includes", <<>>)>>,
  <<Arg("color", <<"a">>)>>, <<Arg("no_config_layers", <<>>)>>}
MoreArgvs == {
  <<Column(99)>>, <<Arg("error", <<"x">>)>>, <<Arg("help", <<>>)>>,
  <<Arg("version", <<>>), Arg("version", <<>>)>>, <<Arg("help", <<>>), Arg("version", <<>>)>>,
  <<Arg("error", <<"n">>), Arg("help", <<>>)>>}
Searches == {
  <<>>, <<Arg("config", <<>>)>>, <<Arg("no_config_layers", <<>>), Arg("config", <<>>)>>,
  <<Arg("no_config_layers", <<>>)>>}

At(source, home, xdg) ==
  [p \in Place |-> CASE p = "source" -> source [] p = "home" -> home
                     [] p = "xdg2" -> xdg [] OTHER -> Missing]
Started(argvs, with_source, fs, same) ==
  [argv : argvs, has_source : {with_source}, files : fs, same_dir : same]

Layered ==
  Started(Argvs, TRUE,
          {At(f, g, h) : f \in RightFiles, g \in OptionFiles, h \in {Plain1, Missing}},
          {FALSE})
Searched ==
  Started(Searches, TRUE, [Place -> {Plain1, Missing, Unreadable}], BOOLEAN)
Refused ==
  UNION {Started(Argvs \cup MoreArgvs, with_source, {At(Plain1, Plain1, Plain1)}, {TRUE}) :
           with_source \in BOOLEAN}

\* Every sequence of some characters, too: most are no TOML.
Chars == {"k", ".", "=", "[", "]", "\"", "1", "\n", "#"}
RawStrings == UNION {[1..i -> Chars] : i \in 1..3}

Scenarios ==
  IF InvalidAfterKey THEN {Alone(f) : f \in Cut}
  ELSE {Alone(f) : f \in Whole \cup Cut}
         \cup Layered \cup Searched \cup Refused
         \cup {Alone(Raw("OK", chars)) : chars \in RawStrings}

=============================================================================
