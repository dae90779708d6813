--------------------------- MODULE MCCommandLines ---------------------------
(* CommandLines for TLC. *)
EXTENDS CommandLines

\* /w is the directory one works in; /u has the compiler's headers.
W == <<"w">>
MCDirs == {<<>>, W, W \o <<"src">>, W \o <<"inc">>, W \o <<"inc", "sub">>, <<"u">>}
MCFiles == {
  W \o <<"x.h">>, W \o <<"src", "y.h">>, W \o <<"inc", "x.h">>, W \o <<"inc", "sub", "z.h">>,
  W \o <<"inc", "sub", "x.h">>, <<"u", "s.h">>}
MCLinks == [link \in {W \o <<"lnk">>, <<"u", "t.h">>} |->
              IF link = <<"u", "t.h">> THEN <<"u", "s.h">> ELSE W \o <<"inc">>]
MCName == {<<"x.h">>, <<"y.h">>, <<"sub", "x.h">>, <<"sub", "..", "x.h">>, <<"s.h">>, <<"t.h">>,
           <<"z.h">>, <<"..", "x.h">>}
MCComponent == STRING
MCToken == STRING

\* What the theorem about names assumes holds here.
ASSUME NamesAreSafe == LinksLieBeside /\ FilesHaveOwnNames

Relative(comps) == Path(FALSE, comps)
PathOfWord(arg) ==
  CASE arg = <<"src">> -> Relative(<<"src">>)
    [] arg = <<"inc">> -> Relative(<<"inc">>)
    [] arg = <<"sub">> -> Relative(<<"inc", ".", "sub">>)
    [] arg = <<"lnk">> -> Relative(<<"lnk">>)
    [] arg = <<"up">> -> Relative(<<"..", "w", "inc">>)
    [] arg = <<"root">> -> Path(TRUE, <<>>)
    [] arg = <<"u">> -> Path(TRUE, <<"u">>)
    [] arg = <<"a.c">> -> Relative(<<"a.c">>)
    [] arg = <<"./././a.c">> -> Relative(<<".", ".", "a.c">>)
    [] arg = <<"src/b.cc">> -> Relative(<<"src", "b.cc">>)
    [] arg = <<"src/../a.c">> -> Relative(<<"src", "..", "a.c">>)
    [] OTHER -> Relative(arg)
LangOfWord(arg) ==
  CASE arg \in {<<"a.c">>, <<"./././a.c">>, <<"src/../a.c">>} -> "c"
    [] arg = <<"src/b.cc">> -> "c++"
    [] OTHER -> "none"

Short(tokens) == <<"-">> \o tokens
Long(tokens) == <<"-", "-">> \o tokens

\* Right items.
Include(args, dir) == Item(args, args, <<Opt("I", <<dir>>)>>)
Includes == {
  Include(<<Short(<<"I", "inc">>)>>, "inc"),
  Include(<<Short(<<"I">>), <<"sub">>>>, "sub"),
  Include(<<Short(<<"isystem">>), <<"lnk">>>>, "lnk"),
  Include(<<Short(<<"isystem", "-", "after">>), <<"src">>>>, "src"),
  Include(<<Short(<<"iquote", "root">>)>>, "root"),
  Include(<<Long(<<"include-directory", "=", "up">>)>>, "up"),
  Include(<<Long(<<"include-directory", "-", "after">>), <<"nosuch">>>>, "nosuch")}
CompilerOptions == {
  Item(<<Short(<<"D", "N">>)>>, <<Short(<<"D", "N">>)>>, <<>>),
  Language(<<Short(<<"x", "c++">>)>>, "c++"),
  Language(<<Short(<<"x">>), <<"c">>>>, "c"),
  Language(<<Long(<<"language", "=", "c++">>)>>, "c++"),
  Language(<<Long(<<"language">>), <<"none">>>>, "none"),
  Language(<<Short(<<"x", "f90">>)>>, "f90"), Language(<<Short(<<"x">>)>>, "missing")}
Flag(val) == Opt(val, <<>>)
TidyOptions == {
  Tidy(<<Short(<<"A">>)>>, <<Flag("A")>>),
  Tidy(<<Short(<<"A", "D", "e", "never">>)>>, <<Flag("A"), Flag("D"), Opt("e", <<"never">>)>>),
  Tidy(<<Short(<<"D", "a">>), <<"80">>>>, <<Flag("D"), Opt("a", <<"80">>)>>),
  Tidy(<<Short(<<"C">>), <<"gcc">>>>, <<Opt("C", <<"gcc">>)>>),
  Tidy(<<Short(<<"C", "none">>)>>, <<Opt("C", <<"none">>)>>),
  Tidy(<<Long(<<"co", "m", "piler", "=", "none">>)>>, <<Opt("C", <<"none">>)>>),
  Tidy(<<Long(<<"co", "m", "piler">>), <<"gcc">>>>, <<Opt("C", <<"gcc">>)>>),
  Tidy(<<Long(<<"co", "m", "ment-", "style">>), <<"none">>>>, <<Opt("s", <<"none">>)>>),
  Tidy(<<Long(<<"co", "nfig", "=", "-">>)>>, <<Opt("c", <<"-">>)>>),
  Tidy(<<Long(<<"d", "irectory">>), <<"src">>>>, <<Opt("d", <<"src">>)>>),
  Tidy(<<Short(<<"d", "nosuch">>)>>, <<Opt("d", <<"nosuch">>)>>),
  Tidy(<<Long(<<"no-config-layers">>)>>, <<Flag("L")>>),
  Tidy(<<Short(<<"h">>)>>, <<Flag("h")>>)}
Others == {
  Item(<<Long(<<"help">>)>>, <<>>, <<Flag("h")>>),
  Item(<<Short(<<"v">>)>>, <<>>, <<Flag("v")>>),
  Item(<<Short(<<"v", "v">>)>>, <<>>, <<Flag("v"), Flag("v")>>)}
Right == Includes \cup CompilerOptions \cup TidyOptions \cup Others

\* Wrong ones: an argument is missing, an option is unknown or ambiguous.
TidyWrong(args) == Wrong(<<<<"-", "Xtidy">>>> \o args)
Wrongs == {
  TidyWrong(<<>>), TidyWrong(<<<<"word">>>>), TidyWrong(<<Short(<<"-">>)>>),
  TidyWrong(<<Short(<<"A", "q">>)>>), TidyWrong(<<Short(<<"A", "e">>)>>),
  TidyWrong(<<Long(<<"bogus">>)>>), TidyWrong(<<Long(<<"error">>)>>),
  TidyWrong(<<Long(<<"error", "=">>)>>), TidyWrong(<<Long(<<"co", "m", "piler", "=">>)>>),
  TidyWrong(<<Long(<<"a", "ll-includes", "=", "no">>)>>),
  TidyWrong(<<Long(<<"ver">>)>>), TidyWrong(<<Short(<<"C">>)>>),
  Wrong(<<Short(<<"I">>)>>), Wrong(<<Short(<<"isystem">>)>>),
  Wrong(<<Short(<<"isystem", "=">>)>>), Wrong(<<Short(<<"v", "a">>)>>)}

Sources == {<<>>, <<"a.c">>, <<"src/b.cc">>, <<"README">>, <<"./././a.c">>, <<"src/../a.c">>}
Searches == {<<>>, <<"u">>, <<"u", "inc">>, <<"fails">>}

Few == {item \in Right : item.lang # "" \/ \E i \in DOMAIN item.gives :
                                             item.gives[i].val \in {"C", "I", "d"}}
Single == {<<>>} \cup {<<item>> : item \in Right \cup Wrongs}
\* -Xtidy by itself would go with a dash that follows it.
More ==
  ((Right \cup (Wrongs \ {TidyWrong(<<>>)})) \X Right) \cup (Right \X Wrongs)
    \cup (Includes \X Few \X Few)
Lines ==
  {Line(items, source, search, W) :
     items \in Single, source \in Sources, search \in Searches}
  \cup {Line(items, source, <<"u", "inc">>, W) :
           items \in More, source \in {<<>>, <<"a.c">>, <<"src/b.cc">>}}

\* The last word is taken for the source: there must not be another if there is
\* none, nor an option before it that lacks its argument.
LacksArgument(item) ==
  (~item.right \/ item.lang = "missing") /\ Last(item.args) \in
    {<<"-", "Xtidy">>, <<"-", "A", "e">>, <<"-", "-", "error">>, <<"-", "C">>, <<"-", "I">>,
     <<"-", "isystem">>, <<"-", "x">>}
Read == {l \in Lines :
           IF l.source = <<>> THEN \A i \in DOMAIN l.argv : ~IsWord(l.argv, i)
           ELSE l.items # <<>> => ~LacksArgument(Last(l.items))}

=============================================================================
