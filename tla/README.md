# A model of include-tidy in TLA+

include-tidy reads one C or C++ source file with libclang, works out which
headers declare the symbols the file references, and prints the `#include`
directives that are missing or unnecessary.  The modules here model the part of
the program that decides what is printed; TLC checks them on small instances, and
TLAPS proves theorems about them for every instance.  Paths below are relative to
the root of the repository.

## The system

| component | source | state | operations |
|---|---|---|---|
| main program | `src/include-tidy.c` | where `main()` is, the exit status | calls the phases in a fixed order |
| source file | `src/source.c` | the translation unit, `is_ignored`, the two counters of violations | parse, check for errors |
| include set | `src/include.c` | `tidy_include_set`: for each unique file ID its file, includer, proxy, depth, lines, handling, symbols, needed flag | built by a visitor; look-up by file and by path; report |
| configuration | `src/config_file.c` | handlings, proxies, the map from symbols to headers, ignored symbols, options, errors; where the search for files goes on | find a file, read it, one parse function per key |
| proxies | `src/proxies.c` | `tidy_include::proxy` | implicit proxies by a second visit; the cycle check |
| symbols | `src/symbol.c`, `src/typedef.c` | `symbol_set`, `ref_count`, the scope being visited | a visitor of the AST; `add_symbol()` |
| command line | `src/cli_options.c`, `src/options.c` | options and who set them | parse, first setter wins |
| TOML reader | `src/toml_lite.c` | characters put back, location, error, the table being read | next table, iterate |
| containers | `src/red_black.c`, `src/hash_table.c`, `src/array.c` | trees, tables, arrays | insert, find, delete, merge, iterate |
| paths | `src/path_util.c`, `src/ipath.c` | include paths | match, make relative, find |
| exceptions, libclang wrappers | `src/cxx.c`, `src/clang_util.c` | none | queries |
| comments | `src/include.c`, `src/print.c` | the style, which is changed for some include files | which symbols to list, alignment |
| output, utilities | `src/color.c`, `src/verbose.c`, `src/strbuf.c`, ... | none that decides anything | formatting |

The program is one thread that runs the phases of `main()` once: `source_init()`,
`includes_init()`, `config_init()`, and unless the configuration says to ignore the
source file, `source_check_for_errors()`, `implicit_proxies_init()`,
`symbols_init()` and `includes_print()`; then `tidy_status()`.  The phases share
`tidy_include_set`: every one of them reads fields that an earlier one wrote.
libclang calls the visitors back, once for each directive or AST node, and the
hash tables are iterated over in an order nobody controls.  So what is hard here
is order: of direct and indirect mentions of a header, of keys and tables in
configuration files, of the matches of a key, of explicit and implicit proxies.
Errors end the program; nothing is persisted and nothing runs concurrently.

What makes each component correct:

- include set: depth 0 means "the source file includes it"; an includer is known
  before what it includes and really includes it; the lines are those to delete.
- proxies: walks along proxies end; the implementation header of a library is
  never what the user is told to include.
- configuration: the result does not depend on the order of keys where the manual
  says it does not; contradictions are errors.
- symbols: each symbol is on the account of one header, and any of the headers the
  configuration lists for it will do.
- report: following it makes the source file tidy; the exit status agrees with it.
- command line: each argument gets to libclang, to include-tidy or to both, as it is
  meant to; a header is named so that the name finds it again.
- configuration files: the right setter of an option wins; what is wrong in a file is
  an error, located where it is; nothing that is written is dropped in silence.
- exceptions: a header that is not asked for comes with one that is.
- symbol visitor: what is remembered between two cursors is that of the cursor it is at.
- comments: they list as many symbols as fit into a line, in the order asked for.
- containers: sets, maps and sequences of their keys; entries that others point to
  stay where they are.

## The modules

There are six groups, each a specification of its own.

### What is printed

Each of these four modules extends the one before it with the state and the actions of a
phase, so that Tidy is the whole program.

**Includes** (`includes_init()`).  The fields of `struct tidy_include` are functions
on file IDs, `included` is the set of IDs with an entry.  `Preprocess` is libclang:
it appends directives to `tu`, each located in the source file or in a file that is
open at that point, so a directive of a header follows one that opened it; a guard that
makes a second inclusion empty is the preprocessor going back at once.  `ParseFails`
is a source file libclang gives no translation unit for.  The visitor is one step
for each directive: `MissingFile`, `NewInclude` (`include_insert()` made an entry),
`DirectAgain` and `IndirectAgain` (it found one).  Two names (`File`) may be
one file (`FileID`), as links are.  The line of a directive is its place in `tu`.

**HeaderConfig** (the header, source and symbol tables of `config_file.c`).  Keys are
parsed in any order (`todo`).  A `proxy` key is parsed in steps, one for each match in the
hash table (`ProxyKey`, `ProxyMatch`, `ProxyKeyDone`), because what a match gets
depends on what the matches before it got; the other keys are one step, because
their matches do not influence each other.  Which files a relative path matches is
a constant (`matches`).  `OnChain` and `ChainEnds` define the walks along proxies
without recursion: as the least set closed under `proxy`.

**Proxies** (`source_check_for_errors()`, `proxies.c`).  A second visit of the
directives gives headers implicit proxies.  What paths, the language and the standard
headers say of a header are constants.

**Tidy** (`symbols_init()`, `includes_print()`, `tidy_status()`, `main()`).  The
source file references any symbols any number of times up to `MaxRefs`, in any
order; `add_symbol` is the chain `add_symbol()`, `config_symbol_get_include()`,
`include_add_symbol()`.  A walk along proxies that does not end leaves the program in
`include_get_proxy`.  `includes_print` counts and prints in one step, as a set
of lines: sorting and groups decide only the layout, and comments are a module of their own.  A read of the
first element of an empty array of lines is printed as the line `NULL`.

### How it is printed

**Comments** (`make_symbols_comment()`, `maybe_print_include()`, `print_include()`).  Include files
come one after the other, in any order, as the groups they are printed in only give
the order.  Of names and paths the lengths count, and their order.  The style is
a variable, as it is in the code, which sets it for a line to delete and resets it.
What `array_merge()` does is taken from Arrays.  Where the first element of an empty
array is read, the program is in `undefined`.

### Which symbols are used

**Symbols** (`symbols_init()` in detail).  libclang hands out the cursors of a tree in
preorder: `Enter` is the visitor up to the visit of a cursor's children, `Leave` what
it does after them.  The three variables that it saves and restores around the
children are variables here, and their saved values are in a stack of frames, which is
the C stack.  Any tree can come that is made of the cursors in `Cursor`, each with the
kinds of cursors it can be a child of.  What libclang says of a cursor (its kind, what it
references, whether one of the exceptions in `cxx.c` that only ask libclang holds) is a
field of it; the exception that depends on the class in scope is computed.  A
token of a macro or field counts once for each name.  `add_symbol()` looks a typedef up
by its own cursor for the name of its symbol, which is the name the cursor has anyway, so
typedefs have no state here.

**Cxx** (`src/cxx.c` and what it asks of `src/clang_util.c`).  Whether one of the
exceptions to include-what-you-use holds is computed here from the declarations of classes,
templates, specializations, aliases and members, which libclang hands out one at a time
(`Declare`), each in a header.  With them comes which headers must include which
(`included`): a base class is needed with its definition, the type of a member or
alias is known from its definition or from an earlier declaration.  A cursor is a declaration
and whether it is the first of several, so that equality of cursors means what it means in the
code.  Whether libclang lists the bases of a class that is asked for by its first
declaration is left open (`shows_bases`).

### Configuration files

**TomlLite** (`src/toml_lite.c`) is the reader, character by character.  Its
state, the characters put back, the location, the error, is a record, and every
function of the reader an operator from one such record to another, with what it
returned: `toml_file_init` and `toml_table_next` are its interface.

**ConfigFiles** are the options: `cli_options_init()` sets those of the
command line, one per step (`CliOption`, then the checks in `CliDone`); `config_init()` looks for files in
six places (`ConfigFind`, `ConfigFound`, `ConfigFatal`), and `config_parse()` reads them, a table or a key of it
per step (`TableBegins`, `ConfigKeyValue`, `ParseEnds`).  The names
of keys are one letter long.  Options whose parse functions are alike have one
representative.  `case_num` and `found_at_least_1` are the static variables of
`config_file_find()`.  The reader is a parameter, the constants `TomlInit` and `TomlNext`, for which
the configuration of the run takes the operators of TomlLite: the module
has no recursion of its own, and its proofs hold for whatever a reader returns.  Its
properties relate how it ends to what was read (`places_read`, `tables`, `keys_read`).

**ConfigDocs** has no actions: it says what files are, as documents laid out as
characters in several ways, whole, cut at any character, or with a character that TOML
does not allow at any place, and states the properties of the reader: what is read is compared with what
was written, not with another reader.

### Command line and paths

**IncludePaths** (`src/ipath.c`, part of `src/path_util.c`) are operators on paths, which are
sequences of components.  `realpath()` is external: it follows the links of a file
system that is given by constants.

**CliArgs** (`src/cli_options.c`, and the naming of a header in `src/include.c`).  The
source and the language are looked for, the compiler asked for its directories (`line.search`
is its answer), then arguments are told apart one by one (`MoveArgument`), then
options are parsed as `lib/getopt.c` does, with clusters, abbreviations and permuted operands
(`ParseOption`, `SkipOperand`), checked, the paths added, and one header named.  An argument is a
sequence of tokens: a token that is more than a character is a word whose inside nobody
looks at.  The assertions are in effect: `abort` is where one fails.

**CommandLines** has no actions: a line is a sequence of items, each with its
arguments and what it means; the properties compare what was read with what was meant.

### Containers

**RedBlack** (`src/red_black.c`): the map from symbols to headers is such a
tree.  A node is named by its datum, and the sentinel `nil` is a node whose fields are
overwritten like any other's.  A call runs step by step: searching goes down one
node, and a fix-up makes one turn of its loop, in each step.  `rb_node_rotate()`,
`rb_transplant()` and so on are operators from a tree to a tree that make the assignments
of the function of that name in its order.  `nil_moved` is the only history variable: it
becomes true when `rb_delete_fixup()` has overwritten the parent it will read next.

**HashTable** (`src/hash_table.c`): the include set is one.  The chains are pointers
(`next`, `prev`), and the heads of buckets are named with the array they are in, so that a
pointer into an array that `ht_table_grow()` freed would be seen.  Searching, growth,
clean-up and the iterator make one turn of their loops in each step.

**Arrays** (`src/array.c`): an array is filled, sorted and merged as
`make_symbols_comment()` does it; `array_merge()` makes one turn of its loop in each step,
with the batch it collects before it moves it.

**KeySet** is what `src/red_black.h` and `src/hash_table.h` promise: a set whose
operations are one step each.  `RedBlack` implements its `Spec`, which iterates in order,
with the nodes that can be reached from the root for `elements`, and for `rest` the nodes on
the iterator's stack with their right subtrees; an operation takes effect when it links
or unlinks its node, and the fix-up after it is a stutter.  `HashTable` implements
`UnorderedSpec`: an insertion takes effect only when the growth it causes is over.

Operators whose comment begins with "Mutant" are not part of the model.  Each is a
plausible mistake in the operator after it, and PROJECT.json names the property
that does not hold any more if it is made; that is how we know the properties say
something.

## The runs

| run | configuration | expected | what it shows |
|---|---|---|---|
| link_line | MCLinkLine.cfg | violated | a direct header may have no line |
| header_config | MCHeaderConfig.cfg | holds | three headers and a link, each of which may include any other and itself, in every sequence of up to 4 directives; for five headers, four proxy keys, two handling keys, a symbols key and two ignore keys in every order |
| proxy_override | MCProxyOverride.cfg | violated | replacing a proxy makes a cycle |
| tidy | MCTidy.cfg | holds | the whole program, C++, five headers, three symbols |
| self_include | MCSelfInclude.cfg | violated | a header that includes itself is its own proxy, and the program does not end |
| parts | MCParts.cfg | holds | every tree of up to five of nineteen cursors, in C and C++; every three declarations in four headers; ten thousand command lines, six sources, four answers of the compiler; thirty include files with every comment option |
| member_ref | MCMemberRef.cfg | violated | the header of a member's class is not asked for though no header brings it |
| config_files | MCConfigDocs.cfg | holds | some twenty thousand configuration files, and arrangements of them |
| silent_stop | MCSilentStop.cfg | violated | an invalid character ends a file without an error |
| most_used | MCMostUsed.cfg | violated | the first of no symbols is read |
| containers | MCContainers.cfg | holds | every sequence of calls on small trees, tables and arrays |
| rb_delete | MCRbDelete.cfg | violated | deletion loses the sentinel's parent |

**header_config**: of the include set, `IncluderKnown` is the assertion in `include_insert()`;
`DepthZeroIsDirect`, `IncluderIncludes`, `LinesExact` relate every field to the
directives visited so far; `DepthGrounded` says a depth is never less than the
distance from the source file, although depths are not revised when an includer turns
out to be direct; `IncludersEnd`: includers make no cycle, although one is replaced by another without
a look at what includes that, unless a file includes itself or a namesake that includes it
(`NamesakesApart`).  Of the configuration, `ProxyAcyclic`, with two keys that would make a cycle
together; `MostDirectProxy`, the comment in `proxy_parse_string()` about which
of several proxies is chosen, for a header whose proxies have none themselves
(`RootProxies`): elsewhere a key may be refused for a cycle that a later key
takes away, and nobody tries it again; `ConflictIsError`: two keys that contradict each other end in
an error, in whatever order they and their matches come.

**tidy**: `VisitedHasIncluder` is the assertion in `implicit_proxies_visitor()`.
`ImplementationHidden`: what implicit proxies are for.  `OneIncludePerSymbol`,
`AnyOneSuffices`: on whose account a symbol goes.  `ReportTidies`: if the lines printed
are added and deleted, each header that is needed is included by one line and no other
header by any, with the need computed from the references, not from the flags, except
those the configuration keeps or elides, which are left alone.  `ReportIsViolation`: the exit status,
and the two counters, which are those of the lines printed though other code prints them.  `Terminates`: the program ends.
`ImplicitMakeNoCycle` and `WalksEnd` say of any configuration when it does: `implicit_proxies_visitor()`
checks for no cycle, and makes none if there is none among the includers (`IncluderAcyclic`)
and the explicit proxies (`ExplicitAcyclic`), and what is to be a proxy is not given an implicit
one (`FixedTargets`).  Run self_include shows why the first is needed, run proxy_override the second, and
an explicit proxy that is included by what it is a proxy for (see below) the third.
`WalksEnd`, which only a theorem is about, says of the whole program that it gets
into a walk without end in no other way.

**parts** are four specifications that share no state: a behaviour is of one of them.
Of Symbols, `ScopesNest` says what the three variables hold at any cursor in terms of the
whole tree visited so far.  `CallsAccounted` and `ExemptCallsHidden` are the two
sides of deferring a call's function until its arguments were visited.  A call of the same
function among the arguments of an exempt call is exempt with it: that is what
the code does, and both properties say so.  `InheritedIsSufficient`: the header of a
derived class is enough for what is inherited.

Of Cxx, `BasesExempt` and `ExceptionsSufficient` are two sides of the exceptions: where a class is
in scope, nothing that it inherits, however far up, asks for a header, and a header that is
not asked for comes with one that is.  The second leaves out four cases, by name, in which
it does not hold (see below), and run member_ref is about a fifth.

Of CommandLines, `LineIsRead` compares what libclang and include-tidy get with what the
items mean, and says which lines are refused and with which status.  `NamesAreFound`: the
include paths are those given, in order, the name printed for a header finds it again and is
the shortest, and the program gives up only for the two reasons there are.

Of Comments, `AsManyAsFit` compares what `make_symbols_comment()` computes before
anything is printed with how long the line gets when `print_include()` prints it.  A line
is too long only where the directive itself runs past the column or one symbol is too
much.  `NoneIsNone`: the style is that of the user at every include file.

**config_files**: `ReadAsWritten` and `ErrorLocated` are about
the reader: what it returns is what is written, in lists (`TablesAreLists`), nothing that begins in the file is dropped, and errors are
where they are said to be; `OptionsAsSet` is about who sets an option or adds to it,
`FilesInOrder` about the search, `ExitAgrees` about errors: a file is refused
exactly if something in it is wrong.

**containers**: `RulesHold` is all of the red-black properties, of which
`rb_tree_check()` asserts two; `NodesAccounted` that nothing leaks and nothing freed is
left in the tree; `ImplementsKeySet` and `ImplementsSet` are the refinements; `EveryCallReturns`
says that the loops end; `IteratorDepth` is the claim of
`src/red_black.h` that the fixed stack of the iterator is deep enough; `ChainsHold` relates
chains, counters and the memory in use; `MergedExactly` that a merge loses, adds and
frees nothing wrong.  The claims about the tree are made until `nil_moved`, where the constraint
stops; run rb_delete shows what comes after.

### Bounds

`MaxDirectives` = 4 gives a header that is included directly, indirectly,
and directly again, and a chain of three headers under a direct one; every
disagreement found needs three directives or fewer.  `MaxRefs` = 1: a second reference
to a symbol only changes the counter that the comments are sorted by.  Two proxy
keys with one match, two with each other as matches, two handling keys that
conflict on one of two matches, and a header added by the configuration are the
cases the properties tell apart.  There is no symmetry: the headers have different parts.

`MaxNodes` = 5: a function, a statement, a call, an argument and something after it.  It
is the least at which a scope is left to one that is not the outermost and then used.

Three declarations are a class, one that inherits from it and a member, a template, a
specialization and an alias, or three classes of which each inherits; four headers are what it takes to
declare a class in one, define it in another and use it in a third, with one left to be
a proxy.  Declarations that do not need each other come in one order only.

Numbers have four digits (`MaxDigits`) and `MaxLong` = 2047, so that the largest value is
reached in decimal, octal, hexadecimal and binary, and passed.  Besides whole documents in every
layout, there are all files of up to three of nine characters, which begin every
construct there is.  Missing and unreadable files are in every combination over the six
places; wrong files in layers of up to three.

An invalid character is put at every place but two: after a character of a bare key, which
run silent_stop is about, and for a newline, as it would only lengthen a comment.

Command lines have up to two items of every kind, and three of some, in any order, before the
source.  The file system has six directories, one inside another, and two links; that to a
directory leads to one beside it, as `NamesAreFound` is false otherwise (see Paths below).  Three
kinds of lines are left out, as the program takes the last word of a line for the
source whatever it is: a word where a source is missing, an option that lacks its
argument right before the source, and a lone `-Xtidy` before an argument with a dash.

A line is as long as the directive and the shortest comment, up to longer than with every
symbol, for paths that end before the column of comments, at it and after it.

The tree has four data in every sequence of calls (`Shallow`).  A fix-up climbs past a
recolored node into a rotation only in trees of eight nodes (insertion) and ten
(deletion), and only a list of more than five breaks the bound of `IteratorDepth`: hence
`Deep`, where ten data are added in ascending order and then two at most deleted.  Liveness
is checked under that constraint, which cuts no call short but one that a claim is not made for.
The hash table has 2, 3 and 4 buckets in turn and four data, two of which stay in one
chain: it grows twice, and is then full beyond its load factor, as it is after the
last prime.  Arrays have up to six elements of three names.

### Fairness

`TidySpec` has weak fairness of the program's steps: a single thread that
nothing suspends takes its next step, libclang's visits end because a translation
unit has finitely many directives (`MaxDirectives`), and references are
bounded by `MaxRefs`.  No fairness of a single action is assumed.
The containers have weak fairness of the function that runs (`RedBlackStep`,
`HashCallStep`), and none of the calls.

Where the runs stop: MCHeaderConfig lets the program stay
where Proxies takes over, or where the configuration is not of interest; in `Tidy` it stays where it has exited, or in the
walk that does not end.  Symbols, Cxx, ConfigFiles and CliArgs end with what they read.

## Where code and documentation disagree

Each of these has a run whose violation is the evidence:

1. link_line: a header met indirectly first, then included by the source file under
   another name, is direct (`src/include.c:562`) but has no line (`:636-662`);
   `src/include.c:875` then reads the first element of an empty array, when the header is
   not needed.
2. proxy_override: `src/config_file.c:899-907` replaces a proxy without the check for a cycle.
3. self_include: `src/include.c:590-593` makes the file that includes a header again its
   includer if it has the same basename, also if it is the header itself, which then becomes its
   own proxy, as `src/proxies.c:182-186` has no check for a cycle either, and the program loops.
   No configuration is needed.
4. rb_delete: `rb_delete_fixup()` starts at the sentinel when a leaf is deleted.  If the
   sibling's red child is the inner one, the rotation at `src/red_black.c:184` makes the same sentinel
   a child of the sibling, and the next line reads its parent.  Insert 2, 1, 4, 3 and
   delete 1: a node is lost.  The program does not call `rb_tree_delete()` at this commit.
5. silent_stop: an invalid character right after a character of a bare key ends the reading
   of a configuration file without an error, and what follows is dropped.
6. member_ref: `is_cxx_mbr_ref_iwyu_exc()` (`src/cxx.c:376-384`) exempts every member of a data
   member, as the class's header "must have already provided the declaration for the object's
   type and all its members"; for a pointer it need not.  With `struct Foo { Bar *bar; };` after
   a mere declaration of `Bar`, `foo.bar->x` does not ask for the header of `Bar`.
7. most_used: with `--comment-symbols=most-used`, `make_symbols_comment()` takes the
   first symbol (`src/include.c:753`) also of an include file without symbols, which a kept
   header is, or the associated header; `array_front_nc()` returns NULL for it.

The following were met while modelling.  The model does what the code does, and the properties
of the passing runs are worded or their instances chosen accordingly.

- Proxies.  If the configuration makes an implementation header the proxy for a header that
  includes it, `src/proxies.c:182-186` makes the implementation header its own proxy, and the program loops.
- Configuration.  The manual says the order of tables and keys does not matter; a `keep` or elide
  key before the key that adds the header has no effect.  A kept header that is included twice
  gives exit status 1 with nothing printed, and one that is missing is not reported.  A
  `std-c-includes` key after an `add-c-includes` key is ignored (`src/config_file.c:930`).
  Keys of options are accepted in tables of any name.  `--comment-style` and
  `--comment-symbols` turn on `all-includes` without marking it as set, so a file can turn it off.
- Paths.  The assertion at `src/ipath.c:158` fails, so the program aborts, for a header outside
  every include path, as `"../x.h"` in a source in another directory.  `path_normalize()`
  returns NULL for a path that ends where it began, though `src/path_util.h:245-250` does
  not say so: `include-tidy src/../a.c` and `././a.c` abort at `src/config_file.c:1059`.  The root
  directory never matches as an include path.  A `..` after a link to a directory is taken
  away with the link (`src/path_util.c:207-209`), and `ipath_find()` takes a directory for the header
  (`src/ipath.c:117`); the names of headers can be wrong then.  `src/include.c:440-458` says links are
  not resolved; `src/ipath.c:135` resolves them.
- Command line.  The comment at `src/cli_options.c:1264` says a case is never executed; `-va` executes
  it.  The compiler is looked for with its long name and `-C` only, so `-ACgcc` and
  an abbreviation are not seen there, though getopt_long(3) accepts them.  `-Xtidy -C a.c`
  takes `a.c` for both compiler and source.  Only the first `-x` counts for
  include-tidy.  The manual says `-I` is for the compiler only; include-tidy reads it too.
- Reader.  Lines that end with a carriage return are refused; `+`, `-` and `0x` without digits are
  zero, `0xb_1` is an error; several keys may be on one line; the largest `long` in nineteen
  digits is refused; the error about a table that is there again is located at its bracket.
- Exceptions for classes.  Four more take more for granted than C++ does, and
  `ExceptionsSufficient` leaves them out: an alias of a class that its header only declares
  (`NamesIncomplete`; the comment at `src/cxx.c:229` takes it that the header "must have
  included" the class's), a specialization that is not where its template is
  (`IsExplicit`), a parameter whose type is named by an alias in a class (`IsMemberAlias`), and a
  nested class that is defined in a header of its own (`IsOutside`).  A base class that
  is named by an alias is not followed.  `src/clang_util.h:406-413` describes the arguments of
  `tidy_Cursor_isTemplateSpecializationOf()` the other way around from what the code does.
  The scan back over template arguments (`src/cxx.c:456-475`) knows `>` but not `>>`.
- Symbols.  `visit_OverloadedDeclRef()` does not defer and ignores scopes.
- Output.  `src/include.c:788` counts the column of comments as if they started after it, so
  the last column of a line is never used.  In C, a structure and a function of one name are
  listed twice, as only C++ merges them (`:732`).  `-Vf` prints the name of the source
  file also without a violation if `--all-includes` prints something (`:848`).
  `opt_verbose_parse()` stores the letters before it takes `i` and `f` away from those
  that have `I` and `F` (`src/options.c:313-321`), so these lines do nothing.

## The proofs

The theorems hold for every set of files, links, directives, keys, symbols and bounds that
the assumptions `FileAssumption` and `KeysAssumption` admit; these only give the constants their types.
`CommandLines_proofs` holds for all tokens, lines and answers of the compiler (`CliAssumption`)
and any tree of directories, files and links (`FileSystemAssumption`: what has a name is in a directory, and
a link leads to what is there), `HeadersAreFound` with the two conditions below;
`Comments_proofs` holds for all symbols and include files, `RedBlack_proofs` for any set of
integers as data, `HashTable_proofs` for all data, hash functions and sequences of primes, `Symbols_proofs` for all declarations and all trees of cursors that
`SymbolsAssumption` admits, and, of Cxx, for any number of declarations in any headers; `ConfigFiles_proofs`
for any command line, any files at the six places and any reader of them.

**The include set.**  `IncluderKnown` is not inductive: why should the includer
of the directive visited next have an entry?  Because an earlier directive opened it
(`ReportedInOrder`), and that one was visited (`VisitedIncluded`).
`ReportedInOrder` in turn needs that whatever is open was reported (`OpenReported`).
`IncludesInv` is these, the types, `PhasesInOrder` and the properties themselves;
one lemma (`VisitKeeps`, `VisitIncluder`, `LinesVisit`) says what any visit of a
directive does to each property, and `InvStep` shows that every action is such a visit.
For the lines, an entry must also keep the file it was made for, and a file
without an entry must have no lines (`LinesInv`).

`DepthIsGrounded` needs a witness for every indirect header, `GroundedInv`: a visited
directive of it from a less deep file (`Grounds`).  Such a witness lasts
(`GroundsKept`) because depths never grow, and a header whose own depth is lowered has
the directive that lowered it.

**Proxies.**  `ProxiesAcyclic` shows that explicit proxies make no cycle if the
configuration satisfies `SafeKeys`: a header that is given two proxies is not given one
that is itself given a proxy.  Run proxy_override shows that without such a condition it is false.
`NoCycleMade` is the argument for `include_proxy_would_cycle()`: if `from` is not on
the chain of `to`, some closed set has `to` and not `from`, and a cycle through the new
link would leave a set, within that one, in which every header already had its proxy.
`OverrideByRoot` is the other branch: a proxy without a proxy closes no cycle.
`ProxyFromKey` ties the two to the keys met so far.

**Contradictory keys.**  `ConflictsAreErrors` needs to know of a key that was met what became of
its matches, and that is `HandledInv`: keys wait until the include files are known (`KeysWait`), the
source file is among them (`SourceIncluded`), and unless an error was found every match of a
key that was met is handled as the key says (`HandledAsSaid`).  Then two keys that differ
(`KeysDiffer`) cannot both have been met without one.

**The most direct proxy.**  `MostDirectIsChosen` carries `DirectInv`: what `MostDirectProxy`
says (`Served`) is true, while keys are still to come, of every key met and of the
matches of the current one that were handled.  A match serves its own key, because a proxy
without a proxy makes no cycle (`DirectMatch`), and the keys before, because one proxy replaces
another only if it is more direct.  `FromKeyStep`, that proxies come from keys met, is shared with `ProxiesAcyclic`.

**Implicit proxies.**  `ProxiesInv` carries the invariant over to the second visit: every file it
meets has an entry (`SourceIncluded`), and one that is not direct an includer, although the
configuration adds entries that have none: those are never met (`DeeperHasIncluder`).
That is the assertion, `VisitedIncluderKnown`.  A call of the visitor leaves the file it is called for
hidden (`VisitHides`), and no later one takes a proxy away: `ImplementationIsHidden`.

**Cycles.**  All of these are of the form "every set of files has one that leads out of
it", because the provers know nothing of walks.  `IncludersDoEnd` looks at a set that has become closed under
`includer`.  A new file has no file that it was an includer of (`NewEnds`).  An includer that was replaced is
harder: from the set the file is taken out with all that it includes (`Reaches`); by `NamesakesApart` the new
includer stays, so what is left is not empty, and it would have been closed before (`NamesakeEnds`).
`ImplicitProxiesEnd` carries `ChainsInv`: an implicit proxy is above the includer (`Above`, `ProxiesAbove`) or is one that gets
no implicit proxy (`Fixed`).  A chain that comes back to its start would put it above itself, which
acyclic includers exclude (`NotAboveItself`, `VisitEnds`).  The hypothesis `ChainsAreSafe` is about the state
after the configuration was parsed, which the second visit does not change (`SafeKept`).
`WalksDoEnd` then is that every walk of `add_symbol()` is along these chains (`SymbolEnds`).

**One header per symbol.**  `TidyInv` says that a symbol is only in the set of the header
chosen for it (`SymbolsAreChosen`), which does not change any more, as proxies, depths and the lists
are final when symbols are visited (`SettledSteps`, `ChosenKept`).  `ChosenIsBest` is about the choice:
the loops lead to a header without a proxy, and if any listed header leads to a direct
one, then so does the first such, which the search does not pass: `OneIncludeForSymbol` and
`AnyOneIsEnough`.

**The report.**  `ReportIsRight` assumes `NoLinks` (with links a line may be
missing: run link_line) and `OneAssociated` (of several associated headers, `get_associated_header()` picks one).
Its invariant, `ReportInv`, has three parts.  A header has lines exactly if it is direct,
in order, and those that the configuration adds have none (`LinesKnown`, from
`LinesInv` and `DepthZeroIsDirect`).  The flags are what the references made so far need, which is said without the
flags (`NeededSoFar`).  What was printed is what these say (`NeededKnown`).
`LinesOfReport` then reads the report for one header, and `ReportMakesTidy` goes through
the cases: needed or not, direct or not, kept, elided or neither.

**The counters.**  `ReportIsCounted` needs neither assumption: a header with lines is direct also if
there are links, and more is not asked for.  `includes_print()` counts before it prints, by other conditions than
`maybe_print_include()` prints by, so `CountsFollow` gives every line printed an element of what was counted:
an ADD line a header (`Missing`), a DELETE line a header (`Unneeded`) or one of its
repeated lines (`Repeats`), and no two the same, because the lines of a header ascend.
The sum of the repeated lines is a recursive function over sets in the community
modules; `SumOfDuplicates` shows that it has a solution and, by a least set for which it
had another, that the solution is the number of `Repeats`.

**Symbols.**  The tree is built in preorder while it is visited (`InPreorder`), so the cursors that are open are those
around the next one (`Nested`), and what the visitor remembers has to be what the tree
says (`ScopesNest`).  That is not inductive: leaving a cursor restores what its frame has, and `Saved` says
that this is what the tree said before the cursor.  The rest is `SymbolsInv`.  A call is settled when its
arguments were visited, and by then only `CallsAccounted`, of every call around it, says who adds its
function: the call itself, or an outer call of the same function that is still open.
`ExemptCallsHidden` needs that a definition which follows a mention is never that of a function, an
assumption on `CursorType` that `is_symbol_definition_needed()` justifies.
The proof found two mistakes in the model: `added_for` had overlapping guards in a CASE, of which TLC takes the
first and the semantics any, and `ExemptCallsHidden` was false in trees that TLC was not given, where a
set of overloaded functions is named inside of a call, for which `visit_OverloadedDeclRef()` always adds the symbol.

**Exceptions for classes.**  The two properties of Cxx are about one state at a time, but what
that state can be is an invariant, `CxxInv`: every declaration refers to earlier ones only, of the kinds it
can refer to, in headers that its own includes (`WellFormed`), and a header includes what those that
it includes do (`IncludesNest`).  The walks of `clang_util.c`, up the outer classes, along aliases and
through bases, are recursive functions of the state.  That each has a solution has to be shown:
`FunctionExists` is that any recursive function has one whose calls are to arguments of lower rank (in Facts, with the other lemmas that several modules
use), and here a declaration's rank is its number.  What a walk finds is then shown
without induction, by the least declaration for which it is not so.  `InheritedComesAlong` says so of headers:
what a class inherits from, and the outermost class around it, come with its own.
`ClassExceptionSufficient` and `AliasExceptionSufficient` are the two ways to an exception; each of the four cases
that `ExceptionsSufficient` leaves out is a step that would fail.
For `BasesAreExempt`, `ListedIsFound` says that a base libclang lists under its own name is found by
`isInheritedFrom()`, however far up (`AncestorsWithin`).

**The red-black tree.**  The properties speak of what can be reached from the root, a
recursion over links that every rotation changes.  The proofs have instead a set `N` of nodes and for
each node `n` the set `sub[n]` of those in its subtree; `Shape` relates the links to these, one
node at a time, and `LinkedIs` and `BelowIs` show that the recursion finds just them.  What
an operator does to the links is said once (`RotateIs`, `TransplantIs`, `LeafIs`), then what that
does to the sets: a rotation changes two of them (`Turned`), a node put in or taken out is put into or
taken out of those above it.  Colors are treated likewise: `B[n]` is the number of black nodes from `n` down,
`Balanced` says so one node at a time, and `RedsApart` that red nodes have black children.
`Balanced` may have a gap, a child to which one black node is missing, which is what
`rb_delete_fixup()` moves up and closes; `RedsApart` may except the node that
`rb_insert_fixup()` moves up.  So `Good` says of every value of `pc` which flaw the tree has and where
the pointers of the function are, and `TreeInv` is the types and, unless `nil_moved`, `Good`.
Without that condition it is false (run rb_delete), and the proof shows that nothing else can go wrong: each
case of both fix-ups closes the gap, removes the red pair or moves it up.
`RulesHold` counts the black nodes above each end; `SaneRules` shows these numbers equal to `B` of the root.
`TreeIsSet` is the refinement of KeySet: linking and unlinking a node are the set's steps, rotations and
fix-ups leave `Linked`, `Rest` and `result` alone, and what the iterator has on its stack is
in order (`Walk`), so that its top is the least node left (`WalkPops`).
`DepthIsBounded` is the arithmetic of `red_black.h`: a subtree has at least `2^B[n] - 1` nodes (`BigEnough`), and the
nodes on the stack are on one path down (`Down`), on which `PathBound` falls with every node.  The standard
module's `^` has no definition the provers can use, so `TwoTo` is 2 to the power here.

**The hash table.**  `ChainsHold` is about calls that have returned; `HashInv` has a part for every loop.
An entry is in a chain because its predecessor knows it (`Chained`, `Backed`), and that it can be
reached from the bucket is said without reachability: no set of entries is only behind itself
(`Grounded`).  While `ht_table_grow()` moves entries, those moved are chained in the new array
and the rest wait in what is left of the old one (`Waiting`), and likewise while
the table is cleaned up.  A search has passed only what it does not look for (`Passed`), so that a datum
that is not found is not there.  `TableIsSet` is the refinement of KeySet: each step is
one of the set's or leaves the set, what the iterator still has to return and the result alone.  Growth and the
search are such hidden steps, and during growth the set is that of the entries but for the new one (`committed`).

**Arrays.**  `MergeInv` is about what is to be left of the elements before the one `array_merge()` looks at: the unique ones
that are in their place and those of the batch, which are not (`Kept`).  It is a merge of what
was sorted before that element (`IsMergeOf`), the last unique element is its last one, and the
batch ends where the element is.  That `last_unique` points into the batch until it is
moved, and to its new place after, is why the count of a later duplicate is not lost.  qsort(3)
may leave elements of equal name in any order, and `SortingsInOrder` holds for all of them.  `GrownEnough` is that
`array_reserve()` does grow, for which a capacity has to be 2 at least: half of 1 is nothing.

**Comments.**  `NoneStaysNone` rests on `StyleAfter`: what `maybe_print_include()` resets the
style to is what it was, because the style that ends a comment is never touched.

`CommentsFit` needs no invariant but the types of the options: it is about what one call computes,
whatever it is given.  `InThatOrder` is that any finite set can be put in a total order, by counting the elements before
each, and so what is chosen for the result of qsort(3) exists (`SortedIs`).  The loop
of `make_symbols_comment()` is a fold, and `FoldExists` shows that this has a value.  What holds after
each symbol (`Filled`) is that the names so far are the first ones, or that they ended before one
without room; `LineIsAsLong` relates that to the line `print_include()` prints, where one column is
lost between the two.

**Command line and paths.**  `ArgumentsAreMovedInPlace` is the types and what keeps `move_tidy_args()` in
its array: the next argument that is kept is never behind the one that is read, and no option takes an argument past the
last (`ArgumentFits`, `OptionReturns`: for every way to write an option, attached values and clusters
among them).  It has one hypothesis, `ArgumentsArePaths`: an argument, if it is taken for a path, is one.  It
cannot be evaluated as there are infinitely many arguments; `PathOf` in MCCommandLines returns nothing else.

`HeadersAreFound` follows a header from the path libclang gives to the name and back.  A
real path is entered one component at a time, so `realpath()` of a path is `Lead`, which goes on where it ended
(`PathLeads`).  Then `path_normalize()` leads to where the path did
(`NormalizedPathLeads`), component by component: `..` goes up in the name as it does in the file system only if a
link to a directory lies beside it, which is the hypothesis `LinksLieBeside`; otherwise the code names another
file, see Paths above.  A file below an include path is found below it by the rest of its real path (`HeaderIsNamed`),
and nothing before in the order is taken for it but a file of the same name: a
directory would be (`FilesHaveOwnNames`, the second hypothesis, which is again what the code gets
wrong).  That the include paths are those given in the order they were given first is `FirstInOrder`, by
induction over the fold that `ipath_add()` is called in.  The invariant
`CliInv` adds that nothing is added before the options are checked, and no header named before the include paths are
known (`NothingEarly`).  TLC evaluates both hypotheses on the file system of run parts (`NamesAreSafe`).

**Configuration files.**  `SearchInv` says of any state what was read so far: a place whose case is behind
`case_num` is among `places_read` exactly if it is readable (`Tried`).  That the next file is the first of
the rest, and that the second directory of `XDG_CONFIG_DIRS` is lost if the first has a file, is
`FirstIsLeast` and `ReadOrOpens`; `FilesAreInOrder` follows.

`RefusedIfWrong` and `EarlierSettingPrevails` have the hypothesis `[]TablesAreLists`, that the reader
returns lists, which says nothing of what is in them; the run checks it of TomlLite, as part of `ReadAsWritten`.
`ParseInv` is about the kinds a table can still be.  The code keeps one set of
kinds and replaces it by that of a key if this is smaller, so the set is not obviously the intersection of those of
all keys: it is (`KindsAgree`) because any two sets of kinds in `CONFIG_KEYS` that overlap are nested (`Narrowing`).  A key that
allowed other kinds than these could make the program accept a table of no kind, or refuse one.  A value that is wrong may not be seen, if the option
was set before (`HiddenIn`), and what hides a value once hides it for good, so the tables that were right
stay so (`TablesInv`).  `ParsedAs` says what every parse function may do, and is shown of each (`ParseKeyIs`).

`OptionsInv` relates the value of an option to the history: `CliValue` to the options of the command line up to
`optind`, and, once that is done, the value and whether it is set to the first key that sets it
(`FirstSetter`), as a key that comes later finds it set (`SetBySome`).  What is implied by the
style of comments is not marked as set, and that is why the property has a case for it.

Only model-checked: the TOML reader (`ReadAsWritten`, `ErrorLocated`), whose nested values need
recursive operators, which the prover does not have, and what a command line means (`LineIsRead`), which
is said of lines made of items that a run gives: a theorem would need a grammar of options.
`Terminates` and `EveryCallReturns` stay with TLC for good: liveness
under fairness is beyond the prover.  Of `Terminates`, `WalksDoEnd` proves that the program does not get
into a walk without end; that it keeps going is what fairness adds.

## What is not modelled, and the plan

Simplifications: the redirection of a symbol by the configuration is in Tidy, not in Symbols; the
values of options are in ConfigFiles, not in CliArgs; ConfigFiles takes the options from the
command line as given, and leaves the keys of header, source and symbol tables to HeaderConfig.

What would come next:

1. Compositions: CliArgs with ConfigFiles, ConfigFiles with HeaderConfig, and Symbols with Tidy in
   place of its free choice of references, Cxx with Symbols in place of the field `exempt`.
2. An abstract specification of the whole (a function from the directives, the references
   and the configuration to a report) that Tidy implements.

The number of runs is kept small on purpose; modules that share no state share runs where they can.

Left out: colors, layout, verbosity, statistics, strings and memory management, which
decide nothing about the report (`src/print.c`, `src/color.c`, `src/verbose.c`,
`src/strbuf.c`, `src/util.c` and the like, and what only decides the order
of the lines in `src/include.c`); the rest of `src/clang_util.c` (look-ups by
name, initializers, strings) and the two exceptions of `src/cxx.c` for arrows and
qualified names, which look at expressions and tokens as libclang's parser makes them;
and libclang, gnulib (`lib/`) but for `getopt.c`, the headers it generates and the build
system, which are most of the repository's lines and are not the program's own.
