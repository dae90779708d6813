------------------------------ MODULE Symbols -------------------------------
(***************************************************************************)
(* symbols_init() of symbol.c: the visit of the translation unit that      *)
(* finds the symbols the source file uses, and for each the file that has  *)
(* to be included for it.                                                  *)
(*                                                                         *)
(* libclang hands out the cursors of the tree one at a time, in preorder:  *)
(* Enter is symbols_init_visitor() for a cursor up to the visit of its     *)
(* children, Leave what it does after them.  What the visitor must         *)
(* remember between two cursors is in three variables that it saves and    *)
(* restores around the children: in a cursor's frame, here.                *)
(***************************************************************************)
EXTENDS Integers, Sequences, FiniteSets, FiniteSetsExt

CONSTANTS
  Dec,        \* the declarations that can be referenced
  DecKind,    \* "class", "function", "method", "parameter" or "other"
  DecFile,    \* where it is first declared; NULL: in the source file
  DecParent,  \* its semantic parent if that is a class, or NULL
  DecBases,   \* of a class: all it inherits from
  File,
  Cursor,     \* the cursors libclang can return, see CursorType
  MaxNodes,   \* bound: cursors in a translation unit
  NULL

Kinds == {
  "CXXMethod", "CallExpr", "ClassDecl", "DeclRefExpr", "DeclStmt", "FieldDecl",
  "FunctionDecl", "MacroDefinition", "MemberRefExpr", "OverloadedDeclRef",
  "TranslationUnit", "TypeRef", "TypedefDecl", "UnexposedExpr", "VarDecl"}

CursorType == [
  kind       : Kinds,
  parents    : SUBSET Kinds,          \* kinds of cursors it can be a child of
  in_file    : BOOLEAN,
  ref        : Dec \cup {NULL},       \* clang_getCursorReferenced()
  definition : Dec \cup {NULL},       \* the class whose definition a type or a
                                      \* member function needs
  exempt     : BOOLEAN,               \* one of the is_cxx_*_iwyu_exc() holds
  member     : BOOLEAN,               \* of a call: its first child is a MemberRefExpr
  tokens     : SUBSET Dec,            \* named by the tokens of a field or macro
  params     : SUBSET Dec]            \* named as parameters of a macro

DecKinds == {"class", "function", "method", "parameter", "other"}

ASSUME SymbolsAssumption ==
  /\ IsFiniteSet(Dec) /\ NULL \notin Dec
  /\ DecKind \in [Dec -> DecKinds]
  /\ NULL \notin File /\ DecFile \in [Dec -> File \cup {NULL}]
  /\ DecParent \in [Dec -> Dec \cup {NULL}]
  /\ DecBases \in [Dec -> SUBSET Dec]
  /\ Cursor \subseteq CursorType
  /\ \A c \in Cursor : c.kind = "CallExpr" => "ClassDecl" \notin c.parents
  /\ \A c \in Cursor : c.definition # NULL /\ c.ref # NULL => DecKind[c.ref] # "function"
  /\ MaxNodes \in Nat

VARIABLES
  lang,
  stack,                 \* a frame for each cursor whose children are visited
  cxx_current_fn_cls,
  cxx_deferred_fn,
  cxx_statement_cls,
  ref_count,             \* of symbol_set
  symbol_files,          \* <<symbol, file>>: the calls of include_add_symbol()
  tree                   \* history: the cursors visited, each with its parent

scopes == <<cxx_current_fn_cls, cxx_deferred_fn, cxx_statement_cls>>
symbolsVars == <<lang, stack, scopes, ref_count, symbol_files, tree>>

DecOrNull == Dec \cup {NULL}

Frame == [
  cursor           : Cursor,
  node             : Nat,       \* its index in tree
  is_new_statement : BOOLEAN,
  prev_fn_cls      : DecOrNull,
  prev_deferred_fn : DecOrNull,
  prev_statement   : DecOrNull]

SymbolsTypeOK ==
  /\ lang \in {"C", "CPlusPlus"}
  /\ stack \in Seq(Frame)
  /\ cxx_current_fn_cls \in DecOrNull
  /\ cxx_deferred_fn \in DecOrNull
  /\ cxx_statement_cls \in DecOrNull
  /\ ref_count \in [Dec -> Nat]
  /\ symbol_files \in SUBSET (Dec \X File)
  /\ tree \in Seq([cursor : Cursor, up : Nat])

SymbolsInit ==
  /\ lang \in {"C", "CPlusPlus"}
  /\ stack = <<>>
  /\ cxx_current_fn_cls = NULL
  /\ cxx_deferred_fn = NULL
  /\ cxx_statement_cls = NULL
  /\ ref_count = [d \in Dec |-> 0]
  /\ symbol_files = {}
  /\ tree = <<>>

IsCxx == lang = "CPlusPlus"
IsClass(d) == d # NULL /\ DecKind[d] = "class"
IsFunction(d) == d # NULL /\ DecKind[d] \in {"function", "method"}

Top == stack[Len(stack)]

-----------------------------------------------------------------------------
(* What a cursor makes symbols_init_visitor() add.                         *)

\* symbol_is_excluded() and get_symbol_file(): NULL is also an invalid cursor.
IsIncludable(d) ==
  d # NULL /\ DecKind[d] \notin {"method", "parameter"} /\ DecFile[d] # NULL

\* Mutant: the statement's class hides that of the function.
sid_cxx_scope_statement(fn_cls, statement, else_dec) ==
  IF statement # NULL THEN statement ELSE IF fn_cls # NULL THEN fn_cls ELSE else_dec

\* sid_cxx_scope(), for the scopes fn_cls and statement.
sid_cxx_scope(fn_cls, statement, else_dec) ==
  IF fn_cls # NULL THEN fn_cls ELSE IF statement # NULL THEN statement ELSE else_dec

OfClassOrBase(scope, d) == d # NULL /\ (d = scope \/ d \in DecBases[scope])

IsMemberOrBase(d, scope) ==
  IsClass(scope) /\ (OfClassOrBase(scope, d) \/ OfClassOrBase(scope, DecParent[d]))

\* Mutant: a function is not deferred.
IsExempt_at_once(c, deferred, scope) ==
  /\ IsCxx /\ IsIncludable(c.ref)
  /\ c.exempt \/ IsMemberOrBase(c.ref, scope)

\* visit_most_kinds(): no symbol for the declaration and none for the definition.
IsExempt(c, deferred, scope) ==
  /\ IsCxx /\ IsIncludable(c.ref)
  /\ \/ c.ref = deferred
     \/ c.exempt
     \/ IsMemberOrBase(c.ref, scope)

\* add_symbol(): the symbol and the file.
for_declaration(c) == IF IsIncludable(c.ref) THEN {<<c.ref, DecFile[c.ref]>>} ELSE {}

for_definition(c) ==
  IF c.ref # NULL /\ IsIncludable(c.definition)
  THEN {<<c.ref, DecFile[c.definition]>>} ELSE {}

\* A call of add_symbol() each: the definition may be in the declaration's file.
visit_most_kinds(c, deferred, scope) ==
  IF IsExempt(c, deferred, scope) THEN <<{}, {}>>
  ELSE <<for_declaration(c), for_definition(c)>>

MostKinds == {"CXXMethod", "CallExpr", "DeclRefExpr", "FunctionDecl", "TypeRef",
              "TypedefDecl", "MemberRefExpr"}

\* visit_FieldDecl() and visit_MacroDefinition() for the names in the tokens.
visit_tokens(c) ==
  <<{<<d, DecFile[d]>> : d \in {t \in c.tokens \ c.params : IsIncludable(t)}}, {}>>

\* visit_CallExpr() in C++ for a function that is not called on an object: its
\* children are visited first.
IsDeferredCall(c) == IsCxx /\ c.kind = "CallExpr" /\ ~c.member /\ c.in_file

IsSkipped(c) == c.kind = "UnexposedExpr" \/ ~c.in_file

\* The scope "else": the class a member belongs to or that the parent declares.
else_scope(c, parent) ==
  IF c.kind = "MemberRefExpr" THEN (IF c.ref = NULL THEN NULL ELSE DecParent[c.ref])
  ELSE IF parent.kind = "ClassDecl" THEN parent.ref ELSE NULL

added_for(c, parent, fn_cls, deferred, statement) ==
  LET scope == sid_cxx_scope(fn_cls, statement, else_scope(c, parent)) IN
  IF \/ IsSkipped(c)
     \/ c.kind = "MemberRefExpr" /\ c.exempt
     \/ c.kind = "CallExpr" /\ IsCxx /\ c.member
  THEN <<{}, {}>>
  ELSE CASE c.kind \in MostKinds                        -> visit_most_kinds(c, deferred, scope)
         [] c.kind \in {"FieldDecl", "MacroDefinition"} -> visit_tokens(c)
         [] c.kind = "OverloadedDeclRef"                -> <<for_declaration(c), {}>>
         [] OTHER                                       -> <<{}, {}>>

add_symbols(added) ==
  /\ ref_count' = [d \in Dec |->
       ref_count[d] + Cardinality({i \in 1..2 : \E file \in File : <<d, file>> \in added[i]})]
  /\ symbol_files' = symbol_files \cup added[1] \cup added[2]

-----------------------------------------------------------------------------
(* The visit.                                                              *)

IsDeclOrStmt(c) ==
  c.kind \in {"CXXMethod", "ClassDecl", "DeclStmt", "FieldDecl", "FunctionDecl",
              "TypedefDecl", "VarDecl"}

IsNewStatement(c) == IsCxx /\ ~IsSkipped(c) /\ IsDeclOrStmt(c)

\* A class named in a statement is the scope of what follows in it.
NamesClass(c) == IsCxx /\ ~IsSkipped(c) /\ c.kind = "TypeRef" /\ IsClass(c.ref)

IsFunctionCursor(c) == IsCxx /\ c.kind \in {"CXXMethod", "FunctionDecl"}

\* The class of the function that a cursor defines or declares.
function_class(c) ==
  IF c.ref # NULL /\ IsClass(DecParent[c.ref]) THEN DecParent[c.ref] ELSE NULL

TranslationUnit == [
  kind |-> "TranslationUnit", parents |-> {}, in_file |-> TRUE, ref |-> NULL,
  definition |-> NULL, exempt |-> FALSE, member |-> FALSE, tokens |-> {}, params |-> {}]

Parent == IF stack = <<>> THEN TranslationUnit ELSE Top.cursor

IsFirstChild == stack # <<>> /\ Top.node = Len(tree)

\* Whether libclang can return c now.
CanFollow(c) ==
  /\ Parent.kind \in c.parents
  /\ Len(tree) < MaxNodes
  /\ Parent.kind = "CallExpr" /\ IsFirstChild =>
       Parent.member = (c.kind = "MemberRefExpr")

\* Mutant: a new statement does not forget the class named in the last one.
statement_before_kept(c) == cxx_statement_cls

statement_before(c) == IF IsNewStatement(c) THEN NULL ELSE cxx_statement_cls

Enter(c) ==
  /\ CanFollow(c)
  /\ stack' = Append(stack,
       [cursor |-> c, node |-> Len(tree) + 1, is_new_statement |-> IsNewStatement(c),
        prev_fn_cls |-> cxx_current_fn_cls, prev_deferred_fn |-> cxx_deferred_fn,
        prev_statement |-> cxx_statement_cls])
  /\ cxx_statement_cls' = IF NamesClass(c) THEN c.ref ELSE statement_before(c)
  /\ cxx_current_fn_cls' =
       IF IsFunctionCursor(c) THEN function_class(c) ELSE cxx_current_fn_cls
  /\ cxx_deferred_fn' =
       IF IsDeferredCall(c) THEN (IF IsFunction(c.ref) THEN c.ref ELSE NULL)
       ELSE cxx_deferred_fn
  /\ IF IsDeferredCall(c) THEN UNCHANGED <<ref_count, symbol_files>>
     ELSE add_symbols(added_for(c, Parent, cxx_current_fn_cls, cxx_deferred_fn,
                                statement_before(c)))
  /\ tree' = Append(tree, [cursor |-> c, up |-> IF stack = <<>> THEN 0 ELSE Top.node])
  /\ UNCHANGED lang

\* Mutant: the function is still deferred when its own call is looked at.
call_adds_deferred(frame, parent) ==
  LET c == frame.cursor IN
  IF IsFunction(c.ref) /\ ~c.exempt
  THEN added_for(c, parent, frame.prev_fn_cls, cxx_deferred_fn, cxx_statement_cls)
  ELSE <<{}, {}>>

\* A call of something that is not a function, or one that is exempt, adds
\* nothing.
call_adds(frame, parent) ==
  LET c == frame.cursor IN
  IF IsFunction(c.ref) /\ ~c.exempt
  THEN added_for(c, parent, frame.prev_fn_cls, frame.prev_deferred_fn, cxx_statement_cls)
  ELSE <<{}, {}>>

\* There are no more children.
Leave ==
  /\ stack # <<>>
  /\ Top.cursor.kind = "CallExpr" /\ Top.cursor.member => ~IsFirstChild
  /\ LET below == SubSeq(stack, 1, Len(stack) - 1)
         parent == IF below = <<>> THEN TranslationUnit ELSE below[Len(below)].cursor IN
     /\ stack' = below
     /\ cxx_current_fn_cls' = Top.prev_fn_cls
     /\ cxx_deferred_fn' = Top.prev_deferred_fn
     /\ cxx_statement_cls' =
          IF Top.is_new_statement THEN Top.prev_statement ELSE cxx_statement_cls
     /\ IF IsDeferredCall(Top.cursor) THEN add_symbols(call_adds(Top, parent))
        ELSE UNCHANGED <<ref_count, symbol_files>>
  /\ UNCHANGED <<lang, tree>>

SymbolsNext ==
  \/ \E c \in Cursor : Enter(c)
  \/ Leave

SymbolsSpec == SymbolsInit /\ [][SymbolsNext]_symbolsVars

-----------------------------------------------------------------------------
(* Properties.  They look at the tree visited so far as a whole: a node is *)
(* an index of it, 0 the translation unit.                                 *)

Nodes == 1..Len(tree)
CursorAt(i) == tree[i].cursor

\* A node and those it is inside of.  The nodes are in preorder: it is inside of j
\* if none from j on, up to it, is a child of one before j.
up_from(i) == {j \in 1..i : \A k \in (j + 1)..i : tree[k].up >= j}

Innermost(i, P(_)) ==
  LET found == {j \in up_from(i) : P(CursorAt(j))} IN IF found = {} THEN 0 ELSE Max(found)

\* What the children of a node are in, by the comments of symbols_init_data.
FunctionClassIn(i) ==
  LET fn == Innermost(i, IsFunctionCursor) IN
  IF fn = 0 THEN NULL ELSE function_class(CursorAt(fn))

DeferredIn(i) ==
  LET call == Innermost(i, IsDeferredCall) IN
  IF call = 0 \/ ~IsFunction(CursorAt(call).ref) THEN NULL ELSE CursorAt(call).ref

\* The class named last, up to a node, in the statement that the node i is in.
StatementClass(i, last) ==
  LET named == {j \in 1..last :
                  /\ NamesClass(CursorAt(j))
                  /\ Innermost(j, IsNewStatement) = Innermost(i, IsNewStatement)}
  IN IF named = {} THEN NULL ELSE CursorAt(Max(named)).ref

node == IF stack = <<>> THEN 0 ELSE Top.node

\* At every cursor, at any depth and after any number of siblings, the visitor
\* knows the class of the innermost function, the function of the innermost
\* call and the class named last in the innermost statement or declaration:
\* and none of them outlives what it belongs to.
ScopesNest ==
  /\ cxx_current_fn_cls = FunctionClassIn(node)
  /\ cxx_deferred_fn = DeferredIn(node)
  /\ cxx_statement_cls = StatementClass(node, Len(tree))

IsOpen(i) == \E k \in DOMAIN stack : stack[k].node = i

\* The function of a call: its header is needed unless an exception to
\* include-what-you-use holds where the call is.
NeedsFunction(i) ==
  LET c == CursorAt(i)
      inside == {j \in Nodes : i \in up_from(j)}
      scope == sid_cxx_scope(FunctionClassIn(tree[i].up), StatementClass(i, Max(inside)), NULL)
  IN /\ IsDeferredCall(c) /\ ~IsOpen(i)
     /\ IsFunction(c.ref) /\ IsIncludable(c.ref) /\ ~c.exempt
     /\ ~IsMemberOrBase(c.ref, scope)

\* A call that needs its function's header gets it, whatever its arguments are,
\* unless it is an argument in a call of the same function, which decides for
\* both.
CallsAccounted ==
  \A i \in Nodes :
    NeedsFunction(i) =>
      \/ ref_count[CursorAt(i).ref] > 0
      \/ DeferredIn(tree[i].up) = CursorAt(i).ref

\* The exceptions that hold once the arguments are seen hold for every mention
\* of the function in the call: when a function is only mentioned in exempt
\* calls, its header is not asked for.  (A set of overloaded functions that is
\* named, or a name in the tokens of a macro, always asks for it.)
ExemptCallsHidden ==
  \A d \in {d \in Dec : IsCxx /\ DecKind[d] = "function"} :
    (\A i \in Nodes : CursorAt(i).ref = d /\ ~IsSkipped(CursorAt(i)) =>
        \E j \in up_from(i) : /\ IsDeferredCall(CursorAt(j)) /\ CursorAt(j).exempt
                              /\ CursorAt(j).ref = d
                              /\ DeferredIn(tree[i].up) = d \/ i = j)
    /\ (\A i \in Nodes :
          /\ d \notin CursorAt(i).tokens
          /\ CursorAt(i).kind = "OverloadedDeclRef" => CursorAt(i).ref # d)
    => ref_count[d] = 0

\* A member function's definition does not ask for the headers of what the
\* class inherits: its own header includes them.
InheritedIsSufficient ==
  \A d \in Dec :
    IsCxx /\ ref_count[d] > 0 =>
      \E i \in Nodes :
        LET c == CursorAt(i)
            K == FunctionClassIn(tree[i].up) IN
        /\ d = c.ref \/ d \in c.tokens
        /\ \/ K = NULL \/ ~(OfClassOrBase(K, d) \/ OfClassOrBase(K, DecParent[d]))
           \/ c.definition # NULL
           \/ c.kind \in {"FieldDecl", "MacroDefinition", "OverloadedDeclRef"}

=============================================================================
