----------------------------- MODULE MCSymbols ------------------------------
(* Symbols for TLC: a class, Derived, in a header of its own, that inherits *)
(* from another, Base; a function f() that takes a Base; and a source file  *)
(* that defines a member function of Derived.                               *)
EXTENDS Symbols

CONSTANTS Base, Derived, Other, own, value_type, f, derived_g, local

DecSet == {Base, Derived, Other, own, value_type, f, derived_g, local}

Kind ==
  [d \in Dec |-> CASE d \in {Base, Derived, Other, own} -> "class"
                   [] d \in {f, local} -> "function"
                   [] d = derived_g        -> "method"
                   [] OTHER                        -> "other"]

InFile ==
  [d \in Dec |-> CASE d \in {Base, value_type, f} -> "base.h"
                   [] d = Derived                 -> "derived.h"
                   [] d = Other                   -> "other.h"
                   [] OTHER                       -> NULL]

ParentOf ==
  [d \in Dec |-> CASE d = value_type -> Base
                   [] d = derived_g  -> Derived
                   [] OTHER          -> NULL]

InheritedBy == [d \in Dec |-> IF d = Derived THEN {Base} ELSE {}]

A(kind, ref, parents) ==
  [kind |-> kind, parents |-> parents, in_file |-> TRUE, ref |-> ref,
   definition |-> NULL, exempt |-> FALSE, member |-> FALSE, tokens |-> {}, params |-> {}]

Expression == {"CallExpr", "UnexposedExpr"}
Body == {"CXXMethod", "FunctionDecl", "DeclStmt"}

Cursors == {
  \* void Derived::g() { ... }, void local() { ... }, and a function of a header
  [A("CXXMethod", derived_g, {"TranslationUnit"}) EXCEPT !.definition = Derived],
  A("FunctionDecl", local, {"TranslationUnit"}),
  [A("FunctionDecl", f, {"TranslationUnit"}) EXCEPT !.in_file = FALSE],
  A("DeclStmt", NULL, {"CXXMethod", "FunctionDecl", "DeclStmt"}),
  A("TypedefDecl", NULL, {"TranslationUnit"}),
  A("TypeRef", Derived, Body \cup {"TypedefDecl", "ClassDecl"}),
  A("TypeRef", value_type, Body \cup {"TypedefDecl"}),
  [A("TypeRef", Other, Body \cup {"FieldDecl"}) EXCEPT !.definition = Other],
  A("CallExpr", f, Body \cup Expression),
  [A("CallExpr", f, Body \cup Expression) EXCEPT !.exempt = TRUE],
  A("CallExpr", NULL, Body),
  [A("CallExpr", NULL, Body) EXCEPT !.member = TRUE],
  A("DeclRefExpr", f, Expression),
  A("MemberRefExpr", value_type, {"CallExpr", "DeclStmt"}),
  A("UnexposedExpr", NULL, {"CallExpr", "DeclStmt"}),
  A("OverloadedDeclRef", f, {"DeclStmt", "CallExpr"}),
  A("ClassDecl", own, {"TranslationUnit"}),
  [A("FieldDecl", NULL, {"ClassDecl"}) EXCEPT !.tokens = {Other}],
  [A("MacroDefinition", NULL, {"TranslationUnit"})
     EXCEPT !.tokens = {Other, value_type}, !.params = {Other}]}

=============================================================================
