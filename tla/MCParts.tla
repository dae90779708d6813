------------------------------- MODULE MCParts ------------------------------
(* Symbols, Cxx, CommandLines and Comments for TLC: a behaviour is of one of *)
(* them, as they share no state.                                           *)
EXTENDS MCSymbols, MCCxx, MCCommandLines, MCComments

VARIABLE part   \* "visit", "classes", "line" or "comment"

partsVars == <<symbolsVars, cxxVars, cliVars, commentsVars, part>>

VisitNext ==
  part = "visit" /\ SymbolsNext /\ UNCHANGED <<cxxVars, cliVars, commentsVars, part>>

ClassesNext ==
  part = "classes" /\ CxxNext /\ UNCHANGED <<symbolsVars, cliVars, commentsVars, part>>

LineNext ==
  part = "line" /\ CliNext /\ UNCHANGED <<symbolsVars, cxxVars, commentsVars, part>>

CommentNext ==
  part = "comment" /\ CommentsNext /\ UNCHANGED <<symbolsVars, cxxVars, cliVars, part>>

\* The others stay in one of their initial states.
PartsInit ==
  /\ part \in {"visit", "classes", "line", "comment"}
  /\ lang \in IF part = "visit" THEN {"C", "CPlusPlus"} ELSE {"C"}
  /\ shows_bases \in IF part = "classes" THEN BOOLEAN ELSE {TRUE}
  /\ part = "line" \/ line = Line(<<>>, <<"a.c">>, <<>>, W)
  /\ SymbolsInit /\ CxxInit /\ CliInit
  /\ IF part = "comment" THEN CommentsInit ELSE NoComments

PartsSpec ==
  PartsInit /\ [][VisitNext \/ ClassesNext \/ LineNext \/ CommentNext]_partsVars

=============================================================================
