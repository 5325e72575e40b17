------------------------------ MODULE SqlText ------------------------------
(***************************************************************************)
(* The two scanners that read SQL text without parsing it, beside the way  *)
(* SQLite reads it:                                                        *)
(*   splitStatements (migrations/migrations.go) cuts a text at its `;`     *)
(*   substituteNulls (database/d1.go) counts `?` and writes NULL for some  *)
(* They are fed one character after the other, of any text of any length;  *)
(* `here` is the character they are about to read, and the one after it,   *)
(* which they look ahead to, is chosen with it.  SQLite's own reading      *)
(* (`lexer`) is a tokenizer without lookahead.  A backquote is read as a   *)
(* double quote is and has no character of its own.                        *)
(***************************************************************************)
EXTENDS Integers, FiniteSets

CONSTANT MaxPlaceholders  \* bound: placeholders and parameters of a statement

ASSUME TextAssumption == MaxPlaceholders \in Nat

Quotes == {"'", "dquote"}
Chars == Quotes \cup {"[", "]", "-", "/", "*", ";", "?", "digit", "newline", "other"}
End == "end"

VARIABLES
  here,     \* the character about to be read
  split,    \* splitStatements: where it is and whether it skips a character
  subst,    \* substituteNulls: where it is, and what it counted
  lexer,    \* SQLite: where it is
  known,    \* history: what is known of the text so far
  last,     \* history: what each made of the last character
  nulls,    \* the parameters that are NULL, counted from 0
  params    \* how many parameters the statement is given

text == <<here, split, subst, lexer, known, last, nulls, params>>

TextInit ==
  /\ here \in Chars \cup {End}  \* a text may be empty
  /\ split = [mode |-> "top", skip |-> FALSE]
  /\ subst = [quote |-> "none", skip |-> FALSE, ordinal |-> 0, left |-> 0, refused |-> FALSE]
  /\ lexer = "start"
  /\ known = [legal |-> TRUE, plain |-> TRUE, placeholders |-> 0]
  /\ last = [char |-> "newline", cut |-> FALSE, kept |-> TRUE, ended |-> FALSE, comment |-> FALSE]
  /\ params \in 0 .. MaxPlaceholders
  /\ nulls \in SUBSET (0 .. params - 1)

-----------------------------------------------------------------------------
(* splitStatements, one character and the one after it. *)

Closing(c) == IF c = "[" THEN "]" ELSE c

Opens(c, after) == split.mode = "top" /\ <<c, after>> \in {<<"-", "-">>, <<"/", "*">>}

(* Mutant: comments are looked for in quoted text too.                     *)
SplitNextAnywhere(c, after) ==
  IF split.skip THEN [split EXCEPT !.skip = FALSE]
  ELSE IF split.mode = "line"
       THEN IF c = "newline" THEN [split EXCEPT !.mode = "top"] ELSE split
  ELSE IF split.mode = "block"
       THEN IF c = "*" /\ after = "/" THEN [mode |-> "top", skip |-> TRUE] ELSE split
  ELSE IF c = "-" /\ after = "-" THEN [mode |-> "line", skip |-> TRUE]
  ELSE IF c = "/" /\ after = "*" THEN [mode |-> "block", skip |-> TRUE]
  ELSE IF split.mode = c
       THEN IF after = c THEN [split EXCEPT !.skip = TRUE] ELSE [split EXCEPT !.mode = "top"]
  ELSE IF split.mode = "top" /\ c \in Quotes \cup {"["} THEN [split EXCEPT !.mode = Closing(c)]
  ELSE split

(* In a quote a doubled one is an escape.                                  *)
SplitNext(c, after) ==
  IF split.skip THEN [split EXCEPT !.skip = FALSE]
  ELSE IF split.mode = "line"
       THEN IF c = "newline" THEN [split EXCEPT !.mode = "top"] ELSE split
  ELSE IF split.mode = "block"
       THEN IF c = "*" /\ after = "/" THEN [mode |-> "top", skip |-> TRUE] ELSE split
  ELSE IF split.mode # "top"
       THEN IF c # split.mode THEN split
            ELSE IF after = c THEN [split EXCEPT !.skip = TRUE] ELSE [split EXCEPT !.mode = "top"]
  ELSE IF Opens(c, after) THEN [mode |-> IF c = "-" THEN "line" ELSE "block", skip |-> TRUE]
  ELSE IF c \in Quotes \cup {"["} THEN [split EXCEPT !.mode = Closing(c)]
  ELSE split

(* flush: a statement ends at a `;` outside of everything.                 *)
Cuts(c) == ~ split.skip /\ split.mode = "top" /\ c = ";"

(* What is written to the statement: not the comments, but the newline     *)
(* that ends one, and the second quote of a doubled one.                   *)
Keeps(c, after) ==
  \/ split.skip /\ split.mode \notin {"top", "line", "block"}
  \/ ~ split.skip /\ split.mode = "line" /\ c = "newline"
  \/ /\ ~ split.skip /\ split.mode \notin {"line", "block"}
     /\ ~ Cuts(c) /\ ~ Opens(c, after)

-----------------------------------------------------------------------------
(* substituteNulls. *)

SubstNext(c, after) ==
  IF subst.refused THEN subst
  ELSE IF subst.skip THEN [subst EXCEPT !.skip = FALSE]
  ELSE IF subst.quote # "none"
       THEN IF c # subst.quote THEN subst
            ELSE IF after = c THEN [subst EXCEPT !.skip = TRUE] ELSE [subst EXCEPT !.quote = "none"]
  ELSE IF c \in Quotes THEN [subst EXCEPT !.quote = c]
  ELSE IF c # "?" THEN subst
  ELSE IF after = "digit" THEN [subst EXCEPT !.refused = TRUE]
  ELSE [subst EXCEPT !.ordinal = @ + 1,
                     !.left = IF subst.ordinal \in nulls THEN @ ELSE @ + 1]

(* Mutant: what is counted is the values, not the placeholders.            *)
CountsMatchValues == subst.left = params

(* Its last check; countNonNull counts the placeholders that stay.         *)
CountsMatch == subst.ordinal = Cardinality(nulls) + subst.left

(* paramsToStrings: the rewriting is asked for only if a parameter is nil. *)
Rewritten == nulls # {} /\ ~ subst.refused /\ CountsMatch

-----------------------------------------------------------------------------
(* SQLite's tokenizer (external): inside of a quote, a bracket or a        *)
(* comment, or outside with what the last character may be the first of.   *)
(* That a quote closed and opens again at once is how it reads a doubled.  *)
Outside == {"start", "dash", "slash"}
Comment == {"line", "block", "star"}

LexInside(c) ==
  CASE lexer \in Quotes    -> IF c = lexer THEN "start" ELSE lexer
    [] lexer = "bracket"   -> IF c = "]" THEN "start" ELSE lexer
    [] lexer = "line"      -> IF c = "newline" THEN "start" ELSE lexer
    [] lexer = "block"     -> IF c = "*" THEN "star" ELSE lexer
    [] lexer = "star"      -> IF c = "/" THEN "start" ELSE IF c = "*" THEN lexer ELSE "block"

LexOutside(c) ==
  CASE c \in Quotes        -> c
    [] c = "["             -> "bracket"
    [] c = "-"             -> IF lexer = "dash" THEN "line" ELSE "dash"
    [] c = "*"             -> IF lexer = "slash" THEN "block" ELSE "start"
    [] c = "/"             -> "slash"
    [] OTHER               -> "start"

Lex(c) == IF lexer \in Outside THEN LexOutside(c) ELSE LexInside(c)

(* Legal text has no `]` outside.  Plain text has no comment, no bracket   *)
(* and no numbered placeholder, as the statements of the repositories.     *)
Known(c, after) ==
  [legal |-> known.legal /\ ~ (lexer \in Outside /\ c = "]"),
   plain |-> /\ known.plain /\ Lex(c) \notin Comment \cup {"bracket"}
             /\ ~ (lexer \in Outside /\ c = "?" /\ after = "digit"),
   placeholders |-> known.placeholders + (IF lexer \in Outside /\ c = "?" THEN 1 ELSE 0)]

(* The next character is read, in text that is SQL so far.                 *)
(* Bound: MaxPlaceholders `?` in a text.                                   *)
Read ==
  /\ here # End /\ known.legal
  /\ here = "?" => known.placeholders < MaxPlaceholders /\ subst.ordinal < MaxPlaceholders
  /\ \E after \in Chars \cup {End} :
       /\ here' = after
       /\ split' = SplitNext(here, after)
       /\ subst' = SubstNext(here, after)
       /\ lexer' = Lex(here)
       /\ known' = Known(here, after)
       /\ last' = [char |-> here, cut |-> Cuts(here), kept |-> Keeps(here, after),
                   ended |-> lexer \in Outside /\ here = ";",
                   comment |-> \/ lexer \in Comment /\ ~ (lexer = "line" /\ here = "newline")
                               \/ lexer \in Outside /\ Lex(here) \in Comment]
  /\ UNCHANGED <<nulls, params>>

TextSpec == TextInit /\ [][Read]_text

-----------------------------------------------------------------------------
(* The last character is one of a comment: it is known to be, or it is the *)
(* first of the two that open one and the other is next.                   *)
InComment == last.comment \/ (lexer \in {"dash", "slash"} /\ Lex(here) \in Comment)

(* splitStatements cuts at the `;` tokens SQLite's tokenizer finds in a    *)
(* text and at no other: not in a literal, an identifier or a comment,     *)
(* whatever quotes, brackets and dashes come before, and never too late;   *)
(* and every character is kept that is not of a comment, and no other but  *)
(* the newline that ends one.  The body of a trigger has such tokens too   *)
(* and is cut at them: migration files put it between StatementBegin and   *)
(* StatementEnd, which StatementsAreTheFiles is about.                     *)
CutsWhereSQLiteDoes ==
  known.legal =>
    /\ last.cut = last.ended
    /\ last.kept <=> ~ InComment /\ ~ last.ended

(* In a plain statement substituteNulls counts the placeholders SQLite     *)
(* sees, so each NULL is written for the parameter that is nil; and when   *)
(* there are as many placeholders as parameters the statement is accepted  *)
(* and keeps one placeholder for each value that is still sent.            *)
NullsStayInPlace ==
  known.legal /\ known.plain =>
    /\ ~ subst.refused /\ subst.ordinal = known.placeholders
    /\ subst.ordinal = params =>
         /\ subst.left = params - Cardinality(nulls)
         /\ nulls # {} => Rewritten
=============================================================================
