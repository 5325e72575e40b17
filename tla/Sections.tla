------------------------------ MODULE Sections ------------------------------
(***************************************************************************)
(* parseSections (migrations/migrations.go) cuts a migration file at its   *)
(* `-- +goose` lines into the statements of Up and of Down.  It reads one  *)
(* line after the other, of any file.  A line is a marker, or text that    *)
(* does not end a statement, ends one, or ends one and begins another      *)
(* (SqlText has how splitStatements finds that out); a statement is the    *)
(* lines from .. to it is written on.                                      *)
(***************************************************************************)
EXTENDS Integers, Sequences

CONSTANT MaxLines  \* bound: lines of a migration file

ASSUME LinesAssumption == MaxLines \in Nat

Markers == {"up", "down", "begin", "finish"}
Texts == {"part", "whole", "both"}

(* The buffer holds the lines from buf.from on; splitStatements makes of   *)
(* them the statements buf.done, and one more from the line buf.open on.   *)
EmptyBefore(n) == [from |-> n, done |-> <<>>, open |-> n]

VARIABLES
  file,    \* the lines read so far
  parser   \* section, inBlock, buf; and the lists of statements, `out`

sectionVars == <<file, parser>>

SectionsInit ==
  /\ file = <<>>
  /\ parser = [section |-> "none", block |-> FALSE, buf |-> EmptyBefore(1),
               out |-> [section \in {"up", "down"} |-> <<>>]]

-----------------------------------------------------------------------------
(* Line n is read, or there is none. *)

Rest(from, n) == IF from < n THEN <<[from |-> from, to |-> n - 1]>> ELSE <<>>

Flush(p, n, stmts) ==
  [p EXCEPT !.buf = EmptyBefore(n + 1),
            !.out = [section \in {"up", "down"} |->
                       p.out[section] \o (IF section = p.section THEN stmts ELSE <<>>)]]

(* flushStatement: what is in the buffer is one statement.                 *)
FlushStatement(p, n) == Flush(p, n, Rest(p.buf.from, n))

(* flushSemicolons: the buffer is split.                                   *)
FlushSemicolons(p, n) == Flush(p, n, p.buf.done \o Rest(p.buf.open, n))

FlushAll(p, n) == IF p.block THEN FlushStatement(p, n) ELSE FlushSemicolons(p, n)

Written(p, n, line) ==
  IF p.section = "none" THEN [p EXCEPT !.buf = EmptyBefore(n + 1)]
  ELSE IF line = "part" THEN p
  ELSE [p EXCEPT !.buf.done = Append(@, [from |-> p.buf.open, to |-> n]),
                 !.buf.open = IF line = "both" THEN n ELSE n + 1]

(* Mutant: a section begins before what came before it is flushed.         *)
ParseLineLate(p, n, line) ==
  CASE line \in {"up", "down"} -> [FlushAll([p EXCEPT !.section = line], n) EXCEPT !.block = FALSE]
    [] line = "begin"          -> [FlushSemicolons(p, n) EXCEPT !.block = TRUE]
    [] line = "finish"         -> [FlushStatement(p, n) EXCEPT !.block = FALSE]
    [] line \in Texts          -> Written(p, n, line)

ParseLine(p, n, line) ==
  CASE line \in {"up", "down"} -> [FlushAll(p, n) EXCEPT !.section = line, !.block = FALSE]
    [] line = "begin"          -> [FlushSemicolons(p, n) EXCEPT !.block = TRUE]
    [] line = "finish"         -> [FlushStatement(p, n) EXCEPT !.block = FALSE]
    [] line \in Texts          -> Written(p, n, line)

AddLine ==
  /\ Len(file) < MaxLines
  /\ \E line \in Markers \cup Texts :
       /\ file' = Append(file, line)
       /\ parser' = ParseLine(parser, Len(file) + 1, line)

SectionsSpec == SectionsInit /\ [][AddLine]_sectionVars

(* What parseSections returns of the file as it is.                        *)
Parsed == FlushAll(parser, Len(file) + 1).out

-----------------------------------------------------------------------------
MarkersBefore(n) == {m \in 1 .. n - 1 : file[m] \in Markers}
MarkerOf(n) == CHOOSE m \in MarkersBefore(n) : \A k \in MarkersBefore(n) : k <= m
InBlock(n) == MarkersBefore(n) # {} /\ file[MarkerOf(n)] = "begin"
SectionOf(n) ==
  LET heads == {m \in 1 .. n - 1 : file[m] \in {"up", "down"}}
  IN IF heads = {} THEN "none" ELSE file[CHOOSE m \in heads : \A k \in heads : k <= m]

On(stmt) == stmt.from .. stmt.to

(* The text lines after a marker, up to the next one.                      *)
LinesAfter(m) == {n \in m + 1 .. Len(file) : \A k \in m + 1 .. n : file[k] \in Texts}

(* A StatementBegin that no other one follows: its block is not split.     *)
Whole(m) ==
  ~ \E n \in m + 1 .. Len(file) : file[n] = "begin" /\ \A k \in m + 1 .. n - 1 : file[k] \in Texts

(* Every line of a file is executed in the direction it was written under  *)
(* and in no other, in order; and the lines of a StatementBegin block are  *)
(* one statement, of those lines and no others, whatever semicolons they   *)
(* hold: a trigger is never executed in halves.                            *)
StatementsAreTheFiles ==
  \A section \in {"up", "down"} :
    LET stmts == Parsed[section] IN
    /\ \A n \in DOMAIN file :
         (\E k \in DOMAIN stmts : n \in On(stmts[k])) <=> file[n] \in Texts /\ SectionOf(n) = section
    /\ \A j, k \in DOMAIN stmts : j < k => stmts[j].to <= stmts[k].from
    /\ \A n \in DOMAIN file :
         (file[n] \in Texts /\ InBlock(n) /\ SectionOf(n) = section /\ Whole(MarkerOf(n))) =>
           \E k \in DOMAIN stmts :
             /\ On(stmts[k]) = LinesAfter(MarkerOf(n))
             /\ \A j \in DOMAIN stmts : n \in On(stmts[j]) => j = k
=============================================================================
