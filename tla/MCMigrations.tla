---------------------------- MODULE MCMigrations ----------------------------
(* TLC's instance of the migration runner and of the scanners of SQL text, *)
(* one of them at a time:                                                  *)
(*   runner   two commands over the six files of the repository, on a new  *)
(*            database and on one set up before 0003 was written           *)
(*   text     any text, before splitStatements and substituteNulls         *)
(*   file     any file of MaxLines lines, before parseSections             *)
EXTENDS Migrations, MigrationScript, SqlText, Sections, TLC

VARIABLE mix

MCRecorded == {{}, {1, 2, 4, 5, 6}}

MCInit ==
  /\ SectionsInit
  /\ \/ mix = "runner" /\ Init /\ TextInit /\ here = End /\ params = 0
     \/ mix = "text" /\ Init /\ recorded = {} /\ atomic /\ TextInit
     \/ mix = "file" /\ Init /\ recorded = {} /\ atomic /\ TextInit /\ here = End /\ params = 0

MCNext ==
  /\ UNCHANGED mix
  /\ \/ mix = "runner" /\ Next /\ UNCHANGED <<text, sectionVars>>
     \/ mix = "text" /\ Read /\ UNCHANGED <<vars, sectionVars>>
     \/ mix = "file" /\ AddLine /\ UNCHANGED <<vars, text>>

MCSpec == MCInit /\ [][MCNext]_<<mix, vars, text, sectionVars>>

(* No property speaks of what follows once a Down ran beside another       *)
(* command: TLC looks no further there.                                    *)
NoDownRaced == ~ downRaced

Symmetry == Permutations(Processes)
=============================================================================
