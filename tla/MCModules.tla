----------------------------- MODULE MCModules ------------------------------
(* Directories over memory of five pages of two bytes, four of them below   *)
(* the line, and a name buffer of five bytes.                               *)
EXTENDS ModulesBoot

File(n, s) == [directory |-> FALSE, long |-> FALSE, name |-> n, size |-> s]

(* Names of one and of three characters, one of them not ASCII; files that  *)
(* fill their last page and that do not; an empty file, a directory, and an *)
(* entry too long for the buffer.                                           *)
SomeEntries ==
  { File(<<65>>, 1), File(<<66, 233, 67>>, 2), File(<<68>>, 3), File(<<69>>, 0),
    [File(<<70>>, 1) EXCEPT !.directory = TRUE],
    [File(<<71>>, 1) EXCEPT !.long = TRUE] }

SomeTaken == {0..4, {0, 2, 3, 4}}

(* What the pages held before, which only has to be told apart.             *)
SomeBefore == [p \in 0..4 |-> "old"]
=============================================================================
