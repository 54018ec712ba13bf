------------------------------- MODULE Paths --------------------------------
(***************************************************************************)
(* Paths of files on volumes whose names have no case: a name is            *)
(* <<word, case>>, a path is a sequence of names.  The filesystem and       *)
(* same_file in src/discover.rs see the words, a comparison of two          *)
(* CString16 sees the letters as they are.                                  *)
(***************************************************************************)

(* What the filesystem sees of a path. *)
Fold(path) == [k \in DOMAIN path |-> path[k][1]]
=============================================================================
