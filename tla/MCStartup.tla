----------------------------- MODULE MCStartup ------------------------------
(***************************************************************************)
(* Startup with one file and two spellings of its path.                     *)
(***************************************************************************)
EXTENDS Startup

Lower == << <<"efi", "upper">>, <<"p", "lower">> >>
Upper == << <<"efi", "upper">>, <<"p", "upper">> >>

OneSpelling  == {Lower}
TwoSpellings == {Lower, Upper}

(* A single entry is any; two with one title have no arguments; with a      *)
(* third, or another title, entries differ in their title and in whether    *)
(* they can be booted only, and at most one loader is found beside them.    *)
Bare(e)      == e.target.with = None /\ e.target.cmdline = Empty
Few(entries) ==
  /\ Len(entries) <= 2 /\ \A k \in DOMAIN entries : entries[k].title # "B"
  /\ Len(entries) = 2 => \A k \in DOMAIN entries : Bare(entries[k])
Plain(entries) ==
  \A k \in DOMAIN entries :
    entries[k].target \in {Target("multiboot", Empty), Target("chainload", Lower)}

Files ==
  IF pc \in {"load", "parse", "parsed"} THEN Few(cfg.entries) \/ Plain(cfg.entries)
  ELSE Few(written.entries) \/ (Plain(written.entries) /\ Len(found) <= 1)
=============================================================================
