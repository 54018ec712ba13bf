----------------------------- MODULE MCDiscover -----------------------------
(***************************************************************************)
(* Discover on two volumes: vendors' directories with one loader, several   *)
(* or none, names that are skipped, a name that does not fit the buffer,    *)
(* and Bang in a vendor's directory, in the default one or nested deeper.   *)
(***************************************************************************)
EXTENDS Discover, Functions

E(word, case, size, dir, has) ==
  [name |-> <<word, case>>, size |-> size, dir |-> dir, has |-> has]

Entries ==
  { E("fedora", "lower", 1, TRUE, {"shimx64", "grubx64"}),
    E("arch-linux", "lower", 3, TRUE, {"grubx64"}),
    E("boot", "upper", 2, TRUE, {"bootx64"}),
    E("microsoft", "title", 1, TRUE, {"bootx64"}),
    E("tools", "lower", 2, FALSE, {}) }

Directories == {<<>>} \cup {<<a>> : a \in Entries} \cup {<<a, b>> : a, b \in Entries}

DiskSet ==
  {[windows |-> FALSE, efi |-> FALSE, entries |-> <<>>]}
  \cup {[windows |-> w, efi |-> TRUE, entries |-> d] :
          w \in BOOLEAN,
          d \in {s \in Directories : IsInjective(s)}}

ItsOwn ==
  [device : {2},
   path : { << <<"efi", "upper">>, <<"fedora", "title">>, <<"shimx64", "upper">> >>,
            << <<"efi", "lower">>, <<"boot", "upper">>, <<"bootx64", "lower">> >>,
            << <<"x", "lower">>, <<"efi", "upper">>, <<"boot", "upper">>, <<"bootx64", "upper">> >> }]

=============================================================================
