----------------------------- MODULE MCMb1Info ------------------------------
(***************************************************************************)
(* Mb1Info with room for two modules, names of two characters and two       *)
(* entries of the memory map, and more of each than there is room for.      *)
(***************************************************************************)
EXTENDS Mb1Info

D(start, pages, ty) == [phys_start |-> start, page_count |-> pages, ty |-> ty]

SmallDescs ==
  { D(0, 159, "CONVENTIONAL"), D(4096, 2, "LOADER_DATA"), D(OneMiB, 3, "CONVENTIONAL"),
    D(2 * OneMiB, 5, "BOOT_SERVICES_CODE"), D(3 * OneMiB, 7, "other") }

M(start, size, name) == [phys_start |-> start, size |-> size, name |-> name]

SmallMods ==
  { M(4096, 10, <<1>>), M(8192, 0, <<2, 3>>), M(12288, 5, <<4, 5, 6, 7>>),
    M(Word32 - 4096, 4096, <<>>) }

=============================================================================
