----------------------------- MODULE MCMb2Info ------------------------------
(* Maps, modules and names for a buffer of a few tags. *)
EXTENDS Mb2Info

SomeDescs ==
  { [phys_start |-> 0, page_count |-> 2, ty |-> "CONVENTIONAL"],
    [phys_start |-> 8192, page_count |-> 1, ty |-> "ACPI_RECLAIM"] }

(* Names whose tag ends short of a multiple of eight, on one and past one;  *)
(* the last module ends on the line itself.                                 *)
SomeMods ==
  { [phys_start |-> 4096, size |-> 1, name |-> 0],
    [phys_start |-> 8192, size |-> 5000, name |-> 7],
    [phys_start |-> 61440, size |-> 4096, name |-> 8] }
=============================================================================
