---------------------------- MODULE MemoryTypes -----------------------------
(***************************************************************************)
(* The types of memory in the firmware's map and what Multiboot calls them, *)
(* in both of its formats: efi_memtype_to_mb in src/multiboot.rs.           *)
(***************************************************************************)

EfiTypes == {"CONVENTIONAL", "LOADER_CODE", "LOADER_DATA", "BOOT_SERVICES_CODE",
             "BOOT_SERVICES_DATA", "ACPI_RECLAIM", "ACPI_NON_VOLATILE", "other"}

efi_memtype_to_mb(ty) ==
  CASE ty \in {"CONVENTIONAL", "LOADER_CODE", "LOADER_DATA",
               "BOOT_SERVICES_CODE", "BOOT_SERVICES_DATA"} -> 1
    [] ty = "ACPI_RECLAIM" -> 3
    [] ty = "ACPI_NON_VOLATILE" -> 4
    [] OTHER -> 2

=============================================================================
