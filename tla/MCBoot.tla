------------------------------- MODULE MCBoot -------------------------------
(***************************************************************************)
(* Boot on seven pages, five of them below four gigabytes.  The files have  *)
(* a Multiboot2 header, a Multiboot1 header, both or none at every offset   *)
(* around the two limits, with the checksum right or wrong, and lengths     *)
(* around the limits and the sizes of the ELF headers; one has a segment    *)
(* that is copied over pages nobody asked for.                              *)
(***************************************************************************)
EXTENDS Boot

(* A header's words: the magic, no fields, and what makes the sum zero. *)
Words(len, at2, sum2, at1, sum1) ==
  [k \in 0..(len \div 4 - 1) |->
     CASE 4 * k = at2      -> MB2_HEADER_MAGIC
       [] 4 * k = at2 + 12 -> Word - MB2_HEADER_MAGIC - sum2
       [] 4 * k = at1      -> MB1_HEADER_MAGIC
       [] 4 * k = at1 + 8  -> Word - MB1_HEADER_MAGIC - sum1
       [] OTHER -> 0]

Nowhere == 1000

File(len, at2, sum2, at1, sum1, class, exec, entry, pages) ==
  [len |-> len, words |-> Words(len, at2, sum2, at1, sum1), elf |-> TRUE, class |-> class,
   exec |-> exec, entry |-> entry, pages |-> pages, over |-> {}]

(* What is found does not depend on what is placed, so each is varied alone. *)
Detection ==
  {File(len, at2, sum2, at1, sum1, 32, TRUE, 2, {2}) :
     len \in {84, 90, 92, 96, 104}, at2 \in {64, 72, 76, 80, 88, Nowhere}, sum2 \in {0, 1},
     at1 \in {64, 72, 76, 80, 84, Nowhere}, sum1 \in {0, 1}}

Placement ==
  {File(96, at2, 0, at1, 0, class, TRUE, entry, pages) :
     at2 \in {64, Nowhere}, at1 \in {80, Nowhere}, class \in {32, 64},
     entry \in {2, 7}, pages \in {{2}, {1, 2}, {7}}}

Refused ==
  {File(len, Nowhere, 0, Nowhere, 0, class, exec, 2, {2}) :
     len \in {8, 16, 51, 52, 63, 64}, class \in {0, 32, 64}, exec \in BOOLEAN}

BootFiles ==
  Detection \cup Placement \cup Refused
  \cup {[f EXCEPT !.elf = FALSE] : f \in Refused}
  \cup {[f EXCEPT !.over = {1, 3, 4}] : f \in {g \in Placement : g.pages = {2}}}

=============================================================================
