------------------------------ MODULE MCLinux -------------------------------
(***************************************************************************)
(* Linux on eight pages of four bytes, six of them below the line: images   *)
(* that need more than they have, with alignments below and above a page    *)
(* and not a power of two; command lines that fill a page or are cut; an    *)
(* initrd that fits, does not fit, is empty or cannot be read to its end.   *)
(***************************************************************************)
EXTENDS Linux

Image ==
  [len |-> 7, avail |-> 7, magic |-> TRUE, recent |-> TRUE, handover |-> TRUE,
   setup_sects |-> 1, init_size |-> 6, alignment |-> 8, relocatable |-> TRUE,
   pref_address |-> 8, handover_offset |-> 1, cmdline_size |-> 0]

Refusals ==
  { [Image EXCEPT !.len = 2, !.avail = 2], [Image EXCEPT !.magic = FALSE],
    [Image EXCEPT !.recent = FALSE], [Image EXCEPT !.handover = FALSE],
    [Image EXCEPT !.setup_sects = 6], [Image EXCEPT !.avail = 5] }

Placements ==
  {[Image EXCEPT !.setup_sects = s, !.init_size = n, !.alignment = a,
                 !.relocatable = r, !.pref_address = p] :
     s \in {0, 1}, n \in {0, 8}, a \in {0, 3, 6, 8}, r \in {TRUE}, p \in {8}}
  \cup
  {[Image EXCEPT !.init_size = n, !.relocatable = FALSE, !.pref_address = p,
                 !.handover_offset = h] :
     n \in {0, 8}, p \in {8, 9, 24}, h \in {1, 3}}

Cmdline(n, ends) == [len |-> n, ends |-> ends]
Short   == Cmdline(1, 0..1)
Initrd(n, avail) == [len |-> n, avail |-> avail, given |-> TRUE]

SmallBoots ==
  [image : Refusals, cmdline : {Short}, initrd : {NoInitrd}]
  \cup [image : Placements, cmdline : {Short}, initrd : {NoInitrd, Initrd(5, 5)}]
  \cup [image : {[Image EXCEPT !.init_size = 0, !.cmdline_size = c] : c \in {0, 2, 4}},
        cmdline : {Cmdline(0, {0}), Cmdline(4, 0..4), Cmdline(5, {0, 1, 3, 5})},
        initrd : {NoInitrd, Initrd(5, 5), Initrd(4, 2), Initrd(0, 0), Initrd(20, 20)}]

=============================================================================
