------------------------------- MODULE MCElf --------------------------------
(* Program headers on an address space of eight pages of two bytes, and a   *)
(* file of six bytes.                                                       *)
EXTENDS ElfKernel

Seg(p, m, o, f) == [load |-> TRUE, paddr |-> p, memsz |-> m, offset |-> o, filesz |-> f]

(* Segments that start and end on and off page boundaries, touch, share     *)
(* pages and overlap, with and without zero-filled tails; an empty one; a   *)
(* header that is not PT_LOAD; ones that claim more than the file has, or   *)
(* more than they keep in memory; ones that reach into the last page, from  *)
(* it or from a low one.                                                    *)
SomePhdrs ==
  { Seg(0, 3, 0, 3), Seg(3, 1, 3, 1), Seg(3, 4, 2, 1), Seg(5, 2, 4, 2),
    Seg(2, 2, 1, 0), Seg(8, 3, 0, 2), Seg(9, 2, 2, 1), Seg(1, 10, 0, 4),
    Seg(4, 0, 0, 0), Seg(6, 2, 5, 2), Seg(6, 2, 0, 3),
    Seg(14, 1, 3, 1), Seg(2, 13, 0, 3),
    [Seg(2, 2, 0, 2) EXCEPT !.load = FALSE] }

SomeTaken == {0..7, (0..7) \ {4}}
=============================================================================
