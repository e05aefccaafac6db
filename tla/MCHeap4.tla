------------------------------ MODULE MCHeap4 ------------------------------
(* Two tasks; the unit is half the alignment, so that a header takes two      *)
(* units: a heap that holds up to three small blocks or one large one, at an  *)
(* aligned and at an odd address; requests that fit, that leave too little to *)
(* split off, that are too large for the heap, and that overflow a size_t.    *)
EXTENDS Heap4, TLC

Symmetry == Permutations(Client)
MCArrays == {<<2, 2>>, <<2, SizeMod \div 2 + 1>>}
=============================================================================
