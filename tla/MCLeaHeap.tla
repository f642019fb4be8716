----------------------------- MODULE MCLeaHeap -----------------------------
(* Six bins of which the first four share two bits; a class function that  *)
(* is one too high for one size, where DLBigHeapNS::getSizeClass is six    *)
(* too high from 2113 to 10752 bytes; arenas that hold three or four       *)
(* objects, so that splitting, merging on either side and on both, and a   *)
(* second arena all happen; requests for a mapped object and for one with  *)
(* the top bit; a word of clients that read as a header would be a free    *)
(* object.                                                                 *)
EXTENDS LeaHeap

MCClassMax == [c \in 0 .. 5 |-> IF c = 5 THEN 11 ELSE c + 1]
MCClassOf == [n \in 1 .. 11 |-> IF n = 3 THEN 3 ELSE IF n > 5 THEN 5 ELSE n - 1]
=============================================================================
