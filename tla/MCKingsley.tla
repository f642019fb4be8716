----------------------------- MODULE MCKingsley -----------------------------
(* Four bins, arenas that hold a few objects each, requests from one word  *)
(* to one too large for the bins, and one with the top bit of size_t set.  *)
EXTENDS Kingsley

const_Arrays == {<<1, 1>>, <<3, 1>>, <<64, 2>>}
const_NewAligned == {<<3, 4>>, <<4, 4>>}

=============================================================================
