--------------------------- MODULE MallocContract ---------------------------
(***************************************************************************)
(* The C allocation functions as one client sees them: which blocks it     *)
(* owns, and how much of each still holds what was written there.  Where   *)
(* blocks come from, and whether a call finds memory, is left open.        *)
(***************************************************************************)
EXTENDS Integers

CONSTANT Data        \* what clients write

Zero == 0            \* what calloc writes

VARIABLE blocks      \* the client's blocks, as records (see Block)

Block == [addr : Nat,          \* its first word
          align : Nat,         \* the alignment asked for
          asked : Nat,         \* the size asked for
          size : Nat,          \* the size usable
          data : Data \union {Zero},
          kept : Nat]          \* how many words from the first hold data

Words(b) == b.addr .. b.addr + b.size - 1

Disjoint(b, c) == Words(b) \intersect Words(c) = {}

Init == blocks = {}

(* malloc, memalign, calloc, strdup: a block beside all others, of the     *)
(* size asked, which may have contents already.                            *)
Give ==
  \E b \in blocks' :
    /\ b.addr # 0 /\ b.addr % b.align = 0 /\ b.size >= b.asked
    /\ b.data \in Data \union {Zero} /\ b.kept <= b.size
    /\ \A c \in blocks : Disjoint(b, c)
    /\ blocks' = blocks \union {b}

Free == \E b \in blocks : blocks' = blocks \ {b}

(* realloc: at least as much of the old contents as fits the new request,  *)
(* in place or elsewhere.                                                  *)
Realloc ==
  \E b \in blocks, c \in blocks' :
    /\ c.addr # 0 /\ c.size >= c.asked
    /\ c.data = b.data
    /\ c.kept >= IF b.kept < c.asked THEN b.kept ELSE c.asked
    /\ \A d \in blocks \ {b} : Disjoint(c, d)
    /\ blocks' = (blocks \ {b}) \union {c}

(* recalloc: as much as asked, and cleared. *)
Recalloc ==
  \E b \in blocks, c \in blocks' :
    /\ c.addr # 0 /\ c.size >= c.asked
    /\ c.data = Zero /\ c.kept >= c.asked
    /\ \A d \in blocks \ {b} : Disjoint(c, d)
    /\ blocks' = (blocks \ {b}) \union {c}

(* The client fills a block. *)
Write ==
  \E b \in blocks, x \in Data :
    blocks' = (blocks \ {b}) \union {[b EXCEPT !.data = x, !.kept = b.size]}

Next == Give \/ Free \/ Realloc \/ Recalloc \/ Write

Spec == Init /\ [][Next]_blocks
=============================================================================
