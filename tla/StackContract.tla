--------------------------- MODULE StackContract ---------------------------
(***************************************************************************)
(* What an obstack promises: its objects form a stack.  The top one may    *)
(* grow, and may move when it does; freeing an object frees those above it *)
(* too, and no other; an object holds what was written into it.            *)
(***************************************************************************)
EXTENDS Integers, Sequences

VARIABLE objects     \* [addr, size, kept]: how many words hold what was written

Words(o) == o.addr .. o.addr + o.size - 1

Below(n) == UNION {Words(objects[i]) : i \in 1 .. n}

Init == objects = <<>>

(* A new object on top of n others, beside them all, with its contents. *)
Top(n) ==
  /\ Len(objects') = n + 1
  /\ SubSeq(objects', 1, n) = SubSeq(objects, 1, n)
  /\ LET o == objects'[n + 1]
     IN  o.addr # 0 /\ o.kept = o.size /\ Words(o) \intersect Below(n) = {}

Malloc == Top(Len(objects))

Grow ==
  LET n == Len(objects)
  IN  n > 0 /\ Top(n - 1) /\ objects'[n].size > objects[n].size

Free == \E n \in 0 .. Len(objects) - 1 : objects' = SubSeq(objects, 1, n)

Next == Malloc \/ Grow \/ Free

Spec == Init /\ [][Next]_objects
=============================================================================
