----------------------------- MODULE MCObstack -----------------------------
(* An arena for three chunks, or two if an object grew out of the first;   *)
(* requests of nothing, of an odd size, of which two do not fit a chunk    *)
(* after the first, and of more than a later chunk of the usual size.      *)
EXTENDS Obstack
=============================================================================
