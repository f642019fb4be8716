----------------------------- MODULE FreeLists -----------------------------
(***************************************************************************)
(* Singly linked lists as FreeSLList keeps them (freesllist.h), seen from  *)
(* outside: a head, a link in every object, and the set of objects that    *)
(* should be on the list.                                                  *)
(***************************************************************************)

(* From h the links in next lead through all objects of S, each once, to   *)
(* null: no two links, the head included, lead to the same object, and     *)
(* whoever has the head and follows the links has all of S.                *)
IsList(h, next, S, null) ==
  /\ null \notin S /\ h \in S \union {null}
  /\ \A o \in S :
       /\ next[o] \in S \union {null}
       /\ next[o] = h => h = null
       /\ \A p \in S : next[o] = next[p] /\ o # p => next[o] = null
  /\ \A part \in SUBSET S :
       /\ h \in part \union {null}
       /\ \A o \in part : next[o] \in part \union {null}
       => part = S
=============================================================================
