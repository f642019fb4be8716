---------------------------- MODULE HeapContract ----------------------------
(***************************************************************************)
(* What every stack of heap layers promises its clients: a block that      *)
(* malloc returns is at least as large as the request and shares no byte   *)
(* with a block some client still owns, and free(ptr) takes back that      *)
(* block and no other.  Nothing is said of where the memory comes from.    *)
(***************************************************************************)
EXTENDS Integers

CONSTANT Threads

VARIABLES
  live,       \* the blocks clients own, as <<address, size>>
  owned,      \* how many they own: one block given out twice counts twice
  request     \* the size each thread is waiting for, 0 for none

Bytes(block) == block[1] .. block[1] + block[2] - 1

Disjoint(b, c) == Bytes(b) \intersect Bytes(c) = {}

Init ==
  /\ live = {}
  /\ owned = 0
  /\ request = [t \in Threads |-> 0]

(* A client calls malloc(sz). *)
Malloc(t) ==
  /\ request[t] = 0 /\ request'[t] \in Nat \ {0}
  /\ request' = [request EXCEPT ![t] = request'[t]]
  /\ UNCHANGED <<live, owned>>

(* malloc returns a block, or NULL. *)
Deliver(t) ==
  /\ request[t] # 0
  /\ request' = [request EXCEPT ![t] = 0]
  /\ \/ UNCHANGED <<live, owned>>
     \/ \E b \in live' :
          /\ b[2] >= request[t]
          /\ \A c \in live : Disjoint(b, c)
          /\ live' = live \union {b} /\ owned' = owned + 1

(* A client calls free: the block stops being its own at once. *)
Free ==
  /\ \E b \in live : live' = live \ {b}
  /\ owned' = owned - 1
  /\ UNCHANGED request

Next == Free \/ \E t \in Threads : Malloc(t) \/ Deliver(t)

Spec == Init /\ [][Next]_<<live, owned, request>>
=============================================================================
