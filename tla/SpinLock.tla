------------------------------ MODULE SpinLock ------------------------------
(***************************************************************************)
(* SpinLockType (locks/spinlock.h): a test-and-set lock on one atomic      *)
(* flag.  lock() exchanges the flag once and, when it was already set,     *)
(* falls into contendedLock(), which exchanges again, spins on plain loads *)
(* up to MAX_SPIN times and then yields the processor.                     *)
(*                                                                         *)
(* Every step is one access to the flag, or the call to sched_yield.       *)
(***************************************************************************)
EXTENDS Naturals

CONSTANTS
  Threads,
  NoThread,
  MaxSpin     \* MAX_SPIN, 1000 in the code

ASSUME SpinLockAssumption ==
  /\ NoThread \notin Threads
  /\ MaxSpin \in Nat \ {0}

VARIABLES
  mutex,      \* _mutex: TRUE while the lock is taken
  spin,       \* where each thread is in lock(), didLock() and unlock()
  count       \* the counter of contendedLock's inner loop, 0 outside it

lockVars == <<mutex, spin, count>>

SpinPlaces == {"out", "exchange", "spinning", "yield", "in"}

LockInit ==
  /\ mutex = FALSE
  /\ spin = [t \in Threads |-> "out"]
  /\ count = [t \in Threads |-> 0]

Holds(t) == spin[t] = "in"

-----------------------------------------------------------------------------
(* Seeded bug: the flag is tested and set in two halves, and the set is lost. *)
ExchangeUnset(t, otherwise) ==
  /\ mutex' = mutex
  /\ spin' = [spin EXCEPT ![t] = IF mutex THEN otherwise ELSE "in"]

(* _mutex.exchange(true): the thread that finds FALSE has the lock.        *)
Exchange(t, otherwise) ==
  /\ mutex' = TRUE
  /\ spin' = [spin EXCEPT ![t] = IF mutex THEN otherwise ELSE "in"]

(* lock(): the uncontended exchange. *)
Lock(t) ==
  /\ spin[t] = "out"
  /\ Exchange(t, "exchange")
  /\ UNCHANGED count

(* contendedLock: the exchange at the head of the loop; a failure starts   *)
(* a new round of spinning.                                                *)
ContendedExchange(t) ==
  /\ spin[t] = "exchange"
  /\ Exchange(t, "spinning")
  /\ UNCHANGED count

(* Seeded bug: the bound of the loop is off by one. *)
SpinOnceTooFar(t) ==
  /\ spin[t] = "spinning"
  /\ IF mutex /\ count[t] <= MaxSpin
       THEN count' = [count EXCEPT ![t] = @ + 1] /\ UNCHANGED spin
       ELSE /\ spin' = [spin EXCEPT ![t] =
                          IF count[t] = MaxSpin THEN "yield" ELSE "exchange"]
            /\ count' = [count EXCEPT ![t] = 0]
  /\ UNCHANGED mutex

(* One evaluation of the condition of the inner loop, a relaxed load, with *)
(* the body or the test after the loop that follows it.                    *)
SpinOnce(t) ==
  /\ spin[t] = "spinning"
  /\ IF mutex /\ count[t] < MaxSpin
       THEN /\ count' = [count EXCEPT ![t] = @ + 1]
            /\ UNCHANGED spin
       ELSE /\ spin' = [spin EXCEPT ![t] =
                          IF count[t] = MaxSpin THEN "yield" ELSE "exchange"]
            /\ count' = [count EXCEPT ![t] = 0]
  /\ UNCHANGED mutex

YieldProcessor(t) ==
  /\ spin[t] = "yield"
  /\ spin' = [spin EXCEPT ![t] = "exchange"]
  /\ UNCHANGED <<mutex, count>>

(* Seeded bug: the negation in didLock is lost. *)
DidLockInverted(t) ==
  /\ spin[t] = "out"
  /\ mutex' = TRUE
  /\ spin' = [spin EXCEPT ![t] = IF mutex THEN "in" ELSE "out"]
  /\ UNCHANGED count

(* didLock(): one exchange, and no second try. *)
DidLock(t) ==
  /\ spin[t] = "out"
  /\ Exchange(t, "out")
  /\ UNCHANGED count

(* Seeded bug: the flag is left up. *)
UnlockKeepsFlag(t) ==
  /\ Holds(t)
  /\ spin' = [spin EXCEPT ![t] = "out"]
  /\ UNCHANGED <<mutex, count>>

(* unlock() stores FALSE whoever calls it; callers hold the lock. *)
Unlock(t) ==
  /\ Holds(t)
  /\ mutex' = FALSE
  /\ spin' = [spin EXCEPT ![t] = "out"]
  /\ UNCHANGED count

(* The steps of a thread inside contendedLock. *)
Contend(t) == ContendedExchange(t) \/ SpinOnce(t) \/ YieldProcessor(t)

LockNext == \E t \in Threads : Lock(t) \/ DidLock(t) \/ Unlock(t) \/ Contend(t)

(* The scheduler runs every thread that is inside contendedLock again and  *)
(* again, and a thread that holds the lock goes on to release it.  Nothing *)
(* is assumed of the order in which contenders win the exchange.           *)
LockFairness == \A t \in Threads : WF_lockVars(Contend(t)) /\ WF_lockVars(Unlock(t))

LockSpec == LockInit /\ [][LockNext]_lockVars

FairLockSpec == LockSpec /\ LockFairness

-----------------------------------------------------------------------------
(* Every variable keeps its range: the spin counter never passes MAX_SPIN, *)
(* which the equality test after the loop (spinlock.h:137) relies on.      *)
LockTypeOK ==
  /\ mutex \in BOOLEAN
  /\ spin \in [Threads -> SpinPlaces]
  /\ count \in [Threads -> 0 .. MaxSpin]

(* Two threads never both return from lock() or didLock() before one of    *)
(* them calls unlock(), whatever the spinning loads saw in between.        *)
MutualExclusion == \A t, u \in Threads : Holds(t) /\ Holds(u) => t = u

(* The flag is up exactly while a thread holds the lock: a failed exchange *)
(* or a failed didLock() never leaves a free lock looking taken.           *)
FlagMeansHeld == mutex <=> \E t \in Threads : Holds(t)

(* The invariant that carries mutual exclusion through a step. *)
LockInv == LockTypeOK /\ MutualExclusion /\ FlagMeansHeld

(* The owner that clients see. *)
Owner == IF \E t \in Threads : Holds(t)
           THEN CHOOSE t \in Threads : Holds(t)
           ELSE NoThread

(* The spin lock implements the abstract lock: the winning exchange is its *)
(* Acquire, the store of unlock() its Release, and all the rest stutters.  *)
AbstractMutex == INSTANCE Mutex WITH owner <- Owner
ImplementsMutex == AbstractMutex!Spec

Waiting(t) == spin[t] \in {"exchange", "spinning", "yield"}

(* As long as some thread is in contendedLock, some thread gets the lock:  *)
(* no spinning pattern, and no yield, leaves a free lock unclaimed for     *)
(* ever.  One thread may starve, the lock as a whole may not.              *)
SomeoneGetsIn == (\E t \in Threads : Waiting(t)) ~> (\E t \in Threads : Holds(t))
=============================================================================
