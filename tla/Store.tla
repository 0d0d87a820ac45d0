-------------------------------- MODULE Store --------------------------------
(***************************************************************************)
(* Store<T, Container>, the blocking buffer of store/store.h: one mutex,   *)
(* one condition variable for "not full" and one for "not empty".  Any     *)
(* number of threads push and pop.  The order of the elements is the       *)
(* Container's business; here it is the number of them that matters.       *)
(*                                                                         *)
(* A critical section is one action.  A thread that returns from wait()    *)
(* competes for the mutex again and repeats the test of its loop, exactly  *)
(* like one that has just called: both are "entering".                     *)
(***************************************************************************)
EXTENDS Integers, FiniteSets

CONSTANTS Producers, Consumers, \* the threads that push and that pop
          Capacity,             \* the _capacity the store starts with
          Capacities            \* what reserve() is called with

ASSUME StoreAssumption ==
    /\ IsFiniteSet(Producers) /\ Producers # {}
    /\ IsFiniteSet(Consumers) /\ Consumers # {}
    /\ Producers \cap Consumers = {}
    /\ Capacity \in Nat \ {0}
    /\ Capacities \subseteq Nat

VARIABLES
    size,      \* _store.size()
    capacity,  \* _capacity
    pc,        \* "idle", "entering" (wants the mutex) or "waiting" (in wait())
    reserved   \* reserve() has been called: what push() promises depends on it

vars == <<size, capacity, pc, reserved>>

Threads == Producers \cup Consumers

full  == size >= capacity
empty == size = 0

In(threads, place) == {t \in threads : pc[t] = place}

-----------------------------------------------------------------------------
Init ==
    /\ size = 0
    /\ capacity = Capacity
    /\ pc = [t \in Threads |-> "idle"]
    /\ reserved = FALSE

\* push() or pop() is called.
Call(t) ==
    /\ pc[t] = "idle"
    /\ pc' = [pc EXCEPT ![t] = "entering"]
    /\ UNCHANGED <<size, capacity, reserved>>

\* Mutant of ReturnNotifying: nobody is notified.
MutReturnNotifying(t, threads) == pc' = [pc EXCEPT ![t] = "idle"]

\* Thread t returns after a notify_one() that wakes one of the threads, if any.
ReturnNotifying(t, threads) ==
    \/ /\ In(threads, "waiting") = {}
       /\ pc' = [pc EXCEPT ![t] = "idle"]
    \/ \E w \in In(threads, "waiting") :
           pc' = [pc EXCEPT ![t] = "idle", ![w] = "entering"]

\* Mutant of push: the condition variables are confused.
MutPush(p) ==
    /\ pc[p] = "entering"
    /\ ~ full
    /\ size' = size + 1
    /\ ReturnNotifying(p, Producers)
    /\ UNCHANGED <<capacity, reserved>>

\* The loop of push(), then the push.
push(p) ==
    /\ pc[p] = "entering"
    /\ ~ full
    /\ size' = size + 1
    /\ ReturnNotifying(p, Consumers)
    /\ UNCHANGED <<capacity, reserved>>

pushWaits(p) ==
    /\ pc[p] = "entering"
    /\ full
    /\ pc' = [pc EXCEPT ![p] = "waiting"]
    /\ UNCHANGED <<size, capacity, reserved>>

\* Mutant of pop: the test is made once, an "if" in place of the "while".
MutPop(c) ==
    /\ pc[c] = "entering"
    /\ size' = size - 1
    /\ ReturnNotifying(c, Producers)
    /\ UNCHANGED <<capacity, reserved>>

\* The loop of pop(), then the pop.
pop(c) ==
    /\ pc[c] = "entering"
    /\ ~ empty
    /\ size' = size - 1
    /\ ReturnNotifying(c, Producers)
    /\ UNCHANGED <<capacity, reserved>>

popWaits(c) ==
    /\ pc[c] = "entering"
    /\ empty
    /\ pc' = [pc EXCEPT ![c] = "waiting"]
    /\ UNCHANGED <<size, capacity, reserved>>

\* condition_variable_any wakes up without a notification, too.
WakeSpuriously(t) ==
    /\ pc[t] = "waiting"
    /\ pc' = [pc EXCEPT ![t] = "entering"]
    /\ UNCHANGED <<size, capacity, reserved>>

\* reserve() and reserve_unsafe(): neither takes _store_lock or notifies.
reserve ==
    /\ capacity' \in Capacities
    /\ reserved' = TRUE
    /\ UNCHANGED <<size, pc>>

Producer(p) == push(p) \/ pushWaits(p)
Consumer(c) == pop(c) \/ popWaits(c)

Next ==
    \/ \E p \in Producers : Producer(p)
    \/ \E c \in Consumers : Consumer(c)
    \/ \E t \in Threads : Call(t) \/ WakeSpuriously(t)
    \/ reserve

Spec == Init /\ [][Next]_vars

\* While threads want the mutex one of them gets it: the sections are short and
\* each is left.  Nobody has to call, and nobody has to wake up without a
\* notification.  This is weak fairness of what the producers do and of what the
\* consumers do, with what is enabled spelled out.
ProducerFairness ==
    []<>(In(Producers, "entering") = {}) \/ []<><<\E p \in Producers : Producer(p)>>_vars
ConsumerFairness ==
    []<>(In(Consumers, "entering") = {}) \/ []<><<\E c \in Consumers : Consumer(c)>>_vars

FairSpec == Spec /\ ProducerFairness /\ ConsumerFairness

\* A mutex that is fair, moreover, to each of the threads.
ThreadFairSpec == /\ Spec
                  /\ \A p \in Producers : WF_vars(Producer(p))
                  /\ \A c \in Consumers : WF_vars(Consumer(c))

-----------------------------------------------------------------------------
(* Properties.                                                             *)

TypeOK ==
    /\ size \in Nat
    /\ capacity \in Nat
    /\ pc \in [Threads -> {"idle", "entering", "waiting"}]
    /\ reserved \in BOOLEAN

\* The wakeups of the consumers are enough: while one sleeps there are no more
\* elements than there are consumers on their way to take one.  notify_one()
\* is enough although a newcomer may take the element of the one it woke.
ConsumersNotStranded ==
    In(Consumers, "waiting") # {} => size <= Cardinality(In(Consumers, "entering"))

\* Likewise for the free places, as long as reserve() does not add any.
ProducersNotStranded ==
    (~ reserved /\ In(Producers, "waiting") # {}) =>
        capacity - size <= Cardinality(In(Producers, "entering"))

\* The threads never all sleep, unless reserve() took the room away.
NobodyLeftToNotify == reserved \/ \E t \in Threads : pc[t] # "waiting"

\* The mutex, the two condition variables and the loops around wait() together
\* are a buffer whose push() and pop() are atomic: each takes effect in one
\* step, and no wakeup is lost that a caller of the buffer would miss.
Abstract == INSTANCE Buffer WITH inside <- Threads \ In(Threads, "idle")

ImplementsBuffer == Abstract!FairSpec

\* doc/store/store.md: push blocks while the store is full, until it is not.
PushUnblocks ==
    (In(Producers, "waiting") # {} /\ ~ full) ~> (In(Producers, "waiting") = {} \/ full)
=============================================================================
