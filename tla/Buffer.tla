------------------------------- MODULE Buffer -------------------------------
(***************************************************************************)
(* What Store promises its users (doc/store/store.md): a buffer of limited *)
(* capacity whose push and pop are atomic, and block only while there is   *)
(* no room or no element.  No mutex, no condition variable, no sleeping.   *)
(* Store.tla is shown to implement it.                                     *)
(***************************************************************************)
EXTENDS Integers

CONSTANTS Producers, Consumers, \* the threads that push and that pop
          Capacity,             \* the capacity at first
          Capacities            \* the capacities reserve() may set

VARIABLES
    size,      \* the number of elements
    capacity,
    reserved,  \* the capacity was changed
    inside     \* the threads whose push or pop has not returned

vars == <<size, capacity, reserved, inside>>

Init ==
    /\ size = 0
    /\ capacity = Capacity
    /\ reserved = FALSE
    /\ inside = {}

Enter(t) ==
    /\ t \notin inside
    /\ inside' = inside \cup {t}
    /\ UNCHANGED <<size, capacity, reserved>>

Put(p) ==
    /\ p \in inside
    /\ size < capacity
    /\ size' = size + 1
    /\ inside' = inside \ {p}
    /\ UNCHANGED <<capacity, reserved>>

Take(c) ==
    /\ c \in inside
    /\ size > 0
    /\ size' = size - 1
    /\ inside' = inside \ {c}
    /\ UNCHANGED <<capacity, reserved>>

Resize ==
    /\ capacity' \in Capacities
    /\ reserved' = TRUE
    /\ UNCHANGED <<size, inside>>

Next ==
    \/ \E t \in Producers \cup Consumers : Enter(t)
    \/ \E p \in Producers : Put(p)
    \/ \E c \in Consumers : Take(c)
    \/ Resize

\* Weak fairness of Put and of Take.  The states in which they are enabled are
\* spelled out, so that TLC can evaluate them under a refinement mapping.
CanPut  == size < capacity /\ inside \cap Producers # {}
CanTake == size > 0 /\ inside \cap Consumers # {}

\* A buffer that has elements and callers of pop() does not keep them waiting.
TakeFairness == []<>(~ CanTake) \/ []<><<\E c \in Consumers : Take(c)>>_vars

\* The same of room and callers of push(), unless the capacity is changed: that
\* frees places without telling anybody.
PutFairness == []<>(~ CanPut \/ reserved) \/ []<><<\E p \in Producers : Put(p)>>_vars

Spec == Init /\ [][Next]_vars

FairSpec == Spec /\ TakeFairness /\ PutFairness
=============================================================================
