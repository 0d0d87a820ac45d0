----------------------------- MODULE StoreProofs -----------------------------
(***************************************************************************)
(* What TLAPS proves of Store, for any finite sets of threads and any      *)
(* capacity.  The two invariants are inductive together with the types:    *)
(* an element more comes with a consumer more on its way, or with no       *)
(* consumer asleep; an element less goes with the consumer that took it.   *)
(* The same holds of free places and producers while the capacity stands.  *)
(* Last, every step of Store is a step of the atomic Buffer, or none.      *)
(***************************************************************************)
EXTENDS Store, FiniteSetTheorems, TLAPS

\* Sides: a finite set of threads of one kind.
Side(S) == IsFiniteSet(S) /\ S \subseteq Threads

LEMMA Sides == Side(Producers) /\ Side(Consumers) /\ Producers \cap Consumers = {}
  BY StoreAssumption DEF Side, Threads

LEMMA CountIsNat ==
  ASSUME NEW S, Side(S)
  PROVE  IsFiniteSet(In(S, "entering")) /\ Cardinality(In(S, "entering")) \in Nat
  BY FS_Subset, FS_CardinalityType DEF Side, In

\* A thread of the side begins to wait for the mutex.
LEMMA CountUp ==
  ASSUME NEW S, Side(S), NEW w \in S, pc[w] # "entering", pc'[w] = "entering",
         \A t \in S \ {w} : pc'[t] = pc[t]
  PROVE  Cardinality(In(S, "entering"))' = Cardinality(In(S, "entering")) + 1
<1>1. In(S, "entering")' = In(S, "entering") \cup {w}
  BY DEF In
<1>2. w \notin In(S, "entering")
  BY DEF In
<1> QED
  BY <1>1, <1>2, CountIsNat, FS_AddElement

\* A thread of the side is done with the mutex.
LEMMA CountDown ==
  ASSUME NEW S, Side(S), NEW w \in S, pc[w] = "entering", pc'[w] # "entering",
         \A t \in S \ {w} : pc'[t] = pc[t]
  PROVE  Cardinality(In(S, "entering"))' = Cardinality(In(S, "entering")) - 1
<1>1. In(S, "entering")' = In(S, "entering") \ {w}
  BY DEF In
<1>2. w \in In(S, "entering")
  BY DEF In
<1> QED
  BY <1>1, <1>2, CountIsNat, FS_RemoveElement

\* No thread of the side moves.
LEMMA CountSame ==
  ASSUME NEW S, \A t \in S : pc'[t] = pc[t]
  PROVE  /\ Cardinality(In(S, "entering"))' = Cardinality(In(S, "entering"))
         /\ In(S, "waiting")' = In(S, "waiting")
<1>1. /\ In(S, "entering")' = In(S, "entering")
      /\ In(S, "waiting")' = In(S, "waiting")
  BY DEF In
<1> QED
  BY <1>1

\* A call, or a wakeup that nobody notified: at most one more on the way.
LEMMA Enters ==
  ASSUME TypeOK, NEW S, Side(S), NEW t \in Threads, Call(t) \/ WakeSpuriously(t)
  PROVE  /\ Cardinality(In(S, "entering"))' >= Cardinality(In(S, "entering"))
         /\ In(S, "waiting")' \subseteq In(S, "waiting")
<1>1. /\ pc[t] # "entering" /\ pc'[t] = "entering"
      /\ \A o \in Threads \ {t} : pc'[o] = pc[o]
  BY DEF TypeOK, Call, WakeSpuriously
<1>2. In(S, "waiting")' \subseteq In(S, "waiting")
  BY <1>1 DEF In, Side
<1>3. CASE t \in S
  BY <1>1, <1>2, <1>3, CountUp, CountIsNat DEF Side
<1>4. CASE t \notin S
  BY <1>1, <1>2, <1>4, CountSame, CountIsNat DEF Side
<1> QED
  BY <1>3, <1>4

\* push() and pop(): the thread's own side loses it, and the other side has one
\* more on its way unless none was asleep.
LEMMA Notifies ==
  ASSUME TypeOK, NEW S, Side(S), NEW R, Side(R), S \cap R = {},
         NEW t \in S, pc[t] = "entering", ReturnNotifying(t, R)
  PROVE  /\ Cardinality(In(S, "entering"))' = Cardinality(In(S, "entering")) - 1
         /\ In(S, "waiting")' = In(S, "waiting")
         /\ \/ In(R, "waiting")' = {}
            \/ Cardinality(In(R, "entering"))' = Cardinality(In(R, "entering")) + 1
<1>1. CASE In(R, "waiting") = {} /\ pc' = [pc EXCEPT ![t] = "idle"]
  <2>1. pc'[t] = "idle" /\ \A o \in Threads \ {t} : pc'[o] = pc[o]
    BY <1>1 DEF TypeOK, Side
  <2>2. Cardinality(In(S, "entering"))' = Cardinality(In(S, "entering")) - 1
    BY <2>1, CountDown DEF Side
  <2>3. In(S, "waiting")' = In(S, "waiting") /\ In(R, "waiting")' = {}
    BY <1>1, <2>1 DEF In, Side
  <2> QED
    BY <2>2, <2>3
<1>2. CASE \E w \in In(R, "waiting") : pc' = [pc EXCEPT ![t] = "idle", ![w] = "entering"]
  <2>1. PICK w \in In(R, "waiting") : pc' = [pc EXCEPT ![t] = "idle", ![w] = "entering"]
    BY <1>2
  <2>2. /\ w \in R /\ w \notin S /\ t \notin R /\ pc[w] = "waiting"
        /\ pc'[t] = "idle" /\ pc'[w] = "entering"
        /\ \A o \in Threads \ {t, w} : pc'[o] = pc[o]
    BY <2>1 DEF TypeOK, In, Side
  <2>3. Cardinality(In(S, "entering"))' = Cardinality(In(S, "entering")) - 1
    BY <2>2, CountDown DEF Side
  <2>4. Cardinality(In(R, "entering"))' = Cardinality(In(R, "entering")) + 1
    BY <2>2, CountUp DEF Side
  <2>5. In(S, "waiting")' = In(S, "waiting")
    BY <2>2 DEF In, Side
  <2> QED
    BY <2>3, <2>4, <2>5
<1> QED
  BY <1>1, <1>2 DEF ReturnNotifying

-----------------------------------------------------------------------------
\* The number of elements and the capacity stay natural numbers: pop() never
\* takes from an empty store.
THEOREM StoreTypes == Spec => []TypeOK
<1>1. Init => TypeOK
  <2>1. Init => reserved \in BOOLEAN
    BY Zenon DEF Init
  <2> QED
    BY <2>1, StoreAssumption DEF Init, TypeOK
<1>2. TypeOK /\ [Next]_vars => TypeOK'
  <2> SUFFICES ASSUME TypeOK, [Next]_vars PROVE TypeOK'
    OBVIOUS
  <2> USE DEF TypeOK, Threads
  <2>1. ASSUME NEW p \in Producers, Producer(p) PROVE TypeOK'
    BY <2>1 DEF Producer, push, pushWaits, ReturnNotifying, In
  <2>2. ASSUME NEW c \in Consumers, Consumer(c) PROVE TypeOK'
    BY <2>2 DEF Consumer, pop, popWaits, empty, ReturnNotifying, In
  <2>3. ASSUME NEW t \in Threads, Call(t) \/ WakeSpuriously(t) PROVE TypeOK'
    BY <2>3 DEF Call, WakeSpuriously
  <2>4. ASSUME reserve PROVE TypeOK'
    BY <2>4, StoreAssumption DEF reserve
  <2>5. ASSUME UNCHANGED vars PROVE TypeOK'
    BY <2>5 DEF vars
  <2> QED
    BY <2>1, <2>2, <2>3, <2>4, <2>5 DEF Next
<1> QED
  BY <1>1, <1>2, PTL DEF Spec

LEMMA ConsumersNext ==
  ASSUME TypeOK, ConsumersNotStranded, [Next]_vars PROVE ConsumersNotStranded'
<1> USE Sides, CountIsNat DEF ConsumersNotStranded
<1>1. ASSUME NEW p \in Producers, push(p) PROVE ConsumersNotStranded'
  <2>1. pc[p] = "entering" /\ ReturnNotifying(p, Consumers) /\ size' = size + 1
    BY <1>1 DEF push
  <2>2. \/ In(Consumers, "waiting")' = {}
        \/ Cardinality(In(Consumers, "entering"))' = Cardinality(In(Consumers, "entering")) + 1
    BY <2>1, Notifies
  <2>3. CASE In(Consumers, "waiting") = {}
    BY <2>1, <2>3 DEF ReturnNotifying, In, Side, TypeOK
  <2> QED
    BY <2>1, <2>2, <2>3 DEF TypeOK
<1>2. ASSUME NEW p \in Producers, pushWaits(p) PROVE ConsumersNotStranded'
  <2>1. \A c \in Consumers : pc'[c] = pc[c]
    BY <1>2 DEF pushWaits, TypeOK, Threads
  <2> QED
    BY <1>2, <2>1, CountSame DEF pushWaits
<1>3. ASSUME NEW c \in Consumers, pop(c) PROVE ConsumersNotStranded'
  <2>1. pc[c] = "entering" /\ ReturnNotifying(c, Producers) /\ size' = size - 1
    BY <1>3 DEF pop
  <2>2. /\ In(Consumers, "waiting")' = In(Consumers, "waiting")
        /\ Cardinality(In(Consumers, "entering"))' = Cardinality(In(Consumers, "entering")) - 1
    BY <2>1, Notifies
  <2> QED
    BY <2>1, <2>2 DEF TypeOK
<1>4. ASSUME NEW c \in Consumers, popWaits(c) PROVE ConsumersNotStranded'
  <2>1. size' = 0
    BY <1>4 DEF popWaits, empty
  <2>2. Cardinality(In(Consumers, "entering"))' = Cardinality(In(Consumers, "entering")) - 1
    BY <1>4, CountDown DEF popWaits, TypeOK, Threads, Side
  <2>3. In(Consumers, "entering") # {}
    BY <1>4 DEF popWaits, In
  <2>4. Cardinality(In(Consumers, "entering")) # 0
    BY <2>3, FS_EmptySet
  <2> QED
    BY <2>1, <2>2, <2>4
<1>5. ASSUME NEW t \in Threads, Call(t) \/ WakeSpuriously(t) PROVE ConsumersNotStranded'
  <2>1. size' = size
    BY <1>5 DEF Call, WakeSpuriously
  <2>2. /\ Cardinality(In(Consumers, "entering"))' >= Cardinality(In(Consumers, "entering"))
        /\ In(Consumers, "waiting")' \subseteq In(Consumers, "waiting")
    BY <1>5, Enters
  <2>3. Cardinality(In(Consumers, "entering"))' \in Nat
    BY <1>5, CountUp, CountSame DEF Call, WakeSpuriously, TypeOK, Threads, Side
  <2> QED
    BY <2>1, <2>2, <2>3 DEF TypeOK
<1>6. ASSUME reserve \/ UNCHANGED vars PROVE ConsumersNotStranded'
  BY <1>6, CountSame DEF reserve, vars
<1> QED
  BY <1>1, <1>2, <1>3, <1>4, <1>5, <1>6 DEF Next, Producer, Consumer

\* However reserve() changes the capacity, the elements in the store never
\* outnumber the consumers on their way while another consumer sleeps.
THEOREM ConsumersWake == Spec => []ConsumersNotStranded
<1>1. Init => ConsumersNotStranded
  BY DEF Init, ConsumersNotStranded, In, Threads
<1>2. TypeOK /\ ConsumersNotStranded /\ [Next]_vars => ConsumersNotStranded'
  BY ConsumersNext
<1> QED
  BY <1>1, <1>2, StoreTypes, PTL DEF Spec

-----------------------------------------------------------------------------
LEMMA ProducersNext ==
  ASSUME TypeOK, ProducersNotStranded, [Next]_vars
  PROVE  ProducersNotStranded'
<1> USE Sides, CountIsNat DEF ProducersNotStranded
<1>1. ASSUME NEW c \in Consumers, pop(c) PROVE ProducersNotStranded'
  <2>1. /\ pc[c] = "entering" /\ ReturnNotifying(c, Producers)
        /\ size' = size - 1 /\ capacity' = capacity /\ reserved' = reserved
    BY <1>1 DEF pop
  <2>2. \/ In(Producers, "waiting")' = {}
        \/ Cardinality(In(Producers, "entering"))' = Cardinality(In(Producers, "entering")) + 1
    BY <2>1, Notifies
  <2>3. CASE In(Producers, "waiting") = {}
    BY <2>1, <2>3 DEF ReturnNotifying, In, Side, TypeOK
  <2> QED
    BY <2>1, <2>2, <2>3 DEF TypeOK
<1>2. ASSUME NEW c \in Consumers, popWaits(c) PROVE ProducersNotStranded'
  <2>1. \A p \in Producers : pc'[p] = pc[p]
    BY <1>2 DEF popWaits, TypeOK, Threads
  <2> QED
    BY <1>2, <2>1, CountSame DEF popWaits
<1>3. ASSUME NEW p \in Producers, push(p) PROVE ProducersNotStranded'
  <2>1. /\ pc[p] = "entering" /\ ReturnNotifying(p, Consumers)
        /\ size' = size + 1 /\ capacity' = capacity /\ reserved' = reserved
    BY <1>3 DEF push
  <2>2. /\ In(Producers, "waiting")' = In(Producers, "waiting")
        /\ Cardinality(In(Producers, "entering"))' = Cardinality(In(Producers, "entering")) - 1
    BY <2>1, Notifies
  <2> QED
    BY <2>1, <2>2 DEF TypeOK
<1>4. ASSUME NEW p \in Producers, pushWaits(p) PROVE ProducersNotStranded'
  <2>1. size' >= capacity' /\ size' \in Nat /\ capacity' \in Nat /\ reserved' = reserved
    BY <1>4 DEF pushWaits, full, TypeOK
  <2>2. Cardinality(In(Producers, "entering"))' = Cardinality(In(Producers, "entering")) - 1
    BY <1>4, CountDown DEF pushWaits, TypeOK, Threads, Side
  <2>3. In(Producers, "entering") # {}
    BY <1>4 DEF pushWaits, In
  <2>4. Cardinality(In(Producers, "entering")) # 0
    BY <2>3, FS_EmptySet
  <2>5. Cardinality(In(Producers, "entering")) \in Nat
    OBVIOUS
  <2>6. capacity' - size' <= Cardinality(In(Producers, "entering"))'
    BY <2>1, <2>2, <2>4, <2>5
  <2> QED
    BY <2>6
<1>5. ASSUME NEW t \in Threads, Call(t) \/ WakeSpuriously(t) PROVE ProducersNotStranded'
  <2>1. size' = size /\ capacity' = capacity /\ reserved' = reserved
    BY <1>5 DEF Call, WakeSpuriously
  <2>2. /\ Cardinality(In(Producers, "entering"))' >= Cardinality(In(Producers, "entering"))
        /\ In(Producers, "waiting")' \subseteq In(Producers, "waiting")
    BY <1>5, Enters
  <2>3. Cardinality(In(Producers, "entering"))' \in Nat
    BY <1>5, CountUp, CountSame DEF Call, WakeSpuriously, TypeOK, Threads, Side
  <2> QED
    BY <2>1, <2>2, <2>3 DEF TypeOK
<1>6. ASSUME UNCHANGED vars PROVE ProducersNotStranded'
  BY <1>6, CountSame DEF vars
<1>7. ASSUME reserve PROVE ProducersNotStranded'
  BY <1>7 DEF reserve
<1> QED
  BY <1>1, <1>2, <1>3, <1>4, <1>5, <1>6, <1>7 DEF Next, Producer, Consumer

\* Until reserve() is called, the free places never outnumber the producers on
\* their way while another producer sleeps.
THEOREM ProducersWake == Spec => []ProducersNotStranded
<1>1. Init => ProducersNotStranded
  BY DEF Init, ProducersNotStranded, In, Threads
<1>2. TypeOK /\ ProducersNotStranded /\ [Next]_vars => ProducersNotStranded'
  BY ProducersNext
<1> QED
  BY <1>1, <1>2, StoreTypes, PTL DEF Spec

Fixed == reserved \/ capacity = Capacity

\* Until reserve() is called the threads never all sleep, however many use the
\* store and however small it is: were they all asleep, the store would have no
\* element for the consumers and no place for the producers.
THEOREM SomebodyAwake == Spec => []NobodyLeftToNotify
<1>1. Init => Fixed
  BY DEF Init, Fixed
<1>2. Fixed /\ [Next]_vars => Fixed'
  BY DEF Fixed, Next, Producer, Consumer, push, pushWaits, pop, popWaits,
     Call, WakeSpuriously, reserve, vars
<1>3. TypeOK /\ ConsumersNotStranded /\ ProducersNotStranded /\ Fixed
        => NobodyLeftToNotify
  <2> SUFFICES ASSUME TypeOK, ConsumersNotStranded, ProducersNotStranded,
                      Fixed, ~ reserved, \A t \in Threads : pc[t] = "waiting"
               PROVE  FALSE
    BY DEF NobodyLeftToNotify
  <2>1. /\ In(Consumers, "waiting") # {} /\ In(Consumers, "entering") = {}
        /\ In(Producers, "waiting") # {} /\ In(Producers, "entering") = {}
    BY StoreAssumption DEF In, Threads
  <2>2. Cardinality({}) = 0
    BY FS_EmptySet
  <2> QED
    BY <2>1, <2>2, StoreAssumption DEF ConsumersNotStranded, ProducersNotStranded, TypeOK, Fixed
<1> QED
  BY <1>1, <1>2, <1>3, StoreTypes, ConsumersWake, ProducersWake, PTL DEF Spec

-----------------------------------------------------------------------------
\* The threads inside a call of the abstract buffer.
inside == Threads \ In(Threads, "idle")

LEMMA InsideIff == ASSUME NEW t \in Threads PROVE t \in inside <=> pc[t] # "idle"
  BY DEF inside, In

\* The thread that moves an element has been inside, and leaves.
LEMMA Leaves ==
  ASSUME TypeOK, NEW t \in Threads, NEW S \in SUBSET Threads, pc[t] = "entering",
         ReturnNotifying(t, S)
  PROVE  t \in inside /\ inside' = inside \ {t}
  BY DEF ReturnNotifying, inside, In, TypeOK

LEMMA PushIsPut == ASSUME TypeOK, NEW p \in Producers, push(p) PROVE Abstract!Put(p)
<1>1. p \in inside /\ inside' = inside \ {p}
  BY Leaves DEF push, Threads
<1> QED
  BY <1>1 DEF Abstract!Put, push, full, inside, TypeOK

LEMMA PopIsTake == ASSUME TypeOK, NEW c \in Consumers, pop(c) PROVE Abstract!Take(c)
<1>1. c \in inside /\ inside' = inside \ {c}
  BY Leaves DEF pop, Threads
<1> QED
  BY <1>1 DEF Abstract!Take, pop, empty, inside, TypeOK

LEMMA AbstractStep == ASSUME TypeOK, [Next]_vars PROVE [Abstract!Next]_(Abstract!vars)
<1> USE DEF Abstract!vars
<1>1. ASSUME NEW t \in Threads, Call(t) PROVE Abstract!Next
  <2>1. t \notin inside /\ inside' = inside \cup {t}
    BY <1>1 DEF Call, inside, In, TypeOK
  <2>2. UNCHANGED <<size, capacity, reserved>>
    BY <1>1 DEF Call
  <2>3. Abstract!Enter(t)
    BY <2>1, <2>2 DEF Abstract!Enter, inside
  <2> QED
    BY <2>3 DEF Abstract!Next, Threads
<1>2. ASSUME NEW t \in Threads, WakeSpuriously(t) PROVE UNCHANGED Abstract!vars
  BY <1>2 DEF WakeSpuriously, In, TypeOK
<1>3. ASSUME NEW p \in Producers, push(p) PROVE Abstract!Next
  BY <1>3, PushIsPut DEF Abstract!Next
<1>4. ASSUME NEW c \in Consumers, pop(c) PROVE Abstract!Next
  BY <1>4, PopIsTake DEF Abstract!Next
<1>5. ASSUME NEW t \in Threads, pushWaits(t) \/ popWaits(t) PROVE UNCHANGED Abstract!vars
  BY <1>5 DEF pushWaits, popWaits, In, TypeOK
<1>6. ASSUME reserve PROVE Abstract!Next
  BY <1>6 DEF reserve, Abstract!Next, Abstract!Resize, In
<1>7. ASSUME UNCHANGED vars PROVE UNCHANGED Abstract!vars
  BY <1>7 DEF vars, In
<1> QED
  BY <1>1, <1>2, <1>3, <1>4, <1>5, <1>6, <1>7 DEF Next, Producer, Consumer, Threads

\* For any threads and capacities, what push() and pop() do with the mutex and
\* the condition variables is an atomic buffer: every critical section that
\* moves an element is one step of it, and every other step is none.
THEOREM StoreImplementsBuffer == Spec => Abstract!Spec
<1>1. Init => Abstract!Init
  BY DEF Init, Abstract!Init, In, Threads
<1> QED
  BY <1>1, AbstractStep, StoreTypes, PTL DEF Spec, Abstract!Spec

-----------------------------------------------------------------------------
(* The fairness of the buffer follows from that of the mutex: where an      *)
(* element and a caller of pop() are, a consumer is awake, whatever the     *)
(* others sleep through.                                                    *)

LEMMA SideInside ==
  ASSUME TypeOK, NEW S \in SUBSET Threads, inside \cap S # {}
  PROVE  In(S, "entering") # {} \/ In(S, "waiting") # {}
  BY InsideIff DEF TypeOK, In

\* A thread of the side is awake if one is inside and those asleep are told.
LEMMA SideAwake ==
  ASSUME TypeOK, NEW S \in SUBSET Threads, Side(S), inside \cap S # {},
         NEW n \in Nat \ {0},
         In(S, "waiting") # {} => n <= Cardinality(In(S, "entering"))
  PROVE  In(S, "entering") # {}
<1> SUFFICES ASSUME In(S, "entering") = {} PROVE FALSE
  OBVIOUS
<1>1. In(S, "waiting") # {}
  BY SideInside
<1>2. Cardinality({}) = 0
  BY FS_EmptySet
<1> QED
  BY <1>1, <1>2

LEMMA TakeStep ==
  ASSUME TypeOK, Abstract!CanTake, <<\E c \in Consumers : Consumer(c)>>_vars
  PROVE  <<\E c \in Consumers : Abstract!Take(c)>>_(Abstract!vars)
<1>1. PICK c \in Consumers : Consumer(c)
  OBVIOUS
<1>2. pop(c)
  BY <1>1 DEF Abstract!CanTake, Consumer, popWaits, empty
<1>3. Abstract!Take(c) /\ size' # size
  BY <1>2, PopIsTake DEF pop, TypeOK
<1> QED
  BY <1>3 DEF Abstract!vars

LEMMA PutStep ==
  ASSUME TypeOK, Abstract!CanPut, <<\E p \in Producers : Producer(p)>>_vars
  PROVE  <<\E p \in Producers : Abstract!Put(p)>>_(Abstract!vars)
<1>1. PICK p \in Producers : Producer(p)
  OBVIOUS
<1>2. push(p)
  BY <1>1 DEF Abstract!CanPut, Producer, pushWaits, full, TypeOK
<1>3. Abstract!Put(p) /\ size' # size
  BY <1>2, PushIsPut DEF push, TypeOK
<1> QED
  BY <1>3 DEF Abstract!vars

\* Store is a fair buffer, too: no lost wakeup keeps a caller of pop() waiting
\* for ever while there are elements, nor a caller of push() while there is room
\* that reserve() has not made.  All it takes is a mutex that somebody gets.
THEOREM StoreImplementsFairBuffer == FairSpec => ImplementsBuffer
<1>1. TypeOK /\ ConsumersNotStranded /\ Abstract!CanTake => ~ (In(Consumers, "entering") = {})
  <2> SUFFICES ASSUME TypeOK, ConsumersNotStranded, Abstract!CanTake
               PROVE  In(Consumers, "entering") # {}
    OBVIOUS
  <2>1. inside \cap Consumers # {} /\ size \in Nat \ {0}
    BY DEF Abstract!CanTake, inside, TypeOK
  <2> QED
    BY <2>1, SideAwake, Sides DEF ConsumersNotStranded, Side
<1>2. TypeOK /\ ProducersNotStranded /\ Abstract!CanPut /\ ~ reserved
         => ~ (In(Producers, "entering") = {})
  <2> SUFFICES ASSUME TypeOK, ProducersNotStranded, Abstract!CanPut, ~ reserved
               PROVE  In(Producers, "entering") # {}
    OBVIOUS
  <2>1. inside \cap Producers # {} /\ capacity - size \in Nat \ {0}
    BY DEF Abstract!CanPut, inside, TypeOK
  <2> QED
    BY <2>1, SideAwake, Sides DEF ProducersNotStranded, Side
<1>3. TypeOK /\ Abstract!CanTake /\ <<\E c \in Consumers : Consumer(c)>>_vars
         => <<\E c \in Consumers : Abstract!Take(c)>>_(Abstract!vars)
  BY TakeStep
<1>4. TypeOK /\ Abstract!CanPut /\ <<\E p \in Producers : Producer(p)>>_vars
         => <<\E p \in Producers : Abstract!Put(p)>>_(Abstract!vars)
  BY PutStep
<1>5. FairSpec => Abstract!TakeFairness
  BY <1>1, <1>3, StoreTypes, ConsumersWake, PTL
  DEF FairSpec, ConsumerFairness, Abstract!TakeFairness
<1>6. FairSpec => Abstract!PutFairness
  BY <1>2, <1>4, StoreTypes, ProducersWake, PTL
  DEF FairSpec, ProducerFairness, Abstract!PutFairness
<1> QED
  BY <1>5, <1>6, StoreImplementsBuffer DEF ImplementsBuffer, Abstract!FairSpec, FairSpec
=============================================================================
