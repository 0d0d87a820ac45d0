-------------------------- MODULE LssServerProofs --------------------------
(***************************************************************************)
(* Proofs about LssServer, for any number of calls of run() and stop() and *)
(* any number of clients.  Order is the strengthening: what an orderly use *)
(* keeps about the thread of the right side and about this->thread_right.  *)
(***************************************************************************)
EXTENDS LssServer, TLAPS

Setup == {"opening", "joining", "assigning", "resetting"}
Open  == {"joining", "assigning", "resetting", "looping"}

\* What holds while the use is orderly.
Order ==
    /\ thrown = 0
    /\ main \in Open => started > 0
    /\ main # "out" => runs > 0
    /\ \A t \in 1 .. MaxRuns : Alive(t) => t = runs /\ main \in Open
    /\ main \in Setup => stopper = "out"
    /\ main \in {"out", "opening", "joining", "assigning"} => thread_right = 0
    /\ main = "resetting" => thread_right = runs
    /\ thread_right # 0 => thread_right = runs
    /\ main = "looping" /\ thread_right = 0 => \A t \in 1 .. MaxRuns : ~ Alive(t)
    /\ main = "looping" /\ leftStopped => thread_right = 0
    /\ stopper \in {"right_stopping", "right_stopped", "left_stopping"} => thread_right = 0

Orderly == orderly => Order

-----------------------------------------------------------------------------
\* The flags of the io_services, and of the use, are Boolean after every step.
LEMMA Flags ==
    ASSUME TypeOK, [Next]_vars
    PROVE  leftStopped' \in BOOLEAN /\ rightStopped' \in BOOLEAN /\ orderly' \in BOOLEAN
<1> USE DEF TypeOK
<1>1. CASE run \/ stop
  BY <1>1, Zenon DEF run, stop
<1>2. CASE OpenFails \/ Opened \/ JoinOld \/ Assign
  BY <1>2, Zenon DEF OpenFails, Opened, JoinOld, Assign
<1>3. CASE ResetLeft \/ LeftRunReturns
  BY <1>3, Zenon DEF ResetLeft, LeftRunReturns
<1>4. CASE Connect \/ AcceptCompletes \/ AcceptFails \/ SessionEnds
  BY <1>4, Zenon DEF Connect, AcceptCompletes, AcceptFails, SessionEnds
<1>5. CASE LeftHandler
  BY <1>5, Zenon DEF LeftHandler, handle_accept_ok, handle_accept_throws, handle_accept_error
<1>6. ASSUME NEW t \in 1 .. MaxRuns, Worker(t)
      PROVE  leftStopped' \in BOOLEAN /\ rightStopped' \in BOOLEAN /\ orderly' \in BOOLEAN
  BY <1>6, Zenon DEF Worker, ResetRight, RightRunReturns
<1>7. CASE Stopping
  BY <1>7, Zenon DEF Stopping, StopJoins, StopDetachThrows, StopRightStopped, StopLeft, StopReturns
<1>8. CASE UNCHANGED vars
  BY <1>8, Zenon DEF vars
<1> QED
  BY <1>1, <1>2, <1>3, <1>4, <1>5, <1>6, <1>7, <1>8, Zenon DEF Next, Running

\* The types hold in the initial state and every step of run(), of stop(), of
\* the acceptor and of the right thread keeps them.
THEOREM TypeCorrect == Spec => []TypeOK
<1>1. Init => TypeOK
  BY ServerAssumption DEF Init, TypeOK
<1>2. ASSUME TypeOK, [Next]_vars
      PROVE  TypeOK'
  <2>0. leftStopped' \in BOOLEAN /\ rightStopped' \in BOOLEAN /\ orderly' \in BOOLEAN
    BY <1>2, Flags
  <2> USE ServerAssumption, <1>2, <2>0 DEF TypeOK, threadVars, acceptorVars, countVars
  <2>1. CASE run
    BY <2>1 DEF run
  <2>2. CASE OpenFails \/ ResetLeft \/ LeftRunReturns
    BY <2>2 DEF OpenFails, ResetLeft, LeftRunReturns
  <2>3. CASE Opened
    <3>1. workers' \in [1 .. MaxRuns -> {"none", "started", "running", "ended"}]
      BY <2>3 DEF Opened
    <3> QED
      BY <2>3, <3>1 DEF Opened
  <2>4. CASE JoinOld \/ Assign
    <3>1. CASE JoinOld
      BY <3>1 DEF JoinOld
    <3>2. CASE Assign
      BY <3>2 DEF Assign
    <3> QED
      BY <2>4, <3>1, <3>2, Zenon
  <2>5. CASE Connect \/ AcceptCompletes \/ AcceptFails \/ SessionEnds
    <3>1. CASE Connect
      BY <3>1 DEF Connect
    <3>2. CASE AcceptCompletes
      BY <3>2 DEF AcceptCompletes
    <3>3. CASE AcceptFails
      BY <3>3 DEF AcceptFails
    <3>4. CASE SessionEnds
      BY <3>4 DEF SessionEnds
    <3> QED
      BY <2>5, <3>1, <3>2, <3>3, <3>4
  <2>6. CASE handle_accept_ok \/ handle_accept_error
    <3>1. CASE handle_accept_ok
      BY <3>1 DEF handle_accept_ok
    <3>2. CASE handle_accept_error
      BY <3>2 DEF handle_accept_error
    <3> QED
      BY <2>6, <3>1, <3>2
  <2>7. CASE handle_accept_throws
    BY <2>7 DEF handle_accept_throws
  <2>8. ASSUME NEW t \in 1 .. MaxRuns, Worker(t)
        PROVE  TypeOK'
    <3>1. workers' \in [1 .. MaxRuns -> {"none", "started", "running", "ended"}]
      BY <2>8 DEF Worker, ResetRight, RightRunReturns
    <3> QED
      BY <2>8, <3>1 DEF Worker, ResetRight, RightRunReturns
  <2>9. CASE stop
    BY <2>9 DEF stop
  <2>10. CASE StopJoins \/ StopDetachThrows
    <3>1. CASE StopJoins
      <4>1. thread_right' \in 0 .. runs'
        BY <3>1 DEF StopJoins
      <4> QED
        BY <3>1, <4>1 DEF StopJoins
    <3>2. CASE StopDetachThrows
      BY <3>2 DEF StopDetachThrows
    <3> QED
      BY <2>10, <3>1, <3>2
  <2>11. CASE StopRightStopped \/ StopLeft \/ StopReturns
    BY <2>11 DEF StopRightStopped, StopLeft, StopReturns
  <2>12. CASE UNCHANGED vars
    BY <2>12 DEF vars
  <2> QED
    BY <2>1, <2>2, <2>3, <2>4, <2>5, <2>6, <2>7, <2>8, <2>9, <2>10, <2>11, <2>12
    DEF Next, Running, LeftHandler, Stopping
<1> QED
  BY <1>1, <1>2, PTL DEF Spec

-----------------------------------------------------------------------------
LEMMA AcceptsKept ==
    ASSUME AcceptsGoOn, UNCHANGED <<accepts, accepted, failed, started, thrown>>
    PROVE  AcceptsGoOn'
BY DEF AcceptsGoOn, Pending

\* An accept that has been started by run() is waiting, queued or was lost to a
\* start() that threw: handle_accept starts the next whatever it was told.
THEOREM AcceptChains == Spec => []AcceptsGoOn
<1>1. Init => AcceptsGoOn
  BY DEF Init, AcceptsGoOn, Pending
<1>2. ASSUME TypeOK, AcceptsGoOn, [Next]_vars
      PROVE  AcceptsGoOn'
  <2> USE <1>2 DEF TypeOK, AcceptsGoOn, Pending
  <2>1. CASE run
    BY <2>1 DEF run
  <2>2. CASE OpenFails \/ JoinOld \/ Assign \/ ResetLeft \/ LeftRunReturns
    BY <2>2, AcceptsKept, Zenon
    DEF OpenFails, JoinOld, Assign, ResetLeft, LeftRunReturns, acceptorVars, countVars
  <2>3. CASE Opened
    BY <2>3 DEF Opened
  <2>4. CASE Connect \/ SessionEnds
    BY <2>4, AcceptsKept DEF Connect, SessionEnds, countVars
  <2>5. CASE AcceptCompletes \/ AcceptFails
    <3>1. CASE AcceptCompletes
      BY <3>1 DEF AcceptCompletes, countVars
    <3>2. CASE AcceptFails
      BY <3>2 DEF AcceptFails, countVars
    <3> QED
      BY <2>5, <3>1, <3>2, Zenon
  <2>6. CASE handle_accept_ok
    BY <2>6 DEF handle_accept_ok, countVars
  <2>7. CASE handle_accept_throws
    BY <2>7 DEF handle_accept_throws
  <2>8. CASE handle_accept_error
    BY <2>8 DEF handle_accept_error, countVars
  <2>9. ASSUME NEW t \in 1 .. MaxRuns, Worker(t)
        PROVE  AcceptsGoOn'
    BY <2>9, AcceptsKept, Zenon DEF Worker, ResetRight, RightRunReturns, acceptorVars, countVars
  <2>10. CASE stop \/ Stopping
    BY <2>10, AcceptsKept, Zenon
    DEF stop, Stopping, StopJoins, StopDetachThrows, StopRightStopped, StopLeft, StopReturns,
        acceptorVars, countVars
  <2>11. CASE UNCHANGED vars
    BY <2>11, AcceptsKept, Zenon DEF vars, acceptorVars, countVars
  <2> QED
    BY <2>1, <2>2, <2>3, <2>4, <2>5, <2>6, <2>7, <2>8, <2>9, <2>10, <2>11, Zenon
    DEF Next, Running, LeftHandler
<1> QED
  BY <1>1, <1>2, TypeCorrect, PTL DEF Spec

-----------------------------------------------------------------------------
\* Order speaks of the threads and of how often run() got so far.
LEMMA OrderKept ==
    ASSUME Order,
           UNCHANGED <<main, stopper, leftStopped, workers, thread_right, thrown, runs, started>>
    PROVE  Order'
BY Zenon DEF Order, Alive

\* What an orderly use keeps: the right thread belongs to the run() that is
\* going on, and this->thread_right names it until run() returns or stop() has
\* joined it.
THEOREM Invariance == Spec => []Orderly
<1>1. Init => Orderly
  BY DEF Init, Orderly, Order, Alive, Setup, Open
<1>2. ASSUME TypeOK, AcceptsGoOn, Orderly, [Next]_vars, orderly'
      PROVE  Order'
  <2>1. orderly
    BY <1>2, Zenon DEF Next, Running, LeftHandler, Stopping, Worker, run, OpenFails, Opened,
       JoinOld, Assign, ResetLeft, LeftRunReturns, Connect, AcceptCompletes, AcceptFails,
       handle_accept_ok, handle_accept_throws, handle_accept_error, SessionEnds, ResetRight,
       RightRunReturns, stop, StopJoins, StopDetachThrows, StopRightStopped, StopLeft,
       StopReturns, vars
  <2>2. Order
    BY <1>2, <2>1 DEF Orderly
  <2> USE <1>2, <2>2, ServerAssumption DEF Order, Alive, Setup, Open, TypeOK
  <2>3. CASE run
    <3>1. stopper = "out"
      BY <2>3, Zenon DEF run
    <3> QED
      BY <2>3, <3>1 DEF run, threadVars
  <2>4. CASE OpenFails
    BY <2>4 DEF OpenFails, threadVars, acceptorVars, countVars
  <2>5. CASE Opened
    BY <2>5 DEF Opened
  <2>6. CASE JoinOld
    BY <2>6 DEF JoinOld, acceptorVars, countVars
  <2>7. CASE Assign
    BY <2>7 DEF Assign, acceptorVars, countVars
  <2>8. CASE ResetLeft
    BY <2>8 DEF ResetLeft, threadVars, acceptorVars, countVars
  <2>9. CASE LeftRunReturns
    <3>1. Pending + sessions # 0
      BY <2>9 DEF LeftRunReturns, AcceptsGoOn, Pending
    <3>2. leftStopped
      BY <2>9, <3>1, Zenon DEF LeftRunReturns
    <3> QED
      BY <2>9, <3>2 DEF LeftRunReturns, threadVars, acceptorVars, countVars
  <2>10. CASE Connect \/ SessionEnds
    BY <2>10, OrderKept DEF Connect, SessionEnds, threadVars, countVars
  <2>11. CASE AcceptCompletes \/ AcceptFails
    BY <2>11, OrderKept DEF AcceptCompletes, AcceptFails, threadVars, countVars
  <2>12. CASE handle_accept_ok \/ handle_accept_error
    BY <2>12, OrderKept DEF handle_accept_ok, handle_accept_error, threadVars, countVars
  <2>13. CASE handle_accept_throws
    BY <2>13, Zenon DEF handle_accept_throws
  <2>14. ASSUME NEW t \in 1 .. MaxRuns, Worker(t)
         PROVE  Order'
    <3>1. \A u \in 1 .. MaxRuns : Alive(u)' => Alive(u)
      BY <2>14 DEF Worker, ResetRight, RightRunReturns
    <3>2. UNCHANGED <<main, stopper, leftStopped, thread_right, thrown, runs, started>>
      BY <2>14 DEF Worker, ResetRight, RightRunReturns, countVars
    <3> QED
      BY <3>1, <3>2
  <2>15. CASE stop
    <3>1. main \in {"out", "looping"}
      BY <2>15, Zenon DEF stop, Settled
    <3> QED
      BY <2>15, <3>1 DEF stop, threadVars, acceptorVars
  <2>16. CASE StopJoins
    BY <2>16 DEF StopJoins, acceptorVars, countVars
  <2>17. CASE StopDetachThrows \/ StopRightStopped \/ StopLeft \/ StopReturns
    BY <2>17 DEF StopDetachThrows, StopRightStopped, StopLeft, StopReturns, threadVars,
                 acceptorVars, countVars
  <2>18. CASE UNCHANGED vars
    BY <2>18 DEF vars, threadVars, acceptorVars, countVars
  <2> QED
    BY <2>3, <2>4, <2>5, <2>6, <2>7, <2>8, <2>9, <2>10, <2>11, <2>12, <2>13, <2>14, <2>15,
       <2>16, <2>17, <2>18 DEF Next, Running, LeftHandler, Stopping
<1>3. TypeOK /\ AcceptsGoOn /\ Orderly /\ [Next]_vars => Orderly'
  BY <1>2 DEF Orderly
<1> QED
  BY <1>1, <1>3, TypeCorrect, AcceptChains, PTL DEF Spec

\* The handlers of the right side never run on two threads, however often the
\* server is run and stopped: run() has joined, or stop() had, the thread of the
\* run before.
THEOREM OneWorker == Spec => []OneRightThread
<1>1. Orderly => OneRightThread
  BY DEF Orderly, Order, OneRightThread
<1> QED
  BY <1>1, Invariance, PTL

\* When run() has returned nothing runs any more that uses the io_services.
THEOREM NobodyLeft == Spec => []NoThreadLeftBehind
<1>1. Orderly => NoThreadLeftBehind
  BY DEF Orderly, Order, NoThreadLeftBehind, Open
<1> QED
  BY <1>1, Invariance, PTL

-----------------------------------------------------------------------------
(* stop() and run() end, and clients are served.  The stages of stop() are  *)
(* followed one by one: in each something that is fair can take its step,   *)
(* and nothing but the step to the next stage ends it in an orderly use.    *)

\* What an orderly use keeps about stop(): it has found the loop of the right
\* thread entered, so that its io_service stays stopped.
Stages ==
    /\ stopper # "out" => main \in {"out", "looping"}
    /\ stopper = "joining" /\ thread_right # 0 =>
           rightStopped /\ workers[thread_right] \in {"running", "ended"}
    /\ stopper = "right_stopping" => rightStopped
    /\ stopper = "left_stopping" => leftStopped

OrderlyStages == orderly => Stages

LEMMA StagesKept ==
    ASSUME Stages, UNCHANGED <<main, stopper, leftStopped, rightStopped, workers, thread_right>>
    PROVE  Stages'
BY Zenon DEF Stages

\* orderly, once lost, is lost for good.
LEMMA OrderlyBefore == ASSUME [Next]_vars, orderly' PROVE orderly
  BY Zenon DEF Next, Running, LeftHandler, Stopping, Worker, run, OpenFails, Opened,
     JoinOld, Assign, ResetLeft, LeftRunReturns, Connect, AcceptCompletes, AcceptFails,
     handle_accept_ok, handle_accept_throws, handle_accept_error, SessionEnds, ResetRight,
     RightRunReturns, stop, StopJoins, StopDetachThrows, StopRightStopped, StopLeft,
     StopReturns, vars

LEMMA StagesNext ==
    ASSUME TypeOK, Orderly, OrderlyStages, [Next]_vars, orderly'
    PROVE  Stages'
<1>1. orderly /\ Order /\ Stages
  BY OrderlyBefore DEF Orderly, OrderlyStages
<1> USE <1>1 DEF Stages
<1>2. CASE run
  BY <1>2 DEF run
<1>3. CASE OpenFails \/ Opened \/ JoinOld \/ Assign \/ ResetLeft
  <2>1. stopper = "out" /\ stopper' = "out"
    BY <1>3 DEF OpenFails, Opened, JoinOld, Assign, ResetLeft, Order, Setup
  <2> QED
    BY <2>1
<1>4. CASE LeftRunReturns
  BY <1>4 DEF LeftRunReturns, threadVars
<1>5. CASE Connect \/ AcceptCompletes \/ AcceptFails \/ LeftHandler \/ SessionEnds
  BY <1>5, StagesKept, Zenon
  DEF Connect, AcceptCompletes, AcceptFails, LeftHandler, handle_accept_ok,
      handle_accept_throws, handle_accept_error, SessionEnds, threadVars
<1>6. ASSUME NEW t \in 1 .. MaxRuns, ResetRight(t) PROVE Stages'
  <2>1. Alive(t)
    BY <1>6 DEF ResetRight, Alive
  <2>2. t = runs /\ main \in Open
    BY <2>1 DEF Order
  <2>3. CASE thread_right = 0
    <3>1. main # "looping"
      BY <2>1, <2>3 DEF Order
    <3>2. stopper = "out"
      BY <2>2, <3>1 DEF Open
    <3> QED
      BY <1>6, <3>2 DEF ResetRight
  <2>4. CASE thread_right # 0
    <3>1. workers[thread_right] = "started"
      BY <1>6, <2>2, <2>4 DEF ResetRight, Order
    <3>2. stopper # "joining" /\ stopper # "right_stopping"
      BY <2>4, <3>1 DEF Order
    <3> QED
      BY <1>6, <3>2 DEF ResetRight
  <2> QED
    BY <2>3, <2>4
<1>7. ASSUME NEW t \in 1 .. MaxRuns, RightRunReturns(t) PROVE Stages'
  BY <1>7 DEF RightRunReturns, TypeOK
<1>8. CASE stop
  <2>1. main \in {"out", "looping"} /\ (main = "out" => thread_right = 0)
    BY <1>8 DEF stop, Settled, Order
  <2> QED
    BY <1>8, <2>1 DEF stop, Settled, threadVars
<1>9. CASE Stopping
  BY <1>9 DEF Stopping, StopJoins, StopDetachThrows, StopRightStopped, StopLeft, StopReturns,
              threadVars, Order
<1>10. CASE UNCHANGED vars
  BY <1>10, StagesKept, Zenon DEF vars, threadVars
<1> QED
  BY <1>2, <1>3, <1>4, <1>5, <1>6, <1>7, <1>8, <1>9, <1>10 DEF Next, Running, Worker

LEMMA StagesInvariant == Spec => []OrderlyStages
<1>1. Init => OrderlyStages
  BY DEF Init, OrderlyStages, Stages
<1>2. TypeOK /\ Orderly /\ OrderlyStages /\ [Next]_vars => OrderlyStages'
  BY StagesNext DEF OrderlyStages
<1> QED
  BY <1>1, <1>2, TypeCorrect, Invariance, PTL DEF Spec

Safe == TypeOK /\ AcceptsGoOn /\ Orderly /\ OrderlyStages

LEMMA SafeAlways == Spec => []Safe
  BY TypeCorrect, AcceptChains, Invariance, StagesInvariant, PTL DEF Safe

\* The stages of a stop() in an orderly use, in their order.
JoinWaits  == orderly /\ stopper = "joining" /\ thread_right # 0 /\ workers[thread_right] = "running"
JoinReady  == orderly /\ stopper = "joining" /\ (thread_right # 0 => workers[thread_right] = "ended")
RightWaits == orderly /\ stopper = "right_stopping"
LeftIsNext == orderly /\ stopper = "right_stopped"
LeftWaits  == orderly /\ stopper = "left_stopping"

StopRunning  == orderly /\ stopper # "out"
StopReturned == stopper = "out" \/ ~ orderly
Disorderly   == ~ orderly

AnyWorker == \E t \in 1 .. MaxRuns : Worker(t)

\* While stop() is busy in an orderly use a step is one of stop(), one of the
\* right thread, or leaves alone what stop() looks at.
LEMMA StopSteps ==
    ASSUME Safe, StopRunning, [Next]_vars, orderly'
    PROVE  \/ Stopping
           \/ AnyWorker /\ UNCHANGED <<stopper, thread_right>>
           \/ UNCHANGED <<stopper, thread_right, workers>>
<1> USE DEF StopRunning
<1>1. main \in {"out", "looping"}
  BY DEF Safe, OrderlyStages, Stages
<1>2. CASE run
  BY <1>2 DEF run
<1>3. CASE Running
  BY <1>1, <1>3 DEF Running, OpenFails, Opened, JoinOld, Assign, ResetLeft, LeftRunReturns,
                    threadVars
<1>4. CASE Connect \/ AcceptCompletes \/ AcceptFails \/ LeftHandler \/ SessionEnds
  BY <1>4, Zenon
  DEF Connect, AcceptCompletes, AcceptFails, LeftHandler, handle_accept_ok,
      handle_accept_throws, handle_accept_error, SessionEnds, threadVars
<1>5. CASE AnyWorker
  BY <1>5, Zenon DEF AnyWorker, Worker, ResetRight, RightRunReturns
<1>6. CASE stop
  BY <1>6 DEF stop
<1>7. CASE UNCHANGED vars
  BY <1>7, Zenon DEF vars, threadVars
<1> QED
  BY <1>2, <1>3, <1>4, <1>5, <1>6, <1>7, Zenon DEF Next, AnyWorker

\* The thread that is joined is the only one there is, and its step ends it.
LEMMA JoinedThreadEnds ==
    ASSUME Safe, JoinWaits, AnyWorker, orderly'
    PROVE  JoinReady'
<1>1. PICK t \in 1 .. MaxRuns : Worker(t)
  BY DEF AnyWorker
<1>2. Alive(t)
  BY <1>1 DEF Worker, ResetRight, RightRunReturns, Alive
<1>3. t = thread_right
  BY <1>2 DEF Safe, Orderly, Order, JoinWaits
<1> QED
  BY <1>1, <1>3 DEF JoinWaits, JoinReady, Worker, ResetRight, RightRunReturns, Safe, TypeOK

\* An orderly stop() gets to where it waits for the left io_service: the right
\* thread leaves its loop and is joined, or there is none and detach() throws.
LEMMA StopReachesLeft == FairSpec => (StopRunning ~> LeftWaits \/ Disorderly)
<1> USE DEF Safe
<1>1. Safe /\ JoinWaits /\ [Next]_vars => JoinWaits' \/ JoinReady' \/ Disorderly'
  <2> SUFFICES ASSUME Safe, JoinWaits, [Next]_vars, orderly' PROVE JoinWaits' \/ JoinReady'
    BY DEF Disorderly
  <2>1. StopRunning
    BY DEF JoinWaits, StopRunning
  <2>2. ~ Stopping
    BY DEF JoinWaits, Stopping, StopJoins, StopDetachThrows, StopRightStopped, StopLeft, StopReturns
  <2>3. CASE AnyWorker
    BY <2>3, JoinedThreadEnds
  <2> QED
    BY <2>1, <2>2, <2>3, StopSteps DEF JoinWaits
<1>2. Safe /\ JoinWaits => CanWork
  <2> SUFFICES ASSUME Safe, JoinWaits PROVE CanWork
    OBVIOUS
  <2>1. thread_right \in 1 .. MaxRuns
    BY ServerAssumption DEF JoinWaits, TypeOK
  <2>2. rightStopped
    BY Zenon DEF JoinWaits, OrderlyStages, Stages
  <2> QED
    BY <2>1, <2>2, Zenon DEF JoinWaits, CanWork
<1>3. Safe /\ JoinWaits /\ <<\E t \in 1 .. MaxRuns : Worker(t)>>_vars => JoinReady' \/ Disorderly'
  BY JoinedThreadEnds DEF AnyWorker, Disorderly
<1>4. Safe /\ JoinReady /\ [Next]_vars => JoinReady' \/ RightWaits' \/ LeftIsNext' \/ Disorderly'
  <2> SUFFICES ASSUME Safe, JoinReady, [Next]_vars, orderly'
               PROVE  JoinReady' \/ RightWaits' \/ LeftIsNext'
    BY DEF Disorderly
  <2>1. StopRunning
    BY DEF JoinReady, StopRunning
  <2>2. CASE Stopping
    BY <2>2 DEF JoinReady, RightWaits, LeftIsNext, Stopping, StopJoins, StopDetachThrows,
                StopRightStopped, StopLeft, StopReturns
  <2>3. ASSUME AnyWorker, UNCHANGED <<stopper, thread_right>> PROVE JoinReady'
    <3>1. PICK t \in 1 .. MaxRuns : Worker(t)
      BY <2>3 DEF AnyWorker
    <3>2. thread_right # 0 => t # thread_right
      BY <3>1 DEF JoinReady, Worker, ResetRight, RightRunReturns
    <3>3. thread_right # 0 => workers'[thread_right] = workers[thread_right]
      <4>1. PICK place : workers' = [workers EXCEPT ![t] = place]
        BY <3>1, Zenon DEF Worker, ResetRight, RightRunReturns
      <4> QED
        BY <3>2, <4>1, ServerAssumption DEF TypeOK
    <3> QED
      BY <2>3, <3>3, Zenon DEF JoinReady
  <2> QED
    BY <2>1, <2>2, <2>3, StopSteps DEF JoinReady
<1>5. JoinReady => CanStop
  BY DEF JoinReady, CanStop
<1>6. JoinReady /\ <<Stopping>>_vars => RightWaits' \/ LeftIsNext' \/ Disorderly'
  BY DEF JoinReady, RightWaits, LeftIsNext, Disorderly, Stopping, StopJoins, StopDetachThrows,
         StopRightStopped, StopLeft, StopReturns
<1>7. Safe /\ RightWaits /\ [Next]_vars => RightWaits' \/ LeftIsNext' \/ Disorderly'
  <2>1. RightWaits => StopRunning
    BY DEF RightWaits, StopRunning
  <2> QED
    BY <2>1, StopSteps
    DEF RightWaits, LeftIsNext, Disorderly, Stopping, StopJoins, StopDetachThrows,
        StopRightStopped, StopLeft, StopReturns
<1>8. Safe /\ RightWaits => CanStop
  BY DEF RightWaits, CanStop, OrderlyStages, Stages
<1>9. RightWaits /\ <<Stopping>>_vars => LeftIsNext' \/ Disorderly'
  BY DEF RightWaits, LeftIsNext, Disorderly, Stopping, StopJoins, StopDetachThrows,
         StopRightStopped, StopLeft, StopReturns
<1>10. Safe /\ LeftIsNext /\ [Next]_vars => LeftIsNext' \/ LeftWaits' \/ Disorderly'
  <2>1. LeftIsNext => StopRunning
    BY DEF LeftIsNext, StopRunning
  <2> QED
    BY <2>1, StopSteps
    DEF LeftIsNext, LeftWaits, Disorderly, Stopping, StopJoins, StopDetachThrows,
        StopRightStopped, StopLeft, StopReturns
<1>11. LeftIsNext => CanStop
  BY DEF LeftIsNext, CanStop
<1>12. LeftIsNext /\ <<Stopping>>_vars => LeftWaits' \/ Disorderly'
  BY DEF LeftIsNext, LeftWaits, Disorderly, Stopping, StopJoins, StopDetachThrows,
         StopRightStopped, StopLeft, StopReturns
<1>13. Safe /\ StopRunning => JoinWaits \/ JoinReady \/ RightWaits \/ LeftIsNext \/ LeftWaits
  BY DEF StopRunning, JoinWaits, JoinReady, RightWaits, LeftIsNext, LeftWaits, TypeOK,
         OrderlyStages, Stages
<1> QED
  <2>1. Spec => []Safe
    BY SafeAlways
  <2>2. FairSpec => (JoinWaits ~> JoinReady \/ Disorderly)
    BY <1>1, <1>2, <1>3, <2>1, PTL DEF FairSpec, Spec, WorkerFairness
  <2>3. FairSpec => (JoinReady ~> RightWaits \/ LeftIsNext \/ Disorderly)
    BY <1>4, <1>5, <1>6, <2>1, PTL DEF FairSpec, Spec, StopFairness
  <2>4. FairSpec => (RightWaits ~> LeftIsNext \/ Disorderly)
    BY <1>7, <1>8, <1>9, <2>1, PTL DEF FairSpec, Spec, StopFairness
  <2>5. FairSpec => (LeftIsNext ~> LeftWaits \/ Disorderly)
    BY <1>10, <1>11, <1>12, <2>1, PTL DEF FairSpec, Spec, StopFairness
  <2> QED
    BY <1>13, <2>1, <2>2, <2>3, <2>4, <2>5, PTL DEF FairSpec

\* In an orderly use stop() returns: it gets to the left io_service, which it
\* has just stopped and which nobody resets meanwhile.
THEOREM StopReturnsAtLast == FairSpec => StopEnds
<1> USE DEF Safe
<1>1. Safe /\ LeftWaits /\ [Next]_vars => LeftWaits' \/ StopReturned'
  <2>1. LeftWaits => StopRunning
    BY DEF LeftWaits, StopRunning
  <2> QED
    BY <2>1, StopSteps
    DEF LeftWaits, StopReturned, Stopping, StopJoins, StopDetachThrows,
        StopRightStopped, StopLeft, StopReturns
<1>2. Safe /\ LeftWaits => CanStop
  BY DEF LeftWaits, CanStop, OrderlyStages, Stages
<1>3. LeftWaits /\ <<Stopping>>_vars => StopReturned'
  BY DEF LeftWaits, StopReturned, Stopping, StopJoins, StopDetachThrows,
         StopRightStopped, StopLeft, StopReturns
<1>4. FairSpec => (LeftWaits ~> StopReturned)
  BY <1>1, <1>2, <1>3, SafeAlways, PTL DEF FairSpec, Spec, StopFairness
<1>5. Disorderly => StopReturned
  BY DEF Disorderly, StopReturned
<1>6. FairSpec => (StopRunning ~> StopReturned)
  BY <1>4, <1>5, StopReachesLeft, PTL
<1> QED
  BY <1>6 DEF StopEnds, StopRunning, StopReturned

RunGoesOn == orderly /\ main = "looping" /\ leftStopped
RunBusy   == orderly /\ stopper # "out" /\ main = "looping"
RunOver   == main = "out" \/ ~ orderly

\* ... and run() returns: its io_service stays stopped until its loop has seen it.
THEOREM RunReturnsAtLast == FairSpec => RunEnds
<1>1. RunGoesOn /\ [Next]_vars => RunGoesOn' \/ RunOver'
  <2> SUFFICES ASSUME RunGoesOn, [Next]_vars, orderly'
               PROVE  RunGoesOn' \/ main' = "out"
    BY DEF RunOver
  <2> USE DEF RunGoesOn
  <2>1. CASE run \/ Running
    BY <2>1 DEF run, Running, OpenFails, Opened, JoinOld, Assign, ResetLeft, LeftRunReturns
  <2>2. CASE Connect \/ AcceptCompletes \/ AcceptFails \/ LeftHandler \/ SessionEnds
    BY <2>2, Zenon
    DEF Connect, AcceptCompletes, AcceptFails, LeftHandler, handle_accept_ok,
        handle_accept_throws, handle_accept_error, SessionEnds
  <2>3. CASE AnyWorker
    BY <2>3, Zenon DEF AnyWorker, Worker, ResetRight, RightRunReturns
  <2>4. CASE stop \/ Stopping
    BY <2>4 DEF stop, Stopping, StopJoins, StopDetachThrows, StopRightStopped, StopLeft,
                StopReturns
  <2>5. CASE UNCHANGED vars
    BY <2>5, Zenon DEF vars
  <2> QED
    BY <2>1, <2>2, <2>3, <2>4, <2>5, Zenon DEF Next, AnyWorker
<1>2. RunGoesOn => CanRun
  BY Zenon DEF RunGoesOn, CanRun
<1>3. RunGoesOn /\ <<Running>>_vars => RunOver'
  BY DEF RunGoesOn, RunOver, Running, OpenFails, Opened, JoinOld, Assign, ResetLeft,
         LeftRunReturns
<1>4. FairSpec => (RunGoesOn ~> RunOver)
  BY <1>1, <1>2, <1>3, PTL DEF FairSpec, Spec, RunFairness
<1>5. Safe /\ LeftWaits => RunGoesOn \/ RunOver
  BY DEF Safe, LeftWaits, RunGoesOn, RunOver, OrderlyStages, Stages
<1>6. Disorderly => RunOver
  BY DEF Disorderly, RunOver
<1>7. RunBusy => StopRunning
  BY DEF RunBusy, StopRunning
<1>8. FairSpec => (RunBusy ~> RunOver)
  BY <1>4, <1>5, <1>6, <1>7, SafeAlways, StopReachesLeft, PTL DEF FairSpec
<1> QED
  BY <1>8 DEF RunEnds, RunBusy, RunOver

-----------------------------------------------------------------------------
\* run() has called start_accept() before its loop is entered.
Begun == main \in Open => started > 0

LEMMA BegunAlways == Spec => []Begun
<1>1. Init => Begun
  BY DEF Init, Begun, Open
<1>2. TypeOK /\ Begun /\ [Next]_vars => Begun'
  <2> SUFFICES ASSUME TypeOK, Begun, [Next]_vars PROVE Begun'
    OBVIOUS
  <2> USE DEF Begun, Open
  <2>1. CASE run \/ OpenFails \/ JoinOld \/ Assign \/ ResetLeft \/ LeftRunReturns
    BY <2>1 DEF run, OpenFails, JoinOld, Assign, ResetLeft, LeftRunReturns, countVars
  <2>2. CASE Opened
    BY <2>2 DEF Opened, TypeOK
  <2>3. CASE Connect \/ AcceptCompletes \/ AcceptFails \/ LeftHandler \/ SessionEnds
    BY <2>3
    DEF Connect, AcceptCompletes, AcceptFails, LeftHandler, handle_accept_ok,
        handle_accept_throws, handle_accept_error, SessionEnds, countVars
  <2>4. CASE AnyWorker
    BY <2>4 DEF AnyWorker, Worker, ResetRight, RightRunReturns, countVars
  <2>5. CASE stop \/ Stopping
    BY <2>5 DEF stop, Stopping, StopJoins, StopDetachThrows, StopRightStopped, StopLeft,
                StopReturns, countVars
  <2>6. CASE UNCHANGED vars
    BY <2>6 DEF vars, countVars
  <2> QED
    BY <2>1, <2>2, <2>3, <2>4, <2>5, <2>6, Zenon DEF Next, Running, AnyWorker
<1> QED
  BY <1>1, <1>2, TypeCorrect, PTL DEF Spec

\* A client waits, and whether an accept waits with it.
Waits   == Looping /\ backlog > 0 /\ accepted = 0 /\ thrown = 0
Queued  == Waits /\ accepts = 0
Served  == accepted > 0 \/ ~ Looping \/ thrown > 0
Calling == Looping /\ backlog > 0

LEMMA WaitsKept ==
    ASSUME TypeOK, Waits, UNCHANGED <<accepts, backlog, accepted, thrown>>
    PROVE  Waits' \/ Served'
BY DEF Waits, Served

\* While a client waits an accept does, or there is an error to be handled, after
\* which one does; and accept() does not fail for ever.
THEOREM ClientsAccepted == FairSpec => ClientsServed
<1>1. TypeOK /\ Waits /\ [Next]_vars => Waits' \/ Served'
  <2> SUFFICES ASSUME TypeOK, Waits, [Next]_vars, Looping' PROVE Waits' \/ Served'
    BY DEF Served
  <2> USE DEF TypeOK
  <2>1. CASE run \/ Opened
    BY <2>1 DEF run, Opened, Waits, Looping
  <2>2. CASE OpenFails \/ JoinOld \/ Assign \/ ResetLeft \/ LeftRunReturns
    BY <2>2, WaitsKept, Zenon
    DEF OpenFails, JoinOld, Assign, ResetLeft, LeftRunReturns, acceptorVars, countVars
  <2>3. CASE Connect \/ AcceptCompletes \/ AcceptFails \/ SessionEnds
    BY <2>3 DEF Connect, AcceptCompletes, AcceptFails, SessionEnds, Waits, Served, countVars
  <2>4. CASE LeftHandler
    BY <2>4 DEF LeftHandler, handle_accept_ok, handle_accept_throws, handle_accept_error,
                Waits, Served, countVars
  <2>5. CASE AnyWorker
    BY <2>5, WaitsKept, Zenon
    DEF AnyWorker, Worker, ResetRight, RightRunReturns, acceptorVars, countVars
  <2>6. CASE stop
    BY <2>6, WaitsKept, Zenon DEF stop, acceptorVars
  <2>7. CASE Stopping
    BY <2>7, WaitsKept, Zenon
    DEF Stopping, StopJoins, StopDetachThrows, StopRightStopped, StopLeft, StopReturns,
        acceptorVars, countVars
  <2>8. CASE UNCHANGED vars
    BY <2>8, WaitsKept, Zenon DEF vars, acceptorVars, countVars
  <2> QED
    BY <2>1, <2>2, <2>3, <2>4, <2>5, <2>6, <2>7, <2>8, Zenon DEF Next, Running, AnyWorker
<1>2. TypeOK /\ AcceptsGoOn /\ Begun /\ Queued => CanHandle
  BY DEF TypeOK, AcceptsGoOn, Pending, Begun, Open, Queued, Waits, Looping, CanHandle
<1>3. TypeOK /\ Waits => CanAccept \/ Queued
  BY DEF TypeOK, Waits, CanAccept, Queued
<1>4. TypeOK /\ Queued /\ <<LeftHandler>>_vars => ~ Queued'
  BY DEF TypeOK, Queued, Waits, LeftHandler, handle_accept_ok, handle_accept_throws,
         handle_accept_error
<1>5. TypeOK /\ <<AcceptCompletes>>_vars => Served'
  BY DEF TypeOK, AcceptCompletes, Served
<1>6. TypeOK /\ Calling => Waits \/ Served
  BY DEF TypeOK, Calling, Waits, Served
<1>7. Queued => Waits
  BY DEF Queued
<1>8. FairSpec => (Calling ~> Served)
  BY <1>1, <1>2, <1>3, <1>4, <1>5, <1>6, <1>7, TypeCorrect, AcceptChains, BegunAlways, PTL
  DEF FairSpec, Spec, HandlerFairness, AcceptFairness
<1> QED
  BY <1>8 DEF ClientsServed, Calling, Served
=============================================================================
