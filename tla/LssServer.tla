------------------------------ MODULE LssServer ------------------------------
(***************************************************************************)
(* lss_server<SESSION> (lss/lss_server.h): the acceptor, the io_service of *)
(* the left side, which the thread in run() executes, and the io_service   *)
(* of the right side, which a thread of its own executes.  The class is    *)
(* made to be reused ("复用"): run() may be called again after stop().     *)
(*                                                                         *)
(* Two threads use it: one calls run(), which returns when the server has  *)
(* ended, and one calls stop().  Sessions are what handle_accept makes of  *)
(* a client; all that matters of them here is whether there are any.       *)
(***************************************************************************)
EXTENDS Integers, FiniteSets

CONSTANTS MaxRuns,    \* how often run() is called, at most
          MaxStops,   \* how often stop() is called, at most
          MaxClients  \* clients that wait or are served at a time, at most

ASSUME ServerAssumption ==
    MaxRuns \in Nat /\ MaxStops \in Nat /\ MaxClients \in Nat

VARIABLES
    main,         \* where the thread of run() is; "out": not in run()
    stopper,      \* where the thread of stop() is; "out": not in stop()
    leftStopped,  \* io_service_left().stopped()
    rightStopped, \* io_service_right().stopped()
    workers,      \* the threads that were made for io_service_right, by run()
    thread_right, \* the one this->thread_right holds, 0 if it is not joinable
    backlog,      \* clients that have connected and are not accepted
    accepts,      \* async_accepts that wait
    accepted,     \* handle_accepts that are queued, with a client ...
    failed,       \* ... or with an error
    sessions,     \* sessions that are alive
    runs, stops,  \* run() and stop() were called so often
    started,      \* start_accept() was called by run() so often
    thrown,       \* start() of a session threw so often
    orderly       \* see Settled

acceptorVars == <<backlog, accepts, accepted, failed, sessions>>
threadVars   == <<workers, thread_right>>
countVars    == <<runs, stops, started, thrown>>
vars == <<main, stopper, leftStopped, rightStopped, threadVars, acceptorVars, countVars, orderly>>

\* The async_accepts that have been started and whose handler has not returned.
Pending == accepts + accepted + failed

Alive(t) == workers[t] \in {"started", "running"}

\* stop() relies on the loops of both io_services, if there are any, having been
\* entered: what is stopped before its reset() is not stopped.
Settled ==
    \/ main = "out"
    \/ main = "looping" /\ (thread_right # 0 => workers[thread_right] = "running")

-----------------------------------------------------------------------------
\* The constructor stops both io_services.
Init ==
    /\ main = "out" /\ stopper = "out"
    /\ leftStopped = TRUE /\ rightStopped = TRUE
    /\ workers = [t \in 1 .. MaxRuns |-> "none"] /\ thread_right = 0
    /\ backlog = 0 /\ accepts = 0 /\ accepted = 0 /\ failed = 0 /\ sessions = 0
    /\ runs = 0 /\ stops = 0 /\ started = 0 /\ thrown = 0
    /\ orderly = TRUE

\* run() begins by closing the acceptor: what waited fails, and so do the clients.
run ==
    /\ main = "out"
    /\ runs < MaxRuns
    /\ runs' = runs + 1
    /\ failed' = failed + accepts
    /\ accepts' = 0
    /\ backlog' = 0
    /\ orderly' = (orderly /\ stopper = "out")
    /\ main' = "opening"
    /\ UNCHANGED <<stopper, leftStopped, rightStopped, threadVars, accepted, sessions, stops,
                   started, thrown>>

\* The address is invalid or in use: the exception is logged and run() returns.
OpenFails ==
    /\ main = "opening"
    /\ main' = "out"
    /\ UNCHANGED <<stopper, leftStopped, rightStopped, threadVars, acceptorVars, countVars, orderly>>

\* The acceptor listens; start_accept(); a new thread for the right side.
Opened ==
    /\ main = "opening"
    /\ accepts' = accepts + 1
    /\ started' = started + 1
    /\ workers' = [workers EXCEPT ![runs] = "started"]
    /\ main' = "joining"
    /\ UNCHANGED <<stopper, leftStopped, rightStopped, thread_right, backlog, accepted, failed,
                   sessions, runs, stops, thrown, orderly>>

\* The thread of an earlier run() is joined; if there is none, detach() throws
\* and the exception is caught.
JoinOld ==
    /\ main = "joining"
    /\ thread_right # 0 => workers[thread_right] = "ended"
    /\ thread_right' = 0
    /\ main' = "assigning"
    /\ UNCHANGED <<stopper, leftStopped, rightStopped, workers, acceptorVars, countVars, orderly>>

Assign ==
    /\ main = "assigning"
    /\ thread_right' = runs
    /\ main' = "resetting"
    /\ UNCHANGED <<stopper, leftStopped, rightStopped, workers, acceptorVars, countVars, orderly>>

ResetLeft ==
    /\ main = "resetting"
    /\ leftStopped' = FALSE
    /\ main' = "looping"
    /\ UNCHANGED <<stopper, rightStopped, threadVars, acceptorVars, countVars, orderly>>

\* io_service_left().run() returns: it was stopped, or there is nothing to do.
\* When it runs out of work an io_service stops itself.
LeftRunReturns ==
    /\ main = "looping"
    /\ leftStopped \/ Pending + sessions = 0
    /\ leftStopped' = TRUE
    /\ main' = "out"
    /\ UNCHANGED <<stopper, rightStopped, threadVars, acceptorVars, countVars, orderly>>

-----------------------------------------------------------------------------
(* Handlers on the left side, and the clients.                             *)

Looping == main = "looping" /\ ~ leftStopped

\* A client that connects after run() has returned waits for nothing: the next
\* run() closes the acceptor.  Those are left out.
Connect ==
    /\ main \notin {"out", "opening"}
    /\ backlog + accepted + sessions < MaxClients
    /\ backlog' = backlog + 1
    /\ UNCHANGED <<main, stopper, leftStopped, rightStopped, threadVars, accepts, accepted, failed,
                   sessions, countVars, orderly>>

AcceptCompletes ==
    /\ Looping
    /\ accepts > 0
    /\ backlog > 0
    /\ accepts' = accepts - 1
    /\ backlog' = backlog - 1
    /\ accepted' = accepted + 1
    /\ UNCHANGED <<main, stopper, leftStopped, rightStopped, threadVars, failed, sessions,
                   countVars, orderly>>

\* accept() fails: there are too many open files.
AcceptFails ==
    /\ Looping
    /\ accepts > 0
    /\ backlog > 0
    /\ accepts' = accepts - 1
    /\ failed' = failed + 1
    /\ UNCHANGED <<main, stopper, leftStopped, rightStopped, threadVars, backlog, accepted,
                   sessions, countVars, orderly>>

\* Mutant of handle_accept_ok: the next accept is left to the session.
Muthandle_accept_ok ==
    /\ Looping
    /\ accepted > 0
    /\ accepted' = accepted - 1
    /\ sessions' = sessions + 1
    /\ UNCHANGED <<main, stopper, leftStopped, rightStopped, threadVars, accepts, backlog, failed,
                   countVars, orderly>>

\* start(), then start_accept().  start() leaves nothing behind when the client
\* is already gone.
handle_accept_ok ==
    /\ Looping
    /\ accepted > 0
    /\ accepted' = accepted - 1
    /\ accepts' = accepts + 1
    /\ sessions' \in {sessions, sessions + 1}
    /\ UNCHANGED <<main, stopper, leftStopped, rightStopped, threadVars, backlog, failed,
                   countVars, orderly>>

\* start() throws (no memory, no thread for the resolver): the loop in run()
\* catches the exception, and start_accept() is not reached.
handle_accept_throws ==
    /\ Looping
    /\ accepted > 0
    /\ accepted' = accepted - 1
    /\ thrown' = thrown + 1
    /\ orderly' = FALSE
    /\ UNCHANGED <<main, stopper, leftStopped, rightStopped, threadVars, accepts, backlog, failed,
                   sessions, runs, stops, started>>

\* Mutant of handle_accept_error: the error ends the accepting.
Muthandle_accept_error ==
    /\ Looping
    /\ failed > 0
    /\ failed' = failed - 1
    /\ UNCHANGED <<main, stopper, leftStopped, rightStopped, threadVars, accepts, backlog, accepted,
                   sessions, countVars, orderly>>

\* close(), then start_accept().
handle_accept_error ==
    /\ Looping
    /\ failed > 0
    /\ failed' = failed - 1
    /\ accepts' = accepts + 1
    /\ UNCHANGED <<main, stopper, leftStopped, rightStopped, threadVars, backlog, accepted,
                   sessions, countVars, orderly>>

\* Mutant of SessionEnds: a session that is gone ends once more.
MutSessionEnds ==
    /\ Looping
    /\ sessions' = sessions - 1
    /\ UNCHANGED <<main, stopper, leftStopped, rightStopped, threadVars, backlog, accepts, accepted,
                   failed, countVars, orderly>>

\* The last handler that holds the session returns.
SessionEnds ==
    /\ Looping
    /\ sessions > 0
    /\ sessions' = sessions - 1
    /\ UNCHANGED <<main, stopper, leftStopped, rightStopped, threadVars, backlog, accepts, accepted,
                   failed, countVars, orderly>>

-----------------------------------------------------------------------------
(* handle_thread_right: its work object keeps run() from returning unless  *)
(* the io_service is stopped.                                              *)

ResetRight(t) ==
    /\ workers[t] = "started"
    /\ rightStopped' = FALSE
    /\ workers' = [workers EXCEPT ![t] = "running"]
    /\ UNCHANGED <<main, stopper, leftStopped, thread_right, acceptorVars, countVars, orderly>>

RightRunReturns(t) ==
    /\ workers[t] = "running"
    /\ rightStopped
    /\ workers' = [workers EXCEPT ![t] = "ended"]
    /\ UNCHANGED <<main, stopper, leftStopped, rightStopped, thread_right, acceptorVars, countVars,
                   orderly>>

-----------------------------------------------------------------------------
(* stop().                                                                 *)

\* Mutant of stop: the right io_service is not told.
Mutstop ==
    /\ stopper = "out"
    /\ stops < MaxStops
    /\ stops' = stops + 1
    /\ orderly' = (orderly /\ Settled)
    /\ stopper' = "joining"
    /\ UNCHANGED <<main, leftStopped, rightStopped, threadVars, acceptorVars, runs, started, thrown>>

stop ==
    /\ stopper = "out"
    /\ stops < MaxStops
    /\ stops' = stops + 1
    /\ rightStopped' = TRUE
    /\ orderly' = (orderly /\ Settled)
    /\ stopper' = "joining"
    /\ UNCHANGED <<main, leftStopped, threadVars, acceptorVars, runs, started, thrown>>

\* Mutant of StopJoins: the thread is let go instead of awaited.
MutStopJoins ==
    /\ stopper = "joining"
    /\ thread_right # 0
    /\ thread_right' = 0
    /\ stopper' = "right_stopping"
    /\ UNCHANGED <<main, leftStopped, rightStopped, workers, acceptorVars, countVars, orderly>>

StopJoins ==
    /\ stopper = "joining"
    /\ thread_right # 0
    /\ workers[thread_right] = "ended"
    /\ thread_right' = 0
    /\ stopper' = "right_stopping"
    /\ UNCHANGED <<main, leftStopped, rightStopped, workers, acceptorVars, countVars, orderly>>

\* detach() of a thread that is not joinable throws, past the loop that waits
\* for the right io_service.
StopDetachThrows ==
    /\ stopper = "joining"
    /\ thread_right = 0
    /\ stopper' = "right_stopped"
    /\ UNCHANGED <<main, leftStopped, rightStopped, threadVars, acceptorVars, countVars, orderly>>

StopRightStopped ==
    /\ stopper = "right_stopping"
    /\ rightStopped
    /\ stopper' = "right_stopped"
    /\ UNCHANGED <<main, leftStopped, rightStopped, threadVars, acceptorVars, countVars, orderly>>

\* Mutant of StopLeft: the left io_service is left alone.
MutStopLeft ==
    /\ stopper = "right_stopped"
    /\ stopper' = "left_stopping"
    /\ UNCHANGED <<main, leftStopped, rightStopped, threadVars, acceptorVars, countVars, orderly>>

StopLeft ==
    /\ stopper = "right_stopped"
    /\ leftStopped' = TRUE
    /\ stopper' = "left_stopping"
    /\ UNCHANGED <<main, rightStopped, threadVars, acceptorVars, countVars, orderly>>

StopReturns ==
    /\ stopper = "left_stopping"
    /\ leftStopped
    /\ stopper' = "out"
    /\ UNCHANGED <<main, leftStopped, rightStopped, threadVars, acceptorVars, countVars, orderly>>

-----------------------------------------------------------------------------
Running     == Opened \/ OpenFails \/ JoinOld \/ Assign \/ ResetLeft \/ LeftRunReturns
LeftHandler == handle_accept_ok \/ handle_accept_throws \/ handle_accept_error
Worker(t)   == ResetRight(t) \/ RightRunReturns(t)
Stopping    == StopJoins \/ StopDetachThrows \/ StopRightStopped \/ StopLeft \/ StopReturns

Next ==
    \/ run \/ Running
    \/ Connect \/ AcceptCompletes \/ AcceptFails \/ LeftHandler \/ SessionEnds
    \/ \E t \in 1 .. MaxRuns : Worker(t)
    \/ stop \/ Stopping

Spec == Init /\ [][Next]_vars

\* Where each of the threads can go on: the states in which its steps are enabled.
CanRun ==
    \/ main \in {"opening", "assigning", "resetting"}
    \/ main = "joining" /\ (thread_right # 0 => workers[thread_right] = "ended")
    \/ main = "looping" /\ (leftStopped \/ Pending + sessions = 0)

CanStop ==
    \/ stopper = "joining" /\ (thread_right # 0 => workers[thread_right] = "ended")
    \/ stopper = "right_stopping" /\ rightStopped
    \/ stopper = "right_stopped"
    \/ stopper = "left_stopping" /\ leftStopped

CanWork   == \E t \in 1 .. MaxRuns : workers[t] = "started" \/ (workers[t] = "running" /\ rightStopped)
CanHandle == Looping /\ accepted + failed > 0
CanAccept == Looping /\ accepts > 0 /\ backlog > 0

\* The threads go on, and accept() does not fail for ever.  Nobody has to call
\* run() or stop(), to connect, or to end a session.  This is weak fairness of
\* Running, Stopping, LeftHandler and the Workers, and strong fairness of
\* AcceptCompletes, with what is enabled spelled out.
RunFairness     == []<>(~ CanRun)    \/ []<><<Running>>_vars
StopFairness    == []<>(~ CanStop)   \/ []<><<Stopping>>_vars
WorkerFairness  == []<>(~ CanWork)   \/ []<><<\E t \in 1 .. MaxRuns : Worker(t)>>_vars
HandlerFairness == []<>(~ CanHandle) \/ []<><<LeftHandler>>_vars
AcceptFairness  == <>[](~ CanAccept) \/ []<><<AcceptCompletes>>_vars

FairSpec ==
    /\ Spec
    /\ RunFairness /\ StopFairness /\ WorkerFairness /\ HandlerFairness /\ AcceptFairness

-----------------------------------------------------------------------------
(* Properties.                                                             *)

TypeOK ==
    /\ main \in {"out", "opening", "joining", "assigning", "resetting", "looping"}
    /\ stopper \in {"out", "joining", "right_stopping", "right_stopped", "left_stopping"}
    /\ leftStopped \in BOOLEAN /\ rightStopped \in BOOLEAN /\ orderly \in BOOLEAN
    /\ workers \in [1 .. MaxRuns -> {"none", "started", "running", "ended"}]
    /\ thread_right \in 0 .. runs
    /\ runs \in 0 .. MaxRuns /\ stops \in 0 .. MaxStops
    /\ backlog \in Nat /\ accepts \in Nat /\ accepted \in Nat /\ failed \in Nat
    /\ sessions \in Nat /\ started \in Nat /\ thrown \in Nat

\* Every start_accept() of run() keeps one accept going, through errors, stop()
\* and the next run(), which closes the acceptor under it: a server that was
\* restarted has one more each time.  Only a start() that throws ends one.
AcceptsGoOn == Pending + thrown = started

\* The handlers of the right side run on one thread at a time, which is what
\* the sessions rely on: run() joins the old thread although it makes the new
\* one first.  It takes an orderly use: no stop() while run() is still setting
\* up, no run() before stop() has returned, no start() that threw.
OneRightThread ==
    orderly => \A t, u \in 1 .. MaxRuns : Alive(t) /\ Alive(u) => t = u

\* "lss_server stopped.": when run() has returned from an orderly use, the thread
\* of the right side has ended, and the io_services may be destroyed.
NoThreadLeftBehind ==
    (orderly /\ main = "out") => \A t \in 1 .. MaxRuns : ~ Alive(t)

\* In an orderly use stop() returns ...
StopEnds == (orderly /\ stopper # "out") ~> (stopper = "out" \/ ~ orderly)

\* ... and makes run() return.
RunEnds == (orderly /\ stopper # "out" /\ main = "looping") ~> (main = "out" \/ ~ orderly)

\* While clients wait one is accepted in the end, whatever errors accept()
\* reports before, unless the server is stopped or a start() throws.
ClientsServed == (Looping /\ backlog > 0) ~> (accepted > 0 \/ ~ Looping \/ thrown > 0)
=============================================================================
