------------------------------ MODULE Logging ------------------------------
(***************************************************************************)
(* The log library: logging() and the store it pushes to (LogManager,      *)
(* LogStore_priority or LogStore_lockfree), the bound streams, and the     *)
(* threads that call operator() of LogOutput or LogOutput2 in a loop, as   *)
(* lproxy::log::output_thread does.                                        *)
(*                                                                         *)
(* One of the streams is a log file.  When there is one output thread it   *)
(* may also call Logrotate's action() in its loop, as the demo of          *)
(* Logrotate does; lssserver and lsslocal do not.                          *)
(*                                                                         *)
(* The store is atomic here: module Store implements that (Buffer), and    *)
(* boost::lockfree::queue is linearizable.  The lock of a single stream is *)
(* left out: operator() takes it within _outstreamlock.                    *)
(***************************************************************************)
EXTENDS Naturals, Sequences, FiniteSets, SequencesExt, FiniteSetsExt

CONSTANTS Programs,    \* the store, the output threads, whether they call action()
          Streams,     \* streams that may be bound ...
          LogFile,     \* ... one of them the file of Logrotate
          Accepts,     \* the levels a stream is bound with, for each
          Levels,
          vfactor,     \* the levels with priority, the first one first
          Capacity,    \* of the priority store
          MaxEntries,  \* entries that are logged, at most
          MaxCrashes,  \* how often the process ends and is started again, at most
          MaxSize, Stamps

ASSUME LoggingAssumption ==
    /\ \A p \in Programs : /\ p.queue \in {"priority", "lockfree"}
                          /\ p.outputs # {} /\ IsFiniteSet(p.outputs)
                          /\ "nobody" \notin p.outputs
                          /\ p.rotating \in {b \in BOOLEAN : b => Cardinality(p.outputs) = 1}
    /\ LogFile \in Streams
    /\ Accepts \in [Streams -> SUBSET Levels]
    /\ vfactor \in Seq(Levels) /\ IsInjective(vfactor)
    /\ Capacity \in Nat \ {0} /\ MaxSize \in Nat \ {0}
    /\ MaxEntries \in Nat /\ MaxCrashes \in Nat

VARIABLES
    program,  \* how the program was built
    store,    \* entries, in the order they were pushed
    count,    \* entries that were logged, in all processes
    pc, val,  \* where an output thread is, and the entry it has in hand
    todo,     \* what it has still to write the entry to
    _outstreamlock, \* the thread that holds it, or "nobody"
    _outstream,     \* the streams that are bound
    steady,   \* streams that were bound whenever an entry was output
    out,      \* the entries each stream was given by this process
    done,     \* entries that were output by this process
    crashes,
    file, archive, target, stream, tellp, step, lines, clean

Rotate == INSTANCE Logrotate

Outputs == UNION {p.outputs : p \in Programs}

outVars    == <<_outstreamlock, _outstream, steady, out, done>>
rotateVars == <<file, archive, target, stream, tellp, step, lines, clean>>
vars == <<program, store, count, pc, val, todo, outVars, crashes, rotateVars>>

Entry == [id : 1 .. MaxEntries, level : Levels]
None  == [id |-> 0]

\* The place of a level among the priorities; all without priority are last.
Rank(l) == IF \E n \in DOMAIN vfactor : vfactor[n] = l
             THEN CHOOSE n \in DOMAIN vfactor : vfactor[n] = l
             ELSE Len(vfactor) + 1

Init ==
    /\ program \in Programs
    /\ store = <<>> /\ count = 0
    /\ pc = [o \in Outputs |-> "pop"]
    /\ val = [o \in Outputs |-> None]
    /\ todo = [o \in Outputs |-> {}]
    /\ _outstreamlock = "nobody" /\ _outstream = {}
    /\ steady = Streams /\ out = [s \in Streams |-> <<>>] /\ done = {}
    /\ crashes = 0
    /\ Rotate!Init

-----------------------------------------------------------------------------
\* Mutant of logging: one entry more fits.
Mutlogging(l) ==
    /\ count < MaxEntries
    /\ program.queue = "priority" => Len(store) <= Capacity
    /\ count' = count + 1
    /\ store' = Append(store, [id |-> count + 1, level |-> l])
    /\ UNCHANGED <<program, pc, val, todo, outVars, crashes, rotateVars>>

\* A thread logs; push() of the priority store waits for room.
logging(l) ==
    /\ count < MaxEntries
    /\ program.queue = "priority" => Len(store) < Capacity
    /\ count' = count + 1
    /\ store' = Append(store, [id |-> count + 1, level |-> l])
    /\ UNCHANGED <<program, pc, val, todo, outVars, crashes, rotateVars>>

\* What the priority queue finds first, going through the factors and for each
\* through the list; the front if it finds nothing.
top ==
    LET found(f) == {i \in DOMAIN store : store[i].level = f}
        factors  == {n \in DOMAIN vfactor : found(vfactor[n]) # {}}
    IN  IF factors = {} THEN 1 ELSE Min(found(vfactor[Min(factors)]))

\* Mutant of pop: the front of the list is erased.
Mutpop(o) ==
    /\ pc[o] = "pop"
    /\ store # <<>>
    /\ LET i == IF program.queue = "priority" THEN top ELSE 1
       IN  val' = [val EXCEPT ![o] = store[i]]
    /\ store' = Tail(store)
    /\ pc' = [pc EXCEPT ![o] = "lock"]
    /\ UNCHANGED <<program, count, todo, outVars, crashes, rotateVars>>

\* Mutant of pop: the newest of them is taken.
MutpopNewest(o) ==
    /\ pc[o] = "pop"
    /\ store # <<>>
    /\ val' = [val EXCEPT ![o] = Last(store)]
    /\ store' = Front(store)
    /\ pc' = [pc EXCEPT ![o] = "lock"]
    /\ UNCHANGED <<program, count, todo, outVars, crashes, rotateVars>>

pop(o) ==
    /\ pc[o] = "pop"
    /\ store # <<>>
    /\ LET i == IF program.queue = "priority" THEN top ELSE 1
       IN  /\ val' = [val EXCEPT ![o] = store[i]]
           /\ store' = RemoveAt(store, i)
    /\ pc' = [pc EXCEPT ![o] = "lock"]
    /\ UNCHANGED <<program, count, todo, outVars, crashes, rotateVars>>

\* for_each over the streams of the level begins, under _outstreamlock.
Lock(o) ==
    /\ pc[o] = "lock"
    /\ _outstreamlock = "nobody"
    /\ _outstreamlock' = o
    /\ todo' = [todo EXCEPT ![o] = {s \in _outstream : val[o].level \in Accepts[s]}]
    /\ steady' = steady \cap _outstream
    /\ pc' = [pc EXCEPT ![o] = "write"]
    /\ UNCHANGED <<program, store, count, val, _outstream, out, done, crashes, rotateVars>>

\* One stream, in the order of their addresses, which is any.
Write(o, s) ==
    /\ pc[o] = "write"
    /\ s \in todo[o]
    /\ out' = [out EXCEPT ![s] = Append(@, val[o])]
    /\ todo' = [todo EXCEPT ![o] = @ \ {s}]
    /\ IF s = LogFile THEN Rotate!Write(val[o].id) ELSE UNCHANGED rotateVars
    /\ UNCHANGED <<program, store, count, pc, val, _outstreamlock, _outstream, steady, done,
                   crashes>>

\* Mutant of Unlock: the lock is not released.
MutUnlock(o) ==
    /\ pc[o] = "write"
    /\ todo[o] = {}
    /\ done' = done \cup {val[o]}
    /\ val' = [val EXCEPT ![o] = None]
    /\ pc' = [pc EXCEPT ![o] = IF program.rotating THEN "action" ELSE "pop"]
    /\ UNCHANGED <<program, store, count, todo, _outstreamlock, _outstream, steady, out, crashes,
                   rotateVars>>

Unlock(o) ==
    /\ pc[o] = "write"
    /\ todo[o] = {}
    /\ _outstreamlock' = "nobody"
    /\ done' = done \cup {val[o]}
    /\ val' = [val EXCEPT ![o] = None]
    /\ pc' = [pc EXCEPT ![o] = IF program.rotating THEN "action" ELSE "pop"]
    /\ UNCHANGED <<program, store, count, todo, _outstream, steady, out, crashes, rotateVars>>

-----------------------------------------------------------------------------
(* Logrotate's action(), in the loop of the output thread.                 *)

NotDue(o) ==
    /\ pc[o] = "action"
    /\ step = "unbound" \/ (step = "idle" /\ ~ Rotate!Due)
    /\ pc' = [pc EXCEPT ![o] = "pop"]
    /\ UNCHANGED <<program, store, count, val, todo, outVars, crashes, rotateVars>>

Rotates(o) ==
    /\ pc[o] = "action"
    /\ Rotate!action \/ Rotate!Rotating
    /\ UNCHANGED <<program, store, count, pc, val, todo, outVars, crashes>>

Rotated(o) ==
    /\ pc[o] = "action"
    /\ Rotate!Reopen
    /\ pc' = [pc EXCEPT ![o] = "pop"]
    /\ UNCHANGED <<program, store, count, val, todo, outVars, crashes>>

-----------------------------------------------------------------------------
(* bind() and unbind(), by any thread; the file is opened by Logrotate's   *)
(* bind().                                                                 *)

bind(s) ==
    /\ _outstreamlock = "nobody"
    /\ _outstream' = _outstream \cup {s}
    /\ UNCHANGED <<program, store, count, pc, val, todo, _outstreamlock, steady, out, done,
                   crashes, rotateVars>>

\* Mutant of unbind: it does not wait for _outstreamlock.
Mutunbind(s) ==
    /\ _outstream' = _outstream \ {s}
    /\ UNCHANGED <<program, store, count, pc, val, todo, _outstreamlock, steady, out, done,
                   crashes, rotateVars>>

unbind(s) ==
    /\ _outstreamlock = "nobody"
    /\ _outstream' = _outstream \ {s}
    /\ UNCHANGED <<program, store, count, pc, val, todo, _outstreamlock, steady, out, done,
                   crashes, rotateVars>>

OpenLogFile ==
    /\ Rotate!bind
    /\ UNCHANGED <<program, store, count, pc, val, todo, outVars, crashes>>

\* The process ends, and so does all it has not written; it is started again.
Restart ==
    /\ crashes < MaxCrashes
    /\ crashes' = crashes + 1
    /\ store' = <<>>
    /\ pc' = [o \in Outputs |-> "pop"]
    /\ val' = [o \in Outputs |-> None]
    /\ todo' = [o \in Outputs |-> {}]
    /\ _outstreamlock' = "nobody" /\ _outstream' = {}
    /\ steady' = Streams /\ out' = [s \in Streams |-> <<>>] /\ done' = {}
    /\ Rotate!Crash \/ (step = "unbound" /\ UNCHANGED rotateVars)
    /\ UNCHANGED <<program, count>>

-----------------------------------------------------------------------------
OutputThread(o) ==
    \/ pop(o) \/ Lock(o) \/ (\E s \in Streams : Write(o, s)) \/ Unlock(o)
    \/ NotDue(o) \/ Rotates(o) \/ Rotated(o)

Next ==
    \/ \E l \in Levels : logging(l)
    \/ \E o \in program.outputs : OutputThread(o)
    \/ \E s \in Streams : bind(s) \/ unbind(s)
    \/ OpenLogFile \/ Restart

Spec == Init /\ [][Next]_vars

\* The output threads go on, and get the lock in the end.
FairSpec == Spec /\ \A o \in Outputs : WF_vars(o \in program.outputs /\ OutputThread(o))

-----------------------------------------------------------------------------
(* Properties.                                                             *)

TypeOK ==
    /\ program \in Programs
    /\ store \in Seq(Entry)
    /\ program.queue = "priority" => Len(store) <= Capacity
    /\ count \in 0 .. MaxEntries /\ crashes \in 0 .. MaxCrashes
    /\ pc \in [Outputs -> {"pop", "lock", "write", "action"}]
    /\ val \in [Outputs -> Entry \cup {None}]
    /\ todo \in [Outputs -> SUBSET Streams]
    /\ _outstreamlock \in program.outputs \cup {"nobody"}
    /\ _outstream \subseteq Streams /\ steady \subseteq Streams
    /\ out \in [Streams -> Seq(Entry)]
    /\ done \subseteq Entry
    /\ Rotate!TypeOK

InStore == ToSet(store)
InHand  == {val[o] : o \in Outputs} \ {None}

\* An entry is in the store, in the hands of one output thread or output, and
\* never in two of them; a stream is given no entry twice, and one that has been
\* bound all the time gets every entry of its levels.
NoneVanishes ==
    /\ IsInjective(store)
    /\ \A o, p \in Outputs : val[o] # None /\ val[o] = val[p] => o = p
    /\ InStore \cap (InHand \cup done) = {} /\ InHand \cap done = {}
    /\ crashes = 0 => {e.id : e \in InStore \cup InHand \cup done} = 1 .. count
    /\ \A s \in Streams :
         /\ IsInjective(out[s])
         /\ s \in steady => {e \in done : e.level \in Accepts[s]} \subseteq ToSet(out[s])

\* When unbind() has returned, its caller may destroy the stream, and the mutex
\* of the stream is released: no thread is on its way to write to it.
UnboundIsLeftAlone == \A o \in Outputs : todo[o] \subseteq _outstream

\* With one output thread a stream gets the entries in the order in which they
\* were logged, except that those with priority overtake the others.
OnlyPriorityOvertakes ==
    Cardinality(program.outputs) = 1 =>
      \A s \in Streams : \A i, j \in DOMAIN out[s] :
        i < j /\ out[s][i].id > out[s][j].id =>
          program.queue = "priority" /\ Rank(out[s][i].level) < Rank(out[s][j].level)

LinesKept    == Rotate!LinesKept
ArchivesKept == Rotate!ArchivesKept

\* When no more is logged everything has been output in the end, through
\* rotations, bind() and unbind(); only the end of the process loses entries.
EventuallyOutput == <>[](InStore \cup InHand = {})
=============================================================================
