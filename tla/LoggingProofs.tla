--------------------------- MODULE LoggingProofs ---------------------------
(***************************************************************************)
(* Proofs about Logging, for any programs, streams, levels and priorities: *)
(* no entry vanishes or is output twice, only priority changes the order,  *)
(* and the log file is used as Logrotate specifies.                        *)
(***************************************************************************)
EXTENDS Logging, Least, SequenceTheorems

Stored == 1 .. Len(store)
Has(o) == val[o] # None

Types ==
    /\ program \in Programs
    /\ store \in Seq(Entry) /\ count \in 0 .. MaxEntries /\ crashes \in Nat
    /\ pc \in [Outputs -> {"pop", "lock", "write", "action"}]
    /\ val \in [Outputs -> Entry \cup {None}]
    /\ todo \in [Outputs -> SUBSET Streams]
    /\ _outstreamlock \in Outputs \cup {"nobody"}
    /\ _outstream \in SUBSET Streams /\ steady \in SUBSET Streams
    /\ out \in [Streams -> Seq(Entry)]
    /\ done \in SUBSET Entry

\* Where an output thread is determines what it holds, and only a rotating
\* program's one output thread is ever within action().
Control ==
    /\ \A o \in Outputs : Has(o) <=> pc[o] \in {"lock", "write"}
    /\ \A o \in Outputs : _outstreamlock = o <=> pc[o] = "write"
    /\ \A o \in Outputs : pc[o] = "action" => program.rotating /\ program.outputs = {o}
    /\ \A o \in Outputs : o \notin program.outputs => pc[o] = "pop"
    /\ step \notin {"unbound", "idle"} =>
         \E o \in Outputs : program.outputs = {o} /\ pc[o] = "action"

\* The store is sorted by number, and every number is in one place.
Where ==
    /\ \A i, j \in Stored : i < j => store[i].id < store[j].id
    /\ \A i \in Stored : store[i].id <= count
    /\ \A o \in Outputs : Has(o) =>
         val[o].id <= count /\ \A i \in Stored : store[i].id # val[o].id
    /\ \A o, p \in Outputs : o # p /\ Has(o) /\ Has(p) => val[o].id # val[p].id
    /\ \A e \in done : /\ e.id <= count
                       /\ \A i \in Stored : store[i].id # e.id
                       /\ \A o \in Outputs : Has(o) => val[o].id # e.id
    /\ crashes = 0 => \A k \in 1 .. count : \/ \E e \in done : e.id = k
                                            \/ \E i \in Stored : store[i].id = k
                                            \/ \E o \in Outputs : Has(o) /\ val[o].id = k

\* What a stream was given has been output or is being output; a steady stream
\* was given everything.
Given ==
    \A s \in Streams :
      /\ \A i \in 1 .. Len(out[s]) :
           \/ out[s][i] \in done
           \/ \E o \in Outputs : pc[o] = "write" /\ s \notin todo[o] /\ out[s][i] = val[o]
      /\ \A i, j \in 1 .. Len(out[s]) : out[s][i] = out[s][j] => i = j
      /\ s \in steady =>
           /\ \A e \in done : e.level \in Accepts[s] => \E i \in 1 .. Len(out[s]) : out[s][i] = e
           /\ \A o \in Outputs :
                pc[o] = "write" /\ s \notin todo[o] /\ val[o].level \in Accepts[s] =>
                  \E i \in 1 .. Len(out[s]) : out[s][i] = val[o]

\* The lines of the log file are numbers that are not in the store any more.
Written ==
    \A k \in lines :
      /\ k \in 1 .. count
      /\ \A i \in Stored : store[i].id # k
      /\ \A o \in Outputs : Has(o) /\ val[o].id = k => pc[o] = "write" /\ LogFile \notin todo[o]

\* e may come before f although it was logged after it.
Over(e, f) == e.id > f.id => program.queue = "priority" /\ Rank(e.level) < Rank(f.level)

\* With one output thread: what has left the store was right to overtake what
\* has not left it, or was output later.
Ordered ==
    Cardinality(program.outputs) = 1 =>
      /\ \A o \in Outputs, i \in Stored : Has(o) => Over(val[o], store[i])
      /\ \A s \in Streams : \A n \in 1 .. Len(out[s]) :
           /\ \A i \in Stored : Over(out[s][n], store[i])
           /\ \A o \in Outputs : Has(o) => Over(out[s][n], val[o])
           /\ \A m \in 1 .. Len(out[s]) : n < m => Over(out[s][n], out[s][m])

-----------------------------------------------------------------------------
(* The queue.                                                              *)

LEMMA EntryFacts ==
    /\ None \notin Entry
    /\ \A e \in Entry : e.id \in 1 .. MaxEntries /\ e.level \in Levels
BY DEF None, Entry

LEMMA Removed ==
    ASSUME NEW S, NEW s \in Seq(S), NEW i \in 1 .. Len(s)
    PROVE  /\ RemoveAt(s, i) \in Seq(S)
           /\ Len(RemoveAt(s, i)) = Len(s) - 1
           /\ \A k \in 1 .. (Len(s) - 1) : RemoveAt(s, i)[k] = IF k < i THEN s[k] ELSE s[k + 1]
<1> DEFINE a == SubSeq(s, 1, i - 1)
           b == SubSeq(s, i + 1, Len(s))
<1>1. a \in Seq(S) /\ Len(a) = i - 1 /\ \A k \in 1 .. (i - 1) : a[k] = s[k]
  OBVIOUS
<1>2. b \in Seq(S) /\ Len(b) = Len(s) - i /\ \A k \in 1 .. (Len(s) - i) : b[k] = s[i + k]
  OBVIOUS
<1>3. RemoveAt(s, i) = a \o b
  BY DEF RemoveAt
<1> HIDE DEF a, b
<1>4. Len(s) \in Nat /\ i \in Nat /\ 1 <= i /\ i <= Len(s)
  OBVIOUS
<1>5. a \o b \in Seq(S) /\ Len(a \o b) = Len(a) + Len(b)
  <2>1. a \in Seq(S) /\ b \in Seq(S)
    BY <1>1, <1>2
  <2> QED
    BY <2>1, ConcatProperties
<1>6. ASSUME NEW k \in 1 .. (Len(s) - 1)
      PROVE  (a \o b)[k] = IF k < i THEN s[k] ELSE s[k + 1]
  <2>1. CASE k < i
    <3>1. k \in 1 .. Len(a) /\ a[k] = s[k]
      BY <1>1, <1>4, <2>1
    <3>2. (a \o b)[k] = a[k]
      BY <1>1, <1>2, <3>1
    <3> QED
      BY <2>1, <3>1, <3>2
  <2>2. CASE ~ (k < i)
    <3>1. k - Len(a) \in 1 .. Len(b) /\ k - Len(a) = k - (i - 1)
      BY <1>1, <1>2, <1>4, <2>2
    <3>2. (a \o b)[k] = b[k - Len(a)]
      BY <1>1, <1>2, <3>1
    <3>3. b[k - Len(a)] = s[i + (k - (i - 1))] /\ i + (k - (i - 1)) = k + 1
      BY <1>1, <1>2, <1>4, <3>1
    <3> QED
      BY <2>2, <3>2, <3>3
  <2> QED
    BY <2>1, <2>2
<1> QED
  BY <1>1, <1>2, <1>3, <1>4, <1>5, <1>6

\* What is before the entry that top finds has less priority than it.
LEMMA TopFound ==
    ASSUME store \in Seq(Entry), store # <<>>
    PROVE  /\ top \in Stored
           /\ \A j \in Stored : j < top => Rank(store[top].level) < Rank(store[j].level)
<1> DEFINE found(f) == {i \in DOMAIN store : store[i].level = f}
           factors  == {n \in DOMAIN vfactor : found(vfactor[n]) # {}}
           N        == Len(vfactor)
<1>1. /\ N \in Nat /\ DOMAIN vfactor = 1 .. N
      /\ Len(store) \in Nat /\ DOMAIN store = 1 .. Len(store) /\ Len(store) # 0
  BY LoggingAssumption DEF LoggingAssumption
<1>2. CASE factors = {}
  BY <1>1, <1>2 DEF top, Stored
<1>3. CASE factors # {}
  <2> DEFINE n == Min(factors)
  <2>1. factors \in SUBSET (0 .. N)
    BY <1>1
  <2>2. n \in factors /\ \A m \in factors : n <= m
    <3> HIDE DEF factors, N
    <3> QED
      BY <1>1, <1>3, <2>1, MinIsLeast
  <2> DEFINE F == found(vfactor[n])
  <2>3. F # {} /\ F \in SUBSET (0 .. Len(store))
    <3>1. F # {}
      <4> HIDE DEF n
      <4> QED
        BY <2>2
    <3>2. F \in SUBSET DOMAIN store
      <4> HIDE DEF n
      <4> QED
        OBVIOUS
    <3> HIDE DEF F
    <3> QED
      BY <1>1, <3>1, <3>2
  <2>4. Min(F) \in F /\ \A i \in F : Min(F) <= i
    <3> HIDE DEF F
    <3> QED
      BY <1>1, <2>3, MinIsLeast
  <2>5. top = Min(F)
    BY <1>3 DEF top
  <2>6. store[top].level = vfactor[n] /\ top \in Stored
    <3> HIDE DEF n
    <3> QED
      BY <1>1, <2>4, <2>5 DEF Stored
  <2>7. n \in 1 .. N /\ \A m \in 1 .. N : vfactor[m] = vfactor[n] => m = n
    BY <1>1, <2>2, LoggingAssumption DEF LoggingAssumption, IsInjective
  <2>8. Rank(vfactor[n]) = n
    <3> HIDE DEF n
    <3>1. n = CHOOSE m \in DOMAIN vfactor : vfactor[m] = vfactor[n]
      BY <1>1, <2>7
    <3> QED
      BY <1>1, <2>7, <3>1 DEF Rank
  <2>9. ASSUME NEW j \in Stored, j < top
        PROVE  n < Rank(store[j].level)
    <3>1. \A m \in 1 .. N : vfactor[m] = store[j].level => m \in factors
      BY <1>1, <2>9 DEF Stored
    <3>2. store[j].level # vfactor[n]
      <4> HIDE DEF n
      <4>1. j \in DOMAIN store /\ ~ (top <= j)
        BY <1>1, <2>6, <2>9 DEF Stored
      <4>2. j \notin F
        BY <2>4, <2>5, <4>1
      <4> QED
        BY <4>1, <4>2
    <3> HIDE DEF factors, found, F, n
    <3>3. CASE \E m \in 1 .. N : vfactor[m] = store[j].level
      <4>1. PICK m \in 1 .. N : vfactor[m] = store[j].level /\ Rank(store[j].level) = m
        BY <1>1, <3>3 DEF Rank
      <4> QED
        BY <1>1, <2>2, <2>7, <3>1, <3>2, <4>1
    <3>4. CASE ~ \E m \in 1 .. N : vfactor[m] = store[j].level
      <4>1. Rank(store[j].level) = N + 1
        BY <1>1, <3>4 DEF Rank
      <4> QED
        BY <1>1, <2>7, <4>1
    <3> QED
      BY <3>3, <3>4
  <2> HIDE DEF n, F
  <2> QED
    BY <2>6, <2>8, <2>9
<1> QED
  BY <1>2, <1>3

-----------------------------------------------------------------------------
(* The steps.                                                              *)

LEMMA Threads ==
    ASSUME Types
    PROVE  /\ program.outputs \subseteq Outputs /\ "nobody" \notin Outputs
           /\ program.rotating => \E o \in Outputs : program.outputs = {o}
<1>1. program.outputs \subseteq Outputs
  BY DEF Types, Outputs
<1>2. "nobody" \notin Outputs
  BY LoggingAssumption DEF LoggingAssumption, Outputs
<1>3. ASSUME program.rotating
      PROVE  \E o \in Outputs : program.outputs = {o}
  <2>1. program.rotating \in {b \in BOOLEAN : b => Cardinality(program.outputs) = 1}
    BY LoggingAssumption DEF LoggingAssumption, Types
  <2>2. Cardinality(program.outputs) = 1 /\ IsFiniteSet(program.outputs)
    BY <1>3, <2>1, LoggingAssumption DEF LoggingAssumption, Types
  <2>3. \E o : program.outputs = {o}
    BY <2>2, FS_Singleton
  <2> QED
    BY <1>1, <2>3
<1> QED
  BY <1>1, <1>2, <1>3

\* logging() puts one entry, with a new number, behind the others.
LEMMA Logged ==
    ASSUME Types, NEW l \in Levels, logging(l)
    PROVE  /\ count' = count + 1 /\ count' \in 0 .. MaxEntries
           /\ store' \in Seq(Entry) /\ Len(store') = Len(store) + 1
           /\ \A k \in Stored : store'[k] = store[k]
           /\ store'[Len(store) + 1].id = count + 1
           /\ Stored' = Stored \cup {Len(store) + 1}
<1> DEFINE e == [id |-> count + 1, level |-> l]
<1>1. count' = count + 1 /\ count' \in 0 .. MaxEntries /\ store' = Append(store, e)
  <2>1. count \in 0 .. MaxEntries /\ MaxEntries \in Nat
    BY LoggingAssumption DEF Types, LoggingAssumption
  <2>2. count < MaxEntries /\ count' = count + 1 /\ store' = Append(store, e)
    BY DEF logging
  <2> QED
    BY <2>1, <2>2
<1>2. e \in Entry /\ e.id = count + 1
  BY <1>1 DEF Entry, Types
<1>3. store \in Seq(Entry)
  BY DEF Types
<1> HIDE DEF e
<1>4. /\ store' \in Seq(Entry) /\ Len(store') = Len(store) + 1
      /\ \A k \in 1 .. Len(store) : store'[k] = store[k]
      /\ store'[Len(store) + 1] = e
  BY <1>1, <1>2, <1>3
<1> QED
  BY <1>1, <1>2, <1>3, <1>4 DEF Stored

\* pop() takes one entry out, and all that it leaves and that was before it has
\* less priority.
LEMMA Popped ==
    ASSUME Types, NEW o \in Outputs, pop(o)
    PROVE  \E i \in Stored :
             /\ val' = [val EXCEPT ![o] = store[i]] /\ store[i] \in Entry
             /\ store' \in Seq(Entry) /\ Len(store') = Len(store) - 1
             /\ \A k \in 1 .. (Len(store) - 1) :
                  store'[k] = IF k < i THEN store[k] ELSE store[k + 1]
             /\ \A j \in Stored : j < i => /\ program.queue = "priority"
                                          /\ Rank(store[i].level) < Rank(store[j].level)
<1> DEFINE i == IF program.queue = "priority" THEN top ELSE 1
<1>1. store \in Seq(Entry) /\ store # <<>>
  BY DEF Types, pop
<1>2. /\ top \in Stored
      /\ \A j \in Stored : j < top => Rank(store[top].level) < Rank(store[j].level)
  BY <1>1, TopFound
<1>3. i \in Stored
  BY <1>1, <1>2 DEF Stored
<1>4. val' = [val EXCEPT ![o] = store[i]] /\ store' = RemoveAt(store, i)
  BY DEF pop
<1>5. \A j \in Stored : j < i => /\ program.queue = "priority"
                                /\ Rank(store[i].level) < Rank(store[j].level)
  BY <1>2 DEF Stored
<1> HIDE DEF i
<1>6. /\ store' \in Seq(Entry) /\ Len(store') = Len(store) - 1
      /\ \A k \in 1 .. (Len(store) - 1) :
           store'[k] = IF k < i THEN store[k] ELSE store[k + 1]
  BY <1>1, <1>3, <1>4, Removed DEF Stored
<1>7. store[i] \in Entry
  BY <1>1, <1>3 DEF Stored
<1> QED
  BY <1>3, <1>4, <1>5, <1>6, <1>7

LEMMA KeepsTypes ==
    ASSUME Types, Control, [Next]_vars
    PROVE  Types'
<1>0. program.outputs \subseteq Outputs
  BY Threads
<1>1. ASSUME NEW l \in Levels, logging(l)
      PROVE  Types'
  BY <1>1, Logged DEF Types, logging, outVars
<1>2. ASSUME NEW o \in Outputs, pop(o)
      PROVE  Types'
  <2>1. store' \in Seq(Entry) /\ val' \in [Outputs -> Entry \cup {None}]
    BY <1>2, Popped DEF Types
  <2> QED
    BY <1>2, <2>1 DEF Types, pop, outVars
<1>3. ASSUME NEW o \in Outputs, Lock(o)
      PROVE  Types'
  BY <1>3 DEF Types, Lock
<1>4. ASSUME NEW o \in Outputs, NEW s \in Streams, Write(o, s)
      PROVE  Types'
  <2>1. val[o] \in Entry
    BY <1>4 DEF Types, Control, Has, Write
  <2>2. out' \in [Streams -> Seq(Entry)]
    BY <1>4, <2>1 DEF Types, Write
  <2>3. todo' \in [Outputs -> SUBSET Streams]
    BY <1>4 DEF Types, Write
  <2> QED
    BY <1>4, <2>2, <2>3 DEF Types, Write
<1>5. ASSUME NEW o \in Outputs, Unlock(o)
      PROVE  Types'
  <2>1. val[o] \in Entry
    BY <1>5 DEF Types, Control, Has, Unlock
  <2>2. pc' \in [Outputs -> {"pop", "lock", "write", "action"}]
    BY <1>5 DEF Types, Unlock
  <2>3. val' \in [Outputs -> Entry \cup {None}] /\ done' \in SUBSET Entry
    BY <1>5, <2>1 DEF Types, Unlock
  <2> QED
    BY <1>5, <2>2, <2>3 DEF Types, Unlock
<1>6. ASSUME NEW o \in Outputs, NotDue(o) \/ Rotates(o) \/ Rotated(o)
      PROVE  Types'
  BY <1>6 DEF Types, NotDue, Rotates, Rotated, outVars
<1>7. ASSUME NEW s \in Streams, bind(s) \/ unbind(s)
      PROVE  Types'
  BY <1>7 DEF Types, bind, unbind
<1>8. CASE OpenLogFile
  BY <1>8 DEF Types, OpenLogFile, outVars
<1>9. CASE Restart
  BY <1>9 DEF Types, Restart
<1>10. CASE UNCHANGED vars
  BY <1>10 DEF Types, vars, outVars
<1> QED
  BY <1>0, <1>1, <1>2, <1>3, <1>4, <1>5, <1>6, <1>7, <1>8, <1>9, <1>10 DEF Next, OutputThread

LEMMA KeepsControl ==
    ASSUME Types, Control, [Next]_vars
    PROVE  Control'
<1>0. /\ program.outputs \subseteq Outputs /\ "nobody" \notin Outputs
      /\ program.rotating => \E o \in Outputs : program.outputs = {o}
  BY Threads
<1>1. ASSUME NEW l \in Levels, logging(l)
      PROVE  Control'
  BY <1>1 DEF Control, Has, logging, outVars, rotateVars
<1>2. ASSUME NEW o \in program.outputs, pop(o)
      PROVE  Control'
  <2>1. PICK i \in Stored : val' = [val EXCEPT ![o] = store[i]] /\ store[i] \in Entry
    BY <1>0, <1>2, Popped
  <2>2. store[i] # None
    BY <2>1, EntryFacts
  <2> QED
    BY <1>0, <1>2, <2>1, <2>2 DEF Control, Has, Types, pop, outVars, rotateVars
<1>3. ASSUME NEW o \in program.outputs, Lock(o)
      PROVE  Control'
  <2>1. /\ UNCHANGED <<program, val, step>> /\ _outstreamlock = "nobody"
        /\ _outstreamlock' = o /\ o \in Outputs /\ pc[o] = "lock" /\ pc'[o] = "write"
        /\ \A p \in Outputs : p # o => pc'[p] = pc[p]
    BY <1>0, <1>3 DEF Types, Lock, rotateVars
  <2> QED
    BY <1>0, <2>1 DEF Control, Has
<1>4. ASSUME NEW o \in program.outputs, NEW s \in Streams, Write(o, s)
      PROVE  Control'
  <2>1. step' = step
    BY <1>4 DEF Write, Rotate!Write, Rotate!vars, rotateVars
  <2> QED
    BY <1>4, <2>1 DEF Control, Has, Types, Write
<1>5. ASSUME NEW o \in program.outputs, Unlock(o)
      PROVE  Control'
  <2>1. o \in Outputs /\ (program.rotating => program.outputs = {o})
    BY <1>0
  <2> QED
    BY <1>0, <1>5, <2>1 DEF Control, Has, Types, Unlock, rotateVars
<1>6. ASSUME NEW o \in program.outputs, NotDue(o)
      PROVE  Control'
  BY <1>0, <1>6 DEF Control, Has, Types, NotDue, outVars, rotateVars
<1>7. ASSUME NEW o \in program.outputs, Rotates(o)
      PROVE  Control'
  BY <1>0, <1>7 DEF Control, Has, Types, Rotates, outVars
<1>8. ASSUME NEW o \in program.outputs, Rotated(o)
      PROVE  Control'
  <2>1. step' = "idle"
    BY <1>8 DEF Rotated, Rotate!Reopen
  <2> QED
    BY <1>0, <1>8, <2>1 DEF Control, Has, Types, Rotated, outVars
<1>9. ASSUME NEW s \in Streams, bind(s) \/ unbind(s)
      PROVE  Control'
  BY <1>9 DEF Control, Has, bind, unbind, rotateVars
<1>10. CASE OpenLogFile
  BY <1>10 DEF Control, Has, OpenLogFile, Rotate!bind, outVars
<1>11. CASE Restart
  <2>1. step' = "unbound"
    BY <1>11 DEF Restart, Rotate!Crash, rotateVars
  <2> QED
    BY <1>0, <1>11, <2>1 DEF Control, Has, Restart
<1>12. CASE UNCHANGED vars
  BY <1>12 DEF Control, Has, vars, outVars, rotateVars
<1> QED
  BY <1>1, <1>2, <1>3, <1>4, <1>5, <1>6, <1>7, <1>8, <1>9, <1>10, <1>11, <1>12
  DEF Next, OutputThread

\* What is left in the store is what was in it, but for the entry i.
LEMMA Left ==
    ASSUME Types, Types', NEW i \in Stored,
           Len(store') = Len(store) - 1,
           \A k \in 1 .. (Len(store) - 1) :
             store'[k] = IF k < i THEN store[k] ELSE store[k + 1]
    PROVE  /\ \A k \in Stored' : \E j \in Stored \ {i} : store'[k] = store[j]
           /\ \A j \in Stored \ {i} : \E k \in Stored' : store'[k] = store[j]
           /\ \A k, m \in Stored' : k < m =>
                \E j, n \in Stored : j < n /\ store'[k] = store[j] /\ store'[m] = store[n]
<1>0. Len(store) \in Nat /\ Stored = 1 .. Len(store) /\ Stored' = 1 .. (Len(store) - 1)
  BY DEF Types, Stored
<1>1. ASSUME NEW k \in Stored'
      PROVE  \E j \in Stored \ {i} : store'[k] = store[j] /\ j = IF k < i THEN k ELSE k + 1
  <2> DEFINE j == IF k < i THEN k ELSE k + 1
  <2>1. j \in Stored \ {i}
    BY <1>0
  <2> QED
    BY <1>0, <2>1
<1>2. ASSUME NEW j \in Stored \ {i}
      PROVE  \E k \in Stored' : store'[k] = store[j]
  <2> DEFINE k == IF j < i THEN j ELSE j - 1
  <2>1. k \in Stored' /\ (IF k < i THEN k ELSE k + 1) = j
    BY <1>0
  <2>2. store'[k] = IF k < i THEN store[k] ELSE store[k + 1]
    BY <1>0, <2>1
  <2> QED
    BY <2>1, <2>2
<1>3. ASSUME NEW k \in Stored', NEW m \in Stored', k < m
      PROVE  \E j, n \in Stored : j < n /\ store'[k] = store[j] /\ store'[m] = store[n]
  <2>1. PICK j \in Stored : store'[k] = store[j] /\ j = IF k < i THEN k ELSE k + 1
    BY <1>1
  <2>2. PICK n \in Stored : store'[m] = store[n] /\ n = IF m < i THEN m ELSE m + 1
    BY <1>1
  <2>3. j < n
    BY <1>0, <1>3, <2>1, <2>2
  <2> QED
    BY <2>1, <2>2, <2>3
<1> QED
  BY <1>1, <1>2, <1>3

LEMMA KeepsWhere ==
    ASSUME Types, Types', Control, Control', Where, [Next]_vars
    PROVE  Where'
<1>0. program.outputs \subseteq Outputs
  BY Threads
<1>1. ASSUME NEW l \in Levels, logging(l)
      PROVE  Where'
  <2>1. /\ count \in Nat /\ count' = count + 1 /\ Len(store) \in Nat
        /\ \A k \in Stored : store'[k] = store[k]
        /\ store'[Len(store) + 1].id = count + 1
        /\ Stored' = Stored \cup {Len(store) + 1} /\ Stored = 1 .. Len(store)
    BY <1>1, Logged DEF Types, Stored
  <2>2. UNCHANGED <<val, done, crashes>>
    BY <1>1 DEF logging, outVars
  <2>3. /\ \A i \in Stored : store[i] \in Entry
        /\ \A o \in Outputs : Has(o) => val[o] \in Entry
        /\ \A e \in done : e \in Entry
        /\ \A e \in Entry : e.id \in Nat
    BY EntryFacts DEF Types, Stored, Has
  <2>4. /\ \A i, j \in Stored' : i < j => store'[i].id < store'[j].id
        /\ \A i \in Stored' : store'[i].id <= count'
    <3>1. \A i \in Stored : store[i].id \in Nat /\ store[i].id <= count
      BY <2>3 DEF Where
    <3>2. \A i, j \in Stored : i < j => store[i].id < store[j].id
      BY DEF Where
    <3>3. \A i \in Stored' : i \in Stored \/ i = Len(store) + 1
      BY <2>1
    <3>4. \A i \in Stored' : store'[i].id <= count'
      BY <2>1, <3>1, <3>3
    <3>5. ASSUME NEW i \in Stored', NEW j \in Stored', i < j
          PROVE  store'[i].id < store'[j].id
      <4>1. i \in Stored
        BY <2>1, <3>5
      <4>2. CASE j \in Stored
        BY <2>1, <3>2, <3>5, <4>1, <4>2
      <4>3. CASE j = Len(store) + 1
        BY <2>1, <3>1, <4>1, <4>3
      <4> QED
        BY <3>3, <4>2, <4>3
    <3> QED
      BY <3>4, <3>5
  <2>5. ASSUME NEW o \in Outputs, Has(o)'
        PROVE  val'[o].id <= count' /\ \A i \in Stored' : store'[i].id # val'[o].id
    <3>1. Has(o) /\ val' = val /\ val[o].id \in Nat /\ val[o].id <= count
      BY <2>2, <2>3, <2>5 DEF Where, Has
    <3>2. ASSUME NEW i \in Stored'
          PROVE  store'[i].id # val[o].id
      <4>1. CASE i \in Stored
        BY <2>1, <3>1, <4>1 DEF Where
      <4>2. CASE i = Len(store) + 1
        BY <2>1, <3>1, <4>2
      <4> QED
        BY <2>1, <4>1, <4>2
    <3> QED
      BY <2>1, <3>1, <3>2
  <2>6. ASSUME NEW e \in done'
        PROVE  /\ e.id <= count'
               /\ \A i \in Stored' : store'[i].id # e.id
               /\ \A o \in Outputs : Has(o)' => val'[o].id # e.id
    BY <2>1, <2>2, <2>3 DEF Where, Has
  <2>7. ASSUME crashes' = 0, NEW k \in 1 .. count'
        PROVE  \/ \E e \in done' : e.id = k
               \/ \E i \in Stored' : store'[i].id = k
               \/ \E o \in Outputs : Has(o)' /\ val'[o].id = k
    <3>1. CASE k = count + 1
      BY <2>1, <3>1
    <3>2. CASE k \in 1 .. count
      <4>1. \/ \E e \in done : e.id = k
            \/ \E i \in Stored : store[i].id = k
            \/ \E o \in Outputs : Has(o) /\ val[o].id = k
        BY <2>2, <2>7, <3>2 DEF Where
      <4>2. \A i \in Stored : i \in Stored' /\ store'[i] = store[i]
        BY <2>1
      <4>3. (\E i \in Stored : store[i].id = k) => \E i \in Stored' : store'[i].id = k
        BY <4>2
      <4> QED
        BY <2>2, <4>1, <4>3 DEF Has
    <3> QED
      BY <2>1, <3>1, <3>2
  <2> QED
    BY <2>2, <2>4, <2>5, <2>6, <2>7 DEF Where, Has
<1>2. ASSUME NEW o \in Outputs, pop(o)
      PROVE  Where'
  <2>1. PICK i \in Stored :
             /\ val' = [val EXCEPT ![o] = store[i]] /\ store[i] \in Entry
             /\ Len(store') = Len(store) - 1
             /\ \A k \in 1 .. (Len(store) - 1) :
                  store'[k] = IF k < i THEN store[k] ELSE store[k + 1]
    BY <1>2, Popped
  <2>2. UNCHANGED <<count, done, crashes>> /\ ~ Has(o)
    BY <1>2 DEF pop, outVars, Control
  <2>3. /\ \A k \in Stored' : \E j \in Stored \ {i} : store'[k] = store[j]
        /\ \A j \in Stored \ {i} : \E k \in Stored' : store'[k] = store[j]
        /\ \A k, m \in Stored' : k < m =>
             \E j, n \in Stored : j < n /\ store'[k] = store[j] /\ store'[m] = store[n]
    BY <2>1, Left
  <2>4. \A p \in Outputs : val'[p] = IF p = o THEN store[i] ELSE val[p]
    BY <2>1 DEF Types
  <2>5. store[i] # None
    BY <2>1, EntryFacts
  <2>6. \A j \in Stored \ {i} : store[j].id # store[i].id
    <3>1. \A j \in Stored : store[j].id \in Nat
      BY EntryFacts DEF Types, Stored
    <3> QED
      BY <3>1 DEF Where, Stored
  <2>7. /\ \A k, m \in Stored' : k < m => store'[k].id < store'[m].id
        /\ \A k \in Stored' : store'[k].id <= count'
    BY <2>2, <2>3 DEF Where
  <2>8. ASSUME NEW p \in Outputs, Has(p)'
        PROVE  val'[p].id <= count' /\ \A k \in Stored' : store'[k].id # val'[p].id
    BY <2>2, <2>3, <2>4, <2>6, <2>8 DEF Where, Has
  <2>9. ASSUME NEW p \in Outputs, NEW q \in Outputs, p # q, Has(p)', Has(q)'
        PROVE  val'[p].id # val'[q].id
    BY <2>4, <2>9 DEF Where, Has
  <2>10. ASSUME NEW e \in done'
         PROVE  /\ e.id <= count'
                /\ \A k \in Stored' : store'[k].id # e.id
                /\ \A p \in Outputs : Has(p)' => val'[p].id # e.id
    BY <2>2, <2>3, <2>4 DEF Where, Has
  <2>11. ASSUME crashes' = 0, NEW k \in 1 .. count'
         PROVE  \/ \E e \in done' : e.id = k
                \/ \E j \in Stored' : store'[j].id = k
                \/ \E p \in Outputs : Has(p)' /\ val'[p].id = k
    <3>1. CASE \E e \in done : e.id = k
      BY <2>2, <3>1
    <3>2. CASE store[i].id = k
      BY <2>4, <2>5, <3>2 DEF Has
    <3>3. CASE \E j \in Stored \ {i} : store[j].id = k
      BY <2>3, <3>3
    <3>4. CASE \E p \in Outputs : Has(p) /\ val[p].id = k
      BY <2>2, <2>4, <3>4 DEF Has
    <3> QED
      BY <2>2, <2>11, <3>1, <3>2, <3>3, <3>4 DEF Where
  <2> QED
    BY <2>7, <2>8, <2>9, <2>10, <2>11 DEF Where
<1>3. ASSUME NEW o \in Outputs, Unlock(o)
      PROVE  Where'
  <2>1. /\ \A p \in Outputs : val'[p] = IF p = o THEN None ELSE val[p]
        /\ done' = done \cup {val[o]}
        /\ Stored' = Stored /\ UNCHANGED <<store, count, crashes>>
        /\ Has(o)
    BY <1>3 DEF Unlock, Types, Control, Stored
  <2>2. ASSUME NEW e \in done'
        PROVE  /\ e.id <= count'
               /\ \A k \in Stored' : store'[k].id # e.id
               /\ \A p \in Outputs : Has(p)' => val'[p].id # e.id
    BY <2>1 DEF Where, Has
  <2>3. ASSUME crashes' = 0, NEW k \in 1 .. count'
        PROVE  \/ \E e \in done' : e.id = k
               \/ \E j \in Stored' : store'[j].id = k
               \/ \E p \in Outputs : Has(p)' /\ val'[p].id = k
    <3>1. CASE \E p \in Outputs : Has(p) /\ val[p].id = k
      BY <2>1, <3>1 DEF Has
    <3> QED
      BY <2>1, <2>3, <3>1 DEF Where
  <2> QED
    BY <2>1, <2>2, <2>3 DEF Where, Has
<1>4. CASE Restart
  <2>1. /\ Stored' = {} /\ done' = {} /\ crashes' # 0
        /\ \A p \in Outputs : ~ Has(p)'
    BY <1>4 DEF Restart, Stored, Has, Types
  <2> QED
    BY <2>1 DEF Where
<1>5. CASE UNCHANGED <<store, count, val, done, crashes>>
  BY <1>5 DEF Where, Has, Stored
<1>6. ASSUME NEW o \in Outputs,
             Lock(o) \/ (\E s \in Streams : Write(o, s)) \/ NotDue(o) \/ Rotates(o) \/ Rotated(o)
      PROVE  UNCHANGED <<store, count, val, done, crashes>>
  BY <1>6 DEF Lock, Write, NotDue, Rotates, Rotated, outVars
<1>7. ASSUME (\E s \in Streams : bind(s) \/ unbind(s)) \/ OpenLogFile \/ UNCHANGED vars
      PROVE  UNCHANGED <<store, count, val, done, crashes>>
  BY <1>7 DEF bind, unbind, OpenLogFile, vars, outVars
<1> QED
  BY <1>0, <1>1, <1>2, <1>3, <1>4, <1>5, <1>6, <1>7 DEF Next, OutputThread

LEMMA KeepsGiven ==
    ASSUME Types, Types', Control, Where, Given, [Next]_vars
    PROVE  Given'
<1>0. program.outputs \subseteq Outputs
  BY Threads
<1>1. ASSUME NEW o \in Outputs, pop(o)
      PROVE  Given'
  <2>1. /\ UNCHANGED <<out, done, steady, todo>>
        /\ pc[o] # "write" /\ pc'[o] # "write"
        /\ \A p \in Outputs : p # o => pc'[p] = pc[p] /\ val'[p] = val[p]
    BY <1>1 DEF pop, outVars, Types
  <2> QED
    BY <2>1 DEF Given
<1>2. ASSUME NEW o \in Outputs, Lock(o)
      PROVE  Given'
  <2>1. /\ UNCHANGED <<out, done, val>>
        /\ pc[o] # "write" /\ steady' \subseteq steady
        /\ \A s \in steady' : val[o].level \in Accepts[s] => s \in todo'[o]
        /\ \A p \in Outputs : p # o => pc'[p] = pc[p] /\ todo'[p] = todo[p]
    BY <1>2 DEF Lock, Types
  <2> QED
    BY <2>1 DEF Given
<1>3. ASSUME NEW o \in Outputs, NEW s \in Streams, Write(o, s)
      PROVE  Given'
  <2>1. /\ UNCHANGED <<pc, val, done, steady>> /\ pc[o] = "write" /\ s \in todo[o]
        /\ Has(o) /\ val[o] \in Entry
        /\ \A p \in Outputs : todo'[p] = IF p = o THEN todo[o] \ {s} ELSE todo[p]
    BY <1>3 DEF Write, Control, Types, Has
  <2>2. /\ \A t \in Streams : t # s => out'[t] = out[t]
        /\ out[s] \in Seq(Entry) /\ out'[s] = Append(out[s], val[o])
    BY <1>3 DEF Write, Types
  <2>3. /\ Len(out[s]) \in Nat /\ Len(out'[s]) = Len(out[s]) + 1
        /\ \A i \in 1 .. Len(out[s]) : out'[s][i] = out[s][i]
        /\ out'[s][Len(out[s]) + 1] = val[o]
        /\ 1 .. Len(out'[s]) = (1 .. Len(out[s])) \cup {Len(out[s]) + 1}
    BY <2>1, <2>2
  <2>4. \A i \in 1 .. Len(out[s]) : out[s][i] # val[o]
    BY <2>1 DEF Given, Where, Control
  <2>5. ASSUME NEW t \in Streams, t # s
        PROVE  /\ \A i \in 1 .. Len(out'[t]) :
                    \/ out'[t][i] \in done'
                    \/ \E p \in Outputs :
                         pc'[p] = "write" /\ t \notin todo'[p] /\ out'[t][i] = val'[p]
               /\ \A i, j \in 1 .. Len(out'[t]) : out'[t][i] = out'[t][j] => i = j
               /\ t \in steady' =>
                    /\ \A e \in done' : e.level \in Accepts[t] =>
                         \E i \in 1 .. Len(out'[t]) : out'[t][i] = e
                    /\ \A p \in Outputs :
                         pc'[p] = "write" /\ t \notin todo'[p] /\ val'[p].level \in Accepts[t] =>
                           \E i \in 1 .. Len(out'[t]) : out'[t][i] = val'[p]
    <3>1. out'[t] = out[t] /\ \A p \in Outputs : t \in todo'[p] <=> t \in todo[p]
      BY <2>1, <2>2, <2>5
    <3> QED
      BY <2>1, <3>1 DEF Given
  <2>6. \A i \in 1 .. Len(out'[s]) :
          \/ out'[s][i] \in done'
          \/ \E p \in Outputs : pc'[p] = "write" /\ s \notin todo'[p] /\ out'[s][i] = val'[p]
    <3>1. ASSUME NEW i \in 1 .. Len(out[s])
          PROVE  \/ out'[s][i] \in done'
                 \/ \E p \in Outputs :
                      pc'[p] = "write" /\ s \notin todo'[p] /\ out'[s][i] = val'[p]
      <4>1. \/ out[s][i] \in done
            \/ \E p \in Outputs : pc[p] = "write" /\ s \notin todo[p] /\ out[s][i] = val[p]
        BY DEF Given
      <4>2. \A p \in Outputs : s \notin todo[p] => s \notin todo'[p]
        BY <2>1
      <4> QED
        BY <2>1, <2>3, <4>1, <4>2
    <3>2. s \notin todo'[o] /\ pc'[o] = "write" /\ out'[s][Len(out[s]) + 1] = val'[o]
      BY <2>1, <2>3
    <3> QED
      BY <2>3, <3>1, <3>2
  <2>7. \A i, j \in 1 .. Len(out'[s]) : out'[s][i] = out'[s][j] => i = j
    <3>1. \A i, j \in 1 .. Len(out[s]) : out[s][i] = out[s][j] => i = j
      BY DEF Given
    <3>2. \A i \in 1 .. Len(out[s]) : out'[s][i] # out'[s][Len(out[s]) + 1]
      BY <2>3, <2>4
    <3>3. ASSUME NEW i \in 1 .. Len(out'[s]), NEW j \in 1 .. Len(out'[s]),
                 out'[s][i] = out'[s][j]
          PROVE  i = j
      <4>1. CASE i \in 1 .. Len(out[s]) /\ j \in 1 .. Len(out[s])
        BY <2>3, <3>1, <3>3, <4>1
      <4> QED
        BY <2>3, <3>2, <3>3, <4>1
    <3> QED
      BY <3>3
  <2>8. ASSUME s \in steady'
        PROVE  /\ \A e \in done' : e.level \in Accepts[s] =>
                    \E i \in 1 .. Len(out'[s]) : out'[s][i] = e
               /\ \A p \in Outputs :
                    pc'[p] = "write" /\ s \notin todo'[p] /\ val'[p].level \in Accepts[s] =>
                      \E i \in 1 .. Len(out'[s]) : out'[s][i] = val'[p]
    <3>1. \A e \in done' : e.level \in Accepts[s] =>
            \E i \in 1 .. Len(out'[s]) : out'[s][i] = e
      <4>1. \A e \in done : e.level \in Accepts[s] => \E i \in 1 .. Len(out[s]) : out[s][i] = e
        BY <2>1, <2>8 DEF Given
      <4> QED
        BY <2>1, <2>3, <4>1
    <3>2. ASSUME NEW p \in Outputs,
                 pc'[p] = "write", s \notin todo'[p], val'[p].level \in Accepts[s]
          PROVE  \E i \in 1 .. Len(out'[s]) : out'[s][i] = val'[p]
      <4>1. CASE p = o
        BY <2>1, <2>3, <4>1
      <4>2. CASE p # o
        <5>1. \E i \in 1 .. Len(out[s]) : out[s][i] = val[p]
          BY <2>1, <2>8, <3>2, <4>2 DEF Given
        <5> QED
          BY <2>1, <2>3, <5>1
      <4> QED
        BY <4>1, <4>2
    <3> QED
      BY <3>1, <3>2
  <2> QED
    BY <2>5, <2>6, <2>7, <2>8 DEF Given
<1>4. ASSUME NEW o \in Outputs, Unlock(o)
      PROVE  Given'
  <2>1. /\ UNCHANGED <<out, steady, todo>> /\ done' = done \cup {val[o]}
        /\ pc[o] = "write" /\ pc'[o] # "write" /\ todo[o] = {}
        /\ \A p \in Outputs : p # o => pc'[p] = pc[p] /\ val'[p] = val[p]
    BY <1>4 DEF Unlock, Types
  <2> QED
    BY <2>1 DEF Given
<1>5. CASE Restart
  <2>1. /\ done' = {} /\ \A s \in Streams : Len(out'[s]) = 0
        /\ \A o \in Outputs : pc'[o] # "write"
    BY <1>5 DEF Restart
  <2> QED
    BY <2>1 DEF Given
<1>6. ASSUME UNCHANGED <<out, done, steady, todo, val>>,
             \A o \in Outputs : pc'[o] = "write" <=> pc[o] = "write"
      PROVE  Given'
  BY <1>6 DEF Given
<1>7. ASSUME NEW o \in Outputs, NotDue(o) \/ Rotates(o) \/ Rotated(o)
      PROVE  /\ UNCHANGED <<out, done, steady, todo, val>>
             /\ \A p \in Outputs : pc'[p] = "write" <=> pc[p] = "write"
  BY <1>7 DEF NotDue, Rotates, Rotated, outVars, Types
<1>8. ASSUME \/ \E l \in Levels : logging(l)
             \/ \E s \in Streams : bind(s) \/ unbind(s)
             \/ OpenLogFile \/ UNCHANGED vars
      PROVE  UNCHANGED <<out, done, steady, todo, val, pc>>
  BY <1>8 DEF logging, bind, unbind, OpenLogFile, vars, outVars
<1> QED
  BY <1>0, <1>1, <1>2, <1>3, <1>4, <1>5, <1>6, <1>7, <1>8 DEF Next, OutputThread

LEMMA KeepsWritten ==
    ASSUME Types, Types', Control, Where, Written, [Next]_vars
    PROVE  Written'
<1>0. program.outputs \subseteq Outputs
  BY Threads
<1>1. ASSUME NEW l \in Levels, logging(l)
      PROVE  Written'
  <2>1. /\ count \in Nat /\ count' = count + 1
        /\ \A k \in Stored : store'[k] = store[k]
        /\ store'[Len(store) + 1].id = count + 1
        /\ Stored' = Stored \cup {Len(store) + 1}
    BY <1>1, Logged DEF Types
  <2>2. UNCHANGED <<val, pc, todo, lines>>
    BY <1>1 DEF logging, outVars, rotateVars
  <2> QED
    BY <2>1, <2>2 DEF Written, Has
<1>2. ASSUME NEW o \in Outputs, pop(o)
      PROVE  Written'
  <2>1. PICK i \in Stored :
             /\ val' = [val EXCEPT ![o] = store[i]]
             /\ Len(store') = Len(store) - 1
             /\ \A k \in 1 .. (Len(store) - 1) :
                  store'[k] = IF k < i THEN store[k] ELSE store[k + 1]
    BY <1>2, Popped
  <2>2. \A k \in Stored' : \E j \in Stored : store'[k] = store[j]
    BY <2>1, Left
  <2>3. /\ UNCHANGED <<count, todo, lines>>
        /\ \A p \in Outputs : val'[p] = IF p = o THEN store[i] ELSE val[p]
        /\ \A p \in Outputs : p # o => pc'[p] = pc[p]
    BY <1>2, <2>1 DEF pop, Types, outVars, rotateVars
  <2> QED
    BY <2>2, <2>3 DEF Written, Has
<1>3. ASSUME NEW o \in Outputs, Lock(o)
      PROVE  Written'
  <2>1. /\ UNCHANGED <<count, store, val, lines>> /\ Stored' = Stored /\ pc[o] # "write"
        /\ \A p \in Outputs : p # o => pc'[p] = pc[p] /\ todo'[p] = todo[p]
    BY <1>3 DEF Lock, Types, rotateVars, Stored
  <2> QED
    BY <2>1 DEF Written, Has
<1>4. ASSUME NEW o \in Outputs, NEW s \in Streams, Write(o, s)
      PROVE  Written'
  <2>1. /\ UNCHANGED <<count, store, val, pc>> /\ Stored' = Stored
        /\ pc[o] = "write" /\ Has(o) /\ val[o].id \in 1 .. MaxEntries
        /\ \A p \in Outputs : todo'[p] = IF p = o THEN todo[o] \ {s} ELSE todo[p]
    BY <1>4, EntryFacts DEF Write, Control, Types, Has, Stored
  <2>2. lines' = lines \/ (s = LogFile /\ lines' = lines \cup {val[o].id})
    BY <1>4 DEF Write, Rotate!Write, Rotate!vars, rotateVars
  <2>3. ASSUME NEW k \in lines
        PROVE  /\ k \in 1 .. count' /\ \A i \in Stored' : store'[i].id # k
               /\ \A p \in Outputs : Has(p)' /\ val'[p].id = k =>
                    pc'[p] = "write" /\ LogFile \notin todo'[p]
    BY <2>1 DEF Written, Has
  <2>4. ASSUME s = LogFile
        PROVE  /\ val[o].id \in 1 .. count' /\ \A i \in Stored' : store'[i].id # val[o].id
               /\ \A p \in Outputs : Has(p)' /\ val'[p].id = val[o].id =>
                    pc'[p] = "write" /\ LogFile \notin todo'[p]
    <3>1. val[o].id <= count /\ \A i \in Stored : store[i].id # val[o].id
      BY <2>1 DEF Where
    <3>2. \A p \in Outputs : Has(p) /\ val[p].id = val[o].id => p = o
      BY <2>1 DEF Where
    <3> QED
      BY <2>1, <2>4, <3>1, <3>2 DEF Has, Types
  <2> QED
    BY <2>2, <2>3, <2>4 DEF Written
<1>5. ASSUME NEW o \in Outputs, Unlock(o)
      PROVE  Written'
  <2>1. /\ UNCHANGED <<count, store, todo, lines>> /\ Stored' = Stored /\ val'[o] = None
        /\ \A p \in Outputs : p # o => pc'[p] = pc[p] /\ val'[p] = val[p]
    BY <1>5 DEF Unlock, Types, rotateVars, Stored
  <2> QED
    BY <2>1 DEF Written, Has
<1>6. ASSUME NEW o \in Outputs, NotDue(o) \/ Rotates(o) \/ Rotated(o)
      PROVE  Written'
  <2>1. UNCHANGED <<count, store, todo, val>> /\ Stored' = Stored
    BY <1>6 DEF NotDue, Rotates, Rotated, outVars, Stored
  <2>2. lines' = lines
    BY <1>6 DEF NotDue, Rotates, Rotated, rotateVars, Rotate!action, Rotate!Rotating,
                Rotate!read_txt_write_gz, Rotate!Compressed, Rotate!Truncate, Rotate!Reopen
  <2>3. \A p \in Outputs : pc'[p] = "write" <=> pc[p] = "write"
    BY <1>6 DEF NotDue, Rotates, Rotated, Types
  <2> QED
    BY <2>1, <2>2, <2>3 DEF Written, Has
<1>7. CASE Restart
  <2>1. lines' = lines
    BY <1>7 DEF Restart, Rotate!Crash, rotateVars
  <2>2. /\ count' = count /\ Stored' = {} /\ \A o \in Outputs : ~ Has(o)'
    BY <1>7 DEF Restart, Stored, Has
  <2> QED
    BY <2>1, <2>2 DEF Written
<1>8. ASSUME (\E s \in Streams : bind(s) \/ unbind(s)) \/ OpenLogFile \/ UNCHANGED vars
      PROVE  Written'
  <2>1. UNCHANGED <<count, store, val, pc, todo, lines>> /\ Stored' = Stored
    BY <1>8 DEF bind, unbind, OpenLogFile, Rotate!bind, vars, outVars, rotateVars, Stored
  <2> QED
    BY <2>1 DEF Written, Has
<1> QED
  BY <1>0, <1>1, <1>2, <1>3, <1>4, <1>5, <1>6, <1>7, <1>8 DEF Next, OutputThread

LEMMA KeepsOrdered ==
    ASSUME Types, Types', Control, Control', Where, Given, Ordered,
           [Next]_vars
    PROVE  Ordered'
<1>0. program.outputs \subseteq Outputs
  BY Threads
<1> SUFFICES ASSUME NEW o \in Outputs, program.outputs = {o}
             PROVE  Ordered'
  <2>1. program' = program
    BY DEF Next, OutputThread, logging, pop, Lock, Write, Unlock, NotDue, Rotates, Rotated,
           bind, unbind, OpenLogFile, Restart, vars
  <2>2. ASSUME Cardinality(program.outputs) = 1
        PROVE  \E o \in Outputs : program.outputs = {o}
    <3>1. IsFiniteSet(program.outputs)
      BY LoggingAssumption DEF LoggingAssumption, Types
    <3>2. \E o : program.outputs = {o}
      BY <2>2, <3>1, FS_Singleton
    <3> QED
      BY <1>0, <3>2
  <2> QED
    BY <2>1, <2>2 DEF Ordered
<1>1. Cardinality(program.outputs) = 1
  BY FS_Singleton
<1>2. /\ \A p \in Outputs : Has(p) => p = o
      /\ \A i \in Stored : Has(o) => Over(val[o], store[i])
      /\ \A s \in Streams : \A n \in 1 .. Len(out[s]) :
           /\ \A i \in Stored : Over(out[s][n], store[i])
           /\ Has(o) => Over(out[s][n], val[o])
           /\ \A m \in 1 .. Len(out[s]) : n < m => Over(out[s][n], out[s][m])
  BY <1>1 DEF Ordered, Control
<1> DEFINE Goal ==
             /\ \A i \in Stored' : Has(o)' => Over(val[o], store[i])'
             /\ \A s \in Streams : \A n \in 1 .. Len(out'[s]) :
                  /\ \A i \in Stored' : Over(out[s][n], store[i])'
                  /\ Has(o)' => Over(out[s][n], val[o])'
                  /\ \A m \in 1 .. Len(out'[s]) : n < m => Over(out[s][n], out[s][m])'
<1>3. ASSUME Goal, UNCHANGED program
      PROVE  Ordered'
  <2>1. \A p \in Outputs : Has(p)' => p = o
    BY <1>3 DEF Control
  <2> QED
    BY <1>3, <2>1 DEF Ordered
<1>4. ASSUME NEW l \in Levels, logging(l)
      PROVE  Goal /\ UNCHANGED program
  <2>1. /\ count \in Nat
        /\ \A k \in Stored : store'[k] = store[k]
        /\ store'[Len(store) + 1].id = count + 1
        /\ Stored' = Stored \cup {Len(store) + 1}
    BY <1>4, Logged DEF Types
  <2>2. UNCHANGED <<program, val, out>>
    BY <1>4 DEF logging, outVars
  <2>3. \A e \in Entry : e.id \in Nat
    BY EntryFacts
  <2>4. Has(o) => val[o].id <= count /\ val[o] \in Entry
    BY DEF Where, Has, Types
  <2>5. ASSUME NEW s \in Streams, NEW n \in 1 .. Len(out[s])
        PROVE  out[s][n].id <= count /\ out[s][n] \in Entry
    <3>1. out[s][n] \in Entry
      BY DEF Types
    <3>2. out[s][n] \in done \/ \E p \in Outputs : pc[p] = "write" /\ out[s][n] = val[p]
      BY DEF Given
    <3> QED
      BY <3>1, <3>2 DEF Where, Control
  <2>6. ASSUME NEW e \in Entry, e.id <= count, \A i \in Stored : Over(e, store[i]),
               NEW i \in Stored'
        PROVE  Over(e, store[i])'
    <3>1. CASE i \in Stored
      BY <2>1, <2>2, <2>6, <3>1 DEF Over
    <3>2. CASE i = Len(store) + 1
      <4>1. ~ (e.id > store'[i].id)
        BY <2>1, <2>3, <2>6, <3>2
      <4> QED
        BY <4>1 DEF Over
    <3> QED
      BY <2>1, <3>1, <3>2
  <2>7. ASSUME NEW i \in Stored', Has(o)'
        PROVE  Over(val[o], store[i])'
    <3>1. Has(o) /\ val' = val
      BY <2>2, <2>7 DEF Has
    <3> QED
      BY <1>2, <2>4, <2>6, <3>1 DEF Over
  <2>8. ASSUME NEW s \in Streams, NEW n \in 1 .. Len(out'[s])
        PROVE  /\ \A i \in Stored' : Over(out[s][n], store[i])'
               /\ Has(o)' => Over(out[s][n], val[o])'
               /\ \A m \in 1 .. Len(out'[s]) : n < m => Over(out[s][n], out[s][m])'
    <3>1. out' = out /\ n \in 1 .. Len(out[s])
      BY <2>2
    <3>2. \A i \in Stored' : Over(out[s][n], store[i])'
      BY <1>2, <2>5, <2>6, <3>1 DEF Over
    <3> QED
      BY <1>2, <2>2, <3>1, <3>2 DEF Over, Has
  <2> QED
    BY <2>2, <2>7, <2>8
<1>5. ASSUME pop(o)
      PROVE  Goal /\ UNCHANGED program
  <2>1. PICK i \in Stored :
             /\ val' = [val EXCEPT ![o] = store[i]]
             /\ Len(store') = Len(store) - 1
             /\ \A k \in 1 .. (Len(store) - 1) :
                  store'[k] = IF k < i THEN store[k] ELSE store[k + 1]
             /\ \A j \in Stored : j < i => /\ program.queue = "priority"
                                          /\ Rank(store[i].level) < Rank(store[j].level)
    BY <1>5, Popped
  <2>2. \A k \in Stored' : \E j \in Stored \ {i} : store'[k] = store[j]
    BY <2>1, Left
  <2>3. UNCHANGED <<program, out>> /\ val'[o] = store[i]
    BY <1>5, <2>1 DEF pop, outVars, Types
  <2>4. \A j \in Stored \ {i} : Over(store[i], store[j])
    <3>1. \A j \in Stored : store[j].id \in Nat
      BY EntryFacts DEF Types, Stored
    <3>2. ASSUME NEW j \in Stored, i < j
          PROVE  ~ (store[i].id > store[j].id)
      BY <3>1, <3>2 DEF Where
    <3>3. \A j \in Stored \ {i} : i < j \/ j < i
      BY DEF Stored
    <3> QED
      BY <2>1, <3>2, <3>3 DEF Over
  <2>5. ASSUME NEW k \in Stored'
        PROVE  /\ Over(val[o], store[k])'
               /\ \A s \in Streams : \A n \in 1 .. Len(out[s]) : Over(out[s][n], store[k])'
    BY <1>2, <2>2, <2>3, <2>4 DEF Over
  <2>6. \A s \in Streams : \A n \in 1 .. Len(out'[s]) :
          /\ Over(out[s][n], val[o])'
          /\ \A m \in 1 .. Len(out'[s]) : n < m => Over(out[s][n], out[s][m])'
    BY <1>2, <2>3 DEF Over
  <2> QED
    BY <2>3, <2>5, <2>6
<1>6. ASSUME NEW t \in Streams, Write(o, t)
      PROVE  Goal /\ UNCHANGED program
  <2>1. /\ UNCHANGED <<program, store, val>> /\ Stored' = Stored /\ Has(o)
        /\ val[o] \in Entry /\ val[o].id \in Nat
    BY <1>6, EntryFacts DEF Write, Stored, Control, Types, Has
  <2>2. /\ \A s \in Streams : s # t => out'[s] = out[s]
        /\ out[t] \in Seq(Entry) /\ out'[t] = Append(out[t], val[o])
    BY <1>6 DEF Write, Types
  <2>3. /\ Len(out[t]) \in Nat /\ Len(out'[t]) = Len(out[t]) + 1
        /\ \A i \in 1 .. Len(out[t]) : out'[t][i] = out[t][i]
        /\ out'[t][Len(out[t]) + 1] = val[o]
        /\ 1 .. Len(out'[t]) = (1 .. Len(out[t])) \cup {Len(out[t]) + 1}
    BY <2>1, <2>2
  <2>4. Over(val[o], val[o])
    BY <2>1 DEF Over
  <2>5. ASSUME NEW s \in Streams, s # t, NEW n \in 1 .. Len(out'[s])
        PROVE  /\ \A i \in Stored' : Over(out[s][n], store[i])'
               /\ Over(out[s][n], val[o])'
               /\ \A m \in 1 .. Len(out'[s]) : n < m => Over(out[s][n], out[s][m])'
    <3>1. out'[s] = out[s]
      BY <2>2, <2>5
    <3> QED
      BY <1>2, <2>1, <3>1 DEF Over
  <2>6. ASSUME NEW n \in 1 .. Len(out'[t])
        PROVE  /\ \A i \in Stored' : Over(out[t][n], store[i])'
               /\ Over(out[t][n], val[o])'
               /\ \A m \in 1 .. Len(out'[t]) : n < m => Over(out[t][n], out[t][m])'
    <3>1. CASE n \in 1 .. Len(out[t])
      BY <1>2, <2>1, <2>3, <3>1 DEF Over
    <3>2. CASE n = Len(out[t]) + 1
      <4>1. \A m \in 1 .. Len(out'[t]) : ~ (n < m)
        BY <2>3, <3>2
      <4> QED
        BY <1>2, <2>1, <2>3, <2>4, <3>2, <4>1 DEF Over
    <3> QED
      BY <2>3, <3>1, <3>2
  <2>7. \A i \in Stored' : Over(val[o], store[i])'
    BY <1>2, <2>1 DEF Over
  <2> QED
    BY <2>1, <2>5, <2>6, <2>7
<1>7. ASSUME Unlock(o)
      PROVE  Goal /\ UNCHANGED program
  <2>1. UNCHANGED <<program, store, out>> /\ Stored' = Stored /\ ~ Has(o)'
    BY <1>7 DEF Unlock, Stored, Has, Types
  <2> QED
    BY <1>2, <2>1 DEF Over
<1>8. CASE Restart
  <2>1. /\ program' = program /\ ~ Has(o)' /\ \A s \in Streams : Len(out'[s]) = 0
    BY <1>8 DEF Restart, Has
  <2> QED
    BY <1>3, <2>1
<1>9. CASE UNCHANGED <<program, store, val, out>>
  <2>1. program' = program /\ store' = store /\ val' = val /\ out' = out
    BY <1>9
  <2>2. Stored' = Stored
    BY <2>1 DEF Stored
  <2>3. Goal
    BY <1>2, <2>1, <2>2 DEF Over, Has
  <2> QED
    BY <1>3, <2>1, <2>3
<1>10. ASSUME Lock(o) \/ NotDue(o) \/ Rotates(o) \/ Rotated(o)
       PROVE  UNCHANGED <<program, store, val, out>>
  BY <1>10 DEF Lock, NotDue, Rotates, Rotated, outVars
<1>11. ASSUME (\E s \in Streams : bind(s) \/ unbind(s)) \/ OpenLogFile \/ UNCHANGED vars
       PROVE  UNCHANGED <<program, store, val, out>>
  BY <1>11 DEF bind, unbind, OpenLogFile, vars, outVars
<1> HIDE DEF Goal
<1>12. ASSUME NEW p \in program.outputs, OutputThread(p)
       PROVE  Ordered'
  <2>1. p = o
    OBVIOUS
  <2>2. pop(o) \/ Unlock(o) \/ (\E s \in Streams : Write(o, s)) => Ordered'
    BY <1>3, <1>5, <1>6, <1>7
  <2>3. Lock(o) \/ NotDue(o) \/ Rotates(o) \/ Rotated(o) => Ordered'
    BY <1>9, <1>10
  <2> QED
    BY <1>12, <2>1, <2>2, <2>3 DEF OutputThread
<1>13. (\E l \in Levels : logging(l)) => Ordered'
  BY <1>3, <1>4
<1> QED
  BY <1>8, <1>9, <1>11, <1>12, <1>13 DEF Next

-----------------------------------------------------------------------------
(* The theorems.                                                           *)

IInv == Types /\ Control /\ Where /\ Given /\ Written /\ Ordered

\* Every entry is in one place, whatever the threads, the streams and the log
\* file do, and through any number of restarts.
THEOREM Invariance == Spec => []IInv
<1>1. ASSUME Init
      PROVE  IInv
  <2>1. /\ program \in Programs /\ store = <<>> /\ count = 0 /\ crashes = 0
        /\ pc = [o \in Outputs |-> "pop"] /\ val = [o \in Outputs |-> None]
        /\ todo = [o \in Outputs |-> {}] /\ _outstreamlock = "nobody" /\ _outstream = {}
        /\ steady = Streams /\ out = [s \in Streams |-> <<>>] /\ done = {}
        /\ step = "unbound" /\ lines = {}
    BY <1>1 DEF Init, Rotate!Init
  <2>2. MaxEntries \in Nat /\ "nobody" \notin Outputs
    BY <1>1, LoggingAssumption DEF LoggingAssumption, Outputs
  <2>3. Types
    BY <2>1, <2>2 DEF Types
  <2>4. Stored = {} /\ \A o \in Outputs : ~ Has(o)
    BY <2>1 DEF Stored, Has
  <2>5. \A s \in Streams : Len(out[s]) = 0
    BY <2>1
  <2>6. Control
    BY <2>1, <2>2, <2>4 DEF Control
  <2>7. Where
    BY <2>1, <2>4 DEF Where
  <2>8. Given
    BY <2>1, <2>5 DEF Given
  <2>9. Written /\ Ordered
    BY <2>1, <2>4, <2>5 DEF Written, Ordered
  <2> QED
    BY <2>3, <2>6, <2>7, <2>8, <2>9 DEF IInv
<1>2. ASSUME IInv, [Next]_vars
      PROVE  IInv'
  <2>1. Types' /\ Control'
    BY <1>2, KeepsTypes, KeepsControl DEF IInv
  <2> QED
    BY <1>2, <2>1, KeepsWhere, KeepsGiven, KeepsWritten, KeepsOrdered DEF IInv
<1> QED
  BY <1>1, <1>2, PTL DEF Spec

\* An entry is never in two places, given to a stream twice or, before the
\* process ends, lost; a stream that stays bound gets all of its levels.
THEOREM NoEntryVanishes == Spec => []NoneVanishes
<1>1. ASSUME IInv
      PROVE  NoneVanishes
  <2> USE <1>1 DEF IInv
  <2>1. /\ Len(store) \in Nat /\ DOMAIN store = Stored /\ Stored = 1 .. Len(store)
        /\ InStore = {store[i] : i \in Stored}
        /\ \A i \in Stored : store[i].id \in Nat
    BY EntryFacts DEF Types, Stored, InStore, ToSet
  <2>2. InHand = {val[o] : o \in {p \in Outputs : Has(p)}}
    BY DEF InHand, Has
  <2>3. \A s \in Streams : DOMAIN out[s] = 1 .. Len(out[s])
    BY DEF Types
  <2>4. IsInjective(store)
    <3>1. ASSUME NEW i \in Stored, NEW j \in Stored, store[i] = store[j], i # j
          PROVE  FALSE
      <4>1. i < j \/ j < i
        BY <2>1, <3>1
      <4>2. ASSUME NEW k \in Stored, NEW m \in Stored, k < m
            PROVE  store[k].id # store[m].id
        BY <2>1, <4>2 DEF Where
      <4> QED
        BY <3>1, <4>1, <4>2
    <3> QED
      BY <2>1, <3>1 DEF IsInjective
  <2>5. \A o, p \in Outputs : val[o] # None /\ val[o] = val[p] => o = p
    BY DEF Where, Has
  <2>6. InStore \cap (InHand \cup done) = {} /\ InHand \cap done = {}
    BY <2>1, <2>2 DEF Where
  <2>7. ASSUME crashes = 0
        PROVE  {e.id : e \in InStore \cup InHand \cup done} = 1 .. count
    <3>1. ASSUME NEW e \in InStore \cup InHand \cup done
          PROVE  e.id \in 1 .. count
      <4>1. e \in Entry /\ e.id <= count
        BY <2>1, <2>2 DEF Types, Where, Has, Stored
      <4> QED
        BY <4>1, EntryFacts DEF Types
    <3>2. ASSUME NEW k \in 1 .. count
          PROVE  \E e \in InStore \cup InHand \cup done : e.id = k
      BY <2>1, <2>2, <2>7 DEF Where
    <3> QED
      BY <3>1, <3>2
  <2>8. ASSUME NEW s \in Streams
        PROVE  /\ IsInjective(out[s])
               /\ s \in steady => {e \in done : e.level \in Accepts[s]} \subseteq ToSet(out[s])
    BY <2>3 DEF Given, IsInjective, ToSet
  <2> QED
    BY <2>4, <2>5, <2>6, <2>7, <2>8 DEF NoneVanishes
<1> QED
  BY <1>1, Invariance, PTL

\* A stream that unbind() has removed is not written to any more: what is still
\* to be written is to bound streams, and only under the lock unbind() takes.
THEOREM UnboundLeftAlone == Spec => []UnboundIsLeftAlone
<1> DEFINE Bound == \A o \in Outputs : /\ todo[o] \subseteq _outstream
                                       /\ pc[o] # "write" => todo[o] = {}
<1>1. Init => Bound
  BY DEF Init
<1>2. ASSUME IInv, Bound, [Next]_vars
      PROVE  Bound'
  <2>0. program.outputs \subseteq Outputs /\ "nobody" \notin Outputs
    BY <1>2, Threads DEF IInv
  <2>1. ASSUME NEW o \in program.outputs, OutputThread(o)
        PROVE  Bound'
    <3>1. CASE pop(o)
      BY <1>2, <2>0, <3>1 DEF pop, outVars, IInv, Types
    <3>2. CASE Lock(o)
      BY <1>2, <2>0, <3>2 DEF Lock, IInv, Types
    <3>3. ASSUME NEW s \in Streams, Write(o, s)
          PROVE  Bound'
      BY <1>2, <2>0, <3>3 DEF Write, IInv, Types
    <3>4. CASE Unlock(o)
      BY <1>2, <2>0, <3>4 DEF Unlock, IInv, Types
    <3>5. CASE NotDue(o)
      BY <1>2, <2>0, <3>5 DEF NotDue, outVars, IInv, Types
    <3>6. CASE Rotates(o)
      BY <1>2, <3>6 DEF Rotates, outVars
    <3>7. CASE Rotated(o)
      BY <1>2, <2>0, <3>7 DEF Rotated, outVars, IInv, Types
    <3> QED
      BY <2>1, <3>1, <3>2, <3>3, <3>4, <3>5, <3>6, <3>7 DEF OutputThread
  <2>2. ASSUME NEW s \in Streams, bind(s)
        PROVE  Bound'
    BY <1>2, <2>2 DEF bind
  <2>3. ASSUME NEW s \in Streams, unbind(s)
        PROVE  Bound'
    <3>1. \A o \in Outputs : pc[o] # "write"
      BY <1>2, <2>0, <2>3 DEF unbind, IInv, Control
    <3> QED
      BY <1>2, <2>3, <3>1 DEF unbind
  <2>4. ASSUME NEW l \in Levels, logging(l)
        PROVE  Bound'
    BY <1>2, <2>4 DEF logging, outVars
  <2>5. CASE OpenLogFile
    BY <1>2, <2>5 DEF OpenLogFile, outVars
  <2>6. CASE Restart
    BY <2>6 DEF Restart
  <2>7. CASE UNCHANGED vars
    BY <1>2, <2>7 DEF vars, outVars
  <2> QED
    BY <1>2, <2>1, <2>2, <2>3, <2>4, <2>5, <2>6, <2>7 DEF Next
<1>3. Bound => UnboundIsLeftAlone
  BY DEF UnboundIsLeftAlone
<1> HIDE DEF Bound
<1> QED
  BY <1>1, <1>2, <1>3, Invariance, PTL DEF Spec

\* With one output thread no entry is put before one that was logged earlier,
\* unless it has the priority.
THEOREM PriorityAloneOvertakes == Spec => []OnlyPriorityOvertakes
<1>1. ASSUME IInv
      PROVE  OnlyPriorityOvertakes
  <2>1. \A s \in Streams : DOMAIN out[s] = 1 .. Len(out[s])
    BY <1>1 DEF IInv, Types
  <2> QED
    BY <1>1, <2>1 DEF IInv, Ordered, Over, OnlyPriorityOvertakes
<1> QED
  BY <1>1, Invariance, PTL

\* What the program does to its log file is what Logrotate specifies: the file
\* is not written within action(), no line is written twice.
THEOREM UsesLogrotate == Spec => Rotate!Spec
<1>1. Init => Rotate!Init
  BY DEF Init
<1>2. ASSUME IInv, [Next]_vars
      PROVE  [Rotate!Next]_(Rotate!vars)
  <2>0. program.outputs \subseteq Outputs
    BY <1>2, Threads DEF IInv
  <2>1. ASSUME NEW o \in Outputs, NEW s \in Streams, Write(o, s), s = LogFile
        PROVE  Rotate!Next \/ UNCHANGED rotateVars
    <3>1. /\ Rotate!Write(val[o].id) /\ pc[o] = "write" /\ LogFile \in todo[o]
          /\ val[o] # None
      BY <1>2, <2>1 DEF Write, IInv, Control, Has
    <3>2. step \in {"unbound", "idle"}
      BY <1>2, <2>0, <3>1, Threads DEF IInv, Control
    <3>3. val[o].id \in Nat \ lines
      BY <1>2, <3>1, EntryFacts DEF IInv, Types, Written, Has
    <3> QED
      BY <3>1, <3>2, <3>3 DEF Rotate!Next, Rotate!Line
  <2>2. ASSUME NEW o \in Outputs, Rotates(o) \/ Rotated(o)
        PROVE  Rotate!Next
    BY <2>2 DEF Rotates, Rotated, Rotate!Next
  <2>3. ASSUME OpenLogFile
        PROVE  Rotate!Next
    BY <2>3 DEF OpenLogFile, Rotate!Next
  <2>4. ASSUME Restart
        PROVE  Rotate!Next \/ UNCHANGED rotateVars
    BY <2>4 DEF Restart, Rotate!Next
  <2>5. ASSUME NEW o \in Outputs,
               \/ pop(o) \/ Lock(o) \/ Unlock(o) \/ NotDue(o)
               \/ \E s \in Streams \ {LogFile} : Write(o, s)
        PROVE  UNCHANGED rotateVars
    BY <2>5 DEF pop, Lock, Unlock, NotDue, Write
  <2>6. ASSUME \/ \E l \in Levels : logging(l)
               \/ \E s \in Streams : bind(s) \/ unbind(s)
               \/ UNCHANGED vars
        PROVE  UNCHANGED rotateVars
    BY <2>6 DEF logging, bind, unbind, vars
  <2>7. UNCHANGED rotateVars => UNCHANGED Rotate!vars
    BY DEF rotateVars, Rotate!vars
  <2> QED
    BY <1>2, <2>0, <2>1, <2>2, <2>3, <2>4, <2>5, <2>6, <2>7 DEF Next, OutputThread
<1> QED
  BY <1>1, <1>2, Invariance, PTL DEF Spec, Rotate!Spec

-----------------------------------------------------------------------------
(* Types.                                                                  *)

LEMMA RotateKeepsTypes ==
    ASSUME Rotate!TypeOK, [Rotate!Next]_(Rotate!vars)
    PROVE  Rotate!TypeOK'
<1> USE DEF Rotate!TypeOK
<1>1. CASE Rotate!bind
  BY <1>1 DEF Rotate!bind, Rotate!Names
<1>2. CASE Rotate!action
  BY <1>2 DEF Rotate!action, Rotate!Names
<1>3. ASSUME NEW t \in Stamps, Rotate!read_txt_write_gz(t)
      PROVE  Rotate!TypeOK'
  <2>1. /\ UNCHANGED <<file, stream, tellp, lines, clean>> /\ step' = "compress"
        /\ archive' = [n \in Rotate!Names \cup {target'} |->
                         IF n = target' THEN [content |-> <<>>, whole |-> FALSE] ELSE archive[n]]
    BY <1>3 DEF Rotate!read_txt_write_gz
  <2>2. ASSUME NEW n \in Rotate!Names'
        PROVE  archive'[n].content \in Seq(lines') /\ archive'[n].whole \in BOOLEAN
    <3>1. CASE n = target'
      <4>1. archive'[n] = [content |-> <<>>, whole |-> FALSE]
        BY <2>1, <3>1
      <4> QED
        BY <4>1
    <3>2. CASE n # target'
      <4>1. n \in Rotate!Names /\ archive'[n] = archive[n] /\ lines' = lines
        BY <2>1, <3>2 DEF Rotate!Names
      <4>2. archive[n].content \in Seq(lines) /\ archive[n].whole \in BOOLEAN
        BY <4>1, Zenon
      <4> QED
        BY <4>1, <4>2, Zenon
    <3> QED
      BY <3>1, <3>2
  <2>3. (\A n \in Rotate!Names :
           archive[n].content \in Seq(lines) /\ archive[n].whole \in BOOLEAN)'
    BY <2>2, Zenon
  <2> QED
    BY <2>1, <2>3
<1>4. CASE Rotate!Compressed
  <2>1. /\ UNCHANGED <<file, target, stream, tellp, lines, clean>> /\ step' = "truncate"
        /\ archive' = [archive EXCEPT ![target] = [content |-> file, whole |-> TRUE]]
    BY <1>4 DEF Rotate!Compressed
  <2>2. ASSUME NEW n \in Rotate!Names'
        PROVE  archive'[n].content \in Seq(lines') /\ archive'[n].whole \in BOOLEAN
    <3>1. n \in Rotate!Names
      BY <2>1 DEF Rotate!Names
    <3>2. CASE n = target
      <4>1. archive'[n] = [content |-> file, whole |-> TRUE] /\ lines' = lines
        BY <2>1, <3>1, <3>2 DEF Rotate!Names
      <4> QED
        BY <4>1
    <3>3. CASE n # target
      <4>1. archive'[n] = archive[n] /\ lines' = lines
        BY <2>1, <3>1, <3>3 DEF Rotate!Names
      <4>2. archive[n].content \in Seq(lines) /\ archive[n].whole \in BOOLEAN
        BY <3>1, Zenon
      <4> QED
        BY <4>1, <4>2, Zenon
    <3> QED
      BY <3>2, <3>3
  <2>3. (\A n \in Rotate!Names :
           archive[n].content \in Seq(lines) /\ archive[n].whole \in BOOLEAN)'
    BY <2>2, Zenon
  <2> QED
    BY <2>1, <2>3
<1>5. CASE Rotate!Truncate
  <2>1. file' \in Seq(lines) /\ tellp' \in 0 .. Len(file')
    <3>1. (file' = <<>> \/ file' = file) /\ tellp' = 0
      BY <1>5 DEF Rotate!Truncate
    <3>2. file' \in Seq(lines)
      <4>1. file \in Seq(lines)
        OBVIOUS
      <4>2. <<>> \in Seq(lines)
        BY EmptySeq
      <4> QED
        BY <3>1, <4>1, <4>2, Zenon
    <3> HIDE DEF Rotate!TypeOK
    <3> QED
      BY <3>1, <3>2, LenProperties
  <2>2. clean' \in BOOLEAN
    BY <1>5, Zenon DEF Rotate!Truncate
  <2> QED
    BY <1>5, <2>1, <2>2 DEF Rotate!Truncate, Rotate!Names
<1>6. CASE Rotate!Reopen
  BY <1>6 DEF Rotate!Reopen, Rotate!Names
<1>7. CASE Rotate!Crash
  <2>1. clean' \in BOOLEAN
    BY <1>7, Zenon DEF Rotate!Crash
  <2> QED
    BY <1>7, <2>1 DEF Rotate!Crash, Rotate!Names
<1>8. ASSUME NEW line \in Rotate!Line, Rotate!Write(line)
      PROVE  Rotate!TypeOK'
  <2>1. CASE stream = "open"
    <3>1. /\ file' = Append(file, line) /\ tellp' = Len(file') /\ lines' = lines \cup {line}
          /\ UNCHANGED <<archive, target, stream, step, clean>>
      BY <1>8, <2>1 DEF Rotate!Write
    <3>0. Seq(lines) \subseteq Seq(lines')
      BY <3>1, SeqMonotonic
    <3>2. file \in Seq(lines')
      BY <3>0
    <3>3. file' \in Seq(lines') /\ tellp' \in 0 .. Len(file')
      BY <3>1, <3>2
    <3>4. ASSUME NEW n \in Rotate!Names
          PROVE  archive[n].content \in Seq(lines')
      BY <3>0
    <3> QED
      BY <3>1, <3>3, <3>4 DEF Rotate!Names
  <2>2. CASE stream # "open"
    BY <1>8, <2>2 DEF Rotate!Write, Rotate!vars, Rotate!Names
  <2> QED
    BY <2>1, <2>2
<1>9. CASE UNCHANGED Rotate!vars
  BY <1>9 DEF Rotate!vars, Rotate!Names
<1> QED
  BY <1>1, <1>2, <1>3, <1>4, <1>5, <1>6, <1>7, <1>8, <1>9 DEF Rotate!Next, Rotate!Rotating

\* The types of the log library, the priority store within its capacity.
THEOREM TypeCorrect == Spec => []TypeOK
<1> DEFINE Bounds == /\ program.queue = "priority" => Len(store) <= Capacity
                     /\ crashes <= MaxCrashes
                     /\ Rotate!TypeOK
<1>1. Init => Bounds
  <2> SUFFICES ASSUME Init
               PROVE  Bounds
    OBVIOUS
  <2>1. store = <<>> /\ crashes = 0 /\ Capacity \in Nat /\ MaxCrashes \in Nat
    BY LoggingAssumption DEF Init, LoggingAssumption
  <2>2. Rotate!TypeOK
    BY DEF Init, Rotate!Init, Rotate!TypeOK, Rotate!Names
  <2> QED
    BY <2>1, <2>2
<1>2. ASSUME IInv, Bounds, [Next]_vars, [Rotate!Next]_(Rotate!vars)
      PROVE  Bounds'
  <2>1. Rotate!TypeOK'
    BY <1>2, RotateKeepsTypes
  <2>2. ASSUME program'.queue = "priority"
        PROVE  Len(store') <= Capacity
    <3>0. /\ Len(store) \in Nat /\ Capacity \in Nat /\ program' = program
          /\ program.outputs \subseteq Outputs
      <4>1. Capacity \in Nat
        BY LoggingAssumption DEF LoggingAssumption
      <4>2. Len(store) \in Nat /\ program.outputs \subseteq Outputs
        BY <1>2, Threads DEF IInv, Types
      <4>3. program' = program
        <5> HIDE DEF Bounds
        <5> QED
          BY <1>2
          DEF Next, OutputThread, logging, pop, Lock, Write, Unlock, NotDue, Rotates, Rotated,
              bind, unbind, OpenLogFile, Restart, vars
      <4> QED
        BY <4>1, <4>2, <4>3
    <3>1. ASSUME NEW l \in Levels, logging(l)
          PROVE  Len(store') <= Capacity
      <4>1. Len(store) < Capacity
        BY <2>2, <3>0, <3>1 DEF logging
      <4>2. Len(store') = Len(store) + 1
        BY <1>2, <3>1, Logged DEF IInv
      <4> QED
        BY <3>0, <4>1, <4>2
    <3>2. ASSUME NEW o \in Outputs, pop(o)
          PROVE  Len(store') <= Capacity
      <4>1. Len(store') = Len(store) - 1
        BY <1>2, <3>2, Popped DEF IInv
      <4> QED
        BY <1>2, <2>2, <3>0, <4>1
    <3>3. CASE Restart
      BY <3>0, <3>3 DEF Restart
    <3>4. CASE store' = store
      BY <1>2, <2>2, <3>0, <3>4
    <3>5. ASSUME NEW o \in Outputs, OutputThread(o)
          PROVE  Len(store') <= Capacity
      BY <3>2, <3>4, <3>5
      DEF OutputThread, Lock, Write, Unlock, NotDue, Rotates, Rotated
    <3> HIDE DEF Bounds
    <3> QED
      BY <1>2, <3>0, <3>1, <3>3, <3>4, <3>5 DEF Next, bind, unbind, OpenLogFile, vars
  <2>3. crashes' <= MaxCrashes
    <3>1. CASE Restart
      BY <1>2, <3>1, LoggingAssumption DEF Restart, LoggingAssumption, IInv, Types
    <3>2. CASE crashes' = crashes
      BY <1>2, <3>2
    <3> QED
      BY <1>2, <3>1, <3>2
      DEF Next, OutputThread, logging, pop, Lock, Write, Unlock, NotDue, Rotates, Rotated, bind,
          unbind, OpenLogFile, vars, outVars
  <2> QED
    BY <2>1, <2>2, <2>3
<1>3. ASSUME IInv, Bounds
      PROVE  TypeOK
  <2>1. _outstreamlock \in program.outputs \cup {"nobody"}
    BY <1>3 DEF IInv, Types, Control
  <2>2. crashes \in 0 .. MaxCrashes
    BY <1>3, LoggingAssumption DEF IInv, Types, LoggingAssumption
  <2> QED
    BY <1>3, <2>1, <2>2 DEF IInv, Types, TypeOK
<1> HIDE DEF Bounds
<1> QED
  BY <1>1, <1>2, <1>3, Invariance, UsesLogrotate, PTL DEF Spec, Rotate!Spec

-----------------------------------------------------------------------------
(* What LogrotateProofs shows of Logrotate holds of the log file.          *)

Kept == INSTANCE LogrotateProofs

\* The two instances of Logrotate are the same specification.
LEMMA SameSpec == Rotate!Spec => Kept!Spec
<1>1. Rotate!Init <=> Kept!Init
  BY DEF Rotate!Init, Kept!Init
<1>2. ASSUME NEW t
      PROVE  Rotate!read_txt_write_gz(t) <=> Kept!read_txt_write_gz(t)
  <2>1. Rotate!FreeName(t) = Kept!FreeName(t)
    BY DEF Rotate!FreeName, Kept!FreeName, Rotate!Names, Kept!Names, Rotate!Cardinality,
           Kept!Cardinality
  <2>2. Rotate!Names = Kept!Names
    BY DEF Rotate!Names, Kept!Names
  <2> QED
    BY <2>1, <2>2, Zenon DEF Rotate!read_txt_write_gz, Kept!read_txt_write_gz
<1>3. ASSUME NEW line
      PROVE  Rotate!Write(line) <=> Kept!Write(line)
  BY DEF Rotate!Write, Kept!Write, Rotate!vars, Kept!vars
<1>4. /\ Rotate!bind <=> Kept!bind
      /\ Rotate!action <=> Kept!action
      /\ Rotate!Compressed <=> Kept!Compressed
      /\ Rotate!Truncate <=> Kept!Truncate
      /\ Rotate!Reopen <=> Kept!Reopen
      /\ Rotate!Crash <=> Kept!Crash
  BY Zenon
  DEF Rotate!bind, Kept!bind, Rotate!action, Kept!action, Rotate!Due, Kept!Due,
      Rotate!Compressed, Kept!Compressed, Rotate!Truncate, Kept!Truncate,
      Rotate!Reopen, Kept!Reopen, Rotate!Crash, Kept!Crash
<1>5. Rotate!Next <=> Kept!Next
  BY <1>2, <1>3, <1>4, Zenon
  DEF Rotate!Next, Kept!Next, Rotate!Rotating, Kept!Rotating, Rotate!Line, Kept!Line
<1>6. UNCHANGED Rotate!vars <=> UNCHANGED Kept!vars
  BY DEF Rotate!vars, Kept!vars
<1>7. [Rotate!Next]_(Rotate!vars) <=> [Kept!Next]_(Kept!vars)
  BY <1>5, <1>6, Zenon
<1> QED
  BY <1>1, <1>7, PTL DEF Rotate!Spec, Kept!Spec

\* No line that the output thread has written to the log file is lost, whatever
\* rotation, failing open() or end of the process comes between.
THEOREM LogKeepsLines == Spec => []LinesKept
<1>1. Kept!LinesKept => LinesKept
  BY Zenon
  DEF Kept!LinesKept, LinesKept, Rotate!LinesKept, Kept!Complete, Rotate!Complete, Kept!Names,
      Rotate!Names, Kept!ToSet, Rotate!ToSet
<1>2. Kept!Spec => []Kept!LinesKept
  BY Kept!LinesAreKept
<1> QED
  BY <1>1, <1>2, SameSpec, UsesLogrotate, PTL

\* An archive of the log file that is complete is never written again, through
\* restarts of the program too.
THEOREM LogKeepsArchives == Spec => ArchivesKept
<1>1. [\A n \in Kept!Complete : n \in DOMAIN archive' /\ archive'[n] = archive[n]]_(Kept!vars)
      => [\A n \in Rotate!Complete : n \in DOMAIN archive' /\ archive'[n] = archive[n]]_(Rotate!vars)
  BY DEF Kept!Complete, Rotate!Complete, Kept!Names, Rotate!Names, Kept!vars, Rotate!vars
<1>2. Kept!Spec => Kept!ArchivesKept
  BY Kept!ArchivesAreKept
<1> QED
  BY <1>1, <1>2, SameSpec, UsesLogrotate, PTL
  DEF Kept!ArchivesKept, ArchivesKept, Rotate!ArchivesKept
=============================================================================
