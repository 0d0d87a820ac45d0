-------------------------- MODULE LogrotateProofs --------------------------
(***************************************************************************)
(* Proofs about Logrotate, for any size, any clock and any number of       *)
(* crashes: what has been written is kept, and archives are not written    *)
(* twice.                                                                  *)
(***************************************************************************)
EXTENDS Logrotate, Least

\* The archive that action() is writing, and what it has come to.
Target ==
    /\ step \in {"compress", "truncate"} => target \in Names
    /\ step = "compress" => ~ archive[target].whole
    /\ step = "truncate" => archive[target].whole /\ archive[target].content = file

IInv ==
    /\ IsFiniteSet(Names)
    /\ file \in Seq(Nat)
    /\ Target
    /\ LinesKept

-----------------------------------------------------------------------------
\* The loop of read_txt_write_gz finds a name: of 0, 1, ..., n one is free when
\* there are n archives.
LEMMA SomeNameIsFree ==
    ASSUME NEW S, IsFiniteSet(S), NEW t
    PROVE  \E i \in 0 .. Cardinality(S) : <<t, i>> \notin S
<1> SUFFICES ASSUME \A i \in 0 .. Cardinality(S) : <<t, i>> \in S
             PROVE  FALSE
  OBVIOUS
<1> DEFINE n == Cardinality(S)
           f == [i \in 0 .. n |-> <<t, i>>]
<1>1. n \in Nat
  BY FS_CardinalityType
<1>2. f \in Injection(0 .. n, S)
  BY DEF Injection, IsInjective
<1>3. Cardinality(0 .. n) <= n
  <2> HIDE DEF f
  <2> QED
    BY <1>2, FS_Injection
<1>4. Cardinality(0 .. n) = n + 1
  <2>1. 0 \in Int /\ n \in Int
    BY <1>1
  <2>2. Cardinality(0 .. n) = IF 0 > n THEN 0 ELSE n - 0 + 1
    <3> HIDE DEF n
    <3> QED
      BY <2>1, FS_Interval, Zenon
  <2> QED
    BY <1>1, <2>2
<1> QED
  BY <1>1, <1>3, <1>4

LEMMA FirstNameIsFree ==
    ASSUME NEW S, IsFiniteSet(S), NEW t
    PROVE  \E i \in 0 .. Cardinality(S) :
             <<t, i>> \notin S /\ \A j \in 0 .. (i - 1) : <<t, j>> \in S
<1> DEFINE n == Cardinality(S)
           T == {i \in 0 .. n : <<t, i>> \notin S}
<1>1. n \in Nat
  BY FS_CardinalityType
<1>2. T # {} /\ T \in SUBSET (0 .. n)
  BY SomeNameIsFree
<1>3. PICK i \in T : \A j \in T : i <= j
  <2> HIDE DEF T, n
  <2> QED
    BY <1>1, <1>2, LeastExists
<1>4. ASSUME NEW j \in 0 .. (i - 1)
      PROVE  <<t, j>> \in S
  <2>1. j \in 0 .. n /\ ~ (i <= j)
    BY <1>1
  <2> QED
    BY <1>3, <2>1
<1> QED
  BY <1>4

LEMMA FreeNameIsFree ==
    ASSUME IsFiniteSet(Names), NEW t
    PROVE  FreeName(t) \notin Names
<1> DEFINE free(i) == <<t, i>> \notin Names /\ \A j \in 0 .. (i - 1) : <<t, j>> \in Names
<1>1. \E i \in 0 .. Cardinality(Names) : free(i)
  BY FirstNameIsFree
<1>2. free(CHOOSE i \in 0 .. Cardinality(Names) : free(i))
  <2> HIDE DEF free
  <2> QED
    BY <1>1
<1> QED
  BY <1>2 DEF FreeName

-----------------------------------------------------------------------------
\* What the archives and the file hold decides whether a line is kept.
LEMMA Kept ==
    ASSUME IInv, UNCHANGED <<file, archive, lines, target>>,
           step' \in {"compress", "truncate"} => step' = step,
           clean' => clean,
           step = "truncate" /\ clean' => step' = "truncate"
    PROVE  IInv'
<1>1. IsFiniteSet(Names)' /\ (file \in Seq(Nat))'
  BY DEF IInv, Names
<1>2. Target'
  BY DEF IInv, Target, Names
<1>3. Complete' = Complete
  BY DEF Complete, Names
<1>4. LinesKept'
  BY <1>3 DEF IInv, LinesKept
<1> QED
  BY <1>1, <1>2, <1>4 DEF IInv

\* A new line goes to the end of the file.
LEMMA WriteKeeps ==
    ASSUME IInv, step \in {"unbound", "idle"}, NEW line \in Line, Write(line)
    PROVE  IInv'
<1>1. CASE stream = "open"
  <2>0. /\ file' = Append(file, line) /\ lines' = lines \cup {line}
        /\ UNCHANGED <<archive, target, stream, step, clean>>
    BY <1>1 DEF Write
  <2>1. Names' = Names /\ Complete' = Complete
    BY <2>0 DEF Names, Complete
  <2>2. file \in Seq(Nat) /\ line \in Nat /\ line \notin lines
    BY DEF IInv, Line
  <2>3. file' \in Seq(Nat) /\ ToSet(file') = ToSet(file) \cup {line}
    BY <2>0, <2>2 DEF ToSet
  <2>4. Target'
    BY <2>0 DEF Target
  <2>5. LinesKept'
    <3>1. \A n \in Complete : ToSet(archive[n].content) \subseteq lines
      BY DEF IInv, LinesKept
    <3>2. \A n \in Complete : line \notin ToSet(archive[n].content)
      BY <2>2, <3>1
    <3>3. (lines = ToSet(file) \cup UNION {ToSet(archive[n].content) : n \in Complete})'
      BY <2>0, <2>1, <2>3 DEF IInv, LinesKept
    <3>4. clean' => \A n \in Complete' : ToSet(file') \cap ToSet(archive'[n].content) = {}
      BY <2>0, <2>1, <2>3, <3>2 DEF IInv, LinesKept
    <3> QED
      BY <2>0, <2>1, <3>3, <3>4 DEF IInv, LinesKept
  <2> QED
    BY <2>0, <2>1, <2>3, <2>4, <2>5 DEF IInv
<1>2. CASE stream # "open"
  <2>1. UNCHANGED vars
    BY <1>2 DEF Write
  <2> QED
    BY <2>1, Kept DEF vars
<1> QED
  BY <1>1, <1>2

\* A new archive is empty, and not one of the old.
LEMMA NewArchiveKeeps ==
    ASSUME IInv, NEW t \in Stamps, read_txt_write_gz(t)
    PROVE  IInv' /\ Complete' = Complete /\ \A n \in Names : archive'[n] = archive[n]
<1> DEFINE new == FreeName(t)
<1>1. new \notin Names
  BY FreeNameIsFree DEF IInv
<1> HIDE DEF new
<1>2. /\ step = "rotate" /\ step' = "compress" /\ target' = new
      /\ archive' = [n \in Names \cup {new} |->
                       IF n = new THEN [content |-> <<>>, whole |-> FALSE] ELSE archive[n]]
      /\ UNCHANGED <<file, lines, clean>>
  BY DEF read_txt_write_gz, new
<1>3. Names' = Names \cup {new}
  BY <1>2 DEF Names
<1>4. \A n \in Names : archive'[n] = archive[n]
  BY <1>1, <1>2
<1>5. archive'[new].content = <<>> /\ ~ archive'[new].whole
  BY <1>2
<1>6. Complete' = Complete
  BY <1>3, <1>4, <1>5 DEF Complete
<1>7. IsFiniteSet(Names')
  BY <1>3, FS_AddElement DEF IInv
<1>8. Target'
  BY <1>2, <1>3, <1>5 DEF Target
<1>9. \A n \in Complete : archive'[n].content = archive[n].content
  BY <1>4 DEF Complete
<1>10. LinesKept'
  <2>1. {ToSet(archive'[n].content) : n \in Complete} = {ToSet(archive[n].content) : n \in Complete}
    BY <1>9
  <2> QED
    BY <1>2, <1>6, <1>9, <2>1 DEF IInv, LinesKept
<1> QED
  BY <1>2, <1>4, <1>6, <1>7, <1>8, <1>10 DEF IInv

\* The archive is complete when it holds what the file holds.
LEMMA CompressKeeps ==
    ASSUME IInv, Compressed
    PROVE  IInv' /\ Complete' = Complete \cup {target}
           /\ \A n \in Complete : archive'[n] = archive[n]
<1>1. /\ step = "compress" /\ step' = "truncate"
      /\ target \in Names /\ target \notin Complete
  BY DEF Compressed, IInv, Target, Complete
<1>2. /\ archive' = [archive EXCEPT ![target] = [content |-> file, whole |-> TRUE]]
      /\ UNCHANGED <<file, target, stream, tellp, lines, clean>>
  BY DEF Compressed
<1>3. Names' = Names
  BY <1>2 DEF Names
<1>4. \A n \in Names : n # target => archive'[n] = archive[n]
  BY <1>2 DEF Names
<1>5. archive'[target].content = file /\ archive'[target].whole
  BY <1>1, <1>2 DEF Names
<1>6. Complete' = Complete \cup {target}
  BY <1>1, <1>3, <1>4, <1>5 DEF Complete
<1>7. \A n \in Complete : n # target /\ archive'[n] = archive[n]
  BY <1>1, <1>4 DEF Complete
<1>8. Target'
  BY <1>1, <1>2, <1>3, <1>5 DEF Target
<1>9. LinesKept'
  <2>1. lines = ToSet(file) \cup UNION {ToSet(archive[n].content) : n \in Complete}
    BY DEF IInv, LinesKept
  <2>2. lines' = ToSet(file') \cup UNION {ToSet(archive'[n].content) : n \in Complete'}
    BY <1>2, <1>5, <1>6, <1>7, <2>1
  <2>3. ASSUME clean', NEW m \in Complete', NEW n \in Complete', m # n
        PROVE  ToSet(archive'[m].content) \cap ToSet(archive'[n].content) = {}
    <3>1. clean
      BY <1>2, <2>3
    <3>2. \A k \in Complete : ToSet(file) \cap ToSet(archive[k].content) = {}
      BY <1>1, <3>1 DEF IInv, LinesKept
    <3>3. CASE m \in Complete /\ n \in Complete
      BY <1>7, <2>3, <3>1, <3>3 DEF IInv, LinesKept
    <3>4. CASE m = target
      BY <1>5, <1>6, <1>7, <2>3, <3>2, <3>4
    <3>5. CASE n = target
      BY <1>5, <1>6, <1>7, <2>3, <3>2, <3>5
    <3> QED
      BY <1>6, <3>3, <3>4, <3>5
  <2> QED
    BY <1>1, <2>2, <2>3 DEF LinesKept
<1> QED
  BY <1>2, <1>3, <1>6, <1>7, <1>8, <1>9 DEF IInv

\* The file is emptied when the archive holds it.
LEMMA TruncateKeeps ==
    ASSUME IInv, Truncate
    PROVE  IInv'
<1>1. /\ step = "truncate" /\ step' = "reopen"
      /\ target \in Complete /\ archive[target].content = file
  BY DEF Truncate, IInv, Target, Complete
<1>2. /\ file' \in {<<>>, file}
      /\ clean' = (clean /\ file' = <<>>)
      /\ UNCHANGED <<archive, target, lines>>
  BY DEF Truncate
<1>3. Names' = Names /\ Complete' = Complete
  BY <1>2 DEF Names, Complete
<1>4. ToSet(<<>>) = {}
  BY DEF ToSet
<1>5. LinesKept'
  <2>1. ToSet(file) \subseteq UNION {ToSet(archive[n].content) : n \in Complete}
    BY <1>1
  <2>2. ToSet(file') \subseteq ToSet(file)
    BY <1>2, <1>4
  <2>3. (lines = ToSet(file) \cup UNION {ToSet(archive[n].content) : n \in Complete})'
    <3>1. lines = UNION {ToSet(archive[n].content) : n \in Complete}
      BY <2>1 DEF IInv, LinesKept
    <3> QED
      BY <1>2, <1>3, <2>1, <2>2, <3>1
  <2>4. clean' => clean /\ ToSet(file') = {}
    BY <1>2, <1>4
  <2> QED
    BY <1>2, <1>3, <2>3, <2>4 DEF IInv, LinesKept
<1>6. file' \in Seq(Nat)
  <2>1. <<>> \in Seq(Nat)
    OBVIOUS
  <2> QED
    BY <1>2, <2>1, Zenon DEF IInv
<1>7. Target'
  BY <1>1 DEF Target
<1> QED
  BY <1>2, <1>3, <1>5, <1>6, <1>7 DEF IInv

-----------------------------------------------------------------------------
\* The invariant: the lines are kept, and the archive in progress is not taken
\* for complete before it is.
THEOREM Invariance == Spec => []IInv
<1>1. Init => IInv
  <2> SUFFICES ASSUME Init PROVE IInv
    OBVIOUS
  <2>1. Names = {} /\ file = <<>> /\ lines = {} /\ step = "unbound"
    BY DEF Init, Names
  <2>2. Complete = {} /\ ToSet(file) = {}
    BY <2>1 DEF Complete, ToSet
  <2> QED
    BY <2>1, <2>2, FS_EmptySet DEF IInv, Target, LinesKept
<1>2. ASSUME IInv, [Next]_vars
      PROVE  IInv'
  <2>1. CASE bind
    BY <1>2, <2>1, Kept DEF bind
  <2>2. CASE action
    BY <1>2, <2>2, Kept DEF action
  <2>3. CASE Rotating
    BY <1>2, <2>3, NewArchiveKeeps, CompressKeeps, TruncateKeeps DEF Rotating
  <2>4. CASE Reopen
    BY <1>2, <2>4, Kept DEF Reopen
  <2>5. CASE Crash
    <3>1. clean' => clean /\ step # "truncate"
      BY <2>5, Zenon DEF Crash
    <3> QED
      BY <1>2, <2>5, <3>1, Kept DEF Crash
  <2>6. CASE step \in {"unbound", "idle"} /\ \E line \in Line : Write(line)
    BY <1>2, <2>6, WriteKeeps
  <2>7. CASE UNCHANGED vars
    BY <1>2, <2>7, Kept DEF vars
  <2> QED
    BY <1>2, <2>1, <2>2, <2>3, <2>4, <2>5, <2>6, <2>7 DEF Next
<1> QED
  BY <1>1, <1>2, PTL DEF Spec

\* Rotation loses no line that was written, whatever cuts it short, and
\* duplicates one only when it was cut short with the archive complete.
THEOREM LinesAreKept == Spec => []LinesKept
<1>1. IInv => LinesKept
  BY DEF IInv
<1> QED
  BY <1>1, Invariance, PTL

\* A complete archive stays what it is.
THEOREM ArchivesAreKept == Spec => ArchivesKept
<1>1. ASSUME IInv, [Next]_vars
      PROVE  [\A n \in Complete : n \in DOMAIN archive' /\ archive'[n] = archive[n]]_vars
  <2> DEFINE kept == \A n \in Complete : n \in DOMAIN archive' /\ archive'[n] = archive[n]
  <2>1. CASE UNCHANGED archive
    BY <2>1 DEF Complete, Names
  <2>2. CASE \E t \in Stamps : read_txt_write_gz(t)
    BY <1>1, <2>2, NewArchiveKeeps DEF Complete, Names
  <2>3. CASE Compressed
    BY <1>1, <2>3, CompressKeeps DEF Complete, Names
  <2>4. UNCHANGED archive \/ (\E t \in Stamps : read_txt_write_gz(t)) \/ Compressed
    BY <1>1, Zenon DEF Next, bind, action, Rotating, Truncate, Reopen, Crash, Write, vars
  <2> QED
    BY <2>1, <2>2, <2>3, <2>4
<1> QED
  BY <1>1, Invariance, PTL DEF Spec, ArchivesKept
=============================================================================
