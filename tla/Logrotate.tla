----------------------------- MODULE Logrotate -----------------------------
(***************************************************************************)
(* Logrotate (logrotate/logrotate.cpp and its Python part, logrotate.py):  *)
(* one bound log file, which action() compresses into an archive and       *)
(* empties when it has grown to maxsize.  A line is a number, the size of  *)
(* a file its number of lines.  The file and the archives survive the      *)
(* process, the stream and action() do not.                                *)
(*                                                                         *)
(* The thread that writes the file is the one that calls action(), as in   *)
(* the demo: nothing is written within it.  Nobody else removes or renames *)
(* the files.  Logging gives the file to its output thread and implements  *)
(* this specification.                                                     *)
(***************************************************************************)
EXTENDS Naturals, Sequences, FiniteSets, SequencesExt

CONSTANTS MaxSize,  \* maxsize of bind(), in lines
          Stamps    \* the times of day at which an archive may be named

VARIABLES
    file,    \* the log file
    archive, \* the archives: name -> their lines, and whether they are complete
    target,  \* the archive that is being written
    stream,  \* "open"; "closed"; "bad": it could not be opened again
    tellp,   \* its position
    step,    \* where action() is; "unbound": bind() has not been called
    lines,   \* every line that was written to an open stream
    clean    \* whenever an archive was completed the file has been emptied

vars == <<file, archive, target, stream, tellp, step, lines, clean>>

Names == DOMAIN archive

Init ==
    /\ file = <<>> /\ archive = <<>> /\ target = <<>>
    /\ stream = "closed" /\ tellp = 0
    /\ step = "unbound"
    /\ lines = {} /\ clean = TRUE

\* A bind() that fails changes nothing.  After open(app) the position is the end
\* of the file or, until the first write, 0.
bind ==
    /\ step = "unbound"
    /\ stream' = "open"
    /\ tellp' \in {0, Len(file)}
    /\ step' = "idle"
    /\ UNCHANGED <<file, archive, target, lines, clean>>

\* The program writes a line, and flushes it.  What is written to a stream that
\* is not open is lost.
Write(line) ==
    IF stream = "open"
      THEN /\ file' = Append(file, line)
           /\ tellp' = Len(file')
           /\ lines' = lines \cup {line}
           /\ UNCHANGED <<archive, target, stream, step, clean>>
      ELSE UNCHANGED vars

\* A stream that is bad tells -1.
Due == stream = "open" /\ tellp >= MaxSize

action ==
    /\ step = "idle"
    /\ Due
    /\ step' = "rotate"
    /\ UNCHANGED <<file, archive, target, stream, tellp, lines, clean>>

\* Mutant of FreeName: the archive is named by the time alone.
MutFreeName(t) == <<t, 0>>

\* The time and, if that name is taken, the first number that makes it new.
FreeName(t) ==
    <<t, CHOOSE i \in 0 .. Cardinality(Names) :
           <<t, i>> \notin Names /\ \A j \in 0 .. (i - 1) : <<t, j>> \in Names>>

\* gzip.open(gzpath, 'wb').
read_txt_write_gz(t) ==
    /\ step = "rotate"
    /\ target' = FreeName(t)
    /\ archive' = [n \in Names \cup {target'} |->
                     IF n = target' THEN [content |-> <<>>, whole |-> FALSE] ELSE archive[n]]
    /\ step' = "compress"
    /\ UNCHANGED <<file, stream, tellp, lines, clean>>

\* Mutant of Compressed: the last line is left out.
MutCompressed ==
    /\ step = "compress"
    /\ archive' = [archive EXCEPT ![target] = [content |-> SubSeq(file, 1, MaxSize - 1),
                                               whole |-> TRUE]]
    /\ step' = "truncate"
    /\ UNCHANGED <<file, target, stream, tellp, lines, clean>>

\* All lines are compressed, and the archive is closed; rotate() returns true.
Compressed ==
    /\ step = "compress"
    /\ archive' = [archive EXCEPT ![target] = [content |-> file, whole |-> TRUE]]
    /\ step' = "truncate"
    /\ UNCHANGED <<file, target, stream, tellp, lines, clean>>

\* close(), open(trunc), close().
Truncate ==
    /\ step = "truncate"
    /\ stream' = "closed"
    /\ file' \in {<<>>, file}
    /\ tellp' = 0
    /\ clean' = (clean /\ file' = <<>>)
    /\ step' = "reopen"
    /\ UNCHANGED <<archive, target, lines>>

\* open(app).
Reopen ==
    /\ step = "reopen"
    /\ \/ stream' = "open" /\ tellp' \in {0, Len(file)}
       \/ stream' = "bad" /\ tellp' = 0
    /\ step' = "idle"
    /\ UNCHANGED <<file, archive, target, lines, clean>>

Rotating == \/ \E t \in Stamps : read_txt_write_gz(t)
            \/ Compressed
            \/ Truncate

\* The process ends, by a signal or by an exception of the Python part that
\* nobody catches.
Crash ==
    /\ step # "unbound"
    /\ stream' = "closed" /\ tellp' = 0
    /\ clean' = (clean /\ step # "truncate")
    /\ step' = "unbound"
    /\ UNCHANGED <<file, archive, target, lines>>

\* Every line is another one.
Line == Nat \ lines

Next ==
    \/ bind \/ action \/ Rotating \/ Reopen \/ Crash
    \/ step \in {"unbound", "idle"} /\ \E line \in Line : Write(line)

Spec == Init /\ [][Next]_vars

-----------------------------------------------------------------------------
(* Properties.                                                             *)

TypeOK ==
    /\ file \in Seq(lines)
    /\ \A n \in Names : archive[n].content \in Seq(lines) /\ archive[n].whole \in BOOLEAN
    /\ stream \in {"open", "closed", "bad"}
    /\ tellp \in 0 .. Len(file)
    /\ step \in {"unbound", "idle", "rotate", "compress", "truncate", "reopen"}
    /\ clean \in BOOLEAN

Complete == {n \in Names : archive[n].whole}

\* A line that was written is in the file or in an archive that is complete,
\* wherever a crash or a failing open() cuts action() short.  Unless one did
\* between the two, a line is in one of them only, except while its archive is
\* complete and the file not yet emptied.
LinesKept ==
    /\ lines = ToSet(file) \cup UNION {ToSet(archive[n].content) : n \in Complete}
    /\ clean => /\ \A m, n \in Complete :
                     m # n => ToSet(archive[m].content) \cap ToSet(archive[n].content) = {}
                /\ step # "truncate" =>
                     \A n \in Complete : ToSet(file) \cap ToSet(archive[n].content) = {}

\* A complete archive is never written again: names are free when they are
\* chosen, whatever the clock says.
ArchivesKept ==
    [][\A n \in Complete : n \in DOMAIN archive' /\ archive'[n] = archive[n]]_vars
=============================================================================
