----------------------------- MODULE MCLogging -----------------------------
(* Values for the model checking of Logging. *)
EXTENDS Logging

CONSTANTS console, logfile, o1, o2

\* A log file that rotates, with either store; lssserver and lsslocal as they are
\* built, without; and a program with two output threads.
MCPrograms ==
    [queue : {"priority", "lockfree"}, outputs : {{o1}}, rotating : {TRUE}]
      \cup {[queue |-> "lockfree", outputs |-> {o1}, rotating |-> FALSE],
            [queue |-> "priority", outputs |-> {o1, o2}, rotating |-> FALSE]}

\* As output_thread binds them: everything, and what is at least an ERROR.
MCAccepts == [s \in Streams |-> IF s = logfile THEN {"FATAL"} ELSE Levels]

MCvfactor == <<"FATAL">>
=============================================================================
