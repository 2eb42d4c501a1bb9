----------------------------- MODULE StdouterrDst -----------------------------
(***************************************************************************)
(* The destination that writes to the terminal                             *)
(* (src/malc/destinations/stdouterr.c): an entry goes to stdout or to      *)
(* stderr by its severity, and a flush leaves out the stream to which      *)
(* nothing can go. Any thread may move the severity between them.          *)
(***************************************************************************)
EXTENDS Integers

VARIABLES
  stderr_sev,  \* the least severity that goes to stderr
  buffered     \* for each stream, the values of stderr_sev under which what it
               \* may still have in its buffer was written

\* malc_severities
debug == 3
error == 7
critical == 8
off == 9

Init ==
  /\ stderr_sev = error
  /\ buffered = [stream \in {"stdout", "stderr"} |-> {}]

\* The four calls of fwrite, whose results are dropped.
Write(sev) ==
  /\ buffered' = [buffered EXCEPT ![IF sev < stderr_sev THEN "stdout" ELSE "stderr"] =
                    @ \cup {stderr_sev}]
  /\ UNCHANGED stderr_sev

\* Mutant of Flushed: the two severities are swapped.
FlushedSwapped ==
  {s \in {"stdout", "stderr"} :
     stderr_sev # (IF s = "stdout" THEN off ELSE debug)}

\* The streams that are flushed.
Flushed ==
  {s \in {"stdout", "stderr"} :
     stderr_sev # (IF s = "stdout" THEN debug ELSE off)}

Flush ==
  /\ buffered' = [s \in DOMAIN buffered |-> IF s \in Flushed THEN {} ELSE buffered[s]]
  /\ UNCHANGED stderr_sev

\* malc_stdouterr_set_stderr_severity, which refuses what is no severity.
SetStderrSeverity(sev) ==
  /\ sev \in debug..critical \cup {off}
  /\ stderr_sev' = sev
  /\ UNCHANGED buffered
=============================================================================
