------------------------------- MODULE Sinks -------------------------------
(***************************************************************************)
(* A logger with a file and an array destination: each entry goes to both, *)
(* in one call of destinations_write, as the loop of                       *)
(* src/malc/destinations.c walks over them. What the file destination      *)
(* returns is discarded, so that the array has the entry even if the file  *)
(* has not, unless the process ends in between.                            *)
(***************************************************************************)
EXTENDS Integers

CONSTANTS
  Cfgs, Lengths, MarkLength, Failures, NoFile, MaxFiles,
  MemEntries, WordSize, Empty,
  MaxEntries  \* bound: entries written

VARIABLES phase, dst, disk, created, before, mem, tail, size, written

File == INSTANCE FileDst
Array == INSTANCE ArrayDst

ASSUME SinksAssumption ==
  File!FileAssumption /\ Array!ArrayAssumption /\ MaxEntries \in Nat

array == <<mem, tail, size, written>>
vars == <<phase, dst, disk, created, before, array>>

Init == File!Init /\ Array!Init

\* destinations_write
WriteBoth(e) ==
  /\ written < MaxEntries
  /\ File!Write(e)
  /\ IF phase' = "crashed" THEN UNCHANGED array ELSE Array!Write

Next ==
  \/ \E e \in Lengths : WriteBoth(e)
  \/ (\E cfg \in Cfgs : File!SetCfg(cfg)) /\ UNCHANGED array
  \/ File!Terminate /\ UNCHANGED array

Spec == Init /\ [][Next]_vars

-----------------------------------------------------------------------------
(* The properties of the parts, under names of their own.                   *)

\* The variables of both destinations have their types, and the ring of past
\* files is never asked to hold more than it has room for.
TypeOK == File!TypeOK /\ Array!TypeOK

\* The file in use is the newest one and file_size is what it holds.
FileInUseIsNewest == File!FileInUseIsNewest

\* With rotation on, the newest files are kept, and no more than allowed.
NewestFilesKept == File!NewestFilesKept

\* No file surpasses max_file_size, taken in bytes, but for an entry that is
\* larger and for files that met a full disk; common.h:328-330 says KB and has
\* no exception for a full disk.
SizeRespected == File!SizeRespected

\* The array reads back the last entries, the oldest first.
ReadsBack == Array!ReadsBack
=============================================================================
