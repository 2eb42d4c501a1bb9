------------------------------ MODULE ArrayDst ------------------------------
(***************************************************************************)
(* The array destination, src/malc/destinations/array.c: a circular array  *)
(* of entries that loses the oldest one when it is full and always keeps   *)
(* an empty one at its tail. An entry is its number; that its text is cut  *)
(* to fit is left out.                                                     *)
(***************************************************************************)
EXTENDS Integers, Sequences

CONSTANTS
  MemEntries, \* malc_array_dst.mem_entries
  WordSize,   \* number of values of size_t
  Empty       \* an empty entry, or a null pointer

\* malc_array_dst_write asserts the first part; assumed where it is composed.
ArrayAssumption ==
  /\ MemEntries \in Nat \ {0, 1}
  /\ WordSize \in Nat
  /\ MemEntries < WordSize
  /\ Empty \notin Nat

VARIABLES
  mem,     \* the array
  tail,    \* index of the empty entry
  size,    \* number of entries it holds
  written  \* history: number of entries written

vars == <<mem, tail, size, written>>

Indices == 0..MemEntries-1

\* malc_array_dst_set_array
Init ==
  /\ mem = [i \in Indices |-> Empty]
  /\ tail = 0
  /\ size = 0
  /\ written = 0

Smaller(a, b) == IF a < b THEN a ELSE b

\* Mutant of Write: the entry at the tail is not emptied.
WriteKeepsTail ==
  /\ written' = written + 1
  /\ tail' = (tail + 1) % MemEntries
  /\ mem' = [mem EXCEPT ![tail] = written + 1]
  /\ size' = Smaller(size + 1, MemEntries - 1)

\* malc_array_dst_write
Write ==
  /\ written' = written + 1
  /\ tail' = (tail + 1) % MemEntries
  /\ mem' = [mem EXCEPT ![tail] = written + 1, ![tail'] = Empty]
  /\ size' = Smaller(size + 1, MemEntries - 1)

\* malc_array_dst_get_entry, in the arithmetic of size_t.
GetEntry(idx) ==
  IF idx < size THEN mem[((tail - size + idx) % WordSize) % MemEntries] ELSE Empty

Spec == Init /\ [][Write]_vars

-----------------------------------------------------------------------------
(* Properties.                                                              *)

(***************************************************************************)
(* Every variable has its type.                                            *)
(***************************************************************************)
TypeOK ==
  /\ written \in Nat
  /\ tail \in Indices
  /\ size \in 0..MemEntries-1
  /\ mem \in [Indices -> 1..written \union {Empty}]

(***************************************************************************)
(* array.h: the array is circular, loses the oldest entry when it is full  *)
(* and keeps an empty entry at the tail. The entries are read back with    *)
(* the oldest first. The subtraction wraps around, which is harmless only  *)
(* if the number of entries divides the number of values of size_t.        *)
(***************************************************************************)
ReadsBack ==
  /\ mem[tail] = Empty
  /\ size = Smaller(written, MemEntries - 1)
  /\ WordSize % MemEntries = 0 =>
       \A idx \in 0..size-1 : GetEntry(idx) = written - size + idx + 1
=============================================================================
