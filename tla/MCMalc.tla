------------------------------- MODULE MCMalc -------------------------------
(* Small instances of Malc for TLC. *)
EXTENDS MalcProperties, TLC

CONSTANTS m, w, p, b1, b2

MCThreads == {m, w}
MCThreads3 == {m, w, p}
MCOwners == {m}
MCPumps == {w}
MCPumps3 == {p}
MCBufs == {b1, b2}
MCBuf == {b1}
BufSymmetry == Permutations(MCBufs)
=============================================================================
