--------------------------- MODULE MCDestinations ---------------------------
(* Small instances of Destinations for TLC. *)
EXTENDS Destinations, TLC

CONSTANTS i1, i2, i3

MCIds == {i1, i2, i3}

Cfg(severity, rate, file) == [severity |-> severity, rate |-> rate, file |-> file]

\* Two periods, the longer one for a lower severity, and a severity file with
\* the shorter one.
MCCfgs == {Cfg(5, 2, FALSE), Cfg(6, 1, TRUE)}

Symmetry == Permutations(MCIds)
=============================================================================
