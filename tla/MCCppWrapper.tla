---------------------------- MODULE MCCppWrapper ----------------------------
(* Small instances of CppWrapper for TLC. *)
EXTENDS CppWrapper, TLC

CONSTANTS v1, v2, b1, b2, d1, d2

MCVariables == {v1, v2}
MCBlocks == {b1, b2}
MCDsts == {d1, d2}

Variant(except, construct, destroy) ==
  [use_except |-> except, autoconstruct |-> construct, autodestroy |-> destroy]

\* The template arguments of the examples, and those with a scoped destructor
\* for a logger that is constructed with its variable.
MCVariants ==
  {Variant(TRUE, TRUE, TRUE), Variant(TRUE, FALSE, FALSE),
   Variant(FALSE, FALSE, TRUE), Variant(TRUE, TRUE, FALSE)}

MCSymmetry == Permutations(MCVariables) \cup Permutations(MCBlocks)
                \cup Permutations(MCDsts)
=============================================================================
