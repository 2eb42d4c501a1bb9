-------------------------------- MODULE Lists --------------------------------
(***************************************************************************)
(* Sequences built one position after the other, as the loops of the code  *)
(* build them: recursive functions, which the proofs can follow from each  *)
(* position to the next.                                                   *)
(***************************************************************************)
EXTENDS Integers, Sequences

\* What a sequence is here: Seq wants a set of all that it may hold.
IsList(s) == Len(s) \in Nat /\ s = [i \in 1..Len(s) |-> s[i]]

\* The elements of s at the positions of S, in the order of s.
Select(s, S) ==
  LET upto[n \in 0..Len(s)] ==
        IF n = 0 THEN <<>>
        ELSE IF n \in S THEN Append(upto[n - 1], s[n]) ELSE upto[n - 1]
  IN upto[Len(s)]

Total(s) ==
  LET upto[n \in 0..Len(s)] == IF n = 0 THEN 0 ELSE upto[n - 1] + s[n]
  IN upto[Len(s)]
=============================================================================
