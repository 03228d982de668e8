--------------------------------- MODULE Lists ---------------------------------
(***************************************************************************)
(* Array.filter and Array.sort, as the web pages use them.  They are a     *)
(* recursive function and a count, and not SelectSeq and SortSeq, so that  *)
(* they can be proved about.                                               *)
(***************************************************************************)
EXTENDS Naturals, Sequences, FiniteSets

\* What is left of a list without what is gone, in its order.
Without(list, gone) ==
  LET left[n \in 0..Len(list)] ==
        IF n = 0 THEN <<>>
        ELSE IF list[n] \in gone THEN left[n - 1] ELSE Append(left[n - 1], list[n])
  IN  left[Len(list)]

\* The elements of a set, of which each comes after those that are before it.
Sorted(set, before) ==
  [n \in 1..Cardinality(set) |->
     CHOOSE c \in set : Cardinality({e \in set : <<e, c>> \in before}) = n - 1]

=============================================================================
