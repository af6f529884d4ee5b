------------------------------- MODULE Listings -------------------------------
(* What the models of a question do with lists, in a form that can be      *)
(* reasoned about.                                                         *)
EXTENDS Integers, Sequences, FiniteSets

(* A list without the elements that are in gone.                           *)
Without(list, gone) ==
  LET upto[k \in 0..Len(list)] ==
        IF k = 0 THEN <<>>
        ELSE IF list[k] \in gone THEN upto[k - 1] ELSE Append(upto[k - 1], list[k])
  IN upto[Len(list)]

(* The elements of S, each behind those that precede it.                   *)
InOrder(S, precedes) ==
  [i \in 1..Cardinality(S) |->
     CHOOSE c \in S : Cardinality({d \in S : <<d, c>> \in precedes}) = i - 1]

=============================================================================
