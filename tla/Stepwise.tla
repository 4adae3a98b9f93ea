------------------------------ MODULE Stepwise ------------------------------
(* Folding a sequence from the left, and a set of numbers in order.  Bound to
   a variable, a result is evaluated before the next step begins; nested, the
   steps of a long operation overflow TLC's stack. *)
EXTENDS Integers, Sequences, FiniteSets

Fold(op(_, _), base, seq) ==
    LET f[i \in 0..Len(seq)] ==
            IF i = 0 THEN base ELSE CHOOSE r \in {op(a, seq[i]) : a \in {f[i - 1]}} : TRUE
    IN  CHOOSE r \in {f[Len(seq)] : b \in {base}} : TRUE

InOrder(S) ==
    LET nth(i) == CHOOSE x \in S : Cardinality({y \in S : y < x}) = i - 1
    IN  Fold(LAMBDA s, i : Append(s, nth(i)), << >>, [i \in 1..Cardinality(S) |-> i])
=============================================================================
