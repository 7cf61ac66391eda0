---------------------------- MODULE EvenSpacing ----------------------------
(***************************************************************************)
(* Utils.select_evenly_spaced: which members of an ordered collection are   *)
(* taken when m of n are wanted.  Members are naturals in their natural     *)
(* order; Rank is the position in the sorted list.                         *)
(***************************************************************************)
EXTENDS Integers, FiniteSets

(* Mutants: a whole step of offset; a step rounded before it is repeated.   *)
IndexOverrun(i, m, n) == (i * n) \div m + n \div m
IndexRoundedStep(i, m, n) == i * (n \div m) + n \div (2 * m)

(* The i-th index of the Bresenham line: i*n//m + n//(2*m).                *)
Index(i, m, n) == (i * n) \div m + n \div (2 * m)

Rank(c, A) == Cardinality({d \in A : d < c})

(* Mutant: everything is always taken.                                     *)
SelectAll(A, m) == A

(* select_evenly_spaced(A, m): everything when more is wanted than there is. *)
SelectEvenlySpaced(A, m) ==
    IF m > Cardinality(A) THEN A
    ELSE {c \in A : \E i \in 0 .. (m - 1) : Rank(c, A) = Index(i, m, Cardinality(A))}

-----------------------------------------------------------------------------
(* m of n members are selected: no two indices coincide and none is outside  *)
(* the sorted list (where the code would raise an IndexError).             *)
SelectsExactly(m, n) == Cardinality(SelectEvenlySpaced(0 .. (n - 1), m)) = m

(* The sample is even: neighbours are n//m or n//m + 1 apart, and no more    *)
(* than that is left out before the first and after the last.              *)
SelectsEvenly(m, n) ==
    /\ \A i \in 0 .. (m - 2) :
        Index(i + 1, m, n) - Index(i, m, n) \in {n \div m, n \div m + 1}
    /\ Index(0, m, n) <= n \div m
    /\ n - 1 - Index(m - 1, m, n) <= n \div m
=============================================================================
