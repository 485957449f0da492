----------------------------- MODULE MC_ReduceEq -----------------------------
(***************************************************************************)
(* Model checking the equation reducer against the theory's semantics.     *)
(* An assignment gives every character term a character, every sequence   *)
(* term a string from SeqVals and every integer term a value from IntVals; *)
(* an equation holds under it when both sides denote the same string.      *)
(***************************************************************************)
EXTENDS ReduceEq, TLC

CONSTANTS x, y, c1, n1, MaxAtoms, InputAtoms

\* Strings of length at most 2 over the characters.
MCSeqVals == {<<>>} \cup {<<ch>> : ch \in Chars} \cup {<<c, d>> : c, d \in Chars}
SeqVals == MCSeqVals

-----------------------------------------------------------------------------
(* Instance data: every pair of lists of at most MaxAtoms atoms drawn from *)
(* InputAtoms: two sequence variables, value and non-value units, short   *)
(* literals and the empty string (CancelAtoms), or itos(n1) with digit literals (ItosAtoms).     *)
CancelAtoms ==
    {Var(x), Var(y), Unit("a"), Unit("b"), Unit(c1),
     Str(<<"a">>), Str(<<"a", "b">>), Str(<<"b", "a">>), Empty}
\* Three-atom lists of units and variables, for reduce_non_overlap.
UnitAtoms == {Var(x), Var(y), Unit("a"), Unit("b"), Unit(c1)}
\* For reduce_itos: digits, a leading zero and a non-digit around itos(n1).
ItosAtoms ==
    {ItosOf(n1), Var(x), Unit("1"), Unit(c1), Str(<<"1", "0">>), Str(<<"0">>),
     Str(<<"0", "1">>), Str(<<"a">>)}
IntVals == {-1, 0, 1, 10}
Lists(S, n) == UNION {[1..k -> S] : k \in 0..n}
MCInputs == Lists(InputAtoms, MaxAtoms) \X Lists(InputAtoms, MaxAtoms)
\* The cancellation inputs and, for reduce_non_overlap, three-atom unit lists.
CancelUnitInputs == MCInputs \cup (Lists(UnitAtoms, 3) \X Lists(UnitAtoms, 3))

Asg == [chr : [CharVars -> Chars], seq : [SeqVars -> SeqVals], int : [IntVars -> IntVals]]

CharVal(c, a) == IF c \in CharVars THEN a.chr[c] ELSE c

\* str.from_int: the decimal digits of n, or the empty string when n < 0.
ItosVal(n) ==
    LET dec[m \in 0..n] == IF m < 10 THEN <<DigitSeq[m + 1]>>
                           ELSE dec[m \div 10] \o <<DigitSeq[(m % 10) + 1]>>
    IN  IF n < 0 THEN <<>> ELSE dec[n]

AtomVal(e, a) ==
    CASE IsUnit(e)   -> <<CharVal(e.c, a)>>
      [] IsString(e) -> e.s
      [] IsItos(e)   -> ItosVal(a.int[e.n])
      [] OTHER       -> a.seq[e.x]

ListVal(es, a) ==
    LET f[i \in 0..Len(es)] == IF i = 0 THEN <<>> ELSE f[i - 1] \o AtomVal(es[i], a)
    IN  f[Len(es)]

EqHolds(q, a) ==
    CASE q.kind = "chr" -> CharVal(q.l, a) = CharVal(q.r, a)
      [] q.kind = "int" -> a.int[q.l] = q.r
      [] OTHER          -> ListVal(q.l, a) = ListVal(q.r, a)

Original(a) == ListVal(lhs0, a) = ListVal(rhs0, a)
AllEqs(a) == \A i \in 1..Len(eqs) : EqHolds(eqs[i], a)
\* The equation still to be reduced (reduce_front has not yet dropped its heads).
Residual(a) ==
    IF pc = "front" THEN ListVal(Drop(ls, h1), a) = ListVal(Drop(rs, h2), a)
    ELSE ListVal(ls, a) = ListVal(rs, a)

-----------------------------------------------------------------------------
(***************************************************************************)
(* Soundness of reduce_eq/mk_eq_core, for every assignment: while the      *)
(* stages run, l = r holds exactly when the residual ls = rs and all the   *)
(* side equations hold; a refutation (false) is only reached when l = r    *)
(* has no solution; and a rewrite to the conjunction of eqs is equivalent  *)
(* to l = r.  Violating it takes a cancellation, a clash, a length or a    *)
(* subsequence step that drops or invents a constraint.                    *)
(***************************************************************************)
ReductionSound ==
    \A a \in Asg :
        /\ result = "none"    => (Original(a) <=> (Residual(a) /\ AllEqs(a)))
        /\ result = "false"   => ~Original(a)
        /\ result = "rewrite" => (Original(a) <=> AllEqs(a))

(***************************************************************************)
(* reduce_eq always returns: every call reaches its end (each loop         *)
(* iteration shrinks ls or rs).                                            *)
(***************************************************************************)
Terminates == <>(pc = "done")

-----------------------------------------------------------------------------
\* Units of the constant characters a, b and c, for non_overlap.
ValueUnitAtoms == {Unit("a"), Unit("b"), Unit("c")}
(***************************************************************************)
(* The contract the comment above non_overlap states (and the design       *)
(* notes repeat): with |p1| <= |p2|, non_overlap(p1, p2) holds only if no  *)
(* suffix of p1 is a prefix of p2, no prefix of p1 is a suffix of p2 and   *)
(* p1 is not contained in p2.  Checked on the two sides of every input     *)
(* equation, which are lists of value units (equal terms, equal values).  *)
(***************************************************************************)
NonOverlapContract ==
    (Len(lhs0) <= Len(rhs0) /\ NonOverlap(lhs0, rhs0)) =>
        ~(SuffixIsPrefix(lhs0, rhs0) \/ PrefixIsSuffix(lhs0, rhs0) \/ Inside(lhs0, rhs0))
=============================================================================
