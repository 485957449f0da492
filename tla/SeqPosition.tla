---------------------------- MODULE SeqPosition ----------------------------
(***************************************************************************)
(* The positional rewrites of seq_rewriter: mk_seq_index(a, b, c), the    *)
(* first position at or after c where b occurs in a, with its helper      *)
(* compare_lengths; mk_seq_at(a, b), the one-character substring of a at  *)
(* b; and mk_seq_last_index(a, b), the last position where b occurs in a. *)
(* The specification picks the operation and its arguments and applies   *)
(* the rewrite once.                                                      *)
(***************************************************************************)
EXTENDS SeqTerms

CONSTANTS IndexInputs,       \* the argument triples <<a, b, c>> of indexof
          AtInputs,          \* the argument pairs <<a, b>> of at
          LastIndexInputs    \* the argument pairs <<a, b>> of last_indexof

VARIABLES op, a, b, c, status, result
vars == <<op, a, b, c, status, result>>

Done(t) == <<"rewrite", t>>
Failed  == <<"failed", Num(0)>>

MinusOne == Num(-1)
Zero     == Num(0)

\* The number of occurrences of t in the list s.
CountIn(t, s) == Len(SelectSeq(s, LAMBDA e : e = t))
UnitCount(s)  == Len(SelectSeq(s, IsUnit))

(***************************************************************************)
(* compare_lengths(as, bs): "longer" when a has more units and every      *)
(* other atom of b is matched by one of a; "same" when the units are as   *)
(* many and the other atoms match one to one; "shorter" when b has more   *)
(* units and every other atom of a is matched by one of b.  An atom of b  *)
(* beyond a's count of it is foreign; an atom of a beyond b's count is    *)
(* left in the multiset.                                                  *)
(***************************************************************************)
CompareLengths(as, bs) ==
    LET ua == UnitCount(as)
        ub == UnitCount(bs)
        foreign == \E i \in 1..Len(bs) : ~IsUnit(bs[i]) /\ CountIn(bs[i], bs) > CountIn(bs[i], as)
        left    == \E i \in 1..Len(as) : ~IsUnit(as[i]) /\ CountIn(as[i], as) > CountIn(as[i], bs)
    IN  CASE ua > ub /\ ~foreign          -> "longer"
          [] ua = ub /\ ~foreign /\ ~left -> "same"
          [] ub > ua /\ ~left             -> "shorter"
          [] OTHER                        -> "unknown"

\* The leading units of a that are distinct values from b's first unit.
SkipDistinct(as, b0) ==
    CHOOSE i \in 0..Len(as) :
        /\ \A k \in 1..i : IsUnit(as[k]) /\ AreDistinct(as[k], b0)
        /\ i < Len(as) => ~(IsUnit(as[i + 1]) /\ AreDistinct(as[i + 1], b0))

\* ite(index(rest, b, c') >= 0, i + index(rest, b, c'), -1).
Shifted(rest, B, C, i) ==
    LET r == Index(MkConcat(rest), B, C)
    IN  IIte(Le(Zero, r), Add(<<Num(i), r>>), MinusOne)

(***************************************************************************)
(* mk_seq_index(a, b, c), its cases in the order of the code.              *)
(***************************************************************************)
MkSeqIndex(A, B, C) ==
    LET as == Units(A)
        bs == Units(B)
        isZero == IsNum(C) /\ C.v = 0
        i1 == LeadUnits(as, C.v)
        i2 == IF isZero /\ bs # <<>> /\ IsUnit(bs[1]) THEN SkipDistinct(as, bs[1]) ELSE 0
        cmp == CompareLengths(as, bs)
        rbc == ReduceByChar(A, B, 4)
    IN  IF IsStr(A) /\ IsStr(B) /\ IsUnsignedNum(C) THEN Done(Num(IndexOfu(A.s, B.s, C.v)))
        ELSE IF IsNum(C) /\ C.v < 0 THEN Done(MinusOne)
        ELSE IF B = Empty /\ isZero THEN Done(C)
        ELSE IF B = Empty
        THEN Done(IIte(MkAnd(<<Le(Zero, C), Le(C, Length(A))>>), C, MinusOne))
        ELSE IF A = Empty
        THEN Done(IIte(MkAnd(<<IEq(C, Zero), IsEmptyT(B)>>), Zero, MinusOne))
        ELSE IF A = B
        THEN IF IsNum(C) THEN Done(IF C.v = 0 THEN Zero ELSE MinusOne)
             ELSE Done(IIte(IEq(Zero, C), Zero, MinusOne))
        ELSE IF A.k = "ext" /\ IsNum(A.n) /\ IsNum(C) /\ C.v > A.n.v THEN Done(MinusOne)
        ELSE IF IsNum(C) /\ i1 > 0
        THEN Done(Shifted(DropN(as, i1), B, Num(C.v - i1), i1))
        ELSE IF i2 > 0 THEN Done(Shifted(DropN(as, i2), B, C, i2))
        ELSE IF cmp = "shorter" /\ isZero THEN Done(MinusOne)
        ELSE IF cmp = "same"
        THEN Done(IIte(Le(C, MinusOne), MinusOne,
                       IIte(IEq(C, Zero), IIte(Eq(A, B), Zero, MinusOne), MinusOne)))
        ELSE IF isZero /\ as # <<>> /\ IsUnit(as[1])
        THEN LET b1 == Index(MkConcat(DropN(as, 1)), B, C)
             IN  Done(IIte(PrefixOf(B, A), Zero,
                           IIte(Le(Zero, b1), Add(<<Num(1), b1>>), MinusOne)))
        ELSE IF IsValue(B) /\ rbc[1] THEN Done(Index(rbc[2], B, C))
        ELSE Failed

(***************************************************************************)
(* The loop of mk_seq_at over the units of a, with b = r + len(t1) + ...:  *)
(* an atom among the lengths is consumed while r >= 0, a unit is the      *)
(* answer when r = 0 and no length is left, a unit is consumed while r >  *)
(* 0; anything else stops it.  Returns (i, lens, r, outcome) with i the    *)
(* number of atoms consumed, or the position of the answer.               *)
(***************************************************************************)
\* Mutant: a unit is taken as the answer at r = 0 with lengths still left.
AtWalkNoLensCheck(as, lens0, r0) ==
    LET f[k \in 0..Len(as)] ==
            IF k = 0 THEN <<0, lens0, r0, "go">>
            ELSE LET s == f[k - 1]
                 IN  IF s[4] # "go" THEN s
                     ELSE IF InSeq(as[k], s[2]) /\ s[3] >= 0 THEN <<k, Erase(s[2], as[k]), s[3], "go">>
                     ELSE IF IsUnit(as[k]) /\ s[3] = 0 THEN <<k, s[2], s[3], "unit">>
                     ELSE IF IsUnit(as[k]) /\ s[3] > 0 THEN <<k, s[2], s[3] - 1, "go">>
                     ELSE <<k - 1, s[2], s[3], "stop">>
    IN  f[Len(as)]
AtWalk(as, lens0, r0) ==
    LET f[k \in 0..Len(as)] ==
            IF k = 0 THEN <<0, lens0, r0, "go">>
            ELSE LET s  == f[k - 1]
                     ak == as[k]
                 IN  IF s[4] # "go" THEN s
                     ELSE IF InSeq(ak, s[2]) /\ s[3] >= 0 THEN <<k, Erase(s[2], ak), s[3], "go">>
                     ELSE IF IsUnit(ak) /\ s[3] = 0 /\ s[2] = <<>> THEN <<k, s[2], s[3], "unit">>
                     ELSE IF IsUnit(ak) /\ s[3] > 0 THEN <<k, s[2], s[3] - 1, "go">>
                     ELSE <<k - 1, s[2], s[3], "stop">>
    IN  f[Len(as)]

(***************************************************************************)
(* mk_seq_at(a, b), its cases in the order of the code.                    *)
(***************************************************************************)
MkSeqAt(A, B) ==
    LET gl == GetLengths(B)
        as == Units(A)
        w  == AtWalk(as, gl[2], gl[3])
        i  == w[1]
        pos == IF w[2] = <<>> THEN Num(w[3]) ELSE MkLen(w[3], w[2])
    IN  IF /\ A.k = "ext" /\ IsNum(A.i) /\ A.i.v = 0 /\ IsNum(A.n)
           /\ IsNum(B) /\ B.v < A.n.v
        THEN Done(At(A.s, B))
        ELSE IF ~gl[1] THEN Failed
        ELSE IF gl[2] = <<>> /\ gl[3] < 0 THEN Done(Empty)
        ELSE IF gl[2] = <<>> /\ A.k = "at"
        THEN Done(IF gl[3] > 0 THEN Empty ELSE A)
        ELSE IF as = <<>> THEN Done(Empty)
        ELSE IF w[4] = "unit" THEN Done(as[i])
        ELSE IF i = 0 THEN Failed
        ELSE IF i = Len(as) THEN Done(Empty)
        ELSE Done(At(MkConcat(DropN(as, i)), pos))

\* zstring::last_indexof(t): |s| for an empty t, else the last position
\* from which t matches, or -1.
ZLastIndexOf(s, t) ==
    LET occ == {i \in 0..Len(s) - Len(t) : SubSeq(s, i + 1, i + Len(t)) = t}
    IN  IF t = <<>> THEN Len(s)
        ELSE IF occ = {} THEN -1
        ELSE CHOOSE i \in occ : \A j \in occ : i >= j

\* mk_seq_last_index(a, b): two literals fold; lastindexof(a, a) is 0.
MkSeqLastIndex(A, B) ==
    IF IsStr(A) /\ IsStr(B) THEN Done(Num(ZLastIndexOf(A.s, B.s)))
    ELSE IF A = B THEN Done(Num(0))
    ELSE Failed

Init ==
    /\ \/ op = "index" /\ \E in \in IndexInputs : a = in[1] /\ b = in[2] /\ c = in[3]
       \/ op = "at" /\ \E in \in AtInputs : a = in[1] /\ b = in[2] /\ c = Num(0)
       \/ op = "last_index" /\ \E in \in LastIndexInputs : a = in[1] /\ b = in[2] /\ c = Num(0)
    /\ status = "start"
    /\ result = Num(0)

Apply(r) == status' = r[1] /\ result' = r[2] /\ UNCHANGED <<op, a, b, c>>

\* The rewriter applies mk_seq_index to indexof(a, b, c).
RewriteIndex == status = "start" /\ op = "index" /\ Apply(MkSeqIndex(a, b, c))

\* The rewriter applies mk_seq_at to at(a, b).
RewriteAt == status = "start" /\ op = "at" /\ Apply(MkSeqAt(a, b))

\* The rewriter applies mk_seq_last_index to last_indexof(a, b).
RewriteLastIndex == status = "start" /\ op = "last_index" /\ Apply(MkSeqLastIndex(a, b))

Next == RewriteIndex \/ RewriteAt \/ RewriteLastIndex

Spec == Init /\ [][Next]_vars /\ WF_vars(Next)
=============================================================================
