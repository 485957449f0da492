---------------------------- MODULE SeqReplace ----------------------------
(***************************************************************************)
(* seq_rewriter::mk_seq_replace(a, b, c) and mk_seq_replace_all(a, b, c): *)
(* one rewrite of replace(a, b, c) (the first occurrence of b in a        *)
(* replaced by c) or of replace_all(a, b, c), with the helpers             *)
(* try_get_unit_values and replace_all_subvectors.  The specification     *)
(* picks the operation and its arguments and applies the rewrite once.    *)
(***************************************************************************)
EXTENDS SeqTerms

CONSTANT Inputs   \* the argument triples <<a, b, c>>

VARIABLES op, a, b, c, status, result
vars == <<op, a, b, c, status, result>>

Done(t) == <<"rewrite", t>>
Failed  == <<"failed", Empty>>

(***************************************************************************)
(* compare_at_i(i): is b's unit list bs a prefix of as from position i     *)
(* (0-based)?  Pairs are compared while both lists last: equal terms go    *)
(* on, two distinct unit values give FALSE, anything else "undef"; TRUE    *)
(* when the comparison runs out.                                           *)
(***************************************************************************)
CompareAtI(as, bs, i) ==
    LET js == {j \in 0..Min2(Len(bs), Len(as) - i) - 1 : as[i + j + 1] # bs[j + 1]}
        j  == CHOOSE k \in js : \A l \in js : k <= l
    IN  IF js = {} THEN "true"
        ELSE IF IsUnit(as[i + j + 1]) /\ IsUnit(bs[j + 1])
                /\ AreDistinct(as[i + j + 1], bs[j + 1]) THEN "false"
        ELSE "undef"

\* The loop's stopping position: the first i whose comparison is not a
\* refutation at a unit of a; Len(as) when every position is refuted.
\* Mutant: the loop also steps over positions that are not units.
ReplaceStopAnyAtom(as, bs) ==
    CHOOSE i \in 0..Len(as) :
        /\ \A k \in 0..i - 1 : CompareAtI(as, bs, k) = "false"
        /\ i < Len(as) => CompareAtI(as, bs, i) # "false"
ReplaceStop(as, bs) ==
    CHOOSE i \in 0..Len(as) :
        /\ \A k \in 0..i - 1 : CompareAtI(as, bs, k) = "false" /\ IsUnit(as[k + 1])
        /\ i < Len(as) => ~(CompareAtI(as, bs, i) = "false" /\ IsUnit(as[i + 1]))

(***************************************************************************)
(* mk_seq_replace(a, b, c), its cases in the order of the code.           *)
(***************************************************************************)
MkSeqReplace(A, B, C) ==
    LET lhs == Atoms(A)
        as  == Units(A)
        bs  == Units(B)
        i   == ReplaceStop(as, bs)
        cmp == CompareAtI(as, bs, i)
        a1  == MkConcat(Take(as, i))
        a2  == MkConcat(DropN(as, i))
    IN  IF IsStr(A) /\ IsStr(B) /\ IsStr(C) THEN Done(Str(ZReplace(A.s, B.s, C.s)))
        ELSE IF B = C THEN Done(A)
        ELSE IF A = B THEN Done(C)
        ELSE IF B = Empty THEN Done(Cat(<<C, A>>))
        ELSE IF A = Empty /\ C = Empty THEN Done(A)
        ELSE IF lhs = <<>>
        THEN IF MinLengthList(Atoms(B))[2] > 0 THEN Done(A) ELSE Failed
        ELSE IF lhs[1] = B THEN Done(MkConcat(<<C>> \o Tail(lhs)))
        ELSE IF /\ IsStr(B) /\ IsStr(C) /\ IsStr(lhs[1])
                /\ IndexOfu(lhs[1].s, B.s, 0) >= 0
        THEN Done(MkConcat(<<Str(ZReplace(lhs[1].s, B.s, C.s))>> \o Tail(lhs)))
        ELSE IF bs = <<>> THEN Done(Cat(<<C, A>>))
        ELSE IF i < Len(as) /\ cmp = "true" /\ Len(as) < i + Len(bs)
        THEN Done(SIte(Eq(a2, B), Cat(<<a1, C>>), A))
        ELSE IF i < Len(as) /\ cmp = "true"
        THEN Done(MkConcat(Take(as, i) \o <<C>> \o DropN(as, i + Len(bs))))
        ELSE IF i > 0 THEN Done(Cat(<<a1, Rep(a2, B, C)>>))
        ELSE Failed

(***************************************************************************)
(* try_get_unit_values(s): s is a unit value or a concatenation whose     *)
(* heads are unit values down to a last unit value; returns (ok, units).   *)
(***************************************************************************)
RECURSIVE TryGetUnitValues(_)
TryGetUnitValues(e) ==
    IF e.k = "cat"
    THEN LET n    == Len(e.es)
             rest == TryGetUnitValues(e.es[n])
         IN  IF (\A k \in 1..n - 1 : IsValue(e.es[k])) /\ rest[1]
             THEN <<TRUE, SubSeq(e.es, 1, n - 1) \o rest[2]>>
             ELSE <<FALSE, <<>>>>
    ELSE IF IsValue(e) THEN <<TRUE, <<e>>>> ELSE <<FALSE, <<>>>>

\* replace_all_subvectors(a, b, c): left to right, each occurrence of the
\* list bs in as from position i on becomes c, other elements stay.
RECURSIVE ReplaceAllSubvectors(_, _, _, _)
ReplaceAllSubvectors(as, bs, C, i) ==
    IF i + Len(bs) > Len(as) THEN DropN(as, i)
    ELSE IF SubSeq(as, i + 1, i + Len(bs)) = bs
    THEN <<C>> \o ReplaceAllSubvectors(as, bs, C, i + Len(bs))
    ELSE <<as[i + 1]>> \o ReplaceAllSubvectors(as, bs, C, i + 1)

\* The literal loop of mk_seq_replace_all over s1 from position i.
RECURSIVE ReplaceAllChars(_, _, _, _)
ReplaceAllChars(s1, s2, C, i) ==
    IF i >= Len(s1) THEN <<>>
    ELSE IF Len(s1) >= Len(s2) + i /\ SubSeq(s1, i + 1, i + Len(s2)) = s2
    THEN <<C>> \o ReplaceAllChars(s1, s2, C, i + Len(s2))
    ELSE <<Unit(s1[i + 1])>> \o ReplaceAllChars(s1, s2, C, i + 1)

(***************************************************************************)
(* mk_seq_replace_all(a, b, c), its cases in the order of the code.       *)
(***************************************************************************)
MkSeqReplaceAll(A, B, C) ==
    LET av == TryGetUnitValues(A)
        bv == TryGetUnitValues(B)
    IN  IF B = Empty \/ B = C THEN Done(A)
        ELSE IF A = B THEN Done(SIte(IsEmptyT(B), Empty, C))
        ELSE IF A = Empty /\ C = Empty THEN Done(A)
        ELSE IF IsStr(A) /\ IsStr(B)
        THEN IF Len(A.s) < Len(B.s) THEN Done(A)
             ELSE Done(MkConcat(ReplaceAllChars(A.s, B.s, C, 0)))
        ELSE IF av[1] /\ bv[1]
        THEN Done(MkConcat(ReplaceAllSubvectors(av[2], bv[2], C, 0)))
        ELSE Failed

Init ==
    /\ op \in {"replace", "replace_all"}
    /\ \E in \in Inputs : a = in[1] /\ b = in[2] /\ c = in[3]
    /\ status = "start"
    /\ result = Empty

Apply(r) == status' = r[1] /\ result' = r[2] /\ UNCHANGED <<op, a, b, c>>

\* The rewriter applies mk_seq_replace to replace(a, b, c).
RewriteReplace == status = "start" /\ op = "replace" /\ Apply(MkSeqReplace(a, b, c))

\* The rewriter applies mk_seq_replace_all to replace_all(a, b, c).
RewriteReplaceAll == status = "start" /\ op = "replace_all" /\ Apply(MkSeqReplaceAll(a, b, c))

Next == RewriteReplace \/ RewriteReplaceAll

Spec == Init /\ [][Next]_vars /\ WF_vars(Next)
=============================================================================
