---------------------------- MODULE SeqPredicate ----------------------------
(***************************************************************************)
(* The Boolean rewrites of seq_rewriter: mk_seq_prefix(a, b) and          *)
(* mk_seq_suffix(a, b) (a is a prefix, suffix of b), and                  *)
(* mk_seq_contains(a, b) (b occurs in a) with its helpers                 *)
(* cannot_contain_prefix and cannot_contain_suffix.  The result is a      *)
(* Boolean term: a truth value, an equation, or a conjunction or          *)
(* disjunction of character equations, emptiness tests and residual       *)
(* predicates.  The specification picks the operation and its arguments   *)
(* and applies the rewrite once.                                          *)
(***************************************************************************)
EXTENDS SeqTerms

CONSTANTS PrefixInputs,     \* the argument pairs <<a, b>> of prefixof and suffixof
          ContainsInputs    \* the argument pairs <<a, b>> of contains

VARIABLES op, a, b, status, result
vars == <<op, a, b, status, result>>

Done(t) == <<"rewrite", t>>
Failed  == <<"failed", BoolVal(FALSE)>>

\* Mutant: the atom the walk stops at is counted as matched.
UnitsWalkStopLate(as, bs) ==
    LET f[i \in 0..Min2(Len(as), Len(bs))] ==
            IF i = 0 THEN <<FALSE, 0, <<>>, FALSE>>
            ELSE LET r == f[i - 1]
                 IN  IF r[1] \/ r[4] THEN r
                     ELSE IF as[i] = bs[i] THEN <<FALSE, i, r[3], FALSE>>
                     ELSE IF AreDistinct(as[i], bs[i]) THEN <<TRUE, i, r[3], TRUE>>
                     ELSE IF IsUnit(as[i]) /\ IsUnit(bs[i]) THEN <<FALSE, i, Append(r[3], Eq(as[i], bs[i])), FALSE>>
                     ELSE <<FALSE, i, r[3], TRUE>>
    IN  f[Min2(Len(as), Len(bs))]

(***************************************************************************)
(* The loop over the units of a and b shared by both rewrites, on the     *)
(* units in the order it visits them (reversed for suffix): equal atoms   *)
(* are skipped, distinct values refute, two units give an equation, and   *)
(* anything else stops it.  Returns (refuted, i, eqs).                    *)
(***************************************************************************)
UnitsWalk(as, bs) ==
    LET f[i \in 0..Min2(Len(as), Len(bs))] ==
            IF i = 0 THEN <<FALSE, 0, <<>>, FALSE>>     \* (refuted, i, eqs, stopped)
            ELSE LET r == f[i - 1]
                     ai == as[i]
                     bi == bs[i]
                 IN  IF r[1] \/ r[4] THEN r
                     ELSE IF ai = bi THEN <<FALSE, i, r[3], FALSE>>
                     ELSE IF AreDistinct(ai, bi) THEN <<TRUE, i, r[3], TRUE>>
                     ELSE IF IsUnit(ai) /\ IsUnit(bi) THEN <<FALSE, i, Append(r[3], Eq(ai, bi)), FALSE>>
                     ELSE <<FALSE, i - 1, r[3], TRUE>>
    IN  f[Min2(Len(as), Len(bs))]

\* The length test that ends both rewrites: a = b when |b| <= min |a|.
ByLength(A, B) ==
    IF MaxLength(B)[1] /\ MaxLength(B)[2] <= MinLength(A)[2] THEN Done(Eq(A, B)) ELSE Failed

\* prefixof(replace(a1, b, a1), b) is prefixof(a1, b) (and dually).
ReplaceSelf(A, B) == A.k = "rep" /\ A.s = A.t /\ A.p = B

(***************************************************************************)
(* mk_seq_prefix: two literals fold; an empty a is a prefix; leading      *)
(* literals of a and b are peeled; then the unit walk.                    *)
(***************************************************************************)
PrefixLiterals(A, B) ==
    LET s1 == Leftmost(A).s
        s2 == Leftmost(B).s
        as == Atoms(A)
        bs == Atoms(B)
    IN  IF Len(s1) <= Len(s2)
        THEN IF ~IsPrefixSeq(s1, s2) THEN Done(BoolVal(FALSE))
             ELSE IF A = Leftmost(A) THEN Done(BoolVal(TRUE))
             ELSE Done(PrefixOf(MkConcat(DropN(as, 1)),
                                MkConcat(<<Str(DropN(s2, Len(s1)))>> \o DropN(bs, 1))))
        ELSE IF ~IsPrefixSeq(s2, s1) THEN Done(BoolVal(FALSE))
             ELSE IF B = Leftmost(B) THEN Done(BoolVal(FALSE))
             ELSE Done(PrefixOf(MkConcat(<<Str(DropN(s1, Len(s2)))>> \o DropN(as, 1)),
                                MkConcat(DropN(bs, 1))))

MkSeqPrefix(A, B) ==
    LET as == Units(A)
        bs == Units(B)
        w  == UnitsWalk(as, bs)
        i  == w[2]
        eqs == w[3]
    IN  IF IsStr(A) /\ IsStr(B) THEN Done(BoolVal(IsPrefixSeq(A.s, B.s)))
        ELSE IF A = Empty THEN Done(BoolVal(TRUE))
        ELSE IF Leftmost(A) # Leftmost(B) /\ IsStr(Leftmost(A)) /\ IsStr(Leftmost(B))
        THEN PrefixLiterals(A, B)
        ELSE IF w[1] THEN Done(BoolVal(FALSE))
        ELSE IF i = Len(as) THEN Done(MkAnd(eqs))
        ELSE IF i = Len(bs)
        THEN Done(MkAnd(eqs \o [j \in 1..Len(as) - i |-> IsEmptyT(as[i + j])]))
        ELSE IF i > 0
        THEN Done(MkAnd(Append(eqs, PrefixOf(MkConcat(DropN(as, i)), MkConcat(DropN(bs, i))))))
        ELSE IF ReplaceSelf(A, B) THEN Done(PrefixOf(A.s, B))
        ELSE ByLength(A, B)

(***************************************************************************)
(* mk_seq_suffix: a = b and an empty a are suffixes, a suffix of an empty *)
(* b is empty; then the unit walk from the back.                          *)
(***************************************************************************)
MkSeqSuffix(A, B) ==
    LET as == Units(A)
        bs == Units(B)
        w  == UnitsWalk(Rev(as), Rev(bs))
        i  == w[2]
        eqs == w[3]
    IN  IF A = B THEN Done(BoolVal(TRUE))
        ELSE IF A = Empty THEN Done(BoolVal(TRUE))
        ELSE IF B = Empty THEN Done(IsEmptyT(A))
        ELSE IF w[1] THEN Done(BoolVal(FALSE))
        ELSE IF i = Len(as) THEN Done(MkAnd(eqs))
        ELSE IF i = Len(bs)
        THEN Done(MkAnd(eqs \o [j \in 1..Len(as) - i |-> IsEmptyT(as[Len(as) - i + 1 - j])]))
        ELSE IF i > 0
        THEN Done(MkAnd(Append(eqs, SuffixOf(MkConcat(Take(as, Len(as) - i)),
                                             MkConcat(Take(bs, Len(bs) - i))))))
        ELSE IF ReplaceSelf(A, B) THEN Done(SuffixOf(A.s, B))
        ELSE ByLength(A, B)

(***************************************************************************)
(* cannot_contain_suffix(a, b): a and b are distinct unit values, or two  *)
(* literals of which no non-empty prefix of a is a suffix of b.           *)
(* cannot_contain_prefix(a, b): distinct unit values, or two literals of  *)
(* which no non-empty suffix of a is a suffix of b (the code tests        *)
(* suffixof where its comment says prefix).                               *)
(***************************************************************************)
CannotContainSuffix(x, y) ==
    \/ AreDistinct(x, y)
    \/ /\ IsStr(x) /\ IsStr(y)
       /\ ~\E i \in 1..Len(x.s) : IsSuffixSeq(SubSeq(x.s, 1, i), y.s)
\* Mutant: any two different unit terms count as distinct, variables included.
CannotContainPrefixAnyUnit(x, y) ==
    \/ IsUnit(x) /\ IsUnit(y) /\ x # y
    \/ /\ IsStr(x) /\ IsStr(y)
       /\ ~\E i \in 0..Len(x.s) - 1 : IsSuffixSeq(SubSeq(x.s, i + 1, Len(x.s)), y.s)
CannotContainPrefix(x, y) ==
    \/ AreDistinct(x, y)
    \/ /\ IsStr(x) /\ IsStr(y)
       /\ ~\E i \in 0..Len(x.s) - 1 : IsSuffixSeq(SubSeq(x.s, i + 1, Len(x.s)), y.s)

\* The syntactic search: bs occurs in as at some offset, atom for atom.
OccursIn(bs, as) ==
    \E i \in 0..Len(as) - Len(bs) : \A j \in 1..Len(bs) : as[i + j] = bs[j]

\* The leading atoms of as that cannot begin b's first atom b0.
LeadSkip(as, b0) ==
    CHOOSE o \in 0..Len(as) :
        /\ \A k \in 1..o : CannotContainPrefix(as[k], b0)
        /\ o < Len(as) => ~CannotContainPrefix(as[o + 1], b0)

\* Then the trailing atoms after offs that cannot end b's last atom bL.
TrailKeep(as, offs, bL) ==
    CHOOSE z \in offs..Len(as) :
        /\ \A k \in z + 1..Len(as) : CannotContainSuffix(as[k], bL)
        /\ z > offs => ~CannotContainSuffix(as[z], bL)

\* contains over all-unit lists: b's units equal as's at some offset.
UnitsOr(as, bs) ==
    MkOr([i \in 1..Len(as) - Len(bs) + 1 |->
            MkAnd([j \in 1..Len(bs) |-> Eq(as[i - 1 + j], bs[j])])])

(***************************************************************************)
(* mk_seq_contains(a, b), its cases in the order of the code.              *)
(***************************************************************************)
MkSeqContains(A, B) ==
    LET as   == Units(A)
        bs   == Units(B)
        lenA == MinLengthList(as)
        offs == LeadSkip(as, bs[1])
        sz   == TrailKeep(as, offs, bs[Len(bs)])
        rbc  == ReduceByChar(A, B, 4)
        allUnits == \A i \in 1..Len(as) : IsUnit(as[i])
    IN  IF IsStr(A) /\ IsStr(B)
        THEN Done(BoolVal(\E i \in 0..Len(A.s) - Len(B.s) : SubSeq(A.s, i + 1, i + Len(B.s)) = B.s))
        ELSE IF B.k = "ext" /\ B.s = A THEN Done(BoolVal(TRUE))
        ELSE IF bs = <<>> THEN Done(BoolVal(TRUE))
        ELSE IF as = <<>> THEN Done(IsEmptyT(B))
        ELSE IF OccursIn(bs, as) THEN Done(BoolVal(TRUE))
        ELSE IF /\ \A i \in 1..Len(bs) : IsValue(bs[i])
                /\ \A i \in 1..Len(as) : IsValue(as[i])
        THEN Done(BoolVal(FALSE))
        ELSE IF lenA[1] /\ MinLengthList(bs)[2] > lenA[2] THEN Done(BoolVal(FALSE))
        ELSE IF offs = sz THEN Done(IsEmptyT(B))
        ELSE IF offs > 0 \/ sz < Len(as)
        THEN Done(Contains(MkConcat(SubSeq(as, offs + 1, sz)), B))
        ELSE IF allUnits /\ \A i \in 1..Len(bs) : IsUnit(bs[i])
        THEN Done(UnitsOr(as, bs))
        ELSE IF Len(bs) = 1 /\ IsUnit(bs[1]) /\ Len(as) > 1
        THEN Done(MkOr([i \in 1..Len(as) |-> Contains(as[i], bs[1])]))
        ELSE IF IsValue(B) /\ rbc[1] THEN Done(Contains(rbc[2], B))
        ELSE Failed

Init ==
    /\ \/ op \in {"prefix", "suffix"} /\ \E in \in PrefixInputs : a = in[1] /\ b = in[2]
       \/ op = "contains" /\ \E in \in ContainsInputs : a = in[1] /\ b = in[2]
    /\ status = "start"
    /\ result = BoolVal(FALSE)

Apply(r) == status' = r[1] /\ result' = r[2] /\ UNCHANGED <<op, a, b>>

\* The rewriter applies mk_seq_prefix to prefixof(a, b).
RewritePrefix == status = "start" /\ op = "prefix" /\ Apply(MkSeqPrefix(a, b))

\* The rewriter applies mk_seq_suffix to suffixof(a, b).
RewriteSuffix == status = "start" /\ op = "suffix" /\ Apply(MkSeqSuffix(a, b))

\* The rewriter applies mk_seq_contains to contains(a, b).
RewriteContains == status = "start" /\ op = "contains" /\ Apply(MkSeqContains(a, b))

Next == RewritePrefix \/ RewriteSuffix \/ RewriteContains

Spec == Init /\ [][Next]_vars /\ WF_vars(Next)
=============================================================================
