----------------------------- MODULE SeqExtract -----------------------------
(***************************************************************************)
(* seq_rewriter::mk_seq_extract(a, b, c): one rewrite of extract(a, b, c), *)
(* the substring of a from offset b of length c, with its helpers          *)
(* extract_pop_suffix, extract_push_offset, extract_push_length,           *)
(* is_suffix and is_prefix.  The rewrite is a function of its arguments:  *)
(* the specification picks an argument triple, applies the rewrite once   *)
(* and records its status (BR_DONE or a BR_REWRITE* are "rewrite",        *)
(* BR_FAILED is "failed") and result.                                     *)
(***************************************************************************)
EXTENDS SeqTerms

CONSTANT Inputs   \* the argument triples <<a, b, c>>

VARIABLES a, b, c, status, result
vars == <<a, b, c, status, result>>

Done(t)   == <<"rewrite", t>>
Failed    == <<"failed", Empty>>

(***************************************************************************)
(* is_suffix(s, offset, len): len = len(s) - offset (plus further lengths) *)
(* for a positive numeral offset.  is_prefix(s, offset, len): offset 0 and *)
(* len = len(s) - k for a numeral k > 0.                                   *)
(***************************************************************************)
\* Mutant: the offset is not compared with the numeral of the length.
IsSuffixAnyOffset(s, off, len) ==
    LET gl == GetLengths(len)
    IN  /\ gl[1]
        /\ IsNum(off) /\ off.v > 0
        /\ InSeq(s, gl[2])

IsSuffix(s, off, len) ==
    LET gl == GetLengths(len)
    IN  /\ gl[1]
        /\ IsNum(off) /\ off.v > 0
        /\ -gl[3] = off.v
        /\ InSeq(s, gl[2])
IsPrefix(s, off, len) ==
    LET gl == GetLengths(len)
    IN  /\ gl[1]
        /\ gl[3] < 0
        /\ IsNum(off) /\ off.v = 0
        /\ gl[2] = <<s>>

\* The loop of extract_push_offset and extract_push_length: it consumes the
\* atoms whose length is among lens, and units while pos is positive.
RECURSIVE PushWalk(_, _, _, _)
PushWalk(as, i, lens, pos) ==
    IF i = Len(as) THEN <<i, lens, pos>>
    ELSE IF InSeq(as[i + 1], lens) THEN PushWalk(as, i + 1, Erase(lens, as[i + 1]), pos)
    ELSE IF IsUnit(as[i + 1]) /\ pos > 0 THEN PushWalk(as, i + 1, lens, pos - 1)
    ELSE <<i, lens, pos>>

(***************************************************************************)
(* extract_pop_suffix: with numerals b, c and a prefix of the atoms whose  *)
(* minimal length already reaches b + c, the atoms after it are dropped.   *)
(***************************************************************************)
ExtractPopSuffix(as, B, C) ==
    IF /\ as # <<>> /\ IsNum(B) /\ IsNum(C)
       /\ MinLengthList(as)[2] >= B.v + C.v /\ B.v >= 0 /\ C.v >= 0
    THEN LET need == B.v + C.v
             i == IF need = 0 THEN 0
                  ELSE CHOOSE k \in 1..Len(as) :
                          /\ MinLengthList(Take(as, k))[2] >= need
                          /\ MinLengthList(Take(as, k - 1))[2] < need
         IN  IF i < Len(as) THEN Done(Ext(MkConcat(Take(as, i)), B, C)) ELSE Failed
    ELSE Failed

(***************************************************************************)
(* extract_push_offset: b = k + len(t1) + ...: leading atoms of a covered  *)
(* by b are dropped and b is reduced by them.                              *)
(***************************************************************************)
ExtractPushOffset(as, B, C) ==
    LET gl == GetLengths(B)
        w  == PushWalk(as, 0, gl[2], gl[3])
    IN  IF gl[1] /\ gl[3] >= 0 /\ w[1] # 0
        THEN Done(Ext(MkConcat(DropN(as, w[1])), MkLen(w[3], w[2]), C))
        ELSE Failed

(***************************************************************************)
(* extract_push_length: b = 0 and c = k + len(t1) + ... with k >= 0: the   *)
(* leading atoms covered by c are kept whole and only the rest extracted.  *)
(***************************************************************************)
ExtractPushLength(as, B, C) ==
    LET gl == GetLengths(C)
        w  == PushWalk(as, 0, gl[2], gl[3])
    IN  IF /\ as # <<>> /\ IsNum(B) /\ B.v = 0 /\ gl[1] /\ gl[3] >= 0
        THEN IF w[1] = Len(as) THEN Done(MkConcat(as))
             ELSE IF w[1] # 0
             THEN Done(MkConcat(Take(as, w[1])
                          \o <<Ext(MkConcat(DropN(as, w[1])), B, MkLen(w[3], w[2]))>>))
             ELSE Failed
        ELSE Failed

\* extract of an extract (a = extract(a1, b1, c1)), the six cases in order.
NestedExtract(A, B, C, constantPos, constantLen) ==
    LET a1 == A.s
        b1 == A.i
        c1 == A.n
    IN  IF A.k # "ext" THEN Failed
        ELSE IF IsSuffix(a1, b1, c1) /\ IsSuffix(A, B, C)
        THEN Done(Ext(a1, Add(<<b1, B>>), Sub(c1, B)))
        ELSE IF /\ IsUnsignedNum(b1) /\ IsUnsignedNum(c1) /\ constantPos /\ constantLen
                /\ \/ b1.v = 0 /\ c1.v >= B.v + C.v
                   \/ B.v <= c1.v
        THEN IF b1.v = 0 /\ c1.v >= B.v + C.v THEN Done(Ext(a1, B, C))
             ELSE Done(Ext(a1, Num(b1.v + B.v), Num(Min2(c1.v - B.v, C.v))))
        ELSE IF IsPrefix(a1, b1, c1) /\ IsPrefix(A, B, C)
        THEN Done(Ext(a1, B, Sub(c1, Sub(Length(A), C))))
        ELSE IF IsPrefix(A, B, C) /\ IsSuffix(a1, b1, c1)
        THEN Done(Ext(a1, b1, Add(<<c1, Sub(C, Length(A))>>)))
        ELSE IF constantPos /\ B.v = 0 /\ C = Length(a1)
        THEN Done(A)
        ELSE IF constantPos /\ B.v = 0 /\ C = c1
        THEN Done(A)
        ELSE IF IsSuffix(A, B, C) /\ IsNum(c1) /\ IsNum(b1)
        THEN Done(Ext(a1, Add(<<B, b1>>), Sub(c1, B)))
        ELSE Failed

\* ite(c >= n, as[1..n], ite(c >= n-1, ..., ite(c >= 1, as[1], empty))).
IteChain(as, C) ==
    LET f[i \in 0..Len(as)] ==
            IF i = 0 THEN Empty ELSE Ite(C, i, MkConcat(Take(as, i)), f[i - 1])
    IN  f[Len(as)]

(***************************************************************************)
(* The tail of mk_seq_extract for a numeral offset: leading units are      *)
(* counted up to the offset, and consumed.                                 *)
(***************************************************************************)
ExtractUnits(as, B, C, constantLen) ==
    LET pos == B.v
        offset == LeadUnits(as, pos)
        rest == DropN(as, offset)
        i == offset + LeadUnits(rest, C.v)
    IN  IF offset = 0 /\ pos > 0 THEN Failed
        ELSE IF pos = 0 /\ \A j \in 1..Len(as) : IsUnit(as[j]) THEN Done(IteChain(as, C))
        ELSE IF pos = 0 /\ ~constantLen THEN Failed
        ELSE IF offset = Len(as) THEN Done(Empty)
        ELSE IF constantLen /\ pos = offset /\ i - offset = C.v
        THEN Done(MkConcat(SubSeq(as, offset + 1, offset + C.v)))
        ELSE IF constantLen /\ pos = offset /\ i = Len(as)
        THEN Done(MkConcat(rest))
        ELSE IF offset = 0 THEN Failed
        ELSE Done(Ext(MkConcat(rest), Sub(B, Num(offset)), C))

(***************************************************************************)
(* mk_seq_extract(a, b, c), its cases in the order of the code.            *)
(***************************************************************************)
MkSeqExtract(A, B, C) ==
    LET constantBase == A.k = "str"
        constantPos0 == IsNum(B)
        constantLen0 == IsNum(C)
        ml == MaxLength(A)
        constantPos == constantPos0 /\ B.v >= 0
        constantLen == constantLen0 /\ C.v >= 0
        as == Units(A)
        pop == ExtractPopSuffix(as, B, C)
        pushOff == ExtractPushOffset(as, B, C)
        pushLen == ExtractPushLength(as, B, C)
        nested == NestedExtract(A, B, C, constantPos, constantLen)
    IN  IF SignOf(C) = "neg" THEN Done(Empty)
        ELSE IF (constantPos0 /\ B.v < 0) \/ (constantLen0 /\ C.v <= 0) THEN Done(Empty)
        ELSE IF constantPos0 /\ constantBase /\ B.v >= Len(A.s) THEN Done(Empty)
        ELSE IF constantPos0 /\ ml[1] /\ ml[2] <= B.v THEN Done(Empty)
        ELSE IF constantPos /\ constantLen /\ C.v = 1 THEN Done(At(A, B))
        ELSE IF constantPos /\ constantLen /\ constantBase
        THEN Done(Str(SubSeq(A.s, B.v + 1, Min2(B.v + C.v, Len(A.s)))))
        ELSE IF as = <<>> THEN Done(Empty)
        ELSE IF pop[1] = "rewrite" THEN pop
        ELSE IF pushOff[1] = "rewrite" THEN pushOff
        ELSE IF pushLen[1] = "rewrite" THEN pushLen
        ELSE IF nested[1] = "rewrite" THEN nested
        ELSE IF ~constantPos THEN Failed
        ELSE ExtractUnits(as, B, C, constantLen)

Init ==
    /\ \E in \in Inputs : a = in[1] /\ b = in[2] /\ c = in[3]
    /\ status = "start"
    /\ result = Empty

\* The rewriter applies mk_seq_extract to extract(a, b, c).
Rewrite ==
    /\ status = "start"
    /\ LET r == MkSeqExtract(a, b, c)
       IN  status' = r[1] /\ result' = r[2]
    /\ UNCHANGED <<a, b, c>>

Next == Rewrite

Spec == Init /\ [][Next]_vars /\ WF_vars(Next)
=============================================================================
