--------------------------- MODULE ReduceEqProofs ---------------------------
(***************************************************************************)
(* Proofs about non_overlap on unit lists, for sequences of every length:  *)
(* whenever |p1| <= |p2| and non_overlap(p1, p2) returns true, p1 occurs   *)
(* nowhere inside p2 and no proper prefix of p1 ends p2.  The argument is  *)
(* that each such occurrence is a run of equal atoms that one iteration    *)
(* of the second or third loop of non_overlap compares, and can_overlap    *)
(* returns true on a run of equal atoms.  The reducer never changes the    *)
(* inputs lhs0, rhs0, so this holds of them in every state.                *)
(***************************************************************************)
EXTENDS ReduceEq, TLAPS

\* can_overlap(s1, e1, s2) returns true when every pair it compares is the
\* same term: the loop runs to its end.
LEMMA EqualRunOverlaps ==
    ASSUME NEW p1, NEW p2, NEW s1 \in Int, NEW e1 \in Int, NEW s2 \in Int,
           \A i \in s1..e1 - 1 : p1[i + 1] = p2[s2 + i + 1]
    PROVE  CanOverlap(p1, p2, s1, e1, s2)
BY DEF CanOverlap

\* An occurrence of p1 inside p2 is found by the second loop, or by the
\* third at the last offset sz2 - sz1.
LEMMA InsideCaught ==
    ASSUME NEW S, NEW p1 \in Seq(S), NEW p2 \in Seq(S),
           Len(p1) <= Len(p2), Inside(p1, p2)
    PROVE  ~NonOverlapOrdered(p1, p2)
<1> DEFINE sz1 == Len(p1)
           sz2 == Len(p2)
<1> SUFFICES ASSUME NonOverlapOrdered(p1, p2) PROVE FALSE
    OBVIOUS
<1>0. sz1 # 0
    BY DEF NonOverlapOrdered
<1>1. PICK j \in 0..sz2 - sz1 : SubSeq(p2, j + 1, j + sz1) = p1
    BY DEF Inside
<1>2. \A i \in 0..sz1 - 1 : p1[i + 1] = p2[j + i + 1]
    <2> SUFFICES ASSUME NEW i \in 0..sz1 - 1 PROVE p1[i + 1] = p2[j + i + 1]
        OBVIOUS
    <2>1. SubSeq(p2, j + 1, j + sz1)[i + 1] = p2[j + i + 1]
        OBVIOUS
    <2> QED
        BY <1>1, <2>1
<1>3. CanOverlap(p1, p2, 0, sz1, j)
    BY <1>2, EqualRunOverlaps
<1>4. CASE j \in 0..sz2 - sz1 - 1
    BY <1>3, <1>4 DEF NonOverlapOrdered
<1>5. CASE j = sz2 - sz1
    <2>1. j \in sz2 - sz1..sz2 - 1 /\ sz2 - j = sz1
        BY <1>5, <1>0
    <2> QED
        BY <1>3, <2>1 DEF NonOverlapOrdered
<1> QED
    BY <1>4, <1>5

\* A proper prefix of p1 that ends p2 is found by the third loop.
LEMMA PrefixSuffixCaught ==
    ASSUME NEW S, NEW p1 \in Seq(S), NEW p2 \in Seq(S),
           Len(p1) <= Len(p2), PrefixIsSuffix(p1, p2)
    PROVE  ~NonOverlapOrdered(p1, p2)
<1> DEFINE sz1 == Len(p1)
           sz2 == Len(p2)
<1>1. PICK k \in 1..sz1 - 1 :
        k <= sz2 /\ SubSeq(p1, 1, k) = SubSeq(p2, sz2 - k + 1, sz2)
    BY DEF PrefixIsSuffix
<1> DEFINE j == sz2 - k
<1>2. \A i \in 0..k - 1 : p1[i + 1] = p2[j + i + 1]
    <2> SUFFICES ASSUME NEW i \in 0..k - 1 PROVE p1[i + 1] = p2[j + i + 1]
        OBVIOUS
    <2>1. SubSeq(p1, 1, k)[i + 1] = p1[i + 1]
        BY <1>1
    <2>2. SubSeq(p2, sz2 - k + 1, sz2)[i + 1] = p2[j + i + 1]
        BY <1>1
    <2> QED
        BY <1>1, <2>1, <2>2
<1>3. CanOverlap(p1, p2, 0, k, j)
    <2>1. {i \in 0..k - 1 : p1[i + 1] # p2[j + i + 1]} = {}
        BY <1>2
    <2> QED
        BY <2>1 DEF CanOverlap
<1>4. j \in sz2 - sz1..sz2 - 1 /\ sz2 - j = k
    BY <1>1
<1> QED
    BY <1>3, <1>4 DEF NonOverlapOrdered

(***************************************************************************)
(* For all sequences p1 and p2 (of atoms or of anything else): when        *)
(* |p1| <= |p2| and non_overlap(p1, p2) returns true, p1 is not inside p2  *)
(* and no proper prefix of p1 is a suffix of p2.                           *)
(***************************************************************************)
THEOREM NonOverlapDetectsAll ==
    ASSUME NEW S, NEW p1 \in Seq(S), NEW p2 \in Seq(S)
    PROVE  NonOverlapDetects(p1, p2)
<1> SUFFICES ASSUME Len(p1) <= Len(p2), NonOverlap(p1, p2)
             PROVE  ~(PrefixIsSuffix(p1, p2) \/ Inside(p1, p2))
    BY DEF NonOverlapDetects
<1>1. NonOverlapOrdered(p1, p2)
    BY DEF NonOverlap
<1> QED
    BY <1>1, InsideCaught, PrefixSuffixCaught

\* The inputs are lists of atoms.
InputsOK == lhs0 \in Seq(Atom) /\ rhs0 \in Seq(Atom)

\* reduce_eq works on copies (ls, rs) and never changes the inputs whose
\* hashes it compares at the end.
LEMMA StepKeepsInputs == [Next]_vars => UNCHANGED <<lhs0, rhs0>>
BY DEF Next, vars, Flatten, BackStep, BackExit, FrontStep, FrontExit, Itos1,
       Itos2, Clash, ByLength, Subsequence, Overlap1, Overlap2, Finish

LEMMA InputsInvariant == Spec => []InputsOK
<1>1. Init => InputsOK
    <2> SUFFICES ASSUME Init PROVE InputsOK
        OBVIOUS
    <2>1. PICK in \in Inputs : lhs0 = in[1] /\ rhs0 = in[2]
        BY DEF Init
    <2> QED
        BY <2>1, InputsAssumption DEF InputsOK
<1>2. InputsOK /\ [Next]_vars => InputsOK'
    BY StepKeepsInputs DEF InputsOK
<1> QED
    BY <1>1, <1>2, PTL DEF Spec

(***************************************************************************)
(* NonOverlapSound holds in every state of the reducer, for every input    *)
(* set of atom lists: reduce_non_overlap may rely on non_overlap ruling    *)
(* out containment and prefix/suffix overlaps of the unit lists it is      *)
(* given, whatever their lengths.                                          *)
(***************************************************************************)
THEOREM NonOverlapSoundThm == Spec => []NonOverlapSound
<1>1. InputsOK => NonOverlapSound
    BY NonOverlapDetectsAll DEF InputsOK, NonOverlapSound
<1> QED
    BY <1>1, InputsInvariant, PTL
=============================================================================
