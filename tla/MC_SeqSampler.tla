--------------------------- MODULE MC_SeqSampler ---------------------------
(***************************************************************************)
(* Instance of SeqSampler for TLC: the characters 0..3 with 'a' as 1, so   *)
(* that the character loop can wrap, and regexes whose derivatives take    *)
(* each branch of the search.                                              *)
(***************************************************************************)
EXTENDS SeqSampler

\* A literal, a nullable star before a literal, and a union.
Lit20     == RLit(<<2, 0>>)
StarThen3 == RCat(RStar(RRange(0, 1)), RLit(<<3>>))
Union3or0 == RUnion(RLit(<<3>>), RRange(0, 0))
\* Non-empty words starting with 0: the else-branch of 1..3 wraps to 0.
Starts0   == RInter(RDotPlus, RComp(RCat(RRange(1, 3), RFull)))
\* Empty: the intersection prunes every branch.
Disjoint  == RInter(RCat(RRange(1, 3), RFull), RComp(RCat(RRange(1, 3), RFull)))
\* Empty: even and odd numbers of 0s; the derivatives cycle.
EvenOdd   == RInter(RStar(RLit(<<0, 0>>)), RCat(RRange(0, 0), RStar(RLit(<<0, 0>>))))
\* A range then the complement of a literal; the complement of .*; a
\* literal before a union.
ThenNot1  == RCat(RRange(0, 3), RComp(RLit(<<1>>)))
NoWord    == RComp(RFull)
OneThen   == RCat(RLit(<<1>>), RUnion(RRange(2, 3), RLit(<<0, 0>>)))
\* Concatenations of two atoms, and their complements.
Atoms     == {RRange(0, 1), RRange(1, 3), RLit(<<2>>), RDotPlus}
Pairs     == {RCat(p, q) : p, q \in Atoms}
MCInputs  == {Lit20, StarThen3, Union3or0, Starts0, Disjoint, EvenOdd, ThenNot1, NoWord, OneThen}
                \cup Pairs \cup {RComp(p) : p \in Pairs}

\* The intersection of an else-branch ite with a range overlapping the
\* then-branch's: starts with neither 0 nor 1, and with 1 or 2.
Overlap   == RInter(RComp(RCat(RRange(0, 1), RFull)), RCat(RRange(1, 2), RFull))
\* Words starting with 0..2 and with 1..3: the then-branch of 0..2 is an
\* ite on 1..3 about the same character.
Nested    == RInter(RCat(RRange(0, 2), RFull), RCat(RRange(1, 3), RFull))
MCUnsoundInputs == {Overlap}
\* The second unsound case, for Inputs <- MCNestedInputs.
MCNestedInputs  == {Nested}
=============================================================================
