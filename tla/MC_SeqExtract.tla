---------------------------- MODULE MC_SeqExtract ----------------------------
(***************************************************************************)
(* mk_seq_extract on the extracts of a few base terms: literals, units,    *)
(* variables, their concatenations, an at, and extracts of a variable in   *)
(* the forms the rewriter leaves unreduced (a suffix, a suffix with a      *)
(* further length summand, a prefix, numeral bounds).  Offsets and lengths *)
(* are numerals from -1 to 3, lengths of x and of the base, sums of them,  *)
(* a negated length and an integer variable.                               *)
(***************************************************************************)
EXTENDS SeqExtract, SeqSemantics, TLC

CONSTANTS x, y, cv, n

\* Strings of length at most 3, so that an extract can drop from both ends.
MCSeqVals == UNION {[1..k -> Chars] : k \in 0..3}
MCIntVals == -1..3

X == Var(x)
Y == Var(y)
\* The inner extracts: each is one mk_seq_extract leaves as it is.
SuffixX      == Ext(X, Num(1), Add(<<Num(-1), Length(X)>>))
SuffixXPlusY == Ext(X, Num(1), Add(<<Num(-1), Length(X), Length(Y)>>))
PrefixX      == Ext(X, Num(0), Add(<<Num(-1), Length(X)>>))
NumExtX      == Ext(X, Num(1), Num(2))
Bases ==
    {Str(<<"a", "b">>), Str(<<"a", "b", "a">>), X,
     Cat(<<Unit("a"), X>>), Cat(<<Unit("a"), Unit(cv)>>), Cat(<<Unit(cv), Unit("b"), X>>),
     Cat(<<X, Unit("a")>>), Cat(<<X, Y>>), Cat(<<Str(<<"a", "b">>), X>>),
     Cat(<<At(X, Num(0)), Unit("b")>>),
     SuffixX, PrefixX, NumExtX}
Offsets ==
    {Num(-1), Num(0), Num(1), Num(2), Num(3), Length(X),
     Add(<<Num(1), Length(X)>>), IVar(n)}
Lengths ==
    {Num(-1), Num(0), Num(1), Num(2), Num(3), Length(X), IVar(n),
     Mul(Num(-1), Length(X)), Add(<<Num(1), Length(X)>>), Add(<<Length(X), Length(Y)>>)}
\* Lengths that refer to the base: its length, minus one or two, and those of
\* the inner extract.
BaseLengths(A) ==
    {Length(A), Add(<<Num(-1), Length(A)>>), Add(<<Num(-2), Length(A)>>)}
    \cup (IF A.k = "ext" THEN {A.n, Length(A.s)} ELSE {})
InputsOf(As) == UNION {{<<A, B, C>> : B \in Offsets, C \in Lengths \cup BaseLengths(A)} : A \in As}
MCInputs == InputsOf(Bases)
\* With the inner suffix extract whose length has a further summand len(y).
MCInputsExtraSuffix == InputsOf(Bases \cup {SuffixXPlusY})

-----------------------------------------------------------------------------
(***************************************************************************)
(* Soundness of mk_seq_extract: whenever it rewrites extract(a, b, c), the *)
(* result denotes the same string as the extract, under every assignment   *)
(* of the variables.                                                       *)
(***************************************************************************)
ExtractSound ==
    status = "rewrite" =>
        \A g \in Asg : SVal(result, g) = Substr(SVal(a, g), IVal(b, g), IVal(c, g))
=============================================================================
